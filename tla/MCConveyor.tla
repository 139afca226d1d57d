------------------------------ MODULE MCConveyor ------------------------------
(* Conveyor on small sets of jobs and workers. *)
EXTENDS Conveyor, TLC

\* Workers are interchangeable, and so are jobs: born is a number, not a name.
Symmetric == Permutations(Workers) \cup Permutations(Jobs)
===============================================================================
