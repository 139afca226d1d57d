---------------------------- MODULE MCJobAdmission ----------------------------
(* JobAdmission on small sets of owners, clients and keys. *)
EXTENDS JobAdmission, TLC

Symmetric == Permutations(Jobs) \cup Permutations(Clients) \cup Permutations(Keys)
                \cup Permutations(Prompts) \cup Permutations(Owners)
===============================================================================
