---------------------------- MODULE MCProjectStore ----------------------------
(* ProjectStore on small sets of connections, keys and operations. *)
EXTENDS ProjectStore, TLC

Symmetric == Permutations(Clients) \cup Permutations(Projects)
                \cup Permutations(Keys) \cup Permutations(Edits)
===============================================================================
