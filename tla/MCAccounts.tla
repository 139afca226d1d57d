------------------------------ MODULE MCAccounts ------------------------------
(* Accounts on small sets of connections, codes and sessions. *)
EXTENDS Accounts, TLC

Symmetric == Permutations(Clients)

ManyCodesOrManySessions ==
    {[requireVerifiedEmail |-> TRUE, codes |-> 3, sessions |-> 0],
     [requireVerifiedEmail |-> TRUE, codes |-> 2, sessions |-> 1],
     [requireVerifiedEmail |-> TRUE, codes |-> 1, sessions |-> 3],
     [requireVerifiedEmail |-> FALSE, codes |-> 1, sessions |-> 1]}
===============================================================================
