----------------------------- MODULE NumberLemmas -----------------------------
(***************************************************************************)
(* Numbers and functions on them, as the proofs of several modules need    *)
(* them.                                                                   *)
(***************************************************************************)
EXTENDS Integers, TLAPS, WellFoundedInduction

\* A set of numbers has a least one.
LEMMA LeastNumber ==
  ASSUME NEW S \in SUBSET Nat, S # {}
  PROVE  \E m \in S : \A k \in S : m <= k
<1>1. IsWellFoundedOn(OpToRel(<, Nat), Nat)
  BY NatLessThanWellFounded
<1>2. PICK m \in S : \A k \in S : ~(<<k, m>> \in OpToRel(<, Nat))
  BY <1>1, WFMin
<1>3. \A k \in S : ~(k < m)
  BY <1>2 DEF OpToRel
<1> QED
  BY <1>3

\* What holds of 0, and of each number after one of which it holds, up to N.
LEMMA UpTo ==
  ASSUME NEW N \in Nat, NEW S, 0 \in S, \A n \in 1 .. N : n - 1 \in S => n \in S
  PROVE  \A n \in 0 .. N : n \in S
<1> SUFFICES ASSUME NEW n \in 0 .. N, n \notin S
             PROVE  FALSE
  OBVIOUS
<1> DEFINE missing == {k \in 0 .. N : k \notin S}
<1>1. missing \in SUBSET Nat /\ missing # {}
  OBVIOUS
<1>2. PICK m \in missing : \A k \in missing : m <= k
  BY <1>1, LeastNumber
<1>3. m \in 1 .. N /\ m - 1 \in 0 .. N /\ ~(m <= m - 1)
  OBVIOUS
<1>4. m - 1 \in S
  BY <1>2, <1>3
<1> QED
  BY <1>2, <1>3, <1>4

\* A function on 0 .. N by where it begins and how it goes on from number to number.
Steps(N, T) == [1 .. N -> [T -> T]]
Follows(f, N, a, g) == f[0] = a /\ \A n \in 1 .. N : f[n] = g[n][f[n - 1]]

LEMMA Recursion ==
  ASSUME NEW N \in Nat, NEW T, NEW a \in T, NEW g \in Steps(N, T)
  PROVE  \E f \in [0 .. N -> T] : Follows(f, N, a, g)
<1> DEFINE S == {m \in 0 .. N : \E f \in [0 .. m -> T] : Follows(f, m, a, g)}
<1>1. 0 \in S
  <2> DEFINE h == [n \in 0 .. 0 |-> a]
  <2>1. h \in [0 .. 0 -> T] /\ Follows(h, 0, a, g)
    BY DEF Follows
  <2> HIDE DEF h
  <2> QED
    BY <2>1
<1>2. ASSUME NEW m \in 1 .. N, m - 1 \in S
      PROVE  m \in S
  <2>1. PICK f \in [0 .. m - 1 -> T] : Follows(f, m - 1, a, g)
    BY <1>2
  <2> DEFINE h == [n \in 0 .. m |-> IF n = m THEN g[m][f[m - 1]] ELSE f[n]]
  <2>2. f[m - 1] \in T /\ g[m][f[m - 1]] \in T
    BY DEF Steps
  <2>3. h \in [0 .. m -> T]
    BY <2>2
  <2>4. h[0] = a
    BY <2>1 DEF Follows
  <2>5. ASSUME NEW n \in 1 .. m
        PROVE  h[n] = g[n][h[n - 1]]
    BY <2>1 DEF Follows
  <2>6. Follows(h, m, a, g)
    BY <2>4, <2>5 DEF Follows
  <2> HIDE DEF h
  <2> QED
    BY <2>3, <2>6
<1> HIDE DEF S
<1>3. \A m \in 0 .. N : m \in S
  BY <1>1, <1>2, UpTo
<1>4. N \in S
  BY <1>3
<1> QED
  BY <1>4 DEF S
===============================================================================
