----------------------------- MODULE Induction -----------------------------
(***************************************************************************)
(* Induction on natural numbers, over sets instead of predicates: what the *)
(* proofs about recursive functions rest on.                               *)
(***************************************************************************)
EXTENDS WellFoundedInduction, TLAPS

\* A set of natural numbers has a least element.
LEMMA Least ==
    ASSUME NEW T \in SUBSET Nat, T # {}
    PROVE  \E m \in T : \A k \in T : m <= k
<1>1. PICK m \in T : \A k \in T : <<k, m>> \notin OpToRel(<, Nat)
    BY NatLessThanWellFounded, WFMin
<1>2. \A k \in T : ~(k < m) /\ k \in Nat /\ m \in Nat
    BY <1>1 DEF OpToRel
<1>3. \A k \in T : m <= k
    BY <1>2
<1> QED
    BY <1>1, <1>3

\* A set that has 0, and the successor of each of its elements below n, has all
\* numbers up to n.
LEMMA UpTo ==
    ASSUME NEW n \in Nat, NEW S, 0 \in S, \A m \in 0..(n - 1) : m \in S => m + 1 \in S
    PROVE  \A m \in 0..n : m \in S
<1> DEFINE T == {m \in 0..n : m \notin S}
<1>1. SUFFICES ASSUME T # {} PROVE FALSE
    OBVIOUS
<1>2. T \in SUBSET Nat
    OBVIOUS
<1>3. PICK m \in T : \A k \in T : m <= k
    BY <1>1, <1>2, Least
<1>4. m \in 1..n /\ m - 1 \in 0..(n - 1) /\ m - 1 \notin T
    BY <1>3
<1>5. m - 1 \in S /\ (m - 1) + 1 = m
    BY <1>4
<1> QED
    BY <1>3, <1>4, <1>5
=============================================================================
