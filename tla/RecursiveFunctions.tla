--------------------------- MODULE RecursiveFunctions ---------------------------
(***************************************************************************)
(* Induction over the natural numbers and functions defined by recursion,  *)
(* for the proofs about sequences.  The theorems of the library take an    *)
(* operator as a parameter; Induct takes a set instead, and rests on the   *)
(* order of the numbers being well founded.                                *)
(***************************************************************************)
EXTENDS Integers, SequenceTheorems, WellFoundedInduction, TLAPS

Less == {p \in Nat \X Nat : p[1] < p[2]}

(* There is no infinite descent among the natural numbers. *)
LEMMA LessWellFounded == IsWellFoundedOn(Less, Nat)
  BY NatLessThanWellFounded DEF OpToRel, Less

(* A set of natural numbers has a least element. *)
LEMMA Least ==
  ASSUME NEW T \in SUBSET Nat, T # {}
  PROVE  \E m \in T : \A n \in T : m <= n
<1>1. PICK m \in T : \A n \in T : <<n, m>> \notin Less
  BY WFMin, LessWellFounded
<1>2. ASSUME NEW n \in T PROVE m <= n
  <2>1. <<n, m>> \notin Less
    BY <1>1
  <2>2. n \in Nat /\ m \in Nat
    OBVIOUS
  <2>3. ~(n < m)
    BY <2>1, <2>2 DEF Less
  <2> QED
    BY <2>2, <2>3
<1> QED
  BY <1>2

(* Induction: a set with 0 and the successors of its elements holds all.   *)
LEMMA Induct ==
  ASSUME NEW S, 0 \in S, \A n \in Nat : n \in S => n + 1 \in S
  PROVE  \A n \in Nat : n \in S
<1> SUFFICES ASSUME Nat \ S # {} PROVE FALSE
  OBVIOUS
<1>1. PICK m \in Nat \ S : \A n \in Nat \ S : m <= n
  BY Least
<1>2. m # 0 /\ m - 1 \in Nat
  BY <1>1
<1>3. m - 1 \in S
  BY <1>1, <1>2
<1> QED
  BY <1>1, <1>2, <1>3

(* A function that is defined by recursion up to m exists. *)
Recursive(m, D, d, step) ==
  m \in Nat /\ d \in D /\ step \in [1 .. m -> [D -> D]]

LEMMA Recursion ==
  ASSUME NEW m, NEW D, NEW d, NEW step, Recursive(m, D, d, step)
  PROVE  \E f \in [0 .. m -> D] :
           f[0] = d /\ \A n \in 1 .. m : f[n] = step[n][f[n - 1]]
<1> DEFINE Is(f, k) ==
             f[0] = d /\ \A n \in 1 .. k : f[n] = step[n][f[n - 1]]
           S == {k \in Nat : k <= m => \E f \in [0 .. k -> D] : Is(f, k)}
<1> USE DEF Recursive
<1>1. 0 \in S
  <2> DEFINE f == [n \in 0 .. 0 |-> d]
  <2>1. f \in [0 .. 0 -> D] /\ Is(f, 0)
    OBVIOUS
  <2> QED
    BY <2>1
<1>2. ASSUME NEW k \in Nat, k \in S PROVE k + 1 \in S
  <2> SUFFICES ASSUME k + 1 <= m
               PROVE  \E g \in [0 .. k + 1 -> D] : Is(g, k + 1)
    OBVIOUS
  <2>1. PICK f \in [0 .. k -> D] : Is(f, k)
    BY <1>2
  <2> DEFINE g == [n \in 0 .. k + 1 |->
                     IF n = k + 1 THEN step[k + 1][f[k]] ELSE f[n]]
  <2>2. f[k] \in D /\ k + 1 \in 1 .. m
    OBVIOUS
  <2>3. step[k + 1][f[k]] \in D
    BY <2>2
  <2>4. g \in [0 .. k + 1 -> D]
    BY <2>3
  <2>5. Is(g, k + 1)
    <3>1. g[0] = d
      BY <2>1
    <3>2. ASSUME NEW n \in 1 .. k + 1 PROVE g[n] = step[n][g[n - 1]]
      <4>1. CASE n = k + 1
        BY <4>1
      <4>2. CASE n # k + 1
        BY <2>1, <4>2
      <4> QED
        BY <4>1, <4>2
    <3> QED
      BY <3>1, <3>2
  <2> QED
    BY <2>4, <2>5
<1> HIDE DEF S
<1>3. m \in S
  BY <1>1, <1>2, Induct
<1> QED
  BY <1>3 DEF S
=============================================================================
