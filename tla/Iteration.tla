----------------------------- MODULE Iteration -----------------------------
(***************************************************************************)
(* What the proofs about recursive functions rest on: a set of numbers has *)
(* a least element, and a function of the numbers can be defined step by   *)
(* step.  An induction is carried out as a search for the least exception. *)
(***************************************************************************)
EXTENDS Naturals, WellFoundedInduction, TLAPS

LEMMA LeastNumber ==
  ASSUME NEW T, T \subseteq Nat, T # {}
  PROVE  \E x \in T : \A y \in T : x <= y
<1>1. PICK x \in T : \A y \in T : <<y, x>> \notin OpToRel(<, Nat)
  BY NatLessThanWellFounded, WFMin, Zenon
<1>2. \A y \in T : ~(y < x)
  BY <1>1, Zenon DEF OpToRel
<1> QED BY <1>2

(* f goes from c on as the functions in G say, for the first n steps. *)
Follows(f, c, G, n) == f[0] = c /\ \A i \in 0 .. (n - 1) : f[i + 1] = G[i][f[i]]

LEMMA FollowsLess ==
  ASSUME NEW f, NEW c, NEW G, NEW n \in Nat, NEW m \in 0 .. n, Follows(f, c, G, n)
  PROVE  Follows(f, c, G, m)
BY DEF Follows

(* Two that go as G says are the same as far as both go. *)
LEMMA FollowsUnique ==
  ASSUME NEW f, NEW g, NEW c, NEW G, NEW n \in Nat,
         Follows(f, c, G, n), Follows(g, c, G, n), NEW k \in 0 .. n
  PROVE  f[k] = g[k]
<1> DEFINE Differ == {i \in 0 .. n : f[i] # g[i]}
<1>1. SUFFICES ASSUME Differ # {} PROVE FALSE
  OBVIOUS
<1>2. PICK i \in Differ : \A j \in Differ : i <= j
  <2>1. Differ \subseteq Nat
    OBVIOUS
  <2> HIDE DEF Differ
  <2> QED BY <1>1, <2>1, LeastNumber
<1>3. i # 0
  BY <1>2 DEF Follows
<1>4. i - 1 \in 0 .. (n - 1) /\ i - 1 \in 0 .. n /\ (i - 1) + 1 = i /\ ~(i <= i - 1)
  BY <1>2, <1>3
<1>5. f[i - 1] = g[i - 1]
  BY <1>2, <1>4
<1>6. f[i] = g[i]
  BY <1>4, <1>5 DEF Follows
<1> QED BY <1>2, <1>6

(* There is one for every number of steps ... *)
LEMMA FollowsSome ==
  ASSUME NEW S, NEW c \in S, NEW G \in [Nat -> [S -> S]], NEW n \in Nat
  PROVE  \E f \in [0 .. n -> S] : Follows(f, c, G, n)
<1> DEFINE Stuck == {m \in Nat : ~\E f \in [0 .. m -> S] : Follows(f, c, G, m)}
<1>1. SUFFICES ASSUME Stuck # {} PROVE FALSE
  OBVIOUS
<1>2. PICK m \in Stuck : \A j \in Stuck : m <= j
  BY <1>1, LeastNumber
<1>3. m # 0
  <2>1. [i \in 0 .. 0 |-> c] \in [0 .. 0 -> S] /\ Follows([i \in 0 .. 0 |-> c], c, G, 0)
    BY DEF Follows
  <2> QED BY <1>2, <2>1
<1>4. m - 1 \in Nat /\ m \in Nat /\ ~(m <= m - 1)
  BY <1>2, <1>3
<1>5. PICK f \in [0 .. (m - 1) -> S] : Follows(f, c, G, m - 1)
  BY <1>2, <1>4
<1> DEFINE g == [i \in 0 .. m |-> IF i = m THEN G[m - 1][f[m - 1]] ELSE f[i]]
<1>6. m - 1 \in 0 .. (m - 1) /\ f[m - 1] \in S /\ G[m - 1][f[m - 1]] \in S
  BY <1>4, <1>5
<1>7. \A i \in 0 .. m : i # m => i \in 0 .. (m - 1)
  BY <1>4
<1>8. g \in [0 .. m -> S]
  BY <1>5, <1>6, <1>7
<1>9. g[0] = c
  BY <1>3, <1>4, <1>5 DEF Follows
<1>10. ASSUME NEW i \in 0 .. (m - 1) PROVE g[i + 1] = G[i][g[i]]
  <2>1. i \in 0 .. m /\ i # m /\ i + 1 \in 0 .. m /\ g[i] = f[i]
    BY <1>4
  <2>2. CASE i = m - 1
    BY <2>1, <2>2, <1>4
  <2>3. CASE i # m - 1
    <3>1. i \in 0 .. ((m - 1) - 1) /\ i + 1 # m
      BY <2>3, <1>4
    <3>2. f[i + 1] = G[i][f[i]]
      BY <3>1, <1>5 DEF Follows
    <3> QED BY <2>1, <3>1, <3>2
  <2> QED BY <2>2, <2>3
<1>11. Follows(g, c, G, m)
  <2> HIDE DEF g
  <2> QED BY <1>9, <1>10 DEF Follows
<1> QED BY <1>2, <1>8, <1>11

(* ... and so there is one that never ends. *)
LEMMA Iterates ==
  ASSUME NEW S, NEW c \in S, NEW G \in [Nat -> [S -> S]]
  PROVE  \E f \in [Nat -> S] : f[0] = c /\ \A i \in Nat : f[i + 1] = G[i][f[i]]
<1> DEFINE Part(n) == CHOOSE f \in [0 .. n -> S] : Follows(f, c, G, n)
           all == [n \in Nat |-> Part(n)[n]]
<1>1. \A n \in Nat : Part(n) \in [0 .. n -> S] /\ Follows(Part(n), c, G, n)
  <2> TAKE n \in Nat
  <2>1. \E f \in [0 .. n -> S] : Follows(f, c, G, n)
    BY FollowsSome
  <2> QED BY <2>1, Zenon
<1> HIDE DEF Part
<1>2. all \in [Nat -> S]
  BY <1>1
<1>3. all[0] = c
  BY <1>1 DEF Follows
<1>4. ASSUME NEW i \in Nat PROVE all[i + 1] = G[i][all[i]]
  <2>1. i + 1 \in Nat /\ i \in 0 .. (i + 1) /\ i \in 0 .. ((i + 1) - 1) /\ i \in 0 .. i
    OBVIOUS
  <2>2. Follows(Part(i + 1), c, G, i + 1)
    BY <1>1, <2>1
  <2>3. Part(i + 1)[i + 1] = G[i][Part(i + 1)[i]]
    BY <2>1, <2>2 DEF Follows
  <2>4. Follows(Part(i + 1), c, G, i) /\ Follows(Part(i), c, G, i)
    BY <1>1, <2>1, <2>2, FollowsLess
  <2>5. Part(i + 1)[i] = Part(i)[i]
    BY <2>1, <2>4, FollowsUnique
  <2> QED BY <2>1, <2>3, <2>5
<1> HIDE DEF all
<1> QED BY <1>2, <1>3, <1>4

=============================================================================
