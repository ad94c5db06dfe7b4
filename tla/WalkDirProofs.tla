--------------------------- MODULE WalkDirProofs ---------------------------
(***************************************************************************)
(* The safety properties of WalkDir, for any directories, names and        *)
(* beginnings and any number of changes.                                   *)
(*                                                                         *)
(* OnceInv says that what the walk holds of what is steady lies apart, so  *)
(* that nothing steady is handed over twice; WalkInv, that every entry     *)
(* which was there all the time is known to the callback, excused, or      *)
(* still ahead, and that readdir tells a directory on the way to it for    *)
(* what it is.  For the latter, Resolve and PathsOf are worked out name by *)
(* name.                                                                   *)
(***************************************************************************)
EXTENDS WalkDir, Iteration, SequenceTheorems, FiniteSetTheorems

(* q is p or lies above it. *)
Within(q, p) == q = p \/ Above(q, p)
Last(p) == p[Len(p)]

-----------------------------------------------------------------------------
(* Paths *)

LEMMA AboveByNames ==
  ASSUME NEW q \in Paths, NEW p \in Paths
  PROVE  Above(q, p) <=> Len(q) < Len(p) /\ \A i \in 1 .. Len(q) : p[i] = q[i]
<1>1. Len(q) \in Nat /\ Len(p) \in Nat
  BY DEF Paths
<1>2. SUFFICES ASSUME Len(q) < Len(p)
               PROVE  SubSeq(p, 1, Len(q)) = q <=> \A i \in 1 .. Len(q) : p[i] = q[i]
  BY DEF Above
<1>3. \A i \in 1 .. Len(q) : i \in 1 .. Len(p) /\ p[i] \in Names
  BY <1>1, <1>2 DEF Paths
<1>4. /\ SubSeq(p, 1, Len(q)) \in Seq(Names) /\ Len(SubSeq(p, 1, Len(q))) = Len(q)
      /\ \A i \in 1 .. Len(q) : SubSeq(p, 1, Len(q))[i] = p[i]
  BY <1>1, <1>3, SubSeqProperties
<1> QED BY <1>4, SeqEqual DEF Paths

LEMMA AppendIsBelow ==
  ASSUME NEW p \in Paths, NEW n \in Names
  PROVE  /\ Append(p, n) \in Paths /\ Append(p, n) # <<>>
         /\ Parent(Append(p, n)) = p /\ Last(Append(p, n)) = n
         /\ Len(Append(p, n)) = Len(p) + 1
         /\ Above(p, Append(p, n))
<1>1. /\ Append(p, n) \in Seq(Names) /\ Append(p, n) # <<>>
      /\ Len(Append(p, n)) = Len(p) + 1 /\ Len(p) \in Nat
      /\ \A i \in 1 .. Len(p) : Append(p, n)[i] = p[i]
      /\ Append(p, n)[Len(p) + 1] = n
  BY AppendProperties DEF Paths
<1>2. Above(p, Append(p, n))
  <2>1. Append(p, n) \in Paths /\ Len(p) < Len(Append(p, n))
    BY <1>1 DEF Paths
  <2> QED BY <1>1, <2>1, AboveByNames
<1>3. Parent(Append(p, n)) = p
  BY <1>1, <1>2 DEF Above, Parent
<1> QED BY <1>1, <1>2, <1>3 DEF Paths, Last

LEMMA ParentOfPath ==
  ASSUME NEW p \in Paths, p # <<>>
  PROVE  /\ Parent(p) \in Paths /\ Last(p) \in Names
         /\ p = Append(Parent(p), Last(p))
         /\ Len(p) = Len(Parent(p)) + 1 /\ Above(Parent(p), p)
<1>1. PICK s \in Seq(Names), n \in Names : p = Append(s, n)
  BY SequenceEmptyOrAppend DEF Paths
<1> QED BY <1>1, AppendIsBelow DEF Paths

LEMMA AppendInjects ==
  ASSUME NEW p \in Paths, NEW q \in Paths, NEW n \in Names, NEW m \in Names,
         Append(p, n) = Append(q, m)
  PROVE  p = q /\ n = m
BY AppendInjective DEF Paths

LEMMA AboveIsOrder ==
  /\ \A p \in Paths : ~Above(p, p)
  /\ \A p, q, r \in Paths : Above(p, q) /\ Above(q, r) => Above(p, r)
  /\ \A p, q, r \in Paths : Above(p, r) /\ Above(q, r) => p = q \/ Above(p, q) \/ Above(q, p)
  /\ \A p \in Paths : p # <<>> <=> Above(<<>>, p)
  /\ \A p \in Paths : ~Above(p, <<>>)
<1>1. \A p \in Paths : Len(p) \in Nat
  BY DEF Paths
<1>2. \A p \in Paths : ~Above(p, p)
  BY <1>1 DEF Above
<1>3. ASSUME NEW p \in Paths, NEW q \in Paths, NEW r \in Paths, Above(p, q), Above(q, r)
      PROVE  Above(p, r)
  BY <1>1, <1>3, AboveByNames
<1>4. ASSUME NEW p \in Paths, NEW q \in Paths, NEW r \in Paths, Above(p, r), Above(q, r)
      PROVE  p = q \/ Above(p, q) \/ Above(q, p)
  <2>1. /\ \A i \in 1 .. Len(p) : r[i] = p[i]
        /\ \A i \in 1 .. Len(q) : r[i] = q[i]
    BY <1>4, AboveByNames
  <2>2. CASE Len(p) < Len(q)
    BY <1>1, <2>1, <2>2, AboveByNames
  <2>3. CASE Len(q) < Len(p)
    BY <1>1, <2>1, <2>3, AboveByNames
  <2>4. CASE Len(p) = Len(q)
    BY <1>1, <2>1, <2>4, SeqEqual DEF Paths
  <2> QED BY <1>1, <2>2, <2>3, <2>4
<1>5. <<>> \in Paths /\ Len(<<>>) = 0
  BY EmptySeq DEF Paths
<1>6. \A p \in Paths : p # <<>> <=> Above(<<>>, p)
  <2> TAKE p \in Paths
  <2>1. p # <<>> <=> 0 < Len(p)
    BY <1>1, <1>5, EmptySeq DEF Paths
  <2>2. Above(<<>>, p) <=> 0 < Len(p)
    BY <1>5, AboveByNames
  <2> QED BY <2>1, <2>2
<1>7. \A p \in Paths : ~Above(p, <<>>)
  BY <1>1, <1>5 DEF Above
<1> QED BY <1>2, <1>3, <1>4, <1>6, <1>7

(* What lies above an entry is its directory or lies above that. *)
LEMMA AboveOfAppend ==
  ASSUME NEW p \in Paths, NEW n \in Names, NEW q \in Paths
  PROVE  Above(q, Append(p, n)) <=> Within(q, p)
<1>1. Append(p, n) \in Paths /\ Above(p, Append(p, n)) /\ Len(Append(p, n)) = Len(p) + 1
  BY AppendIsBelow
<1>2. Within(q, p) => Above(q, Append(p, n))
  BY <1>1, AboveIsOrder DEF Within
<1>3. Above(q, Append(p, n)) /\ Above(p, q) => FALSE
  <2>1. Len(p) \in Nat /\ Len(q) \in Nat
    BY DEF Paths
  <2> QED BY <1>1, <2>1 DEF Above
<1> QED BY <1>1, <1>2, <1>3, AboveIsOrder DEF Within

(* The entry of q on the way to p. *)
Towards(q, p) == p[Len(q) + 1]

LEMMA TowardsIsBetween ==
  ASSUME NEW q \in Paths, NEW p \in Paths, Above(q, p)
  PROVE  Towards(q, p) \in Names /\ Within(Append(q, Towards(q, p)), p)
<1>1. Len(q) \in Nat /\ Len(p) \in Nat /\ Len(q) < Len(p) /\ \A i \in 1 .. Len(q) : p[i] = q[i]
  BY AboveByNames DEF Paths
<1>2. Towards(q, p) \in Names
  BY <1>1 DEF Paths, Towards
<1> DEFINE c == Append(q, Towards(q, p))
<1>3. /\ c \in Paths /\ Len(c) = Len(q) + 1 /\ \A i \in 1 .. Len(q) : c[i] = q[i]
      /\ c[Len(q) + 1] = Towards(q, p)
  BY <1>2, AppendProperties DEF Paths
<1> HIDE DEF c
<1>4. \A i \in 1 .. Len(c) : p[i] = c[i]
  BY <1>1, <1>3 DEF Towards
<1>5. Within(c, p)
  <2>1. CASE Len(c) = Len(p)
    BY <1>3, <1>4, <2>1, SeqEqual DEF Paths, Within
  <2>2. CASE Len(c) < Len(p)
    BY <1>3, <1>4, <2>2, AboveByNames DEF Within
  <2> QED BY <1>1, <1>3, <2>1, <2>2
<1> QED BY <1>2, <1>5 DEF c

LEMMA TowardsByName ==
  ASSUME NEW q \in Paths, NEW n \in Names, NEW p \in Paths, Within(Append(q, n), p)
  PROVE  Above(q, p) /\ Towards(q, p) = n
<1>1. /\ Append(q, n) \in Paths /\ Above(q, Append(q, n))
      /\ Len(Append(q, n)) = Len(q) + 1 /\ Append(q, n)[Len(q) + 1] = n
  BY AppendIsBelow DEF Last
<1>2. Above(q, p)
  BY <1>1, AboveIsOrder DEF Within
<1>3. Len(q) + 1 \in 1 .. Len(Append(q, n))
  BY <1>1 DEF Paths
<1>4. p[Len(q) + 1] = n
  BY <1>1, <1>3, AboveByNames DEF Within
<1> QED BY <1>2, <1>4 DEF Towards

-----------------------------------------------------------------------------
(* Where a path leads *)

(* What a tree t leads to: Enter and Resolve of whatever tree is meant. *)
EnterIn(t, d, n) ==
    LET e == IF t[d][n] = Link THEN t[Root][Alias] ELSE t[d][n]
    IN IF e \in Dirs THEN e ELSE None

Trail(t, p) ==
    CHOOSE at : at = [i \in 0 .. Len(p) |->
                        IF i = 0 THEN Root
                        ELSE IF at[i - 1] = None THEN None ELSE EnterIn(t, at[i - 1], p[i])]

ResolveIn(t, p) == Trail(t, p)[Len(p)]

LEMMA ResolveIsIn == \A p : Resolve(p) = ResolveIn(entry, p)
BY Zenon DEF Resolve, Enter, ResolveIn, Trail, EnterIn

LEMMA ResolveIsInNext == \A p : Resolve(p)' = ResolveIn(entry', p)
BY Zenon DEF Resolve, Enter, ResolveIn, Trail, EnterIn

(* The trail of a path begins at the root and goes on name by name. *)
LEMMA TrailIsFollowed ==
  ASSUME NEW t, NEW p \in Paths
  PROVE  /\ Trail(t, p) \in [0 .. Len(p) -> AllDirs \cup {None}]
         /\ Trail(t, p)[0] = Root
         /\ \A i \in 1 .. Len(p) :
              Trail(t, p)[i] = IF Trail(t, p)[i - 1] = None THEN None
                               ELSE EnterIn(t, Trail(t, p)[i - 1], p[i])
<1> DEFINE S == AllDirs \cup {None}
           next(x, i) == IF x = None THEN None ELSE EnterIn(t, x, p[i])
           G == [k \in Nat |-> [x \in S |-> next(x, k + 1)]]
           IsTrail(at) == at = [i \in 0 .. Len(p) |-> IF i = 0 THEN Root ELSE next(at[i - 1], i)]
<1>1. \A x, i : next(x, i) \in S
  BY DEF EnterIn, AllDirs
<1>2. Root \in S /\ G \in [Nat -> [S -> S]]
  <2> HIDE DEF next
  <2> QED BY <1>1 DEF AllDirs
<1>3. \E f \in [Nat -> S] : f[0] = Root /\ \A i \in Nat : f[i + 1] = G[i][f[i]]
  <2> HIDE DEF G, S
  <2> QED BY <1>2, Iterates, SMTT(30)
<1>4. PICK f \in [Nat -> S] : f[0] = Root /\ \A i \in Nat : f[i + 1] = G[i][f[i]]
  BY <1>3
<1> HIDE DEF next
<1>5. Len(p) \in Nat
  BY DEF Paths
<1>6. ASSUME NEW i \in 1 .. Len(p) PROVE f[i] = next(f[i - 1], i)
  <2>1. i - 1 \in Nat /\ (i - 1) + 1 = i /\ f[i - 1] \in S
    BY <1>4, <1>5
  <2> QED BY <1>4, <2>1
<1> HIDE DEF S, G
<1> DEFINE a == [i \in 0 .. Len(p) |-> f[i]]
<1>7. \A i \in 0 .. Len(p) : i # 0 => i \in 1 .. Len(p) /\ i - 1 \in 0 .. Len(p)
  BY <1>5
<1>8. IsTrail(a)
  BY <1>4, <1>6, <1>7
<1>9. IsTrail(Trail(t, p))
  <2>1. \E at : IsTrail(at)
    BY <1>8
  <2>2. Trail(t, p) = CHOOSE at : IsTrail(at)
    BY Zenon DEF Trail, next
  <2> HIDE DEF IsTrail
  <2> QED BY <2>1, <2>2, Zenon
<1> DEFINE T == Trail(t, p)
<1>10. T = [i \in 0 .. Len(p) |-> IF i = 0 THEN Root ELSE next(T[i - 1], i)]
  BY <1>9
<1> HIDE DEF T, a
<1>11. T[0] = Root
  BY <1>5, <1>10
<1>12. \A i \in 1 .. Len(p) : i \in 0 .. Len(p) /\ i # 0
  BY <1>5
<1>13. \A i \in 1 .. Len(p) : T[i] = next(T[i - 1], i)
  BY <1>10, <1>12
<1>14. T \in [0 .. Len(p) -> S]
  BY <1>1, <1>2, <1>10
<1> QED BY <1>11, <1>13, <1>14 DEF T, S, next

LEMMA ResolveRoot ==
  ASSUME NEW t
  PROVE  <<>> \in Paths /\ ResolveIn(t, <<>>) = Root
<1>1. <<>> \in Paths /\ Len(<<>>) = 0
  BY EmptySeq DEF Paths
<1> QED BY <1>1, TrailIsFollowed DEF ResolveIn

LEMMA ResolveType ==
  ASSUME NEW t, NEW p \in Paths
  PROVE  ResolveIn(t, p) \in AllDirs \cup {None}
<1>1. Len(p) \in 0 .. Len(p)
  BY DEF Paths
<1> QED BY <1>1, TrailIsFollowed DEF ResolveIn

(* A path leads where its last name leads from where its parent does.       *)
LEMMA ResolveAppend ==
  ASSUME NEW t, NEW q \in Paths, NEW n \in Names
  PROVE  ResolveIn(t, Append(q, n)) =
           IF ResolveIn(t, q) = None THEN None ELSE EnterIn(t, ResolveIn(t, q), n)
<1> DEFINE p == Append(q, n)
<1>1. /\ p \in Paths /\ Len(p) = Len(q) + 1 /\ Len(q) \in Nat /\ p[Len(p)] = n
      /\ \A i \in 1 .. Len(q) : p[i] = q[i]
  BY AppendProperties DEF Paths
<1> HIDE DEF p
<1> DEFINE Differ == {i \in 0 .. Len(q) : Trail(t, p)[i] # Trail(t, q)[i]}
<1>2. Differ = {}
  <2>1. SUFFICES ASSUME Differ # {} PROVE FALSE
    OBVIOUS
  <2>2. PICK i \in Differ : \A j \in Differ : i <= j
    <3>1. Differ \subseteq Nat
      BY <1>1
    <3> HIDE DEF Differ
    <3> QED BY <2>1, <3>1, LeastNumber
  <2>3. i # 0
    BY <1>1, <2>2, TrailIsFollowed
  <2>4. i \in 1 .. Len(q) /\ i \in 1 .. Len(p) /\ i - 1 \in 0 .. Len(q) /\ ~(i <= i - 1)
    BY <1>1, <2>2, <2>3
  <2>5. Trail(t, p)[i - 1] = Trail(t, q)[i - 1]
    BY <2>2, <2>4
  <2>6. /\ Trail(t, p)[i] = IF Trail(t, p)[i - 1] = None THEN None
                            ELSE EnterIn(t, Trail(t, p)[i - 1], p[i])
        /\ Trail(t, q)[i] = IF Trail(t, q)[i - 1] = None THEN None
                            ELSE EnterIn(t, Trail(t, q)[i - 1], q[i])
    BY <1>1, <2>4, TrailIsFollowed
  <2>7. p[i] = q[i]
    BY <1>1, <2>4
  <2> QED BY <2>2, <2>5, <2>6, <2>7
<1>3. Len(q) \in 0 .. Len(q) /\ Len(p) \in 1 .. Len(p) /\ Len(p) - 1 = Len(q)
  BY <1>1
<1>4. Trail(t, p)[Len(q)] = Trail(t, q)[Len(q)]
  BY <1>2, <1>3
<1>5. Trail(t, p)[Len(p)] = IF Trail(t, p)[Len(q)] = None THEN None
                            ELSE EnterIn(t, Trail(t, p)[Len(q)], n)
  BY <1>1, <1>3, TrailIsFollowed
<1> QED BY <1>4, <1>5 DEF ResolveIn, p

-----------------------------------------------------------------------------
(* The paths of a tree *)

Trees == [AllDirs -> [Names -> Entries]]

(* PathsOf, level by level. *)
Deeper(t, level) ==
    {<<Append(x[1], n), t[x[2]][n]>> : x \in {y \in level : y[2] \in AllDirs}, n \in Names}

Below(t) ==
    CHOOSE below : below = [k \in Nat |->
        IF k = 0 THEN {<< <<>>, Root >>} ELSE Deeper(t, below[k - 1])]

LEMMA PathsByLevel ==
  ASSUME NEW t
  PROVE  PathsOf(t) = {x[1] : x \in {y \in UNION {Below(t)[k] : k \in 1 .. Cardinality(AllDirs)} : y[2] # None}}
BY DEF PathsOf, Below, Deeper

LEMMA BelowIsFollowed ==
  ASSUME NEW t \in Trees
  PROVE  /\ \A k \in Nat : Below(t)[k] \subseteq Paths \X (AllDirs \cup Entries)
         /\ Below(t)[0] = {<< <<>>, Root >>}
         /\ \A k \in Nat : Below(t)[k + 1] = Deeper(t, Below(t)[k])
<1> DEFINE S == SUBSET (Paths \X (AllDirs \cup Entries))
           G == [k \in Nat |-> [X \in S |-> Deeper(t, X)]]
           c == {<< <<>>, Root >>}
           IsBelow(b) == b = [k \in Nat |-> IF k = 0 THEN c ELSE Deeper(t, b[k - 1])]
<1>1. ASSUME NEW X \in S PROVE Deeper(t, X) \in S
  <2>1. SUFFICES ASSUME NEW x \in X, x[2] \in AllDirs, NEW n \in Names
                 PROVE  <<Append(x[1], n), t[x[2]][n]>> \in Paths \X (AllDirs \cup Entries)
    BY DEF Deeper
  <2>2. x[1] \in Paths
    BY <1>1
  <2>3. Append(x[1], n) \in Paths
    BY <2>2, AppendIsBelow
  <2>4. t[x[2]][n] \in Entries
    BY <2>1 DEF Trees
  <2> QED BY <2>3, <2>4
<1>2. c \in S
  <2>1. <<>> \in Paths /\ Root \in AllDirs
    BY EmptySeq DEF Paths, AllDirs
  <2> QED BY <2>1
<1>3. G \in [Nat -> [S -> S]]
  <2> HIDE DEF S
  <2> QED BY <1>1
<1> HIDE DEF S, c
<1>4. \E f \in [Nat -> S] : f[0] = c /\ \A i \in Nat : f[i + 1] = G[i][f[i]]
  <2> HIDE DEF G
  <2> QED BY <1>2, <1>3, Iterates, SMTT(30)
<1>5. PICK f \in [Nat -> S] : f[0] = c /\ \A i \in Nat : f[i + 1] = G[i][f[i]]
  BY <1>4
<1>6. \A i \in Nat : f[i + 1] = Deeper(t, f[i])
  BY <1>5
<1>7. \A i \in Nat : i # 0 => i - 1 \in Nat /\ (i - 1) + 1 = i
  OBVIOUS
<1> HIDE DEF G
<1>8. f = [k \in Nat |-> IF k = 0 THEN c ELSE Deeper(t, f[k - 1])]
  <2>1. \A k \in Nat : f[k] = IF k = 0 THEN c ELSE Deeper(t, f[k - 1])
    BY <1>5, <1>6, <1>7
  <2> QED BY <1>5, <2>1
<1> DEFINE B == Below(t)
<1>9. IsBelow(B)
  <2>1. B = CHOOSE b : IsBelow(b)
    BY DEF Below, c
  <2>2. IsBelow(f)
    BY <1>8
  <2> HIDE DEF IsBelow
  <2> QED BY <2>1, <2>2, Zenon
<1> HIDE DEF B
<1>10. \A k \in Nat : B[k] = IF k = 0 THEN c ELSE Deeper(t, B[k - 1])
  BY <1>9
<1>11. \A k \in Nat : B[k + 1] = Deeper(t, B[k])
  <2> TAKE k \in Nat
  <2>1. k + 1 \in Nat /\ k + 1 # 0 /\ (k + 1) - 1 = k
    OBVIOUS
  <2> QED BY <1>10, <2>1
<1>12. B[0] = c
  BY <1>10
<1> DEFINE Odd == {k \in Nat : B[k] \notin S}
<1>13. Odd = {}
  <2>1. SUFFICES ASSUME Odd # {} PROVE FALSE
    OBVIOUS
  <2>2. PICK k \in Odd : \A j \in Odd : k <= j
    BY <2>1, LeastNumber
  <2>3. k # 0
    BY <2>2, <1>2, <1>12
  <2>4. k - 1 \in Nat /\ (k - 1) + 1 = k /\ ~(k <= k - 1)
    BY <2>2, <2>3
  <2>5. B[k - 1] \in S
    BY <2>2, <2>4
  <2>6. B[k] \in S
    BY <1>1, <1>11, <2>4, <2>5
  <2> QED BY <2>2, <2>6
<1>14. \A k \in Nat : B[k] \in S
  BY <1>13
<1> QED BY <1>11, <1>12, <1>14 DEF B, S, c

-----------------------------------------------------------------------------
(* Steady paths *)

(* What is under the last name of a path, itself. *)
AtIn(t, p) == t[ResolveIn(t, Parent(p))][Last(p)]

(* S is a set of paths that lead to something by real directories, which    *)
(* are in S as well.                                                        *)
SteadyIn(t, S) == \A p \in S :
    /\ p \in Paths /\ p # <<>>
    /\ ResolveIn(t, Parent(p)) \in AllDirs /\ AtIn(t, p) # None
    /\ Parent(p) # <<>> => Parent(p) \in S /\ AtIn(t, Parent(p)) \in Dirs

LeadsIn(t, p, d, n) ==
    \E i \in 1 .. Len(p) : p[i] = n /\ ResolveIn(t, SubSeq(p, 1, i - 1)) = d

(* Where a path of one level comes from on the level above. *)
LEMMA BelowCameFrom ==
  ASSUME NEW t \in Trees, NEW k \in Nat, k # 0, NEW x \in Below(t)[k]
  PROVE  \E y \in Below(t)[k - 1], n \in Names :
           y[2] \in AllDirs /\ y[1] \in Paths /\ x = <<Append(y[1], n), t[y[2]][n]>>
<1>1. k - 1 \in Nat /\ (k - 1) + 1 = k
  OBVIOUS
<1>2. Below(t)[k] = Deeper(t, Below(t)[k - 1])
  BY <1>1, BelowIsFollowed
<1>3. \A y \in Below(t)[k - 1] : y[1] \in Paths
  <2>1. Below(t)[k - 1] \subseteq Paths \X (AllDirs \cup Entries)
    BY <1>1, BelowIsFollowed
  <2> QED BY <2>1
<1> QED BY <1>2, <1>3 DEF Deeper

LEMMA BelowIsResolved ==
  ASSUME NEW t \in Trees, NEW k \in Nat, NEW x \in Below(t)[k], x[2] \in AllDirs
  PROVE  ResolveIn(t, x[1]) = x[2]
<1> DEFINE Wrong == {j \in Nat : \E y \in Below(t)[j] : y[2] \in AllDirs /\ ResolveIn(t, y[1]) # y[2]}
<1>1. SUFFICES ASSUME Wrong # {} PROVE FALSE
  OBVIOUS
<1>2. PICK j \in Wrong : \A i \in Wrong : j <= i
  BY <1>1, LeastNumber
<1>3. PICK y \in Below(t)[j] : y[2] \in AllDirs /\ ResolveIn(t, y[1]) # y[2]
  BY <1>2
<1>4. j # 0
  BY <1>3, BelowIsFollowed, ResolveRoot
<1>5. j - 1 \in Nat /\ (j - 1) + 1 = j /\ ~(j <= j - 1)
  BY <1>2, <1>4
<1>6. PICK z \in Below(t)[j - 1], n \in Names :
        z[2] \in AllDirs /\ z[1] \in Paths /\ y = <<Append(z[1], n), t[z[2]][n]>>
  BY <1>3, <1>4, BelowCameFrom
<1>7. z[1] \in Paths /\ ResolveIn(t, z[1]) = z[2]
  BY <1>2, <1>5, <1>6
<1>8. t[z[2]][n] \in Entries
  BY <1>6 DEF Trees
<1>9. t[z[2]][n] \in Dirs /\ z[2] # None /\ t[z[2]][n] # Link
  BY <1>3, <1>6, <1>8, NamesAssumption, EntriesAssumption DEF AllDirs, Entries
<1>10. EnterIn(t, z[2], n) = t[z[2]][n]
  BY <1>9 DEF EnterIn
<1>11. ResolveIn(t, y[1]) = y[2]
  BY <1>6, <1>7, <1>9, <1>10, ResolveAppend
<1> QED BY <1>3, <1>11

LEMMA NamesAreSteady ==
  ASSUME NEW t \in Trees, IsFiniteSet(Dirs)
  PROVE  SteadyIn(t, PathsOf(t))
<1> DEFINE C == Cardinality(AllDirs)
<1>1. C \in Nat
  <2>1. IsFiniteSet(AllDirs)
    BY FS_AddElement, FS_Singleton, FS_Union DEF AllDirs
  <2> QED BY <2>1, FS_CardinalityType
<1>2. SUFFICES ASSUME NEW p \in PathsOf(t)
               PROVE  /\ p \in Paths /\ p # <<>>
                      /\ ResolveIn(t, Parent(p)) \in AllDirs /\ AtIn(t, p) # None
                      /\ Parent(p) # <<>> => Parent(p) \in PathsOf(t) /\ AtIn(t, Parent(p)) \in Dirs
  BY DEF SteadyIn
<1>level. PICK k \in 1 .. C : \E x \in Below(t)[k] : p = x[1] /\ x[2] # None
  BY PathsByLevel
<1>3. PICK x \in Below(t)[k] : p = x[1] /\ x[2] # None
  BY <1>level
<1> HIDE DEF C
<1>4. k \in Nat /\ k # 0 /\ k - 1 \in Nat
  BY <1>1, <1>3
<1>5. PICK y \in Below(t)[k - 1], n \in Names :
        y[2] \in AllDirs /\ y[1] \in Paths /\ x = <<Append(y[1], n), t[y[2]][n]>>
  BY <1>3, <1>4, BelowCameFrom
<1>6. y[1] \in Paths /\ ResolveIn(t, y[1]) = y[2]
  BY <1>4, <1>5, BelowIsResolved
<1>7. p = Append(y[1], n) /\ p \in Paths /\ p # <<>> /\ Parent(p) = y[1] /\ Last(p) = n
  BY <1>3, <1>5, <1>6, AppendIsBelow
<1>8. ResolveIn(t, Parent(p)) \in AllDirs /\ AtIn(t, p) # None
  BY <1>3, <1>5, <1>6, <1>7 DEF AtIn
<1>9. ASSUME Parent(p) # <<>> PROVE Parent(p) \in PathsOf(t) /\ AtIn(t, Parent(p)) \in Dirs
  <2>1. k - 1 # 0
    <3>1. Below(t)[0] = {<< <<>>, Root >>}
      BY BelowIsFollowed
    <3>2. y[1] # <<>>
      BY <1>7, <1>9
    <3> QED BY <1>5, <3>1, <3>2
  <2>2. k - 1 \in 1 .. C /\ (k - 1) - 1 \in Nat
    BY <1>1, <1>3, <1>4, <2>1
  <2>3. y[2] # None
    BY <1>5, NamesAssumption, EntriesAssumption DEF AllDirs, Entries
  <2>4. Parent(p) \in PathsOf(t)
    BY <1>5, <1>7, <2>2, <2>3, PathsByLevel DEF C
  <2>5. PICK z \in Below(t)[(k - 1) - 1], m \in Names :
          z[2] \in AllDirs /\ z[1] \in Paths /\ y = <<Append(z[1], m), t[z[2]][m]>>
    BY <1>4, <1>5, <2>1, BelowCameFrom
  <2>6. z[1] \in Paths /\ ResolveIn(t, z[1]) = z[2]
    BY <2>2, <2>5, BelowIsResolved
  <2>7. Parent(Parent(p)) = z[1] /\ Last(Parent(p)) = m
    BY <1>7, <2>5, <2>6, AppendIsBelow
  <2>8. AtIn(t, Parent(p)) = t[z[2]][m] /\ y[2] = t[z[2]][m] /\ t[z[2]][m] \in Entries
    BY <2>5, <2>6, <2>7 DEF AtIn, Trees
  <2>9. AtIn(t, Parent(p)) \in Dirs
    BY <1>5, <2>8, NamesAssumption DEF AllDirs
  <2> QED BY <2>4, <2>9
<1> QED BY <1>7, <1>8, <1>9

(* A set that has the parents of its paths has all that lies above them.    *)
LEMMA ClosedAbove ==
  ASSUME NEW S \in SUBSET Paths, \A r \in S : r # <<>> => Parent(r) \in S,
         NEW p \in S, NEW q \in Paths, Above(q, p)
  PROVE  q \in S
<1> DEFINE Wrong == {k \in Nat : \E r \in S : Len(r) = k /\ Above(q, r)}
<1>0. SUFFICES ASSUME q \notin S PROVE FALSE
  OBVIOUS
<1>1. \A r \in S : r \in Paths /\ Len(r) \in Nat
  BY DEF Paths
<1>2. Wrong # {} /\ Wrong \subseteq Nat
  BY <1>1
<1>3. PICK k \in Wrong : \A j \in Wrong : k <= j
  <2> HIDE DEF Wrong
  <2> QED BY <1>2, LeastNumber
<1>4. PICK r \in S : Len(r) = k /\ Above(q, r)
  BY <1>3
<1>5. r # <<>>
  BY <1>1, <1>4, AboveIsOrder
<1>6. /\ Parent(r) \in Paths /\ Last(r) \in Names /\ r = Append(Parent(r), Last(r))
      /\ Len(r) = Len(Parent(r)) + 1
  BY <1>1, <1>4, <1>5, ParentOfPath
<1>7. Parent(r) \in S /\ (q = Parent(r) \/ Above(q, Parent(r)))
  BY <1>4, <1>5, <1>6, AboveOfAppend DEF Within
<1>8. Len(Parent(r)) \in Wrong /\ ~(k <= Len(Parent(r)))
  BY <1>0, <1>1, <1>4, <1>6, <1>7
<1> QED BY <1>3, <1>8

(* The directories on the way to a steady entry are steady. *)
LEMMA SteadyAbove ==
  ASSUME NEW t, NEW S, SteadyIn(t, S), NEW p \in S, NEW q \in Paths, q # <<>>, Above(q, p)
  PROVE  q \in S /\ AtIn(t, q) \in Dirs
<1> DEFINE Wrong == {k \in Nat : \E r \in S : Len(r) = k /\ Above(q, r)} 
<1>0. SUFFICES ASSUME ~(q \in S /\ AtIn(t, q) \in Dirs) PROVE FALSE
  OBVIOUS
<1>1. \A r \in S : r \in Paths /\ r # <<>> /\ Len(r) \in Nat
  BY DEF SteadyIn, Paths
<1>2. Wrong # {} /\ Wrong \subseteq Nat
  BY <1>1
<1>3. PICK k \in Wrong : \A j \in Wrong : k <= j
  <2> HIDE DEF Wrong
  <2> QED BY <1>2, LeastNumber
<1>4. PICK r \in S : Len(r) = k /\ Above(q, r)
  BY <1>3
<1>5. /\ Parent(r) \in Paths /\ Last(r) \in Names /\ r = Append(Parent(r), Last(r))
      /\ Len(r) = Len(Parent(r)) + 1
  BY <1>1, <1>4, ParentOfPath
<1>6. q = Parent(r) \/ Above(q, Parent(r))
  BY <1>4, <1>5, AboveOfAppend DEF Within
<1>7. Parent(r) # <<>>
  BY <1>6, AboveIsOrder
<1>8. Parent(r) \in S /\ AtIn(t, Parent(r)) \in Dirs
  BY <1>4, <1>7 DEF SteadyIn
<1>9. Above(q, Parent(r))
  BY <1>0, <1>6, <1>8
<1>10. Len(Parent(r)) \in Wrong /\ ~(k <= Len(Parent(r)))
  BY <1>1, <1>4, <1>5, <1>8, <1>9
<1> QED BY <1>3, <1>10

LEMMA LeadsByLast ==
  ASSUME NEW t, NEW p \in Paths, p # <<>>
  PROVE  LeadsIn(t, p, ResolveIn(t, Parent(p)), Last(p))
<1>1. Len(p) \in 1 .. Len(p)
  BY EmptySeq DEF Paths
<1> QED BY <1>1 DEF LeadsIn, Parent, Last

LEMMA LeadsByParent ==
  ASSUME NEW t, NEW p \in Paths, p # <<>>, NEW d, NEW n, LeadsIn(t, Parent(p), d, n)
  PROVE  LeadsIn(t, p, d, n)
<1> DEFINE q == Parent(p)
<1>1. /\ q \in Paths /\ Len(p) = Len(q) + 1 /\ Len(q) \in Nat /\ Above(q, p)
  BY ParentOfPath DEF Paths
<1>2. \A j \in 1 .. Len(q) : p[j] = q[j]
  BY <1>1, AboveByNames
<1>3. PICK i \in 1 .. Len(q) : q[i] = n /\ ResolveIn(t, SubSeq(q, 1, i - 1)) = d
  BY DEF LeadsIn
<1> HIDE DEF q
<1>4. i \in 1 .. Len(p) /\ p[i] = n
  BY <1>1, <1>2, <1>3
<1>5. SubSeq(p, 1, i - 1) = SubSeq(q, 1, i - 1)
  <2>1. \A j \in 1 .. (i - 1) : j \in 1 .. Len(q) /\ j \in 1 .. Len(p) /\ q[j] \in Names /\ p[j] \in Names
    BY <1>1, <1>3 DEF Paths
  <2>2. \A j \in 1 .. (i - 1) : p[j] = q[j]
    BY <1>2, <2>1
  <2>3. i \in Nat /\ i - 1 \in Nat /\ (i - 1) - 1 + 1 = i - 1 /\ \A j \in 1 .. (i - 1) : 1 + j - 1 = j
    BY <1>1, <1>3
  <2>4. /\ SubSeq(p, 1, i - 1) \in Seq(Names)
        /\ Len(SubSeq(p, 1, i - 1)) = i - 1
        /\ \A j \in 1 .. (i - 1) : SubSeq(p, 1, i - 1)[j] = p[j]
    BY <2>1, <2>3, SubSeqProperties
  <2>5. /\ SubSeq(q, 1, i - 1) \in Seq(Names)
        /\ Len(SubSeq(q, 1, i - 1)) = i - 1
        /\ \A j \in 1 .. (i - 1) : SubSeq(q, 1, i - 1)[j] = q[j]
    BY <2>1, <2>3, SubSeqProperties
  <2> QED BY <2>2, <2>4, <2>5, SeqEqual
<1> QED BY <1>3, <1>4, <1>5 DEF LeadsIn

(* The tree with e under name n of directory d, and the paths that do not   *)
(* go by that name.                                                         *)
Changed(t, d, n, e) == [t EXCEPT ![d][n] = e]
Kept(t, S, d, n) == {p \in S : ~LeadsIn(t, p, d, n)}

(* A change leaves steady every path that does not go by the changed name.  *)
LEMMA SteadyKept ==
  ASSUME NEW t \in Trees, NEW S, SteadyIn(t, S),
         NEW d \in AllDirs, NEW n \in Names, NEW e \in Entries
  PROVE  LET u == Changed(t, d, n, e)
             R == Kept(t, S, d, n) IN
         /\ SteadyIn(u, R)
         /\ \A p \in R : /\ ResolveIn(u, Parent(p)) = ResolveIn(t, Parent(p))
                         /\ AtIn(u, p) = AtIn(t, p)
<1> DEFINE u == Changed(t, d, n, e)
           R == Kept(t, S, d, n)
<1>1. \A p \in S : p \in Paths /\ p # <<>> /\ ResolveIn(t, Parent(p)) \in AllDirs
  BY DEF SteadyIn
<1>2. ASSUME NEW p \in R
      PROVE  /\ p \in S /\ ~(ResolveIn(t, Parent(p)) = d /\ Last(p) = n)
             /\ Parent(p) # <<>> => Parent(p) \in R
  <2>1. p \in S /\ ~LeadsIn(t, p, d, n)
    BY <1>2 DEF Kept
  <2>2. ~(ResolveIn(t, Parent(p)) = d /\ Last(p) = n)
    BY <1>1, <2>1, LeadsByLast
  <2>3. Parent(p) # <<>> => Parent(p) \in S
    BY <2>1 DEF SteadyIn
  <2>4. ~LeadsIn(t, Parent(p), d, n)
    BY <1>1, <2>1, LeadsByParent
  <2> QED BY <2>1, <2>2, <2>3, <2>4 DEF Kept
<1>3. \A x \in AllDirs, m \in Names : ~(x = d /\ m = n) => u[x][m] = t[x][m]
  BY DEF Trees, Changed
<1> HIDE DEF u, R
<1> DEFINE Moved == {k \in Nat : \E p \in R : Len(p) = k
                                   /\ ResolveIn(u, Parent(p)) # ResolveIn(t, Parent(p))}
<1>4. Moved = {}
  <2>1. SUFFICES ASSUME Moved # {} PROVE FALSE
    OBVIOUS
  <2>2. PICK k \in Moved : \A j \in Moved : k <= j
    BY <2>1, LeastNumber
  <2>3. PICK p \in R : Len(p) = k /\ ResolveIn(u, Parent(p)) # ResolveIn(t, Parent(p))
    BY <2>2
  <2> DEFINE q == Parent(p)
  <2>4. p \in S /\ p \in Paths /\ q \in Paths /\ Len(p) = Len(q) + 1 /\ Len(q) \in Nat
    BY <1>1, <1>2, ParentOfPath DEF Paths
  <2>5. q # <<>>
    BY <2>3, ResolveRoot
  <2>6. q \in R /\ q \in S /\ AtIn(t, q) \in Dirs
    BY <1>2, <2>4, <2>5 DEF SteadyIn
  <2> DEFINE x == ResolveIn(t, Parent(q))
  <2>7. ResolveIn(u, Parent(q)) = x
    <3>1. ~(k <= Len(q))
      BY <2>3, <2>4
    <3>2. Len(q) \notin Moved
      <4> HIDE DEF Moved
      <4> QED BY <2>2, <3>1
    <3> QED BY <2>4, <2>6, <3>2
  <2>8. x \in AllDirs /\ x # None /\ Parent(q) \in Paths /\ Last(q) \in Names
        /\ q = Append(Parent(q), Last(q))
    BY <1>1, <2>5, <2>6, ParentOfPath, NamesAssumption, EntriesAssumption DEF AllDirs, Entries
  <2>9. u[x][Last(q)] = t[x][Last(q)] /\ t[x][Last(q)] \in Dirs
    BY <1>2, <1>3, <2>6, <2>8 DEF AtIn
  <2>10. EnterIn(u, x, Last(q)) = EnterIn(t, x, Last(q))
    BY <2>9, EntriesAssumption DEF EnterIn
  <2> HIDE DEF x, q
  <2>11. ResolveIn(u, q) = EnterIn(u, x, Last(q)) /\ ResolveIn(t, q) = EnterIn(t, x, Last(q))
    BY <2>7, <2>8, ResolveAppend DEF x
  <2> QED BY <2>3, <2>10, <2>11 DEF q
<1>5. \A p \in R : ResolveIn(u, Parent(p)) = ResolveIn(t, Parent(p))
  <2> TAKE p \in R
  <2>1. Len(p) \in Nat
    BY <1>1, <1>2 DEF Paths
  <2> QED BY <1>4, <2>1
<1>6. \A p \in R : AtIn(u, p) = AtIn(t, p)
  <2> TAKE p \in R
  <2>1. ResolveIn(t, Parent(p)) \in AllDirs /\ Last(p) \in Names
    BY <1>1, <1>2, ParentOfPath
  <2> QED BY <1>2, <1>3, <1>5, <2>1 DEF AtIn
<1>7. SteadyIn(u, R)
  <2> SUFFICES ASSUME NEW p \in R
               PROVE  /\ p \in Paths /\ p # <<>>
                      /\ ResolveIn(u, Parent(p)) \in AllDirs /\ AtIn(u, p) # None
                      /\ Parent(p) # <<>> => Parent(p) \in R /\ AtIn(u, Parent(p)) \in Dirs
    BY DEF SteadyIn
  <2> QED BY <1>2, <1>5, <1>6 DEF SteadyIn
<1> QED BY <1>5, <1>6, <1>7 DEF u, R

(* The next name on the way to a steady entry is steady, and that of a      *)
(* directory if the way goes on.                                            *)
LEMMA SteadyTowards ==
  ASSUME NEW t, NEW S, SteadyIn(t, S), NEW p \in S, NEW q \in Paths, Above(q, p)
  PROVE  LET c == Append(q, Towards(q, p)) IN
         /\ c \in S /\ c \in Paths /\ Parent(c) = q /\ Last(c) = Towards(q, p) /\ Within(c, p)
         /\ t[ResolveIn(t, q)][Towards(q, p)] # None
         /\ c # p => Above(c, p) /\ t[ResolveIn(t, q)][Towards(q, p)] \in Dirs
<1> DEFINE c == Append(q, Towards(q, p))
<1>1. p \in Paths
  BY DEF SteadyIn
<1>2. Towards(q, p) \in Names /\ Within(c, p)
  BY <1>1, TowardsIsBetween
<1>3. c \in Paths /\ c # <<>> /\ Parent(c) = q /\ Last(c) = Towards(q, p)
  BY <1>2, AppendIsBelow
<1>4. c # p => Above(c, p) /\ c \in S /\ AtIn(t, c) \in Dirs
  BY <1>2, <1>3, SteadyAbove DEF Within
<1>5. c \in S
  BY <1>4
<1>6. AtIn(t, c) # None
  BY <1>5 DEF SteadyIn
<1> QED BY <1>2, <1>3, <1>4, <1>5, <1>6 DEF AtIn

-----------------------------------------------------------------------------
(* What waits *)

Elems(s) == {s[i] : i \in 1 .. Len(s)}

(* Neither lies in the other; it is asked only of paths in S. *)
Apart(q, p) == ~Within(q, p) /\ ~Within(p, q)
Clear(q, p, S) == q \in S /\ p \in S => Apart(q, p)
AllApart(s, S) == \A i, j \in 1 .. Len(s) : i # j => Clear(s[i], s[j], S)

LEMMA ElemsOfAppend ==
  ASSUME NEW s \in Seq(Paths), NEW p \in Paths, NEW S
  PROVE  /\ Append(s, p) \in Seq(Paths) /\ Elems(Append(s, p)) = Elems(s) \cup {p}
         /\ AllApart(s, S) /\ (\A q \in Elems(s) : Clear(q, p, S)) => AllApart(Append(s, p), S)
<1>1. /\ Append(s, p) \in Seq(Paths) /\ Len(Append(s, p)) = Len(s) + 1 /\ Len(s) \in Nat
      /\ \A i \in 1 .. Len(s) : Append(s, p)[i] = s[i]
      /\ Append(s, p)[Len(s) + 1] = p
  BY AppendProperties
<1>2. /\ \A i \in 1 .. Len(Append(s, p)) : i \in 1 .. Len(s) \/ i = Len(s) + 1
      /\ \A i \in 1 .. Len(s) : i \in 1 .. Len(Append(s, p))
      /\ Len(s) + 1 \in 1 .. Len(Append(s, p))
  BY <1>1
<1>3. Elems(Append(s, p)) = Elems(s) \cup {p}
  BY <1>1, <1>2 DEF Elems
<1>4. ASSUME AllApart(s, S), \A q \in Elems(s) : Clear(q, p, S) PROVE AllApart(Append(s, p), S)
  BY <1>1, <1>2, <1>4 DEF Elems, AllApart, Clear, Apart
<1> QED BY <1>1, <1>3, <1>4

LEMMA ElemsOfConcat ==
  ASSUME NEW s \in Seq(Paths), NEW r \in Seq(Paths), NEW S
  PROVE  /\ s \o r \in Seq(Paths) /\ Elems(s \o r) = Elems(s) \cup Elems(r)
         /\ AllApart(s, S) /\ AllApart(r, S) /\ (\A q \in Elems(s), p \in Elems(r) : Clear(q, p, S))
               => AllApart(s \o r, S)
<1>1. /\ s \o r \in Seq(Paths) /\ Len(s \o r) = Len(s) + Len(r)
      /\ Len(s) \in Nat /\ Len(r) \in Nat
      /\ \A i \in 1 .. Len(s) + Len(r) : (s \o r)[i] = IF i <= Len(s) THEN s[i] ELSE r[i - Len(s)]
  BY ConcatProperties
<1>2. \A i \in 1 .. Len(s \o r) : \/ i \in 1 .. Len(s) /\ (s \o r)[i] = s[i]
                                  \/ i - Len(s) \in 1 .. Len(r) /\ (s \o r)[i] = r[i - Len(s)]
  BY <1>1
<1>3. \A i \in 1 .. Len(s) : i \in 1 .. Len(s \o r) /\ (s \o r)[i] = s[i]
  BY <1>1
<1>4. \A i \in 1 .. Len(r) : Len(s) + i \in 1 .. Len(s \o r) /\ (s \o r)[Len(s) + i] = r[i]
  BY <1>1
<1>5. Elems(s \o r) = Elems(s) \cup Elems(r)
  BY <1>2, <1>3, <1>4 DEF Elems
<1>6. ASSUME AllApart(s, S), AllApart(r, S), \A q \in Elems(s), p \in Elems(r) : Clear(q, p, S)
      PROVE  AllApart(s \o r, S)
  <2> SUFFICES ASSUME NEW i \in 1 .. Len(s \o r), NEW j \in 1 .. Len(s \o r), i # j
               PROVE  Clear((s \o r)[i], (s \o r)[j], S)
    BY DEF AllApart
  <2>1. i \in Nat /\ j \in Nat /\ (i - Len(s) = j - Len(s) => i = j)
    BY <1>1
  <2>2. CASE i \in 1 .. Len(s) /\ j \in 1 .. Len(s)
    BY <1>3, <1>6, <2>2 DEF AllApart
  <2>3. CASE i \in 1 .. Len(s) /\ j \notin 1 .. Len(s)
    BY <1>2, <1>3, <1>6, <2>3 DEF Elems
  <2>4. CASE i \notin 1 .. Len(s) /\ j \in 1 .. Len(s)
    BY <1>2, <1>3, <1>6, <2>4 DEF Elems, Clear, Apart
  <2>5. CASE i \notin 1 .. Len(s) /\ j \notin 1 .. Len(s)
    BY <1>2, <1>6, <2>1, <2>5 DEF AllApart
  <2> QED BY <2>2, <2>3, <2>4, <2>5
<1> QED BY <1>1, <1>5, <1>6

LEMMA ElemsOfTail ==
  ASSUME NEW s \in Seq(Paths), s # <<>>, NEW S
  PROVE  /\ Head(s) \in Paths /\ Tail(s) \in Seq(Paths)
         /\ Elems(s) = {Head(s)} \cup Elems(Tail(s))
         /\ AllApart(s, S) => AllApart(Tail(s), S) /\ \A q \in Elems(Tail(s)) : Clear(q, Head(s), S)
<1>1. /\ Head(s) \in Paths /\ Tail(s) \in Seq(Paths) /\ Len(Tail(s)) = Len(s) - 1
      /\ \A i \in 1 .. Len(Tail(s)) : Tail(s)[i] = s[i + 1]
      /\ Len(s) \in Nat /\ Len(s) # 0 /\ Head(s) = s[1]
  BY HeadTailProperties, EmptySeq DEF Head
<1>2. /\ 1 \in 1 .. Len(s)
      /\ \A i \in 1 .. Len(Tail(s)) : i + 1 \in 1 .. Len(s) /\ i + 1 # 1
      /\ \A i \in 1 .. Len(s) : i # 1 => i - 1 \in 1 .. Len(Tail(s)) /\ (i - 1) + 1 = i
      /\ \A i, j \in 1 .. Len(Tail(s)) : i + 1 = j + 1 => i = j
  BY <1>1
<1>3. Elems(s) = {Head(s)} \cup Elems(Tail(s))
  <2>1. ASSUME NEW i \in 1 .. Len(s) PROVE s[i] \in {Head(s)} \cup Elems(Tail(s))
    <3>1. CASE i = 1
      BY <1>1, <3>1
    <3>2. CASE i # 1
      <4>1. i - 1 \in 1 .. Len(Tail(s)) /\ Tail(s)[i - 1] = s[i]
        BY <1>1, <1>2, <3>2
      <4> QED BY <4>1 DEF Elems
    <3> QED BY <3>1, <3>2
  <2>2. ASSUME NEW i \in 1 .. Len(Tail(s)) PROVE Tail(s)[i] \in Elems(s)
    BY <1>1, <1>2 DEF Elems
  <2>3. Head(s) \in Elems(s)
    BY <1>1, <1>2 DEF Elems
  <2> QED BY <2>1, <2>2, <2>3 DEF Elems
<1>4. ASSUME AllApart(s, S)
      PROVE  AllApart(Tail(s), S) /\ \A q \in Elems(Tail(s)) : Clear(q, Head(s), S)
  BY <1>1, <1>2, <1>4 DEF AllApart, Elems
<1> QED BY <1>1, <1>3, <1>4

LEMMA ElemsOfNone ==
  <<>> \in Seq(Paths) /\ Elems(<<>>) = {} /\ \A S : AllApart(<<>>, S)
<1>1. <<>> \in Seq(Paths) /\ Len(<<>>) = 0 /\ 1 .. 0 = {}
  BY EmptySeq
<1> QED BY <1>1 DEF Elems, AllApart

LEMMA ElemsArePaths ==
  ASSUME NEW s \in Seq(Paths)
  PROVE  Elems(s) \subseteq Paths
BY ElementOfSeq DEF Elems

(* Two entries of one directory. *)
LEMMA SiblingsApart ==
  ASSUME NEW q \in Paths, NEW p \in Paths, q # <<>>, p # <<>>, q # p, Parent(q) = Parent(p)
  PROVE  Apart(q, p)
<1>1. Len(q) = Len(p) /\ Len(q) \in Nat
  BY ParentOfPath DEF Paths
<1> QED BY <1>1 DEF Apart, Within, Above

-----------------------------------------------------------------------------
(* Nothing steady twice: the invariant *)

Running == pc \in {"next", "read", "visit"}
Open == pc \in {"read", "visit"}

(* What is steady can be reached, and where it is read is the place it has. *)
Fixed == steady \cup {<<>>}
SteadyInv == SteadyIn(entry, steady)
HandleInv == Open => \A p \in steady : Parent(p) = place => ResolveIn(entry, place) = handle

(* q was handed over, nothing of S below it was, and no skip concerns it. *)
Untouched(q, v, S, skips) ==
    /\ q \in v /\ \A p \in v \cap S : ~Above(q, p)
    /\ \A r \in skips : ~Within(r, q)

(* Between two directories the walk holds nothing. *)
Idle ==
    /\ pc \in {"start", "next"} =>
          /\ place = <<>> /\ handle = None /\ seen = {} /\ batch = {}
          /\ after = "more" /\ subdirs = <<>>
    /\ pc = "start" => pending = <<>> /\ visited = {} /\ pruned = {} /\ cut = {}
    /\ outcome # "none" => pc = "returned"

(* What waits on the stack is apart from all else that waits ... *)
QueueInv == Running =>
    AllApart(pending, Fixed) /\ \A q \in Elems(pending) : Untouched(q, visited, steady, pruned)

(* ... and from the directory being read, of which those entries were       *)
(* handed over that were read and are not in the batch.                     *)
PlaceInv == Open =>
    /\ place \in visited
    /\ \A r \in pruned : ~Within(r, place)
    /\ \A q \in Elems(pending) : Clear(q, place, Fixed)
    /\ \A p \in visited \cap steady : Above(place, p) =>
          /\ Parent(p) = place
          /\ Last(p) \in seen /\ \A e \in batch : e[1] # Last(p)

SubdirsInv == Open =>
    /\ AllApart(subdirs, Fixed)
    /\ \A q \in Elems(subdirs) :
          q # <<>> /\ Parent(q) = place /\ Untouched(q, visited, steady, pruned)

BatchInv == Open =>
    /\ pc = "read" => batch = {}
    /\ \A e \in batch : Append(place, e[1]) \in steady => e[1] \in seen
    /\ \A e, f \in batch : e[1] = f[1] => e = f

OnceInv ==
    /\ TypeOK /\ Idle /\ SteadyInv /\ HandleInv
    /\ QueueInv /\ PlaceInv /\ SubdirsInv /\ BatchInv
    /\ VisitedOnce /\ SkipsArePruned

-----------------------------------------------------------------------------
(* What lies above what is steady is so as well. *)
LEMMA FixedAbove ==
  ASSUME SteadyInv, NEW p \in Fixed, NEW q \in Paths, Within(q, p)
  PROVE  p \in Paths /\ q \in Fixed
<1>1. p \in Paths
  BY EmptySeq DEF Fixed, SteadyInv, SteadyIn, Paths
<1>2. CASE q # p /\ q # <<>>
  <2>1. Above(q, p) /\ p # <<>>
    BY <1>1, <1>2, AboveIsOrder DEF Within
  <2> QED BY <1>1, <1>2, <2>1, SteadyAbove DEF Fixed, SteadyInv
<1> QED BY <1>1, <1>2 DEF Fixed

(* What a directory leaves behind can be descended into. *)
LEMMA FoundIsReady ==
  ASSUME OnceInv, Open
  PROVE  /\ Found \in Seq(Paths) /\ AllApart(Found, Fixed)
         /\ Elems(Found) = Elems(subdirs) \cup Elems(pending)
         /\ \A q \in Elems(Found) :
              /\ Untouched(q, visited, steady, pruned)
              /\ q \in Fixed /\ place \in Fixed => ~Within(q, place)
<1>1. pending \in Seq(Paths) /\ subdirs \in Seq(Paths) /\ place \in Paths
  BY DEF OnceInv, TypeOK
<1>2. Elems(pending) \subseteq Paths /\ Elems(subdirs) \subseteq Paths
  BY <1>1, ElemsArePaths
<1>3. AllApart(pending, Fixed) /\ AllApart(subdirs, Fixed)
  BY DEF OnceInv, QueueInv, SubdirsInv, Running, Open
<1>4. \A q \in Elems(subdirs) :
         q # <<>> /\ Parent(q) = place /\ Untouched(q, visited, steady, pruned)
  BY DEF OnceInv, SubdirsInv
<1>5. \A q \in Elems(pending) : Clear(q, place, Fixed) /\ Untouched(q, visited, steady, pruned)
  BY DEF OnceInv, QueueInv, PlaceInv, Running, Open
<1>6. \A q \in Elems(subdirs) : q = Append(place, Last(q)) /\ Last(q) \in Names /\ Above(place, q)
  BY <1>2, <1>4, ParentOfPath
<1>7. ASSUME NEW q \in Elems(subdirs), NEW r \in Elems(pending) PROVE Clear(q, r, Fixed)
  <2>1. SUFFICES ASSUME q \in Fixed, r \in Fixed PROVE Apart(q, r)
    BY DEF Clear
  <2>2. place \in Fixed
    BY <1>1, <1>6, <2>1, FixedAbove DEF OnceInv, Within
  <2>3. q \in Paths /\ r \in Paths /\ ~Within(place, r) /\ ~Within(r, place)
    BY <1>2, <1>5, <2>1, <2>2 DEF Clear, Apart
  <2>4. ~Within(q, r)
    BY <1>1, <1>6, <2>3, AboveIsOrder DEF Within
  <2>5. ~Above(r, q)
    BY <1>1, <1>6, <2>3, AboveOfAppend
  <2> QED BY <2>4, <2>5 DEF Apart, Within
<1>8. \A q \in Elems(subdirs) : ~Within(q, place)
  BY <1>1, <1>2, <1>6, AboveIsOrder DEF Within
<1>9. \A q \in Elems(pending) : q \in Fixed /\ place \in Fixed => ~Within(q, place)
  BY <1>5 DEF Clear, Apart
<1> QED BY <1>1, <1>3, <1>4, <1>5, <1>7, <1>8, <1>9, ElemsOfConcat DEF Found

(* An entry of the batch that is steady is new to the callback, and any     *)
(* lies apart from everything that waits.                                   *)
LEMMA EntryIsNew ==
  ASSUME OnceInv, pc = "visit", NEW e \in batch, NEW p, p = Append(place, e[1])
  PROVE  /\ e[1] \in Names /\ e[2] \in BOOLEAN
         /\ p \in Paths /\ p # <<>> /\ Parent(p) = place /\ Last(p) = e[1] /\ Above(place, p)
         /\ p \in steady => e[1] \in seen /\ p \notin visited
         /\ Untouched(p, visited \cup {p}, steady, pruned \ {p})
         /\ \A q \in Elems(Found) :
              Clear(p, q, Fixed) /\ Untouched(q, visited \cup {p}, steady, pruned)
         /\ \A q \in Elems(Found) \cup {place} : p \notin visited => ~Within(p, q)
         /\ \A x \in visited \cup {p} : x # <<>> => Parent(x) \in visited
         /\ \A r \in pruned : ~Above(r, p)
         /\ p \notin visited => \A x \in visited : ~Above(p, x)
<1>1. e[1] \in Names /\ e[2] \in BOOLEAN /\ place \in Paths
      /\ visited \subseteq Paths /\ pruned \subseteq visited
  BY DEF OnceInv, TypeOK
<1>2. p \in Paths /\ p # <<>> /\ Parent(p) = place /\ Last(p) = e[1] /\ Above(place, p)
  BY <1>1, AppendIsBelow
<1>3. \A q \in Paths : Above(q, p) <=> Within(q, place)
  BY <1>1, AboveOfAppend
<1>4. Open /\ SteadyInv
  BY DEF Open, OnceInv
<1>5. /\ place \in visited /\ \A r \in pruned : ~Within(r, place)
      /\ \A x \in visited \cap steady : Above(place, x) =>
            Parent(x) = place /\ \A f \in batch : f[1] # Last(x)
  BY <1>4 DEF OnceInv, PlaceInv
<1>6. p \in steady => e[1] \in seen /\ p \notin visited
  BY <1>2, <1>4, <1>5 DEF OnceInv, BatchInv
<1>7. \A x \in visited \cap steady : ~Above(p, x)
  <2> SUFFICES ASSUME NEW x \in visited \cap steady, Above(p, x) PROVE FALSE
    OBVIOUS
  <2>1. x \in Paths /\ Above(place, x)
    BY <1>1, <1>2, AboveIsOrder
  <2>2. Parent(x) = place /\ x # <<>>
    BY <1>1, <1>5, <2>1, AboveIsOrder
  <2>3. x = Append(place, Last(x)) /\ Last(x) \in Names
    BY <2>1, <2>2, ParentOfPath
  <2>4. Within(p, place)
    BY <1>1, <1>2, <2>3, AboveOfAppend
  <2> QED BY <1>1, <1>2, <2>4, AboveIsOrder DEF Within
<1>8. \A r \in pruned : ~Above(r, p)
  BY <1>1, <1>3, <1>5
<1>9. Untouched(p, visited \cup {p}, steady, pruned \ {p})
  BY <1>2, <1>7, <1>8, AboveIsOrder DEF Untouched, Within
<1>10. /\ Elems(Found) \subseteq Paths
       /\ \A q \in Elems(Found) : /\ Untouched(q, visited, steady, pruned)
                                  /\ q \in Fixed /\ place \in Fixed => ~Within(q, place)
  BY <1>4, FoundIsReady, ElemsArePaths
<1>11. p \in Fixed => place \in Fixed /\ p \in steady
  BY <1>1, <1>2, <1>4, FixedAbove DEF Fixed, Within
<1>12. ASSUME NEW q \in Elems(Found), p \in steady PROVE ~Above(q, p)
  <2>1. p \in Fixed /\ place \in Fixed /\ q \in Paths
    BY <1>10, <1>11, <1>12 DEF Fixed
  <2>2. Above(q, p) => q \in Fixed
    BY <1>4, <2>1, FixedAbove DEF Within
  <2> QED BY <1>3, <1>10, <2>1, <2>2
<1>13. ASSUME NEW q \in Elems(Found)
       PROVE  Clear(p, q, Fixed) /\ Untouched(q, visited \cup {p}, steady, pruned)
  <2>1. Untouched(q, visited \cup {p}, steady, pruned)
    BY <1>10, <1>12 DEF Untouched
  <2>2. ASSUME p \in Fixed, q \in Fixed PROVE Apart(p, q)
    <3>1. p \in steady /\ ~Above(q, p) /\ q # p
      BY <1>6, <1>10, <1>11, <1>12, <2>2 DEF Untouched
    <3>2. ~Above(p, q)
      BY <1>2, <1>7, <1>10, <2>2, AboveIsOrder DEF Fixed, Untouched
    <3> QED BY <3>1, <3>2 DEF Apart, Within
  <2> QED BY <2>1, <2>2 DEF Clear
<1>14. \A x \in visited : x # <<>> => Parent(x) \in visited
  BY DEF OnceInv, SkipsArePruned
<1>15. p \notin visited => \A x \in visited : ~Above(p, x)
  BY <1>1, <1>2, <1>14, ClosedAbove
<1>16. \A q \in Elems(Found) \cup {place} : p \notin visited => ~Within(p, q)
  BY <1>5, <1>10, <1>15 DEF Untouched, Within
<1>17. \A x \in visited \cup {p} : x # <<>> => Parent(x) \in visited
  BY <1>2, <1>5, <1>14
<1> QED BY <1>1, <1>2, <1>6, <1>8, <1>9, <1>13, <1>15, <1>16, <1>17

-----------------------------------------------------------------------------
(* What leaving a directory and returning keep, and types *)

Quiet == Idle /\ HandleInv /\ QueueInv /\ PlaceInv /\ SubdirsInv /\ BatchInv

LEMMA LeavingKeeps ==
  ASSUME NEW rest, LeaveFor(rest), outcome = "none",
         AllApart(rest, Fixed'), \A q \in Elems(rest) : Untouched(q, visited', steady', pruned')
  PROVE  Quiet'
BY DEF LeaveFor, Quiet, Idle, HandleInv, QueueInv, PlaceInv, SubdirsInv, BatchInv, Running, Open

LEMMA ReturningKeeps ==
  ASSUME NEW how, Return(how)
  PROVE  Quiet'
BY DEF Return, Quiet, Idle, HandleInv, QueueInv, PlaceInv, SubdirsInv, BatchInv, Running, Open

LEMMA ReportingKeeps ==
  ASSUME NEW p, NEW a, NEW rest, ReportDirFailure(p, a, rest), outcome = "none",
         AllApart(rest, Fixed'), \A q \in Elems(rest) : Untouched(q, visited', steady', pruned')
  PROVE  Quiet'
BY LeavingKeeps, ReturningKeeps DEF ReportDirFailure

(* Types *)

LEMMA LeavingType ==
  ASSUME NEW rest \in Seq(Paths), LeaveFor(rest), outcome \in Outcomes
  PROVE  /\ pc' \in PCs /\ outcome' \in Outcomes /\ pending' \in Seq(Paths) /\ place' \in Paths
         /\ handle' \in AllDirs \cup {None}
         /\ seen' \subseteq Names /\ due' \subseteq Names /\ batch' \subseteq Names \X BOOLEAN
         /\ after' \in {"more", "end", "failed"} /\ subdirs' \in Seq(Paths)
         /\ (pc' \in {"read", "visit"} => handle' \in AllDirs)
BY EmptySeq DEF LeaveFor, PCs, Paths

(* What readdir says of the names it returned. *)
LEMMA TypedNames ==
  ASSUME NEW some \in SUBSET Names
  PROVE  /\ Typed(some) \subseteq Names \X BOOLEAN
         /\ \A e \in Typed(some) : e[1] \in some /\ (entry[handle][e[1]] \in Dirs => e[2])
         /\ \A n \in some : \E e \in Typed(some) : e[1] = n
         /\ \A e, f \in Typed(some) : e[1] = f[1] => e = f
<1> DEFINE isDir(n) == entry[handle][n] \in Dirs
           typed == {<<n, isDir(n)>> : n \in some}
<1>1. Typed(some) = typed
  BY Zenon DEF Typed
<1>2. \A n \in some : isDir(n) \in BOOLEAN
  BY SMT
<1>3. \A n \in some : entry[handle][n] \in Dirs => isDir(n)
  BY Zenon
<1> HIDE DEF isDir
<1>4. typed \subseteq Names \X BOOLEAN
  BY <1>2, SMT
<1>5. \A e \in typed : \E n \in some : e = <<n, isDir(n)>>
  BY Zenon
<1>6. \A n \in some : <<n, isDir(n)>> \in typed
  BY Zenon
<1> HIDE DEF typed
<1>7. ASSUME NEW e \in typed PROVE e[1] \in some /\ (entry[handle][e[1]] \in Dirs => e[2])
  <2>1. PICK n \in some : e = <<n, isDir(n)>>
    BY <1>5
  <2>2. e[1] = n 
    BY <2>1, SMT
  <2>3. e[2] = isDir(n)
    BY <2>1, SMT
  <2>4. ASSUME entry[handle][e[1]] \in Dirs PROVE e[2]
    BY <1>3, <2>2, <2>3, <2>4, Zenon
  <2> QED BY <2>2, <2>4
<1>8. \A e, f \in typed : e[1] = f[1] => e = f
  BY <1>5, SMT
<1>9. ASSUME NEW n \in some PROVE \E e \in typed : e[1] = n
  <2>1. <<n, isDir(n)>>[1] = n
    OBVIOUS
  <2> QED BY <1>6, <2>1, Zenon
<1> QED BY <1>1, <1>4, <1>7, <1>8, <1>9

LEMMA TypeStep ==
  ASSUME OnceInv, Next
  PROVE  TypeOK'
<1> USE DEF tree, dirState, ghost
<1>0. TypeOK
  BY DEF OnceInv
<1>1. CASE Start
  <2>1. <<>> \in Paths /\ << <<>> >> \in Seq(Paths)
    BY EmptySeq DEF Paths
  <2> QED BY <1>0, <1>1, <2>1 DEF Start, Return, Hand, TypeOK, PCs, Outcomes
<1>2. CASE OpenDir
  <2>1. pc = "next" /\ pending # <<>> /\ pending \in Seq(Paths)
    BY <1>0, <1>2 DEF OpenDir, TypeOK
  <2>2. Head(pending) \in Paths /\ Tail(pending) \in Seq(Paths)
    BY <2>1, ElemsOfTail
  <2>3. CASE \E a \in Answers : ReportDirFailure(Head(pending), a, Tail(pending))
    <3>1. PICK a \in Answers : ReportDirFailure(Head(pending), a, Tail(pending))
      BY <2>3
    <3>2. CASE LeaveFor(Tail(pending))
      BY <1>0, <1>2, <2>2, <3>1, <3>2, LeavingType DEF OpenDir, ReportDirFailure, TypeOK
    <3>3. CASE \E how \in {"stopped", "error"} : Return(how) /\ UNCHANGED <<pending, dirState>>
      BY <1>0, <1>2, <2>2, <3>1, <3>3 DEF OpenDir, ReportDirFailure, TypeOK, Return, PCs, Outcomes
    <3> QED BY <3>1, <3>2, <3>3 DEF ReportDirFailure
  <2>4. CASE /\ Resolve(Head(pending)) # None
             /\ pc' = "read" /\ pending' = Tail(pending)
             /\ place' = Head(pending) /\ handle' = Resolve(Head(pending))
             /\ due' \subseteq Names
             /\ UNCHANGED <<seen, batch, after, subdirs, outcome, cut>>
    <3>1. handle' \in AllDirs
      BY <2>2, <2>4, ResolveIsIn, ResolveType
    <3> QED BY <1>0, <1>2, <2>2, <2>4, <3>1 DEF OpenDir, TypeOK, PCs
  <2> QED BY <1>2, <2>3, <2>4 DEF OpenDir
<1>3. CASE Finish
  BY <1>0, <1>3 DEF Finish, Return, TypeOK, PCs, Outcomes
<1>4. CASE ReadBatch
  <2>1. CASE cancelled
    BY <1>0, <1>4, <2>1 DEF ReadBatch, Return, TypeOK, PCs, Outcomes
  <2>2. CASE ~cancelled
    <3>1. PICK some \in SUBSET Unread, how \in {"more", "end", "failed"} :
            seen' = seen \cup some /\ due' = due \ some /\ batch' = Typed(some) /\ after' = how
      BY <1>4, <2>2 DEF ReadBatch
    <3>2. some \subseteq Names
      BY DEF Unread
    <3>3. seen' \subseteq Names /\ due' \subseteq Names /\ batch' \subseteq Names \X BOOLEAN
      BY <1>0, <3>1, <3>2, TypedNames DEF TypeOK
    <3> QED BY <1>0, <1>4, <2>2, <3>1, <3>3 DEF ReadBatch, TypeOK, PCs
  <2> QED BY <2>1, <2>2
<1>5. CASE Visit
  <2>1. pc = "visit" /\ Open
    BY <1>5 DEF Visit, Open
  <2>2. PICK e \in batch, a \in Answers :
          LET p == Append(place, e[1]) IN
          /\ Hand(p)
          /\ \/ /\ a = "continue" \/ (a = "skipDir" /\ e[2])
                /\ batch' = batch \ {e}
                /\ subdirs' = IF e[2] /\ a = "continue" THEN Append(subdirs, p) ELSE subdirs
                /\ IF e[2] THEN Prune(p, a) ELSE UNCHANGED pruned
                /\ UNCHANGED <<pc, pending, place, handle, seen, due, after, outcome, cut>>
             \/ /\ a = "skipDir" /\ ~e[2]
                /\ LeaveFor(Found)
                /\ cut' = cut \cup {place}
                /\ UNCHANGED pruned
             \/ a = "skipAll" /\ Return("stopped") /\ UNCHANGED <<pending, dirState, pruned, cut>>
             \/ a = "error" /\ Return("error") /\ UNCHANGED <<pending, dirState, pruned, cut>>
    BY <1>5, Zenon DEF Visit
  <2> DEFINE p == Append(place, e[1])
  <2>3. p \in Paths /\ Found \in Seq(Paths)
    BY <2>1, EntryIsNew, FoundIsReady
  <2> HIDE DEF p
  <2>4. /\ visited' = visited \cup {p} /\ again' \in {again, again \cup {p}}
        /\ UNCHANGED <<tree, cancelled, steady>>
    BY <1>5, <2>2 DEF Visit, Hand, p
  <2>5. CASE /\ batch' = batch \ {e}
             /\ subdirs' = IF e[2] /\ a = "continue" THEN Append(subdirs, p) ELSE subdirs
             /\ IF e[2] THEN Prune(p, a) ELSE UNCHANGED pruned
             /\ UNCHANGED <<pc, pending, place, handle, seen, due, after, outcome, cut>>
    <3>1. subdirs' \in Seq(Paths)
      BY <1>0, <2>3, <2>5, ElemsOfAppend DEF TypeOK
    <3>2. pruned' \subseteq visited'
      BY <1>0, <2>4, <2>5 DEF Prune, TypeOK
    <3> QED BY <1>0, <2>3, <2>4, <2>5, <3>1, <3>2 DEF TypeOK
  <2>6. CASE LeaveFor(Found) /\ cut' = cut \cup {place} /\ UNCHANGED pruned
    BY <1>0, <2>3, <2>4, <2>6, LeavingType DEF TypeOK
  <2>7. CASE \E how \in {"stopped", "error"} :
               Return(how) /\ UNCHANGED <<pending, dirState, pruned, cut>>
    BY <1>0, <2>3, <2>4, <2>7 DEF Return, TypeOK, PCs, Outcomes
  <2> QED BY <2>2, <2>5, <2>6, <2>7 DEF p
<1>6. CASE BatchDone
  <2>1. pc = "visit" /\ Open
    BY <1>6 DEF BatchDone, Open
  <2>2. Found \in Seq(Paths)
    BY <2>1, FoundIsReady
  <2>3. CASE LeaveFor(Found)
    BY <1>0, <1>6, <2>2, <2>3, LeavingType DEF BatchDone, ReportDirFailure, TypeOK
  <2>4. CASE pc' = "read" /\ UNCHANGED <<pending, dirState, outcome, cut>>
    BY <1>0, <1>6, <2>1, <2>4 DEF BatchDone, TypeOK, PCs
  <2>5. CASE \E how \in {"stopped", "error"} : /\ Return(how) /\ UNCHANGED <<pending, dirState>>
                                               /\ cut' = cut \cup {place}
    BY <1>0, <1>6, <2>5 DEF BatchDone, Return, TypeOK, PCs, Outcomes
  <2> QED BY <1>6, <2>3, <2>4, <2>5 DEF BatchDone, ReportDirFailure
<1>7. CASE Cancel
  BY <1>0, <1>7 DEF Cancel, TypeOK
<1>8. ASSUME NEW d \in AllDirs, NEW n \in Names, NEW e \in Entries, Change(d, n, e) PROVE TypeOK'
  <2>1. entry' \in [AllDirs -> [Names -> Entries]]
    BY <1>0, <1>8 DEF Change, TypeOK
  <2>2. moves' \in 0 .. MaxMoves
    BY <1>0, <1>8, MovesAssumption DEF Change, TypeOK
  <2> QED BY <1>0, <1>8, <2>1, <2>2 DEF Change, TypeOK
<1> QED BY <1>1, <1>2, <1>3, <1>4, <1>5, <1>6, <1>7, <1>8 DEF Next, Step

-----------------------------------------------------------------------------
(* Nothing steady twice: the steps *)

LEMMA OnceAtFirst ==
  ASSUME Init PROVE OnceInv
<1>1. entry \in Trees
  BY BeginningsAssumption DEF Init, Trees
<1>2. steady \subseteq Paths
  BY <1>1, NamesAreSteady, DirsAssumption DEF Init, SteadyIn
<1>3. TypeOK
  <2>1. <<>> \in Paths /\ <<>> \in Seq(Paths)
    BY EmptySeq DEF Paths
  <2>2. entry \in [AllDirs -> [Names -> Entries]] /\ moves \in 0 .. MaxMoves
    BY <1>1, MovesAssumption DEF Init, Trees
  <2>3. /\ pending \in Seq(Paths) /\ place \in Paths /\ subdirs \in Seq(Paths)
        /\ seen \subseteq Names /\ batch \subseteq Names \X BOOLEAN
    BY <2>1 DEF Init
  <2>4. /\ visited \subseteq Paths /\ again \subseteq visited /\ pruned \subseteq visited
        /\ cut \subseteq Paths
    BY DEF Init
  <2> QED BY <1>2, <2>2, <2>3, <2>4 DEF Init, TypeOK, PCs, Outcomes
<1>4. SteadyInv
  BY <1>1, NamesAreSteady, DirsAssumption DEF Init, SteadyInv
<1>5. /\ Idle /\ HandleInv /\ QueueInv /\ PlaceInv /\ SubdirsInv /\ BatchInv
      /\ VisitedOnce /\ SkipsArePruned
  BY DEF Init, Idle, HandleInv, QueueInv, PlaceInv, SubdirsInv, BatchInv, VisitedOnce,
         SkipsArePruned, Running, Open
<1> QED BY <1>3, <1>4, <1>5 DEF OnceInv

(* A change under a name that the walk has read, or is owed, is a change    *)
(* under a path that is not steady any more.                                *)
LEMMA KeptIsElsewhere ==
  ASSUME OnceInv, Open, NEW d \in AllDirs, NEW n \in Names, NEW e \in Entries, Change(d, n, e),
         NEW p \in steady', Parent(p) = place
  PROVE  p \in steady /\ ~(d = handle /\ Last(p) = n)
<1>1. steady' = Kept(entry, steady, d, n)
  BY ResolveIsIn DEF Change, LeadsBy, LeadsIn, Kept
<1>2. p \in steady /\ ~LeadsIn(entry, p, d, n)
  BY <1>1 DEF Kept
<1>3. p \in Paths /\ p # <<>> /\ ResolveIn(entry, Parent(p)) = handle
  BY <1>2 DEF OnceInv, SteadyInv, SteadyIn, HandleInv
<1> QED BY <1>2, <1>3, LeadsByLast

LEMMA OnceChange ==
  ASSUME OnceInv, NEW d \in AllDirs, NEW n \in Names, NEW e \in Entries, Change(d, n, e)
  PROVE  SteadyInv' /\ Quiet' /\ VisitedOnce' /\ SkipsArePruned'
<1>1. /\ entry \in Trees /\ entry' = Changed(entry, d, n, e)
      /\ UNCHANGED <<pc, pending, place, handle, batch, after, subdirs, outcome,
                     visited, again, pruned, cut>>
      /\ seen' \subseteq seen
      /\ \A m \in seen : ~(d = handle /\ m = n) => m \in seen'
  BY DEF Change, OnceInv, TypeOK, Trees, Changed
<1>2. steady' = Kept(entry, steady, d, n) /\ steady' \subseteq steady
  BY ResolveIsIn DEF Change, LeadsBy, LeadsIn, Kept
<1>3. /\ SteadyInv'
      /\ \A p \in steady' : ResolveIn(entry', Parent(p)) = ResolveIn(entry, Parent(p))
  <2>1. SteadyIn(entry, steady)
    BY DEF OnceInv, SteadyInv
  <2> QED BY <1>1, <1>2, <2>1, SteadyKept DEF SteadyInv
<1>4. HandleInv'
  BY <1>1, <1>2, <1>3 DEF OnceInv, HandleInv, Open
<1>5. Fixed' \subseteq Fixed
  BY <1>2 DEF Fixed
<1>6. \A s : AllApart(s, Fixed) => AllApart(s, Fixed')
  BY <1>5 DEF AllApart, Clear
<1>7. \A q : /\ Untouched(q, visited, steady, pruned) => Untouched(q, visited', steady', pruned')
             /\ Clear(q, place, Fixed) => Clear(q, place', Fixed')
  BY <1>1, <1>2, <1>5 DEF Untouched, Clear
<1>8. Idle'
  BY <1>1 DEF OnceInv, Idle
<1>9. QueueInv'
  BY <1>1, <1>6, <1>7 DEF OnceInv, QueueInv, Running
<1>10. SubdirsInv'
  BY <1>1, <1>6, <1>7 DEF OnceInv, SubdirsInv, Open
<1>11. ASSUME Open, NEW p \in steady', Parent(p) = place, Last(p) \in seen PROVE Last(p) \in seen'
  BY <1>1, <1>11, KeptIsElsewhere
<1>12. PlaceInv'
  <2> SUFFICES ASSUME Open PROVE PlaceInv'
    BY <1>1 DEF PlaceInv, Open
  <2>1. /\ place' \in visited' /\ \A r \in pruned' : ~Within(r, place')
        /\ \A q \in Elems(pending') : Clear(q, place', Fixed')
    BY <1>1, <1>7 DEF OnceInv, PlaceInv
  <2>2. \A p \in visited' \cap steady' : Above(place', p) =>
            /\ Parent(p) = place' /\ Last(p) \in seen' /\ \A f \in batch' : f[1] # Last(p)
    BY <1>1, <1>2, <1>11 DEF OnceInv, PlaceInv
  <2> QED BY <2>1, <2>2 DEF PlaceInv
<1>13. BatchInv'
  <2> SUFFICES ASSUME Open PROVE BatchInv'
    BY <1>1 DEF BatchInv, Open
  <2>1. ASSUME NEW f \in batch, Append(place, f[1]) \in steady' PROVE f[1] \in seen'
    <3>1. f[1] \in Names /\ place \in Paths
      BY DEF OnceInv, TypeOK
    <3>2. Parent(Append(place, f[1])) = place /\ Last(Append(place, f[1])) = f[1]
      BY <3>1, AppendIsBelow
    <3>3. f[1] \in seen
      BY <1>2, <2>1 DEF OnceInv, BatchInv
    <3> QED BY <1>11, <2>1, <3>2, <3>3
  <2> QED BY <1>1, <2>1 DEF OnceInv, BatchInv
<1>14. VisitedOnce' /\ SkipsArePruned'
  BY <1>1, <1>2 DEF OnceInv, VisitedOnce, SkipsArePruned
<1> QED BY <1>3, <1>4, <1>8, <1>9, <1>10, <1>12, <1>13, <1>14 DEF Quiet

LEMMA OnceVisit ==
  ASSUME OnceInv, Visit
  PROVE  Quiet' /\ VisitedOnce' /\ SkipsArePruned'
<1> USE DEF tree, dirState, ghost
<1>0. TypeOK /\ Idle /\ VisitedOnce /\ SkipsArePruned
  BY DEF OnceInv
<1>1. pc = "visit" /\ Open /\ outcome = "none" /\ UNCHANGED <<entry, steady>> /\ Fixed' = Fixed
  BY <1>0 DEF Visit, Open, Idle, Fixed
<1>2. PICK e \in batch, a \in Answers :
        LET p == Append(place, e[1]) IN
        /\ Hand(p)
        /\ \/ /\ a = "continue" \/ (a = "skipDir" /\ e[2])
              /\ batch' = batch \ {e}
              /\ subdirs' = IF e[2] /\ a = "continue" THEN Append(subdirs, p) ELSE subdirs
              /\ IF e[2] THEN Prune(p, a) ELSE UNCHANGED pruned
              /\ UNCHANGED <<pc, pending, place, handle, seen, due, after, outcome, cut>>
           \/ /\ a = "skipDir" /\ ~e[2]
              /\ LeaveFor(Found)
              /\ cut' = cut \cup {place}
              /\ UNCHANGED pruned
           \/ a = "skipAll" /\ Return("stopped") /\ UNCHANGED <<pending, dirState, pruned, cut>>
           \/ a = "error" /\ Return("error") /\ UNCHANGED <<pending, dirState, pruned, cut>>
  BY Zenon DEF Visit
<1> DEFINE p == Append(place, e[1])
<1>3. /\ p \in Paths /\ p # <<>> /\ Parent(p) = place /\ Last(p) = e[1] /\ Above(place, p)
      /\ p \in steady => e[1] \in seen /\ p \notin visited
      /\ Untouched(p, visited \cup {p}, steady, pruned \ {p})
      /\ \A q \in Elems(Found) :
           Clear(p, q, Fixed) /\ Untouched(q, visited \cup {p}, steady, pruned)
      /\ \A q \in Elems(Found) \cup {place} : p \notin visited => ~Within(p, q)
      /\ \A x \in visited \cup {p} : x # <<>> => Parent(x) \in visited
      /\ \A r \in pruned : ~Above(r, p)
      /\ p \notin visited => \A x \in visited : ~Above(p, x)
  BY <1>1, EntryIsNew, ZenonT(60)
<1> HIDE DEF p
<1>4. AllApart(Found, Fixed) /\ Elems(Found) = Elems(subdirs) \cup Elems(pending)
  BY <1>1, FoundIsReady
<1>5. visited' = visited \cup {p} /\ VisitedOnce'
  BY <1>0, <1>1, <1>2, <1>3 DEF Hand, p, VisitedOnce
<1>6. ~Above(p, p)
  BY <1>3, AboveIsOrder
<1>7. pruned' \subseteq pruned \/ (p \notin visited /\ pruned' = pruned \cup {p}) => SkipsArePruned'
  BY <1>0, <1>3, <1>5, <1>6 DEF SkipsArePruned
<1>8. CASE /\ a = "continue" \/ (a = "skipDir" /\ e[2])
           /\ batch' = batch \ {e}
           /\ subdirs' = IF e[2] /\ a = "continue" THEN Append(subdirs, p) ELSE subdirs
           /\ IF e[2] THEN Prune(p, a) ELSE UNCHANGED pruned
           /\ UNCHANGED <<pc, pending, place, handle, seen, due, after, outcome, cut>>
  <2>1. \/ pruned' \subseteq pruned
        \/ p \notin visited /\ pruned' = pruned \cup {p}
    BY <1>8 DEF Prune
  <2>2. SkipsArePruned'
    BY <1>7, <2>1
  <2>3. Idle' /\ HandleInv' /\ BatchInv'
    BY <1>1, <1>8 DEF OnceInv, Idle, HandleInv, BatchInv, Open
  <2>4. \A q \in Elems(pending) \cup Elems(subdirs) : Untouched(q, visited', steady', pruned')
    BY <1>1, <1>3, <1>4, <1>5, <2>1 DEF Untouched
  <2>5. QueueInv'
    BY <1>1, <1>8, <2>4 DEF OnceInv, QueueInv, Running, Open
  <2>6. PlaceInv'
    <3>1. place' = place /\ place \in visited' /\ \A r \in pruned' : ~Within(r, place)
      BY <1>1, <1>3, <1>5, <1>8, <2>1 DEF OnceInv, PlaceInv
    <3>2. \A q \in Elems(pending') : Clear(q, place, Fixed')
      BY <1>1, <1>8 DEF OnceInv, PlaceInv
    <3>3. \A f \in batch' : f \in batch /\ f[1] # e[1]
      BY <1>1, <1>8 DEF OnceInv, BatchInv
    <3>4. ASSUME NEW x \in visited' \cap steady', Above(place, x)
          PROVE  Parent(x) = place /\ Last(x) \in seen' /\ \A f \in batch' : f[1] # Last(x)
      <4>1. CASE x = p
        BY <1>1, <1>3, <1>8, <3>3, <3>4, <4>1
      <4>2. CASE x # p
        BY <1>1, <1>5, <1>8, <3>3, <3>4, <4>2 DEF OnceInv, PlaceInv
      <4> QED BY <4>1, <4>2
    <3> QED BY <3>1, <3>2, <3>4 DEF PlaceInv
  <2>7. SubdirsInv'
    <3>1. /\ AllApart(subdirs, Fixed) /\ subdirs \in Seq(Paths)
          /\ \A q \in Elems(subdirs) : q # <<>> /\ Parent(q) = place /\ Clear(q, p, Fixed)
      BY <1>0, <1>1, <1>3, <1>4 DEF OnceInv, SubdirsInv, TypeOK, Clear, Apart
    <3>2. CASE subdirs' = subdirs
      BY <1>1, <1>8, <2>4, <3>1, <3>2 DEF SubdirsInv
    <3>3. CASE a = "continue" /\ e[2] /\ subdirs' = Append(subdirs, p)
      <4>1. AllApart(subdirs', Fixed) /\ Elems(subdirs') = Elems(subdirs) \cup {p}
        BY <1>3, <3>1, <3>3, ElemsOfAppend
      <4>2. pruned' = pruned \ {p}
        BY <1>8, <3>3 DEF Prune
      <4>3. Untouched(p, visited', steady', pruned')
        BY <1>1, <1>3, <1>5, <4>2
      <4> QED BY <1>1, <1>3, <1>8, <2>4, <3>1, <4>1, <4>3 DEF SubdirsInv
    <3> QED BY <1>8, <3>2, <3>3
  <2> QED BY <1>5, <2>2, <2>3, <2>5, <2>6, <2>7 DEF Quiet
<1>9. CASE LeaveFor(Found) /\ UNCHANGED pruned
  <2>1. \A q \in Elems(Found) : Untouched(q, visited', steady', pruned')
    BY <1>1, <1>3, <1>5, <1>9
  <2> QED BY <1>1, <1>4, <1>5, <1>7, <1>9, <2>1, LeavingKeeps
<1>10. CASE (\E how \in Outcomes : Return(how)) /\ UNCHANGED pruned
  BY <1>5, <1>7, <1>10, ReturningKeeps
<1> QED BY <1>2, <1>8, <1>9, <1>10 DEF p, Outcomes

LEMMA OnceStep ==
  ASSUME OnceInv, Next
  PROVE  OnceInv'
<1> USE DEF tree, dirState, ghost
<1>0. TypeOK /\ TypeOK' /\ Idle /\ SteadyInv /\ VisitedOnce /\ SkipsArePruned
  BY TypeStep DEF OnceInv
<1> SUFFICES SteadyInv' /\ Quiet' /\ VisitedOnce' /\ SkipsArePruned'
  BY <1>0 DEF OnceInv, Quiet
<1>s. UNCHANGED <<entry, steady>> => SteadyInv' /\ Fixed' = Fixed
  BY <1>0 DEF SteadyInv, Fixed
<1>1. CASE Start
  <2>1. visited = {} /\ pruned = {} /\ outcome = "none" /\ place = <<>> /\ pruned' = {} /\ SteadyInv'
        /\ steady' = steady
    BY <1>0, <1>s, <1>1 DEF Start, Idle
  <2>2. CASE UNCHANGED <<visited, again>> /\ \E how \in Outcomes : Return(how)
    BY <1>0, <2>1, <2>2, ReturningKeeps DEF VisitedOnce, SkipsArePruned
  <2>3. CASE Hand(<<>>)
    <3>1. visited' = {<<>>} /\ again' = again
      BY <2>1, <2>3 DEF Hand
    <3>2. VisitedOnce' /\ SkipsArePruned'
      BY <1>0, <2>1, <3>1 DEF VisitedOnce, SkipsArePruned
    <3>3. CASE \E how \in Outcomes : Return(how)
      BY <2>1, <3>2, <3>3, ReturningKeeps
    <3>4. CASE pc' = "next" /\ pending' = << <<>> >> /\ UNCHANGED outcome
      <4>1. <<>> \in Paths /\ ~Above(<<>>, <<>>)
        BY EmptySeq, AboveIsOrder DEF Paths
      <4>2. Elems(pending') = {<<>>} /\ AllApart(pending', Fixed')
        <5>1. Len(pending') = 1 /\ pending'[1] = <<>> /\ 1 .. 1 = {1}
          BY <3>4
        <5> HIDE <3>4
        <5> QED BY <5>1 DEF Elems, AllApart
      <4>3. Untouched(<<>>, visited', steady', pruned')
        BY <2>1, <3>1, <4>1 DEF Untouched
      <4>4. UNCHANGED dirState
        BY <1>1 DEF Start
      <4>5. Quiet'
        BY <1>0, <1>1, <2>1, <3>4, <4>2, <4>3, <4>4
           DEF Start, Quiet, Idle, HandleInv, QueueInv, PlaceInv, SubdirsInv, BatchInv, Running, Open
      <4> QED BY <2>1, <3>2, <4>5
    <3> QED BY <1>1, <2>3, <3>3, <3>4 DEF Start, Outcomes
  <2> QED BY <1>1, <2>2, <2>3 DEF Start, Outcomes
<1>2. CASE OpenDir
  <2>1. /\ pc = "next" /\ pending # <<>> /\ pending \in Seq(Paths) /\ outcome = "none" /\ Running
        /\ SteadyInv' /\ UNCHANGED <<entry, steady>> /\ Fixed' = Fixed
    BY <1>0, <1>s, <1>2 DEF OpenDir, TypeOK, Idle, Running
  <2> DEFINE p == Head(pending)  rest == Tail(pending)
  <2>2. /\ p \in Paths /\ rest \in Seq(Paths) /\ Elems(pending) = {p} \cup Elems(rest)
        /\ AllApart(pending, Fixed) =>
             AllApart(rest, Fixed) /\ \A q \in Elems(rest) : Clear(q, p, Fixed)
    BY <2>1, ElemsOfTail
  <2>3. /\ UNCHANGED <<visited, again, pruned>>
        /\ \/ /\ pc' = "read" /\ pending' = rest /\ place' = p /\ handle' = Resolve(p)
              /\ UNCHANGED <<seen, batch, after, subdirs, outcome, cut>>
           \/ \E a \in Answers : ReportDirFailure(p, a, rest)
    BY <1>2 DEF OpenDir
  <2> HIDE DEF p, rest
  <2>4. /\ AllApart(rest, Fixed)
        /\ \A q \in Elems(rest) : Clear(q, p, Fixed) /\ Untouched(q, visited', steady', pruned')
        /\ Untouched(p, visited', steady', pruned')
    BY <2>1, <2>2, <2>3 DEF OnceInv, QueueInv
  <2>5. VisitedOnce' /\ SkipsArePruned'
    BY <1>0, <2>1, <2>3 DEF VisitedOnce, SkipsArePruned
  <2>6. CASE \E a \in Answers : ReportDirFailure(p, a, rest)
    BY <2>1, <2>4, <2>5, <2>6, ReportingKeeps
  <2>7. CASE /\ pc' = "read" /\ pending' = rest /\ place' = p /\ handle' = Resolve(p)
             /\ UNCHANGED <<seen, batch, after, subdirs, outcome, cut>>
    <3>1. seen = {} /\ batch = {} /\ subdirs = <<>>
      BY <1>0, <2>1 DEF Idle
    <3>2. Idle' /\ QueueInv' /\ BatchInv'
      BY <2>1, <2>4, <2>7, <3>1 DEF Idle, QueueInv, BatchInv, Running, Open
    <3>3. PlaceInv'
      BY <2>1, <2>3, <2>4, <2>7 DEF PlaceInv, Untouched, Open
    <3>4. SubdirsInv'
      BY <2>7, <3>1, ElemsOfNone DEF SubdirsInv
    <3>5. HandleInv'
      BY <2>1, <2>7, ResolveIsIn DEF HandleInv
    <3> QED BY <2>1, <2>5, <3>2, <3>3, <3>4, <3>5 DEF Quiet
  <2> QED BY <2>3, <2>6, <2>7
<1>3. CASE Finish
  BY <1>0, <1>s, <1>3, ReturningKeeps DEF Finish, VisitedOnce, SkipsArePruned
<1>4. CASE ReadBatch
  <2>1. VisitedOnce' /\ SkipsArePruned' /\ SteadyInv' /\ steady' = steady /\ Fixed' = Fixed
    BY <1>0, <1>s, <1>4 DEF ReadBatch, VisitedOnce, SkipsArePruned
  <2>2. CASE cancelled
    BY <1>4, <2>1, <2>2, ReturningKeeps DEF ReadBatch
  <2>3. CASE ~cancelled
    <3>1. PICK some \in SUBSET Unread, how \in {"more", "end", "failed"} :
            seen' = seen \cup some /\ batch' = Typed(some) /\ after' = how
      BY <1>4, <2>3 DEF ReadBatch
    <3>2. /\ some \subseteq Names /\ some \cap seen = {} /\ pc = "read" /\ pc' = "visit" /\ Open
          /\ UNCHANGED <<entry, pending, place, handle, subdirs, visited, pruned, outcome, cut>>
      BY <1>4, <2>3 DEF ReadBatch, Unread, Open
    <3>3. /\ \A e \in batch' : e[1] \in some
          /\ \A e, f \in batch' : e[1] = f[1] => e = f
      BY <3>1, <3>2, TypedNames
    <3>4. Idle' /\ HandleInv' /\ QueueInv' /\ SubdirsInv'
      BY <1>0, <2>1, <3>2 DEF OnceInv, Idle, HandleInv, QueueInv, SubdirsInv, Running, Open
    <3>5. BatchInv'
      BY <3>1, <3>2, <3>3 DEF BatchInv
    <3>6. PlaceInv'
      BY <2>1, <3>1, <3>2, <3>3 DEF OnceInv, PlaceInv
    <3> QED BY <2>1, <3>4, <3>5, <3>6 DEF Quiet
  <2> QED BY <2>2, <2>3
<1>5. CASE Visit
  BY <1>s, <1>5, OnceVisit DEF Visit
<1>6. CASE BatchDone
  <2>1. /\ pc = "visit" /\ Open /\ outcome = "none" /\ batch = {}
        /\ UNCHANGED <<entry, steady, visited, again, pruned>> /\ SteadyInv' /\ Fixed' = Fixed
    BY <1>0, <1>s, <1>6 DEF BatchDone, Open, Idle
  <2>2. AllApart(Found, Fixed) /\ \A q \in Elems(Found) : Untouched(q, visited', steady', pruned')
    BY <2>1, FoundIsReady
  <2>3. VisitedOnce' /\ SkipsArePruned'
    BY <1>0, <2>1 DEF VisitedOnce, SkipsArePruned
  <2>4. CASE LeaveFor(Found)
    BY <2>1, <2>2, <2>3, <2>4, LeavingKeeps
  <2>5. CASE \E a \in Answers : ReportDirFailure(place, a, Found)
    BY <2>1, <2>2, <2>3, <2>5, ReportingKeeps
  <2>6. CASE pc' = "read" /\ UNCHANGED <<pending, dirState, outcome>>
    <3>1. Quiet'
      BY <2>1, <2>6 DEF OnceInv, Quiet, Idle, HandleInv, QueueInv, PlaceInv, SubdirsInv, BatchInv,
                        Running, Open
    <3> QED BY <2>1, <2>3, <3>1
  <2> QED BY <1>6, <2>4, <2>5, <2>6 DEF BatchDone
<1>7. CASE Cancel
  BY <1>s, <1>7 DEF OnceInv, Quiet, Idle, HandleInv, QueueInv, PlaceInv, SubdirsInv, BatchInv,
                    Running, Open, VisitedOnce, SkipsArePruned, Cancel
<1>8. ASSUME NEW d \in AllDirs, NEW n \in Names, NEW e \in Entries, Change(d, n, e)
      PROVE  SteadyInv' /\ Quiet' /\ VisitedOnce' /\ SkipsArePruned'
  BY <1>8, OnceChange
<1> QED BY <1>1, <1>2, <1>3, <1>4, <1>5, <1>6, <1>7, <1>8 DEF Next, Step

LEMMA OnceStutter ==
  ASSUME OnceInv, UNCHANGED vars
  PROVE  OnceInv'
BY DEF OnceInv, TypeOK, Idle, SteadyInv, HandleInv, QueueInv, PlaceInv, SubdirsInv, BatchInv,
       Fixed, Running, Open, VisitedOnce, SkipsArePruned, vars, tree, dirState, ghost

-----------------------------------------------------------------------------
(* Nothing missed: the invariant *)

(* p was handed over, or lies in a directory that was left out. *)
Known(p, v, out) == p \in v \/ \E q \in out : Above(q, p)

InBatch(n, names) == \E e \in names : e[1] = n

(* The way to a steady entry goes by names that were read as directories.   *)
TypesInv == Open => \A e \in batch, p \in steady : Above(Append(place, e[1]), p) => e[2]

(* A steady entry the callback does not know of is still ahead. *)
CoverInv == Running => \A p \in steady :
    \/ Known(p, visited, pruned \cup cut)
    \/ \E q \in Elems(pending) : Above(q, p)
    \/ /\ Open /\ Above(place, p)
       /\ \/ Towards(place, p) \notin seen
          \/ InBatch(Towards(place, p), batch)
          \/ \E q \in Elems(subdirs) : Above(q, p)

SeenInv == Open => \A n \in seen : InBatch(n, batch) \/ Append(place, n) \in visited

(* What is steady in the directory being read was read or is owed. *)
DueInv == Open => \A p \in steady : Above(place, p) => Towards(place, p) \in seen \cup due

(* The end is not told before every steady name was read. *)
EndInv == pc = "visit" /\ after = "end" =>
    batch = {} /\ \A p \in steady : Above(place, p) => Towards(place, p) \in seen

(* Where the walk descends to, it knows what lies beside it. *)
SiblingInv == Running =>
    \A q \in Elems(pending) \cup (IF Open THEN {place} ELSE {}) : q # <<>> =>
        \A p \in steady : Parent(p) = Parent(q) => Known(p, visited, pruned \cup cut)

Covering == TypesInv /\ CoverInv /\ SeenInv /\ DueInv /\ EndInv /\ SiblingInv
WalkInv == OnceInv /\ Covering /\ NothingMissed

LEMMA CoveringReturned ==
  ASSUME NEW how, Return(how)
  PROVE  Covering'
BY DEF Return, Covering, TypesInv, CoverInv, SeenInv, DueInv, EndInv, SiblingInv, Running, Open

LEMMA CoveringLeft ==
  ASSUME NEW rest, LeaveFor(rest),
         \A p \in steady' : \/ Known(p, visited', pruned' \cup cut')
                            \/ \E q \in Elems(rest) : Above(q, p),
         \A q \in Elems(rest) : q # <<>> =>
             \A p \in steady' : Parent(p) = Parent(q) => Known(p, visited', pruned' \cup cut')
  PROVE  Covering'
BY DEF LeaveFor, Covering, TypesInv, CoverInv, SeenInv, DueInv, EndInv, SiblingInv, Running, Open

LEMMA KnownStays ==
  ASSUME NEW p, NEW v, NEW w, v \subseteq w, NEW out, NEW more, out \subseteq more, Known(p, v, out)
  PROVE  Known(p, w, more)
BY DEF Known

(* A steady entry of the directory being read. *)
LEMMA SteadyChild ==
  ASSUME WalkInv, Open, NEW p \in steady, Parent(p) = place
  PROVE  /\ p \in Paths /\ place \in Paths /\ p # <<>> /\ Above(place, p)
         /\ p = Append(place, Towards(place, p))
<1>1. p \in Paths /\ p # <<>>
  BY DEF WalkInv, OnceInv, SteadyInv, SteadyIn
<1>2. place \in Paths /\ Last(p) \in Names /\ p = Append(place, Last(p)) /\ Above(place, p)
  BY <1>1, ParentOfPath
<1>3. Towards(place, p) = Last(p)
  BY <1>1, <1>2, TowardsByName DEF Within
<1> QED BY <1>1, <1>2, <1>3

(* A directory that is given up excuses what is in it. *)
LEMMA GivenUp ==
  ASSUME WalkInv, Open, steady' = steady, visited \subseteq visited', pruned \subseteq pruned',
         cut' = cut \cup {place}
  PROVE  /\ \A p \in steady' : \/ Known(p, visited', pruned' \cup cut')
                               \/ \E q \in Elems(Found) : Above(q, p)
         /\ \A q \in Elems(Found) : q # <<>> =>
               \A p \in steady' : Parent(p) = Parent(q) => Known(p, visited', pruned' \cup cut')
<1>1. Elems(Found) = Elems(subdirs) \cup Elems(pending)
  BY FoundIsReady DEF WalkInv
<1>2. pruned \cup cut \subseteq pruned' \cup cut' /\ Running
  BY DEF Running, Open
<1>3. \A p \in steady' : Above(place, p) => Known(p, visited', pruned' \cup cut')
  BY DEF Known
<1>4. ASSUME NEW p \in steady'
      PROVE  Known(p, visited', pruned' \cup cut') \/ \E q \in Elems(Found) : Above(q, p)
  BY <1>1, <1>2, <1>3, KnownStays DEF WalkInv, Covering, CoverInv
<1>5. ASSUME NEW q \in Elems(Found), q # <<>>, NEW p \in steady', Parent(p) = Parent(q)
      PROVE  Known(p, visited', pruned' \cup cut')
  <2>1. CASE q \in Elems(pending)
    BY <1>2, <1>5, <2>1, KnownStays DEF WalkInv, Covering, SiblingInv
  <2>2. CASE q \in Elems(subdirs)
    <3>1. Parent(p) = place
      BY <1>5, <2>2 DEF WalkInv, OnceInv, SubdirsInv
    <3> QED BY <1>3, <3>1, SteadyChild
  <2> QED BY <1>1, <2>1, <2>2
<1> QED BY <1>4, <1>5

(* A directory whose end was told leaves behind all that is still ahead.    *)
LEMMA Ended ==
  ASSUME WalkInv, pc = "visit", batch = {}, after = "end",
         steady' = steady, UNCHANGED <<visited, pruned, cut>>
  PROVE  /\ \A p \in steady' : \/ Known(p, visited', pruned' \cup cut')
                               \/ \E q \in Elems(Found) : Above(q, p)
         /\ \A q \in Elems(Found) : q # <<>> =>
               \A p \in steady' : Parent(p) = Parent(q) => Known(p, visited', pruned' \cup cut')
<1>1. Open /\ Running
  BY DEF Open, Running
<1>2. Elems(Found) = Elems(subdirs) \cup Elems(pending)
  BY <1>1, FoundIsReady DEF WalkInv
<1>3. \A p \in steady : Above(place, p) => Towards(place, p) \in seen
  BY DEF WalkInv, Covering, EndInv
<1>4. ASSUME NEW p \in steady'
      PROVE  Known(p, visited', pruned' \cup cut') \/ \E q \in Elems(Found) : Above(q, p)
  BY <1>1, <1>2, <1>3 DEF WalkInv, Covering, CoverInv, InBatch
<1>5. ASSUME NEW q \in Elems(Found), q # <<>>, NEW p \in steady', Parent(p) = Parent(q)
      PROVE  Known(p, visited', pruned' \cup cut')
  <2>1. CASE q \in Elems(pending)
    BY <1>1, <1>5, <2>1 DEF WalkInv, Covering, SiblingInv
  <2>2. CASE q \in Elems(subdirs)
    <3>1. Parent(p) = place
      BY <1>1, <1>5, <2>2 DEF WalkInv, OnceInv, SubdirsInv
    <3>2. Above(place, p) /\ p = Append(place, Towards(place, p))
      BY <1>1, <3>1, SteadyChild
    <3>3. p \in visited
      BY <1>1, <1>3, <3>2 DEF WalkInv, Covering, SeenInv, InBatch
    <3> QED BY <3>3 DEF Known
  <2> QED BY <1>2, <2>1, <2>2
<1> QED BY <1>4, <1>5

(* What a ReadDir says of a steady entry's way. *)
LEMMA SteadyIsRead ==
  ASSUME WalkInv, Open, NEW p \in steady, Above(place, p)
  PROVE  /\ Towards(place, p) \in Names /\ entry[handle][Towards(place, p)] # None
         /\ p # Append(place, Towards(place, p)) => entry[handle][Towards(place, p)] \in Dirs
<1>1. place \in Paths /\ p \in Paths
  BY DEF WalkInv, OnceInv, TypeOK, SteadyInv, SteadyIn
<1> DEFINE c == Append(place, Towards(place, p))
<1>2. /\ c \in steady /\ Parent(c) = place
      /\ entry[ResolveIn(entry, place)][Towards(place, p)] # None
      /\ c # p => entry[ResolveIn(entry, place)][Towards(place, p)] \in Dirs
  BY <1>1, SteadyTowards DEF WalkInv, OnceInv, SteadyInv
<1>3. ResolveIn(entry, place) = handle
  BY <1>2 DEF WalkInv, OnceInv, HandleInv
<1> QED BY <1>1, <1>2, <1>3, TowardsIsBetween

LEMMA CoveringRead ==
  ASSUME WalkInv, ReadBatch
  PROVE  Covering'
<1> USE DEF tree, dirState, ghost
<1>1. CASE cancelled
  BY <1>1, CoveringReturned DEF ReadBatch
<1>2. CASE ~cancelled
  <2>1. PICK some \in SUBSET Unread, how \in {"more", "end", "failed"} :
          /\ how = "end" => some = {} /\ due = {}
          /\ seen' = seen \cup some /\ due' = due \ some /\ batch' = Typed(some) /\ after' = how
    BY <1>2 DEF ReadBatch
  <2>2. /\ some \subseteq Names /\ pc = "read" /\ pc' = "visit" /\ Open /\ Open' /\ Running /\ Running'
        /\ UNCHANGED <<entry, pending, place, handle, subdirs, visited, pruned, cut, steady>>
    BY <1>2, <2>1 DEF ReadBatch, Unread, Open, Running
  <2>3. batch = {}
    BY <2>2 DEF WalkInv, OnceInv, BatchInv
  <2>4. /\ \A e \in batch' : e[1] \in some /\ (entry[handle][e[1]] \in Dirs => e[2])
        /\ \A n \in some : InBatch(n, batch')
    BY <2>1, <2>2, TypedNames DEF InBatch
  <2>5. SiblingInv' /\ DueInv'
    BY <2>1, <2>2 DEF WalkInv, Covering, SiblingInv, DueInv
  <2>6. TypesInv'
    <3> SUFFICES ASSUME NEW e \in batch', NEW p \in steady', Above(Append(place, e[1]), p)
                 PROVE  e[2]
      BY <2>2 DEF TypesInv
    <3>1. p \in Paths /\ p \in steady /\ place \in Paths /\ e[1] \in Names
      BY <2>2, <2>4 DEF WalkInv, OnceInv, TypeOK, SteadyInv, SteadyIn
    <3>2. Above(place, p) /\ Towards(place, p) = e[1]
      BY <3>1, TowardsByName DEF Within
    <3>3. Append(place, e[1]) \in Paths
      BY <3>1, AppendIsBelow
    <3>4. p # Append(place, e[1])
      BY <3>1, <3>3, AboveIsOrder
    <3>5. entry[handle][e[1]] \in Dirs
      BY <2>2, <3>1, <3>2, <3>4, SteadyIsRead
    <3> QED BY <2>4, <3>5
  <2>7. CoverInv'
    BY <2>1, <2>2, <2>3, <2>4 DEF WalkInv, Covering, CoverInv, InBatch
  <2>8. SeenInv'
    BY <2>1, <2>2, <2>3, <2>4 DEF WalkInv, Covering, SeenInv, InBatch
  <2>9. EndInv'
    <3> SUFFICES ASSUME after' = "end"
                 PROVE  batch' = {} /\ \A p \in steady : Above(place, p) => Towards(place, p) \in seen
      BY <2>1, <2>2 DEF EndInv
    <3>1. some = {} /\ due = {} /\ batch' = {}
      BY <2>1, <2>4
    <3> QED BY <2>2, <3>1 DEF WalkInv, Covering, DueInv
  <2> QED BY <2>5, <2>6, <2>7, <2>8, <2>9 DEF Covering
<1> QED BY <1>1, <1>2

LEMMA CoveringVisit ==
  ASSUME WalkInv, Visit
  PROVE  Covering'
<1> USE DEF tree, dirState, ghost
<1>1. pc = "visit" /\ Open /\ Running /\ UNCHANGED <<entry, steady>>
  BY DEF Visit, Open, Running
<1>2. PICK e \in batch, a \in Answers :
        LET p == Append(place, e[1]) IN
        /\ Hand(p)
        /\ \/ /\ a = "continue" \/ (a = "skipDir" /\ e[2])
              /\ batch' = batch \ {e}
              /\ subdirs' = IF e[2] /\ a = "continue" THEN Append(subdirs, p) ELSE subdirs
              /\ IF e[2] THEN Prune(p, a) ELSE UNCHANGED pruned
              /\ UNCHANGED <<pc, pending, place, handle, seen, due, after, outcome, cut>>
           \/ /\ a = "skipDir" /\ ~e[2]
              /\ LeaveFor(Found)
              /\ cut' = cut \cup {place}
              /\ UNCHANGED pruned
           \/ a = "skipAll" /\ Return("stopped") /\ UNCHANGED <<pending, dirState, pruned, cut>>
           \/ a = "error" /\ Return("error") /\ UNCHANGED <<pending, dirState, pruned, cut>>
  BY Zenon DEF Visit
<1> DEFINE c == Append(place, e[1])
<1>3. /\ e[1] \in Names /\ e[2] \in BOOLEAN /\ c \in Paths /\ c # <<>>
      /\ place \in Paths /\ subdirs \in Seq(Paths)
  <2>1. OnceInv /\ TypeOK
    BY DEF WalkInv, OnceInv
  <2>2. e[1] \in Names /\ e[2] \in BOOLEAN /\ place \in Paths /\ subdirs \in Seq(Paths)
    BY <2>1 DEF TypeOK
  <2> QED BY <2>2, AppendIsBelow
<1>4. ASSUME NEW p \in steady, Above(place, p), Towards(place, p) = e[1], p # c
      PROVE  Above(c, p)
  BY <1>4, TowardsIsBetween DEF WalkInv, OnceInv, SteadyInv, SteadyIn, TypeOK, Within
<1> HIDE DEF c
<1>5. visited' = visited \cup {c}
  BY <1>2 DEF Hand, c
<1>6. CASE /\ a = "continue" \/ (a = "skipDir" /\ e[2])
           /\ batch' = batch \ {e}
           /\ subdirs' = IF e[2] /\ a = "continue" THEN Append(subdirs, c) ELSE subdirs
           /\ IF e[2] THEN Prune(c, a) ELSE UNCHANGED pruned
           /\ UNCHANGED <<pc, pending, place, handle, seen, due, after, outcome, cut>>
  <2>1. Open' /\ Running'
    BY <1>1, <1>6 DEF Open, Running
  <2>2. TypesInv' /\ DueInv'
    BY <1>1, <1>6 DEF WalkInv, Covering, TypesInv, DueInv, Open
  <2>3. ASSUME NEW p \in steady, Above(c, p) PROVE c \notin pruned
    <3>1. c \in steady
      BY <1>3, <2>3, SteadyAbove DEF WalkInv, OnceInv, SteadyInv
    <3>2. c \notin visited
      BY <1>1, <3>1, EntryIsNew DEF WalkInv, c
    <3> QED BY <3>2 DEF WalkInv, OnceInv, TypeOK
  <2>4. ASSUME NEW p \in steady, Known(p, visited, pruned \cup cut)
        PROVE  Known(p, visited', pruned' \cup cut')
    <3>1. pruned \ {c} \subseteq pruned' /\ cut' = cut
      BY <1>6 DEF Prune
    <3> QED BY <1>5, <2>3, <2>4, <3>1 DEF Known
  <2>5. SiblingInv'
    BY <1>1, <1>6, <2>1, <2>4 DEF WalkInv, Covering, SiblingInv
  <2>6. \A n : InBatch(n, batch) /\ n # e[1] => InBatch(n, batch')
    BY <1>6 DEF InBatch
  <2>7. SeenInv'
    BY <1>1, <1>5, <1>6, <2>6 DEF WalkInv, Covering, SeenInv, c
  <2>8. EndInv'
    BY <1>1, <1>6 DEF WalkInv, Covering, EndInv
  <2>9. Elems(subdirs) \subseteq Elems(subdirs')
    BY <1>3, <1>6, ElemsOfAppend
  <2>10. ASSUME NEW p \in steady, Above(c, p)
         PROVE  Known(p, visited', pruned' \cup cut') \/ \E q \in Elems(subdirs') : Above(q, p)
    <3>1. e[2]
      BY <1>1, <2>10 DEF WalkInv, Covering, TypesInv, c
    <3>2. CASE a = "continue"
      <4>1. c \in Elems(subdirs')
        BY <1>3, <1>6, <3>1, <3>2, ElemsOfAppend
      <4> QED BY <2>10, <4>1
    <3>3. CASE a = "skipDir"
      <4>1. c \notin visited
        <5>1. c \in steady
          BY <1>3, <2>10, SteadyAbove DEF WalkInv, OnceInv, SteadyInv
        <5> QED BY <1>1, <5>1, EntryIsNew DEF WalkInv, c
      <4>2. c \in pruned'
        BY <1>6, <3>1, <3>3, <4>1 DEF Prune
      <4> QED BY <2>10, <4>2 DEF Known
    <3> QED BY <1>6, <3>2, <3>3
  <2>11. CoverInv'
    <3> SUFFICES ASSUME NEW p \in steady
                 PROVE  \/ Known(p, visited', pruned' \cup cut')
                        \/ \E q \in Elems(pending) : Above(q, p)
                        \/ /\ Above(place, p)
                           /\ \/ Towards(place, p) \notin seen
                              \/ InBatch(Towards(place, p), batch')
                              \/ \E q \in Elems(subdirs') : Above(q, p)
      BY <1>1, <1>6, <2>1 DEF CoverInv
    <3>1. CASE Above(place, p) /\ Towards(place, p) = e[1]
      <4>1. CASE p = c
        BY <1>5, <4>1 DEF Known
      <4> QED BY <1>4, <2>10, <3>1, <4>1
    <3>2. CASE ~(Above(place, p) /\ Towards(place, p) = e[1])
      BY <1>1, <2>4, <2>6, <2>9, <3>2 DEF WalkInv, Covering, CoverInv
    <3> QED BY <3>1, <3>2
  <2> QED BY <2>2, <2>5, <2>7, <2>8, <2>11 DEF Covering
<1>7. CASE LeaveFor(Found) /\ cut' = cut \cup {place} /\ UNCHANGED pruned
  <2>1. visited \subseteq visited' /\ pruned \subseteq pruned'
    BY <1>5, <1>7
  <2> QED BY <1>1, <1>7, <2>1, GivenUp, CoveringLeft
<1>8. CASE \E how \in Outcomes : Return(how)
  BY <1>8, CoveringReturned
<1> QED BY <1>2, <1>6, <1>7, <1>8 DEF c, Outcomes

LEMMA WalkInvAtFirst ==
  ASSUME Init
  PROVE  WalkInv
<1>1. OnceInv
  BY OnceAtFirst
<1>2. Covering /\ NothingMissed
  BY DEF Init, Covering, TypesInv, CoverInv, SeenInv, DueInv, EndInv, SiblingInv, Running, Open,
         NothingMissed
<1> QED BY <1>1, <1>2 DEF WalkInv

LEMMA WalkInvStep ==
  ASSUME WalkInv, Next
  PROVE  WalkInv'
<1> USE DEF tree, dirState, ghost
<1>0. /\ OnceInv /\ OnceInv' /\ TypeOK /\ Idle /\ SteadyInv /\ SteadyInv'
      /\ Covering /\ NothingMissed
  BY OnceStep DEF WalkInv, OnceInv
<1>1. \A p \in steady : p \in Paths /\ p # <<>> /\ Above(<<>>, p)
  BY <1>0, AboveIsOrder DEF SteadyInv, SteadyIn
<1> SUFFICES Covering' /\ NothingMissed'
  BY <1>0 DEF WalkInv
<1>3. outcome' # "done" => NothingMissed'
  BY DEF NothingMissed
<1>4. CASE Start
  <2>1. pc = "start" /\ UNCHANGED <<entry, steady, dirState>> /\ batch = {} /\ outcome = "none"
    BY <1>0, <1>4 DEF Start, Idle, Hand
  <2>2. CASE \E how \in Outcomes \ {"done"} : Return(how)
    BY <1>3, <2>1, <2>2, CoveringReturned DEF Return
  <2>3. CASE (\E how \in Outcomes : Return(how)) /\ cut' = cut \cup {<<>>}
    <3>1. NothingMissed'
      BY <1>1, <2>1, <2>3 DEF NothingMissed, Excused
    <3> QED BY <2>1, <2>3, <3>1, CoveringReturned
  <2>4. CASE pc' = "next" /\ pending' = << <<>> >> /\ UNCHANGED outcome
    <3>1. Elems(pending') = {<<>>}
      <4>1. Len(pending') = 1 /\ pending'[1] = <<>> /\ 1 .. 1 = {1}
        BY <2>4
      <4> HIDE <2>4
      <4> QED BY <4>1 DEF Elems
    <3>2. ~Open' /\ pc' # "visit"
      BY <2>4 DEF Open
    <3>3. Covering'
      BY <1>1, <2>1, <3>1, <3>2
         DEF Covering, TypesInv, CoverInv, SeenInv, DueInv, EndInv, SiblingInv
    <3> QED BY <1>3, <2>1, <2>4, <3>3
  <2> QED BY <1>4, <2>2, <2>3, <2>4 DEF Start, Outcomes
<1>5. CASE OpenDir
  <2>1. /\ pc = "next" /\ pending # <<>> /\ pending \in Seq(Paths) /\ outcome = "none"
        /\ Running /\ ~Open /\ UNCHANGED <<entry, steady, visited, pruned>>
        /\ seen = {} /\ batch = {} /\ subdirs = <<>> /\ after = "more"
    BY <1>0, <1>5 DEF OpenDir, TypeOK, Idle, Running, Open
  <2> DEFINE p == Head(pending)  rest == Tail(pending)
  <2>2. p \in Paths /\ Elems(pending) = {p} \cup Elems(rest)
    BY <2>1, ElemsOfTail
  <2>3. \/ /\ pc' = "read" /\ pending' = rest /\ place' = p /\ handle' = Resolve(p)
           /\ due' = {n \in Names : entry[Resolve(p)][n] # None}
           /\ UNCHANGED <<seen, batch, after, subdirs, outcome, cut>>
        \/ \E a \in Answers : ReportDirFailure(p, a, rest)
    BY <1>5 DEF OpenDir
  <2>4. \A q \in steady : Known(q, visited, pruned \cup cut) \/ \E r \in Elems(pending) : Above(r, q)
    BY <1>0, <2>1 DEF Covering, CoverInv
  <2>5. \A r \in Elems(pending) : r # <<>> =>
           \A q \in steady : Parent(q) = Parent(r) => Known(q, visited, pruned \cup cut)
    BY <1>0, <2>1 DEF Covering, SiblingInv
  <2> HIDE DEF p, rest
  <2>6. CASE /\ pc' = "read" /\ pending' = rest /\ place' = p /\ handle' = Resolve(p)
             /\ due' = {n \in Names : entry[Resolve(p)][n] # None}
             /\ UNCHANGED <<seen, batch, after, subdirs, outcome, cut>>
    <3>1. Open' /\ Running' /\ pc' # "visit"
      BY <2>6 DEF Open, Running
    <3>2. DueInv'
      <4>1. HandleInv' /\ TypeOK' /\ SteadyIn(entry, steady)
        BY <1>0 DEF OnceInv, SteadyInv
      <4>2. ASSUME NEW q \in steady, Above(place', q) PROVE Towards(place', q) \in due'
        <5>1. place' \in Paths /\ q \in Paths
          BY <4>1, <4>2 DEF TypeOK, SteadyIn
        <5>2. /\ Append(place', Towards(place', q)) \in steady
              /\ Parent(Append(place', Towards(place', q))) = place'
              /\ entry[ResolveIn(entry, place')][Towards(place', q)] # None
          BY <4>1, <4>2, <5>1, SteadyTowards
        <5>3. ResolveIn(entry, place') = Resolve(p)
          BY <2>6, ResolveIsIn
        <5> QED BY <2>6, <4>2, <5>1, <5>2, <5>3, TowardsIsBetween
      <4> QED BY <2>1, <4>2 DEF DueInv
    <3>3. TypesInv' /\ SeenInv' /\ EndInv'
      BY <2>1, <2>6, <3>1 DEF TypesInv, SeenInv, EndInv
    <3>4. CoverInv' /\ SiblingInv'
      BY <2>1, <2>2, <2>4, <2>5, <2>6, <3>1 DEF CoverInv, SiblingInv
    <3> QED BY <1>3, <2>1, <2>6, <3>2, <3>3, <3>4 DEF Covering
  <2>7. ASSUME NEW a \in Answers, ReportDirFailure(p, a, rest)
        PROVE  Covering' /\ NothingMissed'
    <3>1. cut' = cut \cup {p} /\ pruned \cup cut \subseteq pruned' \cup cut'
      BY <2>1, <2>7 DEF ReportDirFailure
    <3>2. \A q : Known(q, visited, pruned \cup cut) => Known(q, visited', pruned' \cup cut')
      BY <2>1, <3>1, KnownStays
    <3>3. CASE LeaveFor(rest)
      <4>1. \A q \in steady' : \/ Known(q, visited', pruned' \cup cut')
                               \/ \E r \in Elems(rest) : Above(r, q)
        BY <2>1, <2>2, <2>4, <3>1, <3>2 DEF Known
      <4>2. \A r \in Elems(rest) : r # <<>> =>
               \A q \in steady' : Parent(q) = Parent(r) => Known(q, visited', pruned' \cup cut')
        BY <2>1, <2>2, <2>5, <3>2
      <4>3. Covering'
        BY <3>3, <4>1, <4>2, CoveringLeft
      <4> QED BY <1>3, <2>1, <3>3, <4>3 DEF LeaveFor
    <3>4. CASE \E how \in {"stopped", "error"} : Return(how)
      BY <1>3, <2>1, <3>4, CoveringReturned DEF Return
    <3> QED BY <2>7, <3>3, <3>4 DEF ReportDirFailure
  <2> QED BY <2>3, <2>6, <2>7
<1>6. CASE Finish
  <2>1. Running /\ ~Open /\ pending = <<>> /\ Return("done") /\ UNCHANGED <<entry, ghost>>
    BY <1>6 DEF Finish, Running, Open
  <2>2. Elems(pending) = {}
    BY <2>1, ElemsOfNone
  <2>3. \A p \in steady : Known(p, visited, pruned \cup cut)
    BY <1>0, <2>1, <2>2 DEF Covering, CoverInv
  <2>4. NothingMissed'
    BY <2>1, <2>3 DEF NothingMissed, Excused, Known
  <2> QED BY <2>1, <2>4, CoveringReturned
<1>7. CASE ReadBatch
  <2>1. UNCHANGED <<entry, steady>> /\ outcome' # "done"
    BY <1>0, <1>7 DEF ReadBatch, Return, Idle
  <2> QED BY <1>3, <1>7, <2>1, CoveringRead DEF WalkInv
<1>8. CASE Visit
  <2>1. UNCHANGED <<entry, steady>> /\ outcome' # "done"
    BY <1>0, <1>8, Zenon DEF Visit, Return, LeaveFor, Idle
  <2> QED BY <1>3, <1>8, <2>1, CoveringVisit DEF WalkInv
<1>9. CASE BatchDone
  <2>1. /\ pc = "visit" /\ Open /\ Running /\ outcome = "none" /\ batch = {}
        /\ UNCHANGED <<entry, steady, visited, pruned>>
    BY <1>0, <1>9 DEF BatchDone, Open, Running, Idle
  <2>2. CASE after = "more" /\ pc' = "read" /\ UNCHANGED <<pending, dirState, outcome, cut>>
    <3>1. Open' /\ Running' /\ pc' # "visit"
      BY <2>2 DEF Open, Running
    <3>2. Covering'
      BY <1>0, <2>1, <2>2, <3>1
         DEF Covering, TypesInv, CoverInv, SeenInv, DueInv, EndInv, SiblingInv
    <3> QED BY <1>3, <2>1, <2>2, <3>2
  <2>3. CASE after = "end" /\ LeaveFor(Found) /\ UNCHANGED cut
    <3>1. Covering'
      BY <2>1, <2>3, Ended, CoveringLeft
    <3> QED BY <1>3, <2>1, <2>3, <3>1 DEF LeaveFor
  <2>4. CASE LeaveFor(Found) /\ cut' = cut \cup {place}
    <3>1. Covering'
      BY <2>1, <2>4, GivenUp, CoveringLeft
    <3> QED BY <1>3, <2>1, <2>4, <3>1 DEF LeaveFor
  <2>5. CASE \E how \in {"stopped", "error"} : Return(how)
    BY <1>3, <2>5, CoveringReturned DEF Return
  <2> QED BY <1>9, <2>2, <2>3, <2>4, <2>5 DEF BatchDone, ReportDirFailure
<1>10. CASE Cancel
  BY <1>0, <1>10 DEF Cancel, NothingMissed, Excused, Covering,
                    TypesInv, CoverInv, SeenInv, DueInv, EndInv, SiblingInv, Running, Open
<1>11. ASSUME NEW d \in AllDirs, NEW n \in Names, NEW e \in Entries, Change(d, n, e)
       PROVE  Covering' /\ NothingMissed'
  <2>1. /\ pc # "returned" /\ steady' \subseteq steady
        /\ UNCHANGED <<pc, pending, place, handle, batch, after, subdirs, outcome,
                       visited, pruned, cut>>
        /\ seen' \subseteq seen
        /\ \A m \in seen \cup due : ~(d = handle /\ m = n) => m \in seen' \cup due'
        /\ \A m \in seen : ~(d = handle /\ m = n) => m \in seen'
    BY <1>11 DEF Change
  <2>2. ASSUME Open, NEW p \in steady', Above(place, p)
        PROVE  p \in steady /\ ~(d = handle /\ Towards(place, p) = n)
    <3>1. place \in Paths /\ p \in Paths /\ SteadyIn(entry', steady')
      BY <1>0, <2>1, <2>2 DEF TypeOK, SteadyInv, SteadyIn
    <3> DEFINE c == Append(place, Towards(place, p))
    <3>2. c \in steady' /\ Parent(c) = place /\ Last(c) = Towards(place, p)
      BY <2>2, <3>1, SteadyTowards
    <3> HIDE DEF c
    <3> QED BY <1>0, <1>11, <2>1, <2>2, <3>2, KeptIsElsewhere
  <2>3. TypesInv' /\ CoverInv' /\ SeenInv' /\ SiblingInv'
    BY <1>0, <2>1 DEF Covering, TypesInv, CoverInv, SeenInv, SiblingInv, Running, Open
  <2>4. DueInv'
    BY <1>0, <2>1, <2>2 DEF Covering, DueInv, Open
  <2>5. EndInv'
    BY <1>0, <2>1, <2>2 DEF Covering, EndInv, Open
  <2>6. NothingMissed'
    BY <1>0, <1>3, <2>1 DEF Idle
  <2> QED BY <2>3, <2>4, <2>5, <2>6 DEF Covering
<1> QED BY <1>4, <1>5, <1>6, <1>7, <1>8, <1>9, <1>10, <1>11 DEF Next, Step

LEMMA WalkInvStutter ==
  ASSUME WalkInv, UNCHANGED vars
  PROVE  WalkInv'
<1> USE DEF vars, tree, dirState, ghost
<1>1. OnceInv'
  BY OnceStutter DEF WalkInv
<1>2. Covering' /\ NothingMissed'
  BY DEF WalkInv, NothingMissed, Excused, Covering, TypesInv, CoverInv,
         SeenInv, DueInv, EndInv, SiblingInv, Running, Open
<1> QED BY <1>1, <1>2 DEF WalkInv

-----------------------------------------------------------------------------
(* Whatever happens in the tree, the walk is in a state that WalkInv says.  *)
THEOREM WalkIsProven == Spec => []WalkInv
<1>1. Init => WalkInv
  BY WalkInvAtFirst
<1>2. WalkInv /\ [Next]_vars => WalkInv'
  BY WalkInvStep, WalkInvStutter
<1> QED BY <1>1, <1>2, PTL DEF Spec

(* Every variable of a walk has its type. *)
THEOREM WalkTypeIsProven == Spec => []TypeOK
<1>1. WalkInv => TypeOK
  BY DEF WalkInv, OnceInv
<1> QED BY <1>1, WalkIsProven, PTL

(* WalkDirInRoot: however the rest of the tree is rearranged, and whatever  *)
(* name is made again while its directory is read, an entry that was there  *)
(* all the time is not handed to the callback twice.                        *)
THEOREM OnceIsProven == Spec => []VisitedOnce
<1>1. WalkInv => VisitedOnce
  BY DEF WalkInv, OnceInv
<1> QED BY <1>1, WalkIsProven, PTL

(* WalkDirInRoot: a nil error at the end means that every entry which was   *)
(* there all the time was handed over, but for what lies in a directory     *)
(* that was skipped or reported.                                            *)
THEOREM MissedIsProven == Spec => []NothingMissed
<1>1. WalkInv => NothingMissed
  BY DEF WalkInv
<1> QED BY <1>1, WalkIsProven, PTL

(* streamDir: before a subdirectory is read, all of the directory above it  *)
(* that was there all the time was handed over.                             *)
THEOREM OwnFirstIsProven == Spec => []OwnEntriesFirst
<1>1. WalkInv => OwnEntriesFirst
  BY DEF WalkInv, Covering, SiblingInv, OwnEntriesFirst, Running, Open, Known, Excused
<1> QED BY <1>1, WalkIsProven, PTL

(* visitBatch: an entry comes after its directory, and nothing under a      *)
(* directory that was answered nothing but SkipDir.                         *)
THEOREM SkipsAreProven == Spec => []SkipsArePruned
<1>1. WalkInv => SkipsArePruned
  BY DEF WalkInv, OnceInv
<1> QED BY <1>1, WalkIsProven, PTL

=============================================================================
