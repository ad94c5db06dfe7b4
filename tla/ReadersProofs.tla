---------------------------- MODULE ReadersProofs ----------------------------
(***************************************************************************)
(* Proofs about those who read: RootAccess, for every tree, every set of   *)
(* paths and every change others make; and Reload, the Poller of           *)
(* MCReaders, for any number of inodes, any width of the integers, any     *)
(* limit and any bound on writes and clock ticks.                          *)
(***************************************************************************)
EXTENDS MCReaders, Iteration, SequenceTheorems

-----------------------------------------------------------------------------
(* RootAccess *)

Names == {s[2] : s \in Slots}

(* What is still to be walked is a sequence of names. *)
LeftOK == left \in Seq(Names)

(* A file is handed out by the open that returns, and not before; what the  *)
(* open that follows an Lstat compares with is what the Lstat found.        *)
HandedOut ==
    /\ got # None => pc = "returned"
    /\ pc = "open" /\ kind = "openNoFollow" => found = looked
    /\ pc = "open" /\ kind = "openInRoot" => found = None
    /\ pc \in {"begin", "inspect"} => found = None

(* Only OpenRegularInRootNoFollow inspects before it opens. *)
Openers ==
    /\ pc = "inspect" => kind = "openNoFollow"
    /\ pc = "open" => kind # "remove"

(* Between its Lstat and its unlink the base name leads to what the Lstat   *)
(* found, to nothing, or to what came there meanwhile.                      *)
StillThere ==
    /\ gone # None => pc = "returned"
    /\ pc = "unlink" =>
          /\ looked \in Files
          /\ Lookup(at, Head(left)) \in risked \cup {looked, None}

IInv ==
    /\ TypeOK /\ LeftOK /\ HandedOut /\ Openers /\ StillThere
    /\ NoLinkOpened /\ RemovesWhatItFound

-----------------------------------------------------------------------------
LEMMA InitEstablishes == Init => IInv
<1> SUFFICES ASSUME Init PROVE IInv
  OBVIOUS
<1>1. TypeOK
  <2>1. crossed \in BOOLEAN /\ disturbed \in BOOLEAN /\ risked \subseteq Objects
    BY DEF Init
  <2>2. pc = "begin" /\ pc \in PCs /\ kind \in Kinds /\ outcome \in Outcomes
    BY DEF Init, PCs, Kinds, Outcomes
  <2> QED BY <2>1, <2>2 DEF Init, TypeOK
<1>2. LeftOK /\ HandedOut /\ Openers /\ StillThere /\ NoLinkOpened
      /\ RemovesWhatItFound
  BY DEF Init, LeftOK, HandedOut, Openers, StillThere, NoLinkOpened, RemovesWhatItFound
<1> QED BY <1>1, <1>2 DEF IInv

LEMMA OneOrMore ==
  ASSUME NEW n \in Nat, n # 0
  PROVE  n = 1 \/ n > 1
OBVIOUS

(* A path is a sequence of names, and not empty. *)
LEMMA PathsAreNames ==
  ASSUME NEW p \in Paths
  PROVE  p \in Seq(Names) /\ (Len(p) = 1 \/ Len(p) > 1)
<1>1. p \in Seq(Names) /\ p # <<>>
  BY PathsAssumption DEF Names
<1>2. Len(p) \in Nat /\ Len(p) # 0
  BY <1>1
<1> QED BY <1>1, <1>2, OneOrMore

(* One case per action. *)
LEMMA StepPreserves ==
  ASSUME IInv, Next
  PROVE  IInv'
<1> USE NoneAssumption
<1> USE DEF call, ctl, ghost
<1>1. ASSUME NEW k \in Kinds, NEW p \in Paths, Begin(k, p) PROVE IInv'
  <2>1. TypeOK'
    <3>1. pc' \in PCs /\ pc' # "begin" /\ (pc' \in {"pin", "enter"} => Len(p) > 1)
          /\ (pc' \in {"look", "unlink"} => Len(p) = 1)
      <4>1. Len(p) = 1 \/ Len(p) > 1
        BY PathsAreNames
      <4>2. CASE k = "remove"
        BY <1>1, <4>1, <4>2 DEF Begin, PCs
      <4>3. CASE k = "openNoFollow"
        BY <1>1, <4>3 DEF Begin, PCs
      <4>4. CASE k \in {"openInRoot", "openPath"}
        BY <1>1, <4>4 DEF Begin, PCs
      <4> QED BY <4>2, <4>3, <4>4 DEF Kinds
    <3> QED BY <1>1, <3>1 DEF IInv, Begin, TypeOK
  <2>2. LeftOK'
    BY <1>1, PathsAreNames DEF IInv, Begin, Kinds, TypeOK, LeftOK
  <2>3. HandedOut'
    BY <1>1, PathsAreNames DEF IInv, Begin, Kinds, TypeOK, HandedOut
  <2>4. StillThere'
    BY <1>1, PathsAreNames DEF IInv, Begin, Kinds, TypeOK, StillThere, Lookup
  <2>5. NoLinkOpened'
    BY <1>1, PathsAreNames DEF IInv, Begin, Kinds, TypeOK, HandedOut, NoLinkOpened
  <2>6. RemovesWhatItFound'
    BY <1>1, PathsAreNames DEF IInv, Begin, Kinds, TypeOK, StillThere, RemovesWhatItFound, Objects
  <2>7. Openers'
    BY <1>1 DEF IInv, Begin, Kinds, Openers
  <2> QED BY <2>1, <2>2, <2>3, <2>4, <2>5, <2>6, <2>7 DEF IInv
<1>2. CASE Inspect
  <2>1. TypeOK'
    BY <1>2 DEF IInv, Inspect, GoTo, Return, TypeOK, LeftOK, PCs, Outcomes, Objects
  <2>2. LeftOK'
    BY <1>2 DEF IInv, Inspect, GoTo, Return, TypeOK, LeftOK
  <2>3. HandedOut'
    <3>1. got' = got /\ got = None /\ kind' = kind
      BY <1>2 DEF IInv, Inspect, HandedOut
    <3>2. pc' = "returned" \/ (pc' = "open" /\ found' = looked' /\ kind = "openNoFollow")
      BY <1>2 DEF IInv, Inspect, GoTo, Return, Openers
    <3> QED BY <3>1, <3>2 DEF HandedOut
  <2>4. StillThere'
    BY <1>2 DEF IInv, Inspect, GoTo, Return, TypeOK, StillThere, Lookup
  <2>5. NoLinkOpened'
    BY <1>2 DEF IInv, Inspect, GoTo, Return, TypeOK, HandedOut, NoLinkOpened
  <2>6. RemovesWhatItFound'
    BY <1>2 DEF IInv, Inspect, GoTo, Return, TypeOK, StillThere, RemovesWhatItFound, Objects
  <2>7. Openers'
    BY <1>2 DEF IInv, Inspect, GoTo, Return, Openers
  <2> QED BY <2>1, <2>2, <2>3, <2>4, <2>5, <2>6, <2>7 DEF IInv
<1>3. CASE Open
  <2>1. TypeOK'
    <3>1. pc' \in PCs /\ pc' = "returned" /\ outcome' \in Outcomes
      BY <1>3 DEF Open, Return, PCs, Outcomes
    <3>2. got' \in Files \cup {None}
      BY <1>3 DEF IInv, Open, TypeOK
    <3>3. found' \in Objects \cup {None}
      BY <1>3 DEF IInv, Open, Opened, TypeOK
    <3>4. pc = "open" /\ UNCHANGED <<entry, kind, path, left, at, looked, crossed, gone, risked, disturbed>>
      BY <1>3 DEF Open, call
    <3> QED BY <3>1, <3>2, <3>3, <3>4 DEF IInv, TypeOK
  <2>2. LeftOK'
    BY <1>3 DEF IInv, Open, Return, TypeOK, LeftOK
  <2>3. HandedOut'
    BY <1>3 DEF IInv, Open, Return, TypeOK, HandedOut
  <2>4. StillThere'
    BY <1>3 DEF IInv, Open, Return, TypeOK, StillThere, Lookup
  <2>5. NoLinkOpened'
    <3>1. got = None /\ (kind = "openNoFollow" => found = looked)
          /\ (kind = "openInRoot" => found = None)
      BY <1>3 DEF IInv, Open, HandedOut
    <3>2. kind = "openNoFollow" \/ kind = "openInRoot" \/ kind = "openPath"
      BY <1>3 DEF IInv, Open, Openers, TypeOK, Kinds
    <3>3. got' = None \/ (got' = Opened /\ found' = IF kind = "openPath" THEN Opened ELSE found)
      BY <1>3, <3>1 DEF Open, Opened
    <3>4. got' # None /\ kind = "openNoFollow" => Opened = looked
      BY <1>3, <3>1 DEF Open
    <3> QED BY <3>1, <3>2, <3>3, <3>4 DEF NoLinkOpened
  <2>6. RemovesWhatItFound'
    BY <1>3 DEF IInv, Open, Return, TypeOK, StillThere, RemovesWhatItFound, Objects
  <2>7. Openers'
    BY <1>3 DEF IInv, Open, Return, Openers
  <2> QED BY <2>1, <2>2, <2>3, <2>4, <2>5, <2>6, <2>7 DEF IInv
<1>4. CASE Pin
  <2>1. TypeOK'
    BY <1>4 DEF IInv, Pin, GoTo, Return, TypeOK, LeftOK, PCs, Outcomes, Objects
  <2>2. LeftOK'
    BY <1>4 DEF IInv, Pin, GoTo, Return, TypeOK, LeftOK
  <2>3. HandedOut'
    BY <1>4 DEF IInv, Pin, GoTo, Return, TypeOK, HandedOut
  <2>4. StillThere'
    BY <1>4 DEF IInv, Pin, GoTo, Return, TypeOK, StillThere, Lookup
  <2>5. NoLinkOpened'
    BY <1>4 DEF IInv, Pin, GoTo, Return, TypeOK, HandedOut, NoLinkOpened
  <2>6. RemovesWhatItFound'
    BY <1>4 DEF IInv, Pin, GoTo, Return, TypeOK, StillThere, RemovesWhatItFound, Objects
  <2>7. Openers'
    BY <1>4 DEF IInv, Pin, GoTo, Return, Openers
  <2> QED BY <2>1, <2>2, <2>3, <2>4, <2>5, <2>6, <2>7 DEF IInv
<1>5. CASE Enter
  <2>1. TypeOK'
    <3>1. crossed' = FALSE
      <4>1. crossed = FALSE
        BY DEF IInv, TypeOK, RemovesWhatItFound
      <4>2. CASE UNCHANGED crossed
        BY <4>1, <4>2
      <4>3. CASE Follow(Lookup(at, Head(left))) = looked
                 /\ crossed' = (crossed \/ Follow(Lookup(at, Head(left))) # looked)
        BY <4>1, <4>3, Zenon
      <4> QED BY <1>5, <4>2, <4>3 DEF Enter
    <3>2. pc' \in {"returned", "wait", "look", "pin"} /\ outcome' \in Outcomes
      BY <1>5 DEF IInv, Enter, GoTo, Return, TypeOK, Outcomes
    <3>3. /\ pc' = "pin" => Len(left') > 1
          /\ pc' = "look" => Len(left') = 1
      <4>1. Len(left) \in Nat /\ Len(left) > 1 /\ Len(Tail(left)) = Len(left) - 1
        BY <1>5 DEF IInv, Enter, TypeOK, LeftOK
      <4>2. pc' \in {"pin", "look"} =>
              left' = Tail(left) /\ pc' = IF Len(left) = 2 THEN "look" ELSE "pin"
        BY <1>5 DEF Enter, GoTo, Return
      <4>3. /\ Len(left) = 2 => Len(Tail(left)) = 1
            /\ Len(left) # 2 => Len(Tail(left)) > 1
        <5> DEFINE rest == Len(left)
        <5>1. rest \in Nat /\ rest > 1 /\ Len(Tail(left)) = rest - 1
          BY <4>1
        <5> HIDE DEF rest
        <5>2. (rest = 2 => rest - 1 = 1) /\ (rest # 2 => rest - 1 > 1)
          BY <5>1
        <5> QED BY <5>1, <5>2 DEF rest
      <4>4. CASE pc' = "pin"
        BY <4>2, <4>3, <4>4
      <4>5. CASE pc' = "look"
        BY <4>2, <4>3, <4>5
      <4> QED BY <4>4, <4>5
    <3>4. at' \in Dirs \cup {Root, None} /\ at' # None /\ path' \in Paths
      <4>1. at \in Dirs \cup {Root} /\ path \in Paths
        BY <1>5 DEF IInv, Enter, TypeOK
      <4>2. at' \in Dirs \cup {at} /\ path' = path
        BY <1>5 DEF Enter
      <4> QED BY <4>1, <4>2 DEF Objects
    <3> QED BY <1>5, <3>1, <3>2, <3>3, <3>4 DEF IInv, Enter, TypeOK, PCs
  <2>2. LeftOK'
    BY <1>5 DEF IInv, Enter, GoTo, Return, TypeOK, LeftOK
  <2>3. HandedOut'
    BY <1>5 DEF IInv, Enter, GoTo, Return, TypeOK, HandedOut
  <2>4. StillThere'
    BY <1>5 DEF IInv, Enter, GoTo, Return, TypeOK, StillThere, Lookup
  <2>5. NoLinkOpened'
    BY <1>5 DEF IInv, Enter, GoTo, Return, TypeOK, HandedOut, NoLinkOpened
  <2>6. RemovesWhatItFound'
    BY <1>5 DEF IInv, Enter, GoTo, Return, TypeOK, StillThere, RemovesWhatItFound, Objects
  <2>7. Openers'
    BY <1>5 DEF IInv, Enter, GoTo, Return, Openers
  <2> QED BY <2>1, <2>2, <2>3, <2>4, <2>5, <2>6, <2>7 DEF IInv
<1>6. CASE Look
  <2>1. TypeOK'
    BY <1>6 DEF IInv, Look, GoTo, Return, TypeOK, LeftOK, PCs, Outcomes, Objects
  <2>2. LeftOK'
    BY <1>6 DEF IInv, Look, GoTo, Return, TypeOK, LeftOK
  <2>3. HandedOut'
    BY <1>6 DEF IInv, Look, GoTo, Return, TypeOK, HandedOut
  <2>4. StillThere'
    BY <1>6 DEF IInv, Look, GoTo, Return, TypeOK, StillThere, Lookup
  <2>5. NoLinkOpened'
    BY <1>6 DEF IInv, Look, GoTo, Return, TypeOK, HandedOut, NoLinkOpened
  <2>6. RemovesWhatItFound'
    BY <1>6 DEF IInv, Look, GoTo, Return, TypeOK, StillThere, RemovesWhatItFound, Objects
  <2>7. Openers'
    BY <1>6 DEF IInv, Look, GoTo, Return, Openers
  <2> QED BY <2>1, <2>2, <2>3, <2>4, <2>5, <2>6, <2>7 DEF IInv
<1>7. CASE Unlink
  <2>1. TypeOK'
    BY <1>7 DEF IInv, Unlink, Return, TypeOK, LeftOK, PCs, Outcomes, Objects
  <2>2. LeftOK'
    BY <1>7 DEF IInv, Unlink, Return, TypeOK, LeftOK
  <2>3. HandedOut'
    BY <1>7 DEF IInv, Unlink, Return, TypeOK, HandedOut
  <2>4. StillThere'
    BY <1>7 DEF IInv, Unlink, Return, TypeOK, StillThere, Lookup
  <2>5. NoLinkOpened'
    BY <1>7 DEF IInv, Unlink, Return, TypeOK, HandedOut, NoLinkOpened
  <2>6. RemovesWhatItFound'
    BY <1>7 DEF IInv, Unlink, Return, TypeOK, StillThere, RemovesWhatItFound, Objects
  <2>7. Openers'
    BY <1>7 DEF IInv, Unlink, Return, Openers
  <2> QED BY <2>1, <2>2, <2>3, <2>4, <2>5, <2>6, <2>7 DEF IInv
<1>8. ASSUME NEW s \in Slots, NEW o \in Objects \cup {None}, Change(s, o) PROVE IInv'
  <2>1. TypeOK'
    BY <1>8 DEF IInv, Change, TypeOK, LeftOK, PCs, Outcomes, Objects
  <2>2. LeftOK'
    BY <1>8 DEF IInv, Change, TypeOK, LeftOK
  <2>3. HandedOut'
    BY <1>8 DEF IInv, Change, TypeOK, HandedOut
  <2>4. StillThere'
    BY <1>8, SlotsAssumption DEF IInv, Change, TypeOK, StillThere, Lookup
  <2>5. NoLinkOpened'
    BY <1>8 DEF IInv, Change, TypeOK, HandedOut, NoLinkOpened
  <2>6. RemovesWhatItFound'
    BY <1>8 DEF IInv, Change, TypeOK, StillThere, RemovesWhatItFound, Objects
  <2>7. Openers'
    BY <1>8 DEF IInv, Change, Openers
  <2> QED BY <2>1, <2>2, <2>3, <2>4, <2>5, <2>6, <2>7 DEF IInv
<1>9. CASE OtherEndOpens
  <2>1. TypeOK'
    BY <1>9 DEF IInv, OtherEndOpens, Return, TypeOK, PCs, Outcomes
  <2>2. LeftOK' /\ HandedOut' /\ Openers' /\ StillThere'
    BY <1>9 DEF IInv, OtherEndOpens, Return, LeftOK, HandedOut, Openers, StillThere
  <2>3. NoLinkOpened' /\ RemovesWhatItFound'
    BY <1>9 DEF IInv, OtherEndOpens, NoLinkOpened, RemovesWhatItFound
  <2> QED BY <2>1, <2>2, <2>3 DEF IInv
<1> QED
  BY <1>1, <1>2, <1>3, <1>4, <1>5, <1>6, <1>7, <1>8, <1>9 DEF Next, Step

LEMMA StutterPreserves ==
  ASSUME IInv, UNCHANGED vars
  PROVE  IInv'
BY DEF IInv, TypeOK, LeftOK, HandedOut, Openers, StillThere, NoLinkOpened, RemovesWhatItFound,
       Lookup, vars, call, ctl, ghost

LEMMA Inductive == Spec => []IInv
<1>1. IInv /\ [Next]_vars => IInv'
  BY StepPreserves, StutterPreserves
<1> QED BY InitEstablishes, <1>1, PTL DEF Spec

-----------------------------------------------------------------------------
(* Every variable keeps its type, and the descent never runs out of names.  *)
THEOREM TypeCorrect == Spec => []TypeOK
<1>1. IInv => TypeOK
  BY DEF IInv
<1> QED BY <1>1, Inductive, PTL

(* openregular.go, O_NOFOLLOW and SameFile: what is handed out is what was  *)
(* itself under the name.                                                   *)
THEOREM OpenersAreProven == Spec => []NoLinkOpened
<1>1. IInv => NoLinkOpened
  BY DEF IInv
<1> QED BY <1>1, Inductive, PTL

(* removeroot.go: the descent crosses nothing that it did not inspect, and  *)
(* RemoveFileInRoot unlinks the regular file it found, or what came under   *)
(* that one name since.                                                     *)
THEOREM RemovalIsProven == Spec => []RemovesWhatItFound
<1>1. IInv => RemovesWhatItFound
  BY DEF IInv
<1> QED BY <1>1, Inductive, PTL

-----------------------------------------------------------------------------
(* What a call answers *)

(* What a tree e has at a path: Lookup, Named and PinnedAt of whatever tree *)
(* is meant.                                                                *)
LookupIn(e, d, x) == IF <<d, x>> \in Slots THEN e[<<d, x>>] ELSE None

FollowIn(e, o) ==
    IF o \notin Links THEN o
    ELSE IF LookupIn(e, Root, Alias) \in Links THEN None ELSE LookupIn(e, Root, Alias)

DirTrail(e, p, k) ==
    CHOOSE d : d = [i \in 0..k |-> IF i = 0 THEN Root
                                   ELSE IF d[i - 1] \in Dirs \cup {Root}
                                        THEN FollowIn(e, LookupIn(e, d[i - 1], p[i]))
                                   ELSE None]

NamedIn(e, p) ==
    LET d == DirTrail(e, p, Len(p) - 1)[Len(p) - 1]
    IN IF d \in Dirs \cup {Root} THEN LookupIn(e, d, p[Len(p)]) ELSE None

PinTrail(e, p) ==
    CHOOSE d : d = [i \in 0..(Len(p) - 1) |->
                       IF i = 0 THEN Root
                       ELSE IF d[i - 1] \in Dirs \cup {Root} THEN LookupIn(e, d[i - 1], p[i])
                       ELSE d[i - 1]]

PinnedIn(e, p) == PinTrail(e, p)[Len(p) - 1]

LEMMA NamesAreIn ==
  /\ \A d, x : Lookup(d, x) = LookupIn(entry, d, x)
  /\ \A o : Follow(o) = FollowIn(entry, o)
  /\ \A p : Named(p) = NamedIn(entry, p)
  /\ \A p : PinnedAt(p) = PinnedIn(entry, p)
<1>1. \A d, x : Lookup(d, x) = LookupIn(entry, d, x)
  BY Zenon DEF Lookup, LookupIn
<1>2. \A o : Follow(o) = FollowIn(entry, o)
  BY Zenon DEF Follow, FollowIn, Lookup, LookupIn
<1>3. \A p : Named(p) = NamedIn(entry, p)
  BY Zenon DEF Named, NamedIn, DirAt, DirTrail, Follow, FollowIn, Lookup, LookupIn
<1>4. \A p : PinnedAt(p) = PinnedIn(entry, p)
  BY Zenon DEF PinnedAt, PinnedIn, PinTrail, Lookup, LookupIn
<1> QED BY <1>1, <1>2, <1>3, <1>4

Trees == [Slots -> Objects \cup {None}]

LEMMA LookupType ==
  ASSUME NEW e \in Trees, NEW d, NEW x
  PROVE  LookupIn(e, d, x) \in Objects \cup {None}
BY DEF LookupIn, Trees

(* An open of what exists never ends at a symlink. *)
LEMMA FollowType ==
  ASSUME NEW e \in Trees, NEW o \in Objects \cup {None}
  PROVE  /\ FollowIn(e, o) \in (Objects \ Links) \cup {None}
         /\ o \notin Links => FollowIn(e, o) = o
BY LookupType, NoneAssumption DEF FollowIn, Objects

LEMMA NamedType ==
  ASSUME NEW e \in Trees, NEW p
  PROVE  NamedIn(e, p) \in Objects \cup {None}
BY LookupType DEF NamedIn

(* The directories a path goes by, one name after the other. *)
LEMMA PinTrailIsFollowed ==
  ASSUME NEW e \in Trees, NEW p \in Seq(Names), p # <<>>
  PROVE  /\ PinTrail(e, p)[0] = Root
         /\ \A i \in 1 .. (Len(p) - 1) :
              PinTrail(e, p)[i] = IF PinTrail(e, p)[i - 1] \in Dirs \cup {Root}
                                  THEN LookupIn(e, PinTrail(e, p)[i - 1], p[i])
                                  ELSE PinTrail(e, p)[i - 1]
<1> DEFINE k == Len(p) - 1
           S == Objects \cup {None, Root}
           next(x, i) == IF x \in Dirs \cup {Root} THEN LookupIn(e, x, p[i]) ELSE x
           G == [i \in Nat |-> [x \in S |-> next(x, i + 1)]]
           IsTrail(d) == d = [i \in 0 .. k |-> IF i = 0 THEN Root ELSE next(d[i - 1], i)]
<1>1. k \in Nat
  BY EmptySeq
<1>2. \A x \in S : \A i : next(x, i) \in S
  BY LookupType
<1> HIDE DEF k, next
<1>3. Root \in S /\ G \in [Nat -> [S -> S]]
  <2> HIDE DEF S
  <2>1. G \in [Nat -> [S -> S]]
    BY <1>2
  <2> QED BY <2>1 DEF S
<1>4. PICK f \in [0 .. k -> S] : Follows(f, Root, G, k)
  <2> HIDE DEF G, S
  <2> QED BY <1>1, <1>3, FollowsSome
<1>5. f[0] = Root
  BY <1>4 DEF Follows
<1>6. ASSUME NEW i \in 1 .. k PROVE f[i] = next(f[i - 1], i)
  <2>1. i - 1 \in 0 .. (k - 1) /\ i - 1 \in Nat /\ (i - 1) + 1 = i /\ i - 1 \in 0 .. k
    BY <1>1
  <2>2. f[i] = G[i - 1][f[i - 1]]
    BY <1>4, <2>1 DEF Follows
  <2>3. f[i - 1] \in S
    BY <1>4, <2>1
  <2> HIDE DEF S
  <2> QED BY <2>1, <2>2, <2>3
<1> HIDE DEF S, G
<1>7. \A i \in 0 .. k : i # 0 => i \in 1 .. k /\ i - 1 \in 0 .. k
  BY <1>1
<1>8. f = [i \in 0 .. k |-> f[i]]
  BY <1>4
<1>9. IsTrail(f)
  BY <1>5, <1>6, <1>7, <1>8
<1>10. IsTrail(PinTrail(e, p))
  <2>1. PinTrail(e, p) = CHOOSE d : IsTrail(d)
    BY Zenon DEF PinTrail, next, k
  <2> HIDE DEF IsTrail
  <2> QED BY <1>9, <2>1, Zenon
<1> DEFINE T == PinTrail(e, p)
<1>11. T = [i \in 0 .. k |-> IF i = 0 THEN Root ELSE next(T[i - 1], i)]
  BY <1>10
<1> HIDE DEF T
<1>12. 0 \in 0 .. k /\ \A i \in 1 .. k : i \in 0 .. k /\ i # 0
  BY <1>1
<1>13. T[0] = Root
  BY <1>11, <1>12
<1>14. \A i \in 1 .. k : T[i] = next(T[i - 1], i)
  BY <1>11, <1>12
<1> QED BY <1>13, <1>14 DEF T, next, k

(* What is no directory is the end of the way. *)
LEMMA PinnedIsStuck ==
  ASSUME NEW e \in Trees, NEW p \in Seq(Names), p # <<>>,
         NEW i \in 0 .. (Len(p) - 1), PinTrail(e, p)[i] \notin Dirs \cup {Root}
  PROVE  PinnedIn(e, p) = PinTrail(e, p)[i]
<1> DEFINE T == PinTrail(e, p)
           Differ == {j \in i .. (Len(p) - 1) : T[j] # T[i]}
<1>1. Len(p) \in Nat /\ Len(p) # 0
  BY EmptySeq
<1>2. Differ = {}
  <2>1. SUFFICES ASSUME Differ # {} PROVE FALSE
    OBVIOUS
  <2>2. Differ \subseteq Nat
    BY <1>1
  <2>3. PICK j \in Differ : \A m \in Differ : j <= m
    <3> HIDE DEF Differ
    <3> QED BY <2>1, <2>2, LeastNumber
  <2>4. j # i /\ j \in 1 .. (Len(p) - 1) /\ j - 1 \in i .. (Len(p) - 1) /\ ~(j <= j - 1)
    BY <1>1, <2>3
  <2>5. T[j - 1] = T[i]
    BY <2>3, <2>4
  <2>6. T[j] = IF T[j - 1] \in Dirs \cup {Root} THEN LookupIn(e, T[j - 1], p[j]) ELSE T[j - 1]
    BY <2>4, PinTrailIsFollowed
  <2> QED BY <2>3, <2>5, <2>6
<1>3. Len(p) - 1 \in i .. (Len(p) - 1)
  BY <1>1
<1> QED BY <1>2, <1>3 DEF PinnedIn

Descending == {"pin", "enter", "look", "unlink"}

(* A call that has not returned has answered nothing; a descent is part of  *)
(* a removal.                                                               *)
Unanswered ==
    /\ outcome # "none" => pc = "returned"
    /\ pc \in Descending \cup {"wait"} => kind = "remove"
    /\ kind = "remove" => pc \in Descending \cup {"wait", "begin", "returned"}

(* The first names of the path were walked, and lead to the directory held. *)
Descended ==
    /\ Len(left) \in 1 .. Len(path)
    /\ \A j \in 1 .. Len(left) : left[j] = path[Len(path) - Len(left) + j]
    /\ at = PinTrail(entry, path)[Len(path) - Len(left)]

(* In a tree that nobody touched, what the call found is what is there, and *)
(* it never waits.                                                          *)
AsFound == ~disturbed =>
    /\ pc # "wait"
    /\ pc = "open" /\ kind = "openNoFollow" =>
          looked = NamedIn(entry, path) /\ looked \in Objects \ Links
    /\ pc \in Descending => Descended
    /\ pc = "enter" => looked \in Dirs /\ looked = LookupIn(entry, at, Head(left))
    /\ pc = "unlink" => looked \in Files /\ looked = LookupIn(entry, at, Head(left))

AnswerInv == IInv /\ Unanswered /\ AsFound

LEMMA HeadOfLeft ==
  ASSUME IInv, AsFound, Unanswered, ~disturbed, pc \in Descending
  PROVE  /\ entry \in Trees /\ path \in Seq(Names) /\ path # <<>> /\ path \in Paths
         /\ at \in Dirs \cup {Root} /\ Descended /\ left # <<>>
         /\ Len(path) \in Nat /\ Len(left) \in Nat
         /\ Len(path) - Len(left) \in 0 .. (Len(path) - 1)
         /\ Head(left) = path[Len(path) - Len(left) + 1]
         /\ pc \in {"pin", "enter"} => Len(left) > 1
         /\ pc \in {"look", "unlink"} => Len(left) = 1
<1>1. /\ entry \in Trees /\ path \in Paths /\ left \in Seq(Names)
      /\ at \in Dirs \cup {Root}
      /\ pc \in {"pin", "enter"} => Len(left) > 1
      /\ pc \in {"look", "unlink"} => Len(left) = 1
  BY DEF IInv, TypeOK, LeftOK, Descending, Trees
<1>2. path \in Seq(Names) /\ Len(path) \in Nat /\ Len(left) \in Nat /\ path # <<>>
  BY <1>1, PathsAssumption DEF Names
<1>3. Descended
  BY DEF AsFound
<1>4. left # <<>> /\ Len(path) - Len(left) \in 0 .. (Len(path) - 1)
  BY <1>2, <1>3 DEF Descended
<1>5. Head(left) = left[1] /\ 1 \in 1 .. Len(left)
  BY <1>1, <1>2, <1>4
<1>6. Head(left) = path[Len(path) - Len(left) + 1]
  BY <1>3, <1>5 DEF Descended
<1> QED BY <1>1, <1>2, <1>3, <1>4, <1>6

LEMMA AnswerAtFirst ==
  ASSUME Init
  PROVE  AnswerInv
BY InitEstablishes DEF Init, AnswerInv, Unanswered, AsFound, Descending

LEMMA AnswerStep ==
  ASSUME AnswerInv, Next
  PROVE  AnswerInv'
<1> USE DEF call, ctl, ghost
<1>0. IInv /\ IInv' /\ Unanswered /\ AsFound
  BY StepPreserves DEF AnswerInv
<1> SUFFICES Unanswered' /\ AsFound'
  BY <1>0 DEF AnswerInv
<1>1. ASSUME NEW k \in Kinds, NEW p \in Paths, Begin(k, p)
      PROVE  Unanswered' /\ AsFound'
  <2>1. p \in Seq(Names) /\ p # <<>> /\ (Len(p) = 1 \/ Len(p) > 1) /\ Len(p) \in Nat
    BY PathsAreNames, PathsAssumption DEF Names
  <2>2. kind' = k /\ path' = p /\ left' = p /\ at' = Root /\ outcome' = "none"
    BY <1>0, <1>1 DEF Begin, Unanswered
  <2>3. CASE k = "remove"
    <3>1. pc' \in {"look", "pin"}
      BY <1>1, <2>3 DEF Begin
    <3>2. Unanswered'
      BY <2>2, <2>3, <3>1 DEF Unanswered, Descending
    <3>3. AsFound'
      <4>1. SUFFICES ASSUME ~disturbed' PROVE Descended'
        BY <3>1 DEF AsFound, Descending
      <4>2. entry' \in Trees
        BY <1>0 DEF IInv, TypeOK, Trees
      <4>3. PinTrail(entry', p)[0] = Root
        BY <2>1, <4>2, PinTrailIsFollowed
      <4>4. Len(p) - Len(p) = 0 /\ Len(p) \in 1 .. Len(p) /\ \A j \in 1 .. Len(p) : Len(p) - Len(p) + j = j
        BY <2>1
      <4> QED BY <2>2, <4>3, <4>4 DEF Descended
    <3> QED BY <3>2, <3>3
  <2>4. CASE k # "remove"
    <3>1. pc' = "inspect" \/ (pc' = "open" /\ k # "openNoFollow")
      BY <1>1, <2>4 DEF Begin, Kinds
    <3> QED BY <2>2, <2>4, <3>1 DEF Unanswered, AsFound, Descending
  <2> QED BY <2>3, <2>4
<1>2. CASE pc' = "returned" /\ pc # "begin"
  BY <1>0, <1>2 DEF Unanswered, AsFound, Descending
<1>3. CASE Inspect /\ pc' # "returned"
  <2>1. /\ pc = "inspect" /\ pc' = "open" /\ looked' = Named(path) /\ Named(path) \in Objects \ Links
        /\ UNCHANGED <<entry, kind, path, outcome>> /\ kind = "openNoFollow"
    BY <1>0, <1>3 DEF Inspect, Return, GoTo, IInv, Openers
  <2>2. Named(path) = NamedIn(entry, path)
    BY NamesAreIn
  <2> QED BY <1>0, <2>1, <2>2 DEF Unanswered, AsFound, Descending
<1>4. CASE Pin /\ pc' # "returned"
  <2>1. /\ pc = "pin" /\ pc' = "enter" /\ looked' = Lookup(at, Head(left)) /\ looked' \in Dirs
        /\ UNCHANGED <<entry, kind, path, left, at, outcome, disturbed>>
    BY <1>4 DEF Pin, Return, GoTo
  <2>2. Lookup(at, Head(left)) = LookupIn(entry, at, Head(left))
    BY NamesAreIn
  <2> QED BY <1>0, <2>1, <2>2 DEF Unanswered, AsFound, Descending, Descended
<1>10. CASE Enter /\ pc' = "wait"
  <2>1. /\ pc = "enter" /\ Follow(Lookup(at, Head(left))) \in Others
        /\ UNCHANGED <<entry, kind, path, outcome, disturbed>>
    BY <1>10 DEF Enter, Return, GoTo
  <2>2. ASSUME ~disturbed PROVE FALSE
    <3>1. looked \in Dirs /\ looked = LookupIn(entry, at, Head(left)) /\ entry \in Trees
      BY <1>0, <2>1, <2>2 DEF AsFound, IInv, TypeOK, Trees
    <3>2. Follow(looked) \in Others
      BY <2>1, <3>1, NamesAreIn
    <3>3. looked \notin Links /\ looked \notin Others
      BY <3>1, KindsDisjoint
    <3> QED BY <3>2, <3>3 DEF Follow
  <2> QED BY <1>0, <1>10, <2>1, <2>2 DEF Unanswered, AsFound, Descending
<1>5. CASE Enter /\ pc' \notin {"returned", "wait"}
  <2>1. /\ pc = "enter" /\ pc' \in {"pin", "look"} /\ at' \in Dirs /\ at' = looked /\ left' = Tail(left)
        /\ UNCHANGED <<entry, kind, path, outcome, disturbed>>
    BY <1>5 DEF Enter, Return, GoTo
  <2>2. Unanswered'
    BY <1>0, <2>1 DEF Unanswered, Descending
  <2>3. ASSUME ~disturbed PROVE Descended'
    <3>1. /\ entry \in Trees /\ path \in Seq(Names) /\ path # <<>> /\ Descended /\ at \in Dirs \cup {Root}
          /\ Len(path) \in Nat /\ Len(left) \in Nat /\ Len(left) > 1 /\ left # <<>>
          /\ Len(path) - Len(left) \in 0 .. (Len(path) - 1)
          /\ Head(left) = path[Len(path) - Len(left) + 1]
      BY <1>0, <2>1, <2>3, HeadOfLeft DEF Descending
    <3>2. left \in Seq(Names)
      BY <1>0 DEF IInv, LeftOK
    <3>3. /\ Len(left') = Len(left) - 1
          /\ \A j \in 1 .. Len(left') : left'[j] = left[j + 1]
      BY <2>1, <3>1, <3>2
    <3> DEFINE i == Len(path) - Len(left)
    <3>4. i \in Nat /\ i + 1 \in 1 .. (Len(path) - 1) /\ (i + 1) - 1 = i /\ Len(path') - Len(left') = i + 1
      BY <2>1, <3>1, <3>3
    <3>5. Len(left') \in 1 .. Len(path')
      BY <2>1, <3>1, <3>3
    <3>6. ASSUME NEW j \in 1 .. Len(left') PROVE left'[j] = path'[Len(path') - Len(left') + j]
      <4>1. j + 1 \in 1 .. Len(left) /\ i + (j + 1) = (i + 1) + j
        BY <3>1, <3>3, <3>4
      <4>2. left[j + 1] = path[i + (j + 1)]
        BY <3>1, <4>1 DEF Descended
      <4> QED BY <2>1, <3>3, <3>4, <4>1, <4>2
    <3>7. at' = PinTrail(entry', path')[Len(path') - Len(left')]
      <4>1. PinTrail(entry, path)[i] = at
        BY <3>1 DEF Descended
      <4>2. PinTrail(entry, path)[i + 1] = LookupIn(entry, at, path[i + 1])
        <5> HIDE DEF i
        <5> QED BY <3>1, <3>4, <4>1, PinTrailIsFollowed
      <4>3. looked = LookupIn(entry, at, path[i + 1])
        BY <1>0, <2>1, <2>3, <3>1 DEF AsFound
      <4> HIDE DEF i
      <4> QED BY <2>1, <3>4, <4>2, <4>3
    <3> QED BY <3>5, <3>6, <3>7 DEF Descended
  <2>4. AsFound'
    BY <2>1, <2>3 DEF AsFound
  <2> QED BY <2>2, <2>4
<1>6. CASE Look /\ pc' # "returned"
  <2>1. /\ pc = "look" /\ pc' = "unlink" /\ looked' = Lookup(at, Head(left)) /\ looked' \in Files
        /\ UNCHANGED <<entry, kind, path, left, at, outcome, disturbed>>
    BY <1>6 DEF Look, Return, GoTo
  <2>2. Lookup(at, Head(left)) = LookupIn(entry, at, Head(left))
    BY NamesAreIn
  <2> QED BY <1>0, <2>1, <2>2 DEF Unanswered, AsFound, Descending, Descended
<1>7. CASE Open \/ Unlink
  <2>1. pc' = "returned" /\ pc # "begin"
    BY <1>7 DEF Open, Unlink, Return
  <2> QED BY <1>2, <2>1
<1>8. ASSUME NEW s \in Slots, NEW o \in Objects \cup {None}, Change(s, o)
      PROVE  Unanswered' /\ AsFound'
  BY <1>0, <1>8 DEF Change, Unanswered, AsFound
<1>9. Inspect \/ Pin \/ Enter \/ Look \/ OtherEndOpens => pc # "begin"
  BY DEF Inspect, Pin, Enter, Look, OtherEndOpens
<1>11. OtherEndOpens => pc' = "returned"
  BY DEF OtherEndOpens, Return
<1> QED BY <1>1, <1>2, <1>3, <1>4, <1>5, <1>6, <1>7, <1>8, <1>9, <1>10, <1>11 DEF Next, Step

LEMMA AnswerStutter ==
  ASSUME AnswerInv, UNCHANGED vars
  PROVE  AnswerInv'
<1>1. IInv'
  BY StutterPreserves DEF AnswerInv
<1>2. Unanswered' /\ AsFound'
  BY DEF AnswerInv, Unanswered, AsFound, Descended, vars, call, ctl, ghost
<1> QED BY <1>1, <1>2 DEF AnswerInv

LEMMA AnswerInductive == Spec => []AnswerInv
<1>1. AnswerInv /\ [Next]_vars => AnswerInv'
  BY AnswerStep, AnswerStutter
<1>2. Init => AnswerInv
  BY AnswerAtFirst
<1> QED BY <1>1, <1>2, PTL DEF Spec

Answered == ~disturbed /\ outcome' \notin {"none", "failed"} => outcome' = Promised(kind, path)

(* What the openers promise, by what they open. *)
LEMMA OpenAnswers ==
  ASSUME AnswerInv, Open
  PROVE  Answered
<1>1. /\ entry \in Trees /\ kind \in Kinds /\ kind # "remove" /\ pc = "open"
  BY DEF AnswerInv, IInv, TypeOK, Openers, Trees, Open
<1>2. Named(path) = NamedIn(entry, path) /\ \A o : Follow(o) = FollowIn(entry, o)
  BY NamesAreIn
<1>3. Named(path) \in Objects \cup {None}
  BY <1>1, <1>2, NamedType
<1>4. /\ Follow(Named(path)) \in (Objects \ Links) \cup {None}
      /\ Named(path) \notin Links => Follow(Named(path)) = Named(path)
  BY <1>1, <1>2, <1>3, FollowType
<1>5. None \notin Objects /\ Links \subseteq Objects /\ Files \subseteq Objects \ Links
  BY NoneAssumption, KindsDisjoint DEF Objects
<1>6. CASE kind = "openInRoot"
  <2>1. Opened = Follow(Named(path))
    BY <1>6 DEF Opened
  <2>2. outcome' = "failed" \/ (Opened = None /\ outcome' = "missing")
        \/ (Opened \notin Files /\ Opened # None /\ outcome' = "notRegular")
        \/ (Opened \in Files /\ Opened # None /\ outcome' = "opened")
    BY <1>4, <1>5, <1>6, <2>1 DEF Open, Return
  <2> HIDE DEF Answered
  <2>3. Promised(kind, path) = IF Follow(Named(path)) = None THEN "missing"
                               ELSE IF Follow(Named(path)) \in Files THEN "opened" ELSE "notRegular"
    BY <1>6 DEF Promised
  <2> QED BY <2>1, <2>2, <2>3 DEF Answered
<1>7. CASE kind = "openPath"
  <2>1. Opened = Named(path)
    BY <1>7 DEF Opened
  <2>2. outcome' = "failed" \/ (Opened = None /\ outcome' = "missing")
        \/ (Opened \in Links /\ outcome' = "symlink")
        \/ (Opened \in Objects \ Links /\ Opened \notin Files /\ outcome' = "notRegular")
        \/ (Opened \in Objects \ Links /\ Opened \in Files /\ outcome' = "opened")
    BY <1>7 DEF Open, Return
  <2>3. Promised(kind, path) = IF Named(path) = None THEN "missing"
                               ELSE IF Named(path) \in Links THEN "symlink"
                               ELSE IF Named(path) \in Files THEN "opened" ELSE "notRegular"
    BY <1>7 DEF Promised
  <2> QED BY <1>5, <2>1, <2>2, <2>3 DEF Answered
<1>8. CASE kind = "openNoFollow"
  <2>1. SUFFICES ASSUME ~disturbed PROVE Answered
    BY DEF Answered
  <2>2. looked = Named(path) /\ looked \in Objects \ Links
    BY <1>1, <1>2, <1>8, <2>1 DEF AnswerInv, AsFound
  <2>3. Opened = looked
    BY <1>4, <1>8, <2>2 DEF Opened
  <2>4. outcome' = "failed"
        \/ (Opened \notin Files /\ outcome' = "notRegular")
        \/ (Opened \in Files /\ outcome' = "opened")
    BY <1>5, <1>8, <2>2, <2>3 DEF Open, Return
  <2>5. Promised(kind, path) = IF Named(path) = None THEN "missing"
                               ELSE IF Named(path) \in Links THEN "symlink"
                               ELSE IF Named(path) \in Files THEN "opened" ELSE "notRegular"
    BY <1>8 DEF Promised
  <2> QED BY <1>5, <2>2, <2>3, <2>4, <2>5 DEF Answered
<1> QED BY <1>1, <1>6, <1>7, <1>8 DEF Kinds

(* What a removal promises, when the way ends at o before the base name. *)
LEMMA StuckAnswers ==
  ASSUME AnswerInv, ~disturbed, pc = "pin",
         Lookup(at, Head(left)) \notin Dirs
  PROVE  Promised(kind, path) = IF Lookup(at, Head(left)) = None THEN "missing" ELSE "notDir"
<1> DEFINE i == Len(path) - Len(left)
           o == Lookup(at, Head(left))
<1>1. IInv /\ AsFound /\ Unanswered /\ kind = "remove"
  BY DEF AnswerInv, Unanswered, Descending
<1>2. /\ entry \in Trees /\ path \in Seq(Names) /\ path # <<>> /\ at \in Dirs \cup {Root} /\ Descended
      /\ Len(path) \in Nat /\ Len(left) \in Nat /\ Len(left) > 1
      /\ i \in 0 .. (Len(path) - 1) /\ Head(left) = path[i + 1]
  BY <1>1, HeadOfLeft DEF Descending
<1>3. i + 1 \in 1 .. (Len(path) - 1) /\ i + 1 \in 0 .. (Len(path) - 1) /\ (i + 1) - 1 = i
  BY <1>2
<1>4. at = PinTrail(entry, path)[i]
  BY <1>2 DEF Descended
<1> HIDE DEF i
<1>5. PinTrail(entry, path)[i + 1] = LookupIn(entry, at, path[i + 1])
  BY <1>2, <1>3, <1>4, PinTrailIsFollowed
<1>6. o = LookupIn(entry, at, path[i + 1])
  BY <1>2, NamesAreIn
<1>7. o \in Objects \cup {None}
  BY <1>2, <1>6, LookupType
<1>8. o \notin Dirs \cup {Root}
  BY <1>7, NoneAssumption
<1>9. PinnedAt(path) = o
  <2>1. PinnedIn(entry, path) = PinTrail(entry, path)[i + 1]
    BY <1>2, <1>3, <1>5, <1>6, <1>8, PinnedIsStuck
  <2> QED BY <1>5, <1>6, <2>1, NamesAreIn
<1> HIDE DEF o
<1>10. Promised("remove", path) = IF PinnedAt(path) = None THEN "missing"
                                  ELSE IF PinnedAt(path) \notin Dirs \cup {Root} THEN "notDir"
              ELSE IF Lookup(PinnedAt(path), path[Len(path)]) = None THEN "missing"
              ELSE IF Lookup(PinnedAt(path), path[Len(path)]) \in Files THEN "removed" ELSE "notRegular"
  BY DEF Promised
<1>11. Promised(kind, path) = IF o = None THEN "missing" ELSE "notDir"
  BY <1>1, <1>8, <1>9, <1>10
<1> QED BY <1>11 DEF o

(* And when it has come to the base name. *)
LEMMA BaseAnswers ==
  ASSUME AnswerInv, ~disturbed, pc \in {"look", "unlink"}
  PROVE  Promised(kind, path) =
           IF Lookup(at, Head(left)) = None THEN "missing"
           ELSE IF Lookup(at, Head(left)) \in Files THEN "removed" ELSE "notRegular"
<1>1. IInv /\ AsFound /\ Unanswered /\ kind = "remove"
  BY DEF AnswerInv, Unanswered, Descending
<1>2. /\ path \in Seq(Names) /\ at \in Dirs \cup {Root} /\ Descended
      /\ Len(path) \in Nat /\ Len(left) = 1 /\ Head(left) = path[Len(path) - Len(left) + 1]
  BY <1>1, HeadOfLeft DEF Descending
<1>3. Head(left) = path[Len(path)]
  <2>1. Len(path) - Len(left) + 1 = Len(path)
    BY <1>2
  <2> QED BY <1>2, <2>1
<1>4. at = PinnedAt(path)
  <2>1. at = PinTrail(entry, path)[Len(path) - 1]
    BY <1>2 DEF Descended
  <2> QED BY <2>1, NamesAreIn DEF PinnedIn
<1>5. at # None
  BY <1>2, NoneAssumption DEF Objects
<1>6. Promised("remove", path) = IF PinnedAt(path) = None THEN "missing"
                                  ELSE IF PinnedAt(path) \notin Dirs \cup {Root} THEN "notDir"
              ELSE IF Lookup(PinnedAt(path), path[Len(path)]) = None THEN "missing"
              ELSE IF Lookup(PinnedAt(path), path[Len(path)]) \in Files THEN "removed" ELSE "notRegular"
  BY DEF Promised
<1> QED BY <1>1, <1>2, <1>3, <1>4, <1>5, <1>6

LEMMA DescentAnswers ==
  ASSUME AnswerInv, Pin \/ Enter \/ Look \/ Unlink
  PROVE  Answered
<1> SUFFICES ASSUME ~disturbed, outcome' \notin {"none", "failed"}
             PROVE  outcome' = Promised(kind, path)
  BY DEF Answered
<1> DEFINE o == Lookup(at, Head(left))
<1>1. /\ entry \in Trees /\ pc # "begin" /\ outcome = "none"
      /\ None \notin Objects /\ Files \subseteq Objects /\ Dirs \subseteq Objects /\ Dirs \cap Links = {}
      /\ Dirs \cap Files = {}
  BY NoneAssumption, KindsDisjoint
     DEF AnswerInv, IInv, TypeOK, Unanswered, Trees, Pin, Enter, Look, Unlink, Objects
<1>2. o = LookupIn(entry, at, Head(left)) /\ \A x : Follow(x) = FollowIn(entry, x)
  BY NamesAreIn
<1>3. o \in Objects \cup {None}
  BY <1>1, <1>2, LookupType
<1>4. o \notin Links => Follow(o) = o
  BY <1>1, <1>2, <1>3, FollowType
<1> HIDE DEF o
<1>5. CASE Pin
  <2>1. pc = "pin" /\ o \notin Dirs /\ outcome' = IF o = None THEN "missing" ELSE "notDir"
    BY <1>1, <1>5 DEF Pin, Return, GoTo, o
  <2> QED BY <2>1, StuckAnswers DEF o
<1>6. CASE Enter
  <2>1. pc = "enter" /\ o \in Dirs /\ o = looked
    BY <1>2, <1>6 DEF Enter, AnswerInv, AsFound
  <2>2. Follow(o) = o
    BY <1>1, <1>4, <2>1
  <2>3. FALSE
    BY <1>1, <1>6, <2>1, <2>2 DEF Enter, Return, GoTo, o
  <2> QED BY <2>3
<1>7. CASE Look
  <2>1. pc = "look"
        /\ o \notin Files
        /\ outcome' = IF o = None THEN "missing" ELSE "notRegular"
    BY <1>1, <1>7 DEF Look, Return, GoTo, o
  <2> QED BY <2>1, BaseAnswers DEF o
<1>8. CASE Unlink
  <2>1. pc = "unlink" /\ o \in Files
    BY <1>2, <1>8 DEF Unlink, AnswerInv, AsFound
  <2>2. outcome' = "removed"
    BY <1>1, <1>8, <2>1 DEF Unlink, Return, o
  <2> QED BY <1>1, <2>1, <2>2, BaseAnswers DEF o
<1> QED BY <1>5, <1>6, <1>7, <1>8

LEMMA StepAnswers ==
  ASSUME AnswerInv, Next
  PROVE  Answered
<1> USE DEF call, ctl, ghost
<1>1. CASE \E k \in Kinds, p \in Paths : Begin(k, p)
  <2>1. outcome' = "none"
    BY <1>1 DEF Begin, AnswerInv, Unanswered
  <2> QED BY <2>1 DEF Answered
<1>2. CASE Inspect
  <2>1. kind = "openNoFollow" /\ None \notin Objects /\ Links \subseteq Objects /\ outcome = "none"
    BY <1>2, NoneAssumption DEF Inspect, AnswerInv, IInv, Openers, Unanswered, Objects
  <2>2. outcome' \in {"none", "failed"} \/ (Named(path) = None /\ outcome' = "missing")
        \/ (Named(path) \in Links /\ outcome' = "symlink")
    BY <1>2, <2>1 DEF Inspect, Return, GoTo
  <2>3. Promised(kind, path) = IF Named(path) = None THEN "missing"
                               ELSE IF Named(path) \in Links THEN "symlink"
                               ELSE IF Named(path) \in Files THEN "opened" ELSE "notRegular"
    BY <2>1 DEF Promised
  <2> QED BY <2>1, <2>2, <2>3 DEF Answered
<1>3. CASE \E s \in Slots, x \in Objects \cup {None} : Change(s, x)
  <2>1. outcome' = "none"
    BY <1>3 DEF Change, AnswerInv, Unanswered
  <2> QED BY <2>1 DEF Answered
<1>4. CASE OtherEndOpens
  BY <1>4 DEF OtherEndOpens, AnswerInv, AsFound, Answered
<1> QED BY <1>1, <1>2, <1>3, <1>4, OpenAnswers, DescentAnswers DEF Next, Step

(* A call that met no writer and no error of the file system answered what  *)
(* is promised of the tree, at whatever step it returned: AnswersAsPromised *)
(* holds of every step that keeps AnswerInv.                                *)
THEOREM AnswersAreProven == Spec => AnswersAsPromised
<1>1. AnswerInv /\ [Next]_vars => [Answered]_vars
  BY StepAnswers
<1> QED BY <1>1, AnswerInductive, PTL DEF Spec, AnswersAsPromised, Answered

-----------------------------------------------------------------------------
(* Reload *)

(* Integers are wide enough for a byte, and no inode is no inode. *)
Sound ==
    /\ Widest \in Nat \ {0} /\ MaxGen \in Nat /\ MaxTick \in Nat
    /\ None \notin Inodes

HasOpen == {"info", "size", "read"}
HasInfo == {"size", "read"}

(* The reader's variables hang together. *)
StepInv ==
    /\ step \in HasOpen => held \in Inodes /\ len[held] <= peak
    /\ step \in HasInfo => info.ino = held
    /\ step # "read" => buf = << >>

(* What was read so far is the beginning of the open file, unless that was  *)
(* rewritten, and is never longer than the file has been.                   *)
ReadInv ==
    step = "read" =>
        /\ Len(buf) <= peak
        /\ mtime[held] = info.mtime /\ "load" \notin spoiled =>
              /\ Len(buf) <= len[held]
              /\ \A k \in 1 .. Len(buf) : buf[k] = gen[held]

(* What is cached is the whole of the inode it was read from, unless that   *)
(* was rewritten.                                                           *)
CacheInv ==
    cache.id # Poller!NoInfo =>
        /\ cache.id.ino \in Inodes
        /\ mtime[cache.id.ino] = cache.id.mtime /\ "cache" \notin spoiled =>
              cache.bytes = [k \in 1 .. len[cache.id.ino] |-> gen[cache.id.ino]]

LoadInv == Poller!TypeOK /\ StepInv /\ ReadInv /\ CacheInv

-----------------------------------------------------------------------------
LEMMA LoadInvAtFirst ==
  ASSUME Sound, Poller!Init
  PROVE  LoadInv
<1> USE DEF Sound, Poller!Init
<1>1. Poller!NoInfo \in [ino : Inodes \cup {None}, mtime : Poller!Ticks] /\ << >> \in Seq(Poller!Gens)
  BY DEF Poller!NoInfo, Poller!Ticks
<1>2. cache.bytes = << >> /\ cache.id = Poller!NoInfo
  BY DEF Poller!NoCache
<1>3. Poller!TypeOK
  <2>1. /\ current \in Inodes \cup {None}
        /\ gen \in [Inodes -> Poller!Gens] /\ mtime \in [Inodes -> Poller!Ticks]
        /\ now \in Poller!Ticks /\ last \in Poller!Gens /\ peak \in Poller!Sizes
    BY DEF Poller!Gens, Poller!Ticks, Poller!Sizes
  <2>2. len \in [Inodes -> Poller!Sizes]
    BY DEF Poller!Sizes
  <2> QED BY <1>1, <1>2, <2>1, <2>2 DEF Poller!TypeOK, Poller!Steps
<1>4. StepInv /\ ReadInv /\ CacheInv
  BY <1>2 DEF StepInv, ReadInv, CacheInv, HasOpen, HasInfo
<1> QED BY <1>3, <1>4 DEF LoadInv

(* The limit is one more than maxBytes, or the largest integer.             *)
LEMMA LimitIsNext ==
  ASSUME Sound, maxBytes \in 0 .. Widest
  PROVE  Poller!Limit = IF maxBytes = Widest THEN Widest ELSE maxBytes + 1
BY DEF Sound, Poller!Limit, Poller!SaturateAdd, Poller!Wrapped

(* At the end of a read that kept to maxBytes the whole file was read.      *)
LEMMA EndIsEnd ==
  ASSUME Sound, Poller!TypeOK, Poller!AtEnd, Len(buf) <= maxBytes, held \in Inodes
  PROVE  Len(buf) >= len[held]
<1>1. Len(buf) \in Nat /\ maxBytes \in 0 .. Widest /\ len[held] \in 0 .. Widest
  BY DEF Poller!TypeOK, Sound, Poller!Sizes
<1>2. Len(buf) >= len[held] \/ Len(buf) >= Poller!Limit
  BY DEF Poller!AtEnd
<1>3. Poller!Limit = IF maxBytes = Widest THEN Widest ELSE maxBytes + 1
  BY LimitIsNext DEF Poller!TypeOK
<1> HIDE DEF Poller!Limit
<1> QED BY <1>1, <1>2, <1>3 DEF Sound

(* A call that ends without data leaves nothing behind.                     *)
LEMMA EndKeeps ==
  ASSUME Sound, LoadInv, NEW what \in {"tooLarge", "cancelled", "failed"}, Poller!Return(what),
         UNCHANGED <<Poller!files, maxBytes, cancelled, peak, cache, spoiled>>
  PROVE  LoadInv'
<1>1. Poller!NoInfo \in [ino : Inodes \cup {None}, mtime : Poller!Ticks] /\ << >> \in Seq(Poller!Gens)
  BY DEF Sound, Poller!NoInfo, Poller!Ticks
<1>2. Poller!TypeOK'
  BY <1>1 DEF LoadInv, Poller!TypeOK, Poller!Return, Poller!files, Poller!Steps
<1>3. StepInv' /\ ReadInv'
  BY DEF Poller!Return, StepInv, ReadInv, HasOpen, HasInfo
<1>4. CacheInv'
  BY DEF LoadInv, CacheInv, Poller!files
<1> QED BY <1>2, <1>3, <1>4 DEF LoadInv

LEMMA OpenKeeps ==
  ASSUME Sound, LoadInv, Poller!Poll \/ Poller!Open
  PROVE  LoadInv'
<1>1. CASE Poller!Poll
  <2>1. Poller!TypeOK'
    BY <1>1 DEF Poller!Poll, LoadInv, Poller!TypeOK, Poller!files, Poller!Steps
  <2>2. StepInv' /\ ReadInv'
    BY <1>1 DEF Poller!Poll, LoadInv, StepInv, ReadInv, HasOpen, HasInfo
  <2>3. CacheInv'
    BY <1>1 DEF Poller!Poll, LoadInv, CacheInv, Poller!files
  <2> QED BY <2>1, <2>2, <2>3 DEF LoadInv
<1>2. CASE Poller!Open /\ step' = "info"
  <2>1. /\ step = "open" /\ current # None /\ held' = current /\ peak' = len[current]
        /\ UNCHANGED <<Poller!files, maxBytes, cancelled, info, buf, answer, cache, spoiled>>
    BY <1>2 DEF Poller!Open, Poller!Return
  <2>2. current \in Inodes
    BY <2>1 DEF LoadInv, Poller!TypeOK
  <2>3. Poller!TypeOK'
    BY <1>2, <2>1, <2>2 DEF LoadInv, Poller!TypeOK, Poller!files, Poller!Steps
  <2>4. StepInv' /\ ReadInv'
    <3>1. len[current] <= len[current]
      BY <2>2 DEF LoadInv, Poller!TypeOK, Poller!Sizes
    <3> QED BY <1>2, <2>1, <2>2, <3>1 DEF LoadInv, StepInv, ReadInv, HasOpen, HasInfo, Poller!files
  <2>5. CacheInv'
    BY <2>1 DEF LoadInv, CacheInv, Poller!files
  <2> QED BY <2>3, <2>4, <2>5 DEF LoadInv
<1>3. CASE Poller!Open /\ step' # "info"
  BY <1>3, EndKeeps DEF Poller!Open
<1> QED BY <1>1, <1>2, <1>3

LEMMA InfoKeeps ==
  ASSUME Sound, LoadInv, Poller!Info
  PROVE  LoadInv'
<1>1. /\ step = "info" /\ step' = "size" /\ info' = Poller!Stat(held) /\ spoiled' = spoiled \ {"load"}
      /\ UNCHANGED <<current, gen, len, mtime, now, last>>
      /\ UNCHANGED <<maxBytes, cancelled, held, buf, answer, peak, cache>>
  BY DEF Poller!Info, Poller!files
<1>2. held \in Inodes /\ len[held] <= peak /\ buf = << >>
  BY <1>1 DEF LoadInv, StepInv, HasOpen
<1>3. info'.ino = held /\ info' \in [ino : Inodes \cup {None}, mtime : Poller!Ticks]
  BY <1>1, <1>2 DEF Poller!Stat, LoadInv, Poller!TypeOK
<1>4. Poller!TypeOK'
  BY <1>1, <1>3 DEF LoadInv, Poller!TypeOK, Poller!Steps
<1>5. StepInv' /\ ReadInv'
  BY <1>1, <1>2, <1>3 DEF StepInv, ReadInv, HasOpen, HasInfo
<1>6. CacheInv'
  BY <1>1 DEF LoadInv, CacheInv
<1> QED BY <1>4, <1>5, <1>6 DEF LoadInv

LEMMA SizeKeeps ==
  ASSUME Sound, LoadInv, Poller!Size
  PROVE  LoadInv'
<1>1. CASE step' = "read"
  <2>1. /\ step = "size"
        /\ UNCHANGED <<current, gen, len, mtime, now, last>>
        /\ UNCHANGED <<maxBytes, cancelled, held, info, buf, answer, peak, cache, spoiled>>
    BY <1>1 DEF Poller!Size, Poller!Return, Poller!files
  <2>2. held \in Inodes /\ len[held] <= peak /\ info.ino = held /\ buf = << >>
    BY <2>1 DEF LoadInv, StepInv, HasOpen, HasInfo
  <2>3. Poller!TypeOK'
    BY <1>1, <2>1 DEF LoadInv, Poller!TypeOK, Poller!Steps
  <2>4. StepInv'
    BY <1>1, <2>1, <2>2 DEF StepInv, HasOpen, HasInfo
  <2>5. ReadInv'
    <3>1. Len(buf) = 0 /\ len[held] \in Nat /\ peak \in Nat
      BY <2>2 DEF LoadInv, Poller!TypeOK, Poller!Sizes
    <3> QED BY <2>1, <3>1 DEF ReadInv
  <2>6. CacheInv'
    BY <2>1 DEF LoadInv, CacheInv
  <2> QED BY <2>3, <2>4, <2>5, <2>6 DEF LoadInv
<1>2. CASE step' # "read"
  BY <1>2, EndKeeps DEF Poller!Size
<1> QED BY <1>1, <1>2

LEMMA ReadKeeps ==
  ASSUME Sound, LoadInv, Poller!Read
  PROVE  LoadInv'
<1>1. /\ step = "read"
      /\ UNCHANGED <<current, gen, len, mtime, now, last>>
      /\ UNCHANGED <<maxBytes, cancelled, step, held, info, answer, peak, cache, spoiled>>
  BY DEF Poller!Read, Poller!files
<1>2. held \in Inodes /\ len[held] <= peak /\ info.ino = held
  BY <1>1 DEF LoadInv, StepInv, HasOpen, HasInfo
<1>3. /\ buf \in Seq(Poller!Gens) /\ gen[held] \in Poller!Gens /\ len[held] \in Nat /\ Len(buf) \in Nat
      /\ peak \in Nat
  BY <1>2 DEF LoadInv, Poller!TypeOK, Poller!Sizes
<1>4. PICK n \in 1 .. (len[held] - Len(buf)) : buf' = buf \o [k \in 1 .. n |-> gen[held]]
  BY DEF Poller!Read
<1>5. n \in Nat /\ n <= len[held] - Len(buf)
  BY <1>3, <1>4
<1> DEFINE more == [k \in 1 .. n |-> gen[held]]
<1>6. more \in Seq(Poller!Gens) /\ Len(more) = n /\ \A k \in 1 .. n : more[k] = gen[held]
  BY <1>3, <1>5
<1>7. buf' = buf \o more
  BY <1>4
<1> HIDE DEF more
<1>8. /\ buf' \in Seq(Poller!Gens) /\ Len(buf') = Len(buf) + n
      /\ \A k \in 1 .. Len(buf') : buf'[k] = IF k <= Len(buf) THEN buf[k] ELSE more[k - Len(buf)]
  <2>1. buf' \in Seq(Poller!Gens) /\ Len(buf') = Len(buf) + Len(more)
    BY <1>3, <1>6, <1>7, ConcatProperties
  <2>2. \A k \in 1 .. Len(buf) + Len(more) :
           buf'[k] = IF k <= Len(buf) THEN buf[k] ELSE more[k - Len(buf)]
    BY <1>3, <1>6, <1>7
  <2> QED BY <1>6, <2>1, <2>2
<1>9. Len(buf') <= len[held]
  BY <1>3, <1>5, <1>8
<1>10. Poller!TypeOK'
  BY <1>1, <1>8 DEF LoadInv, Poller!TypeOK
<1>11. StepInv'
  BY <1>1, <1>2 DEF StepInv, HasOpen, HasInfo
<1>12. ReadInv'
  <2>1. Len(buf') <= peak
    BY <1>2, <1>3, <1>8, <1>9
  <2>2. ASSUME \A k \in 1 .. Len(buf) : buf[k] = gen[held], NEW k \in 1 .. Len(buf')
        PROVE  buf'[k] = gen[held]
    <3>1. CASE k <= Len(buf)
      BY <1>3, <1>8, <2>2, <3>1
    <3>2. CASE k > Len(buf)
      <4>1. k - Len(buf) \in 1 .. n
        BY <1>3, <1>5, <1>8, <3>2
      <4> QED BY <1>3, <1>6, <1>8, <3>2, <4>1
    <3> QED BY <1>3, <3>1, <3>2
  <2> QED BY <1>1, <1>9, <2>1, <2>2 DEF LoadInv, ReadInv
<1>13. CacheInv'
  BY <1>1 DEF LoadInv, CacheInv
<1> QED BY <1>10, <1>11, <1>12, <1>13 DEF LoadInv

LEMMA ReadEndKeeps ==
  ASSUME Sound, LoadInv, Poller!ReadEnd
  PROVE  LoadInv'
<1>1. CASE Poller!Return("tooLarge") /\ UNCHANGED <<cache, spoiled>>
  BY <1>1, EndKeeps DEF Poller!ReadEnd
<1>2. CASE /\ Len(buf) <= maxBytes /\ Poller!Return("loaded")
           /\ cache' = [bytes |-> buf, id |-> info]
           /\ spoiled' = IF "load" \in spoiled THEN {"cache"} ELSE {}
  <2>1. /\ step = "read" /\ Poller!AtEnd
        /\ UNCHANGED <<current, gen, len, mtime, now, last>>
        /\ UNCHANGED <<maxBytes, cancelled, peak>>
    BY DEF Poller!ReadEnd, Poller!files
  <2>2. held \in Inodes /\ info.ino = held
    BY <2>1 DEF LoadInv, StepInv, HasOpen, HasInfo
  <2>3. cache'.bytes = buf /\ cache'.id = info
    BY <1>2
  <2>4. Poller!NoInfo \in [ino : Inodes \cup {None}, mtime : Poller!Ticks] /\ << >> \in Seq(Poller!Gens)
    BY DEF Sound, Poller!NoInfo, Poller!Ticks
  <2>5. Poller!TypeOK'
    BY <1>2, <2>1, <2>3, <2>4 DEF LoadInv, Poller!TypeOK, Poller!Return, Poller!Steps
  <2>6. StepInv' /\ ReadInv'
    BY <1>2 DEF Poller!Return, StepInv, ReadInv, HasOpen, HasInfo
  <2>7. CacheInv'
    <3> SUFFICES ASSUME mtime[held] = info.mtime, "cache" \notin spoiled'
                 PROVE  buf = [k \in 1 .. len[held] |-> gen[held]]
      BY <2>1, <2>2, <2>3 DEF CacheInv
    <3>1. "load" \notin spoiled
      BY <1>2
    <3>2. Len(buf) <= len[held] /\ \A k \in 1 .. Len(buf) : buf[k] = gen[held]
      BY <2>1, <3>1 DEF LoadInv, ReadInv
    <3>3. Len(buf) >= len[held]
      BY <1>2, <2>1, <2>2, EndIsEnd DEF LoadInv
    <3>4. buf \in Seq(Poller!Gens) /\ len[held] \in Nat /\ Len(buf) \in Nat
      BY <2>2 DEF LoadInv, Poller!TypeOK, Poller!Sizes
    <3>5. Len(buf) = len[held]
      BY <3>2, <3>3, <3>4
    <3> QED BY <3>2, <3>4, <3>5
  <2> QED BY <2>5, <2>6, <2>7 DEF LoadInv
<1> QED BY <1>1, <1>2 DEF Poller!ReadEnd

LEMMA FailKeeps ==
  ASSUME Sound, LoadInv, Poller!Fail
  PROVE  LoadInv'
BY EndKeeps DEF Poller!Fail

-----------------------------------------------------------------------------
(* A write to inode i: what was recorded of it stops matching, or is        *)
(* spoiled.                                                                 *)
LEMMA WriteKeeps ==
  ASSUME Sound, LoadInv, NEW i \in Inodes, NEW n \in Poller!Sizes, NEW t \in Poller!Ticks,
         last' \in Poller!Gens, current' \in Inodes \cup {None},
         gen' = [gen EXCEPT ![i] = last'], len' = [len EXCEPT ![i] = n],
         mtime' = [mtime EXCEPT ![i] = t], spoiled' = spoiled \cup Poller!Spoils(i, t),
         peak' \in Poller!Sizes, peak <= peak', i = held => n <= peak',
         UNCHANGED <<now, maxBytes, cancelled, step, held, info, buf, answer, cache>>
  PROVE  LoadInv'
<1>1. /\ gen' \in [Inodes -> Poller!Gens] /\ len' \in [Inodes -> Poller!Sizes] /\ mtime' \in [Inodes -> Poller!Ticks]
      /\ gen'[i] = last' /\ len'[i] = n /\ mtime'[i] = t
      /\ \A j \in Inodes \ {i} : gen'[j] = gen[j] /\ len'[j] = len[j] /\ mtime'[j] = mtime[j]
  BY DEF LoadInv, Poller!TypeOK
<1>2. Poller!Spoils(i, t) \subseteq {"load", "cache"}
  BY DEF Poller!Spoils
<1>3. Poller!TypeOK'
  BY <1>1, <1>2 DEF LoadInv, Poller!TypeOK
<1>4. StepInv'
  <2>1. ASSUME step \in HasOpen
        PROVE  held \in Inodes /\ len'[held] <= peak'
    <3>1. held \in Inodes /\ len[held] <= peak /\ len[held] \in Nat /\ peak \in Nat /\ peak' \in Nat
      BY <2>1 DEF LoadInv, StepInv, Poller!TypeOK, Poller!Sizes
    <3>2. CASE i = held
      BY <1>1, <3>1, <3>2
    <3>3. CASE i # held
      BY <1>1, <3>1, <3>3
    <3> QED BY <3>1, <3>2, <3>3
  <2> QED BY <2>1 DEF LoadInv, StepInv
<1>5. ReadInv'
  <2> SUFFICES ASSUME step = "read"
               PROVE  /\ Len(buf) <= peak'
                      /\ mtime'[held] = info.mtime /\ "load" \notin spoiled' =>
                            /\ Len(buf) <= len'[held]
                            /\ \A k \in 1 .. Len(buf) : buf[k] = gen'[held]
    BY DEF ReadInv
  <2>1. held \in Inodes /\ info.ino = held
    BY DEF LoadInv, StepInv, HasOpen, HasInfo
  <2>2. Len(buf) <= peak'
    <3>1. Len(buf) <= peak /\ peak \in Nat /\ peak' \in Nat /\ Len(buf) \in Nat
      BY DEF LoadInv, ReadInv, Poller!TypeOK, Poller!Sizes
    <3> QED BY <3>1
  <2>3. CASE i = held
    <3>1. info # Poller!NoInfo
      BY <2>1 DEF Sound, Poller!NoInfo
    <3>2. mtime'[held] = info.mtime => "load" \in Poller!Spoils(i, t)
      BY <1>1, <2>1, <2>3, <3>1 DEF Poller!Spoils
    <3> QED BY <2>2, <3>2
  <2>4. CASE i # held
    <3>1. "load" \notin spoiled' => "load" \notin spoiled
      OBVIOUS
    <3>2. gen'[held] = gen[held] /\ len'[held] = len[held] /\ mtime'[held] = mtime[held]
      BY <1>1, <2>1, <2>4
    <3> QED BY <2>2, <3>1, <3>2 DEF LoadInv, ReadInv
  <2> QED BY <2>3, <2>4
<1>6. CacheInv'
  <2> SUFFICES ASSUME cache.id # Poller!NoInfo
               PROVE  /\ cache.id.ino \in Inodes
                      /\ mtime'[cache.id.ino] = cache.id.mtime /\ "cache" \notin spoiled' =>
                            cache.bytes = [k \in 1 .. len'[cache.id.ino] |-> gen'[cache.id.ino]]
    BY DEF CacheInv
  <2> DEFINE c == cache.id.ino
  <2>1. c \in Inodes
    BY DEF LoadInv, CacheInv
  <2>2. CASE i = c
    <3>1. mtime'[c] = cache.id.mtime => "cache" \in Poller!Spoils(i, t)
      BY <1>1, <2>1, <2>2 DEF Poller!Spoils
    <3> QED BY <2>1, <3>1
  <2>3. CASE i # c
    <3>1. gen'[c] = gen[c] /\ len'[c] = len[c] /\ mtime'[c] = mtime[c]
      BY <1>1, <2>1, <2>3
    <3>2. "cache" \notin spoiled' => "cache" \notin spoiled
      OBVIOUS
    <3> QED BY <2>1, <3>1, <3>2 DEF LoadInv, CacheInv
  <2> QED BY <2>2, <2>3
<1> QED BY <1>3, <1>4, <1>5, <1>6 DEF LoadInv

LEMMA WritersKeep ==
  ASSUME Sound, LoadInv,
         \/ \E i \in Inodes, n \in Poller!Sizes, t \in Poller!Ticks : Poller!Publish(i, n, t)
         \/ \E n \in Poller!Sizes : Poller!Rewrite(n)
  PROVE  LoadInv'
<1>1. ASSUME NEW i \in Inodes, NEW n \in Poller!Sizes, NEW t \in Poller!Ticks, Poller!Publish(i, n, t)
      PROVE  LoadInv'
  <2>1. last' \in Poller!Gens /\ peak \in Poller!Sizes /\ peak <= peak
    BY <1>1 DEF Poller!Publish, LoadInv, Poller!TypeOK, Poller!Gens, Poller!Sizes, Sound
  <2> QED BY <1>1, <2>1, WriteKeeps DEF Poller!Publish, Poller!call
<1>2. ASSUME NEW n \in Poller!Sizes, Poller!Rewrite(n)
      PROVE  LoadInv'
  <2>1. current \in Inodes /\ now \in Poller!Ticks
    BY <1>2 DEF Poller!Rewrite, LoadInv, Poller!TypeOK
  <2>2. last' \in Poller!Gens
    BY <1>2 DEF Poller!Rewrite, LoadInv, Poller!TypeOK, Poller!Gens, Sound
  <2>3. peak' \in Poller!Sizes /\ peak <= peak' /\ (current = held => n <= peak')
    BY <1>2 DEF Poller!Rewrite, LoadInv, Poller!TypeOK, Poller!Sizes, Sound
  <2>4. UNCHANGED <<current, now, maxBytes, cancelled, step, held, info, buf, answer, cache>>
    BY <1>2 DEF Poller!Rewrite
  <2>5. /\ gen' = [gen EXCEPT ![current] = last'] /\ len' = [len EXCEPT ![current] = n]
        /\ mtime' = [mtime EXCEPT ![current] = now]
        /\ spoiled' = spoiled \cup Poller!Spoils(current, now)
    BY <1>2 DEF Poller!Rewrite
  <2>6. current' \in Inodes \cup {None}
    BY <2>1, <2>4
  <2> QED BY <2>1, <2>2, <2>3, <2>4, <2>5, <2>6, WriteKeeps
<1> QED BY <1>1, <1>2

LEMMA OthersKeep ==
  ASSUME Sound, LoadInv, Poller!Remove \/ Poller!Tick \/ Poller!Cancel \/ UNCHANGED Poller!vars
  PROVE  LoadInv'
<1>1. UNCHANGED <<gen, len, mtime, step, held, info, buf, answer, peak, maxBytes, cache, spoiled>>
  BY DEF Poller!Remove, Poller!Tick, Poller!Cancel, Poller!vars, Poller!files, Poller!call
<1>2. current' \in Inodes \cup {None} /\ now' \in Poller!Ticks /\ last' \in Poller!Gens /\ cancelled' \in BOOLEAN
  <2>1. CASE Poller!Remove
    BY <2>1 DEF Poller!Remove, Poller!call, LoadInv, Poller!TypeOK, Poller!Gens, Sound
  <2>2. CASE Poller!Tick
    BY <2>2 DEF Poller!Tick, Poller!call, LoadInv, Poller!TypeOK, Poller!Ticks, Sound
  <2>3. CASE Poller!Cancel
    BY <2>3 DEF Poller!Cancel, Poller!files, Poller!call, LoadInv, Poller!TypeOK
  <2>4. CASE UNCHANGED Poller!vars
    BY <2>4 DEF Poller!vars, Poller!files, Poller!call, LoadInv, Poller!TypeOK
  <2> QED BY <2>1, <2>2, <2>3, <2>4
<1>3. Poller!TypeOK'
  BY <1>1, <1>2 DEF LoadInv, Poller!TypeOK
<1>4. StepInv' /\ ReadInv' /\ CacheInv'
  BY <1>1 DEF LoadInv, StepInv, ReadInv, CacheInv
<1> QED BY <1>3, <1>4 DEF LoadInv

LEMMA LoadInductive ==
  ASSUME Sound
  PROVE  Poller!Spec => []LoadInv
<1>1. Poller!Init => LoadInv
  BY LoadInvAtFirst
<1>2. LoadInv /\ [Poller!Next]_Poller!vars => LoadInv'
  BY OpenKeeps, InfoKeeps, SizeKeeps, ReadKeeps, ReadEndKeeps, FailKeeps,
     WritersKeep, OthersKeep DEF Poller!Next, Poller!Reader
<1> QED BY <1>1, <1>2, PTL DEF Poller!Spec

-----------------------------------------------------------------------------
(* Every variable keeps its type, and nothing longer than the limit is ever *)
(* cached (ReadBoundedFile).                                                *)
THEOREM LoadTypeCorrect ==
  ASSUME Sound
  PROVE  Poller!Spec => []Poller!TypeOK
<1>1. LoadInv => Poller!TypeOK
  BY DEF LoadInv
<1> QED BY <1>1, LoadInductive, PTL

(* FileIdentity.Matches: a poll that reports no change is right, but for    *)
(* the inode that took other content at the recorded time.                  *)
THEOREM FreshIsProven ==
  ASSUME Sound
  PROVE  Poller!Spec => []FreshIsCurrent
<1>1. LoadInv => FreshIsCurrent
  BY DEF LoadInv, CacheInv, FreshIsCurrent, Poller!FreshIsCurrent, Poller!Matches, Poller!Stat
<1> QED BY <1>1, LoadInductive, PTL

(* ReadBoundedFile: the limit never cuts a file short, and refuses only     *)
(* what exceeded it.                                                        *)
THEOREM LimitIsProven ==
  ASSUME Sound
  PROVE  Poller!Spec => LimitIsExact
<1> DEFINE Returns ==
      answer' # answer \/ (step = "read" /\ step' = "poll") =>
         /\ answer' = "loaded" => Len(buf) >= len[held]
         /\ answer' = "tooLarge" => peak > maxBytes
<1>1. LoadInv /\ [Poller!Next]_Poller!vars => [Returns]_Poller!vars
  <2> SUFFICES ASSUME LoadInv, Poller!Next PROVE Returns
    OBVIOUS
  <2>1. CASE Poller!Size
    <3>1. answer' # "loaded" \/ answer' = answer
      BY <2>1 DEF Poller!Size, Poller!Return
    <3>2. step = "size" /\ (answer' = "tooLarge" => answer' = answer \/ len[held] > maxBytes)
      BY <2>1 DEF Poller!Size, Poller!Return
    <3>3. held \in Inodes /\ len[held] <= peak
      BY <3>2 DEF LoadInv, StepInv, HasOpen
    <3>4. len[held] \in Nat /\ peak \in Nat /\ maxBytes \in Nat
      BY <3>3 DEF LoadInv, Poller!TypeOK, Poller!Sizes, Sound
    <3> QED BY <3>1, <3>2, <3>3, <3>4
  <2>2. CASE Poller!ReadEnd
    <3>1. step = "read" /\ Poller!AtEnd
      BY <2>2 DEF Poller!ReadEnd
    <3>2. held \in Inodes /\ Len(buf) <= peak
      BY <3>1 DEF LoadInv, StepInv, ReadInv, HasOpen
    <3>3. Len(buf) \in Nat /\ peak \in Nat /\ maxBytes \in Nat
      BY DEF LoadInv, Poller!TypeOK, Poller!Sizes, Sound
    <3>4. CASE Len(buf) > maxBytes /\ answer' = "tooLarge"
      BY <3>2, <3>3, <3>4
    <3>5. CASE Len(buf) <= maxBytes /\ answer' = "loaded"
      BY <3>1, <3>2, <3>5, EndIsEnd DEF LoadInv
    <3> QED BY <2>2, <3>4, <3>5 DEF Poller!ReadEnd, Poller!Return
  <2>3. CASE Poller!Poll \/ Poller!Open \/ Poller!Info \/ Poller!Read
    <3>1. step # "read" \/ step' = step
      BY <2>3 DEF Poller!Poll, Poller!Open, Poller!Info, Poller!Read
    <3>2. answer' = answer \/ answer' \in {"none", "cancelled", "failed"}
      BY <2>3 DEF Poller!Poll, Poller!Open, Poller!Info, Poller!Read, Poller!Return
    <3> QED BY <3>1, <3>2
  <2>4. CASE Poller!Fail
    BY <2>4 DEF Poller!Fail, Poller!Return
  <2>5. CASE ~Poller!Reader /\ ~Poller!Fail
    <3>1. step' = step /\ answer' = answer
      BY <2>5 DEF Poller!Next, Poller!Publish, Poller!Rewrite, Poller!Remove, Poller!Tick, Poller!Cancel, Poller!call
    <3> QED BY <3>1
  <2> QED BY <2>1, <2>2, <2>3, <2>4, <2>5 DEF Poller!Reader
<1> QED BY <1>1, LoadInductive, PTL DEF Poller!Spec, LimitIsExact, Poller!LimitIsExact

=============================================================================
