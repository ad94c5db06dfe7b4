-------------------------- MODULE StaleSweepProofs --------------------------
(***************************************************************************)
(* Proofs about StaleSweep, for any number of sweeps, directories, temps   *)
(* and files, and any rearrangement of the tree.                           *)
(***************************************************************************)
EXTENDS StaleSweep, FiniteSetTheorems, TLAPS

Reaping == {"pin", "look", "remove"}
Slots == AllDirs \X Temps

(* TypeOK without what is counted and what is found where.                  *)
Walks == [todo: SUBSET Places, place: Places \cup {None}, handle: AllDirs \cup {None},
          seen: SUBSET (Temps \cup Subdirs), batch: SUBSET (Places \X (Temps \cup Subdirs))]
Reaps == [place: Places \cup {None}, name: Temps \cup {None}, parent: AllDirs \cup {None}]

CtlOK ==
    /\ pc \in [Sweeps -> PCs] /\ kind \in [Sweeps -> Kinds \cup {None}]
    /\ walk \in [Sweeps -> Walks] /\ reap \in [Sweeps -> Reaps]
    /\ looked \in [Sweeps -> Slots \cup {None}]
    /\ outcome \in [Sweeps -> Outcomes] /\ cancelled \in [Sweeps -> BOOLEAN]
    /\ steady \in [Sweeps -> SUBSET (Places \X Temps)]

FsOK ==
    /\ at \in Trees /\ entry \in Contents
    /\ stale \subseteq Files /\ risked \subseteq Files
    /\ reaped \in [Sweeps -> SUBSET Files]

ResultOK == result \in [Sweeps -> [Counts -> Nat]]

(* A sweep knows what it walks, and what it reaps.                          *)
PhaseInv ==
    \A s \in Sweeps :
        /\ pc[s] # "idle" => kind[s] \in Forms
        /\ walk[s].handle # None => walk[s].place \in Places
        /\ pc[s] \in Reaping => reap[s].place \in Places /\ reap[s].name \in Temps
        /\ pc[s] \in {"look", "remove"} /\ kind[s].rooted => reap[s].parent \in AllDirs

(* What was unlinked is nowhere any more.                                   *)
GoneInv == \A s \in Sweeps : \A x \in Slots : entry[x] \notin reaped[s]

(* What lies under a name that was inspected was fit to be removed, or came *)
(* there since; and until the tree is moved under a sweep by path, that is  *)
(* the name the sweep will unlink.                                          *)
LookedInv ==
    \A s \in Sweeps :
        /\ pc[s] # "remove" => looked[s] = None
        /\ pc[s] = "remove" =>
              /\ looked[s] \in Slots
              /\ entry[looked[s]] \in {None} \cup (stale \ Specials) \cup risked
        /\ pc[s] = "remove" /\ s \notin moved => looked[s] = <<Parent(s), reap[s].name>>

IInv ==
    /\ CtlOK /\ FsOK /\ ResultOK /\ PhaseInv /\ GoneInv /\ LookedInv
    /\ SparesTheLiving /\ CountsWhatItRemoved

-----------------------------------------------------------------------------
(* A path leads to a directory, or nowhere.                                 *)
LEMMA ResolveIsDir ==
  ASSUME at \in Trees, NEW p \in Places
  PROVE  Resolve(p) \in AllDirs \cup {None}
BY DEF Resolve, Trees, Places, AllDirs

LEMMA InitEstablishes == Init => IInv
<1> SUFFICES ASSUME Init PROVE IInv
  OBVIOUS
<1> USE DEF Init
<1>1. /\ NoWalk \in Walks /\ NoReap \in Reaps /\ NoWalk.handle = None
  BY DEF NoWalk, NoReap, Walks, Reaps
<1>2. CtlOK
  BY <1>1 DEF CtlOK, PCs, Outcomes
<1>3. FsOK
  BY DEF FsOK
<1>4. ResultOK
  BY DEF ResultOK
<1>5. PhaseInv
  BY <1>1 DEF PhaseInv, Reaping
<1>6. GoneInv /\ LookedInv
  BY DEF GoneInv, LookedInv
<1>7. SparesTheLiving
  BY DEF SparesTheLiving
<1>8. CountsWhatItRemoved
  BY FS_EmptySet DEF CountsWhatItRemoved, Counts
<1> QED BY <1>2, <1>3, <1>4, <1>5, <1>6, <1>7, <1>8 DEF IInv

-----------------------------------------------------------------------------
(* The part of the invariant about one sweep's own place.                   *)
OwnOK(s) ==
    /\ pc[s] # "idle" => kind[s] \in Forms
    /\ walk[s].handle # None => walk[s].place \in Places
    /\ pc[s] \in Reaping => reap[s].place \in Places /\ reap[s].name \in Temps
    /\ pc[s] \in {"look", "remove"} /\ kind[s].rooted => reap[s].parent \in AllDirs
    /\ pc[s] # "remove" => looked[s] = None
    /\ pc[s] = "remove" =>
          /\ looked[s] \in Slots
          /\ entry[looked[s]] \in {None} \cup (stale \ Specials) \cup risked
    /\ pc[s] = "remove" /\ s \notin moved => looked[s] = <<Parent(s), reap[s].name>>

LEMMA OwnIsAll == PhaseInv /\ LookedInv <=> \A s \in Sweeps : OwnOK(s)
BY DEF PhaseInv, LookedInv, OwnOK

(* A step of one sweep that unlinks nothing and moves nothing.              *)
LEMMA QuietStep ==
  ASSUME IInv, NEW s \in Sweeps,
         CtlOK', ResultOK',
         \A v \in Sweeps \ {s} :
            /\ pc'[v] = pc[v] /\ kind'[v] = kind[v] /\ walk'[v] = walk[v]
            /\ reap'[v] = reap[v] /\ looked'[v] = looked[v],
         \A v \in Sweeps \ {s} : result'[v] = result[v],
         result'[s]["removed"] = result[s]["removed"],
         UNCHANGED <<at, entry, stale, risked, reaped, moved>>,
         OwnOK(s)'
  PROVE  IInv'
<1>1. FsOK'
  BY DEF IInv, FsOK
<1>2. ASSUME NEW v \in Sweeps PROVE OwnOK(v)'
  <2>1. CASE v = s
    BY <2>1
  <2>2. CASE v # s
    <3>1. Parent(v)' = Parent(v)
      BY <2>2 DEF Parent, Resolve
    <3>2. OwnOK(v)
      BY OwnIsAll DEF IInv
    <3> QED BY <2>2, <3>1, <3>2 DEF OwnOK
  <2> QED BY <2>1, <2>2
<1>3. PhaseInv' /\ LookedInv'
  BY <1>2 DEF PhaseInv, LookedInv, OwnOK
<1>4. GoneInv' /\ SparesTheLiving'
  BY DEF IInv, GoneInv, SparesTheLiving
<1>5. CountsWhatItRemoved'
  BY DEF IInv, CountsWhatItRemoved
<1> QED BY <1>1, <1>3, <1>4, <1>5 DEF IInv

(* Counting a failure is not counting a removal.                            *)
LEMMA CountIsCount ==
  ASSUME ResultOK, NEW s \in Sweeps, NEW c \in Counts, Count(s, c)
  PROVE  /\ ResultOK'
         /\ \A v \in Sweeps \ {s} : result'[v] = result[v]
         /\ \A k \in Counts \ {c} : result'[s][k] = result[s][k]
         /\ result'[s][c] = result[s][c] + 1
BY DEF ResultOK, Count

-----------------------------------------------------------------------------
(* The walk goes on or ends, with at most a failure counted.                *)
LEMMA WalkStep ==
  ASSUME IInv, NEW s \in Sweeps, pc[s] = "walk",
         \/ \E w \in Walks : Walk(s, w) /\ (w.handle # None => w.place \in Places)
         \/ \E o \in Outcomes : Return(s, o),
         UNCHANGED result \/ \E c \in {"failed", "unreadable"} : Count(s, c),
         UNCHANGED <<fs, reap, looked, call, risked>>
  PROVE  IInv'
<1>1. /\ UNCHANGED <<at, entry, stale, risked, reaped, moved>>
      /\ UNCHANGED <<kind, reap, looked, cancelled, steady>>
  BY DEF fs, call
<1>2. PICK w \in Walks, o \in Outcomes, p \in {"walk", "idle"} :
        /\ w.handle # None => w.place \in Places
        /\ walk' = [walk EXCEPT ![s] = w]
        /\ outcome' = [outcome EXCEPT ![s] = o]
        /\ pc' = [pc EXCEPT ![s] = p]
  <2>1. ASSUME NEW w \in Walks, Walk(s, w), w.handle # None => w.place \in Places
        PROVE  /\ walk' = [walk EXCEPT ![s] = w]
               /\ outcome' = [outcome EXCEPT ![s] = outcome[s]] /\ outcome[s] \in Outcomes
               /\ pc' = [pc EXCEPT ![s] = "walk"]
    BY <2>1 DEF Walk, IInv, CtlOK
  <2>2. ASSUME NEW o \in Outcomes, Return(s, o)
        PROVE  /\ walk' = [walk EXCEPT ![s] = NoWalk] /\ NoWalk \in Walks /\ NoWalk.handle = None
               /\ outcome' = [outcome EXCEPT ![s] = o]
               /\ pc' = [pc EXCEPT ![s] = "idle"]
    BY <2>2 DEF Return, GoTo, NoWalk, Walks
  <2> QED BY <2>1, <2>2
<1>3. /\ CtlOK' /\ pc'[s] = p /\ walk'[s] = w
      /\ \A v \in Sweeps \ {s} : pc'[v] = pc[v] /\ walk'[v] = walk[v]
  BY <1>1, <1>2 DEF IInv, CtlOK, PCs
<1>4. /\ ResultOK' /\ result'[s]["removed"] = result[s]["removed"]
      /\ \A v \in Sweeps \ {s} : result'[v] = result[v]
  <2>1. CASE UNCHANGED result
    BY <2>1 DEF IInv, ResultOK
  <2>2. ASSUME NEW c \in {"failed", "unreadable"}, Count(s, c)
        PROVE  /\ ResultOK' /\ result'[s]["removed"] = result[s]["removed"]
               /\ \A v \in Sweeps \ {s} : result'[v] = result[v]
    BY <2>2, CountIsCount DEF IInv, Counts
  <2> QED BY <2>1, <2>2
<1>5. OwnOK(s)'
  <2>1. OwnOK(s)
    BY OwnIsAll DEF IInv
  <2> QED BY <1>1, <1>2, <1>3, <2>1 DEF OwnOK, Reaping
<1> QED BY <1>1, <1>3, <1>4, <1>5, QuietStep

LEMMA DirFailureIsWalk ==
  ASSUME NEW s \in Sweeps, NEW p, NEW w, DirFailure(s, p, w)
  PROVE  /\ Walk(s, w) \/ \E o \in Outcomes : Return(s, o)
         /\ UNCHANGED result \/ Count(s, "unreadable")
BY DEF DirFailure, Outcomes

LEMMA OpenDirPreserves ==
  ASSUME IInv, NEW s \in Sweeps, OpenDir(s)
  PROVE  IInv'
<1>1. walk[s] \in Walks /\ walk[s].handle = None /\ pc[s] = "walk" /\ at \in Trees
  BY DEF OpenDir, IInv, CtlOK, FsOK
<1>2. PICK p \in walk[s].todo :
        LET rest == [walk[s] EXCEPT !.todo = @ \ {p}] IN
        \/ /\ Resolve(p) # None
           /\ Walk(s, [rest EXCEPT !.place = p, !.handle = Resolve(p), !.seen = {}])
           /\ UNCHANGED result
        \/ DirFailure(s, p, rest)
  BY DEF OpenDir
<1>3. p \in Places /\ Resolve(p) \in AllDirs \cup {None}
  BY <1>1, <1>2, ResolveIsDir DEF Walks
<1> DEFINE rest == [walk[s] EXCEPT !.todo = @ \ {p}]
           into == [rest EXCEPT !.place = p, !.handle = Resolve(p), !.seen = {}]
<1>4. rest \in Walks /\ rest.handle = None
  BY <1>1 DEF Walks
<1>5. into \in Walks /\ into.place \in Places
  BY <1>1, <1>3 DEF Walks
<1>6. UNCHANGED <<fs, reap, looked, call, risked>>
  BY DEF OpenDir
<1>7. CASE Walk(s, into) /\ UNCHANGED result
  BY <1>1, <1>5, <1>6, <1>7, WalkStep
<1>8. CASE DirFailure(s, p, rest)
  <2> HIDE DEF rest
  <2> QED BY <1>1, <1>4, <1>6, <1>8, WalkStep, DirFailureIsWalk
<1> QED BY <1>2, <1>7, <1>8

LEMMA ReadBatchPreserves ==
  ASSUME IInv, NEW s \in Sweeps, ReadBatch(s)
  PROVE  IInv'
<1>1. walk[s] \in Walks /\ walk[s].handle # None /\ pc[s] = "walk" /\ walk[s].place \in Places
  BY DEF ReadBatch, IInv, CtlOK, PhaseInv
<1>2. UNCHANGED <<fs, reap, looked, call, risked>>
  BY DEF ReadBatch
<1>3. Closed(s) \in Walks /\ Closed(s).handle = None
  BY <1>1 DEF Closed, Walks
<1>4. CASE Return(s, "cancelled") /\ UNCHANGED result
  BY <1>1, <1>2, <1>4, WalkStep DEF Outcomes
<1>5. ASSUME NEW some \in SUBSET Unread(s) \ {{}}, UNCHANGED result,
             Walk(s, [walk[s] EXCEPT !.seen = @ \cup some, !.batch = @ \cup Dirents(s, some)])
      PROVE  IInv'
  <2> DEFINE on == [walk[s] EXCEPT !.seen = @ \cup some, !.batch = @ \cup Dirents(s, some)]
  <2>1. some \subseteq Temps \cup Subdirs
    BY DEF Unread
  <2>2. Dirents(s, some) \subseteq Places \X (Temps \cup Subdirs)
    BY <1>1, <2>1 DEF Dirents
  <2>3. on \in Walks /\ on.place \in Places
    BY <1>1, <2>1, <2>2 DEF Walks
  <2> QED BY <1>1, <1>2, <1>5, <2>3, WalkStep
<1>6. CASE Walk(s, Closed(s)) /\ UNCHANGED result
  BY <1>1, <1>2, <1>3, <1>6, WalkStep
<1>7. CASE DirFailure(s, walk[s].place, Closed(s))
  BY <1>1, <1>2, <1>3, <1>7, WalkStep, DirFailureIsWalk
<1> QED BY <1>4, <1>5, <1>6, <1>7 DEF ReadBatch

LEMMA VisitPreserves ==
  ASSUME IInv, NEW s \in Sweeps, Visit(s)
  PROVE  IInv'
<1>1. walk[s] \in Walks /\ pc[s] = "walk" /\ (walk[s].handle # None => walk[s].place \in Places)
  BY DEF Visit, IInv, CtlOK, PhaseInv
<1>2. UNCHANGED <<fs, looked, result, call, risked>>
  BY DEF Visit
<1>3. PICK e \in walk[s].batch :
        LET rest == [walk[s] EXCEPT !.batch = @ \ {e}] IN
        \/ Stops(s) /\ Return(s, "cancelled") /\ UNCHANGED reap
        \/ /\ ~Stops(s) /\ e[2] \in Subdirs
           /\ Walk(s, IF kind[s].recursive THEN [rest EXCEPT !.todo = @ \cup {e[2]}] ELSE rest)
           /\ UNCHANGED reap
        \/ /\ ~Stops(s) /\ e[2] \in Temps
           /\ reap' = [reap EXCEPT ![s] = [place |-> e[1], name |-> e[2], parent |-> None]]
           /\ GoTo(s, IF kind[s].rooted THEN "pin" ELSE "look")
           /\ walk' = [walk EXCEPT ![s] = rest]
           /\ UNCHANGED outcome
  BY DEF Visit
<1> DEFINE rest == [walk[s] EXCEPT !.batch = @ \ {e}]
           down == [rest EXCEPT !.todo = @ \cup {e[2]}]
<1>4. rest \in Walks /\ rest.handle = walk[s].handle /\ rest.place = walk[s].place
  BY <1>1 DEF Walks
<1>5. e[2] \in Subdirs => down \in Walks /\ down.handle = walk[s].handle /\ down.place = walk[s].place
  BY <1>1 DEF Walks, Places
<1>6. CASE Return(s, "cancelled") /\ UNCHANGED reap
  BY <1>1, <1>2, <1>6, WalkStep DEF Outcomes
<1>7. CASE /\ e[2] \in Subdirs /\ Walk(s, IF kind[s].recursive THEN down ELSE rest)
           /\ UNCHANGED reap
  <2> HIDE DEF down, rest
  <2> QED BY <1>1, <1>2, <1>4, <1>5, <1>7, WalkStep
<1>8. CASE /\ e[2] \in Temps
           /\ reap' = [reap EXCEPT ![s] = [place |-> e[1], name |-> e[2], parent |-> None]]
           /\ GoTo(s, IF kind[s].rooted THEN "pin" ELSE "look")
           /\ walk' = [walk EXCEPT ![s] = rest]
           /\ UNCHANGED outcome
  <2> HIDE DEF down, rest
  <2>1. UNCHANGED <<at, entry, stale, risked, reaped, moved, kind, looked, cancelled, steady, result>>
    BY <1>2 DEF fs, call
  <2>2. e[1] \in Places
    BY <1>1, <1>3 DEF Walks
  <2>3. /\ reap' \in [Sweeps -> Reaps] /\ reap'[s].place \in Places /\ reap'[s].name \in Temps
        /\ \A v \in Sweeps \ {s} : reap'[v] = reap[v]
    BY <1>8, <2>2 DEF IInv, CtlOK, Reaps
  <2>4. /\ walk' \in [Sweeps -> Walks] /\ walk'[s] = rest
        /\ \A v \in Sweeps \ {s} : walk'[v] = walk[v]
    BY <1>4, <1>8 DEF IInv, CtlOK
  <2>5. /\ pc' \in [Sweeps -> PCs]
        /\ pc'[s] = IF kind[s].rooted THEN "pin" ELSE "look"
        /\ \A v \in Sweeps \ {s} : pc'[v] = pc[v]
    BY <1>8 DEF IInv, CtlOK, GoTo, PCs
  <2>6. CtlOK'
    BY <1>8, <2>1, <2>3, <2>4, <2>5 DEF IInv, CtlOK
  <2>7. OwnOK(s)'
    <3>1. OwnOK(s)
      BY OwnIsAll DEF IInv
    <3> QED BY <1>1, <1>4, <2>1, <2>3, <2>4, <2>5, <3>1 DEF OwnOK, Reaping
  <2> QED BY <2>1, <2>3, <2>4, <2>5, <2>6, <2>7, QuietStep DEF IInv, ResultOK
<1> QED BY <1>3, <1>6, <1>7, <1>8

LEMMA FinishPreserves ==
  ASSUME IInv, NEW s \in Sweeps, Finish(s)
  PROVE  IInv'
BY WalkStep DEF Finish, Outcomes

(* A call begins, or its context is done.                                   *)
LEMMA CancelPreserves ==
  ASSUME IInv, NEW s \in Sweeps, Cancel(s)
  PROVE  IInv'
<1>1. /\ UNCHANGED <<at, entry, stale, risked, reaped, moved, kind, looked, steady, result>>
      /\ UNCHANGED <<pc, walk, reap, outcome>>
  BY DEF Cancel, fs
<1>2. CtlOK'
  BY <1>1 DEF Cancel, IInv, CtlOK
<1>3. OwnOK(s)'
  <2>1. OwnOK(s)
    BY OwnIsAll DEF IInv
  <2> QED BY <1>1, <2>1 DEF OwnOK, Parent, Resolve
<1> QED BY <1>1, <1>2, <1>3, QuietStep DEF IInv, ResultOK

LEMMA StartPreserves ==
  ASSUME IInv, KindsAssumption, NEW s \in Sweeps, NEW k \in Kinds, NEW done \in BOOLEAN,
         Start(s, k, done)
  PROVE  IInv'
<1>1. /\ pc[s] = "idle" /\ kind' = [kind EXCEPT ![s] = k] /\ k \in Forms
      /\ cancelled' = [cancelled EXCEPT ![s] = done]
      /\ result' = [result EXCEPT ![s] = [c \in Counts |-> 0]]
      /\ reaped' = [reaped EXCEPT ![s] = {}]
      /\ steady' = [steady EXCEPT ![s] = Orphans(k)]
      /\ moved' = moved \ {s}
      /\ UNCHANGED <<at, entry, stale, reap, looked, risked>>
  BY DEF Start, fs, KindsAssumption
<1>2. PICK p \in {"idle", "walk"}, o \in Outcomes, todo \in {walk[s].todo, {}, {Top}} :
        /\ pc' = [pc EXCEPT ![s] = p]
        /\ outcome' = [outcome EXCEPT ![s] = o]
        /\ walk' = [walk EXCEPT ![s].todo = todo]
  <2>1. CASE done
    <3>1. UNCHANGED <<pc, walk>> /\ outcome' = [outcome EXCEPT ![s] = "cancelled"]
      BY <2>1 DEF Start
    <3>2. pc' = [pc EXCEPT ![s] = "idle"]
      BY <1>1, <3>1 DEF IInv, CtlOK
    <3>3. walk' = [walk EXCEPT ![s].todo = walk[s].todo]
      BY <3>1 DEF IInv, CtlOK, Walks
    <3> QED BY <3>1, <3>2, <3>3 DEF Outcomes
  <2>2. CASE ~done
    BY <2>2 DEF Start, GoTo, Outcomes
  <2> QED BY <2>1, <2>2
<1>3. /\ walk' \in [Sweeps -> Walks] /\ walk'[s].handle = walk[s].handle
      /\ walk'[s].place = walk[s].place
      /\ \A v \in Sweeps \ {s} : walk'[v] = walk[v]
  <2>1. todo \in SUBSET Places
    BY <1>2 DEF IInv, CtlOK, Walks, Places
  <2>2. walk[s] \in Walks /\ walk \in [Sweeps -> Walks]
    BY DEF IInv, CtlOK
  <2> DEFINE w == [walk[s] EXCEPT !.todo = todo]
  <2>3. w \in Walks /\ w.handle = walk[s].handle /\ w.place = walk[s].place
    BY <2>1, <2>2 DEF Walks
  <2>4. walk' = [walk EXCEPT ![s] = w]
    BY <1>2
  <2> QED BY <2>2, <2>3, <2>4
<1>4. /\ pc' \in [Sweeps -> PCs] /\ pc'[s] = p /\ outcome' \in [Sweeps -> Outcomes]
      /\ kind' \in [Sweeps -> Kinds \cup {None}] /\ kind'[s] = k
      /\ \A v \in Sweeps \ {s} : pc'[v] = pc[v] /\ kind'[v] = kind[v]
  BY <1>1, <1>2 DEF IInv, CtlOK, PCs
<1>5. cancelled' \in [Sweeps -> BOOLEAN]
  BY <1>1 DEF IInv, CtlOK
<1>6. steady' \in [Sweeps -> SUBSET (Places \X Temps)]
  BY <1>1 DEF IInv, CtlOK, Orphans
<1>7. CtlOK'
  BY <1>1, <1>3, <1>4, <1>5, <1>6 DEF IInv, CtlOK
<1>8. /\ reaped' \in [Sweeps -> SUBSET Files] /\ reaped'[s] = {}
      /\ \A v \in Sweeps \ {s} : reaped'[v] = reaped[v]
  BY <1>1 DEF IInv, FsOK
<1>9. FsOK'
  BY <1>1, <1>8 DEF IInv, FsOK
<1>10. /\ ResultOK' /\ result'[s]["removed"] = 0
       /\ \A v \in Sweeps \ {s} : result'[v] = result[v]
  BY <1>1 DEF IInv, ResultOK, Counts
<1>11. PhaseInv' /\ LookedInv'
  <2> SUFFICES ASSUME NEW v \in Sweeps PROVE OwnOK(v)'
    BY DEF PhaseInv, LookedInv, OwnOK
  <2>1. OwnOK(v)
    BY OwnIsAll DEF IInv
  <2>2. CASE v = s
    BY <1>1, <1>3, <1>4, <2>1, <2>2 DEF OwnOK, Reaping
  <2>3. CASE v # s
    <3>1. Parent(v)' = Parent(v)
      BY <1>1, <1>4, <2>3 DEF Parent, Resolve
    <3> QED BY <1>1, <1>3, <1>4, <2>1, <2>3, <3>1 DEF OwnOK
  <2> QED BY <2>2, <2>3
<1>12. GoneInv'
  BY <1>1, <1>8 DEF IInv, GoneInv
<1>13. SparesTheLiving'
  BY <1>1, <1>8 DEF IInv, SparesTheLiving
<1>14. CountsWhatItRemoved'
  BY <1>8, <1>10, FS_EmptySet DEF IInv, CountsWhatItRemoved
<1> QED BY <1>7, <1>9, <1>10, <1>11, <1>12, <1>13, <1>14 DEF IInv

-----------------------------------------------------------------------------
(* One candidate *)

LEMMA OnToNextMoves ==
  ASSUME IInv, NEW s \in Sweeps, OnToNext(s), UNCHANGED <<walk, outcome, kind, cancelled, steady>>
  PROVE  /\ CtlOK' /\ pc'[s] = "walk" /\ looked'[s] = None
         /\ \A v \in Sweeps \ {s} : pc'[v] = pc[v] /\ reap'[v] = reap[v] /\ looked'[v] = looked[v]
<1>1. NoReap \in Reaps
  BY DEF NoReap, Reaps
<1> QED BY <1>1 DEF IInv, CtlOK, OnToNext, GoTo, PCs

LEMMA NextEntryPreserves ==
  ASSUME IInv, NEW s \in Sweeps, pc[s] \in Reaping, Done(s) \/ Failed(s),
         UNCHANGED <<fs, walk, outcome, call, risked>>
  PROVE  IInv'
<1>1. UNCHANGED <<at, entry, stale, risked, reaped, moved, kind, cancelled, steady, walk, outcome>>
  BY DEF fs, call
<1>2. OnToNext(s)
  BY DEF Done, Failed
<1>3. /\ ResultOK' /\ result'[s]["removed"] = result[s]["removed"]
      /\ \A v \in Sweeps \ {s} : result'[v] = result[v]
  <2>1. CASE UNCHANGED result
    BY <2>1 DEF IInv, ResultOK
  <2>2. CASE Count(s, "failed")
    BY <2>2, CountIsCount DEF IInv, Counts
  <2> QED BY <2>1, <2>2 DEF Done, Failed
<1>4. OwnOK(s)'
  <2>1. OwnOK(s)
    BY OwnIsAll DEF IInv
  <2> QED BY <1>1, <1>2, <2>1, OnToNextMoves DEF OwnOK, Reaping
<1> QED BY <1>1, <1>2, <1>3, <1>4, OnToNextMoves, QuietStep

LEMMA PinPreserves ==
  ASSUME IInv, NEW s \in Sweeps, Pin(s)
  PROVE  IInv'
<1>1. pc[s] = "pin" /\ UNCHANGED <<fs, walk, outcome, call, risked>>
  BY DEF Pin
<1>2. CASE Done(s) \/ Failed(s)
  BY <1>1, <1>2, NextEntryPreserves DEF Reaping
<1>3. ASSUME NEW d \in AllDirs, reap' = [reap EXCEPT ![s].parent = d], GoTo(s, "look"),
             UNCHANGED <<result, looked>>
      PROVE  IInv'
  <2>1. /\ UNCHANGED <<at, entry, stale, risked, reaped, moved, kind, cancelled, steady, walk, outcome>>
        /\ UNCHANGED <<result, looked>>
    BY <1>1, <1>3 DEF fs, call
  <2>2. /\ reap' \in [Sweeps -> Reaps] /\ reap'[s].parent = d
        /\ reap'[s].place = reap[s].place /\ reap'[s].name = reap[s].name
        /\ \A v \in Sweeps \ {s} : reap'[v] = reap[v]
    BY <1>3 DEF IInv, CtlOK, Reaps
  <2>3. /\ pc' \in [Sweeps -> PCs] /\ pc'[s] = "look"
        /\ \A v \in Sweeps \ {s} : pc'[v] = pc[v]
    BY <1>3 DEF IInv, CtlOK, GoTo, PCs
  <2>4. CtlOK'
    BY <2>1, <2>2, <2>3 DEF IInv, CtlOK
  <2>5. OwnOK(s)'
    <3>1. OwnOK(s)
      BY OwnIsAll DEF IInv
    <3> QED BY <1>1, <2>1, <2>2, <2>3, <3>1 DEF OwnOK, Reaping
  <2> QED BY <2>1, <2>2, <2>3, <2>4, <2>5, QuietStep DEF IInv, ResultOK
<1> QED BY <1>2, <1>3 DEF Pin

(* Where a candidate is found, its parent is a directory.                   *)
LEMMA CandidateHasParent ==
  ASSUME IInv, NEW s \in Sweeps, pc[s] \in {"look", "remove"}, Candidate(s) # None
  PROVE  /\ <<Parent(s), reap[s].name>> \in Slots
         /\ Candidate(s) = entry[<<Parent(s), reap[s].name>>]
<1>1. Parent(s) # None /\ Candidate(s) = entry[<<Parent(s), reap[s].name>>]
  BY DEF Candidate, InDir
<1>2. reap[s].name \in Temps /\ reap[s].place \in Places
  BY DEF IInv, PhaseInv, Reaping
<1>3. Parent(s) \in AllDirs
  <2>1. CASE kind[s].rooted
    BY <2>1 DEF Parent, IInv, PhaseInv
  <2>2. CASE ~kind[s].rooted
    BY <1>1, <1>2, <2>2, ResolveIsDir DEF Parent, IInv, FsOK
  <2> QED BY <2>1, <2>2
<1> QED BY <1>1, <1>2, <1>3 DEF Slots

LEMMA LookPreserves ==
  ASSUME IInv, NoneAssumption, NEW s \in Sweeps, Look(s)
  PROVE  IInv'
<1>1. pc[s] = "look" /\ UNCHANGED <<fs, walk, outcome, call, risked>>
  BY DEF Look
<1>2. CASE Done(s) \/ Failed(s)
  BY <1>1, <1>2, NextEntryPreserves DEF Reaping
<1>3. CASE /\ Candidate(s) \in stale \ Specials
           /\ looked' = [looked EXCEPT ![s] = <<Parent(s), reap[s].name>>]
           /\ GoTo(s, "remove")
           /\ UNCHANGED <<result, reap>>
  <2> DEFINE x == <<Parent(s), reap[s].name>>
  <2>1. /\ UNCHANGED <<at, entry, stale, risked, reaped, moved, kind, cancelled, steady, walk, outcome>>
        /\ UNCHANGED <<result, reap>>
    BY <1>1, <1>3 DEF fs, call
  <2>2. Candidate(s) # None
    BY <1>3 DEF NoneAssumption, IInv, FsOK
  <2>3. x \in Slots /\ entry[x] \in stale \ Specials
    BY <1>1, <1>3, <2>2, CandidateHasParent
  <2>4. Parent(s)' = Parent(s)
    BY <2>1 DEF Parent, Resolve
  <2> HIDE DEF x
  <2>5. /\ looked' \in [Sweeps -> Slots \cup {None}] /\ looked'[s] = x
        /\ \A v \in Sweeps \ {s} : looked'[v] = looked[v]
    BY <1>3, <2>3 DEF IInv, CtlOK, x
  <2>6. /\ pc' \in [Sweeps -> PCs] /\ pc'[s] = "remove"
        /\ \A v \in Sweeps \ {s} : pc'[v] = pc[v]
    BY <1>3 DEF IInv, CtlOK, GoTo, PCs
  <2>7. CtlOK'
    BY <2>1, <2>5, <2>6 DEF IInv, CtlOK
  <2>8. OwnOK(s)'
    <3>1. OwnOK(s)
      BY OwnIsAll DEF IInv
    <3>2. looked'[s] = <<Parent(s), reap[s].name>>'
      BY <2>1, <2>4, <2>5 DEF x
    <3> QED BY <1>1, <2>1, <2>3, <2>5, <2>6, <3>1, <3>2 DEF OwnOK, Reaping
  <2> QED BY <2>1, <2>5, <2>6, <2>7, <2>8, QuietStep DEF IInv, ResultOK
<1> QED BY <1>2, <1>3 DEF Look

(* A file that is unlinked is nowhere else.                                 *)
LEMMA UnlinkKeepsContents ==
  ASSUME NoneAssumption, entry \in Contents, NEW x \in Slots, entry' = [entry EXCEPT ![x] = None]
  PROVE  /\ entry' \in Contents
         /\ entry'[x] = None
         /\ \A y \in Slots \ {x} : entry'[y] = entry[y]
         /\ \A y \in Slots \ {x} : entry[x] \in Files => entry[y] # entry[x]
<1>1. /\ entry \in [Slots -> Files \cup {None}] /\ None \notin Files
      /\ \A y, z \in Slots : entry[y] = entry[z] /\ entry[y] \in Files => y = z
  BY DEF Contents, Slots, NoneAssumption
<1>2. /\ entry' \in [Slots -> Files \cup {None}] /\ entry'[x] = None
      /\ \A y \in Slots \ {x} : entry'[y] = entry[y]
  BY <1>1
<1>3. \A y, z \in Slots : entry'[y] = entry'[z] /\ entry'[y] \in Files => y = z
  BY <1>1, <1>2
<1>4. entry' \in Contents
  BY <1>2, <1>3 DEF Contents, Slots
<1>5. \A y \in Slots \ {x} : entry[x] \in Files => entry[y] # entry[x]
  BY <1>1
<1> QED BY <1>2, <1>4, <1>5

LEMMA RemovePreserves ==
  ASSUME IInv, NoneAssumption, FilesAssumption, NEW s \in Sweeps, Remove(s)
  PROVE  IInv'
<1>1. /\ pc[s] = "remove"
      /\ UNCHANGED <<at, stale, walk, outcome, kind, cancelled, steady, moved, risked>>
  BY DEF Remove
<1>2. CASE (Done(s) \/ Failed(s)) /\ UNCHANGED <<entry, reaped>>
  BY <1>1, <1>2, NextEntryPreserves DEF Reaping, fs, call
<1>3. CASE /\ Candidate(s) # None
           /\ entry' = [entry EXCEPT ![<<Parent(s), reap[s].name>>] = None]
           /\ reaped' = [reaped EXCEPT ![s] = @ \cup {Candidate(s)}]
           /\ OnToNext(s) /\ Count(s, "removed")
  <2> DEFINE x == <<Parent(s), reap[s].name>>
             f == Candidate(s)
  <2>1. x \in Slots /\ f = entry[x] /\ f # None
    BY <1>1, <1>3, CandidateHasParent
  <2>2. s \notin moved => looked[s] = x
    BY <1>1 DEF IInv, LookedInv
  <2>3. entry' = [entry EXCEPT ![x] = None] /\ reaped' = [reaped EXCEPT ![s] = @ \cup {f}]
    BY <1>3
  <2> HIDE DEF x, f
  <2>4. f \in Files
    BY <2>1 DEF IInv, FsOK, Contents, Slots
  <2>5. /\ entry' \in Contents /\ entry'[x] = None
        /\ \A y \in Slots \ {x} : entry'[y] = entry[y] /\ entry[y] # f
    BY <2>1, <2>3, <2>4, UnlinkKeepsContents DEF IInv, FsOK
  <2>6. /\ reaped' \in [Sweeps -> SUBSET Files] /\ reaped'[s] = reaped[s] \cup {f}
        /\ \A v \in Sweeps \ {s} : reaped'[v] = reaped[v]
    BY <2>3, <2>4 DEF IInv, FsOK
  <2>7. /\ CtlOK' /\ pc'[s] = "walk" /\ looked'[s] = None
        /\ \A v \in Sweeps \ {s} : pc'[v] = pc[v] /\ reap'[v] = reap[v] /\ looked'[v] = looked[v]
    BY <1>1, <1>3, OnToNextMoves
  <2>8. FsOK'
    BY <1>1, <2>5, <2>6 DEF IInv, FsOK
  <2>9. /\ ResultOK' /\ result'[s]["removed"] = result[s]["removed"] + 1
        /\ \A v \in Sweeps \ {s} : result'[v] = result[v]
    BY <1>3, CountIsCount DEF IInv, Counts
  <2>10. PhaseInv' /\ LookedInv'
    <3> SUFFICES ASSUME NEW v \in Sweeps PROVE OwnOK(v)'
      BY DEF PhaseInv, LookedInv, OwnOK
    <3>1. OwnOK(v)
      BY OwnIsAll DEF IInv
    <3>2. CASE v = s
      BY <1>1, <2>7, <3>1, <3>2 DEF OwnOK, Reaping
    <3>3. CASE v # s
      <4>1. Parent(v)' = Parent(v)
        BY <1>1, <2>7, <3>3 DEF Parent, Resolve
      <4>2. \A y \in Slots : entry'[y] = entry[y] \/ entry'[y] = None
        BY <2>5
      <4> QED BY <1>1, <2>7, <3>1, <3>3, <4>1, <4>2 DEF OwnOK
    <3> QED BY <3>2, <3>3
  <2>11. GoneInv'
    <3>1. None \notin Files /\ \A v \in Sweeps : reaped'[v] \subseteq Files
      BY <2>6 DEF NoneAssumption
    <3> QED BY <2>5, <2>6, <3>1 DEF IInv, GoneInv
  <2>12. SparesTheLiving'
    <3>1. s \notin moved => f \in (stale \ Specials) \cup risked
      BY <1>1, <2>1, <2>2 DEF IInv, LookedInv
    <3> QED BY <1>1, <2>6, <3>1 DEF IInv, SparesTheLiving
  <2>13. CountsWhatItRemoved'
    <3>1. IsFiniteSet(reaped[s])
      BY FS_Subset DEF FilesAssumption, IInv, FsOK
    <3>2. f \notin reaped[s]
      BY <2>1 DEF IInv, GoneInv
    <3>3. Cardinality(reaped'[s]) = Cardinality(reaped[s]) + 1
      BY <2>6, <3>1, <3>2, FS_AddElement
    <3> QED BY <2>6, <2>9, <3>3 DEF IInv, CountsWhatItRemoved
  <2> QED BY <2>7, <2>8, <2>9, <2>10, <2>11, <2>12, <2>13 DEF IInv
<1> QED BY <1>2, <1>3 DEF Remove

-----------------------------------------------------------------------------
(* The environment *)

(* What others do to the tree is no concern of a sweep as long as these     *)
(* hold.                                                                    *)
LEMMA EnvStep ==
  ASSUME IInv, UNCHANGED own, FsOK', moved \subseteq moved',
         steady' \in [Sweeps -> SUBSET (Places \X Temps)],
         \A v \in Sweeps : pc[v] = "remove" /\ v \notin moved' => Parent(v)' = Parent(v),
         \A v \in Sweeps : pc[v] = "remove" =>
            entry'[looked[v]] \in {None} \cup (stale' \ Specials) \cup risked',
         \A v \in Sweeps : \A y \in Slots : entry'[y] \notin reaped[v],
         \A v \in Sweeps : reaped[v] \cap ((stale \ Specials) \cup risked)
                              \subseteq (stale' \ Specials) \cup risked'
  PROVE  IInv'
<1>1. /\ UNCHANGED <<pc, kind, walk, reap, looked, result, outcome, cancelled, reaped>>
  BY DEF own
<1>2. CtlOK' /\ ResultOK'
  BY <1>1 DEF IInv, CtlOK, ResultOK
<1>3. PhaseInv'
  BY <1>1 DEF IInv, PhaseInv
<1>4. LookedInv'
  BY <1>1 DEF IInv, LookedInv
<1>5. GoneInv'
  BY <1>1 DEF GoneInv
<1>6. SparesTheLiving'
  BY <1>1 DEF IInv, SparesTheLiving
<1>7. CountsWhatItRemoved'
  BY <1>1 DEF IInv, CountsWhatItRemoved
<1> QED BY <1>2, <1>3, <1>4, <1>5, <1>6, <1>7 DEF IInv

LEMMA UnsettleOK ==
  ASSUME IInv, NEW places, NEW names, Unsettle(places, names)
  PROVE  steady' \in [Sweeps -> SUBSET (Places \X Temps)]
BY DEF Unsettle, IInv, CtlOK

LEMMA PutPreserves ==
  ASSUME IInv, NoneAssumption, NEW d \in AllDirs, NEW t \in Temps, NEW f \in Files, Put(d, t, f)
  PROVE  IInv'
<1> DEFINE x == <<d, t>>
<1>1. /\ x \in Slots /\ entry[x] = None /\ \A y \in Slots : entry[y] # f
      /\ \A v \in Sweeps : f \notin reaped[v]
      /\ entry' = [entry EXCEPT ![x] = f] /\ stale' = stale \ {f}
      /\ risked \subseteq risked' /\ risked' \subseteq risked \cup {f}
      /\ \A v \in Sweeps : looked[v] = x => f \in risked'
      /\ UNCHANGED <<at, own, moved>>
  BY DEF Put, Slots, Inspected
<1>2. steady' \in [Sweeps -> SUBSET (Places \X Temps)]
  BY UnsettleOK DEF Put
<1> HIDE DEF x
<1>3. /\ entry \in [Slots -> Files \cup {None}]
      /\ \A y, z \in Slots : entry[y] = entry[z] /\ entry[y] \in Files => y = z
  BY DEF IInv, FsOK, Contents, Slots
<1>4. /\ entry' \in [Slots -> Files \cup {None}] /\ entry'[x] = f
      /\ \A y \in Slots \ {x} : entry'[y] = entry[y]
  BY <1>1, <1>3
<1>5. entry' \in Contents
  <2>1. \A y, z \in Slots : entry'[y] = entry'[z] /\ entry'[y] \in Files => y = z
    BY <1>1, <1>3, <1>4
  <2> QED BY <1>4, <2>1 DEF Contents, Slots
<1>6. FsOK'
  BY <1>1, <1>5 DEF IInv, FsOK, own
<1>7. \A v \in Sweeps : Parent(v)' = Parent(v)
  BY <1>1 DEF Parent, Resolve, own
<1>8. ASSUME NEW v \in Sweeps, pc[v] = "remove"
      PROVE  entry'[looked[v]] \in {None} \cup (stale' \ Specials) \cup risked'
  <2>1. looked[v] \in Slots /\ entry[looked[v]] \in {None} \cup (stale \ Specials) \cup risked
    BY <1>8 DEF IInv, LookedInv
  <2>2. CASE looked[v] = x
    BY <1>1, <1>4, <2>2
  <2>3. CASE looked[v] # x
    BY <1>1, <1>4, <2>1, <2>3
  <2> QED BY <2>2, <2>3
<1>9. \A v \in Sweeps : \A y \in Slots : entry'[y] \notin reaped[v]
  BY <1>1, <1>4 DEF IInv, GoneInv
<1>10. \A v \in Sweeps : reaped[v] \cap ((stale \ Specials) \cup risked)
                            \subseteq (stale' \ Specials) \cup risked'
  BY <1>1
<1> QED BY <1>1, <1>2, <1>6, <1>7, <1>8, <1>9, <1>10, EnvStep

LEMMA TakePreserves ==
  ASSUME IInv, NoneAssumption, NEW d \in AllDirs, NEW t \in Temps, Take(d, t)
  PROVE  IInv'
<1> DEFINE x == <<d, t>>
<1>1. /\ x \in Slots /\ entry' = [entry EXCEPT ![x] = None]
      /\ UNCHANGED <<at, stale, own, moved, risked>>
  BY DEF Take, Slots
<1>2. steady' \in [Sweeps -> SUBSET (Places \X Temps)]
  BY UnsettleOK DEF Take
<1> HIDE DEF x
<1>3. entry' \in Contents /\ \A y \in Slots : entry'[y] = entry[y] \/ entry'[y] = None
  BY <1>1, UnlinkKeepsContents DEF IInv, FsOK
<1>4. FsOK'
  BY <1>1, <1>3 DEF IInv, FsOK, own
<1>5. \A v \in Sweeps : Parent(v)' = Parent(v)
  BY <1>1 DEF Parent, Resolve, own
<1>6. \A v \in Sweeps : pc[v] = "remove" =>
         entry'[looked[v]] \in {None} \cup (stale' \ Specials) \cup risked'
  BY <1>1, <1>3 DEF IInv, LookedInv
<1>7. \A v \in Sweeps : \A y \in Slots : entry'[y] \notin reaped[v]
  <2>1. \A v \in Sweeps : None \notin reaped[v]
    BY DEF NoneAssumption, IInv, FsOK
  <2> QED BY <1>3, <2>1 DEF IInv, GoneInv
<1> QED BY <1>1, <1>2, <1>4, <1>5, <1>6, <1>7, EnvStep

LEMMA TouchPreserves ==
  ASSUME IInv, NoneAssumption, NEW d \in AllDirs, NEW t \in Temps, Touch(d, t)
  PROVE  IInv'
<1> DEFINE x == <<d, t>>
           f == entry[x]
<1>1. /\ x \in Slots /\ f \in stale /\ stale' = stale \ {f}
      /\ risked \subseteq risked' /\ risked' \subseteq risked \cup {f}
      /\ \A v \in Sweeps : looked[v] = x => f \in risked'
      /\ UNCHANGED <<at, entry, own, moved>>
  BY DEF Touch, Slots, Inspected
<1>2. steady' \in [Sweeps -> SUBSET (Places \X Temps)]
  BY UnsettleOK DEF Touch
<1>3. f \in Files /\ stale \subseteq Files /\ risked \subseteq Files
  BY <1>1 DEF IInv, FsOK
<1>4. \A y \in Slots : entry[y] = f => y = x
  BY <1>1, <1>3 DEF IInv, FsOK, Contents, Slots
<1>5. \A v \in Sweeps : f \notin reaped[v]
  BY <1>1 DEF IInv, GoneInv
<1> HIDE DEF x, f
<1>6. FsOK'
  BY <1>1, <1>3 DEF IInv, FsOK, own
<1>7. \A v \in Sweeps : Parent(v)' = Parent(v)
  BY <1>1 DEF Parent, Resolve, own
<1>8. ASSUME NEW v \in Sweeps, pc[v] = "remove"
      PROVE  entry'[looked[v]] \in {None} \cup (stale' \ Specials) \cup risked'
  <2>1. looked[v] \in Slots /\ entry[looked[v]] \in {None} \cup (stale \ Specials) \cup risked
    BY <1>8 DEF IInv, LookedInv
  <2>2. CASE looked[v] = x
    BY <1>1, <2>2 DEF f
  <2>3. CASE looked[v] # x
    BY <1>1, <1>4, <2>1, <2>3
  <2> QED BY <2>2, <2>3
<1>9. \A v \in Sweeps : \A y \in Slots : entry'[y] \notin reaped[v]
  BY <1>1 DEF IInv, GoneInv
<1>10. \A v \in Sweeps : reaped[v] \cap ((stale \ Specials) \cup risked)
                            \subseteq (stale' \ Specials) \cup risked'
  BY <1>1, <1>5
<1> QED BY <1>1, <1>2, <1>6, <1>7, <1>8, <1>9, <1>10, EnvStep

LEMMA RearrangePreserves ==
  ASSUME IInv, NEW n \in Subdirs, NEW to, Rearrange(n, to)
  PROVE  IInv'
<1>1. /\ at' \in Trees /\ UNCHANGED <<entry, stale, own, risked>>
      /\ moved' = moved \cup {s \in Sweeps : pc[s] # "idle" /\ ~kind[s].rooted}
  BY DEF Rearrange
<1>2. steady' \in [Sweeps -> SUBSET (Places \X Temps)]
  BY UnsettleOK DEF Rearrange
<1>3. FsOK'
  BY <1>1 DEF IInv, FsOK, own
<1>4. ASSUME NEW v \in Sweeps, pc[v] = "remove", v \notin moved'
      PROVE  Parent(v)' = Parent(v)
  <2>1. kind[v].rooted
    BY <1>1, <1>4
  <2> QED BY <1>1, <2>1 DEF Parent, own
<1>5. \A v \in Sweeps : pc[v] = "remove" =>
         entry'[looked[v]] \in {None} \cup (stale' \ Specials) \cup risked'
  BY <1>1 DEF IInv, LookedInv
<1>6. \A v \in Sweeps : \A y \in Slots : entry'[y] \notin reaped[v]
  BY <1>1 DEF IInv, GoneInv
<1> QED BY <1>1, <1>2, <1>3, <1>4, <1>5, <1>6, EnvStep

LEMMA StutterPreserves ==
  ASSUME IInv, UNCHANGED vars
  PROVE  IInv'
<1>1. /\ UNCHANGED <<at, entry, stale, pc, walk, reap, looked, result, outcome, risked>>
      /\ UNCHANGED <<kind, cancelled, reaped, steady, moved>>
  BY DEF vars, fs, call
<1>2. CtlOK' /\ FsOK' /\ ResultOK'
  BY <1>1 DEF IInv, CtlOK, FsOK, ResultOK
<1>3. PhaseInv' /\ GoneInv'
  BY <1>1 DEF IInv, PhaseInv, GoneInv
<1>4. LookedInv'
  BY <1>1 DEF IInv, LookedInv, Parent, Resolve
<1>5. SparesTheLiving' /\ CountsWhatItRemoved'
  BY <1>1 DEF IInv, SparesTheLiving, CountsWhatItRemoved
<1> QED BY <1>2, <1>3, <1>4, <1>5 DEF IInv

LEMMA Inductive == Spec => []IInv
<1>1. ASSUME IInv, NEW s \in Sweeps, Step(s)
      PROVE  IInv'
  BY <1>1, NoneAssumption, FilesAssumption, OpenDirPreserves, ReadBatchPreserves, VisitPreserves,
     FinishPreserves, PinPreserves, LookPreserves, RemovePreserves DEF Step
<1>2. IInv /\ Next => IInv'
  BY <1>1, KindsAssumption, NoneAssumption, StartPreserves, CancelPreserves, PutPreserves,
     TakePreserves, TouchPreserves, RearrangePreserves DEF Next
<1>3. IInv /\ [Next]_vars => IInv'
  BY <1>2, StutterPreserves
<1> QED BY InitEstablishes, <1>3, PTL DEF Spec

-----------------------------------------------------------------------------
(* Every variable keeps its type; a candidate always has a temp's name.     *)
THEOREM TypeCorrect == Spec => []TypeOK
<1>1. IInv => TypeOK
  BY DEF IInv, CtlOK, FsOK, ResultOK, TypeOK, Contents, Walks, Reaps, Slots
<1> QED BY <1>1, Inductive, PTL

(* reapStaleTemp, reapStaleTempInRoot: whatever is moved, made and taken    *)
(* around a sweep, only old regular temps are unlinked, but for what comes  *)
(* under the very name between its Lstat and its Remove.                    *)
THEOREM LivingAreSpared == Spec => []SparesTheLiving
<1>1. IInv => SparesTheLiving
  BY DEF IInv
<1> QED BY <1>1, Inductive, PTL

(* SweepResult.Removed: each file is counted once, by the sweep that        *)
(* unlinked it.                                                             *)
THEOREM CountIsProven == Spec => []CountsWhatItRemoved
<1>1. IInv => CountsWhatItRemoved
  BY DEF IInv
<1> QED BY <1>1, Inductive, PTL

-----------------------------------------------------------------------------
(* Nothing left unsaid: an old temp is gone, or still ahead of the walk, or *)
(* one of those that were counted as failed.                                *)

There(e) == InDir(Resolve(e[1]), e[2]) # None
Left(s) == {e \in steady[s] : There(e)}

(* The sweep has yet to come to entry e, or has it in hand.                 *)
Ahead(s, e) ==
    \/ e \in walk[s].batch
    \/ pc[s] \in Reaping /\ e = <<reap[s].place, reap[s].name>>
    \/ walk[s].handle # None /\ walk[s].place = e[1] /\ e[2] \notin walk[s].seen
    \/ e[1] \in walk[s].todo
    \/ /\ e[1] # Top
       /\ \/ Top \in walk[s].todo
          \/ <<Top, e[1]>> \in walk[s].batch
          \/ walk[s].handle # None /\ walk[s].place = Top /\ e[1] \notin walk[s].seen

Behind(s) == {e \in Left(s) : ~Ahead(s, e)}

(* What was in the tree throughout is where it was, and so is the directory *)
(* the sweep has open or pinned for it.                                     *)
SteadyOK(s) ==
    \A e \in steady[s] :
        /\ e[1] # Top => at[e[1]] \in Dirs
        /\ e[1] # Top /\ pc[s] # "idle" => kind[s].recursive
        /\ There(e) => InDir(Resolve(e[1]), e[2]) \in stale \ Specials
        /\ walk[s].handle # None /\ e[1] = walk[s].place => walk[s].handle = Resolve(e[1])
        /\ pc[s] \in {"look", "remove"} /\ kind[s].rooted /\ e[1] = reap[s].place
              => reap[s].parent = Resolve(e[1])

RoomOK(s) ==
    /\ pc[s] = "idle" => walk[s] = NoWalk
    /\ pc[s] # "idle" => outcome[s] = "none"
    /\ walk[s].handle # None /\ walk[s].place = Top => walk[s].handle = Top

BehindOK(s) ==
    (pc[s] # "idle" \/ outcome[s] = "done") /\ result[s]["unreadable"] = 0 =>
        IsFiniteSet(Behind(s)) /\ Cardinality(Behind(s)) <= result[s]["failed"]

SaidOK(s) == SteadyOK(s) /\ RoomOK(s) /\ BehindOK(s)

LEMMA SmallerIsFewer ==
  ASSUME NEW S, NEW T, NEW n \in Nat, S \subseteq T, IsFiniteSet(T), Cardinality(T) <= n
  PROVE  IsFiniteSet(S) /\ Cardinality(S) <= n
<1>1. IsFiniteSet(S) /\ Cardinality(S) <= Cardinality(T)
  BY FS_Subset
<1>2. Cardinality(S) \in Nat /\ Cardinality(T) \in Nat
  BY <1>1, FS_CardinalityType
<1> QED BY <1>1, <1>2

LEMMA OneMore ==
  ASSUME NEW S, NEW T, NEW x, NEW n \in Nat, S \subseteq T \cup {x}, IsFiniteSet(T),
         Cardinality(T) <= n
  PROVE  IsFiniteSet(S) /\ Cardinality(S) <= n + 1
<1>1. IsFiniteSet(T \cup {x}) /\ Cardinality(T \cup {x}) <= n + 1
  <2>1. Cardinality(T) \in Nat
    BY FS_CardinalityType
  <2>2. CASE x \in T
    <3>1. T \cup {x} = T
      BY <2>2
    <3>2. Cardinality(T) <= n + 1
      BY <2>1
    <3> QED BY <3>1, <3>2
  <2>3. CASE x \notin T
    BY <2>1, <2>3, FS_AddElement
  <2> QED BY <2>2, <2>3
<1> QED BY <1>1, SmallerIsFewer

LEMMA CountsAreNat ==
  ASSUME ResultOK, NEW s \in Sweeps
  PROVE  result[s]["failed"] \in Nat /\ result[s]["unreadable"] \in Nat
BY DEF ResultOK, Counts

(* A sweep's own state is as it was.                                        *)
Same(v) ==
    /\ pc'[v] = pc[v] /\ kind'[v] = kind[v] /\ walk'[v] = walk[v] /\ reap'[v] = reap[v]
    /\ result'[v] = result[v] /\ outcome'[v] = outcome[v]

(* What others do leaves its account true.                                  *)
LEMMA OthersKeepSaid ==
  ASSUME IInv, NEW v \in Sweeps, SaidOK(v), Same(v), steady'[v] \subseteq steady[v],
         \A e \in steady'[v] :
            /\ Resolve(e[1])' = Resolve(e[1])
            /\ e[1] # Top => at'[e[1]] = at[e[1]]
            /\ There(e)' => There(e) /\ InDir(Resolve(e[1]), e[2])' \in stale' \ Specials
  PROVE  SaidOK(v)'
<1>1. SteadyOK(v)'
  <2> SUFFICES ASSUME NEW e \in steady'[v]
               PROVE  /\ e[1] # Top => at'[e[1]] \in Dirs
                      /\ e[1] # Top /\ pc'[v] # "idle" => kind'[v].recursive
                      /\ There(e)' => InDir(Resolve(e[1]), e[2])' \in stale' \ Specials
                      /\ walk'[v].handle # None /\ e[1] = walk'[v].place
                            => walk'[v].handle = Resolve(e[1])'
                      /\ pc'[v] \in {"look", "remove"} /\ kind'[v].rooted /\ e[1] = reap'[v].place
                            => reap'[v].parent = Resolve(e[1])'
    BY DEF SteadyOK
  <2> HIDE DEF Same
  <2>1. e \in steady[v]
    OBVIOUS
  <2>2. /\ e[1] # Top => at[e[1]] \in Dirs
        /\ e[1] # Top /\ pc[v] # "idle" => kind[v].recursive
        /\ walk[v].handle # None /\ e[1] = walk[v].place => walk[v].handle = Resolve(e[1])
        /\ pc[v] \in {"look", "remove"} /\ kind[v].rooted /\ e[1] = reap[v].place
              => reap[v].parent = Resolve(e[1])
    BY <2>1 DEF SaidOK, SteadyOK
  <2> QED BY <2>2 DEF Same
<1>2. RoomOK(v)'
  BY DEF SaidOK, RoomOK, Same, NoWalk
<1>3. BehindOK(v)'
  <2> SUFFICES ASSUME pc'[v] # "idle" \/ outcome'[v] = "done", result'[v]["unreadable"] = 0
               PROVE  IsFiniteSet(Behind(v)') /\ Cardinality(Behind(v)') <= result'[v]["failed"]
    BY DEF BehindOK
  <2>1. \A e : Ahead(v, e)' <=> Ahead(v, e)
    BY DEF Ahead, Same
  <2>2. Behind(v)' \subseteq Behind(v)
    BY <2>1 DEF Behind, Left
  <2>3. IsFiniteSet(Behind(v)) /\ Cardinality(Behind(v)) <= result[v]["failed"]
    BY DEF SaidOK, BehindOK, Same
  <2>4. result[v]["failed"] \in Nat
    BY CountsAreNat DEF IInv
  <2> HIDE DEF Behind
  <2>5. IsFiniteSet(Behind(v)') /\ Cardinality(Behind(v)') <= result[v]["failed"]
    BY <2>2, <2>3, <2>4, SmallerIsFewer
  <2> QED BY <2>5 DEF Same
<1> QED BY <1>1, <1>2, <1>3 DEF SaidOK

(* The tree stays, or loses entries.                                        *)
LEMMA LosingKeepsSaid ==
  ASSUME IInv, NEW v \in Sweeps, SaidOK(v), Same(v), UNCHANGED <<at, stale>>, steady'[v] = steady[v],
         \A y \in Slots : entry'[y] = entry[y] \/ entry'[y] = None
  PROVE  SaidOK(v)'
<1>1. ASSUME NEW e \in steady'[v]
      PROVE  /\ Resolve(e[1])' = Resolve(e[1])
             /\ e[1] # Top => at'[e[1]] = at[e[1]]
             /\ There(e)' => There(e) /\ InDir(Resolve(e[1]), e[2])' \in stale' \ Specials
  <2>1. Resolve(e[1])' = Resolve(e[1])
    BY DEF Resolve
  <2>2. e[1] \in Places /\ e[2] \in Temps
    BY DEF IInv, CtlOK
  <2>3. Resolve(e[1]) \in AllDirs \cup {None}
    BY <2>2, ResolveIsDir DEF IInv, FsOK
  <2>4. ASSUME There(e)'
        PROVE  There(e) /\ InDir(Resolve(e[1]), e[2])' = InDir(Resolve(e[1]), e[2])
    <3>1. Resolve(e[1]) # None /\ <<Resolve(e[1]), e[2]>> \in Slots
      BY <2>1, <2>2, <2>3, <2>4 DEF There, InDir, Slots
    <3>2. entry'[<<Resolve(e[1]), e[2]>>] # None
      BY <2>1, <2>4, <3>1 DEF There, InDir
    <3> QED BY <2>1, <3>1, <3>2 DEF There, InDir
  <2>5. There(e) => InDir(Resolve(e[1]), e[2]) \in stale \ Specials
    BY DEF SaidOK, SteadyOK
  <2> QED BY <2>1, <2>4, <2>5
<1> QED BY <1>1, OthersKeepSaid

(* How a step of its own leaves the account true: the tree and the counts   *)
(* as they were, and what was ahead still ahead or gone.                    *)
LEMMA ProgressKeepsBehind ==
  ASSUME IInv, NEW s \in Sweeps, SaidOK(s), pc[s] # "idle",
         result'[s]["failed"] = result[s]["failed"],
         result'[s]["unreadable"] = result[s]["unreadable"],
         \A e \in Left(s)' : e \in Left(s) /\ (Ahead(s, e) => Ahead(s, e)')
  PROVE  BehindOK(s)'
<1> SUFFICES ASSUME result'[s]["unreadable"] = 0
             PROVE  IsFiniteSet(Behind(s)') /\ Cardinality(Behind(s)') <= result'[s]["failed"]
  BY DEF BehindOK
<1>1. IsFiniteSet(Behind(s)) /\ Cardinality(Behind(s)) <= result[s]["failed"]
  BY DEF SaidOK, BehindOK
<1>2. Behind(s)' \subseteq Behind(s)
  BY DEF Behind
<1>3. result[s]["failed"] \in Nat
  BY CountsAreNat DEF IInv
<1> HIDE DEF Behind
<1> QED BY <1>1, <1>2, <1>3, SmallerIsFewer

(* A candidate that failed is the one more that its count allows.           *)
LEMMA FailureKeepsBehind ==
  ASSUME IInv, NEW s \in Sweeps, SaidOK(s), pc[s] # "idle", Count(s, "failed"), NEW x,
         \A e \in Left(s)' : e \in Left(s) /\ (e # x /\ Ahead(s, e) => Ahead(s, e)')
  PROVE  BehindOK(s)'
<1> SUFFICES ASSUME result'[s]["unreadable"] = 0
             PROVE  IsFiniteSet(Behind(s)') /\ Cardinality(Behind(s)') <= result'[s]["failed"]
  BY DEF BehindOK
<1>1. /\ result'[s]["unreadable"] = result[s]["unreadable"]
      /\ result'[s]["failed"] = result[s]["failed"] + 1
  BY CountIsCount DEF IInv, Counts
<1>2. IsFiniteSet(Behind(s)) /\ Cardinality(Behind(s)) <= result[s]["failed"]
  BY <1>1 DEF SaidOK, BehindOK
<1>3. Behind(s)' \subseteq Behind(s) \cup {x}
  BY DEF Behind
<1>4. result[s]["failed"] \in Nat
  BY CountsAreNat DEF IInv
<1> HIDE DEF Behind
<1>5. IsFiniteSet(Behind(s)') /\ Cardinality(Behind(s)') <= result[s]["failed"] + 1
  BY <1>2, <1>3, <1>4, OneMore
<1> QED BY <1>1, <1>5

(* In a step that leaves the tree alone the old temps stay what they were.  *)
LEMMA LeftStays ==
  ASSUME NEW s \in Sweeps, UNCHANGED <<at, entry, stale>>, steady'[s] = steady[s]
  PROVE  /\ Left(s)' = Left(s)
         /\ \A e : Resolve(e[1])' = Resolve(e[1]) /\ InDir(Resolve(e[1]), e[2])' = InDir(Resolve(e[1]), e[2])
         /\ \A e : There(e)' <=> There(e)
<1>1. \A e : Resolve(e[1])' = Resolve(e[1])
  BY DEF Resolve
<1>2. \A e : InDir(Resolve(e[1]), e[2])' = InDir(Resolve(e[1]), e[2])
  BY <1>1 DEF InDir
<1>3. \A e : There(e)' <=> There(e)
  BY <1>2 DEF There
<1> QED BY <1>1, <1>2, <1>3 DEF Left

(* The sweep returns without a claim, or counts a directory as unreadable.  *)
LEMMA GivingUpKeepsSaid ==
  ASSUME IInv, NEW s \in Sweeps, SaidOK(s), pc[s] = "walk",
         UNCHANGED <<at, entry, stale>>, steady'[s] = steady[s], kind'[s] = kind[s],
         \/ \E o \in {"cancelled", "error"} : Return(s, o)
         \/ \E w \in Walks : Walk(s, w) /\ w.handle = None /\ Count(s, "unreadable")
  PROVE  SaidOK(s)'
<1>1. \A e \in steady[s] :
        /\ e[1] # Top => at[e[1]] \in Dirs
        /\ e[1] # Top => kind[s].recursive
        /\ There(e) => InDir(Resolve(e[1]), e[2]) \in stale \ Specials
  BY DEF SaidOK, SteadyOK
<1>2. \A e : /\ InDir(Resolve(e[1]), e[2])' = InDir(Resolve(e[1]), e[2])
             /\ There(e)' <=> There(e)
  BY LeftStays
<1>3. CASE \E o \in {"cancelled", "error"} : Return(s, o)
  <2>1. /\ pc'[s] = "idle" /\ walk'[s] = NoWalk /\ outcome'[s] # "done" /\ NoWalk.handle = None
    BY <1>3 DEF Return, GoTo, NoWalk, IInv, CtlOK
  <2>2. SteadyOK(s)'
    BY <1>1, <1>2, <2>1 DEF SteadyOK
  <2> QED BY <2>1, <2>2 DEF SaidOK, RoomOK, BehindOK, NoWalk
<1>4. ASSUME NEW w \in Walks, Walk(s, w), w.handle = None, Count(s, "unreadable")
      PROVE  SaidOK(s)'
  <2>1. pc'[s] = "walk" /\ walk'[s] = w /\ outcome'[s] = "none"
    BY <1>4 DEF Walk, SaidOK, RoomOK, IInv, CtlOK
  <2>2. SteadyOK(s)'
    BY <1>1, <1>2, <1>4, <2>1 DEF SteadyOK
  <2>3. result'[s]["unreadable"] # 0
    BY <1>4, CountIsCount, CountsAreNat DEF IInv, Counts
  <2> QED BY <1>4, <2>1, <2>2, <2>3 DEF SaidOK, RoomOK, BehindOK
<1> QED BY <1>3, <1>4

LEMMA DirFailureSaid ==
  ASSUME IInv, NEW s \in Sweeps, SaidOK(s), pc[s] = "walk",
         UNCHANGED <<at, entry, stale>>, steady'[s] = steady[s], kind'[s] = kind[s],
         NEW p, NEW w \in Walks, w.handle = None, DirFailure(s, p, w)
  PROVE  SaidOK(s)'
<1>1. \/ \E o \in {"cancelled", "error"} : Return(s, o)
      \/ Walk(s, w) /\ Count(s, "unreadable")
  BY DEF DirFailure
<1> QED BY <1>1, GivingUpKeepsSaid

(* The walk goes on, with what it knows of a directory it has open right.   *)
LEMMA WalkingKeepsSaid ==
  ASSUME IInv, NEW s \in Sweeps, SaidOK(s), pc[s] = "walk",
         UNCHANGED <<at, entry, stale, result>>, steady'[s] = steady[s], kind'[s] = kind[s],
         NEW w \in Walks, Walk(s, w),
         w.handle # None /\ w.place = Top => w.handle = Top,
         \A e \in steady[s] : w.handle # None /\ e[1] = w.place => w.handle = Resolve(e[1]),
         \A e \in Left(s) : Ahead(s, e) => Ahead(s, e)'
  PROVE  SaidOK(s)'
<1>1. \A e \in steady[s] :
        /\ e[1] # Top => at[e[1]] \in Dirs
        /\ e[1] # Top => kind[s].recursive
        /\ There(e) => InDir(Resolve(e[1]), e[2]) \in stale \ Specials
  BY DEF SaidOK, SteadyOK
<1>2. /\ Left(s)' = Left(s)
      /\ \A e : /\ Resolve(e[1])' = Resolve(e[1])
                /\ InDir(Resolve(e[1]), e[2])' = InDir(Resolve(e[1]), e[2])
                /\ There(e)' <=> There(e)
  BY LeftStays
<1>3. pc'[s] = "walk" /\ walk'[s] = w
  BY DEF Walk, IInv, CtlOK
<1>4. SteadyOK(s)'
  BY <1>1, <1>2, <1>3 DEF SteadyOK
<1>5. RoomOK(s)'
  BY <1>3 DEF SaidOK, RoomOK, Walk
<1>6. BehindOK(s)'
  <2> HIDE DEF Left
  <2> QED BY <1>2, ProgressKeepsBehind
<1> QED BY <1>4, <1>5, <1>6 DEF SaidOK

LEMMA OpenDirSaid ==
  ASSUME IInv, NEW s \in Sweeps, SaidOK(s), OpenDir(s)
  PROVE  SaidOK(s)'
<1>1. walk[s] \in Walks /\ walk[s].handle = None /\ pc[s] = "walk" /\ at \in Trees
  BY DEF OpenDir, IInv, CtlOK, FsOK
<1>2. PICK p \in walk[s].todo :
        LET rest == [walk[s] EXCEPT !.todo = @ \ {p}] IN
        \/ /\ Resolve(p) # None
           /\ Walk(s, [rest EXCEPT !.place = p, !.handle = Resolve(p), !.seen = {}])
           /\ UNCHANGED result
        \/ DirFailure(s, p, rest)
  BY DEF OpenDir
<1>3. p \in Places /\ Resolve(p) \in AllDirs \cup {None}
  BY <1>1, <1>2, ResolveIsDir DEF Walks
<1> DEFINE rest == [walk[s] EXCEPT !.todo = @ \ {p}]
           into == [rest EXCEPT !.place = p, !.handle = Resolve(p), !.seen = {}]
<1>4. rest \in Walks /\ rest.handle = None
  BY <1>1 DEF Walks
<1>5. /\ into \in Walks /\ into.place = p /\ into.handle = Resolve(p) /\ into.seen = {}
      /\ into.todo = walk[s].todo \ {p} /\ into.batch = walk[s].batch
  BY <1>1, <1>3 DEF Walks
<1>6. /\ UNCHANGED <<at, entry, stale>> /\ steady'[s] = steady[s] /\ kind'[s] = kind[s]
  BY DEF OpenDir, fs, call
<1>7. CASE Walk(s, into) /\ UNCHANGED result /\ Resolve(p) # None
  <2> HIDE DEF into
  <2>1. into.handle # None /\ into.place = Top => into.handle = Top
    BY <1>5 DEF Resolve
  <2>2. \A e \in steady[s] : e[1] = into.place => into.handle = Resolve(e[1])
    BY <1>5
  <2>3. walk'[s] = into
    BY <1>7 DEF Walk, IInv, CtlOK
  <2>4. \A e \in Left(s) : Ahead(s, e) => Ahead(s, e)'
    BY <1>1, <1>5, <1>7, <2>3 DEF Ahead, Reaping
  <2> QED BY <1>1, <1>5, <1>6, <1>7, <2>1, <2>2, <2>4, WalkingKeepsSaid
<1>8. CASE DirFailure(s, p, rest)
  <2> HIDE DEF rest
  <2> QED BY <1>1, <1>4, <1>6, <1>8, DirFailureSaid
<1> QED BY <1>2, <1>7, <1>8

LEMMA ReadBatchSaid ==
  ASSUME IInv, NEW s \in Sweeps, SaidOK(s), ReadBatch(s)
  PROVE  SaidOK(s)'
<1>1. walk[s] \in Walks /\ walk[s].handle # None /\ pc[s] = "walk" /\ walk[s].place \in Places
  BY DEF ReadBatch, IInv, CtlOK, PhaseInv
<1>2. UNCHANGED <<at, entry, stale>> /\ steady'[s] = steady[s] /\ kind'[s] = kind[s]
  BY DEF ReadBatch, fs, call
<1>3. /\ Closed(s) \in Walks /\ Closed(s).handle = None /\ Closed(s).todo = walk[s].todo
      /\ Closed(s).batch = walk[s].batch
  BY <1>1 DEF Closed, Walks
<1>4. steady[s] \subseteq Places \X Temps
  BY DEF IInv, CtlOK
<1>5. /\ \A e \in steady[s] : e[1] # Top => at[e[1]] \in Dirs /\ e[1] \in Subdirs
      /\ \A e \in steady[s] : e[1] = walk[s].place => walk[s].handle = Resolve(e[1])
      /\ walk[s].place = Top => walk[s].handle = Top
  BY <1>1, <1>4 DEF SaidOK, SteadyOK, RoomOK, Places
<1>6. CASE Return(s, "cancelled")
  BY <1>1, <1>2, <1>6, GivingUpKeepsSaid
<1>7. ASSUME NEW some \in SUBSET Unread(s) \ {{}}, UNCHANGED result,
             Walk(s, [walk[s] EXCEPT !.seen = @ \cup some, !.batch = @ \cup Dirents(s, some)])
      PROVE  SaidOK(s)'
  <2> DEFINE on == [walk[s] EXCEPT !.seen = @ \cup some, !.batch = @ \cup Dirents(s, some)]
  <2>1. some \subseteq Temps \cup Subdirs
    BY DEF Unread
  <2>2. Dirents(s, some) \subseteq Places \X (Temps \cup Subdirs)
    BY <1>1, <2>1 DEF Dirents
  <2>3. /\ on \in Walks /\ on.place = walk[s].place /\ on.handle = walk[s].handle
        /\ on.todo = walk[s].todo /\ on.seen = walk[s].seen \cup some
        /\ on.batch = walk[s].batch \cup Dirents(s, some)
    BY <1>1, <2>1, <2>2 DEF Walks
  <2>4. walk'[s] = on
    BY <1>7 DEF Walk, IInv, CtlOK
  <2> HIDE DEF on
  <2>5. ASSUME NEW e \in Left(s), Ahead(s, e)
        PROVE  Ahead(s, e)'
    <3>1. e \in steady[s] /\ e[1] \in Places /\ e[2] \in Temps /\ e = <<e[1], e[2]>>
      BY <1>4 DEF Left
    <3>2. e[2] \in some /\ walk[s].place = e[1] => e \in Dirents(s, some)
      BY <3>1 DEF Dirents
    <3>3. e[1] # Top /\ e[1] \in some /\ walk[s].place = Top => <<Top, e[1]>> \in Dirents(s, some)
      BY <1>5, <3>1 DEF Dirents
    <3> QED BY <1>1, <2>3, <2>4, <2>5, <3>2, <3>3 DEF Ahead, Reaping
  <2>6. Walk(s, on)
    BY <1>7 DEF on
  <2> QED BY <1>1, <1>2, <1>5, <1>7, <2>3, <2>5, <2>6, WalkingKeepsSaid
<1>8. CASE Unread(s) = {} /\ Walk(s, Closed(s)) /\ UNCHANGED result
  <2>1. walk'[s] = Closed(s)
    BY <1>8 DEF Walk, IInv, CtlOK
  <2>2. ASSUME NEW e \in Left(s), Ahead(s, e)
        PROVE  Ahead(s, e)'
    <3>1. e \in steady[s] /\ e[1] \in Places /\ e[2] \in Temps /\ There(e)
      BY <1>4 DEF Left
    <3>2. walk[s].place = e[1] => e[2] \in walk[s].seen
      BY <1>5, <1>8, <3>1 DEF Unread, There
    <3>3. e[1] # Top /\ walk[s].place = Top => e[1] \in walk[s].seen
      <4>1. SUFFICES ASSUME e[1] # Top, walk[s].place = Top, e[1] \notin walk[s].seen PROVE FALSE
        OBVIOUS
      <4>2. walk[s].handle = Top /\ at[e[1]] # None /\ e[1] \in Subdirs /\ e[1] \notin Temps
        BY <1>5, <3>1, <4>1, NoneAssumption, NamesAssumption DEF NoneAssumption, NamesAssumption
      <4> QED BY <1>8, <4>1, <4>2 DEF Unread
    <3> QED BY <1>1, <1>3, <2>1, <2>2, <3>2, <3>3 DEF Ahead, Reaping
  <2> QED BY <1>1, <1>2, <1>3, <1>8, <2>2, WalkingKeepsSaid
<1>9. CASE DirFailure(s, walk[s].place, Closed(s))
  BY <1>1, <1>2, <1>3, <1>9, DirFailureSaid
<1> QED BY <1>6, <1>7, <1>8, <1>9 DEF ReadBatch

LEMMA VisitSaid ==
  ASSUME IInv, NEW s \in Sweeps, SaidOK(s), Visit(s)
  PROVE  SaidOK(s)'
<1>1. walk[s] \in Walks /\ pc[s] = "walk"
  BY DEF Visit, IInv, CtlOK
<1>2. /\ UNCHANGED <<at, entry, stale, result>> /\ steady'[s] = steady[s] /\ kind'[s] = kind[s]
  BY DEF Visit, fs, call
<1>3. PICK e \in walk[s].batch :
        LET rest == [walk[s] EXCEPT !.batch = @ \ {e}] IN
        \/ Stops(s) /\ Return(s, "cancelled") /\ UNCHANGED reap
        \/ /\ ~Stops(s) /\ e[2] \in Subdirs
           /\ Walk(s, IF kind[s].recursive THEN [rest EXCEPT !.todo = @ \cup {e[2]}] ELSE rest)
           /\ UNCHANGED reap
        \/ /\ ~Stops(s) /\ e[2] \in Temps
           /\ reap' = [reap EXCEPT ![s] = [place |-> e[1], name |-> e[2], parent |-> None]]
           /\ GoTo(s, IF kind[s].rooted THEN "pin" ELSE "look")
           /\ walk' = [walk EXCEPT ![s] = rest]
           /\ UNCHANGED outcome
  BY DEF Visit
<1> DEFINE rest == [walk[s] EXCEPT !.batch = @ \ {e}]
           down == [rest EXCEPT !.todo = @ \cup {e[2]}]
<1>4. /\ rest \in Walks /\ rest.handle = walk[s].handle /\ rest.place = walk[s].place
      /\ rest.seen = walk[s].seen /\ rest.todo = walk[s].todo /\ rest.batch = walk[s].batch \ {e}
  BY <1>1 DEF Walks
<1>5. /\ e[2] \in Subdirs => down \in Walks
      /\ down.handle = walk[s].handle /\ down.place = walk[s].place /\ down.seen = walk[s].seen
      /\ down.todo = walk[s].todo \cup {e[2]} /\ down.batch = walk[s].batch \ {e}
  BY <1>1 DEF Walks, Places
<1> HIDE DEF rest, down
<1>6. e[1] \in Places /\ e = <<e[1], e[2]>>
  BY <1>1, <1>3 DEF Walks
<1>7. /\ \A x \in steady[s] : x[1] \in Places /\ x[2] \in Temps /\ x = <<x[1], x[2]>>
      /\ \A x \in steady[s] : x[1] # Top => kind[s].recursive /\ x[1] \in Subdirs
      /\ \A x \in steady[s] : walk[s].handle # None /\ x[1] = walk[s].place
                                => walk[s].handle = Resolve(x[1])
      /\ walk[s].handle # None /\ walk[s].place = Top => walk[s].handle = Top
  BY <1>1 DEF SaidOK, SteadyOK, RoomOK, Places, IInv, CtlOK
<1>8. CASE Return(s, "cancelled")
  BY <1>1, <1>2, <1>8, GivingUpKeepsSaid
<1>9. CASE e[2] \in Subdirs /\ Walk(s, IF kind[s].recursive THEN down ELSE rest)
  <2> DEFINE on == IF kind[s].recursive THEN down ELSE rest
  <2>1. /\ on \in Walks /\ on.handle = walk[s].handle /\ on.place = walk[s].place
        /\ on.seen = walk[s].seen /\ walk[s].todo \subseteq on.todo
        /\ on.batch = walk[s].batch \ {e} /\ (kind[s].recursive => e[2] \in on.todo)
    BY <1>4, <1>5, <1>9
  <2>2. Walk(s, on)
    BY <1>9
  <2> HIDE DEF on
  <2>3. walk'[s] = on
    BY <2>2 DEF Walk, IInv, CtlOK
  <2>4. ASSUME NEW x \in Left(s), Ahead(s, x)
        PROVE  Ahead(s, x)'
    <3>1. x \in steady[s] /\ x # e
      BY <1>7, <1>9, NamesAssumption DEF Left, NamesAssumption
    <3>2. e = <<Top, x[1]>> /\ x[1] # Top => x[1] \in on.todo
      BY <1>7, <2>1, <3>1
    <3> QED BY <1>1, <2>1, <2>3, <2>4, <3>1, <3>2 DEF Ahead, Reaping
  <2> QED BY <1>1, <1>2, <1>7, <2>1, <2>2, <2>4, WalkingKeepsSaid
<1>10. CASE /\ e[2] \in Temps
            /\ reap' = [reap EXCEPT ![s] = [place |-> e[1], name |-> e[2], parent |-> None]]
            /\ GoTo(s, IF kind[s].rooted THEN "pin" ELSE "look")
            /\ walk' = [walk EXCEPT ![s] = rest]
            /\ UNCHANGED outcome
  <2>1. reap'[s].place = e[1] /\ reap'[s].name = e[2]
    BY <1>10 DEF IInv, CtlOK
  <2>2. walk'[s] = rest
    BY <1>10 DEF IInv, CtlOK
  <2>3. pc'[s] = IF kind[s].rooted THEN "pin" ELSE "look"
    BY <1>10 DEF IInv, CtlOK, GoTo
  <2>4. /\ Left(s)' = Left(s)
        /\ \A x : /\ Resolve(x[1])' = Resolve(x[1])
                  /\ InDir(Resolve(x[1]), x[2])' = InDir(Resolve(x[1]), x[2])
                  /\ There(x)' <=> There(x)
    BY <1>2, LeftStays
  <2>5. \A x \in steady[s] :
          /\ x[1] # Top => at[x[1]] \in Dirs
          /\ There(x) => InDir(Resolve(x[1]), x[2]) \in stale \ Specials
    BY DEF SaidOK, SteadyOK
  <2>6. SteadyOK(s)'
    BY <1>2, <1>4, <1>7, <2>2, <2>3, <2>4, <2>5 DEF SteadyOK
  <2>7. RoomOK(s)'
    BY <1>1, <1>4, <1>7, <1>10, <2>2, <2>3 DEF SaidOK, RoomOK
  <2>8. ASSUME NEW x \in Left(s), Ahead(s, x)
        PROVE  Ahead(s, x)'
    <3>1. x \in steady[s] /\ (x[1] # Top => e # <<Top, x[1]>>)
      BY <1>7, <1>10, NamesAssumption DEF Left, NamesAssumption
    <3> QED BY <1>1, <1>4, <1>6, <2>1, <2>2, <2>3, <2>8, <3>1 DEF Ahead, Reaping
  <2>9. BehindOK(s)'
    <3> HIDE DEF Left
    <3> QED BY <1>1, <1>2, <2>4, <2>8, ProgressKeepsBehind
  <2> QED BY <2>6, <2>7, <2>9 DEF SaidOK
<1> QED BY <1>3, <1>8, <1>9, <1>10 DEF rest, down

(* At the end nothing is ahead: all that is left is counted.                *)
LEMMA FinishSaid ==
  ASSUME IInv, NEW s \in Sweeps, SaidOK(s), Finish(s)
  PROVE  SaidOK(s)'
<1>1. /\ UNCHANGED <<at, entry, stale, result>> /\ steady'[s] = steady[s] /\ kind'[s] = kind[s]
  BY DEF Finish, fs, call
<1>2. /\ pc[s] = "walk" /\ walk[s].todo = {} /\ walk[s].handle = None /\ walk[s].batch = {}
      /\ pc'[s] = "idle" /\ walk'[s] = NoWalk /\ NoWalk.handle = None
  BY DEF Finish, Return, GoTo, NoWalk, IInv, CtlOK
<1>3. /\ Left(s)' = Left(s)
      /\ \A x : /\ Resolve(x[1])' = Resolve(x[1])
                /\ InDir(Resolve(x[1]), x[2])' = InDir(Resolve(x[1]), x[2])
                /\ There(x)' <=> There(x)
  BY <1>1, LeftStays
<1>4. SteadyOK(s)'
  BY <1>1, <1>2, <1>3 DEF SaidOK, SteadyOK
<1>5. RoomOK(s)'
  BY <1>2 DEF RoomOK
<1>6. \A e : ~Ahead(s, e)
  BY <1>2 DEF Ahead, Reaping
<1>7. BehindOK(s)'
  <2> HIDE DEF Left
  <2> QED BY <1>1, <1>2, <1>3, <1>6, ProgressKeepsBehind
<1> QED BY <1>4, <1>5, <1>7 DEF SaidOK

(* At the beginning all is ahead.                                           *)
LEMMA StartSaid ==
  ASSUME IInv, DirIsLink = FALSE, NEW s \in Sweeps, SaidOK(s), NEW k \in Kinds,
         NEW done \in BOOLEAN, Start(s, k, done)
  PROVE  SaidOK(s)'
<1>1. /\ pc[s] = "idle" /\ walk[s] = NoWalk /\ UNCHANGED <<at, entry, stale>>
      /\ kind'[s] = k /\ steady'[s] = Orphans(k)
      /\ result'[s] = [c \in Counts |-> 0]
  BY DEF Start, SaidOK, RoomOK, fs, IInv, CtlOK, ResultOK
<1>2. \/ done /\ pc'[s] = "idle" /\ walk'[s] = NoWalk /\ outcome'[s] # "done"
      \/ /\ pc'[s] = "walk" /\ walk'[s] = [NoWalk EXCEPT !.todo = {Top}]
         /\ outcome'[s] = "none"
  BY <1>1 DEF Start, GoTo, IInv, CtlOK
<1>3. walk'[s].handle = None
  BY <1>2 DEF NoWalk
<1>4. \A x : /\ Resolve(x[1])' = Resolve(x[1])
             /\ InDir(Resolve(x[1]), x[2])' = InDir(Resolve(x[1]), x[2])
  <2>1. \A x : Resolve(x[1])' = Resolve(x[1])
    BY <1>1 DEF Resolve
  <2> QED BY <1>1, <2>1 DEF InDir
<1>5. SteadyOK(s)'
  BY <1>1, <1>2, <1>3, <1>4 DEF SteadyOK, Orphans
<1>6. RoomOK(s)'
  BY <1>2, <1>3 DEF RoomOK
<1>7. BehindOK(s)'
  <2>1. CASE done /\ pc'[s] = "idle" /\ outcome'[s] # "done"
    BY <2>1 DEF BehindOK
  <2>2. CASE pc'[s] = "walk" /\ walk'[s] = [NoWalk EXCEPT !.todo = {Top}]
    <3>1. walk'[s].todo = {Top}
      BY <2>2 DEF NoWalk
    <3>2. \A e \in steady'[s] : Ahead(s, e)'
      BY <3>1 DEF Ahead
    <3>3. Behind(s)' = {}
      BY <3>2 DEF Behind, Left
    <3>4. result'[s]["failed"] = 0
      BY <1>1 DEF Counts
    <3> QED BY <3>3, <3>4, FS_EmptySet DEF BehindOK
  <2> QED BY <1>2, <2>1, <2>2
<1> QED BY <1>5, <1>6, <1>7 DEF SaidOK

-----------------------------------------------------------------------------
(* A candidate is passed over or gone, or it is counted as failed.          *)
LEMMA NextEntrySaid ==
  ASSUME IInv, NEW s \in Sweeps, SaidOK(s), pc[s] \in Reaping, OnToNext(s),
         UNCHANGED <<at, stale>>, steady'[s] = steady[s], kind'[s] = kind[s], walk'[s] = walk[s],
         outcome'[s] = outcome[s],
         \A y \in Slots : entry'[y] = entry[y] \/ entry'[y] = None,
         \/ result'[s]["failed"] = result[s]["failed"]
            /\ result'[s]["unreadable"] = result[s]["unreadable"]
            /\ \A e \in steady[s] : e = <<reap[s].place, reap[s].name>> => ~There(e)'
         \/ Count(s, "failed")
  PROVE  SaidOK(s)'
<1>1. pc'[s] = "walk"
  BY DEF OnToNext, GoTo, IInv, CtlOK
<1>2. steady[s] \subseteq Places \X Temps
  BY DEF IInv, CtlOK
<1>3. ASSUME NEW e \in steady[s]
      PROVE  /\ Resolve(e[1])' = Resolve(e[1])
             /\ There(e)' => There(e) /\ InDir(Resolve(e[1]), e[2])' = InDir(Resolve(e[1]), e[2])
  <2>1. Resolve(e[1])' = Resolve(e[1])
    BY DEF Resolve
  <2>2. Resolve(e[1]) \in AllDirs \cup {None} /\ e[2] \in Temps
    BY <1>2, ResolveIsDir DEF IInv, FsOK
  <2>3. ASSUME There(e)'
        PROVE  There(e) /\ InDir(Resolve(e[1]), e[2])' = InDir(Resolve(e[1]), e[2])
    <3>1. Resolve(e[1]) # None /\ <<Resolve(e[1]), e[2]>> \in Slots
      BY <2>1, <2>2, <2>3 DEF There, InDir, Slots
    <3>2. entry'[<<Resolve(e[1]), e[2]>>] # None
      BY <2>1, <2>3, <3>1 DEF There, InDir
    <3> QED BY <2>1, <3>1, <3>2 DEF There, InDir
  <2> QED BY <2>1, <2>3
<1>4. SteadyOK(s)'
  BY <1>1, <1>3 DEF SaidOK, SteadyOK, Reaping
<1>5. RoomOK(s)'
  BY <1>1 DEF SaidOK, RoomOK, Reaping
<1>6. \A e \in Left(s)' : /\ e \in Left(s)
                          /\ e # <<reap[s].place, reap[s].name>> /\ Ahead(s, e) => Ahead(s, e)'
  BY <1>1, <1>3 DEF Left, Ahead
<1>7. BehindOK(s)'
  <2>1. CASE Count(s, "failed")
    BY <1>6, <2>1, FailureKeepsBehind DEF Reaping
  <2>2. CASE /\ result'[s]["failed"] = result[s]["failed"]
             /\ result'[s]["unreadable"] = result[s]["unreadable"]
             /\ \A e \in steady[s] : e = <<reap[s].place, reap[s].name>> => ~There(e)'
    <3>1. \A e \in Left(s)' : e # <<reap[s].place, reap[s].name>>
      BY <2>2 DEF Left
    <3> HIDE DEF Left
    <3> QED BY <1>6, <2>2, <3>1, ProgressKeepsBehind DEF Reaping
  <2> QED BY <2>1, <2>2
<1> QED BY <1>4, <1>5, <1>7 DEF SaidOK

(* The candidate in hand keeps its place: a step from pin to look, from     *)
(* look to remove.                                                          *)
LEMMA InHandSaid ==
  ASSUME IInv, NEW s \in Sweeps, SaidOK(s), pc[s] \in Reaping, pc'[s] \in Reaping,
         UNCHANGED <<at, entry, stale>>, steady'[s] = steady[s], kind'[s] = kind[s],
         walk'[s] = walk[s], result'[s] = result[s], outcome'[s] = outcome[s],
         reap'[s].place = reap[s].place, reap'[s].name = reap[s].name,
         \A e \in steady[s] :
            pc'[s] \in {"look", "remove"} /\ kind[s].rooted /\ e[1] = reap[s].place
               => reap'[s].parent = Resolve(e[1])
  PROVE  SaidOK(s)'
<1>1. /\ Left(s)' = Left(s)
      /\ \A x : /\ Resolve(x[1])' = Resolve(x[1])
                /\ InDir(Resolve(x[1]), x[2])' = InDir(Resolve(x[1]), x[2])
                /\ There(x)' <=> There(x)
  BY LeftStays
<1>2. SteadyOK(s)'
  BY <1>1 DEF SaidOK, SteadyOK, Reaping
<1>3. RoomOK(s)'
  BY DEF SaidOK, RoomOK, Reaping
<1>4. \A e : Ahead(s, e) => Ahead(s, e)'
  BY DEF Ahead
<1>5. BehindOK(s)'
  <2> HIDE DEF Left
  <2> QED BY <1>1, <1>4, ProgressKeepsBehind DEF Reaping
<1> QED BY <1>2, <1>3, <1>5 DEF SaidOK

LEMMA PinSaid ==
  ASSUME IInv, NEW s \in Sweeps, SaidOK(s), Pin(s)
  PROVE  SaidOK(s)'
<1> DEFINE p == reap[s].place
           d == IF p = Top THEN Top ELSE at[p]
<1>1. /\ pc[s] = "pin" /\ UNCHANGED <<at, entry, stale>> /\ steady'[s] = steady[s]
      /\ kind'[s] = kind[s] /\ walk'[s] = walk[s] /\ outcome'[s] = outcome[s]
  BY DEF Pin, fs, call
<1>2. \A e \in steady[s] : e[1] # Top => at[e[1]] \in Dirs
  BY DEF SaidOK, SteadyOK
<1>3. CASE d \in AllDirs /\ reap' = [reap EXCEPT ![s].parent = d] /\ GoTo(s, "look") /\ UNCHANGED result
  <2>1. reap'[s].place = p /\ reap'[s].name = reap[s].name /\ reap'[s].parent = d /\ pc'[s] = "look"
    BY <1>3 DEF GoTo, IInv, CtlOK, Reaps
  <2>2. \A e \in steady[s] : e[1] = p => d = Resolve(e[1])
    BY <1>2 DEF Resolve
  <2> HIDE DEF d
  <2> QED BY <1>1, <1>3, <2>1, <2>2, InHandSaid DEF Reaping
<1>4. CASE Resolve(p) = None /\ Done(s)
  <2>1. ASSUME NEW e \in steady[s], e = <<p, reap[s].name>>
        PROVE  ~There(e)'
    <3>1. Resolve(e[1])' = Resolve(e[1])
      BY <1>1 DEF Resolve
    <3> QED BY <1>4, <2>1, <3>1 DEF There, InDir
  <2> QED BY <1>1, <1>4, <2>1, NextEntrySaid DEF Done, Reaping
<1>5. CASE Failed(s)
  BY <1>1, <1>5, NextEntrySaid DEF Failed, Reaping
<1> QED BY <1>3, <1>4, <1>5 DEF Pin

(* Where an old temp was throughout, that is what the sweep looks at.       *)
LEMMA CandidateIsSteady ==
  ASSUME NEW s \in Sweeps, SteadyOK(s), pc[s] \in {"look", "remove"},
         <<reap[s].place, reap[s].name>> \in steady[s]
  PROVE  Parent(s) = Resolve(reap[s].place)
BY DEF SteadyOK, Parent

LEMMA LookSaid ==
  ASSUME IInv, NEW s \in Sweeps, SaidOK(s), Look(s)
  PROVE  SaidOK(s)'
<1>0. PICK x : x = <<reap[s].place, reap[s].name>>
  OBVIOUS
<1>1. /\ pc[s] = "look" /\ UNCHANGED <<at, entry, stale>> /\ steady'[s] = steady[s]
      /\ kind'[s] = kind[s] /\ walk'[s] = walk[s] /\ outcome'[s] = outcome[s]
  BY DEF Look, fs, call
<1>2. CASE GoTo(s, "remove") /\ UNCHANGED <<result, reap>>
  <2>1. pc'[s] = "remove"
    BY <1>2 DEF GoTo, IInv, CtlOK
  <2>2. \A e \in steady[s] : kind[s].rooted /\ e[1] = reap[s].place => reap'[s].parent = Resolve(e[1])
    BY <1>1, <1>2 DEF SaidOK, SteadyOK
  <2> QED BY <1>1, <1>2, <2>1, <2>2, InHandSaid DEF Reaping
<1>3. CASE Candidate(s) \notin stale \ Specials /\ Done(s)
  <2>1. x \in steady[s] => ~There(x)
    <3>1. x \in steady[s] => Candidate(s) = InDir(Resolve(x[1]), x[2])
      BY <1>0, <1>1, CandidateIsSteady DEF SaidOK, Candidate
    <3> QED BY <1>3, <3>1 DEF SaidOK, SteadyOK
  <2>2. There(x)' <=> There(x)
    BY <1>1, LeftStays
  <2> QED BY <1>0, <1>1, <1>3, <2>1, <2>2, NextEntrySaid DEF Done, Reaping
<1>4. CASE Failed(s)
  BY <1>1, <1>4, NextEntrySaid DEF Failed, Reaping
<1> QED BY <1>2, <1>3, <1>4 DEF Look

LEMMA RemoveSaid ==
  ASSUME IInv, NoneAssumption, NEW s \in Sweeps, SaidOK(s), Remove(s)
  PROVE  SaidOK(s)'
<1>0. PICK x : x = <<reap[s].place, reap[s].name>>
  OBVIOUS
<1>1. /\ pc[s] = "remove" /\ UNCHANGED <<at, stale>> /\ steady'[s] = steady[s]
      /\ kind'[s] = kind[s] /\ walk'[s] = walk[s] /\ outcome'[s] = outcome[s]
  BY DEF Remove
<1>2. x \in steady[s] => Parent(s) = Resolve(x[1])
  BY <1>0, <1>1, CandidateIsSteady DEF SaidOK
<1>3. Resolve(x[1])' = Resolve(x[1])
  BY <1>1 DEF Resolve
<1>4. CASE /\ Candidate(s) # None
           /\ entry' = [entry EXCEPT ![<<Parent(s), reap[s].name>>] = None]
           /\ OnToNext(s) /\ Count(s, "removed")
  <2> DEFINE y == <<Parent(s), reap[s].name>>
  <2>1. y \in Slots
    BY <1>1, <1>4, CandidateHasParent
  <2>2. entry'[y] = None /\ \A z \in Slots : entry'[z] = entry[z] \/ entry'[z] = None
    <3> HIDE DEF y
    <3>1. entry' = [entry EXCEPT ![y] = None]
      BY <1>4 DEF y
    <3> QED BY <2>1, <3>1, UnlinkKeepsContents DEF IInv, FsOK
  <2>3. x \in steady[s] => ~There(x)'
    <3>1. x \in steady[s] => y = <<Resolve(x[1]), x[2]>>
      BY <1>0, <1>2
    <3> HIDE DEF y
    <3> QED BY <1>3, <2>2, <3>1 DEF There, InDir
  <2>4. /\ result'[s]["failed"] = result[s]["failed"]
        /\ result'[s]["unreadable"] = result[s]["unreadable"]
    BY <1>4, CountIsCount DEF IInv, Counts
  <2> HIDE DEF y
  <2> QED BY <1>0, <1>1, <1>4, <2>2, <2>3, <2>4, NextEntrySaid DEF Reaping
<1>5. CASE Candidate(s) = None /\ Done(s) /\ UNCHANGED entry
  <2>1. x \in steady[s] => ~There(x)
    BY <1>0, <1>2, <1>5 DEF There, Candidate
  <2>2. There(x)' <=> There(x)
    BY <1>1, <1>5, LeftStays
  <2> QED BY <1>0, <1>1, <1>5, <2>1, <2>2, NextEntrySaid DEF Done, Reaping
<1>6. CASE Failed(s) /\ UNCHANGED entry
  BY <1>1, <1>6, NextEntrySaid DEF Failed, Reaping
<1> QED BY <1>4, <1>5, <1>6 DEF Remove

-----------------------------------------------------------------------------
(* The other sweeps, and the environment *)

LEMMA StepLeavesOthers ==
  ASSUME IInv, NoneAssumption, NEW s \in Sweeps, Step(s), NEW v \in Sweeps, v # s
  PROVE  /\ Same(v) /\ UNCHANGED <<at, stale>> /\ steady'[v] = steady[v]
         /\ \A y \in Slots : entry'[y] = entry[y] \/ entry'[y] = None
<1>1. /\ pc'[v] = pc[v] /\ kind'[v] = kind[v] /\ walk'[v] = walk[v] /\ outcome'[v] = outcome[v]
      /\ reap'[v] = reap[v]
  <2>1. CASE OpenDir(s)
    BY <2>1 DEF OpenDir, DirFailure, Return, Walk, GoTo, call, IInv, CtlOK
  <2>2. CASE ReadBatch(s)
    BY <2>2 DEF ReadBatch, DirFailure, Return, Walk, GoTo, call, IInv, CtlOK
  <2>3. CASE Visit(s)
    BY <2>3 DEF Visit, Return, Walk, GoTo, call, IInv, CtlOK
  <2>4. CASE Finish(s)
    BY <2>4 DEF Finish, Return, GoTo, call, IInv, CtlOK
  <2>5. CASE Pin(s)
    BY <2>5 DEF Pin, Done, Failed, OnToNext, GoTo, call, IInv, CtlOK
  <2>6. CASE Look(s)
    BY <2>6 DEF Look, Done, Failed, OnToNext, GoTo, call, IInv, CtlOK
  <2>7. CASE Remove(s)
    BY <2>7 DEF Remove, Done, Failed, OnToNext, GoTo, IInv, CtlOK
  <2> QED BY <2>1, <2>2, <2>3, <2>4, <2>5, <2>6, <2>7 DEF Step
<1>2. result'[v] = result[v]
  <2>1. UNCHANGED result \/ \E c \in Counts : Count(s, c)
    BY DEF Step, OpenDir, ReadBatch, Visit, Finish, Pin, Look, Remove, DirFailure, Done, Failed, Counts
  <2> QED BY <2>1, CountIsCount DEF IInv
<1>3. UNCHANGED <<at, stale, steady>>
  BY DEF Step, OpenDir, ReadBatch, Visit, Finish, Pin, Look, Remove, fs, call
<1>4. \A y \in Slots : entry'[y] = entry[y] \/ entry'[y] = None
  <2>1. UNCHANGED entry \/ (Remove(s) /\ Candidate(s) # None)
    BY DEF Step, OpenDir, ReadBatch, Visit, Finish, Pin, Look, Remove, fs
  <2>2. CASE Remove(s) /\ Candidate(s) # None
    <3> DEFINE x == <<Parent(s), reap[s].name>>
    <3>1. x \in Slots
      BY <2>2, CandidateHasParent DEF Remove
    <3>2. UNCHANGED entry \/ entry' = [entry EXCEPT ![x] = None]
      BY <2>2 DEF Remove
    <3> HIDE DEF x
    <3> QED BY <3>1, <3>2, UnlinkKeepsContents DEF IInv, FsOK
  <2> QED BY <2>1, <2>2
<1> QED BY <1>1, <1>2, <1>3, <1>4 DEF Same

LEMMA StepSaid ==
  ASSUME IInv, NoneAssumption, NEW s \in Sweeps, Step(s), \A u \in Sweeps : SaidOK(u), NEW v \in Sweeps
  PROVE  SaidOK(v)'
<1>1. CASE v = s
  BY <1>1, OpenDirSaid, ReadBatchSaid, VisitSaid, FinishSaid, PinSaid, LookSaid, RemoveSaid DEF Step
<1>2. CASE v # s
  BY <1>2, StepLeavesOthers, LosingKeepsSaid
<1> QED BY <1>1, <1>2

LEMMA StartSaidAll ==
  ASSUME IInv, DirIsLink = FALSE, NEW s \in Sweeps, NEW k \in Kinds, NEW done \in BOOLEAN,
         Start(s, k, done), \A u \in Sweeps : SaidOK(u), NEW v \in Sweeps
  PROVE  SaidOK(v)'
<1>1. CASE v = s
  BY <1>1, StartSaid
<1>2. CASE v # s
  <2>1. Same(v) /\ UNCHANGED <<at, stale, entry>> /\ steady'[v] = steady[v]
    BY <1>2 DEF Start, Same, GoTo, fs, IInv, CtlOK, ResultOK
  <2> QED BY <2>1, LosingKeepsSaid
<1> QED BY <1>1, <1>2

LEMMA StandingStillSaid ==
  ASSUME IInv, NEW v \in Sweeps, SaidOK(v),
         UNCHANGED <<fs, pc, walk, reap, looked, result, outcome, kind, steady>>
  PROVE  SaidOK(v)'
<1>1. Same(v) /\ UNCHANGED <<at, stale, entry>> /\ steady'[v] = steady[v]
  BY DEF Same, fs
<1> QED BY <1>1, LosingKeepsSaid

(* What steps of the environment do not touch is as it was.                 *)
LEMMA UnsettleSpares ==
  ASSUME IInv, NEW places, NEW names, Unsettle(places, names), NEW v \in Sweeps
  PROVE  /\ steady'[v] \subseteq steady[v]
         /\ \A e \in steady'[v] : ~(e[1] \in places /\ e[2] \in names)
BY DEF Unsettle

(* One entry changes, and the steady ones are others.                       *)
LEMMA EntrySaid ==
  ASSUME IInv, NEW v \in Sweeps, SaidOK(v), UNCHANGED <<at, own>>,
         NEW d \in AllDirs, NEW t \in Temps, Unsettle(PlacesOf(d), {t}),
         \A y \in Slots : y # <<d, t>> => /\ entry'[y] = entry[y]
                                          /\ entry[y] \in stale => entry[y] \in stale'
  PROVE  SaidOK(v)'
<1>1. Same(v)
  BY DEF Same, own
<1>2. /\ steady'[v] \subseteq steady[v]
      /\ \A e \in steady'[v] : ~(e[1] \in PlacesOf(d) /\ e[2] = t)
  BY UnsettleSpares
<1>3. ASSUME NEW e \in steady'[v]
      PROVE  /\ Resolve(e[1])' = Resolve(e[1])
             /\ There(e)' => There(e) /\ InDir(Resolve(e[1]), e[2])' \in stale' \ Specials
  <2>1. e[1] \in Places /\ e[2] \in Temps
    BY <1>2 DEF IInv, CtlOK
  <2>2. Resolve(e[1])' = Resolve(e[1]) /\ Resolve(e[1]) \in AllDirs \cup {None}
    BY <2>1, ResolveIsDir DEF Resolve, IInv, FsOK
  <2>3. <<Resolve(e[1]), e[2]>> # <<d, t>>
    BY <1>2, <2>1 DEF PlacesOf
  <2>4. ASSUME There(e)'
        PROVE  There(e) /\ InDir(Resolve(e[1]), e[2])' \in stale' \ Specials
    <3>1. Resolve(e[1]) # None /\ <<Resolve(e[1]), e[2]>> \in Slots
      BY <2>1, <2>2, <2>4 DEF There, InDir, Slots
    <3>2. /\ InDir(Resolve(e[1]), e[2])' = InDir(Resolve(e[1]), e[2])
          /\ InDir(Resolve(e[1]), e[2]) \in stale => InDir(Resolve(e[1]), e[2]) \in stale'
      BY <2>2, <2>3, <3>1 DEF InDir
    <3>3. There(e)
      BY <2>4, <3>2 DEF There
    <3> QED BY <1>2, <3>2, <3>3 DEF SaidOK, SteadyOK
  <2> QED BY <2>2, <2>4
<1> QED BY <1>1, <1>2, <1>3, OthersKeepSaid

LEMMA PutSaid ==
  ASSUME IInv, NEW v \in Sweeps, SaidOK(v),
         NEW d \in AllDirs, NEW t \in Temps, NEW f \in Files, Put(d, t, f)
  PROVE  SaidOK(v)'
<1>1. \A y \in Slots : y # <<d, t>> => /\ entry'[y] = entry[y]
                                       /\ entry[y] \in stale => entry[y] \in stale'
  BY DEF Put, Slots, IInv, FsOK, Contents
<1> QED BY <1>1, EntrySaid DEF Put, own

LEMMA TakeSaid ==
  ASSUME IInv, NEW v \in Sweeps, SaidOK(v), NEW d \in AllDirs, NEW t \in Temps, Take(d, t)
  PROVE  SaidOK(v)'
<1>1. \A y \in Slots : y # <<d, t>> => /\ entry'[y] = entry[y]
                                       /\ entry[y] \in stale => entry[y] \in stale'
  BY DEF Take, Slots, IInv, FsOK, Contents
<1> QED BY <1>1, EntrySaid DEF Take, own

LEMMA TouchSaid ==
  ASSUME IInv, NEW v \in Sweeps, SaidOK(v), NEW d \in AllDirs, NEW t \in Temps, Touch(d, t)
  PROVE  SaidOK(v)'
<1>1. ASSUME NEW y \in Slots, y # <<d, t>>
      PROVE  entry'[y] = entry[y] /\ (entry[y] \in stale => entry[y] \in stale')
  <2>1. entry[<<d, t>>] \in Files /\ <<d, t>> \in Slots
    BY DEF Touch, IInv, FsOK, Slots
  <2>2. entry[y] # entry[<<d, t>>]
    BY <1>1, <2>1 DEF IInv, FsOK, Contents, Slots
  <2> QED BY <2>2 DEF Touch
<1> QED BY <1>1, EntrySaid DEF Touch, own

LEMMA RearrangeSaid ==
  ASSUME IInv, NamesAssumption, NEW v \in Sweeps, SaidOK(v), NEW n \in Subdirs, NEW to, Rearrange(n, to)
  PROVE  SaidOK(v)'
<1>1. Same(v) /\ UNCHANGED <<entry, stale>>
  BY DEF Rearrange, Same, own
<1>2. /\ steady'[v] \subseteq steady[v]
      /\ \A e \in steady'[v] : ~(e[1] \in {n} /\ e[2] \in Temps)
  BY UnsettleSpares DEF Rearrange
<1>3. ASSUME NEW e \in steady'[v]
      PROVE  /\ Resolve(e[1])' = Resolve(e[1])
             /\ e[1] # Top => at'[e[1]] = at[e[1]]
             /\ There(e)' => There(e) /\ InDir(Resolve(e[1]), e[2])' \in stale' \ Specials
  <2>1. e \in steady[v] /\ e[1] \in Places /\ e[2] \in Temps
    BY <1>2 DEF IInv, CtlOK
  <2>2. e[1] # n /\ (e[1] # Top => e[1] \in Subdirs)
    BY <1>2, <2>1 DEF Places
  <2>3. e[1] # Top => at'[e[1]] = at[e[1]]
    BY <2>2 DEF Rearrange, IInv, FsOK, Trees
  <2>4. e[1] # Top => at[e[1]] \in Dirs
    BY <2>1 DEF SaidOK, SteadyOK
  <2>5. Resolve(e[1])' = Resolve(e[1])
    BY <2>3, <2>4 DEF Resolve
  <2>6. InDir(Resolve(e[1]), e[2])' = InDir(Resolve(e[1]), e[2])
    BY <1>1, <2>5 DEF InDir
  <2>7. There(e) => InDir(Resolve(e[1]), e[2]) \in stale \ Specials
    BY <2>1 DEF SaidOK, SteadyOK
  <2> QED BY <1>1, <2>3, <2>5, <2>6, <2>7 DEF There
<1> QED BY <1>1, <1>2, <1>3, OthersKeepSaid

LEMMA InitSaid == ASSUME Init, NEW v \in Sweeps PROVE SaidOK(v)
<1>1. /\ pc[v] = "idle" /\ walk[v] = NoWalk /\ outcome[v] = "none" /\ steady[v] = {}
  BY DEF Init
<1> QED BY <1>1 DEF SaidOK, SteadyOK, RoomOK, BehindOK, NoWalk

(* CleanupStaleTemps, CleanupStaleTempsInRoot: a sweep that ends without an *)
(* error has removed every old temp that was there all along, or its counts *)
(* say that it may not have; unless the path it was given was a symlink.    *)
THEOREM NothingIsUnsaid ==
  ASSUME DirIsLink = FALSE
  PROVE  Spec => []NothingLeftUnsaid
<1> DEFINE Said == \A v \in Sweeps : SaidOK(v)
<1>1. Init => Said
  BY InitSaid
<1>2. IInv /\ Said /\ [Next]_vars => Said'
  <2> SUFFICES ASSUME IInv, Said, [Next]_vars, NEW v \in Sweeps PROVE SaidOK(v)'
    OBVIOUS
  <2>1. ASSUME NEW s \in Sweeps, Step(s) PROVE SaidOK(v)'
    BY <2>1, StepSaid, NoneAssumption
  <2>2. ASSUME NEW s \in Sweeps, NEW k \in Kinds, NEW done \in BOOLEAN, Start(s, k, done)
        PROVE  SaidOK(v)'
    BY <2>2, StartSaidAll
  <2>3. ASSUME NEW s \in Sweeps, Cancel(s) PROVE SaidOK(v)'
    BY <2>3, StandingStillSaid DEF Cancel
  <2>4. ASSUME NEW d \in AllDirs, NEW t \in Temps,
               (\E f \in Files : Put(d, t, f)) \/ Take(d, t) \/ Touch(d, t)
        PROVE  SaidOK(v)'
    BY <2>4, PutSaid, TakeSaid, TouchSaid
  <2>5. ASSUME NEW n \in Subdirs, NEW to, Rearrange(n, to) PROVE SaidOK(v)'
    BY <2>5, RearrangeSaid, NamesAssumption
  <2>6. CASE UNCHANGED vars
    BY <2>6, StandingStillSaid DEF vars, fs, call
  <2> QED BY <2>1, <2>2, <2>3, <2>4, <2>5, <2>6 DEF Next
<1>3. IInv /\ Said => NothingLeftUnsaid
  <2> SUFFICES ASSUME IInv, Said, NEW s \in Sweeps, outcome[s] = "done", result[s]["unreadable"] = 0
               PROVE  Cardinality(Left(s)) <= result[s]["failed"]
    BY DEF NothingLeftUnsaid, Left, There
  <2>1. IsFiniteSet(Behind(s)) /\ Cardinality(Behind(s)) <= result[s]["failed"]
    BY DEF SaidOK, BehindOK
  <2>2. CASE pc[s] = "idle"
    <3>1. walk[s].todo = {} /\ walk[s].handle = None /\ walk[s].batch = {}
      BY <2>2 DEF SaidOK, RoomOK, NoWalk
    <3>2. \A e : ~Ahead(s, e)
      BY <2>2, <3>1 DEF Ahead, Reaping
    <3>3. Behind(s) = Left(s)
      BY <3>2 DEF Behind, Left
    <3> QED BY <2>1, <3>3
  <2>3. CASE pc[s] # "idle"
    BY <2>3 DEF SaidOK, RoomOK
  <2> QED BY <2>2, <2>3
<1> HIDE DEF Said
<1> QED BY Inductive, <1>1, <1>2, <1>3, PTL DEF Spec

(* The callbacks of both walks and the batch loop look at the context: a    *)
(* sweep that is cancelled takes no further candidate in hand, but for the  *)
(* flat one by path.                                                        *)
THEOREM StopIsProven == Spec => StopsUnlessFlat
<1> DEFINE Stopping(s) == cancelled[s] /\ pc[s] \in {"idle", "walk"}
                          /\ (kind[s].rooted \/ kind[s].recursive)
<1>1. ASSUME IInv, NEW s \in Sweeps, Stopping(s), Step(s)
      PROVE  pc'[s] \notin {"pin", "look"}
  <2>1. CASE OpenDir(s)
    BY <1>1, <2>1 DEF OpenDir, DirFailure, Return, Walk, GoTo, IInv, CtlOK
  <2>2. CASE ReadBatch(s)
    BY <1>1, <2>2 DEF ReadBatch, DirFailure, Return, Walk, GoTo, IInv, CtlOK
  <2>3. CASE Visit(s)
    BY <1>1, <2>3 DEF Visit, Stops, Return, GoTo, IInv, CtlOK
  <2>4. CASE Finish(s)
    BY <2>4 DEF Finish, Return, GoTo, IInv, CtlOK
  <2>5. CASE Pin(s) \/ Look(s) \/ Remove(s)
    BY <1>1, <2>5 DEF Pin, Look, Remove
  <2> QED BY <1>1, <2>1, <2>2, <2>3, <2>4, <2>5 DEF Step
<1>2. ASSUME IInv, Next, NEW s \in Sweeps, Stopping(s)
      PROVE  pc'[s] \notin {"pin", "look"}
  <2>1. ASSUME NEW v \in Sweeps, Step(v) PROVE pc'[s] \notin {"pin", "look"}
    <3>1. CASE v = s
      BY <1>1, <1>2, <2>1, <3>1
    <3>2. CASE v # s
      BY <1>2, <2>1, <3>2, NoneAssumption, StepLeavesOthers DEF Same
    <3> QED BY <3>1, <3>2
  <2>2. ASSUME NEW v \in Sweeps, NEW k \in Kinds, NEW done \in BOOLEAN, Start(v, k, done)
        PROVE  pc'[s] \notin {"pin", "look"}
    BY <1>2, <2>2 DEF Start, GoTo, IInv, CtlOK
  <2>3. CASE UNCHANGED pc
    BY <1>2, <2>3
  <2> QED BY <1>2, <2>1, <2>2, <2>3 DEF Next, Cancel, Put, Take, Touch, Rearrange, own
<1>3. IInv /\ [Next]_vars
        => [\A s \in Sweeps : Stopping(s) => pc'[s] \notin {"pin", "look"}]_vars
  BY <1>2
<1> QED BY Inductive, <1>3, PTL DEF Spec, StopsUnlessFlat

=============================================================================
