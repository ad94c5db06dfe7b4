----------------------------- MODULE StaleSweep -----------------------------
(***************************************************************************)
(* The stale-temp sweeps, CleanupStaleTemps (cleanup.go) and               *)
(* CleanupStaleTempsInRoot (cleanuproot.go), flat and WithRecursive,       *)
(* against the writers whose temps they meet and against whoever moves the *)
(* directories of the swept tree about.                                    *)
(*                                                                         *)
(* The tree is the swept directory and one level of directories below it.  *)
(* Entries are visited in any order.  A temp is old or not; time does not  *)
(* pass far enough for one to grow old during a run.                       *)
(***************************************************************************)
EXTENDS FiniteSets, Naturals

CONSTANTS
    Sweeps,      \* the goroutines or processes that sweep
    Kinds,       \* the forms of sweep a run makes
    Top,         \* the swept directory
    Subdirs,     \* names of directories in it
    Dirs,        \* the directories those names may lead to
    Temps,       \* names of the shape .atomicfile-<digits>.tmp
    Files,       \* what may be found under them
    Specials,    \* those that are no regular files: nobody makes them anew
    None,        \* nothing
    Rearranged,  \* whether others move directories about
    DirIsLink    \* whether the path given is a symlink to the directory

Forms == [rooted: BOOLEAN, recursive: BOOLEAN]
Places == {Top} \cup Subdirs
AllDirs == {Top} \cup Dirs

ASSUME KindsAssumption == Kinds \subseteq Forms
ASSUME NamesAssumption == Subdirs \cap Dirs = {} /\ Top \notin Subdirs \cup Dirs /\ Temps \cap Subdirs = {}
ASSUME NoneAssumption == None \notin Files \cup Dirs \cup Subdirs \cup {Top}
ASSUME FilesAssumption == Specials \subseteq Files /\ IsFiniteSet(Files)
ASSUME FlagsAssumption == Rearranged \in BOOLEAN /\ DirIsLink \in BOOLEAN

PCs == {"idle", "walk", "pin", "look", "remove"}
Outcomes == {"none", "done", "cancelled", "error"}
Counts == {"removed", "failed", "unreadable"}

VARIABLES
    at,         \* what a name in the swept directory leads to: a directory,
                \* another name (a symlink), or nothing
    entry,      \* the file under each temp name of each directory
    stale,      \* the files last written before the cutoff
    pc,         \* where each sweep stands
    kind,       \* its form
    walk,       \* its walk: places to read, the one it reads, the directory it
                \* has open, names read from it, entries still to be visited
    reap,       \* its candidate: place and name, and the pinned parent
    result,     \* SweepResult
    outcome,    \* how its last call ended
    cancelled,  \* whether its context is done
    looked,     \* history: the entry it is about to unlink, as inspected
    reaped,     \* history: files it unlinked
    steady,     \* history: old temps that were in the tree all through its call
    moved,      \* history: sweeps by path during which a directory was moved
    risked      \* history: files that came under a name, or were written, while
                \* a sweep was between inspecting that name and unlinking it

fs == <<at, entry, stale>>
call == <<kind, cancelled, reaped, steady, moved>>
vars == <<fs, pc, walk, reap, looked, result, outcome, call, risked>>

NoWalk == [todo |-> {}, place |-> None, handle |-> None, seen |-> {}, batch |-> {}]
NoReap == [place |-> None, name |-> None, parent |-> None]

(* What can be found where. *)
Trees == {a \in [Subdirs -> Dirs \cup Subdirs \cup {None}] :
            \A m, n \in Subdirs : a[m] = a[n] /\ a[m] \in Dirs => m = n}
Contents == {c \in [AllDirs \X Temps -> Files \cup {None}] :
               \A x, y \in AllDirs \X Temps : c[x] = c[y] /\ c[x] \in Files => x = y}

Init ==
    /\ at \in {a \in Trees : Rearranged \/ \A n \in Subdirs : a[n] \in Dirs \cup {None}}
    /\ entry \in Contents
    /\ stale \in SUBSET Files
    /\ pc = [s \in Sweeps |-> "idle"]
    /\ kind = [s \in Sweeps |-> None]
    /\ walk = [s \in Sweeps |-> NoWalk]
    /\ reap = [s \in Sweeps |-> NoReap]
    /\ result = [s \in Sweeps |-> [c \in Counts |-> 0]]
    /\ outcome = [s \in Sweeps |-> "none"]
    /\ cancelled = [s \in Sweeps |-> FALSE]
    /\ looked = [s \in Sweeps |-> None]
    /\ reaped = [s \in Sweeps |-> {}]
    /\ steady = [s \in Sweeps |-> {}]
    /\ moved = {}
    /\ risked = {}

-----------------------------------------------------------------------------
(* Helpers *)

(* The directory a path leads to, symlinks followed. *)
Resolve(p) ==
    IF p = Top THEN Top
    ELSE IF at[p] \in Dirs THEN at[p]
    ELSE IF at[p] \in Subdirs /\ at[at[p]] \in Dirs THEN at[at[p]]
    ELSE None

(* Mutant: the candidate is named by its whole path again. *)
ParentByPath(s) == Resolve(reap[s].place)

(* Where Lstat and Remove look: the pinned parent, or the joined path.      *)
Parent(s) == IF kind[s].rooted THEN reap[s].parent ELSE Resolve(reap[s].place)

InDir(d, t) == IF d = None THEN None ELSE entry[<<d, t>>]

(* What is under the candidate's name. *)
Candidate(s) == InDir(Parent(s), reap[s].name)

(* filepath.WalkDir reads a directory whole before it visits anything in it. *)
ReadsWhole(s) == ~kind[s].rooted /\ kind[s].recursive

(* Mutant: the context is looked at between directories only. *)
StopsLate(s) == cancelled[s] /\ kind[s].rooted /\ walk[s].batch = {}

(* The callbacks of both walks look at the context, the flat loop does not.  *)
Stops(s) == cancelled[s] /\ (kind[s].rooted \/ kind[s].recursive)

GoTo(s, label) == pc' = [pc EXCEPT ![s] = label]
Count(s, c) == result' = [result EXCEPT ![s][c] = @ + 1]

(* The call returns; its handles are closed. *)
Return(s, how) ==
    /\ GoTo(s, "idle")
    /\ outcome' = [outcome EXCEPT ![s] = how]
    /\ walk' = [walk EXCEPT ![s] = NoWalk]

(* The walk goes on. *)
Walk(s, w) ==
    /\ walk' = [walk EXCEPT ![s] = w]
    /\ UNCHANGED <<pc, outcome>>

(* Old temps that a sweep of form k, now beginning, is there to remove. *)
Orphans(k) ==
    {e \in Places \X Temps :
        /\ e[1] # Top => k.recursive /\ at[e[1]] \in Dirs
        /\ InDir(Resolve(e[1]), e[2]) \in stale \ Specials}

-----------------------------------------------------------------------------
(* The walk *)

(* CleanupStaleTemps, CleanupStaleTempsInRoot: a done context does no work;  *)
(* filepath.WalkDir does not follow a symlink it is started on.              *)
Start(s, k, done) ==
    LET first == IF ~k.rooted /\ k.recursive /\ DirIsLink THEN {} ELSE {Top} IN
    /\ pc[s] = "idle"
    /\ kind' = [kind EXCEPT ![s] = k]
    /\ cancelled' = [cancelled EXCEPT ![s] = done]
    /\ result' = [result EXCEPT ![s] = [c \in Counts |-> 0]]
    /\ reaped' = [reaped EXCEPT ![s] = {}]
    /\ steady' = [steady EXCEPT ![s] = Orphans(k)]
    /\ moved' = moved \ {s}
    /\ IF done
       THEN outcome' = [outcome EXCEPT ![s] = "cancelled"] /\ UNCHANGED <<pc, walk>>
       ELSE /\ GoTo(s, "walk")
            /\ outcome' = [outcome EXCEPT ![s] = "none"]
            /\ walk' = [walk EXCEPT ![s].todo = first]
    /\ UNCHANGED <<fs, reap, looked, risked>>

(* A directory cannot be opened, or read to its end: fatal for the swept     *)
(* directory itself, counted for one below it.                               *)
DirFailure(s, p, w) ==
    \/ Stops(s) /\ Return(s, "cancelled") /\ UNCHANGED result
    \/ ~Stops(s) /\ p = Top /\ Return(s, "error") /\ UNCHANGED result
    \/ ~Stops(s) /\ p # Top /\ Walk(s, w) /\ Count(s, "unreadable")

(* The next directory is opened, by its path.                                *)
OpenDir(s) ==
    /\ pc[s] = "walk" /\ walk[s].handle = None
    /\ ReadsWhole(s) \/ walk[s].batch = {}
    /\ \E p \in walk[s].todo :
        LET rest == [walk[s] EXCEPT !.todo = @ \ {p}] IN
        \/ /\ Resolve(p) # None
           /\ Walk(s, [rest EXCEPT !.place = p, !.handle = Resolve(p), !.seen = {}])
           /\ UNCHANGED result
        \/ DirFailure(s, p, rest)
    /\ UNCHANGED <<fs, reap, looked, call, risked>>

(* What readdir may return next. *)
Unread(s) ==
    {n \in (Temps \cup Subdirs) \ walk[s].seen :
        IF n \in Temps THEN InDir(walk[s].handle, n) # None
                       ELSE walk[s].handle = Top /\ at[n] # None}

(* Of that the walk keeps temps, and what was a directory when it was read.  *)
Dirents(s, names) == {walk[s].place} \X {n \in names : n \in Temps \/ at[n] \in Dirs}

Closed(s) == [walk[s] EXCEPT !.place = None, !.handle = None, !.seen = {}]

(* Mutant: every batch is read from the directory's start again. *)
ReadBatchRewinds(s) ==
    /\ pc[s] = "walk" /\ walk[s].handle # None
    /\ ReadsWhole(s) \/ walk[s].batch = {}
    /\ \/ \E some \in SUBSET Unread(s) \ {{}} :
            Walk(s, [walk[s] EXCEPT !.batch = @ \cup Dirents(s, some)])
       \/ Unread(s) = {} /\ Walk(s, Closed(s))
    /\ UNCHANGED <<fs, result, reap, looked, call, risked>>

(* One ReadDir of the open directory, its end, or a failure of it.           *)
ReadBatch(s) ==
    /\ pc[s] = "walk" /\ walk[s].handle # None
    /\ ReadsWhole(s) \/ walk[s].batch = {}
    /\ IF cancelled[s] /\ ~ReadsWhole(s)
       THEN Return(s, "cancelled") /\ UNCHANGED result
       ELSE \/ \E some \in SUBSET Unread(s) \ {{}} :
                 /\ Walk(s, [walk[s] EXCEPT !.seen = @ \cup some,
                                            !.batch = @ \cup Dirents(s, some)])
                 /\ UNCHANGED result
            \/ Unread(s) = {} /\ Walk(s, Closed(s)) /\ UNCHANGED result
            \/ DirFailure(s, walk[s].place, Closed(s))
    /\ UNCHANGED <<fs, reap, looked, call, risked>>

(* One entry: a directory is descended into under WithRecursive only, a name *)
(* of the package's shape is a candidate.                                    *)
Visit(s) ==
    /\ pc[s] = "walk"
    /\ ReadsWhole(s) => walk[s].handle = None
    /\ \E e \in walk[s].batch :
        LET rest == [walk[s] EXCEPT !.batch = @ \ {e}] IN
        \/ Stops(s) /\ Return(s, "cancelled") /\ UNCHANGED reap
        \/ /\ ~Stops(s) /\ e[2] \in Subdirs
           /\ Walk(s, IF kind[s].recursive THEN [rest EXCEPT !.todo = @ \cup {e[2]}] ELSE rest)
           /\ UNCHANGED reap
        \/ /\ ~Stops(s) /\ e[2] \in Temps
           /\ reap' = [reap EXCEPT ![s] = [place |-> e[1], name |-> e[2], parent |-> None]]
           /\ GoTo(s, IF kind[s].rooted THEN "pin" ELSE "look")
           /\ walk' = [walk EXCEPT ![s] = rest]
           /\ UNCHANGED outcome
    /\ UNCHANGED <<fs, looked, result, call, risked>>

(* Nothing is left to read or to visit. *)
Finish(s) ==
    /\ pc[s] = "walk" /\ walk[s].todo = {} /\ walk[s].handle = None /\ walk[s].batch = {}
    /\ Return(s, "done")
    /\ UNCHANGED <<fs, reap, looked, result, call, risked>>

-----------------------------------------------------------------------------
(* One candidate: reapStaleTemp, reapStaleTempInRoot *)

(* On to the next entry. *)
OnToNext(s) ==
    /\ GoTo(s, "walk")
    /\ reap' = [reap EXCEPT ![s] = NoReap]
    /\ looked' = [looked EXCEPT ![s] = None]

Done(s) == OnToNext(s) /\ UNCHANGED result
Failed(s) == OnToNext(s) /\ Count(s, "failed")

(* OpenParentInRoot: the directory itself, never through a symlink, is       *)
(* opened; one that is gone by the time it is opened is benign.              *)
Pin(s) ==
    LET p == reap[s].place
        d == IF p = Top THEN Top ELSE at[p] IN
    /\ pc[s] = "pin"
    /\ \/ /\ d \in AllDirs
          /\ reap' = [reap EXCEPT ![s].parent = d]
          /\ GoTo(s, "look")
          /\ UNCHANGED <<result, looked>>
       \/ Resolve(p) = None /\ Done(s)
       \/ Failed(s)
    /\ UNCHANGED <<fs, walk, outcome, call, risked>>

(* Mutant: a temp that cannot be inspected is passed over. *)
LookShrugs(s) ==
    /\ pc[s] = "look"
    /\ \/ /\ Candidate(s) \in stale \ Specials
          /\ looked' = [looked EXCEPT ![s] = <<Parent(s), reap[s].name>>]
          /\ GoTo(s, "remove")
          /\ UNCHANGED <<result, reap>>
       \/ Done(s)
    /\ UNCHANGED <<fs, walk, outcome, call, risked>>

(* The fresh Lstat: gone is benign, no regular file or too recent is spared. *)
Look(s) ==
    /\ pc[s] = "look"
    /\ \/ /\ Candidate(s) \in stale \ Specials
          /\ looked' = [looked EXCEPT ![s] = <<Parent(s), reap[s].name>>]
          /\ GoTo(s, "remove")
          /\ UNCHANGED <<result, reap>>
       \/ Candidate(s) \notin stale \ Specials /\ Done(s)
       \/ Failed(s)
    /\ UNCHANGED <<fs, walk, outcome, call, risked>>

(* Mutant: a temp that is already gone counts as removed. *)
RemoveCountsGone(s) ==
    /\ pc[s] = "remove" /\ Candidate(s) = None
    /\ OnToNext(s) /\ Count(s, "removed")
    /\ UNCHANGED <<fs, walk, outcome, call, risked>>

(* Remove: whatever is under the name by now, which may be nothing.          *)
Remove(s) ==
    /\ pc[s] = "remove"
    /\ \/ /\ Candidate(s) # None
          /\ entry' = [entry EXCEPT ![<<Parent(s), reap[s].name>>] = None]
          /\ reaped' = [reaped EXCEPT ![s] = @ \cup {Candidate(s)}]
          /\ OnToNext(s) /\ Count(s, "removed")
       \/ Candidate(s) = None /\ Done(s) /\ UNCHANGED <<entry, reaped>>
       \/ Failed(s) /\ UNCHANGED <<entry, reaped>>
    /\ UNCHANGED <<at, stale, walk, outcome, kind, cancelled, steady, moved, risked>>

-----------------------------------------------------------------------------
(* The environment *)

Cancel(s) ==
    /\ pc[s] # "idle" /\ ~cancelled[s]
    /\ cancelled' = [cancelled EXCEPT ![s] = TRUE]
    /\ UNCHANGED <<fs, pc, walk, reap, looked, result, outcome, kind, reaped, steady, moved, risked>>

Inspected(d, t) == \E s \in Sweeps : looked[s] = <<d, t>>

(* What was in the tree at this place, under one of these names, no longer   *)
(* was there throughout.                                                     *)
Unsettle(places, names) ==
    steady' = [s \in Sweeps |-> {e \in steady[s] : ~(e[1] \in places /\ e[2] \in names)}]

own == <<pc, kind, walk, reap, looked, result, outcome, cancelled, reaped>>

PlacesOf(d) == {p \in Places : Resolve(p) = d}

(* A writer's temp, new and fresh, or another of its files comes under a     *)
(* name, and one of any kind goes by rename or removal.                      *)
Put(d, t, f) ==
    /\ f \notin Specials /\ entry[<<d, t>>] = None
    /\ \A x \in AllDirs \X Temps : entry[x] # f
    /\ \A s \in Sweeps : f \notin reaped[s]
    /\ entry' = [entry EXCEPT ![<<d, t>>] = f]
    /\ stale' = stale \ {f}
    /\ risked' = risked \cup (IF Inspected(d, t) THEN {f} ELSE {})
    /\ Unsettle(PlacesOf(d), {t})
    /\ UNCHANGED <<at, own, moved>>

Take(d, t) ==
    /\ entry[<<d, t>>] # None
    /\ entry' = [entry EXCEPT ![<<d, t>>] = None]
    /\ Unsettle(PlacesOf(d), {t})
    /\ UNCHANGED <<at, stale, own, moved, risked>>

(* A slow writer writes to its temp again. *)
Touch(d, t) ==
    LET f == entry[<<d, t>>] IN
    /\ f \in stale
    /\ stale' = stale \ {f}
    /\ risked' = risked \cup (IF Inspected(d, t) THEN {f} ELSE {})
    /\ Unsettle(PlacesOf(d), {t})
    /\ UNCHANGED <<at, entry, own, moved>>

(* A name in the swept directory is made to lead somewhere else. *)
Rearrange(n, x) ==
    /\ Rearranged /\ at[n] # x
    /\ [at EXCEPT ![n] = x] \in Trees
    /\ at' = [at EXCEPT ![n] = x]
    /\ Unsettle({n}, Temps)
    /\ moved' = moved \cup {s \in Sweeps : pc[s] # "idle" /\ ~kind[s].rooted}
    /\ UNCHANGED <<entry, stale, own, risked>>

-----------------------------------------------------------------------------
Step(s) ==
    \/ OpenDir(s) \/ ReadBatch(s) \/ Visit(s) \/ Finish(s)
    \/ Pin(s) \/ Look(s) \/ Remove(s)

Next ==
    \/ \E s \in Sweeps : (\E k \in Kinds, done \in BOOLEAN : Start(s, k, done)) \/ Step(s) \/ Cancel(s)
    \/ \E d \in AllDirs, t \in Temps : (\E f \in Files : Put(d, t, f)) \/ Take(d, t) \/ Touch(d, t)
    \/ \E n \in Subdirs, x \in Dirs \cup Subdirs \cup {None} : Rearrange(n, x)

Spec == Init /\ [][Next]_vars

(* A call goes on, and the system calls it makes return. *)
FairSpec == Spec /\ \A s \in Sweeps : WF_vars(Step(s))

-----------------------------------------------------------------------------
(* Properties *)

(* Every variable has its type; a candidate always has a temp's name.        *)
TypeOK ==
    /\ at \in Trees /\ entry \in [AllDirs \X Temps -> Files \cup {None}] /\ stale \subseteq Files
    /\ pc \in [Sweeps -> PCs] /\ kind \in [Sweeps -> Kinds \cup {None}]
    /\ walk \in [Sweeps -> [todo: SUBSET Places, place: Places \cup {None},
                            handle: AllDirs \cup {None}, seen: SUBSET (Temps \cup Subdirs),
                            batch: SUBSET (Places \X (Temps \cup Subdirs))]]
    /\ reap \in [Sweeps -> [place: Places \cup {None}, name: Temps \cup {None},
                            parent: AllDirs \cup {None}]]
    /\ looked \in [Sweeps -> (AllDirs \X Temps) \cup {None}]
    /\ result \in [Sweeps -> [Counts -> Nat]]
    /\ outcome \in [Sweeps -> Outcomes] /\ cancelled \in [Sweeps -> BOOLEAN]
    /\ reaped \in [Sweeps -> SUBSET Files]
    /\ steady \in [Sweeps -> SUBSET (Places \X Temps)]
    /\ risked \subseteq Files

(* Nothing but an old regular temp is ever unlinked.  All that escapes is    *)
(* what comes under the very entry that was inspected between Lstat and      *)
(* Remove; and, in the sweeps by path only, what a directory moved meanwhile *)
(* puts under the joined path.  A confined sweep's tree may be rearranged at *)
(* any moment.                                                               *)
SparesTheLiving ==
    \A s \in Sweeps \ moved : reaped[s] \subseteq (stale \ Specials) \cup risked

(* Removed is what this sweep unlinked, not what it found gone, so that the  *)
(* counts of sweeps that race add up.                                        *)
CountsWhatItRemoved ==
    \A s \in Sweeps : result[s]["removed"] = Cardinality(reaped[s])

(* A sweep that ends without an error has removed every old temp that was    *)
(* there from its beginning on, or its counts say that it may not have.      *)
NothingLeftUnsaid ==
    \A s \in Sweeps : outcome[s] = "done" /\ result[s]["unreadable"] = 0 =>
        Cardinality({e \in steady[s] : InDir(Resolve(e[1]), e[2]) # None}) <= result[s]["failed"]

(* Once its context is done a sweep begins with no further entry.            *)
StopsBetweenEntries ==
    [][\A s \in Sweeps : cancelled[s] /\ pc[s] \in {"idle", "walk"} => pc'[s] \notin {"pin", "look"}]_vars

(* Every form of sweep keeps that, but for the flat one by path, which may   *)
(* go on to the end of its batch.                                            *)
StopsUnlessFlat ==
    [][\A s \in Sweeps :
         cancelled[s] /\ pc[s] \in {"idle", "walk"} /\ (kind[s].rooted \/ kind[s].recursive)
            => pc'[s] \notin {"pin", "look"}]_vars

(* A sweep returns, whatever others do to the tree. *)
SweepReturns == \A s \in Sweeps : pc[s] # "idle" ~> pc[s] = "idle"

=============================================================================
