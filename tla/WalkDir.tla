------------------------------ MODULE WalkDir ------------------------------
(***************************************************************************)
(* One WalkDirInRoot (walkroot.go) of a tree that others rearrange while   *)
(* it is walked, with a callback that may answer anything to any entry and *)
(* to any failure.                                                         *)
(*                                                                         *)
(* A path is the sequence of its names, << >> the root (".").  The walk    *)
(* keeps names, not handles: a queued directory is looked up again, from   *)
(* the root and through symlinks inside the tree, when its turn comes.     *)
(***************************************************************************)
EXTENDS FiniteSets, Naturals, Sequences

CONSTANTS
    Root,       \* the directory the walk is given
    Dirs,       \* the other directories
    Names,      \* names an entry may have
    Alias,      \* the name in Root that every symlink of the tree leads to
    File,       \* an entry that is neither directory nor symlink
    Link,       \* a symlink
    None,       \* no entry
    Beginnings, \* the trees a walk may begin in
    MaxMoves    \* bound on the changes others make during the walk

AllDirs == {Root} \cup Dirs
Entries == Dirs \cup {File, Link, None}

ASSUME NamesAssumption == Alias \in Names /\ Root \notin Entries
ASSUME DirsAssumption == IsFiniteSet(Dirs)
ASSUME EntriesAssumption == {File, Link, None} \cap Dirs = {}
ASSUME BeginningsAssumption == Beginnings \subseteq [AllDirs -> [Names -> Entries]]
ASSUME MovesAssumption == MaxMoves \in Nat

Paths == Seq(Names)
Answers == {"continue", "skipDir", "skipAll", "error"}
PCs == {"start", "next", "read", "visit", "returned"}

(* "done" and "stopped" are both a nil error; "stopped" tells SkipAll, or a *)
(* skip of the root, from a walk that came to its end.                      *)
Outcomes == {"none", "done", "stopped", "cancelled", "error"}

VARIABLES
    entry,      \* the tree: what is under each name of each directory
    moves,      \* changes made to it so far
    cancelled,  \* whether the walk's context is done
    pc,         \* where the walk stands
    pending,    \* stack of the directories to descend into, next one first
    place,      \* the path of the directory it reads
    handle,     \* the directory that was found there
    seen,       \* names read from it, as long as what is under them stays
    due,        \* names there since it was opened and not read yet
    batch,      \* names read and not yet visited, each with the type it had
    after,      \* what the last ReadDir said: more to come, the end, or an error
    subdirs,    \* directories met in it so far
    outcome,    \* what WalkDirInRoot returned
    visited,    \* history: paths handed to the callback
    again,      \* history: those handed to it twice
    pruned,     \* history: directories the callback answered nothing but SkipDir to
    cut,        \* history: directories cut short by a failure or by SkipDir
    steady      \* history: paths whose entry has not changed since the start

tree == <<entry, moves>>
dirState == <<place, handle, seen, due, batch, after, subdirs>>
ghost == <<visited, again, pruned, cut, steady>>
vars == <<tree, cancelled, pc, pending, dirState, outcome, ghost>>

-----------------------------------------------------------------------------
(* Paths *)

Parent(p) == SubSeq(p, 1, Len(p) - 1)
Above(q, p) == Len(q) < Len(p) /\ SubSeq(p, 1, Len(q)) = q

(* The directory under a name, symlinks followed. *)
Enter(d, n) ==
    LET e == IF entry[d][n] = Link THEN entry[Root][Alias] ELSE entry[d][n]
    IN IF e \in Dirs THEN e ELSE None

(* The directory a path leads to from the root, or None. *)
Resolve(p) ==
    LET at[i \in 0..Len(p)] == IF i = 0 THEN Root
                               ELSE IF at[i - 1] = None THEN None
                               ELSE Enter(at[i - 1], p[i])
    IN at[Len(p)]

(* The paths below the root, symlinks not followed; no directory is so deep *)
(* that a path to it would be longer than there are directories.            *)
PathsOf(t) ==
    LET below[k \in Nat] ==
            IF k = 0 THEN {<< <<>>, Root >>}
            ELSE {<<Append(x[1], n), t[x[2]][n]>> :
                    x \in {y \in below[k - 1] : y[2] \in AllDirs}, n \in Names}
    IN {x[1] : x \in {y \in UNION {below[k] : k \in 1..Cardinality(AllDirs)} : y[2] # None}}

Init ==
    /\ entry \in Beginnings
    /\ moves = 0
    /\ cancelled = FALSE
    /\ pc = "start"
    /\ pending = <<>>
    /\ place = <<>> /\ handle = None /\ seen = {} /\ due = {} /\ batch = {}
    /\ after = "more" /\ subdirs = <<>>
    /\ outcome = "none"
    /\ visited = {} /\ again = {} /\ pruned = {} /\ cut = {}
    /\ steady = PathsOf(entry)

-----------------------------------------------------------------------------
(* Helpers *)

Return(how) ==
    /\ pc' = "returned"
    /\ outcome' = how

(* The callback is handed the entry at p. *)
Hand(p) ==
    /\ visited' = visited \cup {p}
    /\ again' = IF p \in visited THEN again \cup {p} ELSE again

(* The directory is done with; rest is what is still to be descended into.  *)
LeaveFor(rest) ==
    /\ pc' = "next"
    /\ pending' = rest
    /\ place' = <<>> /\ handle' = None /\ seen' = {} /\ due' = {} /\ batch' = {}
    /\ after' = "more" /\ subdirs' = <<>>
    /\ UNCHANGED outcome

(* Mutant: a failure that the callback lets pass ends the walk. *)
ReportDirFailureEnds(p, a, rest) ==
    /\ cut' = cut \cup {p}
    /\ Return(IF a \in {"continue", "skipDir"} THEN "done" ELSE IF a = "skipAll" THEN "stopped" ELSE "error")
    /\ UNCHANGED <<pending, dirState>>

(* reportDirFailure: the callback is told, for the directory's own path; nil *)
(* and SkipDir leave the walk running.                                      *)
ReportDirFailure(p, a, rest) ==
    /\ cut' = cut \cup {p}
    /\ \/ a \in {"continue", "skipDir"} /\ LeaveFor(rest)
       \/ a = "skipAll" /\ Return("stopped") /\ UNCHANGED <<pending, dirState>>
       \/ a = "error" /\ Return("error") /\ UNCHANGED <<pending, dirState>>

(* What was found in the directory comes next, in the order it was read.    *)
Found == subdirs \o pending

-----------------------------------------------------------------------------
(* The walk *)

(* run, before its loop: the context, the root's own entry. *)
Start ==
    /\ pc = "start"
    /\ \/ cancelled /\ Return("cancelled") /\ UNCHANGED <<pending, ghost>>
       \/ ~cancelled /\ \E a \in Answers :
            \* Stat(".") failed: whatever the callback says is the end of it
            \/ /\ cut' = cut \cup {<<>>}
               /\ Return(IF a = "error" THEN "error" ELSE IF a = "continue" THEN "done" ELSE "stopped")
               /\ UNCHANGED <<pending, visited, again, pruned, steady>>
            \/ /\ Hand(<<>>)
               /\ \/ /\ a = "continue"
                     /\ pc' = "next" /\ pending' = << <<>> >>
                     /\ UNCHANGED outcome
                  \/ a = "error" /\ Return("error") /\ UNCHANGED pending
                  \/ a \in {"skipDir", "skipAll"} /\ Return("stopped") /\ UNCHANGED pending
               /\ UNCHANGED <<pruned, cut, steady>>
    /\ UNCHANGED <<tree, cancelled, dirState>>

(* Mutant: the walk goes on with a directory that did not open. *)
OpenDirBlind ==
    /\ pc = "next" /\ pending # <<>>
    /\ pc' = "read"
    /\ pending' = Tail(pending)
    /\ place' = Head(pending) /\ handle' = Resolve(Head(pending))
    /\ UNCHANGED <<tree, cancelled, seen, due, batch, after, subdirs, outcome, ghost>>

(* streamDir, its open: O_DIRECTORY, through the root.  It may fail for any *)
(* reason.                                                                  *)
OpenDir ==
    /\ pc = "next" /\ pending # <<>>
    /\ LET p == Head(pending) IN
        \/ /\ Resolve(p) # None
           /\ pc' = "read"
           /\ pending' = Tail(pending)
           /\ place' = p /\ handle' = Resolve(p)
           /\ due' = {n \in Names : entry[Resolve(p)][n] # None}
           /\ UNCHANGED <<seen, batch, after, subdirs, outcome, cut>>
        \/ \E a \in Answers : ReportDirFailure(p, a, Tail(pending))
    /\ UNCHANGED <<tree, cancelled, visited, again, pruned, steady>>

Finish ==
    /\ pc = "next" /\ pending = <<>>
    /\ Return("done")
    /\ UNCHANGED <<tree, cancelled, pending, dirState, ghost>>

(* readdir: names not returned before, or made again since they were.       *)
Unread == {n \in Names \ seen : entry[handle][n] # None}

Typed(names) == {<<n, entry[handle][n] \in Dirs>> : n \in names}

(* Mutant: every ReadDir begins at the start again. *)
ReadBatchRewinds ==
    /\ pc = "read" /\ ~cancelled
    /\ pc' = "visit"
    /\ \E some \in SUBSET {n \in Names : entry[handle][n] # None}, how \in {"more", "end"} :
        /\ some = {} <=> how = "end"
        /\ batch' = Typed(some)
        /\ after' = how
    /\ UNCHANGED <<tree, cancelled, pending, place, handle, seen, due, subdirs, outcome, ghost>>

(* streamDir, its loop: the context, then one ReadDir.  The end comes with   *)
(* an empty batch, a failure with whatever was read before it.  A name that *)
(* was made after the open may be returned or left out.                     *)
ReadBatch ==
    /\ pc = "read"
    /\ \/ cancelled /\ Return("cancelled") /\ UNCHANGED <<seen, due, batch, after>>
       \/ /\ ~cancelled
          /\ pc' = "visit"
          /\ \E some \in SUBSET Unread, how \in {"more", "end", "failed"} :
                /\ how = "more" => some # {}
                /\ how = "end" => some = {} /\ due = {}
                /\ seen' = seen \cup some
                /\ due' = due \ some
                /\ batch' = Typed(some)
                /\ after' = how
          /\ UNCHANGED outcome
    /\ UNCHANGED <<tree, cancelled, pending, place, handle, subdirs, ghost>>

(* The callback's answer a to the directory at p, which it may have met     *)
(* before, under a name that was made again.                                *)
Prune(p, a) ==
    pruned' = IF a = "continue" THEN pruned \ {p}
              ELSE IF p \in visited THEN pruned ELSE pruned \cup {p}

(* Mutant: SkipDir for a directory is forgotten. *)
VisitDescends ==
    /\ pc = "visit"
    /\ \E e \in batch, a \in {"continue", "skipDir"} :
        LET p == Append(place, e[1]) IN
        /\ Hand(p)
        /\ batch' = batch \ {e}
        /\ subdirs' = IF e[2] THEN Append(subdirs, p) ELSE subdirs
        /\ IF e[2] THEN Prune(p, a) ELSE UNCHANGED pruned
        /\ UNCHANGED <<pc, pending, place, handle, seen, due, after, outcome, cut>>
    /\ UNCHANGED <<tree, cancelled, steady>>

(* visitBatch, one entry.  A directory is queued on the type readdir gave   *)
(* it; SkipDir leaves it out, and for anything else ends this directory.    *)
Visit ==
    /\ pc = "visit"
    /\ \E e \in batch, a \in Answers :
        LET p == Append(place, e[1]) IN
        /\ Hand(p)
        /\ \/ /\ a = "continue" \/ (a = "skipDir" /\ e[2])
              /\ batch' = batch \ {e}
              /\ subdirs' = IF e[2] /\ a = "continue" THEN Append(subdirs, p) ELSE subdirs
              /\ IF e[2] THEN Prune(p, a) ELSE UNCHANGED pruned
              /\ UNCHANGED <<pc, pending, place, handle, seen, due, after, outcome, cut>>
           \/ /\ a = "skipDir" /\ ~e[2]
              /\ LeaveFor(Found)
              /\ cut' = cut \cup {place}
              /\ UNCHANGED pruned
           \/ a = "skipAll" /\ Return("stopped") /\ UNCHANGED <<pending, dirState, pruned, cut>>
           \/ a = "error" /\ Return("error") /\ UNCHANGED <<pending, dirState, pruned, cut>>
    /\ UNCHANGED <<tree, cancelled, steady>>

(* Mutant: a directory is taken to be done with after one batch. *)
BatchDoneEarly ==
    /\ pc = "visit" /\ batch = {}
    /\ LeaveFor(Found)
    /\ UNCHANGED <<tree, cancelled, ghost>>

(* What the ReadDir said of the directory is acted on after its batch.      *)
BatchDone ==
    /\ pc = "visit" /\ batch = {}
    /\ \/ after = "more" /\ pc' = "read" /\ UNCHANGED <<pending, dirState, outcome, cut>>
       \/ after = "end" /\ LeaveFor(Found) /\ UNCHANGED cut
       \/ after = "failed" /\ \E a \in Answers : ReportDirFailure(place, a, Found)
    /\ UNCHANGED <<tree, cancelled, visited, again, pruned, steady>>

-----------------------------------------------------------------------------
(* The environment *)

Cancel ==
    /\ pc # "returned" /\ ~cancelled
    /\ cancelled' = TRUE
    /\ UNCHANGED <<tree, pc, pending, dirState, outcome, ghost>>

(* A directory has one place, and is not in itself. *)
Fits(d, e) == e \in Dirs =>
    /\ \A x \in AllDirs, n \in Names : entry[x][n] # e
    /\ d # e /\ \A n \in Names : entry[e][n] # d

(* The path goes by name n of directory d. *)
LeadsBy(p, d, n) ==
    \E i \in 1..Len(p) : p[i] = n /\ Resolve(SubSeq(p, 1, i - 1)) = d

(* Others create, remove, move or replace what is under a name.  In the     *)
(* directory being read, readdir owes nothing for that name any more, and   *)
(* may return it although it did before.                                    *)
Change(d, n, e) ==
    /\ moves < MaxMoves /\ pc # "returned"
    /\ entry[d][n] # e /\ Fits(d, e)
    /\ entry' = [entry EXCEPT ![d][n] = e]
    /\ moves' = moves + 1
    /\ steady' = {p \in steady : ~LeadsBy(p, d, n)}
    /\ seen' = IF d = handle THEN seen \ {n} ELSE seen
    /\ due' = IF d = handle THEN due \ {n} ELSE due
    /\ UNCHANGED <<cancelled, pc, pending, place, handle, batch, after, subdirs, outcome,
                   visited, again, pruned, cut>>

-----------------------------------------------------------------------------
Step == Start \/ OpenDir \/ Finish \/ ReadBatch \/ Visit \/ BatchDone

Next == Step \/ Cancel \/ \E d \in AllDirs, n \in Names, e \in Entries : Change(d, n, e)

Spec == Init /\ [][Next]_vars

(* The walk goes on: its system calls and its callback return. *)
FairSpec == Spec /\ WF_vars(Step)

-----------------------------------------------------------------------------
(* Properties *)

(* Every variable has its type. *)
TypeOK ==
    /\ entry \in [AllDirs -> [Names -> Entries]] /\ moves \in 0..MaxMoves
    /\ cancelled \in BOOLEAN /\ pc \in PCs /\ outcome \in Outcomes
    /\ pending \in Seq(Paths) /\ place \in Paths /\ handle \in AllDirs \cup {None}
    /\ seen \subseteq Names /\ due \subseteq Names /\ batch \subseteq Names \X BOOLEAN
    /\ after \in {"more", "end", "failed"} /\ subdirs \in Seq(Paths)
    /\ visited \subseteq Paths /\ again \subseteq visited
    /\ pruned \subseteq visited /\ cut \subseteq Paths /\ steady \subseteq Paths
    /\ pc \in {"read", "visit"} => handle \in AllDirs

(* However the rest of the tree is rearranged, an entry that was there all  *)
(* the time is not handed to the callback twice.  A name that is removed    *)
(* and made again may be: the walk keeps no memory of what it handed over.  *)
VisitedOnce == again \cap steady = {}

Excused(p) == \E q \in pruned \cup cut : Above(q, p)

(* A walk that comes to its end has handed over every entry that was there  *)
(* all the time, except in directories the callback skipped or was told     *)
(* could not be read.                                                       *)
NothingMissed ==
    outcome = "done" => \A p \in steady : p \in visited \/ Excused(p)

(* "A directory's own entries are all visited before the walk descends into *)
(* its subdirectories": no entry that was there all the time is left behind *)
(* in the directory above the one being read.                               *)
OwnEntriesFirst ==
    pc \in {"read", "visit"} /\ place # <<>> =>
        \A p \in steady : Parent(p) = Parent(place) => p \in visited \/ Excused(p)

(* Pre-order, and SkipDir: an entry is handed over after the directory it   *)
(* is in, and nothing is that lies under a directory the callback only ever *)
(* answered SkipDir to.                                                     *)
SkipsArePruned ==
    \A p \in visited : /\ p # <<>> => Parent(p) \in visited
                       /\ \A q \in pruned : ~Above(q, p)

(* The walk returns once others leave the tree alone. *)
WalkReturns == pc # "start" ~> pc = "returned"

=============================================================================
