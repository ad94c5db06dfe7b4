---------------------------- MODULE AtomicWrite ----------------------------
(***************************************************************************)
(* The write engine of atomicfile (write.go, writeroot.go): WriteFile,     *)
(* WriteReader and their InRoot forms, run by several writers at once in   *)
(* one directory, on a file system that forgets at a power loss whatever   *)
(* was not fsynced.                                                        *)
(*                                                                         *)
(* A writer stages its content in a temp file beside the target, runs the  *)
(* temp-side barrier (cancellation, cap, mode, fsync, close), renames the  *)
(* temp over the target and fsyncs the directory.  The directory of the    *)
(* model exists and is durable: the chain that WithMkdirMode creates is    *)
(* module MkdirChain.                                                      *)
(*                                                                         *)
(* The file system keeps two things per name: the entry every process sees *)
(* now, and the set of entries a power loss may leave.  An inode's data    *)
(* and mode survive a power loss only if they were fsynced.                *)
(***************************************************************************)
EXTENDS Naturals, FiniteSets

CONSTANTS
    Writers,      \* goroutines or processes that call a write function
    Targets,      \* final names
    TempNames,    \* names randomTempName may return
    Inodes,       \* every file that can exist in a run: bounds the calls
    Preexisting,  \* the inodes that exist before the first call
    Special,      \* those that are symlinks, FIFOs, devices or directories
    Calls,        \* the calls a writer may make
    MaxTries,     \* createTempInRoot's collision bound (10000 in the code)
    None          \* no inode, no name, no call

Names == Targets \cup TempNames

(* bytes: WriteFile; reader: WriteReader over a plain io.Reader; writerTo:  *)
(* WriteReader over a source that is an io.WriterTo.                        *)
Kinds == {"bytes", "reader", "writerTo"}

(* len is the content's size in chunks, cap the WithMaxBytes bound (0 for   *)
(* none), modeSet whether WithMode was given.                               *)
CallShape == [target: Targets, kind: Kinds, len: Nat, cap: Nat, modeSet: BOOLEAN]

ASSUME NamesAssumption ==
    /\ Targets \cap TempNames = {}
    /\ None \notin Names
ASSUME InodesAssumption ==
    /\ Preexisting \subseteq Inodes
    /\ Special \subseteq Preexisting
    /\ None \notin Inodes
ASSUME CallsAssumption ==
    /\ Calls \subseteq CallShape
    /\ None \notin Calls
ASSUME TriesAssumption == MaxTries \in Nat

(* "private" is 0600, "wanted" the mode WithMode names, "default" what the  *)
(* umask leaves of 0666, "other" anything else the file system may store.   *)
Modes == {"default", "private", "wanted", "other"}

Successes == {"durable", "published"}
Failures ==
    {"TooLarge", "cancelled", "TargetStat", "Refused", "TempCreate", "TempWrite",
     "TempStat", "TempChmod", "TempSync", "TempClose", "Rename"}

PCs == {"idle", "open", "create", "prove", "write", "barrier", "chmod", "sync",
        "close", "rename", "dirsync", "discard"}

VARIABLES
    entry,      \* what each name resolves to now
    disk,       \* what each name may resolve to after a power loss
    size,       \* bytes of each inode, in chunks
    mode,       \* permission bits of each inode
    synced,     \* whether the inode's data and mode would survive a power loss
    pc,         \* where each writer's call stands
    fd,         \* the inode the writer's current or last call stages
    tmp,        \* the temp name the writer's call owns
    tries,      \* collisions met so far
    cancelled,  \* whether the call's context is done
    res,        \* outcome of the call, decided at the latest when pc is idle
    call,       \* history: the call each inode was staged for
    gen,        \* history: the order in which inodes were renamed over a target
    stamp,      \* history: number of renames so far
    floor,      \* history: per target, the newest write reported durable
    orphans     \* history: temp names some failure was allowed to leave behind

fs == <<entry, disk, size, mode, synced>>
ctl == <<pc, fd, tmp, tries, cancelled, res>>
ghost == <<call, gen, stamp, floor, orphans>>
vars == <<fs, ctl, ghost>>

Init ==
    /\ entry \in {e \in [Names -> Preexisting \cup {None}] :
                    /\ \A n \in TempNames : e[n] = None
                    /\ \A s, t \in Targets : s # t /\ e[s] # None => e[s] # e[t]}
    /\ disk = [n \in Names |-> {entry[n]}]
    /\ size = [i \in Inodes |-> 0]
    /\ mode = [i \in Inodes |-> "default"]
    /\ synced = [i \in Inodes |-> TRUE]
    /\ pc = [w \in Writers |-> "idle"]
    /\ fd = [w \in Writers |-> None]
    /\ tmp = [w \in Writers |-> None]
    /\ tries = [w \in Writers |-> 0]
    /\ cancelled = [w \in Writers |-> FALSE]
    /\ res = [w \in Writers |-> "none"]
    /\ call = [i \in Inodes |-> None]
    /\ gen = [i \in Inodes |-> 0]
    /\ stamp = 0
    /\ floor = [t \in Targets |-> 0]
    /\ orphans = {}

-----------------------------------------------------------------------------
(* Helpers *)

CallOf(w) == call[fd[w]]
TargetOf(w) == CallOf(w).target

(* Name n is made to resolve to v; until the next directory fsync a power   *)
(* loss may leave the old entry or the new one.                             *)
Link(n, v) ==
    /\ entry' = [entry EXCEPT ![n] = v]
    /\ disk' = [disk EXCEPT ![n] = @ \cup {v}]

GoTo(w, label) == pc' = [pc EXCEPT ![w] = label]

(* The context and the collision count are the call's own: they go with it. *)
Release(w) ==
    /\ cancelled' = [cancelled EXCEPT ![w] = FALSE]
    /\ tries' = [tries EXCEPT ![w] = 0]

(* The call is over: nothing is left for the deferred removal to do.        *)
Return(w, outcome) ==
    /\ GoTo(w, "idle")
    /\ res' = [res EXCEPT ![w] = outcome]
    /\ tmp' = [tmp EXCEPT ![w] = None]
    /\ Release(w)

(* The call failed after its temp exists: only the removal is still to come. *)
Fail(w, outcome) ==
    /\ GoTo(w, "discard")
    /\ res' = [res EXCEPT ![w] = outcome]
    /\ Release(w)
    /\ UNCHANGED tmp

Proceed(w, label) == GoTo(w, label) /\ UNCHANGED <<res, tmp, tries, cancelled>>

(* Mutant: the bound is off by one. *)
OverCapLate(c, n) == c.cap > 0 /\ n > c.cap + 1

OverCap(c, n) == c.cap > 0 /\ n > c.cap

-----------------------------------------------------------------------------
(* The call, from its entry point to its verdict *)

(* WriteFile refuses an over-cap buffer before it touches the directory;    *)
(* every other call stages its content in a file of its own.                *)
Begin(w, c) ==
    /\ pc[w] = "idle"
    /\ \/ /\ c.kind = "bytes" /\ OverCap(c, c.len)
          /\ Return(w, "TooLarge")
          /\ fd' = [fd EXCEPT ![w] = None]
          /\ UNCHANGED call
       \/ /\ ~(c.kind = "bytes" /\ OverCap(c, c.len))
          /\ GoTo(w, "open")
          /\ res' = [res EXCEPT ![w] = "none"]
          /\ UNCHANGED <<tmp, tries, cancelled>>
          /\ \E i \in Inodes \ Preexisting :
                /\ call[i] = None
                /\ fd' = [fd EXCEPT ![w] = i]
                /\ call' = [call EXCEPT ![i] = c]
    /\ UNCHANGED <<fs, gen, stamp, floor, orphans>>

(* Mutant: the target is followed instead of refused. *)
CheckTargetFollows(w) ==
    /\ pc[w] = "open"
    /\ \/ cancelled[w] /\ Return(w, "cancelled")
       \/ ~cancelled[w] /\ Proceed(w, "create")
    /\ UNCHANGED <<fs, fd, ghost>>

(* The preamble: the context, the parent directory, what is at the target.  *)
(* openParentRoot's own look at the context, just before, adds no outcome.  *)
CheckTarget(w) ==
    /\ pc[w] = "open"
    /\ \/ cancelled[w] /\ Return(w, "cancelled")
       \/ /\ ~cancelled[w]
          /\ \/ entry[TargetOf(w)] \in Special /\ Return(w, "Refused")
             \/ entry[TargetOf(w)] \notin Special /\ Proceed(w, "create")
             \/ Return(w, "TargetStat")
             \/ Return(w, "TempCreate")
    /\ UNCHANGED <<fs, fd, ghost>>

(* Mutant: the count wraps around before the bound ends the loop. *)
TempCollisionWraps(w) ==
    /\ pc[w] = "create"
    /\ \E n \in TempNames : entry[n] # None
    /\ tries' = [tries EXCEPT ![w] = (@ + 1) % (MaxTries + 1)]
    /\ UNCHANGED <<fs, fd, pc, res, tmp, cancelled, ghost>>

(* O_EXCL found the drawn name taken: draw again, up to the bound.          *)
TempCollision(w) ==
    /\ pc[w] = "create"
    /\ \E n \in TempNames : entry[n] # None
    /\ IF tries[w] < MaxTries
       THEN /\ tries' = [tries EXCEPT ![w] = @ + 1]
            /\ UNCHANGED <<pc, res, tmp, cancelled>>
       ELSE Return(w, "TempCreate")
    /\ UNCHANGED <<fs, fd, ghost>>

(* The temp is created exclusively.  A free name that a call in flight owns *)
(* (its temp was swept) is not drawn again: that is the 64-bit randomness   *)
(* of randomTempName, which nothing else enforces.                          *)
CreateTemp(w) ==
    /\ pc[w] = "create"
    /\ \/ \E n \in TempNames, m \in Modes :
            /\ entry[n] = None
            /\ \A v \in Writers : tmp[v] # n
            /\ m \in IF CallOf(w).modeSet THEN {"private", "other"} ELSE {"default"}
            /\ Link(n, fd[w])
            /\ mode' = [mode EXCEPT ![fd[w]] = m]
            /\ synced' = [synced EXCEPT ![fd[w]] = FALSE]
            /\ tmp' = [tmp EXCEPT ![w] = n]
            /\ GoTo(w, IF CallOf(w).modeSet THEN "prove" ELSE "write")
            /\ UNCHANGED <<res, tries, cancelled>>
       \/ Return(w, "TempCreate") /\ UNCHANGED <<entry, disk, mode, synced>>
    /\ UNCHANGED <<size, fd, ghost>>

(* Mutant: fchmod's own success is taken for the stored mode. *)
EnforceUnread(w, want, next, phase) ==
    /\ \E stored \in Modes : mode' = [mode EXCEPT ![fd[w]] = stored]
    /\ Proceed(w, next)
    /\ UNCHANGED <<entry, disk, size, synced, fd, ghost>>

(* fchmod then fstat: the file system stored what was asked, or the mode is *)
(* whatever it kept and the call fails.                                     *)
Enforce(w, want, next, phase) ==
    /\ synced' = [synced EXCEPT ![fd[w]] = FALSE]
    /\ \E stored \in Modes :
        /\ mode' = [mode EXCEPT ![fd[w]] = stored]
        /\ \/ stored = want /\ Proceed(w, next)
           \/ Fail(w, phase)
    /\ UNCHANGED <<entry, disk, size, fd, ghost>>

(* WithMode: the temp is proved owner-only before any data goes into it.    *)
ProveOwnerOnly(w) ==
    /\ pc[w] = "prove"
    /\ Enforce(w, "private", "write", "TempCreate")

(* writeData: one chunk reaches the temp, the content is complete, or a     *)
(* write fails.  A reader is cancelled between chunks and at the end, an    *)
(* io.WriterTo between chunks only, a byte slice not at all; the two        *)
(* readers refuse the chunk that would cross the cap.                       *)
WriteData(w) ==
    LET c == CallOf(w)
        n == size[fd[w]]
        more == n < c.len
        stopped == /\ cancelled[w]
                   /\ c.kind = "reader" \/ (c.kind = "writerTo" /\ more)
        crossing == c.kind # "bytes" /\ more /\ OverCap(c, n + 1)
    IN  /\ pc[w] = "write"
        /\ \/ /\ more /\ ~stopped /\ ~crossing
              /\ size' = [size EXCEPT ![fd[w]] = n + 1]
              /\ synced' = [synced EXCEPT ![fd[w]] = FALSE]
              /\ Proceed(w, "write")
           \/ /\ ~more /\ ~stopped
              /\ Proceed(w, "barrier")
              /\ UNCHANGED <<size, synced>>
           \/ /\ more \/ c.kind # "bytes"
              /\ Fail(w, "TempWrite")
              /\ UNCHANGED <<size, synced>>
        /\ UNCHANGED <<entry, disk, mode, fd, ghost>>

(* finalizeTempFile's first half: the context, then the cap against fstat.  *)
Barrier(w) ==
    LET c == CallOf(w) IN
    /\ pc[w] = "barrier"
    /\ \/ cancelled[w] /\ Fail(w, "cancelled")
       \/ ~cancelled[w] /\ c.cap > 0 /\ Fail(w, "TempStat")
       \/ ~cancelled[w] /\ OverCap(c, size[fd[w]]) /\ Fail(w, "TooLarge")
       \/ /\ ~cancelled[w] /\ ~OverCap(c, size[fd[w]])
          /\ Proceed(w, IF c.modeSet THEN "chmod" ELSE "sync")
    /\ UNCHANGED <<fs, fd, ghost>>

EnforceFinalMode(w) ==
    /\ pc[w] = "chmod"
    /\ Enforce(w, "wanted", "sync", "TempChmod")

(* Mutant: the temp is renamed without having been fsynced. *)
SyncTempSkipped(w) ==
    /\ pc[w] = "sync"
    /\ Proceed(w, "close")
    /\ UNCHANGED <<fs, fd, ghost>>

SyncTemp(w) ==
    /\ pc[w] = "sync"
    /\ \/ synced' = [synced EXCEPT ![fd[w]] = TRUE] /\ Proceed(w, "close")
       \/ Fail(w, "TempSync") /\ UNCHANGED synced
    /\ UNCHANGED <<entry, disk, size, mode, fd, ghost>>

(* Mutant: a cancellation at the close returns before the deferred removal. *)
CloseTempLeaks(w) ==
    /\ pc[w] = "close"
    /\ IF cancelled[w] THEN Return(w, "cancelled") ELSE Proceed(w, "rename")
    /\ UNCHANGED <<fs, fd, ghost>>

(* The last look at the context is before close; nothing after it cancels.  *)
CloseTemp(w) ==
    /\ pc[w] = "close"
    /\ \/ cancelled[w] /\ Fail(w, "cancelled")
       \/ ~cancelled[w] /\ Fail(w, "TempClose")
       \/ ~cancelled[w] /\ Proceed(w, "rename")
    /\ UNCHANGED <<fs, fd, ghost>>

(* The temp becomes the target, unless it was swept away (ENOENT) or the    *)
(* rename is refused.                                                       *)
RenameTemp(w) ==
    LET i == entry[tmp[w]] IN
    /\ pc[w] = "rename"
    /\ \/ /\ i # None
          /\ entry' = [entry EXCEPT ![TargetOf(w)] = i, ![tmp[w]] = None]
          /\ disk' = [disk EXCEPT ![TargetOf(w)] = @ \cup {i}, ![tmp[w]] = @ \cup {None}]
          /\ gen' = [gen EXCEPT ![i] = stamp + 1]
          /\ stamp' = stamp + 1
          /\ tmp' = [tmp EXCEPT ![w] = None]
          /\ GoTo(w, "dirsync")
          /\ UNCHANGED <<res, tries, cancelled>>
       \/ Fail(w, "Rename") /\ UNCHANGED <<entry, disk, gen, stamp>>
    /\ UNCHANGED <<size, mode, synced, fd, call, floor, orphans>>

(* Mutant: a failed directory fsync still reports the write durable. *)
DirSyncOptimistic(w) ==
    /\ pc[w] = "dirsync"
    /\ floor' = [floor EXCEPT ![TargetOf(w)] = IF @ < gen[fd[w]] THEN gen[fd[w]] ELSE @]
    /\ Return(w, "durable")
    /\ UNCHANGED <<fs, fd, call, gen, stamp, orphans>>

(* Mutant: the context is looked at once more, after the rename. *)
DirSyncCancels(w) ==
    /\ pc[w] = "dirsync"
    /\ Return(w, IF cancelled[w] THEN "cancelled" ELSE "published")
    /\ UNCHANGED <<fs, fd, ghost>>

(* fsync of the parent flushes every name in it, other writers' included;   *)
(* a failure costs Durable and nothing else.                                *)
DirSync(w) ==
    /\ pc[w] = "dirsync"
    /\ \/ /\ disk' = [n \in Names |-> {entry[n]}]
          /\ floor' = [floor EXCEPT ![TargetOf(w)] = IF @ < gen[fd[w]] THEN gen[fd[w]] ELSE @]
          /\ Return(w, "durable")
       \/ Return(w, "published") /\ UNCHANGED <<disk, floor>>
    /\ UNCHANGED <<entry, size, mode, synced, fd, call, gen, stamp, orphans>>

(* The deferred removeTempInRoot: best effort, its own failure is logged.   *)
Discard(w) ==
    /\ pc[w] = "discard"
    /\ Return(w, res[w])
    /\ \/ Link(tmp[w], None) /\ UNCHANGED orphans
       \/ orphans' = orphans \cup {tmp[w]} /\ UNCHANGED <<entry, disk>>
    /\ UNCHANGED <<size, mode, synced, fd, call, gen, stamp, floor>>

-----------------------------------------------------------------------------
(* The environment *)

(* The caller's context is done, at any moment of the call. *)
Cancel(w) ==
    /\ pc[w] \notin {"idle", "discard"} /\ ~cancelled[w]
    /\ cancelled' = [cancelled EXCEPT ![w] = TRUE]
    /\ UNCHANGED <<fs, pc, fd, tmp, tries, res, ghost>>

(* A sweep, in this process or another, takes a temp it considers stale. *)
Sweep(n) ==
    /\ n \in TempNames /\ entry[n] # None
    /\ Link(n, None)
    /\ UNCHANGED <<size, mode, synced, ctl, ghost>>

(* The process dies in the middle of a call; its temp stays. *)
Kill(w) ==
    /\ pc[w] # "idle"
    /\ GoTo(w, "idle")
    /\ fd' = [fd EXCEPT ![w] = None]
    /\ tmp' = [tmp EXCEPT ![w] = None]
    /\ res' = [res EXCEPT ![w] = "none"]
    /\ orphans' = (orphans \cup {tmp[w]}) \ {None}
    /\ Release(w)
    /\ UNCHANGED <<fs, call, gen, stamp, floor>>

(* Power loss: every name falls back to one of the entries its directory    *)
(* may hold, and files that were not fsynced may come back empty, with a    *)
(* mode nobody asked for.  No call survives.                                *)
PowerLoss ==
    \E kept \in [Names -> UNION {disk[n] : n \in Names}],
       lost \in SUBSET {i \in Inodes : ~synced[i]} :
        /\ \A n \in Names : kept[n] \in disk[n]
        /\ entry' = kept
        /\ disk' = [n \in Names |-> {kept[n]}]
        /\ size' = [i \in Inodes |-> IF i \in lost THEN 0 ELSE size[i]]
        /\ mode' = [i \in Inodes |-> IF i \in lost THEN "other" ELSE mode[i]]
        /\ synced' = [i \in Inodes |-> TRUE]
        /\ pc' = [w \in Writers |-> "idle"]
        /\ fd' = [w \in Writers |-> None]
        /\ tmp' = [w \in Writers |-> None]
        /\ tries' = [w \in Writers |-> 0]
        /\ cancelled' = [w \in Writers |-> FALSE]
        /\ res' = [w \in Writers |-> "none"]
        /\ orphans' = TempNames
        /\ UNCHANGED <<call, gen, stamp, floor>>

-----------------------------------------------------------------------------
Step(w) ==
    \/ CheckTarget(w) \/ TempCollision(w) \/ CreateTemp(w) \/ ProveOwnerOnly(w)
    \/ WriteData(w) \/ Barrier(w) \/ EnforceFinalMode(w) \/ SyncTemp(w)
    \/ CloseTemp(w) \/ RenameTemp(w) \/ DirSync(w) \/ Discard(w)

Next ==
    \/ \E w \in Writers : \/ \E c \in Calls : Begin(w, c)
                          \/ Step(w) \/ Cancel(w) \/ Kill(w)
    \/ \E n \in TempNames : Sweep(n)
    \/ PowerLoss

Spec == Init /\ [][Next]_vars

(* A call that was begun keeps running: its system calls return, with       *)
(* success or an error.  Nothing is assumed of the environment.             *)
Fairness == \A w \in Writers : WF_vars(Step(w))

FairSpec == Spec /\ Fairness

-----------------------------------------------------------------------------
(* Properties *)

(* Every variable has its type: in particular the collision counter of      *)
(* createTempInRoot never exceeds its bound.                                *)
TypeOK ==
    /\ entry \in [Names -> Inodes \cup {None}]
    /\ disk \in [Names -> SUBSET (Inodes \cup {None})]
    /\ size \in [Inodes -> Nat]
    /\ mode \in [Inodes -> Modes]
    /\ synced \in [Inodes -> BOOLEAN]
    /\ pc \in [Writers -> PCs]
    /\ fd \in [Writers -> Inodes \cup {None}]
    /\ tmp \in [Writers -> TempNames \cup {None}]
    /\ tries \in [Writers -> 0..MaxTries]
    /\ cancelled \in [Writers -> BOOLEAN]
    /\ res \in [Writers -> Successes \cup Failures \cup {"none"}]
    /\ call \in [Inodes -> Calls \cup {None}]
    /\ gen \in [Inodes -> Nat]
    /\ stamp \in Nat
    /\ floor \in [Targets -> Nat]
    /\ orphans \subseteq TempNames

(* The content of inode i is complete and would come back complete.  *)
Whole(i) == i \in Preexisting \/ (call[i] # None /\ size[i] = call[i].len /\ synced[i])

(* The target of a write is the old file or the whole new one, for a reader *)
(* now and after a power loss at any moment: the order temp fsync, close,   *)
(* rename of finalizeTempFile and commitTempInRoot.                         *)
WholeFile == \A t \in Targets : \A i \in disk[t] \ {None} : Whole(i)

Age(v) == IF v = None THEN 0 ELSE gen[v]

(* Result.Durable: once a write was reported durable, no power loss brings  *)
(* back anything older at its target, whatever other writers do meanwhile.  *)
DurableSurvives == \A t \in Targets : \A v \in disk[t] : Age(v) >= floor[t]

(* A call that failed did not reach its target, and a nil error means it    *)
(* did ("A WriteError always means the data did NOT reach its final path"), *)
(* cancellation between any two steps included.                             *)
VerdictIsTrue ==
    \A w \in Writers : pc[w] = "idle" /\ res[w] # "none" =>
        (res[w] \in Successes <=> fd[w] # None /\ gen[fd[w]] > 0)

(* No call leaves a temp behind unless the process was killed, the power    *)
(* was lost or the removal itself failed: every error path after            *)
(* createTempInRoot runs the deferred removal.                              *)
NoUnexplainedTemp ==
    \A n \in TempNames : entry[n] # None => n \in orphans \/ \E w \in Writers : tmp[w] = n

(* Under WithMode whatever may be at the target holds the mode asked for,   *)
(* after a power loss too.                                                  *)
ModeProven ==
    \A t \in Targets : \A i \in disk[t] \ (Preexisting \cup {None}) :
        call[i].modeSet => mode[i] = "wanted"

(* Under WithMode no byte is ever in a temp that others could open: a temp  *)
(* that holds data is owner-only until the final mode is applied.           *)
StagedPrivately ==
    \A w \in Writers : pc[w] \in {"write", "barrier"} /\ CallOf(w).modeSet
                            => mode[fd[w]] = "private"

(* Both: no mode is taken for granted, in the temp or at the target.        *)
ModesHold == ModeProven /\ StagedPrivately

(* A staged temp never holds an over-cap prefix (capWriter, checkWriteCap), *)
(* so neither does anything published.                                      *)
CapNeverCrossed ==
    \A i \in Inodes : call[i] # None /\ call[i].cap > 0 => size[i] <= call[i].cap

(* Something at the target that a write must not replace is never replaced, *)
(* by any number of calls.                                                  *)
SpecialSurvives == [][\A t \in Targets : entry[t] \in Special => entry'[t] = entry[t]]_vars

(* The abstract file: a reader sees inode i as the content i when it is     *)
(* whole, and as a torn file, which AtomicRegister has no name for, when it *)
(* is not.                                                                  *)
Content(v) == IF v = None \/ Whole(v) THEN v ELSE "torn"

Register == INSTANCE AtomicRegister WITH
    Files <- Targets,
    Contents <- Inodes \cup {None},
    file <- [t \in Targets |-> Content(entry[t])],
    recoverable <- [t \in Targets |-> {Content(v) : v \in disk[t]}]

(* The engine implements the register: only the rename changes what a       *)
(* reader sees, and it is always from one whole content to another.         *)
ImplementsRegister == Register!Spec

(* Every call returns, whatever fails, collides or is cancelled on the way. *)
CallReturns == \A w \in Writers : pc[w] # "idle" ~> pc[w] = "idle"

=============================================================================
