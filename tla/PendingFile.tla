---------------------------- MODULE PendingFile ----------------------------
(***************************************************************************)
(* The life of one PendingFile (write.go): the temp a caller writes as a   *)
(* stream, hands to others by its name, and ends with Commit or Cleanup,   *)
(* in any order, any number of times, through the embedded *os.File too.   *)
(*                                                                         *)
(* One goroutine uses it; sweeps and readers of the temp run beside it.    *)
(* Commit is one step here: module AtomicWrite takes the barrier apart.    *)
(* Bytes that a process with the temp open adds after the barrier's fstat  *)
(* are beyond what the code can refuse, and left out.                      *)
(***************************************************************************)
EXTENDS Naturals

CONSTANTS
    Caps,         \* the WithMaxBytes bounds a caller may give, 0 for none
    MaxSize,      \* bound on the bytes of a staged file, and half that of the count
    OutOfStream,  \* whether callers seek, WriteAt and reopen the temp by name
    Old           \* what was at the target before

Sizes == 0..MaxSize

ASSUME SizeAssumption == MaxSize \in Nat
ASSUME CapsAssumption == Caps \subseteq Nat
ASSUME StreamAssumption == OutOfStream \in BOOLEAN
ASSUME OldAssumption == Old \notin Nat

Successes == {"durable", "published"}

VARIABLES
    state,         \* none before NewPendingFile, then the pendingState
    limit,         \* the WithMaxBytes cap
    dirSyncFailed, \* a directory created on the way was not persisted
    ownRoot,       \* whether the PendingFile still has a root to close
    rootOpen,      \* whether the root it works in is open
    fdOpen,        \* whether the embedded file is open
    temp,          \* whether the temp name leads to the staged file
    size,          \* the staged file's size
    offset,        \* the descriptor's file offset
    written,       \* BytesWritten
    result,        \* the cached outcome of Commit
    target,        \* size of the file this handle published, or Old
    reply,         \* history: what the last Commit answered
    owned,         \* history: whether NewPendingFile opened the root
    stepped,       \* history: the stream was resized, or written around
    stuck          \* history: a removal of the temp failed

stream == <<fdOpen, size, offset, written, stepped>>
life == <<state, ownRoot, rootOpen, temp, result, target, reply, stuck>>
given == <<limit, dirSyncFailed, owned>>
vars == <<stream, life, given>>

Init ==
    /\ state = "none" /\ limit = 0 /\ dirSyncFailed = FALSE
    /\ ownRoot = FALSE /\ rootOpen = FALSE /\ owned = FALSE
    /\ fdOpen = FALSE /\ temp = FALSE /\ size = 0 /\ offset = 0 /\ written = 0
    /\ result = "none" /\ target = Old /\ reply = "none"
    /\ stepped = FALSE /\ stuck = FALSE

-----------------------------------------------------------------------------
(* Helpers *)

Larger(m, n) == IF m < n THEN n ELSE m

(* m bytes land at the descriptor's offset, and some are counted.  The count *)
(* is bounded with the size: rewriting makes it larger.                      *)
Land(m, counted) ==
    /\ offset + m <= MaxSize
    /\ written + counted <= 2 * MaxSize
    /\ written' = written + counted
    /\ size' = IF m = 0 THEN size ELSE Larger(size, offset + m)
    /\ offset' = offset + m

(* What the caller is told was staged. *)
BytesWritten == written

(* checkCap *)
CheckCap(n) == limit = 0 \/ written + n <= limit

(* Mutant: a root that a failed Cleanup left open is never closed. *)
CloseOwnedRootLate ==
    /\ ownRoot' = FALSE
    /\ rootOpen' = (rootOpen /\ (~ownRoot \/ state = "open"))

(* closeOwnedRoot: at most once, and never the caller's. *)
CloseOwnedRoot ==
    /\ ownRoot' = FALSE
    /\ rootOpen' = (rootOpen /\ ~ownRoot)

-----------------------------------------------------------------------------
(* The stream *)

(* Mutant: the bytes asked for are counted, not those that landed. *)
WriteCountsAll(n) ==
    /\ fdOpen /\ CheckCap(n)
    /\ \E m \in 0..n : Land(m, n)
    /\ UNCHANGED <<fdOpen, stepped, life, given>>

(* Write and WriteString: a call that would cross the cap is rejected whole; *)
(* of any other some prefix lands, all of it unless the write fails.         *)
Write(n) ==
    /\ fdOpen /\ CheckCap(n)
    /\ \E m \in 0..n : Land(m, m)
    /\ UNCHANGED <<fdOpen, stepped, life, given>>

(* ReadFrom: chunk by chunk through Write under a cap, so what came before   *)
(* the crossing chunk stays; straight to the file without one.               *)
ReadFrom(n) ==
    /\ fdOpen
    /\ \E m \in 0..n : CheckCap(m) /\ Land(m, m)
    /\ UNCHANGED <<fdOpen, stepped, life, given>>

(* Truncate resizes the file and the count, and leaves the offset alone.     *)
Truncate(n) ==
    /\ fdOpen /\ (limit = 0 \/ n <= limit)
    /\ size' = n /\ written' = n
    /\ stepped' = (stepped \/ n # offset)
    /\ UNCHANGED <<fdOpen, offset, life, given>>

(* The embedded file's own Seek, WriteAt and Close, and a writer that        *)
(* reopened the temp by its name: none of them is counted.                   *)
Seek(o) ==
    /\ OutOfStream /\ fdOpen
    /\ offset' = o
    /\ stepped' = TRUE
    /\ UNCHANGED <<fdOpen, size, written, life, given>>

WriteAround(end) ==
    /\ OutOfStream /\ (fdOpen \/ temp)
    /\ state # "committed"
    /\ size' = Larger(size, end)
    /\ stepped' = TRUE
    /\ UNCHANGED <<fdOpen, offset, written, life, given>>

CloseFile ==
    /\ fdOpen
    /\ fdOpen' = FALSE
    /\ UNCHANGED <<size, offset, written, stepped, life, given>>

-----------------------------------------------------------------------------
(* The beginning and the end *)

(* NewPendingFile opens a root of the parent directory, NewPendingFileInRoot *)
(* works in the caller's; if the temp cannot be created, an owned root is    *)
(* closed again.                                                             *)
New(cap, own) ==
    /\ state = "none"
    /\ limit' = cap
    /\ owned' = own
    /\ \/ /\ state' = "open" /\ fdOpen' = TRUE /\ temp' = TRUE
          /\ rootOpen' = TRUE /\ ownRoot' = own
          /\ dirSyncFailed' \in BOOLEAN
       \/ /\ state' = "refused" /\ UNCHANGED <<fdOpen, temp, ownRoot, dirSyncFailed>>
          /\ rootOpen' = ~own
    /\ UNCHANGED <<size, offset, written, stepped, result, target, reply, stuck>>

(* Mutant: the cap is checked against the stream's own count. *)
FinalizesCounted == fdOpen /\ (limit > 0 => written <= limit)

(* finalizeTempFile lets the staged file through: it is open, and no larger  *)
(* than the cap, however its bytes got there.                                *)
Finalizes == fdOpen /\ (limit > 0 => size <= limit)

(* removeTempInRoot: best effort. *)
DropTemp ==
    \/ temp' = FALSE /\ UNCHANGED stuck
    \/ temp /\ stuck' = TRUE /\ UNCHANGED temp

(* Commit of an open PendingFile: the barrier, the rename, the directory     *)
(* fsync; or a failure of any of them, the temp gone, swept away, a context  *)
(* that is done.                                                             *)
CommitOpen ==
    /\ \/ /\ Finalizes /\ temp
          /\ target' = size
          /\ \/ result' = IF dirSyncFailed THEN "published" ELSE "durable"
             \/ result' = "published"
          /\ temp' = FALSE /\ UNCHANGED stuck
       \/ /\ result' = "failed" /\ UNCHANGED target
          /\ DropTemp
    /\ state' = "committed"
    /\ fdOpen' = FALSE
    /\ reply' = result'
    /\ CloseOwnedRoot
    /\ UNCHANGED <<size, offset, written, stepped, given>>

(* Mutant: one flag for every end, so a Commit after Cleanup answers with    *)
(* the zero Result and no error.                                             *)
CommitOneFlag ==
    /\ state \notin {"none", "refused"}
    /\ \/ state = "open" /\ CommitOpen
       \/ /\ state # "open"
          /\ reply' = IF result = "none" THEN "published" ELSE result
          /\ UNCHANGED <<state, ownRoot, rootOpen, temp, result, target, stuck, stream, given>>

(* Commit: once.  Then it answers what it answered; after a Cleanup, even    *)
(* one that failed, ErrAborted.                                              *)
Commit ==
    \/ state = "open" /\ CommitOpen
    \/ /\ state \in {"committed", "cleaned", "cleanupFailed"}
       /\ reply' = IF state = "committed" THEN result ELSE "aborted"
       /\ UNCHANGED <<state, ownRoot, rootOpen, temp, result, target, stuck, stream, given>>

(* Mutant: a failed removal is logged and forgotten. *)
CleanupForgets ==
    /\ state \in {"open", "cleanupFailed"}
    /\ fdOpen' = FALSE
    /\ DropTemp
    /\ state' = "cleaned"
    /\ CloseOwnedRoot
    /\ UNCHANGED <<size, offset, written, stepped, result, target, reply, given>>

(* Cleanup: closes the file and removes the temp; a removal that fails is    *)
(* tried again by the next Cleanup, which needs the root.  After Commit, or  *)
(* once it succeeded, it does nothing.                                       *)
Cleanup ==
    /\ state \in {"open", "cleanupFailed"}
    /\ fdOpen' = FALSE
    /\ \/ /\ temp' = FALSE
          /\ state' = "cleaned"
          /\ CloseOwnedRoot
          /\ UNCHANGED stuck
       \/ /\ temp
          /\ state' = "cleanupFailed"
          /\ stuck' = TRUE
          /\ UNCHANGED <<temp, ownRoot, rootOpen>>
    /\ UNCHANGED <<size, offset, written, stepped, result, target, reply, given>>

(* A sweep takes the temp of a PendingFile that was idle for too long.       *)
Sweep ==
    /\ temp
    /\ temp' = FALSE
    /\ UNCHANGED <<state, ownRoot, rootOpen, stream, result, target, reply, stuck, given>>

Next ==
    \/ \E cap \in Caps, own \in BOOLEAN : New(cap, own)
    \/ \E n \in Sizes : Write(n) \/ ReadFrom(n) \/ Truncate(n) \/ Seek(n) \/ WriteAround(n)
    \/ CloseFile \/ Commit \/ Cleanup \/ Sweep

Spec == Init /\ [][Next]_vars

-----------------------------------------------------------------------------
(* Properties *)

States == {"none", "refused", "open", "committed", "cleaned", "cleanupFailed"}

(* Every variable has its type; the count, moved by every call, stays one.   *)
TypeOK ==
    /\ state \in States
    /\ limit \in Nat
    /\ size \in Nat /\ offset \in Nat /\ written \in Nat
    /\ dirSyncFailed \in BOOLEAN /\ ownRoot \in BOOLEAN /\ rootOpen \in BOOLEAN
    /\ fdOpen \in BOOLEAN /\ temp \in BOOLEAN /\ owned \in BOOLEAN
    /\ stepped \in BOOLEAN /\ stuck \in BOOLEAN
    /\ result \in Successes \cup {"none", "failed"}
    /\ reply \in Successes \cup {"none", "failed", "aborted"}
    /\ target \in Nat \cup {Old}

(* WithMaxBytes: no file that is over the cap at the barrier is published,   *)
(* not even one whose bytes went around the stream and its count.            *)
CapAtPublish == target # Old /\ limit > 0 => target <= limit

(* Commit's answer, however often and whenever it is asked, says what is at  *)
(* the target: success if and only if this handle published, so never after  *)
(* a Cleanup.                                                                *)
ReplyIsTrue ==
    /\ reply # "none" => (reply \in Successes <=> target # Old)
    /\ state \in {"cleaned", "cleanupFailed"} => target = Old

(* Commit and Cleanup are final: what was committed, or cleaned, stays so.   *)
EndsOnce ==
    [][ /\ state \in {"committed", "cleaned"} => UNCHANGED <<state, result, target>>
        /\ state = "cleanupFailed" => state' \in {"cleanupFailed", "cleaned"} ]_vars

(* An owned root is open exactly as long as an operation may still need it,  *)
(* the retry of a failed Cleanup included; the caller's is never closed.     *)
RootLifetime ==
    /\ state # "none" /\ ~owned => rootOpen
    /\ owned => (rootOpen <=> state \in {"open", "cleanupFailed"})

(* A PendingFile at its end leaves no temp, unless a removal in Commit, which *)
(* nothing retries, failed.                                                  *)
TempRemoved ==
    /\ state = "cleaned" => ~temp
    /\ state = "committed" /\ temp => stuck

(* While it is written as an append-only stream, the count is the staged     *)
(* file's size, failed and partial writes included, so a file under a cap    *)
(* never holds an over-cap prefix.                                           *)
CountIsSize ==
    ~stepped => BytesWritten = size /\ offset = size /\ (limit > 0 => size <= limit)

(* What the comment on BytesWritten says: the staged file's size, re-synced  *)
(* by Truncate, for all that goes through Write, WriteString and ReadFrom.   *)
BytesWrittenIsSize == BytesWritten = size

=============================================================================
