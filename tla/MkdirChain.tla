---------------------------- MODULE MkdirChain ----------------------------
(***************************************************************************)
(* The directories WithMkdirMode creates on the way to a target            *)
(* (mkdirAllAbs, mkdirAllInRoot, mkdirLevelInRoot), by several writers,    *)
(* and what a power loss may take back of them and of the files in them.   *)
(*                                                                         *)
(* The tree is one chain of directories 1, 2, ..., Depth below a durable   *)
(* directory 0, with one target in each.  A directory is persisted by an   *)
(* fsync of its parent; its own mode and the entries in it by an fsync of  *)
(* itself.  Staging is one step here: module AtomicWrite takes it apart.   *)
(***************************************************************************)
EXTENDS Naturals

CONSTANTS
    Writers,     \* goroutines or processes that write with WithMkdirMode
    Depth,       \* length of the chain
    MayFail,     \* what may fail in a run
    MaxStamp     \* bound on the publications of a run

Levels == 1..Depth
Dirs == 0..Depth

(* stat: os.Stat; mkdir: Mkdir, or opening a directory; mode: what          *)
(* enforceMode reads back; sync: a directory fsync; stage: anything from    *)
(* the creation of the temp to its rename; process: the writer itself.      *)
Failing == {"stat", "mkdir", "mode", "sync", "stage", "process"}

ASSUME DepthAssumption == Depth \in Nat
ASSUME MayFailAssumption == MayFail \subseteq Failing
ASSUME StampAssumption == MaxStamp \in Nat

(* dir is the directory of the target, named by an absolute path or in a    *)
(* root the caller has opened at directory 0.                               *)
Calls == [dir: Dirs, absolute: BOOLEAN]

PCs == {"idle", "scan", "mkdir", "prove", "persist", "publish", "dirsync"}
Outcomes == {"none", "durable", "published", "failed"}

VARIABLES
    depth,      \* directories 1..depth exist
    kept,       \* those a power loss would keep, as long as it keeps their parents
    mode,       \* the mode each directory holds
    modeKept,   \* whether it would survive a power loss
    file,       \* the publication found at each directory's target, 0 for none
    fileKept,   \* what a power loss may leave there
    pc,         \* where each writer's call stands
    dir,        \* the directory of its target
    level,      \* the level it looks at
    created,    \* the levels the call has created: history, the code keeps none
    syncFailed, \* dirSyncFailed, the inverse of mkdirAllInRoot's durable
    res,        \* outcome of its last call
    stamp,      \* history: publications so far
    mine,       \* history: the publication the call made
    floor,      \* history: per target, the newest publication reported durable
    abandoned   \* history: created levels whose creator gave up persisting them

dirs == <<depth, kept, mode, modeKept>>
files == <<file, fileKept>>
ctl == <<pc, dir, level, created, syncFailed, res>>
ghost == <<stamp, mine, floor, abandoned>>
vars == <<dirs, files, ctl, ghost>>

Init ==
    /\ depth \in Dirs
    /\ kept = 1..depth
    /\ mode = [l \in Levels |-> "found"]
    /\ modeKept = [l \in Levels |-> TRUE]
    /\ file = [d \in Dirs |-> 0]
    /\ fileKept = [d \in Dirs |-> {0}]
    /\ pc = [w \in Writers |-> "idle"]
    /\ dir = [w \in Writers |-> 0]
    /\ level = [w \in Writers |-> 0]
    /\ created = [w \in Writers |-> {}]
    /\ syncFailed = [w \in Writers |-> FALSE]
    /\ res = [w \in Writers |-> "none"]
    /\ stamp = 0
    /\ mine = [w \in Writers |-> 0]
    /\ floor = [d \in Dirs |-> 0]
    /\ abandoned = {}

-----------------------------------------------------------------------------
(* Helpers *)

Fails(what) == what \in MayFail

(* fsyncRootDir: the entries of directory d, and its own mode, are on disk. *)
Fsync(d) ==
    /\ kept' = kept \cup ({d + 1} \cap 1..depth)
    /\ modeKept' = IF d = 0 THEN modeKept ELSE [modeKept EXCEPT ![d] = TRUE]
    /\ fileKept' = [fileKept EXCEPT ![d] = {file[d]}]

GoTo(w, label) == pc' = [pc EXCEPT ![w] = label]

(* What comes after level l: the next one, or the target. *)
After(w, l) ==
    /\ GoTo(w, IF l < dir[w] THEN "mkdir" ELSE "publish")
    /\ level' = [level EXCEPT ![w] = IF l < dir[w] THEN l + 1 ELSE l]

Return(w, outcome) ==
    /\ GoTo(w, "idle")
    /\ res' = [res EXCEPT ![w] = outcome]

-----------------------------------------------------------------------------
(* The call *)

(* A name in the caller's root is created from the root down; an absolute   *)
(* path from the deepest directory that already exists.                     *)
Begin(w, c) ==
    /\ pc[w] = "idle" /\ stamp < MaxStamp
    /\ dir' = [dir EXCEPT ![w] = c.dir]
    /\ GoTo(w, IF c.absolute THEN "scan" ELSE IF c.dir = 0 THEN "publish" ELSE "mkdir")
    /\ level' = [level EXCEPT ![w] = IF c.absolute THEN c.dir ELSE IF c.dir = 0 THEN 0 ELSE 1]
    /\ created' = [created EXCEPT ![w] = {}]
    /\ syncFailed' = [syncFailed EXCEPT ![w] = FALSE]
    /\ res' = [res EXCEPT ![w] = "none"]
    /\ mine' = [mine EXCEPT ![w] = 0]
    /\ UNCHANGED <<dirs, files, stamp, floor, abandoned>>

(* Mutant: the level above the one found is taken for it. *)
ScanSkips(w) ==
    /\ pc[w] = "scan"
    /\ IF level[w] <= depth \/ level[w] = 0
       THEN After(w, level[w] + 1)
       ELSE level' = [level EXCEPT ![w] = @ - 1] /\ UNCHANGED pc
    /\ UNCHANGED <<dirs, files, dir, created, syncFailed, res, ghost>>

(* deepestExistingDir: one Stat, from the leaf up.  Between two of them, and *)
(* before the first Mkdir, other writers may create what was found missing.  *)
Scan(w) ==
    /\ pc[w] = "scan"
    /\ \/ /\ level[w] <= depth
          /\ After(w, level[w])
          /\ UNCHANGED res
       \/ /\ level[w] > depth
          /\ level' = [level EXCEPT ![w] = @ - 1]
          /\ UNCHANGED <<pc, res>>
       \/ Fails("stat") /\ Return(w, "failed") /\ UNCHANGED level
    /\ UNCHANGED <<dirs, files, dir, created, syncFailed, ghost>>

(* Mutant: every level is proved, the found ones too. *)
MkdirProvesFound(w) ==
    LET l == level[w] IN
    /\ pc[w] = "mkdir"
    /\ l <= depth
    /\ GoTo(w, "prove")
    /\ UNCHANGED <<dirs, files, dir, level, created, syncFailed, res, ghost>>

(* mkdirLevelInRoot: a level this call creates is its own to prove and to   *)
(* persist; one that is already there is left exactly as found.             *)
Mkdir(w) ==
    LET l == level[w] IN
    /\ pc[w] = "mkdir"
    /\ \/ /\ l <= depth
          /\ After(w, l)
          /\ UNCHANGED <<dirs, created, res>>
       \/ /\ l = depth + 1
          /\ depth' = l
          /\ \E m \in {"wanted", "other"} : mode' = [mode EXCEPT ![l] = m]
          /\ modeKept' = [modeKept EXCEPT ![l] = FALSE]
          /\ created' = [created EXCEPT ![w] = @ \cup {l}]
          /\ GoTo(w, "prove")
          /\ UNCHANGED <<kept, level, res>>
       \/ Fails("mkdir") /\ Return(w, "failed") /\ UNCHANGED <<dirs, created, level>>
    /\ UNCHANGED <<files, dir, syncFailed, ghost>>

(* enforceDirMode: a mode the file system did not store fails the call, and *)
(* leaves the directory behind, its parent not fsynced.                     *)
ProveMode(w) ==
    LET l == level[w] IN
    /\ pc[w] = "prove"
    /\ \E stored \in {"wanted", "other"} :
        /\ mode' = [mode EXCEPT ![l] = stored]
        /\ modeKept' = [modeKept EXCEPT ![l] = FALSE]
        /\ \/ stored = "wanted" /\ GoTo(w, "persist") /\ UNCHANGED <<res, abandoned>>
           \/ /\ Fails("mode")
              /\ Return(w, "failed")
              /\ abandoned' = abandoned \cup {l}
    /\ UNCHANGED <<depth, kept, files, dir, level, created, syncFailed, stamp, mine, floor>>

(* Mutant: the created directory is fsynced instead of its parent. *)
PersistLevelItself(w) ==
    LET l == level[w] IN
    /\ pc[w] = "persist"
    /\ Fsync(l)
    /\ After(w, l)
    /\ UNCHANGED <<depth, mode, file, dir, created, syncFailed, res, ghost>>

(* The new level's parent is fsynced; a failure costs Durable, not the call. *)
PersistLevel(w) ==
    LET l == level[w] IN
    /\ pc[w] = "persist"
    /\ \/ Fsync(l - 1) /\ UNCHANGED <<syncFailed, abandoned>>
       \/ /\ Fails("sync")
          /\ syncFailed' = [syncFailed EXCEPT ![w] = TRUE]
          /\ abandoned' = abandoned \cup {l}
          /\ UNCHANGED <<kept, modeKept, fileKept>>
    /\ After(w, l)
    /\ UNCHANGED <<depth, mode, file, dir, created, res, stamp, mine, floor>>

(* The temp is staged in the directory and renamed over the target there.   *)
Publish(w) ==
    LET d == dir[w] IN
    /\ pc[w] = "publish"
    /\ \/ /\ stamp < MaxStamp
          /\ file' = [file EXCEPT ![d] = stamp + 1]
          /\ fileKept' = [fileKept EXCEPT ![d] = @ \cup {stamp + 1}]
          /\ stamp' = stamp + 1
          /\ mine' = [mine EXCEPT ![w] = stamp + 1]
          /\ GoTo(w, "dirsync")
          /\ UNCHANGED res
       \/ Fails("stage") /\ Return(w, "failed") /\ UNCHANGED <<files, stamp, mine>>
    /\ UNCHANGED <<dirs, dir, level, created, syncFailed, floor, abandoned>>

(* Mutant: the mkdir step's verdict is not folded into Result.Durable. *)
DirSyncForgetful(w) ==
    LET d == dir[w] IN
    /\ pc[w] = "dirsync"
    /\ Fsync(d)
    /\ Return(w, "durable")
    /\ floor' = [floor EXCEPT ![d] = IF @ < mine[w] THEN mine[w] ELSE @]
    /\ UNCHANGED <<depth, mode, file, dir, level, created, syncFailed, stamp, mine, abandoned>>

(* Durable: the target's directory is fsynced, and nothing failed to be on   *)
(* the way to it.                                                            *)
DirSync(w) ==
    LET d == dir[w] IN
    /\ pc[w] = "dirsync"
    /\ \/ /\ Fsync(d)
          /\ Return(w, IF syncFailed[w] THEN "published" ELSE "durable")
          /\ floor' = [floor EXCEPT ![d] = IF ~syncFailed[w] /\ @ < mine[w] THEN mine[w] ELSE @]
       \/ /\ Fails("sync")
          /\ Return(w, "published")
          /\ UNCHANGED <<kept, modeKept, fileKept, floor>>
    /\ UNCHANGED <<depth, mode, file, dir, level, created, syncFailed, stamp, mine, abandoned>>

-----------------------------------------------------------------------------
(* The environment *)

(* A level that exists, is not persisted, and still has its creator at work. *)
BeingMade(w) == IF pc[w] \in {"prove", "persist"} THEN {level[w]} ELSE {}

(* The process dies; what it was creating stays as it is. *)
Kill(w) ==
    /\ pc[w] # "idle" /\ Fails("process")
    /\ Return(w, "none")
    /\ abandoned' = abandoned \cup BeingMade(w)
    /\ UNCHANGED <<dirs, files, dir, level, created, syncFailed, stamp, mine, floor>>

(* Power loss: a directory that was not persisted may be gone, and with it   *)
(* everything below; a file falls back to what its directory may hold.       *)
(* What is left is on disk.  A target whose directory is lost promises       *)
(* nothing any more: DurableSurvives speaks of the state before the loss.    *)
PowerLoss ==
    \E left \in 0..depth, lost \in SUBSET {l \in Levels : ~modeKept[l]},
       back \in [Dirs -> 0..stamp] :
        /\ left < depth => left + 1 \notin kept
        /\ \A d \in Dirs : back[d] \in IF d <= left THEN fileKept[d] ELSE {0}
        /\ depth' = left
        /\ kept' = 1..left
        /\ mode' = [l \in Levels |-> IF l > left THEN "found"
                                     ELSE IF l \in lost THEN "other" ELSE mode[l]]
        /\ modeKept' = [l \in Levels |-> TRUE]
        /\ file' = back
        /\ fileKept' = [d \in Dirs |-> {back[d]}]
        /\ floor' = [d \in Dirs |-> IF d <= left THEN floor[d] ELSE 0]
        /\ pc' = [w \in Writers |-> "idle"]
        /\ res' = [w \in Writers |-> "none"]
        /\ created' = [w \in Writers |-> {}]
        /\ abandoned' = {}
        /\ UNCHANGED <<dir, level, syncFailed, stamp, mine>>

-----------------------------------------------------------------------------
Step(w) ==
    \/ Scan(w) \/ Mkdir(w) \/ ProveMode(w) \/ PersistLevel(w)
    \/ Publish(w) \/ DirSync(w)

Next ==
    \/ \E w \in Writers : (\E c \in Calls : Begin(w, c)) \/ Step(w) \/ Kill(w)
    \/ PowerLoss

Spec == Init /\ [][Next]_vars

-----------------------------------------------------------------------------
(* Properties *)

(* Every variable has its type; in particular no call looks above the root   *)
(* of the chain or below its target's directory.                             *)
TypeOK ==
    /\ depth \in Dirs
    /\ kept \subseteq Levels
    /\ mode \in [Levels -> {"found", "wanted", "other"}]
    /\ modeKept \in [Levels -> BOOLEAN]
    /\ file \in [Dirs -> Nat]
    /\ fileKept \in [Dirs -> SUBSET Nat]
    /\ pc \in [Writers -> PCs]
    /\ dir \in [Writers -> Dirs]
    /\ level \in [Writers -> Dirs]
    /\ created \in [Writers -> SUBSET Levels]
    /\ syncFailed \in [Writers -> BOOLEAN]
    /\ res \in [Writers -> Outcomes]
    /\ stamp \in Nat
    /\ mine \in [Writers -> Nat]
    /\ floor \in [Dirs -> Nat]
    /\ abandoned \subseteq Levels

(* What Result.Durable promises, every directory of the path included: a     *)
(* power loss brings back nothing older than a write reported durable.       *)
DurableSurvives ==
    \A d \in Dirs : floor[d] > 0 =>
        /\ 1..d \subseteq kept
        /\ \A f \in fileKept[d] : f >= floor[d]

(* What the code keeps of that promise with any number of writers: a power   *)
(* loss takes a durable write only with a directory that another call        *)
(* created and has not persisted yet, or never will (mkdirLevelInRoot does   *)
(* not fsync for a level it did not create).                                 *)
DurableButForOthersLevels ==
    \A d \in Dirs : floor[d] > 0 =>
        /\ 1..d \subseteq kept \cup abandoned \cup UNION {BeingMade(w) : w \in Writers}
        /\ \A f \in fileKept[d] : f >= floor[d]

(* A call that reports durable has persisted every level it created, each    *)
(* with the mode WithMkdirMode asked for, and the mode too of those it went  *)
(* on to create or to publish in.                                            *)
OwnLevelsKept ==
    \A w \in Writers : pc[w] = "idle" /\ res[w] = "durable" =>
        \A l \in created[w] :
            /\ l \in kept /\ mode[l] = "wanted"
            /\ l = dir[w] \/ l + 1 \in created[w] => modeKept[l]

(* A call that published reached a directory that exists, whoever created    *)
(* its levels, and what deepestExistingDir found stays true.                 *)
NothingBelowMissing ==
    \A w \in Writers :
        /\ pc[w] \in {"prove", "persist", "publish", "dirsync"} => level[w] <= depth
        /\ pc[w] = "mkdir" => level[w] <= depth + 1
        /\ pc[w] \in {"publish", "dirsync"} => dir[w] <= depth

(* A pre-existing directory is never chmod'ed: only the call that created a  *)
(* level changes its mode.                                                   *)
FoundModesKept ==
    [][\A l \in Levels : mode[l] = "found" /\ l <= depth /\ l <= depth'
                            => mode'[l] = "found"]_vars

=============================================================================
