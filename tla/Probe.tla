------------------------------- MODULE Probe -------------------------------
(***************************************************************************)
(* ProbeWritable and ProbeWritableInRoot (probe.go): does a directory take *)
(* a real write, and was anything left behind.                             *)
(*                                                                         *)
(* ProbeWritable opens the directory and works below the handle;           *)
(* ProbeWritableInRoot names the temp by its path below the caller's root, *)
(* each time anew.                                                         *)
(***************************************************************************)
EXTENDS Naturals

CONSTANT MaxTries    \* temp names tried before the probe gives up

Forms == {"ambient", "inRoot"}
Phases == {"begin", "mkdir", "pin", "remake", "create", "prove", "discard",
           "write", "sync", "close", "remove", "done"}
(* ProbeStage. *)
StageNone == 0
StageMkdir == 1
StageCreate == 2
StageWrite == 3
StageSync == 4
StageClose == 5
StageRemove == 6

VARIABLES
    form,      \* which entry point runs
    mkdirs,    \* WithMkdirMode
    proves,    \* WithMode: the temp must be proved owner-only
    phase,     \* where the probe stands
    tries,     \* temp names tried
    stage,     \* ProbeResult.Stage
    leaked,    \* ProbeResult.Leaked
    dirThere,  \* there is a directory at the path
    astray,    \* the path no longer leads to the directory with the temp
    temp,      \* the temp's entry is on disk
    failed,    \* history: stages that failed
    flushed,   \* history: the byte was written and synced
    lost,      \* history: the temp was given up without a report
    absent     \* history: the removal found nothing under the temp's name

asked == <<form, mkdirs, proves>>
result == <<stage, leaked>>
disk == <<dirThere, astray, temp>>
history == <<failed, flushed, lost, absent>>
vars == <<asked, phase, tries, result, disk, history>>

Init ==
    /\ form \in Forms /\ mkdirs \in BOOLEAN /\ proves \in BOOLEAN
    /\ phase = "begin" /\ tries = 0
    /\ stage = StageNone /\ leaked = FALSE
    /\ dirThere \in BOOLEAN /\ astray = FALSE /\ temp = FALSE
    /\ failed = {} /\ flushed = FALSE /\ lost = FALSE /\ absent = FALSE

-----------------------------------------------------------------------------
(* Stages that precede the temp: the first failure ends the probe. *)

Stop(s) ==
    /\ phase' = "done"
    /\ stage' = s
    /\ failed' = failed \cup {s}

Go(p) == phase' = p /\ UNCHANGED <<stage, failed>>

First == IF form = "ambient" THEN "pin" ELSE "create"

Begin ==
    /\ phase = "begin"
    /\ Go(IF mkdirs THEN "mkdir" ELSE First)
    /\ UNCHANGED <<asked, tries, leaked, disk, flushed, lost, absent>>

MkdirAll ==
    /\ phase = "mkdir"
    /\ \/ dirThere' = TRUE /\ Go(First)
       \/ Stop(StageMkdir) /\ UNCHANGED dirThere
    /\ UNCHANGED <<asked, tries, leaked, astray, temp, flushed, lost, absent>>

(* os.OpenRoot *)
Pin ==
    /\ phase = "pin"
    /\ \/ dirThere /\ Go(IF mkdirs THEN "remake" ELSE "create")
       \/ Stop(StageCreate)
    /\ UNCHANGED <<asked, tries, leaked, disk, flushed, lost, absent>>

(* The engine makes "." below the handle once more.                         *)
Remake ==
    /\ phase = "remake"
    /\ Go("create") \/ Stop(StageMkdir)
    /\ UNCHANGED <<asked, tries, leaked, disk, flushed, lost, absent>>

(* A handle keeps naming its directory; a path must find one. *)
Reaches == form = "ambient" \/ dirThere

(* createTempInRoot: O_EXCL refuses a name that is taken, and another is    *)
(* drawn.                                                                   *)
Create ==
    /\ phase = "create"
    /\ \/ /\ Reaches
          /\ temp' = TRUE
          /\ Go(IF proves THEN "prove" ELSE "write")
          /\ leaked' = ~proves
          /\ UNCHANGED tries
       \/ /\ Reaches /\ tries < MaxTries
          /\ tries' = tries + 1
          /\ UNCHANGED <<phase, stage, failed, leaked, temp>>
       \/ Stop(StageCreate) /\ UNCHANGED <<tries, leaked, temp>>
    /\ UNCHANGED <<asked, dirThere, astray, flushed, lost, absent>>

(* enforceMode of the new temp to 0600. *)
Prove ==
    /\ phase = "prove"
    /\ \/ Go("write") /\ leaked' = TRUE
       \/ /\ phase' = "discard"
          /\ failed' = failed \cup {StageCreate}
          /\ UNCHANGED <<stage, leaked>>
    /\ UNCHANGED <<asked, tries, disk, flushed, lost, absent>>

(* The name leads to the temp. *)
Leads == temp /\ (form = "inRoot" => dirThere /\ ~astray)

(* An unproved temp is removed as far as that goes, and Leaked stays false. *)
Discard ==
    /\ phase = "discard"
    /\ Stop(StageCreate)
    /\ \/ Leads /\ temp' = FALSE /\ UNCHANGED lost
       \/ lost' = temp /\ UNCHANGED temp
    /\ UNCHANGED <<asked, tries, leaked, dirThere, astray, flushed, absent>>

-----------------------------------------------------------------------------
(* Stages with the temp: teardown always follows. *)

(* probeData stops at the first of its two failures ... *)
Data(p, s, next) ==
    /\ phase = p
    /\ \/ Go(next) /\ flushed' = (s = StageSync)
       \/ /\ phase' = "close"
          /\ stage' = s
          /\ failed' = failed \cup {s}
          /\ UNCHANGED flushed
    /\ UNCHANGED <<asked, tries, leaked, disk, lost, absent>>

Write == Data("write", StageWrite, "sync")
Sync == Data("sync", StageSync, "close")

(* Mutant: the last failure is reported. *)
RecordLast(s) ==
    /\ stage' = s
    /\ failed' = failed \cup {s}

(* ... and recordTeardown reports nothing but the very first. *)
Record(s) ==
    /\ stage' = IF stage = StageNone THEN s ELSE stage
    /\ failed' = failed \cup {s}

Close ==
    /\ phase = "close"
    /\ phase' = "remove"
    /\ Record(StageClose) \/ UNCHANGED <<stage, failed>>
    /\ UNCHANGED <<asked, tries, leaked, disk, flushed, lost, absent>>

(* Mutant: a name that is gone is a failure like another. *)
RemoveInsists ==
    /\ phase = "remove"
    /\ phase' = "done"
    /\ \/ Leads /\ temp' = FALSE /\ leaked' = FALSE /\ UNCHANGED <<stage, failed, lost, absent>>
       \/ ~Leads /\ absent' = TRUE /\ Record(StageRemove) /\ UNCHANGED <<temp, leaked, lost>>
       \/ Record(StageRemove) /\ UNCHANGED <<temp, leaked, lost, absent>>
    /\ UNCHANGED <<asked, tries, dirThere, astray, flushed>>

(* A name that is gone is as good as removed; any other error may come of a *)
(* temp that is there or is not.                                            *)
Remove ==
    /\ phase = "remove"
    /\ phase' = "done"
    /\ \/ Leads /\ temp' = FALSE /\ leaked' = FALSE /\ UNCHANGED <<stage, failed, lost, absent>>
       \/ /\ ~Leads /\ absent' = TRUE /\ leaked' = FALSE /\ lost' = temp
          /\ UNCHANGED <<stage, failed, temp>>
       \/ Record(StageRemove) /\ UNCHANGED <<temp, leaked, lost, absent>>
    /\ UNCHANGED <<asked, tries, dirThere, astray, flushed>>

-----------------------------------------------------------------------------
(* The environment *)

(* A sweep, or anyone, removes the temp. *)
OtherRemoves ==
    /\ temp /\ temp' = FALSE
    /\ UNCHANGED <<asked, phase, tries, result, dirThere, astray, history>>

(* The directory is renamed, with the temp in it, and perhaps replaced; or  *)
(* it, or a first one, comes to the path.                                   *)
OtherMoves ==
    /\ dirThere' \in BOOLEAN
    /\ astray' \in BOOLEAN
    /\ temp \/ ~astray'
    /\ UNCHANGED <<asked, phase, tries, result, temp, history>>

Next ==
    \/ Begin \/ MkdirAll \/ Pin \/ Remake \/ Create \/ Prove \/ Discard
    \/ Write \/ Sync \/ Close \/ Remove
    \/ OtherRemoves \/ OtherMoves

Spec == Init /\ [][Next]_vars

-----------------------------------------------------------------------------
(* Properties *)

(* Every variable has its type, and from the temp's acceptance to its       *)
(* removal the result says it is there.                                     *)
TypeOK ==
    /\ form \in Forms /\ mkdirs \in BOOLEAN /\ proves \in BOOLEAN
    /\ phase \in Phases /\ tries \in 0 .. MaxTries
    /\ stage \in StageNone .. StageRemove /\ leaked \in BOOLEAN
    /\ dirThere \in BOOLEAN /\ astray \in BOOLEAN /\ temp \in BOOLEAN
    /\ failed \subseteq StageMkdir .. StageRemove
    /\ flushed \in BOOLEAN /\ lost \in BOOLEAN /\ absent \in BOOLEAN
    /\ phase \in {"write", "sync", "close", "remove"} => leaked

(* A probe that ends with its temp still on disk says so; it keeps silent   *)
(* only of a temp that it could not prove owner-only and failed to remove,  *)
(* or that went away with its directory before the removal.  Leaked is said *)
(* only after a removal that failed, and never beside an OK; a removal that *)
(* finds nothing under the name is none that failed, so that a sweep which  *)
(* took the temp before turns no sound directory into a failed one.  Of a   *)
(* temp that is gone Leaked may still be said, if its removal failed        *)
(* otherwise: the probe cannot know.                                        *)
LeakedIsTrue ==
    phase = "done" =>
        /\ temp => leaked \/ lost
        /\ leaked => StageRemove \in failed /\ stage # StageNone
        /\ absent => ~leaked /\ StageRemove \notin failed

(* ProbeResult.Writable *)
Writable == stage = StageNone \/ stage >= StageClose

(* The stage reported is the first that failed, whatever failed later in    *)
(* the teardown, OK is said exactly when nothing did, and Writable() is     *)
(* true exactly when the byte was written and flushed.                      *)
StageIsTrue ==
    phase = "done" =>
        /\ IF failed = {} THEN stage = StageNone
           ELSE stage \in failed /\ \A s \in failed : stage <= s
        /\ Writable <=> flushed

=============================================================================
