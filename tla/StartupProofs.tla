---------------------------- MODULE StartupProofs ----------------------------
(***************************************************************************)
(* Proofs about what a program asks of a directory when it starts:         *)
(* PrivateDir, for any number of calls, directories and other things at    *)
(* the path; and Probe, the Prober of MCStartup, for every number of temp  *)
(* names tried.                                                            *)
(***************************************************************************)
EXTENDS MCStartup, Naturals, TLAPS

-----------------------------------------------------------------------------
(* PrivateDir *)

Holding == {"check", "chmod", "readback"}

(* A directory that is found, held or relied on exists, so that no mkdir    *)
(* makes it anew.                                                           *)
Exist ==
    /\ under \in Dirs => maker[under] # None
    /\ \A c \in Calls : step[c] \in Holding \/ held[c] \in Dirs => maker[held[c]] # None
    /\ \A d \in trusted : maker[d] # None

(* What a call that goes on to EnforceMode knows of the directory. *)
Decided ==
    \A c \in Calls :
        /\ step[c] \in {"chmod", "readback"} => maker[held[c]] # "foreign"
        /\ step[c] = "chmod" => created[c] \/ repairs[c]

(* A call that made a directory still has it before it, or open, unless the *)
(* path was repointed between its mkdir and its open.                       *)
MadeIsHeld ==
    \A c \in Calls :
        /\ step[c] \in {"new", "mkdir"} => ~created[c]
        /\ c \notin misled /\ created[c] =>
              /\ step[c] = "open" => under \in Dirs /\ maker[under] = c
              /\ step[c] \in Holding => maker[held[c]] = c
              /\ verdict[c] = "private" => maker[held[c]] = c
        /\ verdict[c] = "private" => step[c] = "done" /\ held[c] \in Dirs

IInv == TypeOK /\ Exist /\ Decided /\ MadeIsHeld /\ VouchedArePrivate

-----------------------------------------------------------------------------
LEMMA InitEstablishes == Init => IInv
<1> SUFFICES ASSUME Init PROVE IInv
  OBVIOUS
<1> USE NoneAssumption, OccupantsAssumption
<1>1. TypeOK
  BY DEF Init, TypeOK, Steps, Verdicts
<1>2. Exist
  BY DEF Init, Exist, Holding
<1>3. Decided /\ MadeIsHeld /\ VouchedArePrivate
  BY DEF Init, Decided, MadeIsHeld, Holding, VouchedArePrivate
<1> QED BY <1>1, <1>2, <1>3 DEF IInv

(* One case per action. *)
LEMMA StepPreserves ==
  ASSUME IInv, Next
  PROVE  IInv'
<1> USE NoneAssumption, OccupantsAssumption
<1> USE DEF dirs, calls, marks, Holding
<1>1. ASSUME NEW c \in Calls, NEW r \in BOOLEAN, Begin(c, r) PROVE IInv'
  <2>1. TypeOK'
    BY <1>1 DEF IInv, Begin, GoTo, TypeOK, Steps, Verdicts, Modes
  <2>2. Exist'
    BY <1>1 DEF IInv, Begin, GoTo, TypeOK, Exist
  <2>3. Decided'
    BY <1>1 DEF IInv, Begin, GoTo, TypeOK, Exist, Decided
  <2>4. MadeIsHeld'
    BY <1>1 DEF IInv, Begin, GoTo, TypeOK, Exist, MadeIsHeld
  <2>5. VouchedArePrivate'
    BY <1>1 DEF IInv, Begin, GoTo, TypeOK, Exist, Decided, VouchedArePrivate
  <2> QED BY <2>1, <2>2, <2>3, <2>4, <2>5 DEF IInv
<1>2. ASSUME NEW c \in Calls, Mkdir(c) PROVE IInv'
  <2>1. TypeOK'
    <3>1. /\ under' \in Dirs \cup Occupants \cup Links \cup {None}
          /\ perm' \in [Dirs -> Modes]
          /\ maker' \in [Dirs -> Calls \cup {"own", "foreign", None}]
      BY <1>2 DEF IInv, Mkdir, TypeOK
    <3>2. /\ step' \in [Calls -> Steps] /\ repairs' \in [Calls -> BOOLEAN]
          /\ held' \in [Calls -> Dirs \cup {None}]
          /\ verdict' \in [Calls -> Verdicts]
          /\ trusted' \subseteq Dirs /\ misled' \subseteq Calls
      BY <1>2 DEF IInv, Mkdir, GoTo, Return, TypeOK, Steps, Verdicts
    <3>3. created' \in [Calls -> BOOLEAN]
      BY <1>2 DEF IInv, Mkdir, TypeOK
    <3>4. step' = [step EXCEPT ![c] = "open"] \/ step' = [step EXCEPT ![c] = "done"]
      BY <1>2 DEF Mkdir, GoTo, Return
    <3> QED BY <3>1, <3>2, <3>3, <3>4, <1>2 DEF IInv, Mkdir, TypeOK
  <2>2. Exist'
    BY <1>2 DEF IInv, Mkdir, GoTo, Return, TypeOK, Exist
  <2>3. Decided'
    BY <1>2 DEF IInv, Mkdir, GoTo, Return, TypeOK, Exist, Decided
  <2>4. MadeIsHeld'
    BY <1>2 DEF IInv, Mkdir, GoTo, Return, TypeOK, Exist, MadeIsHeld
  <2>5. VouchedArePrivate'
    BY <1>2 DEF IInv, Mkdir, GoTo, Return, TypeOK, Exist, Decided, VouchedArePrivate
  <2> QED BY <2>1, <2>2, <2>3, <2>4, <2>5 DEF IInv
<1>3. ASSUME NEW c \in Calls, Open(c) PROVE IInv'
  <2>1. TypeOK'
    BY <1>3 DEF IInv, Open, GoTo, Return, TypeOK, Steps, Verdicts, Modes
  <2>2. Exist'
    BY <1>3 DEF IInv, Open, GoTo, Return, TypeOK, Exist
  <2>3. Decided'
    BY <1>3 DEF IInv, Open, GoTo, Return, TypeOK, Exist, Decided
  <2>4. MadeIsHeld'
    BY <1>3 DEF IInv, Open, GoTo, Return, TypeOK, Exist, MadeIsHeld
  <2>5. VouchedArePrivate'
    BY <1>3 DEF IInv, Open, GoTo, Return, TypeOK, Exist, Decided, VouchedArePrivate
  <2> QED BY <2>1, <2>2, <2>3, <2>4, <2>5 DEF IInv
<1>4. ASSUME NEW c \in Calls, Label(c) PROVE IInv'
  <2>1. TypeOK'
    BY <1>4 DEF IInv, Label, GoTo, Return, TypeOK, Steps, Verdicts, Modes
  <2>2. Exist'
    BY <1>4 DEF IInv, Label, GoTo, Return, TypeOK, Exist
  <2>3. Decided'
    BY <1>4 DEF IInv, Label, GoTo, Return, TypeOK, Exist, Decided
  <2>4. MadeIsHeld'
    BY <1>4 DEF IInv, Label, GoTo, Return, TypeOK, Exist, MadeIsHeld
  <2>5. VouchedArePrivate'
    BY <1>4 DEF IInv, Label, GoTo, Return, TypeOK, Exist, Decided, VouchedArePrivate
  <2> QED BY <2>1, <2>2, <2>3, <2>4, <2>5 DEF IInv
<1>5. ASSUME NEW c \in Calls, Check(c) PROVE IInv'
  <2>1. TypeOK'
    BY <1>5 DEF IInv, Check, GoTo, Return, Refuse, Vouch, TypeOK, Steps, Verdicts, Modes
  <2>2. Exist'
    BY <1>5 DEF IInv, Check, GoTo, Return, Refuse, Vouch, TypeOK, Exist
  <2>3. Decided'
    BY <1>5 DEF IInv, Check, GoTo, Return, Refuse, Vouch, TypeOK, Exist, Decided
  <2>4. MadeIsHeld'
    BY <1>5 DEF IInv, Check, GoTo, Return, Refuse, Vouch, TypeOK, Exist, MadeIsHeld
  <2>5. VouchedArePrivate'
    BY <1>5 DEF IInv, Check, GoTo, Return, Refuse, Vouch, TypeOK, Exist, Decided, VouchedArePrivate
  <2> QED BY <2>1, <2>2, <2>3, <2>4, <2>5 DEF IInv
<1>6. ASSUME NEW c \in Calls, Chmod(c) PROVE IInv'
  <2>1. TypeOK'
    BY <1>6 DEF IInv, Chmod, GoTo, Return, Refuse, TypeOK, Steps, Verdicts, Modes
  <2>2. Exist'
    BY <1>6 DEF IInv, Chmod, GoTo, Return, Refuse, TypeOK, Exist
  <2>3. Decided'
    BY <1>6 DEF IInv, Chmod, GoTo, Return, Refuse, TypeOK, Exist, Decided
  <2>4. MadeIsHeld'
    BY <1>6 DEF IInv, Chmod, GoTo, Return, Refuse, TypeOK, Exist, MadeIsHeld
  <2>5. VouchedArePrivate'
    BY <1>6 DEF IInv, Chmod, GoTo, Return, Refuse, TypeOK, Exist, Decided, VouchedArePrivate
  <2> QED BY <2>1, <2>2, <2>3, <2>4, <2>5 DEF IInv
<1>7. ASSUME NEW c \in Calls, Readback(c) PROVE IInv'
  <2>1. TypeOK'
    BY <1>7 DEF IInv, Readback, GoTo, Return, Refuse, Vouch, TypeOK, Steps, Verdicts, Modes
  <2>2. Exist'
    BY <1>7 DEF IInv, Readback, GoTo, Return, Refuse, Vouch, TypeOK, Exist
  <2>3. Decided'
    BY <1>7 DEF IInv, Readback, GoTo, Return, Refuse, Vouch, TypeOK, Exist, Decided
  <2>4. MadeIsHeld'
    BY <1>7 DEF IInv, Readback, GoTo, Return, Refuse, Vouch, TypeOK, Exist, MadeIsHeld
  <2>5. VouchedArePrivate'
    BY <1>7 DEF IInv, Readback, GoTo, Return, Refuse, Vouch, TypeOK, Exist, Decided, VouchedArePrivate
  <2> QED BY <2>1, <2>2, <2>3, <2>4, <2>5 DEF IInv
<1>8. ASSUME NEW c \in Calls, Kill(c) PROVE IInv'
  <2>1. TypeOK'
    BY <1>8 DEF IInv, Kill, GoTo, Return, Refuse, TypeOK, Steps, Verdicts, Modes
  <2>2. Exist'
    BY <1>8 DEF IInv, Kill, GoTo, Return, Refuse, TypeOK, Exist
  <2>3. Decided'
    BY <1>8 DEF IInv, Kill, GoTo, Return, Refuse, TypeOK, Exist, Decided
  <2>4. MadeIsHeld'
    BY <1>8 DEF IInv, Kill, GoTo, Return, Refuse, TypeOK, Exist, MadeIsHeld
  <2>5. VouchedArePrivate'
    BY <1>8 DEF IInv, Kill, GoTo, Return, Refuse, TypeOK, Exist, Decided, VouchedArePrivate
  <2> QED BY <2>1, <2>2, <2>3, <2>4, <2>5 DEF IInv
<1>9. ASSUME NEW x \in Dirs \cup Occupants \cup Links \cup {None}, Repoint(x) PROVE IInv'
  <2>1. TypeOK'
    BY <1>9 DEF IInv, Repoint, TypeOK, Steps, Verdicts, Modes
  <2>2. Exist'
    BY <1>9 DEF IInv, Repoint, TypeOK, Exist
  <2>3. Decided'
    BY <1>9 DEF IInv, Repoint, TypeOK, Exist, Decided
  <2>4. MadeIsHeld'
    BY <1>9 DEF IInv, Repoint, TypeOK, Exist, MadeIsHeld
  <2>5. VouchedArePrivate'
    BY <1>9 DEF IInv, Repoint, TypeOK, Exist, Decided, VouchedArePrivate
  <2> QED BY <2>1, <2>2, <2>3, <2>4, <2>5 DEF IInv
<1>10. ASSUME NEW d \in Dirs, NEW m \in Modes, OtherChmod(d, m) PROVE IInv'
  <2>1. TypeOK'
    BY <1>10 DEF IInv, OtherChmod, TypeOK, Steps, Verdicts, Modes
  <2>2. Exist'
    BY <1>10 DEF IInv, OtherChmod, TypeOK, Exist
  <2>3. Decided'
    BY <1>10 DEF IInv, OtherChmod, TypeOK, Exist, Decided
  <2>4. MadeIsHeld'
    BY <1>10 DEF IInv, OtherChmod, TypeOK, Exist, MadeIsHeld
  <2>5. VouchedArePrivate'
    BY <1>10 DEF IInv, OtherChmod, TypeOK, Exist, Decided, VouchedArePrivate
  <2> QED BY <2>1, <2>2, <2>3, <2>4, <2>5 DEF IInv
<1> QED
  BY <1>1, <1>2, <1>3, <1>4, <1>5, <1>6, <1>7, <1>8, <1>9, <1>10 DEF Next

LEMMA StutterPreserves ==
  ASSUME IInv, UNCHANGED vars
  PROVE  IInv'
BY DEF IInv, TypeOK, Exist, Decided, MadeIsHeld, VouchedArePrivate, vars, dirs, calls, marks

LEMMA Inductive == Spec => []IInv
<1>1. IInv /\ [Next]_vars => IInv'
  BY StepPreserves, StutterPreserves
<1> QED BY InitEstablishes, <1>1, PTL DEF Spec

-----------------------------------------------------------------------------
(* Every variable keeps its type, and a call that looks at a descriptor has *)
(* one.                                                                     *)
THEOREM TypeCorrect == Spec => []TypeOK
<1>1. IInv => TypeOK
  BY DEF IInv
<1> QED BY <1>1, Inductive, PTL

(* EnsurePrivateDir: no race of calls, no kill and no retry gives out a     *)
(* foreign or an open directory as private.                                 *)
THEOREM VouchedIsProven == Spec => []VouchedArePrivate
<1>1. IInv => VouchedArePrivate
  BY DEF IInv
<1> QED BY <1>1, Inductive, PTL

(* privatedir.go, the created branch and WithRepairOwnedDir: the mode is    *)
(* changed of nothing but what the call made or was told to repair.         *)
THEOREM FoundIsProven == Spec => []FoundDirsKept
<1>1. IInv => FoundDirsKept
  BY DEF IInv, Decided, MadeIsHeld, Holding, FoundDirsKept
<1> QED BY <1>1, Inductive, PTL

-----------------------------------------------------------------------------
(* Probe *)

NoTempYet == {"begin", "mkdir", "pin", "remake", "create"}
AllWell == NoTempYet \cup {"prove", "write", "sync"}
Teardown == {"close", "remove", "done"}

Stages == Prober!StageMkdir .. Prober!StageRemove

(* TypeOK in three parts. *)
Numbers ==
    /\ form \in Prober!Forms
    /\ phase \in Prober!Phases /\ tries \in 0 .. MaxTries
    /\ stage \in Stages \cup {Prober!StageNone}

FailedOK == failed \subseteq Stages

Flags ==
    /\ mkdirs \in BOOLEAN /\ proves \in BOOLEAN /\ leaked \in BOOLEAN
    /\ dirThere \in BOOLEAN /\ astray \in BOOLEAN /\ temp \in BOOLEAN
    /\ flushed \in BOOLEAN /\ lost \in BOOLEAN /\ absent \in BOOLEAN
    /\ phase \in {"write", "sync", "close", "remove"} => leaked

(* Until the temp is proved nothing is claimed of it. *)
TempInv ==
    /\ phase \in NoTempYet => ~temp
    /\ phase \in NoTempYet \cup {"prove", "discard"} => ~leaked
    /\ phase # "done" => ~lost /\ ~absent

(* Which failures are on record at each step. *)
FailedInv ==
    /\ phase \in AllWell \cup {"discard"} => stage = Prober!StageNone /\ ~flushed
    /\ phase \in AllWell => failed = {}
    /\ phase = "discard" => failed = {Prober!StageCreate}
    /\ phase = "close" => failed \subseteq {Prober!StageWrite, Prober!StageSync}
    /\ phase = "remove" => failed \subseteq {Prober!StageWrite, Prober!StageSync, Prober!StageClose}

(* StageIsTrue holds from the end of the data stages on. *)
FirstIsReported ==
    IF failed = {} THEN stage = Prober!StageNone
    ELSE stage \in failed /\ \A s \in failed : stage <= s

FirstInv == phase \in Teardown => FirstIsReported

WritableInv == phase \in Teardown => (Prober!Writable <=> flushed)

ProbeInv ==
    /\ Numbers /\ FailedOK /\ Flags
    /\ TempInv /\ FailedInv /\ FirstInv /\ WritableInv /\ Prober!LeakedIsTrue

-----------------------------------------------------------------------------
(* All that is used of the stages' numbers. *)
LEMMA StagesAreOrdered ==
  /\ Stages \subseteq Nat /\ Prober!StageNone \in Nat /\ Prober!StageNone \notin Stages
  /\ Stages \cup {Prober!StageNone} = Prober!StageNone .. Prober!StageRemove
  /\ Prober!StageMkdir \in Stages /\ Prober!StageCreate \in Stages /\ Prober!StageWrite \in Stages
  /\ Prober!StageSync \in Stages /\ Prober!StageClose \in Stages /\ Prober!StageRemove \in Stages
  /\ Prober!StageNone < Prober!StageMkdir /\ Prober!StageMkdir < Prober!StageCreate /\ Prober!StageCreate < Prober!StageWrite
  /\ Prober!StageWrite < Prober!StageSync /\ Prober!StageSync < Prober!StageClose /\ Prober!StageClose < Prober!StageRemove
BY DEF Stages, Prober!StageNone, Prober!StageMkdir, Prober!StageCreate, Prober!StageWrite, Prober!StageSync, Prober!StageClose,
       Prober!StageRemove

(* One more failure on record. *)
LEMMA FailureKeepsType ==
  ASSUME FailedOK, NEW s \in Stages, failed' = failed \cup {s}
  PROVE  FailedOK'
BY DEF FailedOK

(* The failure that ends a probe before it has a temp is the only one. *)
LEMMA StopIsFirst ==
  ASSUME NEW s \in Stages, failed \subseteq {s}, Prober!Stop(s)
  PROVE  phase' = "done" /\ stage' = s /\ failed' = {s} /\ FirstIsReported'
<1>1. failed' = {s} /\ stage' = s /\ phase' = "done"
  BY Zenon DEF Prober!Stop
<1> QED BY <1>1, StagesAreOrdered DEF FirstIsReported

(* One that comes after all others leaves the first in its place. *)
LEMMA RecordKeepsFirst ==
  ASSUME FailedOK, FirstIsReported, NEW s \in Stages, \A f \in failed : f < s, Prober!Record(s)
  PROVE  /\ failed' = failed \cup {s} /\ FirstIsReported'
         /\ stage' = IF failed = {} THEN s ELSE stage
<1>1. failed' = failed \cup {s} /\ stage' = IF stage = Prober!StageNone THEN s ELSE stage
  BY Zenon DEF Prober!Record
<1>2. (failed = {} <=> stage = Prober!StageNone) /\ stage \in failed \cup {Prober!StageNone}
  BY StagesAreOrdered DEF FirstIsReported, FailedOK
<1>3. FirstIsReported'
  BY <1>1, <1>2, StagesAreOrdered DEF FirstIsReported, FailedOK
<1> QED BY <1>1, <1>2, <1>3

LEMMA ProbeInvAtFirst ==
  Prober!Init /\ MaxTries \in Nat => ProbeInv
<1> USE DEF Prober!Init, Prober!Phases, NoTempYet, AllWell, Teardown
<1> SUFFICES ASSUME Prober!Init, MaxTries \in Nat PROVE ProbeInv
  OBVIOUS
<1>1. Numbers
  BY StagesAreOrdered DEF Numbers
<1>2. Flags
  BY DEF Flags
<1>3. FailedOK /\ TempInv /\ FailedInv /\ FirstInv /\ WritableInv /\ Prober!LeakedIsTrue
  BY StagesAreOrdered DEF FailedOK, TempInv, FailedInv, FirstInv, WritableInv, Prober!LeakedIsTrue
<1> QED BY <1>1, <1>2, <1>3 DEF ProbeInv

(* One case per action. *)
LEMMA ProbeStepKeeps ==
  ASSUME MaxTries \in Nat, ProbeInv, Prober!Next
  PROVE  ProbeInv'
<1> USE DEF ProbeInv, Prober!asked, Prober!result, Prober!disk, Prober!history, NoTempYet, AllWell, Teardown
<1> USE StagesAreOrdered
<1>1. CASE Prober!Begin
  <2>1. Numbers'
    BY <1>1 DEF Prober!Begin, Prober!Go, Prober!First, Numbers, Prober!Phases
  <2>2. FailedOK'
    BY <1>1 DEF Prober!Begin, Prober!Go, Prober!First, FailedOK
  <2>3. Flags'
    BY <1>1 DEF Prober!Begin, Prober!Go, Prober!First, Flags, Numbers
  <2>4. TempInv'
    BY <1>1 DEF Prober!Begin, Prober!Go, Prober!First, TempInv
  <2>5. FailedInv'
    BY <1>1 DEF Prober!Begin, Prober!Go, Prober!First, FailedInv
  <2>6. FirstInv'
    BY <1>1 DEF Prober!Begin, Prober!Go, Prober!First, FirstInv, FailedInv, FirstIsReported
  <2>7. WritableInv'
    BY <1>1 DEF Prober!Begin, Prober!Go, Prober!First, WritableInv, Prober!Writable, FailedInv
  <2>8. Prober!LeakedIsTrue'
    BY <1>1 DEF Prober!Begin, Prober!Go, Prober!First, Prober!LeakedIsTrue, TempInv, Flags
  <2> QED BY <2>1, <2>2, <2>3, <2>4, <2>5, <2>6, <2>7, <2>8
<1>2. CASE Prober!MkdirAll
  <2>0. Prober!Stop(Prober!StageMkdir) => phase' = "done" /\ stage' = Prober!StageMkdir /\ failed' = {Prober!StageMkdir} /\ FirstIsReported'
    BY <1>2, StopIsFirst DEF Prober!MkdirAll, FailedInv
  <2>1. Numbers'
    BY <1>2, <2>0 DEF Prober!MkdirAll, Prober!Go, Prober!First, Numbers, Prober!Phases
  <2>2. FailedOK'
    BY <1>2, <2>0 DEF Prober!MkdirAll, Prober!Go, Prober!First, FailedOK
  <2>3. Flags'
    BY <1>2, <2>0 DEF Prober!MkdirAll, Prober!Go, Prober!First, Flags, Numbers
  <2>4. TempInv'
    BY <1>2, <2>0 DEF Prober!MkdirAll, Prober!Go, Prober!First, TempInv
  <2>5. FailedInv'
    BY <1>2, <2>0 DEF Prober!MkdirAll, Prober!Go, Prober!First, FailedInv
  <2>6. FirstInv'
    BY <1>2, <2>0 DEF Prober!MkdirAll, Prober!Go, Prober!First, FirstInv, FailedInv, FirstIsReported
  <2>7. WritableInv'
    BY <1>2, <2>0 DEF Prober!MkdirAll, Prober!Go, Prober!First, WritableInv, Prober!Writable, FailedInv
  <2>8. Prober!LeakedIsTrue'
    BY <1>2, <2>0 DEF Prober!MkdirAll, Prober!Go, Prober!First, Prober!LeakedIsTrue, TempInv, Flags
  <2> QED BY <2>1, <2>2, <2>3, <2>4, <2>5, <2>6, <2>7, <2>8
<1>3. CASE Prober!Pin
  <2>0. Prober!Stop(Prober!StageCreate) => phase' = "done" /\ stage' = Prober!StageCreate /\ failed' = {Prober!StageCreate} /\ FirstIsReported'
    BY <1>3, StopIsFirst DEF Prober!Pin, FailedInv
  <2>1. Numbers'
    BY <1>3, <2>0 DEF Prober!Pin, Prober!Go, Numbers, Prober!Phases
  <2>2. FailedOK'
    BY <1>3, <2>0 DEF Prober!Pin, Prober!Go, FailedOK
  <2>3. Flags'
    BY <1>3, <2>0 DEF Prober!Pin, Prober!Go, Flags, Numbers
  <2>4. TempInv'
    BY <1>3, <2>0 DEF Prober!Pin, Prober!Go, TempInv
  <2>5. FailedInv'
    BY <1>3, <2>0 DEF Prober!Pin, Prober!Go, FailedInv
  <2>6. FirstInv'
    BY <1>3, <2>0 DEF Prober!Pin, Prober!Go, FirstInv, FailedInv, FirstIsReported
  <2>7. WritableInv'
    BY <1>3, <2>0 DEF Prober!Pin, Prober!Go, WritableInv, Prober!Writable, FailedInv
  <2>8. Prober!LeakedIsTrue'
    BY <1>3, <2>0 DEF Prober!Pin, Prober!Go, Prober!LeakedIsTrue, TempInv, Flags
  <2> QED BY <2>1, <2>2, <2>3, <2>4, <2>5, <2>6, <2>7, <2>8
<1>4. CASE Prober!Create
  <2>0. Prober!Stop(Prober!StageCreate) => phase' = "done" /\ stage' = Prober!StageCreate /\ failed' = {Prober!StageCreate} /\ FirstIsReported'
    BY <1>4, StopIsFirst DEF Prober!Create, FailedInv
  <2>1. Numbers'
    BY <1>4, <2>0 DEF Prober!Create, Prober!Go, Numbers, Prober!Phases
  <2>2. FailedOK'
    BY <1>4, <2>0 DEF Prober!Create, Prober!Go, FailedOK
  <2>3. Flags'
    BY <1>4, <2>0 DEF Prober!Create, Prober!Go, Flags, Numbers
  <2>4. TempInv'
    <3>1. proves = TRUE \/ proves = FALSE
      BY DEF Flags
    <3>2. CASE proves = TRUE
      <4>1. CASE leaked' = ~proves /\ phase' = "prove" /\ UNCHANGED <<lost, absent>>
        <5>1. ~leaked'
          BY <3>2, <4>1, Zenon
        <5> QED BY <1>4, <4>1, <5>1 DEF Prober!Create, TempInv
      <4>2. CASE leaked' = leaked /\ temp' = temp /\ UNCHANGED <<lost, absent>>
        BY <1>4, <2>0, <4>2 DEF Prober!Create, Prober!Go, TempInv
      <4> QED BY <1>4, <3>2, <4>1, <4>2 DEF Prober!Create, Prober!Go
    <3>3. CASE proves = FALSE
      BY <1>4, <2>0, <3>3 DEF Prober!Create, Prober!Go, TempInv
    <3> QED BY <3>1, <3>2, <3>3
  <2>5. FailedInv'
    BY <1>4, <2>0 DEF Prober!Create, Prober!Go, FailedInv
  <2>6. FirstInv'
    BY <1>4, <2>0 DEF Prober!Create, Prober!Go, FirstInv, FailedInv, FirstIsReported
  <2>7. WritableInv'
    BY <1>4, <2>0 DEF Prober!Create, Prober!Go, WritableInv, Prober!Writable, FailedInv
  <2>8. Prober!LeakedIsTrue'
    BY <1>4, <2>0 DEF Prober!Create, Prober!Go, Prober!LeakedIsTrue, TempInv, Flags
  <2> QED BY <2>1, <2>2, <2>3, <2>4, <2>5, <2>6, <2>7, <2>8
<1>5. CASE Prober!Prove
  <2>1. Numbers'
    BY <1>5 DEF Prober!Prove, Prober!Go, Numbers, Prober!Phases
  <2>2. FailedOK'
    BY <1>5 DEF Prober!Prove, Prober!Go, FailedOK
  <2>3. Flags'
    BY <1>5 DEF Prober!Prove, Prober!Go, Flags, Numbers
  <2>4. TempInv'
    BY <1>5 DEF Prober!Prove, Prober!Go, TempInv
  <2>5. FailedInv'
    BY <1>5 DEF Prober!Prove, Prober!Go, FailedInv
  <2>6. FirstInv'
    BY <1>5 DEF Prober!Prove, Prober!Go, FirstInv, FailedInv, FirstIsReported
  <2>7. WritableInv'
    BY <1>5 DEF Prober!Prove, Prober!Go, WritableInv, Prober!Writable, FailedInv
  <2>8. Prober!LeakedIsTrue'
    BY <1>5 DEF Prober!Prove, Prober!Go, Prober!LeakedIsTrue, TempInv, Flags
  <2> QED BY <2>1, <2>2, <2>3, <2>4, <2>5, <2>6, <2>7, <2>8
<1>6. CASE Prober!Discard
  <2>0. Prober!Stop(Prober!StageCreate) => phase' = "done" /\ stage' = Prober!StageCreate /\ failed' = {Prober!StageCreate} /\ FirstIsReported'
    BY <1>6, StopIsFirst DEF Prober!Discard, FailedInv
  <2>1. Numbers'
    BY <1>6, <2>0 DEF Prober!Discard, Numbers, Prober!Phases
  <2>2. FailedOK'
    BY <1>6, <2>0 DEF Prober!Discard, FailedOK
  <2>3. Flags'
    BY <1>6, <2>0 DEF Prober!Discard, Flags, Numbers
  <2>4. TempInv'
    BY <1>6, <2>0 DEF Prober!Discard, TempInv
  <2>5. FailedInv'
    BY <1>6, <2>0 DEF Prober!Discard, FailedInv
  <2>6. FirstInv'
    BY <1>6, <2>0 DEF Prober!Discard, FirstInv, FailedInv, FirstIsReported
  <2>7. WritableInv'
    BY <1>6, <2>0 DEF Prober!Discard, WritableInv, Prober!Writable, FailedInv
  <2>8. Prober!LeakedIsTrue'
    BY <1>6, <2>0 DEF Prober!Discard, Prober!LeakedIsTrue, TempInv, Flags
  <2> QED BY <2>1, <2>2, <2>3, <2>4, <2>5, <2>6, <2>7, <2>8
<1>7. CASE Prober!Write
  <2>a. /\ phase = "write" /\ leaked' = leaked /\ UNCHANGED <<Prober!asked, tries, Prober!disk, lost, absent>>
        /\ \/ phase' = "sync" /\ UNCHANGED <<stage, failed>>
           \/ phase' = "close" /\ stage' = Prober!StageWrite /\ failed' = failed \cup {Prober!StageWrite}
    BY <1>7 DEF Prober!Write, Prober!Data, Prober!Go
  <2>b. flushed' = FALSE
    <3>1. flushed = FALSE /\ (Prober!StageWrite = Prober!StageSync) = FALSE
      BY <2>a DEF FailedInv, Flags
    <3> QED BY <1>7, <3>1 DEF Prober!Write, Prober!Data
  <2>1. Numbers'
    BY <2>a, <2>b DEF Numbers, Prober!Phases
  <2>2. FailedOK'
    BY <2>a, <2>b DEF FailedOK
  <2>3. Flags'
    BY <2>a, <2>b DEF Flags, Numbers
  <2>4. TempInv'
    BY <2>a, <2>b DEF TempInv
  <2>5. FailedInv'
    BY <2>a, <2>b DEF FailedInv
  <2>6. FirstInv'
    BY <2>a, <2>b DEF FirstInv, FirstIsReported, FailedInv
  <2>7. WritableInv'
    BY <2>a, <2>b DEF WritableInv, Prober!Writable, FailedInv, FirstInv, FirstIsReported
  <2>8. Prober!LeakedIsTrue'
    BY <2>a, <2>b DEF Prober!LeakedIsTrue, TempInv, Flags, FirstInv, FirstIsReported
  <2> QED BY <2>1, <2>2, <2>3, <2>4, <2>5, <2>6, <2>7, <2>8
<1>8. CASE Prober!Sync
  <2>a. /\ phase = "sync" /\ phase' = "close" /\ leaked' = leaked
        /\ UNCHANGED <<Prober!asked, tries, Prober!disk, lost, absent>>
    BY <1>8 DEF Prober!Sync, Prober!Data, Prober!Go
  <2>b. \/ flushed' = TRUE /\ UNCHANGED <<stage, failed>>
        \/ flushed' = FALSE /\ stage' = Prober!StageSync /\ failed' = failed \cup {Prober!StageSync}
    <3>1. flushed = FALSE
      BY <2>a DEF FailedInv, Flags
    <3> QED BY <1>8, <3>1 DEF Prober!Sync, Prober!Data, Prober!Go
  <2>1. Numbers'
    BY <2>a, <2>b DEF Numbers, Prober!Phases
  <2>2. FailedOK'
    BY <2>a, <2>b DEF FailedOK
  <2>3. Flags'
    BY <2>a, <2>b DEF Flags, Numbers
  <2>4. TempInv'
    BY <2>a, <2>b DEF TempInv
  <2>5. FailedInv'
    BY <2>a, <2>b DEF FailedInv
  <2>6. FirstInv'
    BY <2>a, <2>b DEF FirstInv, FirstIsReported, FailedInv
  <2>7. WritableInv'
    BY <2>a, <2>b DEF WritableInv, Prober!Writable, FailedInv, FirstInv, FirstIsReported
  <2>8. Prober!LeakedIsTrue'
    BY <2>a, <2>b DEF Prober!LeakedIsTrue, TempInv, Flags, FirstInv, FirstIsReported
  <2> QED BY <2>1, <2>2, <2>3, <2>4, <2>5, <2>6, <2>7, <2>8
<1>9. CASE Prober!Close
  <2>a. /\ phase = "close" /\ phase' = "remove"
        /\ UNCHANGED <<Prober!asked, tries, leaked, Prober!disk, flushed, lost, absent>>
    BY <1>9 DEF Prober!Close
  <2>b. \/ UNCHANGED <<stage, failed>>
        \/ /\ failed' = failed \cup {Prober!StageClose} /\ FirstIsReported'
           /\ stage' = IF failed = {} THEN Prober!StageClose ELSE stage
    BY <1>9, RecordKeepsFirst DEF Prober!Close, FirstInv, FailedInv
  <2>1. Numbers'
    BY <2>a, <2>b DEF Numbers, Prober!Phases
  <2>2. FailedOK'
    BY <2>a, <2>b DEF FailedOK
  <2>3. Flags'
    BY <2>a, <2>b DEF Flags, Numbers
  <2>4. TempInv'
    BY <2>a, <2>b DEF TempInv
  <2>5. FailedInv'
    BY <2>a, <2>b DEF FailedInv
  <2>6. FirstInv'
    BY <2>a, <2>b DEF FirstInv, FirstIsReported, FailedInv
  <2>7. WritableInv'
    BY <2>a, <2>b DEF WritableInv, Prober!Writable, FailedInv, FirstInv, FirstIsReported
  <2>8. Prober!LeakedIsTrue'
    BY <2>a, <2>b DEF Prober!LeakedIsTrue, TempInv, Flags, FirstInv, FirstIsReported
  <2> QED BY <2>1, <2>2, <2>3, <2>4, <2>5, <2>6, <2>7, <2>8
<1>10. CASE Prober!Remove
  <2>a. /\ phase = "remove" /\ phase' = "done"
        /\ UNCHANGED <<Prober!asked, tries, dirThere, astray, flushed>>
    BY <1>10 DEF Prober!Remove
  <2>b. \/ temp' = FALSE /\ leaked' = FALSE /\ UNCHANGED <<stage, failed, lost, absent>>
        \/ /\ absent' = TRUE /\ leaked' = FALSE /\ lost' = temp
           /\ UNCHANGED <<stage, failed, temp>>
        \/ /\ failed' = failed \cup {Prober!StageRemove} /\ FirstIsReported'
           /\ stage' = IF failed = {} THEN Prober!StageRemove ELSE stage
           /\ UNCHANGED <<temp, leaked, lost, absent>>
    BY <1>10, RecordKeepsFirst DEF Prober!Remove, FirstInv, FailedInv
  <2>1. Numbers'
    BY <2>a, <2>b DEF Numbers, Prober!Phases
  <2>2. FailedOK'
    BY <2>a, <2>b DEF FailedOK
  <2>3. Flags'
    BY <2>a, <2>b DEF Flags, Numbers
  <2>4. TempInv'
    BY <2>a, <2>b DEF TempInv
  <2>5. FailedInv'
    BY <2>a, <2>b DEF FailedInv
  <2>6. FirstInv'
    BY <2>a, <2>b DEF FirstInv, FirstIsReported, FailedInv
  <2>7. WritableInv'
    BY <2>a, <2>b DEF WritableInv, Prober!Writable, FailedInv, FirstInv, FirstIsReported
  <2>8. Prober!LeakedIsTrue'
    <3>1. CASE temp' = FALSE /\ leaked' = FALSE /\ absent' = absent
      BY <2>a, <3>1 DEF Prober!LeakedIsTrue, TempInv
    <3>2. CASE leaked' = FALSE /\ lost' = temp /\ temp' = temp /\ failed' = failed
      <4>1. Prober!StageRemove \notin failed'
        BY <2>a, <3>2 DEF FailedInv
      <4> QED BY <3>2, <4>1, Zenon DEF Prober!LeakedIsTrue
    <3>3. CASE failed' = failed \cup {Prober!StageRemove} /\ FirstIsReported' /\ UNCHANGED <<leaked, absent>>
      <4>1. leaked' /\ ~absent'
        BY <2>a, <3>3 DEF Flags, TempInv
      <4>2. Prober!StageRemove \in failed' /\ stage' # Prober!StageNone
        BY <2>2, <3>3 DEF FirstIsReported, FailedOK
      <4> QED BY <4>1, <4>2 DEF Prober!LeakedIsTrue
    <3> QED BY <2>b, <3>1, <3>2, <3>3
  <2> QED BY <2>1, <2>2, <2>3, <2>4, <2>5, <2>6, <2>7, <2>8
<1>11. CASE Prober!OtherRemoves
  <2>1. Numbers'
    BY <1>11 DEF Prober!OtherRemoves, Numbers, Prober!Phases
  <2>2. FailedOK'
    BY <1>11 DEF Prober!OtherRemoves, FailedOK
  <2>3. Flags'
    BY <1>11 DEF Prober!OtherRemoves, Flags, Numbers
  <2>4. TempInv'
    BY <1>11 DEF Prober!OtherRemoves, TempInv
  <2>5. FailedInv'
    BY <1>11 DEF Prober!OtherRemoves, FailedInv
  <2>6. FirstInv'
    BY <1>11 DEF Prober!OtherRemoves, FirstInv, FailedInv, FirstIsReported
  <2>7. WritableInv'
    BY <1>11 DEF Prober!OtherRemoves, WritableInv, Prober!Writable, FailedInv
  <2>8. Prober!LeakedIsTrue'
    BY <1>11 DEF Prober!OtherRemoves, Prober!LeakedIsTrue, TempInv, Flags
  <2> QED BY <2>1, <2>2, <2>3, <2>4, <2>5, <2>6, <2>7, <2>8
<1>12. CASE Prober!OtherMoves
  <2>1. Numbers'
    BY <1>12 DEF Prober!OtherMoves, Numbers, Prober!Phases
  <2>2. FailedOK'
    BY <1>12 DEF Prober!OtherMoves, FailedOK
  <2>3. Flags'
    BY <1>12 DEF Prober!OtherMoves, Flags, Numbers
  <2>4. TempInv'
    BY <1>12 DEF Prober!OtherMoves, TempInv
  <2>5. FailedInv'
    BY <1>12 DEF Prober!OtherMoves, FailedInv
  <2>6. FirstInv'
    BY <1>12 DEF Prober!OtherMoves, FirstInv, FailedInv, FirstIsReported
  <2>7. WritableInv'
    BY <1>12 DEF Prober!OtherMoves, WritableInv, Prober!Writable, FailedInv
  <2>8. Prober!LeakedIsTrue'
    BY <1>12 DEF Prober!OtherMoves, Prober!LeakedIsTrue, TempInv, Flags
  <2> QED BY <2>1, <2>2, <2>3, <2>4, <2>5, <2>6, <2>7, <2>8
<1>13. CASE Prober!Remake
  <2>0. Prober!Stop(Prober!StageMkdir) => phase' = "done" /\ stage' = Prober!StageMkdir /\ failed' = {Prober!StageMkdir} /\ FirstIsReported'
    BY <1>13, StopIsFirst DEF Prober!Remake, FailedInv
  <2>1. Numbers'
    BY <1>13, <2>0 DEF Prober!Remake, Prober!Go, Numbers, Prober!Phases
  <2>2. FailedOK'
    BY <1>13, <2>0 DEF Prober!Remake, Prober!Go, FailedOK
  <2>3. Flags'
    BY <1>13, <2>0 DEF Prober!Remake, Prober!Go, Flags, Numbers
  <2>4. TempInv'
    BY <1>13, <2>0 DEF Prober!Remake, Prober!Go, TempInv
  <2>5. FailedInv'
    BY <1>13, <2>0 DEF Prober!Remake, Prober!Go, FailedInv
  <2>6. FirstInv'
    BY <1>13, <2>0 DEF Prober!Remake, Prober!Go, FirstInv, FailedInv, FirstIsReported
  <2>7. WritableInv'
    BY <1>13, <2>0 DEF Prober!Remake, Prober!Go, WritableInv, Prober!Writable, FailedInv
  <2>8. Prober!LeakedIsTrue'
    BY <1>13, <2>0 DEF Prober!Remake, Prober!Go, Prober!LeakedIsTrue, TempInv, Flags
  <2> QED BY <2>1, <2>2, <2>3, <2>4, <2>5, <2>6, <2>7, <2>8
<1> QED
  BY <1>1, <1>2, <1>3, <1>4, <1>5, <1>6, <1>7, <1>8, <1>9, <1>10, <1>11, <1>12, <1>13 DEF Prober!Next

LEMMA ProbeStutterKeeps ==
  ASSUME ProbeInv, UNCHANGED Prober!vars
  PROVE  ProbeInv'
BY DEF ProbeInv, Numbers, FailedOK, Flags, TempInv, FailedInv, FirstInv, FirstIsReported,
       WritableInv, Prober!LeakedIsTrue, Prober!Writable, Prober!vars, Prober!asked, Prober!result, Prober!disk, Prober!history

LEMMA ProbeInductive ==
  ASSUME MaxTries \in Nat
  PROVE  Prober!Spec => []ProbeInv
<1>1. Prober!Init => ProbeInv
  BY ProbeInvAtFirst
<1>2. ProbeInv /\ [Prober!Next]_Prober!vars => ProbeInv'
  BY ProbeStepKeeps, ProbeStutterKeeps
<1> QED BY <1>1, <1>2, PTL DEF Prober!Spec

-----------------------------------------------------------------------------
(* Every variable keeps its type, and from its acceptance to its removal    *)
(* the result says that the temp is there.                                  *)
THEOREM ProbeTypeCorrect ==
  ASSUME MaxTries \in Nat
  PROVE  Prober!Spec => []Prober!TypeOK
<1>1. ProbeInv => Prober!TypeOK
  BY StagesAreOrdered, Zenon DEF ProbeInv, Numbers, FailedOK, Stages, Flags, Prober!TypeOK
<1> QED BY <1>1, ProbeInductive, PTL

(* probe.go, Leaked: a temp left behind is reported, but for the two cases  *)
(* the property names; a removal that found nothing counts as done.         *)
THEOREM LeakedIsProven ==
  ASSUME MaxTries \in Nat
  PROVE  Prober!Spec => []LeakedIsTrue
<1>1. ProbeInv => LeakedIsTrue
  BY DEF ProbeInv, LeakedIsTrue
<1> QED BY <1>1, ProbeInductive, PTL

(* recordTeardown: the first failure is the one reported, and Writable()    *)
(* tells whether the byte was flushed.                                      *)
THEOREM StageIsProven ==
  ASSUME MaxTries \in Nat
  PROVE  Prober!Spec => []StageIsTrue
<1>1. ProbeInv => StageIsTrue
  BY DEF ProbeInv, FirstInv, FirstIsReported, WritableInv, StageIsTrue, Prober!StageIsTrue, Teardown
<1> QED BY <1>1, ProbeInductive, PTL

=============================================================================
