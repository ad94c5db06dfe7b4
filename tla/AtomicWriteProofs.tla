------------------------- MODULE AtomicWriteProofs -------------------------
(***************************************************************************)
(* Proofs about AtomicWrite, for every number of writers, targets, temp    *)
(* names, files and kinds of call.                                         *)
(***************************************************************************)
EXTENDS AtomicWrite, TLAPS

(* Where a call's file is still private to it, owns a temp name, and holds  *)
(* its whole content.                                                       *)
Owning == {"prove", "write", "barrier", "chmod", "sync", "close", "rename", "discard"}
Staging == Owning \cup {"open", "create"}
Complete == {"barrier", "chmod", "sync", "close", "rename"}

(* Every file a call stages is its own, nothing else is on the disk, and a  *)
(* file no call has begun to stage is empty.                                *)
FileInv ==
    /\ \A w \in Writers : pc[w] # "idle" => fd[w] # None
    /\ \A w \in Writers : fd[w] # None => fd[w] \notin Preexisting /\ call[fd[w]] # None
    /\ \A v, w \in Writers : v # w /\ fd[w] # None => fd[v] # fd[w]
    /\ \A n \in Names : entry[n] \in disk[n]
    /\ \A n \in Names : \A i \in disk[n] \ {None} : i \in Preexisting \/ call[i] # None
    /\ \A i \in Inodes \ Preexisting : call[i] = None => size[i] = 0 /\ gen[i] = 0

(* A temp name is one call's own; it leads to that call's file or nowhere. *)
TempInv ==
    /\ \A w \in Writers : tmp[w] # None <=> pc[w] \in Owning
    /\ \A w \in Writers : tmp[w] # None => entry[tmp[w]] \in {fd[w], None}
    /\ \A v, w \in Writers : v # w /\ tmp[w] # None => tmp[v] # tmp[w]

(* Before the rename the file cannot be at a target, now or after a power   *)
(* loss; from the barrier on it is complete, from the close on it is synced. *)
Staged(w) ==
    /\ pc[w] \in Staging => gen[fd[w]] = 0 /\ \A t \in Targets : fd[w] \notin disk[t]
    /\ pc[w] \in Complete => size[fd[w]] = CallOf(w).len
    /\ pc[w] \in {"close", "rename"} => synced[fd[w]]
StageInv == \A w \in Writers : Staged(w)

(* Renames are numbered; a call between its rename and its directory fsync  *)
(* is no newer than what its target holds.                                  *)
OrderInv ==
    /\ \A i \in Inodes : gen[i] <= stamp
    /\ \A t \in Targets : floor[t] <= stamp
    /\ \A w \in Writers : pc[w] = "dirsync" =>
            0 < gen[fd[w]] /\ gen[fd[w]] <= Age(entry[TargetOf(w)])

(* The mode is proved before the fsync, and every failure is decided before *)
(* the removal it leads to.                                                 *)
ModeInv ==
    \A w \in Writers : pc[w] \in {"sync", "close", "rename"} /\ CallOf(w).modeSet
                            => mode[fd[w]] = "wanted"
DiscardInv == \A w \in Writers : pc[w] = "discard" => res[w] \in Failures

(* No call writes more than its content, and WriteFile's content fits. *)
SizeInv ==
    \A i \in Inodes : call[i] # None =>
        /\ size[i] <= call[i].len
        /\ call[i].kind = "bytes" => ~OverCap(call[i], call[i].len)

IInv ==
    /\ TypeOK /\ FileInv /\ TempInv /\ StageInv /\ OrderInv /\ ModeInv /\ DiscardInv
    /\ SizeInv /\ WholeFile /\ DurableSurvives /\ VerdictIsTrue /\ NoUnexplainedTemp
    /\ ModeProven /\ StagedPrivately /\ CapNeverCrossed

-----------------------------------------------------------------------------
(* The helpers that end, fail or continue a call keep the types of what they *)
(* change.                                                                  *)
Outcomes == Successes \cup Failures \cup {"none"}
CtlTypes ==
    /\ pc \in [Writers -> PCs]
    /\ tmp \in [Writers -> TempNames \cup {None}]
    /\ tries \in [Writers -> 0..MaxTries]
    /\ cancelled \in [Writers -> BOOLEAN]
    /\ res \in [Writers -> Outcomes]

(* Return keeps the types of what it changes.                                *)
LEMMA ReturnTypes ==
  ASSUME TypeOK, NEW w \in Writers, NEW o \in Outcomes, Return(w, o)
  PROVE  CtlTypes'
BY TriesAssumption DEF TypeOK, CtlTypes, Outcomes, Return, Release, GoTo, PCs

(* So does Fail.                                                             *)
LEMMA FailTypes ==
  ASSUME TypeOK, NEW w \in Writers, NEW o \in Failures, Fail(w, o)
  PROVE  CtlTypes'
BY TriesAssumption DEF TypeOK, CtlTypes, Outcomes, Fail, Release, GoTo, PCs

(* So does Proceed.                                                          *)
LEMMA ProceedTypes ==
  ASSUME TypeOK, NEW w \in Writers, NEW l \in PCs, Proceed(w, l)
  PROVE  CtlTypes'
BY DEF TypeOK, CtlTypes, Outcomes, Proceed, GoTo

(* So does Enforce, which leaves the files alone.                            *)
LEMMA EnforceTypes ==
  ASSUME TypeOK, NEW w \in Writers, NEW want, NEW next \in PCs, NEW phase \in Failures,
         Enforce(w, want, next, phase), fd[w] \in Inodes
  PROVE  TypeOK'
<1>1. CtlTypes'
  BY FailTypes, ProceedTypes DEF Enforce
<1> QED BY <1>1 DEF TypeOK, CtlTypes, Outcomes, Enforce, ghost

(* What a call that is running knows of its file, and one that has a temp   *)
(* of its temp.                                                             *)
LEMMA InFlight ==
  ASSUME TypeOK, FileInv, NEW w \in Writers, pc[w] # "idle"
  PROVE  /\ fd[w] \in Inodes \ Preexisting
         /\ call[fd[w]] \in CallShape
         /\ TargetOf(w) \in Targets
BY CallsAssumption DEF TypeOK, FileInv, CallOf, TargetOf, CallShape

(* A call that has nothing more to write has written everything. *)
LEMMA WrittenOut ==
  ASSUME TypeOK, FileInv, SizeInv, NEW w \in Writers, pc[w] # "idle",
         ~(size[fd[w]] < CallOf(w).len)
  PROVE  size[fd[w]] = CallOf(w).len
<1>1. size[fd[w]] \in Nat /\ CallOf(w).len \in Nat /\ size[fd[w]] <= CallOf(w).len
  BY InFlight DEF TypeOK, FileInv, SizeInv, CallOf, CallShape
<1> QED BY <1>1

(* The temp a call owns leads to its file or nowhere, and no other call owns it. *)
LEMMA OwnTemp ==
  ASSUME TypeOK, FileInv, TempInv, NEW w \in Writers, pc[w] \in Owning
  PROVE  /\ tmp[w] \in TempNames
         /\ tmp[w] # TargetOf(w)
         /\ entry[tmp[w]] \in {fd[w], None}
BY InFlight, NamesAssumption DEF TypeOK, TempInv, Owning

(* A rename that succeeds moves the call's own file, and nothing else. *)
Renamed(w) ==
    /\ pc[w] = "rename" /\ pc'[w] = "dirsync"
    /\ fd[w] \in disk[tmp[w]]
    /\ \A n \in Names :
        /\ entry'[n] = IF n = tmp[w] THEN None ELSE IF n = TargetOf(w) THEN fd[w] ELSE entry[n]
        /\ disk'[n] = disk[n] \cup IF n = tmp[w] THEN {None}
                                 ELSE IF n = TargetOf(w) THEN {fd[w]} ELSE {}
    /\ \A i \in Inodes : gen'[i] = IF i = fd[w] THEN stamp + 1 ELSE gen[i]
    /\ stamp' = stamp + 1
    /\ tmp'[w] = None
    /\ \A v \in Writers \ {w} : tmp'[v] = tmp[v] /\ pc'[v] = pc[v]
    /\ UNCHANGED <<size, mode, synced, fd, res, call, floor, orphans>>

(* RenameTemp either moves the call's own file over its target or fails.     *)
LEMMA RenameEffect ==
  ASSUME TypeOK, FileInv, TempInv, NEW w \in Writers, RenameTemp(w)
  PROVE  Renamed(w) \/ (pc[w] = "rename" /\ Fail(w, "Rename") /\ UNCHANGED <<fs, fd, ghost>>)
<1>1. /\ fd[w] \in Inodes /\ TargetOf(w) \in Names /\ tmp[w] \in Names
      /\ tmp[w] # TargetOf(w) /\ entry[tmp[w]] \in {fd[w], None}
      /\ entry[tmp[w]] \in disk[tmp[w]]
  BY InFlight, OwnTemp DEF RenameTemp, Owning, Names, FileInv
<1>2. CASE entry[tmp[w]] = None
  BY <1>2, <1>1 DEF RenameTemp, fs, ghost
<1>3. CASE entry[tmp[w]] = fd[w] /\ fd[w] # None
  BY <1>3, <1>1 DEF RenameTemp, Renamed, TypeOK, GoTo, fs, ghost
<1> QED BY <1>1, <1>2, <1>3

(* Every step keeps the types.                                               *)
LEMMA TypeStep ==
  ASSUME TypeOK, FileInv, TempInv, [Next]_vars
  PROVE  TypeOK'
<1> USE NamesAssumption, InodesAssumption DEF Outcomes, Successes, Failures, PCs
<1>1. ASSUME NEW w \in Writers, NEW c \in Calls, Begin(w, c) PROVE TypeOK'
  <2>1. CtlTypes'
    BY <1>1, ReturnTypes DEF Begin, GoTo, CtlTypes, TypeOK
  <2> QED BY <1>1, <2>1, InFlight DEF Begin, TypeOK, CtlTypes, fs, ghost
<1>2. ASSUME NEW w \in Writers, CheckTarget(w) PROVE TypeOK'
  <2>1. CtlTypes'
    BY <1>2, ReturnTypes, ProceedTypes DEF CheckTarget, GoTo, CtlTypes, TypeOK
  <2> QED BY <1>2, <2>1, InFlight DEF CheckTarget, TypeOK, CtlTypes, fs, ghost
<1>3. ASSUME NEW w \in Writers, TempCollision(w) PROVE TypeOK'
  <2>1. CtlTypes'
    BY <1>3, ReturnTypes, TriesAssumption DEF TempCollision, CtlTypes, TypeOK
  <2> QED BY <1>3, <2>1, InFlight DEF TempCollision, TypeOK, CtlTypes, fs, ghost
<1>4. ASSUME NEW w \in Writers, CreateTemp(w) PROVE TypeOK'
  <2>1. CtlTypes'
    BY <1>4, ReturnTypes DEF CreateTemp, GoTo, CtlTypes, TypeOK
  <2>2. fd[w] \in Inodes
    BY <1>4, InFlight DEF CreateTemp
  <2>3. entry' \in [Names -> Inodes \cup {None}] /\ disk' \in [Names -> SUBSET (Inodes \cup {None})]
    BY <1>4, <2>2 DEF CreateTemp, Link, TypeOK
  <2>4. mode' \in [Inodes -> Modes]
    BY <1>4, <2>2 DEF CreateTemp, TypeOK
  <2>5. synced' \in [Inodes -> BOOLEAN]
    BY <1>4, <2>2 DEF CreateTemp, TypeOK
  <2> QED BY <1>4, <2>1, <2>2, <2>3, <2>4, <2>5 DEF CreateTemp, TypeOK, CtlTypes, ghost
<1>5. ASSUME NEW w \in Writers, ProveOwnerOnly(w) PROVE TypeOK'
  BY <1>5, InFlight, EnforceTypes DEF ProveOwnerOnly
<1>6. ASSUME NEW w \in Writers, WriteData(w) PROVE TypeOK'
  <2>1. CtlTypes'
    BY <1>6, FailTypes, ProceedTypes DEF WriteData, GoTo, CtlTypes, TypeOK
  <2>2. fd[w] \in Inodes /\ size[fd[w]] + 1 \in Nat
    BY <1>6, InFlight DEF WriteData, TypeOK
  <2>3. size' \in [Inodes -> Nat]
    BY <1>6, <2>2 DEF WriteData, TypeOK
  <2>4. synced' \in [Inodes -> BOOLEAN]
    BY <1>6, <2>2 DEF WriteData, TypeOK
  <2> QED BY <1>6, <2>1, <2>3, <2>4 DEF WriteData, TypeOK, CtlTypes, ghost
<1>7. ASSUME NEW w \in Writers, Barrier(w) PROVE TypeOK'
  <2>1. CtlTypes'
    BY <1>7, FailTypes, ProceedTypes DEF Barrier, GoTo, CtlTypes, TypeOK
  <2> QED BY <1>7, <2>1, InFlight DEF Barrier, TypeOK, CtlTypes, fs, ghost
<1>8. ASSUME NEW w \in Writers, EnforceFinalMode(w) PROVE TypeOK'
  BY <1>8, InFlight, EnforceTypes DEF EnforceFinalMode
<1>9. ASSUME NEW w \in Writers, SyncTemp(w) PROVE TypeOK'
  <2>1. CtlTypes'
    BY <1>9, FailTypes, ProceedTypes DEF SyncTemp, GoTo, CtlTypes, TypeOK
  <2> QED BY <1>9, <2>1, InFlight DEF SyncTemp, TypeOK, CtlTypes, fs, ghost
<1>10. ASSUME NEW w \in Writers, CloseTemp(w) PROVE TypeOK'
  <2>1. CtlTypes'
    BY <1>10, FailTypes, ProceedTypes DEF CloseTemp, GoTo, CtlTypes, TypeOK
  <2> QED BY <1>10, <2>1, InFlight DEF CloseTemp, TypeOK, CtlTypes, fs, ghost
<1>11. ASSUME NEW w \in Writers, RenameTemp(w) PROVE TypeOK'
  <2>1. CtlTypes'
    BY <1>11, FailTypes DEF RenameTemp, GoTo, CtlTypes, TypeOK
  <2> QED BY <1>11, <2>1, InFlight, OwnTemp, SMTT(30) DEF RenameTemp, Owning, TypeOK, CtlTypes,
       fs, ghost
<1>12. ASSUME NEW w \in Writers, DirSync(w) PROVE TypeOK'
  <2>1. CtlTypes'
    BY <1>12, ReturnTypes DEF DirSync, GoTo, CtlTypes, TypeOK
  <2> QED BY <1>12, <2>1, InFlight DEF DirSync, TypeOK, CtlTypes, fs, ghost
<1>13. ASSUME NEW w \in Writers, Discard(w) PROVE TypeOK'
  <2>1. CtlTypes'
    BY <1>13, ReturnTypes DEF Discard, GoTo, CtlTypes, TypeOK
  <2>2. tmp[w] \in TempNames
    BY <1>13, OwnTemp DEF Discard, Owning
  <2>3. entry' \in [Names -> Inodes \cup {None}] /\ disk' \in [Names -> SUBSET (Inodes \cup {None})]
    BY <1>13, <2>2 DEF Discard, Link, TypeOK
  <2> QED BY <1>13, <2>1, <2>2, <2>3 DEF Discard, TypeOK, CtlTypes
<1>14. ASSUME NEW w \in Writers, Cancel(w) PROVE TypeOK'
  BY <1>14 DEF Cancel, TypeOK, Names, fs, ctl, ghost
<1>15. ASSUME NEW w \in Writers, Kill(w) PROVE TypeOK'
  BY <1>15, TriesAssumption DEF Kill, Release, GoTo, TypeOK, Names, fs, ctl, ghost
<1>16. ASSUME NEW n \in TempNames, Sweep(n) PROVE TypeOK'
  BY <1>16 DEF Sweep, Link, TypeOK, Names, fs, ctl, ghost
<1>17. CASE PowerLoss
  BY <1>17, TriesAssumption DEF PowerLoss, TypeOK, Modes
<1>18. CASE UNCHANGED vars
  BY <1>18 DEF vars, fs, ctl, ghost, TypeOK
<1> QED BY <1>1, <1>2, <1>3, <1>4, <1>5, <1>6, <1>7, <1>8, <1>9, <1>10, <1>11, <1>12,
     <1>13, <1>14, <1>15, <1>16, <1>17, <1>18 DEF Next, Step

(* A step stages only the files its own call began, and links no other: the  *)
(* disk holds nothing that was never staged.                                 *)
LEMMA FileInvStep ==
  ASSUME TypeOK, TempInv, FileInv, [Next]_vars
  PROVE  FileInv'
<1> USE NamesAssumption, InodesAssumption, CallsAssumption DEF TypeOK, TempInv,
     FileInv, Names, fs, ctl, ghost
<1>1. CASE \E w \in Writers, c \in Calls : Begin(w, c)
  BY <1>1, SMTT(40) DEF Begin, Return, Release, GoTo
<1>2. CASE \E w \in Writers : CheckTarget(w)
  BY <1>2, SMTT(40) DEF CheckTarget, Return, Proceed, Release, GoTo
<1>3. CASE \E w \in Writers : TempCollision(w)
  BY <1>3, SMTT(40) DEF TempCollision, Return, Release, GoTo
<1>4. CASE \E w \in Writers : CreateTemp(w)
  BY <1>4, SMTT(40) DEF CreateTemp, Return, Release, GoTo, Link
<1>5. CASE \E w \in Writers : ProveOwnerOnly(w)
  BY <1>5, SMTT(40) DEF ProveOwnerOnly, Enforce, Fail, Proceed, Release, GoTo
<1>6. CASE \E w \in Writers : WriteData(w)
  BY <1>6, SMTT(40) DEF WriteData, Fail, Proceed, Release, GoTo
<1>7. CASE \E w \in Writers : Barrier(w)
  BY <1>7, SMTT(40) DEF Barrier, Fail, Proceed, Release, GoTo
<1>8. CASE \E w \in Writers : EnforceFinalMode(w)
  BY <1>8, SMTT(40) DEF EnforceFinalMode, Enforce, Fail, Proceed, Release, GoTo
<1>9. CASE \E w \in Writers : SyncTemp(w)
  BY <1>9, SMTT(40) DEF SyncTemp, Fail, Proceed, Release, GoTo
<1>10. CASE \E w \in Writers : CloseTemp(w)
  BY <1>10, SMTT(40) DEF CloseTemp, Fail, Proceed, Release, GoTo
<1>11. ASSUME NEW w \in Writers, RenameTemp(w) PROVE FileInv'
  <2>1. CASE Renamed(w)
    BY <2>1, InFlight, OwnTemp, SMTT(40) DEF Renamed, Owning
  <2>2. CASE pc[w] = "rename" /\ Fail(w, "Rename") /\ UNCHANGED <<fs, fd, ghost>>
    BY <2>2, SMTT(40) DEF Fail, Release, GoTo
  <2> QED BY <1>11, <2>1, <2>2, RenameEffect
<1>12. CASE \E w \in Writers : DirSync(w)
  BY <1>12, SMTT(40) DEF DirSync, Return, Release, GoTo
<1>13. CASE \E w \in Writers : Discard(w)
  BY <1>13, SMTT(40) DEF Discard, Return, Release, GoTo, Link
<1>14. CASE \E w \in Writers : Cancel(w)
  BY <1>14, SMTT(40) DEF Cancel
<1>15. CASE \E w \in Writers : Kill(w)
  BY <1>15, SMTT(40) DEF Kill, Release, GoTo
<1>16. CASE \E n \in TempNames : Sweep(n)
  BY <1>16, SMTT(40) DEF Sweep, Link
<1>17. CASE PowerLoss
  BY <1>17, SMTT(40) DEF PowerLoss
<1>18. CASE UNCHANGED vars
  BY <1>18 DEF vars
<1> QED BY <1>1, <1>2, <1>3, <1>4, <1>5, <1>6, <1>7, <1>8, <1>9, <1>10, <1>11, <1>12,
     <1>13, <1>14, <1>15, <1>16, <1>17, <1>18 DEF Next, Step

(* createTempInRoot takes a free name, so two calls never share one.         *)
LEMMA TempInvStep ==
  ASSUME TypeOK, FileInv, TempInv, [Next]_vars
  PROVE  TempInv'
<1> USE NamesAssumption, InodesAssumption, CallsAssumption DEF TypeOK, FileInv,
     TempInv, Names, Owning, fs, ctl, ghost
<1>1. CASE \E w \in Writers, c \in Calls : Begin(w, c)
  BY <1>1, SMTT(40) DEF Begin, Return, Release, GoTo
<1>2. CASE \E w \in Writers : CheckTarget(w)
  BY <1>2, SMTT(40) DEF CheckTarget, Return, Proceed, Release, GoTo
<1>3. CASE \E w \in Writers : TempCollision(w)
  BY <1>3, SMTT(40) DEF TempCollision, Return, Release, GoTo
<1>4. CASE \E w \in Writers : CreateTemp(w)
  BY <1>4, SMTT(40) DEF CreateTemp, Return, Release, GoTo, Link
<1>5. CASE \E w \in Writers : ProveOwnerOnly(w)
  BY <1>5, SMTT(40) DEF ProveOwnerOnly, Enforce, Fail, Proceed, Release, GoTo
<1>6. CASE \E w \in Writers : WriteData(w)
  BY <1>6, SMTT(40) DEF WriteData, Fail, Proceed, Release, GoTo
<1>7. CASE \E w \in Writers : Barrier(w)
  BY <1>7, SMTT(40) DEF Barrier, Fail, Proceed, Release, GoTo
<1>8. CASE \E w \in Writers : EnforceFinalMode(w)
  BY <1>8, SMTT(40) DEF EnforceFinalMode, Enforce, Fail, Proceed, Release, GoTo
<1>9. CASE \E w \in Writers : SyncTemp(w)
  BY <1>9, SMTT(40) DEF SyncTemp, Fail, Proceed, Release, GoTo
<1>10. CASE \E w \in Writers : CloseTemp(w)
  BY <1>10, SMTT(40) DEF CloseTemp, Fail, Proceed, Release, GoTo
<1>11. ASSUME NEW w \in Writers, RenameTemp(w) PROVE TempInv'
  <2>1. CASE Renamed(w)
    BY <2>1, InFlight, OwnTemp, SMTT(40) DEF Renamed, Owning
  <2>2. CASE pc[w] = "rename" /\ Fail(w, "Rename") /\ UNCHANGED <<fs, fd, ghost>>
    BY <2>2, SMTT(40) DEF Fail, Release, GoTo
  <2> QED BY <1>11, <2>1, <2>2, RenameEffect
<1>12. CASE \E w \in Writers : DirSync(w)
  BY <1>12, SMTT(40) DEF DirSync, Return, Release, GoTo
<1>13. CASE \E w \in Writers : Discard(w)
  BY <1>13, SMTT(40) DEF Discard, Return, Release, GoTo, Link
<1>14. CASE \E w \in Writers : Cancel(w)
  BY <1>14, SMTT(40) DEF Cancel
<1>15. CASE \E w \in Writers : Kill(w)
  BY <1>15, SMTT(40) DEF Kill, Release, GoTo
<1>16. CASE \E n \in TempNames : Sweep(n)
  BY <1>16, SMTT(40) DEF Sweep, Link
<1>17. CASE PowerLoss
  BY <1>17, SMTT(40) DEF PowerLoss
<1>18. CASE UNCHANGED vars
  BY <1>18 DEF vars
<1> QED BY <1>1, <1>2, <1>3, <1>4, <1>5, <1>6, <1>7, <1>8, <1>9, <1>10, <1>11, <1>12,
     <1>13, <1>14, <1>15, <1>16, <1>17, <1>18 DEF Next, Step

(* Until its rename a call's file is at no target, and the barrier lets only *)
(* a complete and fsynced file through.                                      *)
LEMMA StageInvStep ==
  ASSUME TypeOK, FileInv, TempInv, SizeInv, StageInv, [Next]_vars
  PROVE  StageInv'
<1> USE NamesAssumption, InodesAssumption, CallsAssumption DEF TypeOK, FileInv,
     TempInv, SizeInv, StageInv, Staged, Names, Owning, Staging, Complete, CallOf, fs,
     ctl, ghost
<1>1. ASSUME NEW w \in Writers, NEW c \in Calls, Begin(w, c) PROVE StageInv'
  <2>1. CASE Return(w, "TooLarge") /\ fd' = [fd EXCEPT ![w] = None] /\ UNCHANGED call
    BY <1>1, <2>1, SMTT(40) DEF Begin, Return, Release, GoTo
  <2>2. ASSUME NEW i \in Inodes \ Preexisting, call[i] = None,
               ~(c.kind = "bytes" /\ OverCap(c, c.len)), pc' = [pc EXCEPT ![w] = "open"],
               fd' = [fd EXCEPT ![w] = i], call' = [call EXCEPT ![i] = c]
        PROVE  StageInv'
    BY <1>1, <2>2, SMTT(40) DEF Begin
  <2> QED BY <1>1, <2>1, <2>2 DEF Begin, GoTo
<1>2. CASE \E w \in Writers : CheckTarget(w)
  BY <1>2, SMTT(40) DEF CheckTarget, Return, Proceed, Release, GoTo
<1>3. CASE \E w \in Writers : TempCollision(w)
  BY <1>3, SMTT(40) DEF TempCollision, Return, Release, GoTo
<1>4. CASE \E w \in Writers : CreateTemp(w)
  BY <1>4, SMTT(40) DEF CreateTemp, Return, Release, GoTo, Link
<1>5. CASE \E w \in Writers : ProveOwnerOnly(w)
  BY <1>5, SMTT(40) DEF ProveOwnerOnly, Enforce, Fail, Proceed, Release, GoTo
<1>6. ASSUME NEW w \in Writers, WriteData(w), NEW v \in Writers PROVE Staged(v)'
  <2>1. CASE v = w
    <3>1. fd[w] \in Inodes /\ size[fd[w]] \in Nat /\ CallOf(w).len \in Nat
          /\ size[fd[w]] <= CallOf(w).len /\ pc[w] = "write"
      BY <1>6, InFlight DEF WriteData, CallShape
    <3>2. gen' = gen /\ fd' = fd /\ disk' = disk /\ call' = call
      BY <1>6 DEF WriteData
    <3>3. CASE pc' = [pc EXCEPT ![w] = "write"] \/ pc' = [pc EXCEPT ![w] = "discard"]
      BY <2>1, <3>1, <3>2, <3>3
    <3>4. CASE pc' = [pc EXCEPT ![w] = "barrier"] /\ size' = size /\ ~(size[fd[w]] < CallOf(w).len)
      <4>1. size[fd[w]] = CallOf(w).len
        BY <3>1, <3>4, WrittenOut
      <4> QED BY <2>1, <3>1, <3>2, <3>4, <4>1
    <3>5. \/ pc' = [pc EXCEPT ![w] = "write"]
          \/ pc' = [pc EXCEPT ![w] = "discard"]
          \/ /\ pc' = [pc EXCEPT ![w] = "barrier"]
             /\ size' = size
             /\ ~(size[fd[w]] < CallOf(w).len)
      BY <1>6 DEF WriteData, Fail, Proceed, GoTo
    <3> QED BY <3>1, <3>3, <3>4, <3>5
  <2>2. CASE v # w
    BY <1>6, <2>2, InFlight, SMTT(40) DEF WriteData, Fail, Proceed, Release, GoTo
  <2> QED BY <2>1, <2>2
<1>7. CASE \E w \in Writers : Barrier(w)
  BY <1>7, SMTT(40) DEF Barrier, Fail, Proceed, Release, GoTo
<1>8. CASE \E w \in Writers : EnforceFinalMode(w)
  BY <1>8, SMTT(40) DEF EnforceFinalMode, Enforce, Fail, Proceed, Release, GoTo
<1>9. CASE \E w \in Writers : SyncTemp(w)
  BY <1>9, SMTT(40) DEF SyncTemp, Fail, Proceed, Release, GoTo
<1>10. CASE \E w \in Writers : CloseTemp(w)
  BY <1>10, SMTT(40) DEF CloseTemp, Fail, Proceed, Release, GoTo
<1>11. CASE \E w \in Writers : RenameTemp(w)
  BY <1>11, SMTT(40) DEF RenameTemp, Fail, Release, GoTo
<1>12. CASE \E w \in Writers : DirSync(w)
  BY <1>12, SMTT(40) DEF DirSync, Return, Release, GoTo
<1>13. CASE \E w \in Writers : Discard(w)
  BY <1>13, SMTT(40) DEF Discard, Return, Release, GoTo, Link
<1>14. CASE \E w \in Writers : Cancel(w)
  BY <1>14, SMTT(40) DEF Cancel
<1>15. CASE \E w \in Writers : Kill(w)
  BY <1>15, SMTT(40) DEF Kill, Release, GoTo
<1>16. CASE \E n \in TempNames : Sweep(n)
  BY <1>16, SMTT(40) DEF Sweep, Link
<1>17. CASE PowerLoss
  BY <1>17, SMTT(40) DEF PowerLoss
<1>18. CASE UNCHANGED vars
  BY <1>18 DEF vars
<1> QED BY <1>1, <1>2, <1>3, <1>4, <1>5, <1>6, <1>7, <1>8, <1>9, <1>10, <1>11, <1>12,
     <1>13, <1>14, <1>15, <1>16, <1>17, <1>18 DEF Next, Step

(* Renames are numbered in order, and a target's entry is never older than   *)
(* the call whose directory fsync is still to come.                          *)
LEMMA OrderInvStep ==
  ASSUME TypeOK, FileInv, TempInv, StageInv, OrderInv, [Next]_vars
  PROVE  OrderInv'
<1> USE NamesAssumption, InodesAssumption, CallsAssumption DEF TypeOK, FileInv,
     TempInv, StageInv, OrderInv, Staged, Names, Owning, Staging, Age, CallOf,
     TargetOf, CallShape, fs, ctl, ghost
<1>1. ASSUME NEW w \in Writers, NEW c \in Calls, Begin(w, c) PROVE OrderInv'
  <2>1. UNCHANGED <<gen, stamp, floor>>
    BY <1>1 DEF Begin
  <2>2. ASSUME NEW v \in Writers, pc'[v] = "dirsync"
        PROVE  /\ pc[v] = "dirsync" /\ fd'[v] = fd[v] /\ TargetOf(v) \in Targets
               /\ TargetOf(v)' = TargetOf(v) /\ entry'[TargetOf(v)] = entry[TargetOf(v)]
    BY <1>1, <2>2, InFlight, SMTT(40) DEF Begin, Return, Release, GoTo
  <2> QED BY <2>1, <2>2
<1>2. CASE \E w \in Writers : CheckTarget(w)
  BY <1>2, SMTT(40) DEF CheckTarget, Return, Proceed, Release, GoTo
<1>3. CASE \E w \in Writers : TempCollision(w)
  BY <1>3, SMTT(40) DEF TempCollision, Return, Release, GoTo
<1>4. ASSUME NEW w \in Writers, CreateTemp(w) PROVE OrderInv'
  <2>1. UNCHANGED <<gen, stamp, floor>>
    BY <1>4 DEF CreateTemp
  <2>2. ASSUME NEW v \in Writers, pc'[v] = "dirsync"
        PROVE  /\ pc[v] = "dirsync" /\ fd'[v] = fd[v] /\ TargetOf(v) \in Targets
               /\ TargetOf(v)' = TargetOf(v) /\ entry'[TargetOf(v)] = entry[TargetOf(v)]
    BY <1>4, <2>2, InFlight, SMTT(40) DEF CreateTemp, Return, Release, GoTo, Link
  <2> QED BY <2>1, <2>2
<1>5. CASE \E w \in Writers : ProveOwnerOnly(w)
  BY <1>5, SMTT(40) DEF ProveOwnerOnly, Enforce, Fail, Proceed, Release, GoTo
<1>6. CASE \E w \in Writers : WriteData(w)
  BY <1>6, SMTT(40) DEF WriteData, Fail, Proceed, Release, GoTo
<1>7. CASE \E w \in Writers : Barrier(w)
  BY <1>7, SMTT(40) DEF Barrier, Fail, Proceed, Release, GoTo
<1>8. CASE \E w \in Writers : EnforceFinalMode(w)
  BY <1>8, SMTT(40) DEF EnforceFinalMode, Enforce, Fail, Proceed, Release, GoTo
<1>9. CASE \E w \in Writers : SyncTemp(w)
  BY <1>9, SMTT(40) DEF SyncTemp, Fail, Proceed, Release, GoTo
<1>10. CASE \E w \in Writers : CloseTemp(w)
  BY <1>10, SMTT(40) DEF CloseTemp, Fail, Proceed, Release, GoTo
<1>11. ASSUME NEW w \in Writers, RenameTemp(w) PROVE OrderInv'
  <2>1. CASE Renamed(w)
    <3>1. fd[w] \in Inodes /\ TargetOf(w) \in Targets /\ tmp[w] \in TempNames
      BY <2>1, InFlight, OwnTemp DEF Renamed, Owning
    <3>2. ASSUME NEW v \in Writers, pc'[v] = "dirsync"
          PROVE  0 < gen'[fd[v]] /\ gen'[fd[v]] <= Age(entry[TargetOf(v)])'
      <4>1. CASE TargetOf(v) = TargetOf(w)
        BY <2>1, <3>1, <3>2, <4>1, InFlight DEF Renamed
      <4>2. CASE TargetOf(v) # TargetOf(w)
        <5>1. pc[v] = "dirsync" /\ v # w /\ TargetOf(v) \in Targets
          BY <2>1, <3>2, <4>2, InFlight DEF Renamed
        <5>2. entry'[TargetOf(v)] = entry[TargetOf(v)] /\ entry[TargetOf(v)] # fd[w]
          BY <2>1, <3>1, <4>2, <5>1 DEF Renamed
        <5> QED BY <2>1, <3>1, <5>1, <5>2, InFlight DEF Renamed
      <4> QED BY <4>1, <4>2
    <3>3. ASSUME NEW i \in Inodes PROVE gen'[i] <= stamp'
      BY <2>1, gen[i] <= stamp, gen[i] \in Nat, SMTT(30) DEF Renamed
    <3>4. ASSUME NEW t \in Targets PROVE floor'[t] <= stamp'
      BY <2>1, floor[t] <= stamp, floor[t] \in Nat DEF Renamed
    <3> QED BY <2>1, <3>2, <3>3, <3>4 DEF Renamed
  <2>2. CASE pc[w] = "rename" /\ Fail(w, "Rename") /\ UNCHANGED <<fs, fd, ghost>>
    BY <2>2, SMTT(40) DEF Fail, Release, GoTo
  <2> QED BY <1>11, <2>1, <2>2, RenameEffect
<1>12. CASE \E w \in Writers : DirSync(w)
  BY <1>12, SMTT(40) DEF DirSync, Return, Release, GoTo
<1>13. CASE \E w \in Writers : Discard(w)
  BY <1>13, SMTT(40) DEF Discard, Return, Release, GoTo, Link
<1>14. CASE \E w \in Writers : Cancel(w)
  BY <1>14, SMTT(40) DEF Cancel
<1>15. CASE \E w \in Writers : Kill(w)
  BY <1>15, SMTT(40) DEF Kill, Release, GoTo
<1>16. CASE \E n \in TempNames : Sweep(n)
  BY <1>16, SMTT(40) DEF Sweep, Link
<1>17. CASE PowerLoss
  BY <1>17, SMTT(40) DEF PowerLoss
<1>18. CASE UNCHANGED vars
  BY <1>18 DEF vars
<1> QED BY <1>1, <1>2, <1>3, <1>4, <1>5, <1>6, <1>7, <1>8, <1>9, <1>10, <1>11, <1>12,
     <1>13, <1>14, <1>15, <1>16, <1>17, <1>18 DEF Next, Step

(* Under WithMode the mode is proved before the fsync that makes it last.    *)
LEMMA ModeInvStep ==
  ASSUME TypeOK, FileInv, ModeInv, [Next]_vars
  PROVE  ModeInv'
<1> USE NamesAssumption, InodesAssumption, CallsAssumption DEF TypeOK, FileInv,
     ModeInv, CallOf, fs, ctl, ghost
<1>1. CASE \E w \in Writers, c \in Calls : Begin(w, c)
  BY <1>1, SMTT(40) DEF Begin, Return, Release, GoTo
<1>2. CASE \E w \in Writers : CheckTarget(w)
  BY <1>2, SMTT(40) DEF CheckTarget, Return, Proceed, Release, GoTo
<1>3. CASE \E w \in Writers : TempCollision(w)
  BY <1>3, SMTT(40) DEF TempCollision, Return, Release, GoTo
<1>4. CASE \E w \in Writers : CreateTemp(w)
  BY <1>4, SMTT(40) DEF CreateTemp, Return, Release, GoTo, Link
<1>5. CASE \E w \in Writers : ProveOwnerOnly(w)
  BY <1>5, SMTT(40) DEF ProveOwnerOnly, Enforce, Fail, Proceed, Release, GoTo
<1>6. CASE \E w \in Writers : WriteData(w)
  BY <1>6, SMTT(40) DEF WriteData, Fail, Proceed, Release, GoTo
<1>7. CASE \E w \in Writers : Barrier(w)
  BY <1>7, SMTT(40) DEF Barrier, Fail, Proceed, Release, GoTo
<1>8. CASE \E w \in Writers : EnforceFinalMode(w)
  BY <1>8, SMTT(40) DEF EnforceFinalMode, Enforce, Fail, Proceed, Release, GoTo
<1>9. CASE \E w \in Writers : SyncTemp(w)
  BY <1>9, SMTT(40) DEF SyncTemp, Fail, Proceed, Release, GoTo
<1>10. CASE \E w \in Writers : CloseTemp(w)
  BY <1>10, SMTT(40) DEF CloseTemp, Fail, Proceed, Release, GoTo
<1>11. CASE \E w \in Writers : RenameTemp(w)
  BY <1>11, SMTT(40) DEF RenameTemp, Fail, Release, GoTo
<1>12. CASE \E w \in Writers : DirSync(w)
  BY <1>12, SMTT(40) DEF DirSync, Return, Release, GoTo
<1>13. CASE \E w \in Writers : Discard(w)
  BY <1>13, SMTT(40) DEF Discard, Return, Release, GoTo, Link
<1>14. CASE \E w \in Writers : Cancel(w)
  BY <1>14, SMTT(40) DEF Cancel
<1>15. CASE \E w \in Writers : Kill(w)
  BY <1>15, SMTT(40) DEF Kill, Release, GoTo
<1>16. CASE \E n \in TempNames : Sweep(n)
  BY <1>16, SMTT(40) DEF Sweep, Link
<1>17. CASE PowerLoss
  BY <1>17, SMTT(40) DEF PowerLoss
<1>18. CASE UNCHANGED vars
  BY <1>18 DEF vars
<1> QED BY <1>1, <1>2, <1>3, <1>4, <1>5, <1>6, <1>7, <1>8, <1>9, <1>10, <1>11, <1>12,
     <1>13, <1>14, <1>15, <1>16, <1>17, <1>18 DEF Next, Step

(* A call that reaches the deferred removal has decided its failure.         *)
LEMMA DiscardInvStep ==
  ASSUME TypeOK, DiscardInv, [Next]_vars
  PROVE  DiscardInv'
<1> USE NamesAssumption, InodesAssumption, CallsAssumption DEF TypeOK, DiscardInv,
     Failures, fs, ctl, ghost
<1>1. CASE \E w \in Writers, c \in Calls : Begin(w, c)
  BY <1>1, SMTT(40) DEF Begin, Return, Release, GoTo
<1>2. CASE \E w \in Writers : CheckTarget(w)
  BY <1>2, SMTT(40) DEF CheckTarget, Return, Proceed, Release, GoTo
<1>3. CASE \E w \in Writers : TempCollision(w)
  BY <1>3, SMTT(40) DEF TempCollision, Return, Release, GoTo
<1>4. CASE \E w \in Writers : CreateTemp(w)
  BY <1>4, SMTT(40) DEF CreateTemp, Return, Release, GoTo, Link
<1>5. CASE \E w \in Writers : ProveOwnerOnly(w)
  BY <1>5, SMTT(40) DEF ProveOwnerOnly, Enforce, Fail, Proceed, Release, GoTo
<1>6. CASE \E w \in Writers : WriteData(w)
  BY <1>6, SMTT(40) DEF WriteData, Fail, Proceed, Release, GoTo
<1>7. CASE \E w \in Writers : Barrier(w)
  BY <1>7, SMTT(40) DEF Barrier, Fail, Proceed, Release, GoTo
<1>8. CASE \E w \in Writers : EnforceFinalMode(w)
  BY <1>8, SMTT(40) DEF EnforceFinalMode, Enforce, Fail, Proceed, Release, GoTo
<1>9. CASE \E w \in Writers : SyncTemp(w)
  BY <1>9, SMTT(40) DEF SyncTemp, Fail, Proceed, Release, GoTo
<1>10. CASE \E w \in Writers : CloseTemp(w)
  BY <1>10, SMTT(40) DEF CloseTemp, Fail, Proceed, Release, GoTo
<1>11. CASE \E w \in Writers : RenameTemp(w)
  BY <1>11, SMTT(40) DEF RenameTemp, Fail, Release, GoTo
<1>12. CASE \E w \in Writers : DirSync(w)
  BY <1>12, SMTT(40) DEF DirSync, Return, Release, GoTo
<1>13. CASE \E w \in Writers : Discard(w)
  BY <1>13, SMTT(40) DEF Discard, Return, Release, GoTo, Link
<1>14. CASE \E w \in Writers : Cancel(w)
  BY <1>14, SMTT(40) DEF Cancel
<1>15. CASE \E w \in Writers : Kill(w)
  BY <1>15, SMTT(40) DEF Kill, Release, GoTo
<1>16. CASE \E n \in TempNames : Sweep(n)
  BY <1>16, SMTT(40) DEF Sweep, Link
<1>17. CASE PowerLoss
  BY <1>17, SMTT(40) DEF PowerLoss
<1>18. CASE UNCHANGED vars
  BY <1>18 DEF vars
<1> QED BY <1>1, <1>2, <1>3, <1>4, <1>5, <1>6, <1>7, <1>8, <1>9, <1>10, <1>11, <1>12,
     <1>13, <1>14, <1>15, <1>16, <1>17, <1>18 DEF Next, Step

(* writeData never writes past the content.                                  *)
LEMMA SizeInvStep ==
  ASSUME TypeOK, FileInv, SizeInv, [Next]_vars
  PROVE  SizeInv'
<1> USE NamesAssumption, InodesAssumption, CallsAssumption DEF TypeOK, FileInv,
     SizeInv, CallOf, CallShape, OverCap, fs, ctl, ghost
<1>1. ASSUME NEW w \in Writers, NEW c \in Calls, Begin(w, c) PROVE SizeInv'
  <2>1. CASE Return(w, "TooLarge") /\ fd' = [fd EXCEPT ![w] = None] /\ UNCHANGED call
    BY <1>1, <2>1, SMTT(40) DEF Begin, Return, Release, GoTo
  <2>2. ASSUME NEW i \in Inodes \ Preexisting, call[i] = None,
               ~(c.kind = "bytes" /\ OverCap(c, c.len)), pc' = [pc EXCEPT ![w] = "open"],
               fd' = [fd EXCEPT ![w] = i], call' = [call EXCEPT ![i] = c]
        PROVE  SizeInv'
    BY <1>1, <2>2, SMTT(40) DEF Begin
  <2> QED BY <1>1, <2>1, <2>2 DEF Begin, GoTo
<1>2. CASE \E w \in Writers : CheckTarget(w)
  BY <1>2, SMTT(40) DEF CheckTarget, Return, Proceed, Release, GoTo
<1>3. CASE \E w \in Writers : TempCollision(w)
  BY <1>3, SMTT(40) DEF TempCollision, Return, Release, GoTo
<1>4. CASE \E w \in Writers : CreateTemp(w)
  BY <1>4, SMTT(40) DEF CreateTemp, Return, Release, GoTo, Link
<1>5. CASE \E w \in Writers : ProveOwnerOnly(w)
  BY <1>5, SMTT(40) DEF ProveOwnerOnly, Enforce, Fail, Proceed, Release, GoTo
<1>6. CASE \E w \in Writers : WriteData(w)
  BY <1>6, SMTT(40) DEF WriteData, Fail, Proceed, Release, GoTo
<1>7. CASE \E w \in Writers : Barrier(w)
  BY <1>7, SMTT(40) DEF Barrier, Fail, Proceed, Release, GoTo
<1>8. CASE \E w \in Writers : EnforceFinalMode(w)
  BY <1>8, SMTT(40) DEF EnforceFinalMode, Enforce, Fail, Proceed, Release, GoTo
<1>9. CASE \E w \in Writers : SyncTemp(w)
  BY <1>9, SMTT(40) DEF SyncTemp, Fail, Proceed, Release, GoTo
<1>10. CASE \E w \in Writers : CloseTemp(w)
  BY <1>10, SMTT(40) DEF CloseTemp, Fail, Proceed, Release, GoTo
<1>11. CASE \E w \in Writers : RenameTemp(w)
  BY <1>11, SMTT(40) DEF RenameTemp, Fail, Release, GoTo
<1>12. CASE \E w \in Writers : DirSync(w)
  BY <1>12, SMTT(40) DEF DirSync, Return, Release, GoTo
<1>13. CASE \E w \in Writers : Discard(w)
  BY <1>13, SMTT(40) DEF Discard, Return, Release, GoTo, Link
<1>14. CASE \E w \in Writers : Cancel(w)
  BY <1>14, SMTT(40) DEF Cancel
<1>15. CASE \E w \in Writers : Kill(w)
  BY <1>15, SMTT(40) DEF Kill, Release, GoTo
<1>16. CASE \E n \in TempNames : Sweep(n)
  BY <1>16, SMTT(40) DEF Sweep, Link
<1>17. CASE PowerLoss
  BY <1>17, SMTT(40) DEF PowerLoss
<1>18. CASE UNCHANGED vars
  BY <1>18 DEF vars
<1> QED BY <1>1, <1>2, <1>3, <1>4, <1>5, <1>6, <1>7, <1>8, <1>9, <1>10, <1>11, <1>12,
     <1>13, <1>14, <1>15, <1>16, <1>17, <1>18 DEF Next, Step

(* No step puts an incomplete file, or one not fsynced, at a target.         *)
LEMMA WholeFileStep ==
  ASSUME TypeOK, FileInv, TempInv, StageInv, WholeFile, [Next]_vars
  PROVE  WholeFile'
<1> USE NamesAssumption, InodesAssumption, CallsAssumption DEF TypeOK, FileInv,
     TempInv, StageInv, WholeFile, Staged, Names, Owning, Staging, Complete, Whole,
     CallOf, TargetOf, fs, ctl, ghost
<1>1. CASE \E w \in Writers, c \in Calls : Begin(w, c)
  BY <1>1, SMTT(40) DEF Begin, Return, Release, GoTo
<1>2. CASE \E w \in Writers : CheckTarget(w)
  BY <1>2, SMTT(40) DEF CheckTarget, Return, Proceed, Release, GoTo
<1>3. CASE \E w \in Writers : TempCollision(w)
  BY <1>3, SMTT(40) DEF TempCollision, Return, Release, GoTo
<1>4. CASE \E w \in Writers : CreateTemp(w)
  BY <1>4, SMTT(40) DEF CreateTemp, Return, Release, GoTo, Link
<1>5. CASE \E w \in Writers : ProveOwnerOnly(w)
  BY <1>5, SMTT(40) DEF ProveOwnerOnly, Enforce, Fail, Proceed, Release, GoTo
<1>6. CASE \E w \in Writers : WriteData(w)
  BY <1>6, SMTT(40) DEF WriteData, Fail, Proceed, Release, GoTo
<1>7. CASE \E w \in Writers : Barrier(w)
  BY <1>7, SMTT(40) DEF Barrier, Fail, Proceed, Release, GoTo
<1>8. CASE \E w \in Writers : EnforceFinalMode(w)
  BY <1>8, SMTT(40) DEF EnforceFinalMode, Enforce, Fail, Proceed, Release, GoTo
<1>9. CASE \E w \in Writers : SyncTemp(w)
  BY <1>9, SMTT(40) DEF SyncTemp, Fail, Proceed, Release, GoTo
<1>10. CASE \E w \in Writers : CloseTemp(w)
  BY <1>10, SMTT(40) DEF CloseTemp, Fail, Proceed, Release, GoTo
<1>11. CASE \E w \in Writers : RenameTemp(w)
  BY <1>11, SMTT(40) DEF RenameTemp, Fail, Release, GoTo
<1>12. CASE \E w \in Writers : DirSync(w)
  BY <1>12, SMTT(40) DEF DirSync, Return, Release, GoTo
<1>13. CASE \E w \in Writers : Discard(w)
  BY <1>13, SMTT(40) DEF Discard, Return, Release, GoTo, Link
<1>14. CASE \E w \in Writers : Cancel(w)
  BY <1>14, SMTT(40) DEF Cancel
<1>15. CASE \E w \in Writers : Kill(w)
  BY <1>15, SMTT(40) DEF Kill, Release, GoTo
<1>16. CASE \E n \in TempNames : Sweep(n)
  BY <1>16, SMTT(40) DEF Sweep, Link
<1>17. CASE PowerLoss
  BY <1>17, SMTT(40) DEF PowerLoss
<1>18. CASE UNCHANGED vars
  BY <1>18 DEF vars
<1> QED BY <1>1, <1>2, <1>3, <1>4, <1>5, <1>6, <1>7, <1>8, <1>9, <1>10, <1>11, <1>12,
     <1>13, <1>14, <1>15, <1>16, <1>17, <1>18 DEF Next, Step

(* No step lets a power loss go back behind a write reported durable.        *)
LEMMA DurableSurvivesStep ==
  ASSUME TypeOK, FileInv, TempInv, StageInv, OrderInv, DurableSurvives, [Next]_vars
  PROVE  DurableSurvives'
<1> USE NamesAssumption, InodesAssumption, CallsAssumption DEF TypeOK, FileInv,
     TempInv, StageInv, OrderInv, DurableSurvives, Staged, Names, Owning, Staging, Age,
     CallOf, TargetOf, fs, ctl, ghost
<1>1. CASE \E w \in Writers, c \in Calls : Begin(w, c)
  BY <1>1, SMTT(40) DEF Begin, Return, Release, GoTo
<1>2. CASE \E w \in Writers : CheckTarget(w)
  BY <1>2, SMTT(40) DEF CheckTarget, Return, Proceed, Release, GoTo
<1>3. CASE \E w \in Writers : TempCollision(w)
  BY <1>3, SMTT(40) DEF TempCollision, Return, Release, GoTo
<1>4. CASE \E w \in Writers : CreateTemp(w)
  BY <1>4, SMTT(40) DEF CreateTemp, Return, Release, GoTo, Link
<1>5. CASE \E w \in Writers : ProveOwnerOnly(w)
  BY <1>5, SMTT(40) DEF ProveOwnerOnly, Enforce, Fail, Proceed, Release, GoTo
<1>6. CASE \E w \in Writers : WriteData(w)
  BY <1>6, SMTT(40) DEF WriteData, Fail, Proceed, Release, GoTo
<1>7. CASE \E w \in Writers : Barrier(w)
  BY <1>7, SMTT(40) DEF Barrier, Fail, Proceed, Release, GoTo
<1>8. CASE \E w \in Writers : EnforceFinalMode(w)
  BY <1>8, SMTT(40) DEF EnforceFinalMode, Enforce, Fail, Proceed, Release, GoTo
<1>9. CASE \E w \in Writers : SyncTemp(w)
  BY <1>9, SMTT(40) DEF SyncTemp, Fail, Proceed, Release, GoTo
<1>10. CASE \E w \in Writers : CloseTemp(w)
  BY <1>10, SMTT(40) DEF CloseTemp, Fail, Proceed, Release, GoTo
<1>11. CASE \E w \in Writers : RenameTemp(w)
  BY <1>11, SMTT(40) DEF RenameTemp, Fail, Release, GoTo
<1>12. CASE \E w \in Writers : DirSync(w)
  BY <1>12, SMTT(40) DEF DirSync, Return, Release, GoTo
<1>13. CASE \E w \in Writers : Discard(w)
  BY <1>13, SMTT(40) DEF Discard, Return, Release, GoTo, Link
<1>14. CASE \E w \in Writers : Cancel(w)
  BY <1>14, SMTT(40) DEF Cancel
<1>15. CASE \E w \in Writers : Kill(w)
  BY <1>15, SMTT(40) DEF Kill, Release, GoTo
<1>16. CASE \E n \in TempNames : Sweep(n)
  BY <1>16, SMTT(40) DEF Sweep, Link
<1>17. CASE PowerLoss
  BY <1>17, SMTT(40) DEF PowerLoss
<1>18. CASE UNCHANGED vars
  BY <1>18 DEF vars
<1> QED BY <1>1, <1>2, <1>3, <1>4, <1>5, <1>6, <1>7, <1>8, <1>9, <1>10, <1>11, <1>12,
     <1>13, <1>14, <1>15, <1>16, <1>17, <1>18 DEF Next, Step

(* No step returns an error after the rename, or success before it.          *)
LEMMA VerdictIsTrueStep ==
  ASSUME TypeOK, FileInv, TempInv, StageInv, OrderInv, DiscardInv, VerdictIsTrue, [Next]_vars
  PROVE  VerdictIsTrue'
<1> USE NamesAssumption, InodesAssumption, CallsAssumption DEF TypeOK, FileInv,
     TempInv, StageInv, OrderInv, DiscardInv, VerdictIsTrue, Staged, Owning, Staging,
     Successes, Failures, fs, ctl, ghost
<1>1. CASE \E w \in Writers, c \in Calls : Begin(w, c)
  BY <1>1, SMTT(40) DEF Begin, Return, Release, GoTo
<1>2. CASE \E w \in Writers : CheckTarget(w)
  BY <1>2, SMTT(40) DEF CheckTarget, Return, Proceed, Release, GoTo
<1>3. CASE \E w \in Writers : TempCollision(w)
  BY <1>3, SMTT(40) DEF TempCollision, Return, Release, GoTo
<1>4. CASE \E w \in Writers : CreateTemp(w)
  BY <1>4, SMTT(40) DEF CreateTemp, Return, Release, GoTo, Link
<1>5. CASE \E w \in Writers : ProveOwnerOnly(w)
  BY <1>5, SMTT(40) DEF ProveOwnerOnly, Enforce, Fail, Proceed, Release, GoTo
<1>6. CASE \E w \in Writers : WriteData(w)
  BY <1>6, SMTT(40) DEF WriteData, Fail, Proceed, Release, GoTo
<1>7. CASE \E w \in Writers : Barrier(w)
  BY <1>7, SMTT(40) DEF Barrier, Fail, Proceed, Release, GoTo
<1>8. CASE \E w \in Writers : EnforceFinalMode(w)
  BY <1>8, SMTT(40) DEF EnforceFinalMode, Enforce, Fail, Proceed, Release, GoTo
<1>9. CASE \E w \in Writers : SyncTemp(w)
  BY <1>9, SMTT(40) DEF SyncTemp, Fail, Proceed, Release, GoTo
<1>10. CASE \E w \in Writers : CloseTemp(w)
  BY <1>10, SMTT(40) DEF CloseTemp, Fail, Proceed, Release, GoTo
<1>11. CASE \E w \in Writers : RenameTemp(w)
  BY <1>11, SMTT(40) DEF RenameTemp, Fail, Release, GoTo
<1>12. CASE \E w \in Writers : DirSync(w)
  BY <1>12, SMTT(40) DEF DirSync, Return, Release, GoTo
<1>13. CASE \E w \in Writers : Discard(w)
  BY <1>13, SMTT(40) DEF Discard, Return, Release, GoTo, Link
<1>14. CASE \E w \in Writers : Cancel(w)
  BY <1>14, SMTT(40) DEF Cancel
<1>15. CASE \E w \in Writers : Kill(w)
  BY <1>15, SMTT(40) DEF Kill, Release, GoTo
<1>16. CASE \E n \in TempNames : Sweep(n)
  BY <1>16, SMTT(40) DEF Sweep, Link
<1>17. CASE PowerLoss
  BY <1>17, SMTT(40) DEF PowerLoss
<1>18. CASE UNCHANGED vars
  BY <1>18 DEF vars
<1> QED BY <1>1, <1>2, <1>3, <1>4, <1>5, <1>6, <1>7, <1>8, <1>9, <1>10, <1>11, <1>12,
     <1>13, <1>14, <1>15, <1>16, <1>17, <1>18 DEF Next, Step

(* No step abandons a temp without saying why.                               *)
LEMMA NoUnexplainedTempStep ==
  ASSUME TypeOK, FileInv, TempInv, NoUnexplainedTemp, [Next]_vars
  PROVE  NoUnexplainedTemp'
<1> USE NamesAssumption, InodesAssumption, CallsAssumption DEF TypeOK, FileInv,
     TempInv, NoUnexplainedTemp, Names, Owning, fs, ctl, ghost
<1>1. CASE \E w \in Writers, c \in Calls : Begin(w, c)
  BY <1>1, SMTT(40) DEF Begin, Return, Release, GoTo
<1>2. CASE \E w \in Writers : CheckTarget(w)
  BY <1>2, SMTT(40) DEF CheckTarget, Return, Proceed, Release, GoTo
<1>3. CASE \E w \in Writers : TempCollision(w)
  BY <1>3, SMTT(40) DEF TempCollision, Return, Release, GoTo
<1>4. CASE \E w \in Writers : CreateTemp(w)
  BY <1>4, SMTT(40) DEF CreateTemp, Return, Release, GoTo, Link
<1>5. CASE \E w \in Writers : ProveOwnerOnly(w)
  BY <1>5, SMTT(40) DEF ProveOwnerOnly, Enforce, Fail, Proceed, Release, GoTo
<1>6. CASE \E w \in Writers : WriteData(w)
  BY <1>6, SMTT(40) DEF WriteData, Fail, Proceed, Release, GoTo
<1>7. CASE \E w \in Writers : Barrier(w)
  BY <1>7, SMTT(40) DEF Barrier, Fail, Proceed, Release, GoTo
<1>8. CASE \E w \in Writers : EnforceFinalMode(w)
  BY <1>8, SMTT(40) DEF EnforceFinalMode, Enforce, Fail, Proceed, Release, GoTo
<1>9. CASE \E w \in Writers : SyncTemp(w)
  BY <1>9, SMTT(40) DEF SyncTemp, Fail, Proceed, Release, GoTo
<1>10. CASE \E w \in Writers : CloseTemp(w)
  BY <1>10, SMTT(40) DEF CloseTemp, Fail, Proceed, Release, GoTo
<1>11. ASSUME NEW w \in Writers, RenameTemp(w) PROVE NoUnexplainedTemp'
  <2>1. CASE Renamed(w)
    BY <2>1, InFlight, OwnTemp, SMTT(40) DEF Renamed, Owning
  <2>2. CASE pc[w] = "rename" /\ Fail(w, "Rename") /\ UNCHANGED <<fs, fd, ghost>>
    BY <2>2, SMTT(40) DEF Fail, Release, GoTo
  <2> QED BY <1>11, <2>1, <2>2, RenameEffect
<1>12. CASE \E w \in Writers : DirSync(w)
  BY <1>12, SMTT(40) DEF DirSync, Return, Release, GoTo
<1>13. CASE \E w \in Writers : Discard(w)
  BY <1>13, SMTT(40) DEF Discard, Return, Release, GoTo, Link
<1>14. CASE \E w \in Writers : Cancel(w)
  BY <1>14, SMTT(40) DEF Cancel
<1>15. CASE \E w \in Writers : Kill(w)
  BY <1>15, SMTT(40) DEF Kill, Release, GoTo
<1>16. CASE \E n \in TempNames : Sweep(n)
  BY <1>16, SMTT(40) DEF Sweep, Link
<1>17. CASE PowerLoss
  BY <1>17, SMTT(40) DEF PowerLoss
<1>18. CASE UNCHANGED vars
  BY <1>18 DEF vars
<1> QED BY <1>1, <1>2, <1>3, <1>4, <1>5, <1>6, <1>7, <1>8, <1>9, <1>10, <1>11, <1>12,
     <1>13, <1>14, <1>15, <1>16, <1>17, <1>18 DEF Next, Step

(* No step puts a file with an unproved mode at a target.                    *)
LEMMA ModeProvenStep ==
  ASSUME TypeOK, FileInv, TempInv, StageInv, ModeInv, WholeFile, ModeProven, [Next]_vars
  PROVE  ModeProven'
<1> USE NamesAssumption, InodesAssumption, CallsAssumption DEF TypeOK, FileInv,
     TempInv, StageInv, ModeInv, WholeFile, ModeProven, Staged, Names, Owning, Staging,
     Complete, Whole, CallOf, TargetOf, fs, ctl, ghost
<1>1. CASE \E w \in Writers, c \in Calls : Begin(w, c)
  BY <1>1, SMTT(40) DEF Begin, Return, Release, GoTo
<1>2. CASE \E w \in Writers : CheckTarget(w)
  BY <1>2, SMTT(40) DEF CheckTarget, Return, Proceed, Release, GoTo
<1>3. CASE \E w \in Writers : TempCollision(w)
  BY <1>3, SMTT(40) DEF TempCollision, Return, Release, GoTo
<1>4. CASE \E w \in Writers : CreateTemp(w)
  BY <1>4, SMTT(40) DEF CreateTemp, Return, Release, GoTo, Link
<1>5. CASE \E w \in Writers : ProveOwnerOnly(w)
  BY <1>5, SMTT(40) DEF ProveOwnerOnly, Enforce, Fail, Proceed, Release, GoTo
<1>6. CASE \E w \in Writers : WriteData(w)
  BY <1>6, SMTT(40) DEF WriteData, Fail, Proceed, Release, GoTo
<1>7. CASE \E w \in Writers : Barrier(w)
  BY <1>7, SMTT(40) DEF Barrier, Fail, Proceed, Release, GoTo
<1>8. CASE \E w \in Writers : EnforceFinalMode(w)
  BY <1>8, SMTT(40) DEF EnforceFinalMode, Enforce, Fail, Proceed, Release, GoTo
<1>9. CASE \E w \in Writers : SyncTemp(w)
  BY <1>9, SMTT(40) DEF SyncTemp, Fail, Proceed, Release, GoTo
<1>10. CASE \E w \in Writers : CloseTemp(w)
  BY <1>10, SMTT(40) DEF CloseTemp, Fail, Proceed, Release, GoTo
<1>11. CASE \E w \in Writers : RenameTemp(w)
  BY <1>11, SMTT(40) DEF RenameTemp, Fail, Release, GoTo
<1>12. CASE \E w \in Writers : DirSync(w)
  BY <1>12, SMTT(40) DEF DirSync, Return, Release, GoTo
<1>13. CASE \E w \in Writers : Discard(w)
  BY <1>13, SMTT(40) DEF Discard, Return, Release, GoTo, Link
<1>14. CASE \E w \in Writers : Cancel(w)
  BY <1>14, SMTT(40) DEF Cancel
<1>15. CASE \E w \in Writers : Kill(w)
  BY <1>15, SMTT(40) DEF Kill, Release, GoTo
<1>16. CASE \E n \in TempNames : Sweep(n)
  BY <1>16, SMTT(40) DEF Sweep, Link
<1>17. CASE PowerLoss
  BY <1>17, SMTT(40) DEF PowerLoss
<1>18. CASE UNCHANGED vars
  BY <1>18 DEF vars
<1> QED BY <1>1, <1>2, <1>3, <1>4, <1>5, <1>6, <1>7, <1>8, <1>9, <1>10, <1>11, <1>12,
     <1>13, <1>14, <1>15, <1>16, <1>17, <1>18 DEF Next, Step

(* No step writes data into a temp that is not owner-only.                   *)
LEMMA StagedPrivatelyStep ==
  ASSUME TypeOK, FileInv, StagedPrivately, [Next]_vars
  PROVE  StagedPrivately'
<1> USE NamesAssumption, InodesAssumption, CallsAssumption DEF TypeOK, FileInv,
     StagedPrivately, CallOf, fs, ctl, ghost
<1>1. CASE \E w \in Writers, c \in Calls : Begin(w, c)
  BY <1>1, SMTT(40) DEF Begin, Return, Release, GoTo
<1>2. CASE \E w \in Writers : CheckTarget(w)
  BY <1>2, SMTT(40) DEF CheckTarget, Return, Proceed, Release, GoTo
<1>3. CASE \E w \in Writers : TempCollision(w)
  BY <1>3, SMTT(40) DEF TempCollision, Return, Release, GoTo
<1>4. CASE \E w \in Writers : CreateTemp(w)
  BY <1>4, SMTT(40) DEF CreateTemp, Return, Release, GoTo, Link
<1>5. CASE \E w \in Writers : ProveOwnerOnly(w)
  BY <1>5, SMTT(40) DEF ProveOwnerOnly, Enforce, Fail, Proceed, Release, GoTo
<1>6. CASE \E w \in Writers : WriteData(w)
  BY <1>6, SMTT(40) DEF WriteData, Fail, Proceed, Release, GoTo
<1>7. CASE \E w \in Writers : Barrier(w)
  BY <1>7, SMTT(40) DEF Barrier, Fail, Proceed, Release, GoTo
<1>8. CASE \E w \in Writers : EnforceFinalMode(w)
  BY <1>8, SMTT(40) DEF EnforceFinalMode, Enforce, Fail, Proceed, Release, GoTo
<1>9. CASE \E w \in Writers : SyncTemp(w)
  BY <1>9, SMTT(40) DEF SyncTemp, Fail, Proceed, Release, GoTo
<1>10. CASE \E w \in Writers : CloseTemp(w)
  BY <1>10, SMTT(40) DEF CloseTemp, Fail, Proceed, Release, GoTo
<1>11. CASE \E w \in Writers : RenameTemp(w)
  BY <1>11, SMTT(40) DEF RenameTemp, Fail, Release, GoTo
<1>12. CASE \E w \in Writers : DirSync(w)
  BY <1>12, SMTT(40) DEF DirSync, Return, Release, GoTo
<1>13. CASE \E w \in Writers : Discard(w)
  BY <1>13, SMTT(40) DEF Discard, Return, Release, GoTo, Link
<1>14. CASE \E w \in Writers : Cancel(w)
  BY <1>14, SMTT(40) DEF Cancel
<1>15. CASE \E w \in Writers : Kill(w)
  BY <1>15, SMTT(40) DEF Kill, Release, GoTo
<1>16. CASE \E n \in TempNames : Sweep(n)
  BY <1>16, SMTT(40) DEF Sweep, Link
<1>17. CASE PowerLoss
  BY <1>17, SMTT(40) DEF PowerLoss
<1>18. CASE UNCHANGED vars
  BY <1>18 DEF vars
<1> QED BY <1>1, <1>2, <1>3, <1>4, <1>5, <1>6, <1>7, <1>8, <1>9, <1>10, <1>11, <1>12,
     <1>13, <1>14, <1>15, <1>16, <1>17, <1>18 DEF Next, Step

(* No step takes a staged file over its cap.                                 *)
LEMMA CapNeverCrossedStep ==
  ASSUME TypeOK, FileInv, SizeInv, CapNeverCrossed, [Next]_vars
  PROVE  CapNeverCrossed'
<1> USE NamesAssumption, InodesAssumption, CallsAssumption DEF TypeOK, FileInv,
     SizeInv, CapNeverCrossed, CallOf, CallShape, OverCap, fs, ctl, ghost
<1>1. ASSUME NEW w \in Writers, NEW c \in Calls, Begin(w, c) PROVE CapNeverCrossed'
  <2>1. CASE Return(w, "TooLarge") /\ fd' = [fd EXCEPT ![w] = None] /\ UNCHANGED call
    BY <1>1, <2>1, SMTT(40) DEF Begin, Return, Release, GoTo
  <2>2. ASSUME NEW i \in Inodes \ Preexisting, call[i] = None,
               ~(c.kind = "bytes" /\ OverCap(c, c.len)), pc' = [pc EXCEPT ![w] = "open"],
               fd' = [fd EXCEPT ![w] = i], call' = [call EXCEPT ![i] = c]
        PROVE  CapNeverCrossed'
    BY <1>1, <2>2, SMTT(40) DEF Begin
  <2> QED BY <1>1, <2>1, <2>2 DEF Begin, GoTo
<1>2. CASE \E w \in Writers : CheckTarget(w)
  BY <1>2, SMTT(40) DEF CheckTarget, Return, Proceed, Release, GoTo
<1>3. CASE \E w \in Writers : TempCollision(w)
  BY <1>3, SMTT(40) DEF TempCollision, Return, Release, GoTo
<1>4. CASE \E w \in Writers : CreateTemp(w)
  BY <1>4, SMTT(40) DEF CreateTemp, Return, Release, GoTo, Link
<1>5. CASE \E w \in Writers : ProveOwnerOnly(w)
  BY <1>5, SMTT(40) DEF ProveOwnerOnly, Enforce, Fail, Proceed, Release, GoTo
<1>6. CASE \E w \in Writers : WriteData(w)
  BY <1>6, SMTT(40) DEF WriteData, Fail, Proceed, Release, GoTo
<1>7. CASE \E w \in Writers : Barrier(w)
  BY <1>7, SMTT(40) DEF Barrier, Fail, Proceed, Release, GoTo
<1>8. CASE \E w \in Writers : EnforceFinalMode(w)
  BY <1>8, SMTT(40) DEF EnforceFinalMode, Enforce, Fail, Proceed, Release, GoTo
<1>9. CASE \E w \in Writers : SyncTemp(w)
  BY <1>9, SMTT(40) DEF SyncTemp, Fail, Proceed, Release, GoTo
<1>10. CASE \E w \in Writers : CloseTemp(w)
  BY <1>10, SMTT(40) DEF CloseTemp, Fail, Proceed, Release, GoTo
<1>11. CASE \E w \in Writers : RenameTemp(w)
  BY <1>11, SMTT(40) DEF RenameTemp, Fail, Release, GoTo
<1>12. CASE \E w \in Writers : DirSync(w)
  BY <1>12, SMTT(40) DEF DirSync, Return, Release, GoTo
<1>13. CASE \E w \in Writers : Discard(w)
  BY <1>13, SMTT(40) DEF Discard, Return, Release, GoTo, Link
<1>14. CASE \E w \in Writers : Cancel(w)
  BY <1>14, SMTT(40) DEF Cancel
<1>15. CASE \E w \in Writers : Kill(w)
  BY <1>15, SMTT(40) DEF Kill, Release, GoTo
<1>16. CASE \E n \in TempNames : Sweep(n)
  BY <1>16, SMTT(40) DEF Sweep, Link
<1>17. CASE PowerLoss
  BY <1>17, SMTT(40) DEF PowerLoss
<1>18. CASE UNCHANGED vars
  BY <1>18 DEF vars
<1> QED BY <1>1, <1>2, <1>3, <1>4, <1>5, <1>6, <1>7, <1>8, <1>9, <1>10, <1>11, <1>12,
     <1>13, <1>14, <1>15, <1>16, <1>17, <1>18 DEF Next, Step

-----------------------------------------------------------------------------
(* The invariant holds of every behavior. *)

LEMMA InitIInv == Init => IInv
<1> SUFFICES ASSUME Init PROVE IInv
  OBVIOUS
<1> USE NamesAssumption, InodesAssumption, TriesAssumption DEF Init
<1>1. entry \in [Names -> Preexisting \cup {None}] /\ \A n \in TempNames : entry[n] = None
  OBVIOUS
<1>2. TypeOK
  BY <1>1 DEF TypeOK, Names, Modes, PCs, Successes, Failures
<1>3. FileInv /\ TempInv /\ StageInv /\ DiscardInv /\ SizeInv
  BY <1>1 DEF FileInv, TempInv, StageInv, Staged, Staging, Owning, Complete,
       DiscardInv, SizeInv
<1>4. OrderInv /\ ModeInv
  BY DEF OrderInv, ModeInv
<1>5. WholeFile /\ ModeProven
  BY <1>1 DEF WholeFile, ModeProven, Whole, Names
<1>6. DurableSurvives
  BY <1>1 DEF DurableSurvives, Age, Names
<1>7. VerdictIsTrue /\ NoUnexplainedTemp /\ StagedPrivately /\ CapNeverCrossed
  BY <1>1 DEF VerdictIsTrue, NoUnexplainedTemp, StagedPrivately, CapNeverCrossed
<1> QED BY <1>2, <1>3, <1>4, <1>5, <1>6, <1>7 DEF IInv

(* Every step keeps the invariant: the step lemmas together.                 *)
LEMMA NextIInv == IInv /\ [Next]_vars => IInv'
BY TypeStep, FileInvStep, TempInvStep, StageInvStep, OrderInvStep, ModeInvStep,
     DiscardInvStep,
   SizeInvStep, WholeFileStep, DurableSurvivesStep, VerdictIsTrueStep, NoUnexplainedTempStep,
   ModeProvenStep, StagedPrivatelyStep, CapNeverCrossedStep
   DEF IInv

(* Everything above is true in every reachable state. *)
THEOREM Invariance == Spec => []IInv
BY InitIInv, NextIInv, PTL DEF Spec

(* Every variable keeps its type; createTempInRoot's collision counter its  *)
(* bound.                                                                   *)
THEOREM TypeCorrect == Spec => []TypeOK
BY Invariance, PTL DEF IInv

(* A reader, now or after a power loss, never sees a partial file.          *)
THEOREM NeverTorn == Spec => []WholeFile
BY Invariance, PTL DEF IInv

(* Result.Durable is kept through any number of later writes and power      *)
(* losses.                                                                  *)
THEOREM DurableIsKept == Spec => []DurableSurvives
BY Invariance, PTL DEF IInv

(* A call's error means its data is not at the target, its success that it  *)
(* was put there.                                                           *)
THEOREM VerdictsAreTrue == Spec => []VerdictIsTrue
BY Invariance, PTL DEF IInv

(* Temps are left behind only by kills, power losses and failed removals.   *)
THEOREM TempsAreExplained == Spec => []NoUnexplainedTemp
BY Invariance, PTL DEF IInv

(* WithMode is a guarantee: on the temp while data goes into it, and on     *)
(* whatever may be found at the target.                                     *)
THEOREM ModesAreProven == Spec => []ModesHold
BY Invariance, PTL DEF IInv, ModesHold

(* WithMaxBytes bounds every staged file at every moment.                   *)
THEOREM CapsHold == Spec => []CapNeverCrossed
BY Invariance, PTL DEF IInv

-----------------------------------------------------------------------------
(* What a step does to the targets, which is all a reader can see: nothing, *)
(* unless it is a rename, a directory fsync or a power loss.                *)
Quiet == \A t \in Targets : entry'[t] = entry[t] /\ disk'[t] = disk[t]
Flushed == \A t \in Targets : entry'[t] = entry[t] /\ disk'[t] = {entry[t]}

(* A step leaves the targets alone, flushes them, moves one call's file over *)
(* one of them, or is a power loss.                                          *)
LEMMA TargetEffect ==
  ASSUME IInv, [Next]_vars
  PROVE  Quiet \/ Flushed \/ (\E w \in Writers : Renamed(w)) \/ PowerLoss
<1> USE DEF Quiet
<1>1. CASE UNCHANGED <<entry, disk>>
  BY <1>1
<1>2. CASE \E w \in Writers, c \in Calls : Begin(w, c)
  BY <1>2, <1>1 DEF Begin, fs
<1>3. CASE \E w \in Writers : CheckTarget(w)
  BY <1>3, <1>1 DEF CheckTarget, fs
<1>4. CASE \E w \in Writers : TempCollision(w)
  BY <1>4, <1>1 DEF TempCollision, fs
<1>5. CASE \E w \in Writers : ProveOwnerOnly(w)
  BY <1>5, <1>1 DEF ProveOwnerOnly, Enforce, fs
<1>6. CASE \E w \in Writers : WriteData(w)
  BY <1>6, <1>1 DEF WriteData, fs
<1>7. CASE \E w \in Writers : Barrier(w)
  BY <1>7, <1>1 DEF Barrier, fs
<1>8. CASE \E w \in Writers : EnforceFinalMode(w)
  BY <1>8, <1>1 DEF EnforceFinalMode, Enforce, fs
<1>9. CASE \E w \in Writers : SyncTemp(w)
  BY <1>9, <1>1 DEF SyncTemp, fs
<1>10. CASE \E w \in Writers : CloseTemp(w)
  BY <1>10, <1>1 DEF CloseTemp, fs
<1>11. CASE \E w \in Writers : Cancel(w)
  BY <1>11, <1>1 DEF Cancel, fs
<1>12. CASE \E w \in Writers : Kill(w)
  BY <1>12, <1>1 DEF Kill, fs
<1>13. ASSUME NEW n \in TempNames, NEW v, Link(n, v) PROVE Quiet
  BY <1>13, NamesAssumption DEF Link, IInv, TypeOK, Names
<1>14. CASE \E w \in Writers : CreateTemp(w)
  BY <1>1, <1>13, <1>14 DEF CreateTemp
<1>15. ASSUME NEW w \in Writers, Discard(w) PROVE Quiet
  <2>1. tmp[w] \in TempNames
    BY <1>15, OwnTemp DEF Discard, Owning, IInv
  <2> QED BY <1>1, <1>13, <1>15, <2>1 DEF Discard
<1>16. CASE \E n \in TempNames : Sweep(n)
  BY <1>13, <1>16 DEF Sweep
<1>17. ASSUME NEW w \in Writers, DirSync(w) PROVE Quiet \/ Flushed
  BY <1>1, <1>17 DEF DirSync, Flushed, Names
<1>18. ASSUME NEW w \in Writers, RenameTemp(w) PROVE Quiet \/ Renamed(w)
  BY <1>1, <1>18, RenameEffect DEF IInv, fs
<1>19. CASE UNCHANGED vars
  BY <1>1, <1>19 DEF vars, fs
<1> QED BY <1>2, <1>3, <1>4, <1>5, <1>6, <1>7, <1>8, <1>9, <1>10, <1>11, <1>12, <1>14,
     <1>15, <1>16, <1>17, <1>18, <1>19 DEF Next, Step

(* What is mapped to the abstract file is what the entries say, for nothing *)
(* at a target is torn.                                                     *)
Exact ==
    /\ [t \in Targets |-> Content(entry[t])] = [t \in Targets |-> entry[t]]
    /\ [t \in Targets |-> {Content(v) : v \in disk[t]}] = [t \in Targets |-> disk[t]]

(* Nothing at a target is torn, so the mapping is the identity on entries.   *)
LEMMA MappingIsExact == IInv => Exact
<1> SUFFICES ASSUME IInv PROVE Exact
  OBVIOUS
<1>1. ASSUME NEW t \in Targets, NEW v \in disk[t] PROVE Content(v) = v
  BY <1>1 DEF IInv, WholeFile, Content
<1>2. \A t \in Targets : Content(entry[t]) = entry[t]
  BY <1>1 DEF IInv, FileInv, Names
<1>3. \A t \in Targets : {Content(v) : v \in disk[t]} = disk[t]
  BY <1>1
<1> QED BY <1>2, <1>3 DEF Exact

(* The same of the next state.                                               *)
LEMMA MappingStaysExact == IInv' => Exact'
BY MappingIsExact, PTL

(* Initial states map to initial states.                                     *)
LEMMA RefinementInit == Init => Register!Init
<1> SUFFICES ASSUME Init PROVE Register!Init
  OBVIOUS
<1>1. Exact
  BY InitIInv, MappingIsExact
<1>2. \A t \in Targets : entry[t] \in Inodes \cup {None} /\ disk[t] = {entry[t]}
  BY InodesAssumption DEF Init, Names
<1> QED BY <1>1, <1>2 DEF Exact, Register!Init

(* A step maps to a publication, a persist, a power loss or a stutter.       *)
LEMMA RefinementStep ==
  ASSUME IInv, IInv', [Next]_vars
  PROVE  [Register!Next]_(Register!vars)
<1> USE DEF Register!vars, Register!Next, Exact
<1>1. Exact /\ Exact'
  BY MappingIsExact, MappingStaysExact
<1>2. \A t \in Targets : /\ entry[t] \in Inodes \cup {None} /\ entry'[t] \in Inodes \cup {None}
                         /\ entry[t] \in disk[t]
  BY DEF IInv, TypeOK, FileInv, Names
<1>3. CASE Quiet
  <2>1. /\ [t \in Targets |-> entry'[t]] = [t \in Targets |-> entry[t]]
        /\ [t \in Targets |-> disk'[t]] = [t \in Targets |-> disk[t]]
    BY <1>3 DEF Quiet
  <2> QED BY <1>1, <2>1
<1>4. CASE Flushed
  BY <1>1, <1>4 DEF Flushed, Register!Persist
<1>5. ASSUME NEW w \in Writers, Renamed(w) PROVE Register!Next
  <2>1. /\ fd[w] \in Inodes /\ TargetOf(w) \in Targets
        /\ tmp[w] \in TempNames /\ tmp[w] # TargetOf(w)
    BY <1>5, InFlight, OwnTemp DEF Renamed, Owning, IInv
  <2>2. ASSUME NEW t \in Targets
        PROVE  /\ entry'[t] = IF t = TargetOf(w) THEN fd[w] ELSE entry[t]
               /\ disk'[t] = IF t = TargetOf(w) THEN disk[t] \cup {fd[w]} ELSE disk[t]
    <3>1. t \in Names /\ t # tmp[w]
      BY <2>1, NamesAssumption DEF Names
    <3>2. disk'[t] = disk[t] \cup IF t = TargetOf(w) THEN {fd[w]} ELSE {}
      BY <1>5, <3>1 DEF Renamed
    <3>3. entry'[t] = IF t = TargetOf(w) THEN fd[w] ELSE entry[t]
      BY <1>5, <3>1 DEF Renamed
    <3> QED BY <3>2, <3>3
  <2>3. /\ [t \in Targets |-> entry'[t]]
            = [[t \in Targets |-> entry[t]] EXCEPT ![TargetOf(w)] = fd[w]]
        /\ [t \in Targets |-> disk'[t]]
            = [[t \in Targets |-> disk[t]] EXCEPT ![TargetOf(w)] = @ \cup {fd[w]}]
    BY <2>1, <2>2
  <2>4. ASSUME NEW f \in Targets, NEW c \in Inodes \cup {None}, f = TargetOf(w), c = fd[w]
        PROVE  Register!Publish(f, c)
    BY <1>1, <2>3, <2>4 DEF Register!Publish
  <2> QED BY <2>1, <2>4
<1>6. CASE PowerLoss
  BY <1>1, <1>2, <1>6 DEF PowerLoss, Register!PowerLoss, Names
<1> QED BY <1>3, <1>4, <1>5, <1>6, TargetEffect

(* The write engine implements the atomic register.                         *)
THEOREM Implementation == Spec => ImplementsRegister
BY RefinementInit, RefinementStep, Invariance, PTL DEF Spec, ImplementsRegister,
     Register!Spec

-----------------------------------------------------------------------------
(* A special file at a target is the only thing a power loss may leave      *)
(* there, and no call that passed checkWriteTargetInRoot has one before it. *)
Cleared == Owning \cup {"create"}
SpecialInv ==
    /\ \A t \in Targets : \A s \in disk[t] \cap Special : disk[t] = {s}
    /\ \A w \in Writers : pc[w] \in Cleared => entry[TargetOf(w)] \notin Special

(* Only checkWriteTargetInRoot lets a call go on, and a call keeps its      *)
(* target.                                                                  *)
LEMMA ClearedOnlyByCheck ==
  ASSUME IInv, [Next]_vars, NEW v \in Writers, pc'[v] \in Cleared
  PROVE  /\ pc[v] \in Cleared \/ (pc[v] = "open" /\ entry[TargetOf(v)] \notin Special)
         /\ TargetOf(v)' = TargetOf(v)
<1> USE DEF IInv, TypeOK, FileInv, Cleared, Owning, TargetOf, CallOf, GoTo
<1>1. ASSUME NEW w \in Writers, NEW c \in Calls, Begin(w, c)
      PROVE  pc[v] \in Cleared /\ TargetOf(v)' = TargetOf(v)
  BY <1>1, SMTT(30) DEF Begin, Return
<1>2. CASE \E w \in Writers : CheckTarget(w)
  BY <1>2 DEF CheckTarget, Return, Proceed, ghost
<1>3. CASE \E w \in Writers : TempCollision(w)
  BY <1>3 DEF TempCollision, Return, ghost
<1>4. CASE \E w \in Writers : CreateTemp(w)
  BY <1>4 DEF CreateTemp, Return, ghost
<1>5. CASE \E w \in Writers : ProveOwnerOnly(w)
  BY <1>5 DEF ProveOwnerOnly, Enforce, Fail, Proceed, ghost
<1>6. CASE \E w \in Writers : WriteData(w)
  BY <1>6 DEF WriteData, Fail, Proceed, ghost
<1>7. CASE \E w \in Writers : Barrier(w)
  BY <1>7 DEF Barrier, Fail, Proceed, ghost
<1>8. CASE \E w \in Writers : EnforceFinalMode(w)
  BY <1>8 DEF EnforceFinalMode, Enforce, Fail, Proceed, ghost
<1>9. CASE \E w \in Writers : SyncTemp(w)
  BY <1>9 DEF SyncTemp, Fail, Proceed, ghost
<1>10. CASE \E w \in Writers : CloseTemp(w)
  BY <1>10 DEF CloseTemp, Fail, Proceed, ghost
<1>11. CASE \E w \in Writers : RenameTemp(w)
  BY <1>11 DEF RenameTemp, Fail, ghost
<1>12. CASE \E w \in Writers : DirSync(w)
  BY <1>12 DEF DirSync, Return, ghost
<1>13. CASE \E w \in Writers : Discard(w)
  BY <1>13 DEF Discard, Return, ghost
<1>14. CASE \E w \in Writers : Cancel(w)
  BY <1>14 DEF Cancel, ghost
<1>15. CASE \E w \in Writers : Kill(w)
  BY <1>15 DEF Kill, ghost
<1>16. CASE \E n \in TempNames : Sweep(n)
  BY <1>16 DEF Sweep, ctl, ghost
<1>17. CASE PowerLoss
  BY <1>17 DEF PowerLoss
<1>18. CASE UNCHANGED vars
  BY <1>18 DEF vars, ctl, ghost
<1> QED BY <1>1, <1>2, <1>3, <1>4, <1>5, <1>6, <1>7, <1>8, <1>9, <1>10, <1>11, <1>12,
     <1>13, <1>14, <1>15, <1>16, <1>17, <1>18 DEF Next, Step

(* The invariant that the special files of a target and its clearances keep. *)
LEMMA SpecialStep ==
  ASSUME IInv, SpecialInv, [Next]_vars
  PROVE  SpecialInv' /\ \A t \in Targets : entry[t] \in Special => entry'[t] = entry[t]
<1> USE DEF SpecialInv
<1>1. \A t \in Targets : entry[t] \in disk[t]
  BY DEF IInv, FileInv, Names
<1>2. \A v \in Writers : pc'[v] \in Cleared =>
          entry[TargetOf(v)] \notin Special /\ TargetOf(v)' = TargetOf(v) /\ TargetOf(v) \in Targets
  BY ClearedOnlyByCheck, InFlight DEF IInv, Cleared, Owning
<1>3. CASE Quiet
  BY <1>2, <1>3 DEF Quiet
<1>4. CASE Flushed
  BY <1>1, <1>2, <1>4 DEF Flushed
<1>5. ASSUME NEW w \in Writers, Renamed(w)
      PROVE  SpecialInv' /\ \A t \in Targets : entry[t] \in Special => entry'[t] = entry[t]
  <2>1. /\ fd[w] \notin Special /\ TargetOf(w) \in Targets
        /\ tmp[w] \in TempNames /\ entry[TargetOf(w)] \notin Special
    BY <1>5, InFlight, OwnTemp, InodesAssumption DEF Renamed, Owning, Cleared, IInv
  <2>2. disk[TargetOf(w)] \cap Special = {}
    BY <1>1, <2>1
  <2>3. ASSUME NEW t \in Targets
        PROVE  /\ entry'[t] = IF t = TargetOf(w) THEN fd[w] ELSE entry[t]
               /\ disk'[t] = disk[t] \cup IF t = TargetOf(w) THEN {fd[w]} ELSE {}
    <3>1. t \in Names /\ t # tmp[w]
      BY <2>1, NamesAssumption DEF Names
    <3> QED BY <1>5, <3>1 DEF Renamed
  <2>4. \A t \in Targets : \A s \in disk'[t] \cap Special : disk'[t] = {s}
    BY <2>1, <2>2, <2>3
  <2> QED BY <1>2, <2>1, <2>3, <2>4
<1>6. CASE PowerLoss
  BY <1>1, <1>6 DEF PowerLoss, Names, Cleared, Owning
<1> QED BY <1>3, <1>4, <1>5, <1>6, TargetEffect

(* No number of calls, failures and power losses replaces a symlink, a      *)
(* FIFO, a device or a directory found at a target.                         *)
THEOREM SpecialIsKept == Spec => SpecialSurvives
<1>1. Init => SpecialInv
  BY DEF Init, SpecialInv, Cleared, Owning, Names
<1>2. IInv /\ SpecialInv /\ [Next]_vars
        => SpecialInv' /\ [\A t \in Targets : entry[t] \in Special => entry'[t] = entry[t]]_vars
  BY SpecialStep
<1> QED BY <1>1, <1>2, Invariance, PTL DEF Spec, SpecialSurvives

=============================================================================
