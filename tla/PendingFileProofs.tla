------------------------- MODULE PendingFileProofs -------------------------
(***************************************************************************)
(* Proofs about PendingFile, for every cap, every size and every caller.   *)
(***************************************************************************)
EXTENDS PendingFile, TLAPS

Live == {"open", "cleanupFailed"}
Aborted == {"cleaned", "cleanupFailed"}

(* Before NewPendingFile there is nothing; the file is open only while the  *)
(* state is, and a temp exists only for a handle that does.                 *)
StartInv ==
    /\ state = "none" => /\ ~owned /\ ~stepped
                         /\ size = 0 /\ offset = 0 /\ written = 0
    /\ fdOpen => state = "open"
    /\ temp => state \notin {"none", "refused"}

(* The outcome of Commit is recorded by Commit alone, and its answers are   *)
(* those of the state.                                                      *)
AnswerInv ==
    /\ state # "committed" => target = Old /\ result = "none"
    /\ state = "committed" => result # "none" /\ (result \in Successes <=> target # Old)
    /\ state = "committed" => reply = "none" \/ reply = result
    /\ state # "committed" => reply \in {"none", "aborted"}

(* The root is the PendingFile's to close exactly while it may need it. *)
OwnerInv == ownRoot <=> owned /\ state \in Live

IInv ==
    /\ TypeOK /\ CapAtPublish /\ ReplyIsTrue /\ RootLifetime /\ TempRemoved /\ CountIsSize
    /\ StartInv /\ AnswerInv /\ OwnerInv

-----------------------------------------------------------------------------
(* The larger of two numbers is one of them. *)
LEMMA LargerIsOne ==
  ASSUME NEW m \in Nat, NEW n \in Nat
  PROVE  Larger(m, n) \in Nat /\ (m <= n => Larger(m, n) = n)
BY DEF Larger

(* A write of any kind that lands keeps the count in step with the size, if *)
(* it was, and below the cap if it was checked.                             *)
LEMMA LandKeepsCount ==
  ASSUME TypeOK, CountIsSize, NEW m \in Nat, CheckCap(m), Land(m, m),
         UNCHANGED <<stepped, limit>>
  PROVE  /\ size' \in Nat /\ offset' \in Nat /\ written' \in Nat
         /\ CountIsSize'
<1>1. size' \in Nat /\ offset' \in Nat /\ written' \in Nat
  BY LargerIsOne DEF TypeOK, Land
<1>2. CASE ~stepped
  <2>1. size' = offset' /\ written' = offset'
    <3>1. offset = size /\ written = size
      BY <1>2 DEF CountIsSize, BytesWritten
    <3>2. written' = offset' /\ size' = IF m = 0 THEN size ELSE Larger(size, offset')
      BY <3>1 DEF Land
    <3>3. offset' = size + m /\ size \in Nat
      BY <3>1 DEF Land, TypeOK
    <3>4. size <= offset' /\ (m = 0 => offset' = size)
      BY <3>3
    <3> QED BY <3>2, <3>3, <3>4 DEF Larger
  <2>2. limit > 0 => written' <= limit
    BY <1>2 DEF TypeOK, CountIsSize, CheckCap, Land, BytesWritten
  <2> QED BY <1>1, <1>2, <2>1, <2>2 DEF CountIsSize, BytesWritten
<1>3. CASE stepped
  BY <1>1, <1>3 DEF CountIsSize
<1> QED BY <1>1, <1>2, <1>3 DEF TypeOK

(* The initial state satisfies the invariant. *)
LEMMA InitIInv == Init => IInv
<1> SUFFICES ASSUME Init PROVE IInv
  OBVIOUS
<1> USE DEF Init
<1>1. TypeOK
  BY DEF TypeOK, States, Successes
<1>2. CapAtPublish /\ ReplyIsTrue /\ RootLifetime /\ TempRemoved
  BY DEF CapAtPublish, ReplyIsTrue, RootLifetime, TempRemoved
<1>3. CountIsSize
  BY DEF CountIsSize, BytesWritten
<1>4. StartInv /\ AnswerInv /\ OwnerInv
  BY DEF StartInv, AnswerInv, OwnerInv, Live
<1> QED BY <1>1, <1>2, <1>3, <1>4 DEF IInv

(* A step that leaves the life of the handle alone keeps all but the count. *)
LEMMA StreamStep ==
  ASSUME IInv, fdOpen, UNCHANGED <<life, given>>, fdOpen' \in BOOLEAN, stepped' \in BOOLEAN,
         size' \in Nat, offset' \in Nat, written' \in Nat, CountIsSize'
  PROVE  IInv'
BY DEF IInv, TypeOK, CapAtPublish, ReplyIsTrue, RootLifetime, TempRemoved, StartInv, AnswerInv,
       OwnerInv, Live, life, given

(* Every step keeps the invariant. *)
LEMMA NextIInv == IInv /\ [Next]_vars => IInv'
<1> SUFFICES ASSUME IInv, [Next]_vars PROVE IInv'
  OBVIOUS
<1> USE SizeAssumption
<1>1. ASSUME NEW cap \in Caps, NEW own \in BOOLEAN, New(cap, own)
      PROVE  IInv'
  <2> USE <1>1, CapsAssumption DEF New, IInv
  <2>1. TypeOK'
    <3>1. limit' \in Nat /\ UNCHANGED <<size, offset, written, stepped, result, target, reply, stuck>>
      OBVIOUS
    <3>2. state' \in States /\ owned' \in BOOLEAN
      BY DEF States
    <3>3. (rootOpen' = TRUE \/ rootOpen' = ~own) /\ rootOpen' \in BOOLEAN
      OBVIOUS
    <3>4. fdOpen' \in BOOLEAN /\ temp' \in BOOLEAN
      BY DEF TypeOK
    <3>5. ownRoot' \in BOOLEAN /\ dirSyncFailed' \in BOOLEAN
      BY DEF TypeOK
    <3> QED BY <3>1, <3>2, <3>3, <3>4, <3>5 DEF TypeOK
  <2>2. (CapAtPublish /\ ReplyIsTrue /\ RootLifetime /\ TempRemoved)'
    BY DEF CapAtPublish, ReplyIsTrue, RootLifetime, TempRemoved, AnswerInv, StartInv, TypeOK
  <2>3. CountIsSize'
    BY DEF CountIsSize, StartInv, BytesWritten, TypeOK
  <2>4. StartInv' /\ AnswerInv'
    BY DEF StartInv, AnswerInv
  <2>5. OwnerInv'
    BY DEF OwnerInv, Live, StartInv, TypeOK
  <2> QED BY <2>1, <2>2, <2>3, <2>4, <2>5
<1>2. ASSUME NEW n \in Sizes, Write(n)
      PROVE  IInv'
  <2>1. PICK m \in 0..n : Land(m, m)
    BY <1>2 DEF Write
  <2>2. m \in Nat /\ CheckCap(m) /\ fdOpen
    BY <1>2 DEF Write, CheckCap, Sizes, IInv, TypeOK
  <2> QED BY <1>2, <2>1, <2>2, LandKeepsCount, StreamStep DEF Write, IInv, TypeOK, given
<1>3. ASSUME NEW n \in Sizes, ReadFrom(n)
      PROVE  IInv'
  <2>1. PICK m \in 0..n : CheckCap(m) /\ Land(m, m)
    BY <1>3 DEF ReadFrom
  <2>2. m \in Nat
    BY DEF Sizes
  <2> QED BY <1>3, <2>1, <2>2, LandKeepsCount, StreamStep DEF ReadFrom, IInv, TypeOK, given
<1>4. ASSUME NEW n \in Sizes, Truncate(n)
      PROVE  IInv'
  <2>1. CountIsSize'
    BY <1>4 DEF Truncate, IInv, TypeOK, CountIsSize, Sizes, BytesWritten, given
  <2> QED BY <1>4, <2>1, StreamStep DEF Truncate, IInv, TypeOK, Sizes
<1>5. ASSUME NEW n \in Sizes, Seek(n)
      PROVE  IInv'
  BY <1>5, StreamStep DEF Seek, IInv, TypeOK, CountIsSize, Sizes
<1>6. ASSUME NEW n \in Sizes, WriteAround(n)
      PROVE  IInv'
  <2>1. size' \in Nat
    BY <1>6, LargerIsOne DEF WriteAround, IInv, TypeOK, Sizes
  <2> QED BY <1>6, <2>1 DEF WriteAround, IInv, TypeOK, CapAtPublish, ReplyIsTrue, RootLifetime,
       TempRemoved, CountIsSize, StartInv, AnswerInv, OwnerInv, Live, life, given
<1>7. CASE CloseFile
  BY <1>7, StreamStep DEF CloseFile, IInv, TypeOK, CountIsSize, BytesWritten, given
<1>8. CASE Commit
  <2>1. CASE state = "open" /\ CommitOpen
    <3>1. target' \in Nat \cup {Old} /\ result' \in Successes \cup {"failed"}
      BY <2>1 DEF CommitOpen, IInv, TypeOK, Successes, AnswerInv
    <3>2. (result' \in Successes <=> target' # Old) /\ (target' # Old /\ limit > 0 => target' <= limit)
      BY <2>1, OldAssumption DEF CommitOpen, Finalizes, IInv, TypeOK, Successes, AnswerInv
    <3>3. /\ temp' \in BOOLEAN /\ stuck' \in BOOLEAN /\ (temp' => stuck')
      BY <2>1 DEF CommitOpen, DropTemp, IInv, TypeOK
    <3> QED BY <2>1, <3>1, <3>2, <3>3 DEF CommitOpen, CloseOwnedRoot, IInv, TypeOK, CapAtPublish,
         ReplyIsTrue, RootLifetime, TempRemoved, CountIsSize, StartInv, AnswerInv, OwnerInv, Live,
         States, Successes, BytesWritten, given
  <2>2. CASE state # "open"
    BY <1>8, <2>2 DEF Commit, IInv, TypeOK, CapAtPublish, ReplyIsTrue, RootLifetime, TempRemoved,
       CountIsSize, StartInv, AnswerInv, OwnerInv, Live, Successes, BytesWritten, stream, given
  <2> QED BY <1>8, <2>1, <2>2 DEF Commit
<1>9. CASE Cleanup
  <2> USE <1>9 DEF Cleanup, CloseOwnedRoot, IInv, given
  <2>1. TypeOK'
    BY DEF TypeOK, States
  <2>2. (CapAtPublish /\ ReplyIsTrue /\ TempRemoved /\ CountIsSize)'
    BY DEF CapAtPublish, ReplyIsTrue, TempRemoved, CountIsSize, AnswerInv, BytesWritten
  <2>3. RootLifetime' /\ OwnerInv'
    <3>1. CASE state' = "cleaned"
      <4>1. ~ownRoot' /\ (rootOpen' <=> rootOpen /\ ~owned) /\ owned' = owned
        BY <3>1, Zenon DEF OwnerInv, Live
      <4>2. rootOpen /\ state' \notin Live
        BY <3>1 DEF RootLifetime, Live
      <4>3. OwnerInv'
        BY <4>1, <4>2, Zenon DEF OwnerInv
      <4>4. RootLifetime'
        BY <4>1, <4>2 DEF RootLifetime, Live
      <4> QED BY <4>3, <4>4
    <3>2. CASE state' = "cleanupFailed"
      <4>1. UNCHANGED <<ownRoot, rootOpen, owned>>
        BY <3>2
      <4> QED BY <3>2, <4>1 DEF RootLifetime, OwnerInv, Live
    <3> QED BY <3>1, <3>2
  <2>4. StartInv' /\ AnswerInv'
    BY DEF StartInv, AnswerInv, Successes
  <2> QED BY <2>1, <2>2, <2>3, <2>4
<1>10. CASE Sweep
  <2>1. temp' = FALSE
        /\ UNCHANGED <<state, ownRoot, rootOpen, stream, result, target, reply, stuck, given>>
    BY <1>10 DEF Sweep
  <2>2. TypeOK'
    <3>1. /\ state' = state /\ limit' = limit /\ size' = size /\ offset' = offset
          /\ written' = written /\ dirSyncFailed' = dirSyncFailed /\ ownRoot' = ownRoot
          /\ rootOpen' = rootOpen /\ fdOpen' = fdOpen /\ owned' = owned /\ stepped' = stepped
          /\ stuck' = stuck /\ result' = result /\ reply' = reply /\ target' = target
      BY <2>1 DEF stream, given
    <3>2. temp' \in BOOLEAN
      BY <2>1
    <3> QED BY <3>1, <3>2 DEF IInv, TypeOK
  <2>5. CapAtPublish' /\ ReplyIsTrue'
    BY <2>1 DEF IInv, CapAtPublish, ReplyIsTrue, stream, given
  <2>3. RootLifetime' /\ TempRemoved'
    BY <2>1 DEF IInv, RootLifetime, TempRemoved, Live, stream, given
  <2>4. CountIsSize' /\ StartInv' /\ AnswerInv' /\ OwnerInv'
    BY <2>1 DEF IInv, CountIsSize, StartInv, AnswerInv, OwnerInv, Live, BytesWritten, stream, given
  <2> QED BY <2>2, <2>3, <2>4, <2>5 DEF IInv
<1>11. CASE UNCHANGED vars
  BY <1>11 DEF vars, IInv, TypeOK, CapAtPublish, ReplyIsTrue, RootLifetime, TempRemoved,
     CountIsSize, StartInv, AnswerInv, OwnerInv, Live, BytesWritten, stream, life, given
<1> QED BY <1>1, <1>2, <1>3, <1>4, <1>5, <1>6, <1>7, <1>8, <1>9, <1>10, <1>11 DEF Next

-----------------------------------------------------------------------------
(* The invariant holds of every behaviour. *)
THEOREM Invariance == Spec => []IInv
BY InitIInv, NextIInv, PTL DEF Spec

(* Every variable keeps its type. *)
THEOREM TypeCorrect == Spec => []TypeOK
BY Invariance, PTL DEF IInv

(* WithMaxBytes: no route puts more than the cap at the target. *)
THEOREM CapHolds == Spec => []CapAtPublish
BY Invariance, PTL DEF IInv

(* Every answer of Commit, the first, a replay or ErrAborted, is true.      *)
THEOREM RepliesAreTrue == Spec => []ReplyIsTrue
BY Invariance, PTL DEF IInv

(* An owned root is closed when it is no longer needed and not before, and  *)
(* the caller's root is never closed.                                       *)
THEOREM RootIsClosedInTime == Spec => []RootLifetime
BY Invariance, PTL DEF IInv

(* A handle at its end leaves no temp, but for a failed removal in Commit.  *)
THEOREM TempIsRemoved == Spec => []TempRemoved
BY Invariance, PTL DEF IInv

(* BytesWritten is the staged size as long as the stream is only appended to. *)
THEOREM CountIsRight == Spec => []CountIsSize
BY Invariance, PTL DEF IInv

(* Commit and Cleanup decide once and for all. *)
THEOREM DecidedOnce == Spec => EndsOnce
<1>1. IInv /\ [Next]_vars =>
        [/\ state \in {"committed", "cleaned"} => UNCHANGED <<state, result, target>>
         /\ state = "cleanupFailed" => state' \in {"cleanupFailed", "cleaned"}]_vars
  BY DEF IInv, StartInv, Next, vars, New, Write, ReadFrom, Truncate, Seek, WriteAround, CloseFile,
         Commit, CommitOpen, Cleanup, Sweep, life
<1> QED BY <1>1, Invariance, PTL DEF Spec, EndsOnce

=============================================================================
