-------------------------- MODULE MkdirChainProofs --------------------------
(***************************************************************************)
(* Proofs about MkdirChain, for any number of writers, any depth of the    *)
(* chain and any choice of what may fail.                                  *)
(***************************************************************************)
EXTENDS MkdirChain, TLAPS

Working == {"prove", "persist"}

(* A call looks at levels on the way to its directory only. *)
LevelInv ==
    \A w \in Writers :
        /\ pc[w] = "scan" => level[w] <= dir[w]
        /\ pc[w] \in Working \cup {"mkdir"} => 0 < level[w] /\ level[w] <= dir[w]

(* The levels a call created exist, are no other call's, and lie above the  *)
(* one it looks at.                                                         *)
CreatedInv ==
    /\ \A w \in Writers : \A l \in created[w] : l <= depth /\ mode[l] # "found"
    /\ \A v, w \in Writers : v # w => created[v] \cap created[w] = {}
    /\ \A w \in Writers :
          /\ pc[w] = "scan" => created[w] = {}
          /\ pc[w] = "mkdir" => \A l \in created[w] : l < level[w]
          /\ pc[w] \in Working => level[w] \in created[w] /\ \A l \in created[w] : l <= level[w]

(* What was found as it is, is on disk as it is. *)
FoundInv == \A l \in Levels : mode[l] = "found" => modeKept[l]

(* Every level is persisted, given up or in its creator's hands. *)
CoverInv ==
    \A l \in 1..depth : l \in kept \cup abandoned \/ \E w \in Writers : l \in BeingMade(w)

(* What may be found at a target after a power loss is not older than what  *)
(* was reported durable there.                                              *)
FileInv ==
    /\ \A d \in Dirs :
          /\ file[d] \in fileKept[d] /\ file[d] <= stamp
          /\ \A f \in fileKept[d] : f >= floor[d]
          /\ floor[d] > 0 => d <= depth
    /\ \A w \in Writers : pc[w] = "dirsync" => mine[w] <= file[dir[w]]

(* The calls that may still report durable, and those that did. *)
Promising(w) ==
    \/ pc[w] # "idle" /\ ~syncFailed[w]
    \/ pc[w] = "idle" /\ res[w] = "durable"

(* They have persisted what they created, but for the level in hand. *)
Own(w) ==
    /\ Promising(w) => \A l \in created[w] :
          /\ l \notin BeingMade(w) => l \in kept /\ mode[l] = "wanted"
          /\ l + 1 \in created[w] \ BeingMade(w) => modeKept[l]
    /\ pc[w] = "persist" => mode[level[w]] = "wanted"
    /\ pc[w] = "idle" /\ res[w] = "durable" /\ dir[w] \in created[w] => modeKept[dir[w]]

OwnInv == \A w \in Writers : Own(w)

IInv ==
    /\ TypeOK /\ NothingBelowMissing /\ LevelInv /\ CreatedInv /\ FoundInv /\ CoverInv
    /\ FileInv /\ OwnInv

-----------------------------------------------------------------------------
LEMMA InitEstablishes == Init => IInv
<1> SUFFICES ASSUME Init PROVE IInv
  OBVIOUS
<1> USE DepthAssumption DEF Init, Levels, Dirs
<1>1. TypeOK
  BY DEF TypeOK, PCs, Outcomes
<1>2. NothingBelowMissing /\ LevelInv
  BY DEF NothingBelowMissing, LevelInv, Working
<1>3. CreatedInv /\ FoundInv
  BY DEF CreatedInv, FoundInv, Working
<1>4. CoverInv
  BY DEF CoverInv
<1>5. FileInv
  BY DEF FileInv
<1>6. OwnInv
  BY DEF OwnInv, Own, Promising
<1> QED BY <1>1, <1>2, <1>3, <1>4, <1>5, <1>6 DEF IInv

(* A call keeps its promise while others do not touch its levels. *)
LEMMA OthersKeepOwn ==
  ASSUME NEW v \in Writers, Own(v),
         pc'[v] = pc[v], level'[v] = level[v], dir'[v] = dir[v], res'[v] = res[v],
         created'[v] = created[v], syncFailed'[v] = syncFailed[v],
         kept \subseteq kept',
         \A l \in created[v] : mode'[l] = mode[l],
         pc[v] = "persist" => level[v] \in created[v],
         \A l \in created[v] : modeKept[l] => modeKept'[l]
  PROVE  Own(v)'
<1>1. BeingMade(v)' = BeingMade(v)
  BY DEF BeingMade
<1>2. Promising(v)' <=> Promising(v)
  BY DEF Promising
<1>3. /\ pc'[v] = "persist" => mode'[level'[v]] = "wanted"
      /\ pc'[v] = "idle" /\ res'[v] = "durable" /\ dir'[v] \in created'[v] => modeKept'[dir'[v]]
  BY DEF Own
<1>4. Promising(v) => \A l \in created'[v] :
          /\ l \notin BeingMade(v) => l \in kept' /\ mode'[l] = "wanted"
          /\ l + 1 \in created'[v] \ BeingMade(v) => modeKept'[l]
  BY DEF Own
<1> QED BY <1>1, <1>2, <1>3, <1>4, Zenon DEF Own

Moved(w, p, n, o) ==
    /\ pc' = [pc EXCEPT ![w] = p]
    /\ level' = [level EXCEPT ![w] = n]
    /\ res' = [res EXCEPT ![w] = o]

(* A call goes on, or ends, without a trace but a level it gives up. *)
LEMMA MoveKeeps ==
  ASSUME IInv, NEW w \in Writers, NEW p \in {"scan", "mkdir", "publish", "idle"}, NEW n \in Dirs,
         NEW o \in Outcomes, p = "idle" => o # "durable",
         pc[w] # "idle", p # "idle" => pc[w] \in {"scan", "mkdir"},
         p = "scan" => n <= dir[w] /\ created[w] = {},
         p = "mkdir" => 0 < n /\ n <= dir[w] /\ n <= depth + 1 /\ \A l \in created[w] : l < n,
         p = "publish" => n <= depth /\ dir[w] <= depth,
         Moved(w, p, n, o), abandoned' = abandoned \cup BeingMade(w),
         UNCHANGED <<dirs, files, dir, created, syncFailed, stamp, mine, floor>>
  PROVE  IInv'
<1> USE DepthAssumption DEF Levels, Dirs, dirs, files, IInv
<1>1. /\ pc' \in [Writers -> PCs] /\ level' \in [Writers -> Dirs] /\ res' \in [Writers -> Outcomes]
      /\ pc'[w] = p /\ level'[w] = n /\ res'[w] = o
      /\ \A v \in Writers \ {w} : pc'[v] = pc[v] /\ level'[v] = level[v] /\ res'[v] = res[v]
  BY DEF Moved, TypeOK, PCs, Outcomes
<1>2. BeingMade(w) \subseteq Levels
  BY DEF BeingMade, LevelInv, TypeOK, Working
<1>3. BeingMade(w)' = {}
  BY <1>1 DEF BeingMade
<1>4. TypeOK'
  BY <1>1, <1>2 DEF TypeOK
<1>5. NothingBelowMissing'
  BY <1>1 DEF NothingBelowMissing
<1>6. LevelInv'
  BY <1>1 DEF LevelInv, Working
<1>7. CreatedInv'
  BY <1>1 DEF CreatedInv, Working
<1>8. FoundInv'
  BY DEF FoundInv
<1>9. CoverInv'
  BY <1>1 DEF CoverInv, BeingMade
<1>10. FileInv'
  BY <1>1 DEF FileInv
<1>11. OwnInv'
  <2> SUFFICES ASSUME NEW v \in Writers PROVE Own(v)'
    BY DEF OwnInv
  <2>1. CASE v # w
    <3>1. pc[v] = "persist" => level[v] \in created[v]
      BY DEF CreatedInv, Working
    <3> QED BY <1>1, <2>1, <3>1, OthersKeepOwn DEF OwnInv
  <2>2. CASE v = w /\ p = "idle"
    BY <1>1, <2>2 DEF Own, Promising
  <2>3. CASE v = w /\ p # "idle"
    <3>1. BeingMade(w) = {}
      BY <2>3 DEF BeingMade
    <3>2. Promising(w)' => Promising(w)
      BY <1>1, <2>3 DEF Promising
    <3> QED BY <1>1, <1>3, <2>3, <3>1, <3>2 DEF OwnInv, Own
  <2> QED BY <2>1, <2>2, <2>3
<1> QED BY <1>4, <1>5, <1>6, <1>7, <1>8, <1>9, <1>10, <1>11

LEMMA BeginPreserves ==
  ASSUME IInv, NEW w \in Writers, NEW c \in Calls, Begin(w, c)
  PROVE  IInv'
<1> USE DepthAssumption, StampAssumption DEF Levels, Dirs, dirs, files, IInv
<1>1. /\ pc[w] = "idle" /\ c.dir \in Dirs
      /\ \/ pc'[w] = "scan" /\ level'[w] = c.dir
         \/ pc'[w] = "publish" /\ level'[w] = 0 /\ c.dir = 0
         \/ pc'[w] = "mkdir" /\ level'[w] = 1 /\ c.dir > 0
      /\ dir'[w] = c.dir /\ created'[w] = {} /\ res'[w] = "none" /\ mine'[w] = 0
  BY DEF Begin, GoTo, Calls, TypeOK
<1>20. level' \in [Writers -> Dirs]
  <2>1. c.dir \in Nat /\ c.dir <= Depth /\ (c.dir # 0 => 1 \in Dirs) /\ 0 \in Dirs
    BY <1>1
  <2>2. PICK n \in {0, 1, c.dir} : level' = [level EXCEPT ![w] = n] /\ (n = 1 => c.dir # 0)
    <3>1. CASE c.absolute
      BY <3>1 DEF Begin
    <3>2. CASE ~c.absolute /\ c.dir = 0
      BY <3>2 DEF Begin
    <3>3. CASE ~c.absolute /\ c.dir # 0
      BY <3>3 DEF Begin
    <3> QED BY <3>1, <3>2, <3>3
  <2> QED BY <2>1, <2>2, SMTT(30) DEF TypeOK
<1>2. /\ pc' \in [Writers -> PCs] /\ dir' \in [Writers -> Dirs]
      /\ res' \in [Writers -> Outcomes] /\ created' \in [Writers -> SUBSET Levels]
      /\ mine' \in [Writers -> Nat]
  BY <1>1 DEF Begin, GoTo, TypeOK, PCs, Outcomes
<1>3. syncFailed' \in [Writers -> BOOLEAN]
  BY DEF Begin, TypeOK
<1>4. \A v \in Writers \ {w} :
        /\ pc'[v] = pc[v] /\ level'[v] = level[v] /\ dir'[v] = dir[v] /\ res'[v] = res[v]
        /\ created'[v] = created[v] /\ mine'[v] = mine[v] /\ syncFailed'[v] = syncFailed[v]
  BY DEF Begin, GoTo, TypeOK
<1>5. UNCHANGED <<depth, kept, mode, modeKept, file, fileKept, stamp, floor, abandoned>>
  BY DEF Begin
<1>6. TypeOK'
  BY <1>2, <1>20, <1>3, <1>5 DEF TypeOK
<1>7. NothingBelowMissing' /\ LevelInv'
  <2> SUFFICES ASSUME NEW v \in Writers
               PROVE  /\ pc'[v] \in {"prove", "persist", "publish", "dirsync"} => level'[v] <= depth'
                      /\ pc'[v] = "mkdir" => level'[v] <= depth' + 1
                      /\ pc'[v] \in {"publish", "dirsync"} => dir'[v] <= depth'
                      /\ pc'[v] = "scan" => level'[v] <= dir'[v]
                      /\ pc'[v] \in Working \cup {"mkdir"} => 0 < level'[v] /\ level'[v] <= dir'[v]
    BY DEF NothingBelowMissing, LevelInv
  <2>1. CASE v # w
    BY <1>4, <1>5, <2>1 DEF NothingBelowMissing, LevelInv, Working
  <2>2. CASE v = w
    <3>1. c.dir \in Nat /\ depth \in Nat
      BY <1>1, SMTT(30) DEF TypeOK
    <3> QED BY <1>1, <1>5, <2>2, <3>1 DEF Working
  <2> QED BY <2>1, <2>2
<1>8. CreatedInv'
  BY <1>1, <1>4, <1>5 DEF CreatedInv, Working
<1>9. FoundInv'
  BY <1>5 DEF FoundInv
<1>10. CoverInv'
  BY <1>1, <1>4, <1>5 DEF CoverInv, BeingMade
<1>11. FileInv'
  BY <1>1, <1>4, <1>5 DEF FileInv
<1>12. OwnInv'
  <2> SUFFICES ASSUME NEW v \in Writers PROVE Own(v)'
    BY DEF OwnInv
  <2>1. CASE v # w
    <3>1. pc[v] = "persist" => level[v] \in created[v]
      BY DEF CreatedInv, Working
    <3> QED BY <1>4, <1>5, <2>1, <3>1, OthersKeepOwn DEF OwnInv
  <2>2. CASE v = w
    BY <1>1, <2>2 DEF Own
  <2> QED BY <2>1, <2>2
<1> QED BY <1>6, <1>7, <1>8, <1>9, <1>10, <1>11, <1>12

(* What After says, for a level on the way. *)
LEMMA AfterMoves ==
  ASSUME TypeOK, NEW w \in Writers, NEW l \in Dirs, l <= dir[w], After(w, l)
  PROVE  \/ l < dir[w] /\ pc' = [pc EXCEPT ![w] = "mkdir"] /\ level' = [level EXCEPT ![w] = l + 1]
         \/ l = dir[w] /\ pc' = [pc EXCEPT ![w] = "publish"] /\ level' = [level EXCEPT ![w] = l]
<1>1. l \in Nat /\ dir[w] \in Nat /\ l <= dir[w]
  BY DepthAssumption DEF TypeOK, Dirs
<1>2. CASE l < dir[w]
  BY <1>2 DEF After, GoTo
<1>3. CASE l = dir[w]
  <2>1. ~(l < dir[w])
    BY <1>1, <1>3
  <2> QED BY <1>3, <2>1 DEF After, GoTo
<1> QED BY <1>1, <1>2, <1>3

(* Returning, and staying where one is, seen as moves. *)
LEMMA UnmovedIsMoved ==
  ASSUME TypeOK, NEW w \in Writers
  PROVE  /\ UNCHANGED res => res' = [res EXCEPT ![w] = res[w]]
         /\ UNCHANGED level => level' = [level EXCEPT ![w] = level[w]]
         /\ UNCHANGED pc => pc' = [pc EXCEPT ![w] = pc[w]]
BY DEF TypeOK

LEMMA ScanPreserves ==
  ASSUME IInv, NEW w \in Writers, Scan(w)
  PROVE  IInv'
<1>1. /\ pc[w] = "scan" /\ level[w] \in Dirs /\ level[w] <= dir[w] /\ created[w] = {}
      /\ dir[w] \in Dirs /\ depth \in Dirs /\ res[w] \in Outcomes
  BY DEF Scan, IInv, TypeOK, LevelInv, CreatedInv
<1>2. /\ UNCHANGED <<dirs, files, dir, created, syncFailed, stamp, mine, floor>>
      /\ abandoned' = abandoned \cup BeingMade(w)
  BY <1>1 DEF Scan, ghost, BeingMade
<1>3. CASE level[w] <= depth /\ After(w, level[w]) /\ UNCHANGED res
  <2>1. CASE pc' = [pc EXCEPT ![w] = "mkdir"] /\ level' = [level EXCEPT ![w] = level[w] + 1]
             /\ level[w] < dir[w]
    <3>1. level[w] + 1 \in Dirs /\ 0 < level[w] + 1 /\ level[w] + 1 <= dir[w]
          /\ level[w] + 1 <= depth + 1
      BY <1>1, <1>3, <2>1, DepthAssumption DEF Dirs
    <3>2. Moved(w, "mkdir", level[w] + 1, res[w])
      BY <1>3, <2>1, UnmovedIsMoved DEF IInv, Moved
    <3> QED BY <1>1, <1>2, <3>1, <3>2, MoveKeeps
  <2>2. CASE pc' = [pc EXCEPT ![w] = "publish"] /\ level' = [level EXCEPT ![w] = level[w]]
             /\ level[w] = dir[w]
    <3>1. Moved(w, "publish", level[w], res[w])
      BY <1>3, <2>2, UnmovedIsMoved DEF IInv, Moved
    <3> QED BY <1>1, <1>2, <1>3, <2>2, <3>1, MoveKeeps
  <2> QED BY <1>1, <1>3, <2>1, <2>2, AfterMoves DEF IInv
<1>4. CASE level[w] > depth /\ level' = [level EXCEPT ![w] = @ - 1] /\ UNCHANGED <<pc, res>>
  <2>1. level[w] - 1 \in Dirs /\ level[w] - 1 <= dir[w]
    BY <1>1, <1>4, DepthAssumption DEF Dirs
  <2>2. Moved(w, "scan", level[w] - 1, res[w])
    BY <1>1, <1>4, UnmovedIsMoved DEF IInv, Moved
  <2> QED BY <1>1, <1>2, <2>1, <2>2, MoveKeeps
<1>5. CASE Return(w, "failed") /\ UNCHANGED level
  <2>1. Moved(w, "idle", level[w], "failed")
    BY <1>5, UnmovedIsMoved DEF IInv, Moved, Return, GoTo
  <2> QED BY <1>1, <1>2, <2>1, MoveKeeps DEF Outcomes
<1> QED BY <1>3, <1>4, <1>5 DEF Scan

LEMMA KillPreserves ==
  ASSUME IInv, NEW w \in Writers, Kill(w)
  PROVE  IInv'
<1>1. Moved(w, "idle", level[w], "none")
  BY UnmovedIsMoved DEF Kill, IInv, Moved, Return, GoTo
<1> QED BY <1>1, MoveKeeps DEF Kill, IInv, TypeOK, Outcomes

LEMMA MkdirPreserves ==
  ASSUME IInv, NEW w \in Writers, Mkdir(w)
  PROVE  IInv'
<1> DEFINE l == level[w]
<1>1. /\ pc[w] = "mkdir" /\ l \in Dirs /\ 0 < l /\ l <= dir[w] /\ l <= depth + 1
      /\ dir[w] \in Dirs /\ depth \in Dirs /\ res[w] \in Outcomes
      /\ \A k \in created[w] : k < l
  BY DEF Mkdir, IInv, TypeOK, LevelInv, CreatedInv, NothingBelowMissing, Working
<1>2. UNCHANGED <<files, dir, syncFailed, stamp, mine, floor, abandoned>>
  BY DEF Mkdir, ghost
<1>3. abandoned' = abandoned \cup BeingMade(w)
  BY <1>1, <1>2 DEF BeingMade
<1>4. CASE l <= depth /\ After(w, l) /\ UNCHANGED <<dirs, created, res>>
  <2>1. CASE pc' = [pc EXCEPT ![w] = "mkdir"] /\ level' = [level EXCEPT ![w] = l + 1] /\ l < dir[w]
    <3>1. l + 1 \in Dirs /\ 0 < l + 1 /\ l + 1 <= dir[w] /\ l + 1 <= depth + 1
      BY <1>1, <1>4, <2>1, DepthAssumption DEF Dirs
    <3>3. Moved(w, "mkdir", l + 1, res[w])
      BY <1>4, <2>1, UnmovedIsMoved DEF IInv, Moved
    <3>2. \A k \in created[w] : k < l + 1
      BY <1>1 DEF IInv, TypeOK, Levels, Dirs
    <3> QED BY <1>1, <1>2, <1>3, <1>4, <3>1, <3>2, <3>3, MoveKeeps
  <2>2. CASE pc' = [pc EXCEPT ![w] = "publish"] /\ level' = [level EXCEPT ![w] = l] /\ l = dir[w]
    <3>1. Moved(w, "publish", l, res[w])
      BY <1>4, <2>2, UnmovedIsMoved DEF IInv, Moved
    <3> QED BY <1>1, <1>2, <1>3, <1>4, <2>2, <3>1, MoveKeeps
  <2> QED BY <1>1, <1>4, <2>1, <2>2, AfterMoves DEF IInv
<1>5. CASE Return(w, "failed") /\ UNCHANGED <<dirs, created, level>>
  <2>1. Moved(w, "idle", l, "failed")
    BY <1>5, UnmovedIsMoved DEF IInv, Moved, Return, GoTo
  <2> QED BY <1>1, <1>2, <1>3, <1>5, <2>1, MoveKeeps DEF Outcomes
<1>6. CASE /\ l = depth + 1 /\ depth' = l
           /\ \E m \in {"wanted", "other"} : mode' = [mode EXCEPT ![l] = m]
           /\ modeKept' = [modeKept EXCEPT ![l] = FALSE]
           /\ created' = [created EXCEPT ![w] = @ \cup {l}]
           /\ pc' = [pc EXCEPT ![w] = "prove"]
           /\ UNCHANGED <<kept, level, res>>
  <2> USE DepthAssumption DEF Levels, Dirs, files, IInv
  <2>1. l \in Levels
    BY <1>1
  <2>2. /\ pc' \in [Writers -> PCs] /\ pc'[w] = "prove"
        /\ \A v \in Writers \ {w} : pc'[v] = pc[v] /\ created'[v] = created[v]
        /\ created'[w] = created[w] \cup {l} /\ created' \in [Writers -> SUBSET Levels]
    BY <1>6, <2>1 DEF TypeOK, PCs
  <2>3. /\ mode' \in [Levels -> {"found", "wanted", "other"}] /\ mode'[l] # "found"
        /\ \A k \in Levels \ {l} : mode'[k] = mode[k]
    BY <1>6, <2>1 DEF TypeOK
  <2>4. /\ modeKept' \in [Levels -> BOOLEAN]
        /\ \A k \in Levels \ {l} : modeKept'[k] = modeKept[k]
    BY <1>6, <2>1 DEF TypeOK
  <2>5. \A v \in Writers : \A k \in created[v] : k \in Levels /\ k <= depth /\ k # l
    BY <1>6 DEF CreatedInv, TypeOK
  <2>6. TypeOK'
    BY <1>1, <1>2, <1>6, <2>2, <2>3, <2>4 DEF TypeOK
  <2>7. NothingBelowMissing' /\ LevelInv'
    <3> SUFFICES ASSUME NEW v \in Writers
                 PROVE  /\ pc'[v] \in {"prove", "persist", "publish", "dirsync"} => level'[v] <= depth'
                        /\ pc'[v] = "mkdir" => level'[v] <= depth' + 1
                        /\ pc'[v] \in {"publish", "dirsync"} => dir'[v] <= depth'
                        /\ pc'[v] = "scan" => level'[v] <= dir'[v]
                        /\ pc'[v] \in Working \cup {"mkdir"} => 0 < level'[v] /\ level'[v] <= dir'[v]
      BY DEF NothingBelowMissing, LevelInv
    <3>1. CASE v # w
      <4>1. level[v] \in Nat /\ dir[v] \in Nat /\ depth \in Nat
        BY DEF TypeOK
      <4> QED BY <1>2, <1>6, <2>2, <3>1, <4>1 DEF NothingBelowMissing, LevelInv, Working
    <3>2. CASE v = w
      BY <1>1, <1>2, <1>6, <2>2, <3>2 DEF Working
    <3> QED BY <3>1, <3>2
  <2>8. CreatedInv'
    <3>1. \A v \in Writers : \A k \in created'[v] : k <= depth' /\ mode'[k] # "found"
      <4>1. l \in Nat /\ depth \in Nat /\ depth' = l /\ depth <= l
        BY <1>1, <1>6
      <4>2. \A v \in Writers : \A k \in created[v] : k <= depth' /\ mode'[k] # "found"
        BY <1>6, <2>3, <2>5, <4>1 DEF CreatedInv
      <4>3. l <= depth' /\ mode'[l] # "found"
        BY <2>3, <4>1
      <4> QED BY <2>2, <4>2, <4>3
    <3>2. \A u, v \in Writers : u # v => created'[u] \cap created'[v] = {}
      BY <2>2, <2>5 DEF CreatedInv
    <3>3. \A v \in Writers :
          /\ pc'[v] = "scan" => created'[v] = {}
          /\ pc'[v] = "mkdir" => \A k \in created'[v] : k < level'[v]
          /\ pc'[v] \in Working => level'[v] \in created'[v] /\ \A k \in created'[v] : k <= level'[v]
      <4> SUFFICES ASSUME NEW v \in Writers
                   PROVE  /\ pc'[v] = "scan" => created'[v] = {}
                          /\ pc'[v] = "mkdir" => \A k \in created'[v] : k < level'[v]
                          /\ pc'[v] \in Working =>
                               level'[v] \in created'[v] /\ \A k \in created'[v] : k <= level'[v]
        OBVIOUS
      <4>1. CASE v # w
        BY <1>6, <2>2, <4>1 DEF CreatedInv
      <4>2. CASE v = w
        <5>1. \A k \in created'[w] : k <= l
          BY <1>1, <2>2, <2>5
        <5> QED BY <1>6, <2>2, <4>2, <5>1 DEF Working
      <4> QED BY <4>1, <4>2
    <3> QED BY <3>1, <3>2, <3>3 DEF CreatedInv
  <2>9. FoundInv'
    BY <2>3, <2>4 DEF FoundInv
  <2>10. CoverInv'
    BY <1>1, <1>2, <1>6, <2>2 DEF CoverInv, BeingMade
  <2>11. FileInv'
    <3>1. depth \in Nat /\ depth' = depth + 1
      BY <1>6 DEF TypeOK
    <3>2. \A d \in Dirs : d <= depth => d <= depth'
      BY <3>1
    <3>3. \A v \in Writers : pc'[v] = "dirsync" => pc[v] = "dirsync"
      BY <2>2
    <3> QED BY <1>2, <3>2, <3>3 DEF FileInv
  <2>12. OwnInv'
    <3> SUFFICES ASSUME NEW v \in Writers PROVE Own(v)'
      BY DEF OwnInv
    <3>1. CASE v # w
      <4>1. pc[v] = "persist" => level[v] \in created[v]
        BY DEF CreatedInv, Working
      <4>2. \A k \in created[v] : mode'[k] = mode[k] /\ (modeKept[k] => modeKept'[k])
        BY <2>3, <2>4, <2>5
      <4>3. kept' = kept /\ level'[v] = level[v] /\ dir'[v] = dir[v] /\ res'[v] = res[v]
            /\ syncFailed'[v] = syncFailed[v] /\ pc'[v] = pc[v] /\ created'[v] = created[v]
        BY <1>2, <1>6, <2>2, <3>1
      <4> QED BY <4>1, <4>2, <4>3, OthersKeepOwn DEF OwnInv
    <3>2. CASE v = w
      <4>1. BeingMade(w)' = {l} /\ BeingMade(w) = {}
        BY <1>1, <1>6, <2>2 DEF BeingMade
      <4>2. Promising(w)' => Promising(w)
        BY <1>1, <1>2, <2>2 DEF Promising
      <4>3. Promising(w) => \A k \in created[w] : k \in kept /\ mode[k] = "wanted"
                                /\ (k + 1 \in created[w] => modeKept[k])
        BY <4>1 DEF OwnInv, Own
      <4>4. Promising(w) => \A k \in created'[w] : k # l =>
                k \in kept' /\ mode'[k] = "wanted"
                /\ (k + 1 \in created'[w] /\ k + 1 # l => modeKept'[k])
        BY <1>6, <2>2, <2>3, <2>4, <2>5, <4>3
      <4>5. l + 1 \notin created'[w]
        BY <1>1, <1>6, <2>2, <2>5
      <4> QED BY <2>2, <3>2, <4>1, <4>2, <4>4, <4>5 DEF Own
    <3> QED BY <3>1, <3>2
  <2> QED BY <2>6, <2>7, <2>8, <2>9, <2>10, <2>11, <2>12
<1> QED BY <1>4, <1>5, <1>6 DEF Mkdir, GoTo

LEMMA ProveModePreserves ==
  ASSUME IInv, NEW w \in Writers, ProveMode(w)
  PROVE  IInv'
<1> USE DepthAssumption, StampAssumption DEF Levels, Dirs, IInv
<1> DEFINE l == level[w]
<1>1. /\ pc[w] = "prove" /\ l \in Levels /\ l <= dir[w] /\ l <= depth /\ dir[w] \in Dirs
      /\ l \in created[w] /\ \A k \in created[w] : k <= l
  BY DEF ProveMode, TypeOK, LevelInv, CreatedInv, NothingBelowMissing, Working
<1>2. UNCHANGED <<depth, kept, files, dir, level, created, syncFailed, stamp, mine, floor>>
  BY DEF ProveMode
<1>3. /\ mode' \in [Levels -> {"found", "wanted", "other"}] /\ mode'[l] # "found"
      /\ \A k \in Levels \ {l} : mode'[k] = mode[k]
  BY <1>1 DEF ProveMode, TypeOK
<1>4. /\ modeKept' \in [Levels -> BOOLEAN]
      /\ \A k \in Levels \ {l} : modeKept'[k] = modeKept[k]
  BY <1>1 DEF ProveMode, TypeOK
<1>5. \/ /\ mode'[l] = "wanted" /\ pc' = [pc EXCEPT ![w] = "persist"]
         /\ UNCHANGED <<res, abandoned>>
      \/ /\ pc' = [pc EXCEPT ![w] = "idle"] /\ res' = [res EXCEPT ![w] = "failed"]
         /\ abandoned' = abandoned \cup {l}
  BY <1>1 DEF ProveMode, GoTo, Return, TypeOK
<1>6. /\ pc' \in [Writers -> PCs] /\ res' \in [Writers -> Outcomes]
      /\ \A v \in Writers \ {w} : pc'[v] = pc[v] /\ res'[v] = res[v]
      /\ \/ pc'[w] = "persist" /\ mode'[l] = "wanted" /\ abandoned' = abandoned
         \/ pc'[w] = "idle" /\ res'[w] = "failed" /\ abandoned' = abandoned \cup {l}
  <2>1. CASE /\ mode'[l] = "wanted" /\ pc' = [pc EXCEPT ![w] = "persist"]
             /\ UNCHANGED <<res, abandoned>>
    BY <2>1 DEF TypeOK, PCs
  <2>2. CASE /\ pc' = [pc EXCEPT ![w] = "idle"] /\ res' = [res EXCEPT ![w] = "failed"]
             /\ abandoned' = abandoned \cup {l}
    BY <2>2 DEF TypeOK, PCs, Outcomes
  <2> QED BY <1>5, <2>1, <2>2
<1>7. TypeOK'
  BY <1>1, <1>2, <1>3, <1>4, <1>6 DEF TypeOK, files
<1>8. NothingBelowMissing' /\ LevelInv'
  BY <1>1, <1>2, <1>6 DEF NothingBelowMissing, LevelInv, Working
<1>9. CreatedInv'
  <2>1. \A v \in Writers : \A k \in created'[v] : k <= depth' /\ mode'[k] # "found"
    BY <1>2, <1>3 DEF CreatedInv, TypeOK
  <2> QED BY <1>1, <1>2, <1>6, <2>1 DEF CreatedInv, Working
<1>10. FoundInv'
  BY <1>3, <1>4 DEF FoundInv
<1>11. CoverInv'
  BY <1>1, <1>2, <1>6 DEF CoverInv, BeingMade
<1>12. FileInv'
  BY <1>2, <1>6 DEF FileInv, files
<1>13. OwnInv'
  <2> SUFFICES ASSUME NEW v \in Writers PROVE Own(v)'
    BY DEF OwnInv
  <2>1. CASE v # w
    <3>1. pc[v] = "persist" => level[v] \in created[v]
      BY DEF CreatedInv, Working
    <3>2. \A k \in created[v] : mode'[k] = mode[k] /\ (modeKept[k] => modeKept'[k])
      <4>1. created[v] \subseteq Levels \ {l}
        BY <1>1, <2>1 DEF CreatedInv, TypeOK
      <4>2. \A k \in created[v] : modeKept'[k] = modeKept[k]
        BY <1>4, <4>1, Zenon
      <4> QED BY <1>3, <4>1, <4>2
    <3>3. kept \subseteq kept' /\ level'[v] = level[v] /\ dir'[v] = dir[v] /\ res'[v] = res[v]
          /\ syncFailed'[v] = syncFailed[v] /\ pc'[v] = pc[v] /\ created'[v] = created[v]
      BY <1>2, <1>6, <2>1
    <3> QED BY <3>1, <3>2, <3>3, OthersKeepOwn DEF OwnInv
  <2>2. CASE v = w
    <3>1. CASE pc'[w] = "idle"
      BY <1>6, <2>2, <3>1 DEF Own, Promising
    <3>2. CASE pc'[w] = "persist"
      <4>1. BeingMade(w) = {l} /\ BeingMade(w)' = {l}
        BY <1>1, <1>2, <3>2 DEF BeingMade
      <4>2. Promising(w)' => Promising(w)
        BY <1>1, <1>2, <3>2 DEF Promising
      <4>3. mode'[l] = "wanted"
        BY <1>6, <3>2
      <4>4. \A k \in created[w] : k # l => mode'[k] = mode[k] /\ (modeKept[k] => modeKept'[k])
        BY <1>3, <1>4 DEF TypeOK
      <4>5. l + 1 \notin created[w]
        BY <1>1
      <4>6. Promising(w) => \A k \in created[w] :
              /\ k # l => k \in kept /\ mode[k] = "wanted"
              /\ k + 1 \in created[w] \ {l} => modeKept[k]
        BY <4>1 DEF OwnInv, Own
      <4> QED BY <1>2, <2>2, <3>2, <4>1, <4>2, <4>3, <4>4, <4>5, <4>6 DEF Own
    <3> QED BY <1>6, <3>1, <3>2
  <2> QED BY <2>1, <2>2
<1> QED BY <1>7, <1>8, <1>9, <1>10, <1>11, <1>12, <1>13

(* What an fsync of directory d does. *)
LEMMA FsyncKeeps ==
  ASSUME IInv, NEW d \in Dirs, Fsync(d)
  PROVE  /\ kept \subseteq kept' /\ kept' \subseteq Levels
         /\ d + 1 \in 1..depth => d + 1 \in kept'
         /\ modeKept' \in [Levels -> BOOLEAN]
         /\ d \in Levels => modeKept'[d]
         /\ \A k \in Levels : modeKept[k] => modeKept'[k]
         /\ fileKept' \in [Dirs -> SUBSET Nat]
         /\ fileKept'[d] = {file[d]}
         /\ \A e \in Dirs \ {d} : fileKept'[e] = fileKept[e]
<1> USE DepthAssumption DEF Levels, Dirs
<1>1. kept \subseteq kept' /\ kept' \subseteq Levels /\ (d + 1 \in 1..depth => d + 1 \in kept')
  BY DEF Fsync, IInv, TypeOK
<1>2. /\ fileKept' \in [Dirs -> SUBSET Nat] /\ fileKept'[d] = {file[d]}
      /\ \A e \in Dirs \ {d} : fileKept'[e] = fileKept[e]
  BY DEF Fsync, IInv, TypeOK
<1>3. /\ modeKept' \in [Levels -> BOOLEAN]
      /\ d \in Levels => modeKept'[d]
      /\ \A k \in Levels : modeKept[k] => modeKept'[k]
  <2>1. CASE d = 0
    BY <2>1 DEF Fsync, IInv, TypeOK
  <2>2. CASE d # 0
    BY <2>2 DEF Fsync, IInv, TypeOK
  <2> QED BY <2>1, <2>2
<1> QED BY <1>1, <1>2, <1>3

LEMMA PersistLevelPreserves ==
  ASSUME IInv, NEW w \in Writers, PersistLevel(w)
  PROVE  IInv'
<1> USE DepthAssumption, StampAssumption DEF Levels, Dirs, IInv
<1> DEFINE l == level[w]
<1>1. /\ pc[w] = "persist" /\ l \in Levels /\ l <= dir[w] /\ l <= depth /\ dir[w] \in Dirs
      /\ l \in created[w] /\ (\A k \in created[w] : k <= l) /\ mode[l] = "wanted"
      /\ l - 1 \in Dirs /\ depth \in Dirs /\ (l - 1) + 1 = l /\ l \in 1..depth
  <2>1. pc[w] = "persist" /\ level[w] \in Dirs /\ dir[w] \in Dirs /\ depth \in Dirs
    BY DEF PersistLevel, TypeOK
  <2>2. 0 < l /\ l <= dir[w] /\ l <= depth
    BY <2>1 DEF LevelInv, NothingBelowMissing, Working
  <2>3. l \in created[w] /\ (\A k \in created[w] : k <= l)
    BY <2>1 DEF CreatedInv, Working
  <2>4. mode[l] = "wanted"
    BY <2>1 DEF OwnInv, Own
  <2>5. l \in Levels /\ l - 1 \in Dirs /\ (l - 1) + 1 = l /\ l \in 1..depth
    BY <2>1, <2>2
  <2> QED BY <2>1, <2>2, <2>3, <2>4, <2>5
<1>2. UNCHANGED <<depth, mode, file, dir, created, res, stamp, mine, floor>>
  BY DEF PersistLevel
<1>3. /\ pc' \in [Writers -> PCs] /\ level' \in [Writers -> Dirs]
      /\ \A v \in Writers \ {w} : pc'[v] = pc[v] /\ level'[v] = level[v]
      /\ \/ pc'[w] = "mkdir" /\ level'[w] = l + 1 /\ l < dir[w]
         \/ pc'[w] = "publish" /\ level'[w] = l /\ l = dir[w]
  <2>1. \/ l < dir[w] /\ pc' = [pc EXCEPT ![w] = "mkdir"] /\ level' = [level EXCEPT ![w] = l + 1]
        \/ l = dir[w] /\ pc' = [pc EXCEPT ![w] = "publish"] /\ level' = [level EXCEPT ![w] = l]
    BY <1>1, AfterMoves DEF PersistLevel
  <2>2. l < dir[w] => l + 1 \in Dirs
    BY <1>1
  <2>3. CASE l < dir[w] /\ pc' = [pc EXCEPT ![w] = "mkdir"] /\ level' = [level EXCEPT ![w] = l + 1]
    BY <2>2, <2>3 DEF TypeOK, PCs
  <2>4. CASE l = dir[w] /\ pc' = [pc EXCEPT ![w] = "publish"] /\ level' = [level EXCEPT ![w] = l]
    BY <1>1, <2>4 DEF TypeOK, PCs
  <2> QED BY <2>1, <2>3, <2>4
<1>4. /\ kept \subseteq kept' /\ kept' \subseteq Levels
      /\ modeKept' \in [Levels -> BOOLEAN]
      /\ \A k \in Levels : modeKept[k] => modeKept'[k]
      /\ fileKept' \in [Dirs -> SUBSET Nat]
      /\ \A d \in Dirs : fileKept'[d] = fileKept[d] \/ fileKept'[d] = {file[d]}
      /\ abandoned \subseteq abandoned' /\ abandoned' \subseteq Levels
      /\ l \in kept' \cup abandoned'
  <2>1. CASE Fsync(l - 1) /\ UNCHANGED <<syncFailed, abandoned>>
    <3>1. /\ kept \subseteq kept' /\ kept' \subseteq Levels
          /\ (l - 1) + 1 \in 1..depth => (l - 1) + 1 \in kept'
          /\ modeKept' \in [Levels -> BOOLEAN]
          /\ \A k \in Levels : modeKept[k] => modeKept'[k]
      BY <1>1, <2>1, FsyncKeeps, Zenon
    <3>4. l \in kept'
      BY <1>1, <3>1
    <3>2. /\ fileKept' \in [Dirs -> SUBSET Nat]
          /\ fileKept'[l - 1] = {file[l - 1]}
          /\ \A e \in Dirs \ {l - 1} : fileKept'[e] = fileKept[e]
      BY <1>1, <2>1, FsyncKeeps, Zenon
    <3>3. \A d \in Dirs : fileKept'[d] = fileKept[d] \/ fileKept'[d] = {file[d]}
      BY <3>2
    <3> QED BY <2>1, <3>1, <3>2, <3>3, <3>4, Zenon DEF TypeOK
  <2>2. CASE /\ abandoned' = abandoned \cup {l}
             /\ UNCHANGED <<kept, modeKept, fileKept>>
    BY <1>1, <2>2 DEF TypeOK
  <2> QED BY <2>1, <2>2 DEF PersistLevel
<1>5. /\ syncFailed' \in [Writers -> BOOLEAN]
      /\ \A v \in Writers \ {w} : syncFailed'[v] = syncFailed[v]
  BY DEF PersistLevel, TypeOK
<1>6. ~syncFailed'[w] => /\ ~syncFailed[w] /\ l \in kept'
                         /\ l - 1 \in Levels => modeKept'[l - 1]
  <2>1. CASE Fsync(l - 1) /\ UNCHANGED <<syncFailed, abandoned>>
    BY <1>1, <2>1, FsyncKeeps
  <2>2. CASE syncFailed' = [syncFailed EXCEPT ![w] = TRUE]
    BY <2>2 DEF TypeOK
  <2> QED BY <2>1, <2>2 DEF PersistLevel
<1>7. TypeOK'
  BY <1>2, <1>3, <1>4, <1>5 DEF TypeOK
<1>8. NothingBelowMissing' /\ LevelInv'
  <2> SUFFICES ASSUME NEW v \in Writers
               PROVE  /\ pc'[v] \in {"prove", "persist", "publish", "dirsync"} => level'[v] <= depth'
                      /\ pc'[v] = "mkdir" => level'[v] <= depth' + 1
                      /\ pc'[v] \in {"publish", "dirsync"} => dir'[v] <= depth'
                      /\ pc'[v] = "scan" => level'[v] <= dir'[v]
                      /\ pc'[v] \in Working \cup {"mkdir"} => 0 < level'[v] /\ level'[v] <= dir'[v]
    BY DEF NothingBelowMissing, LevelInv
  <2>1. CASE v # w
    BY <1>2, <1>3, <2>1 DEF NothingBelowMissing, LevelInv
  <2>2. CASE v = w
    BY <1>1, <1>2, <1>3, <2>2 DEF Working
  <2> QED BY <2>1, <2>2
<1>9. CreatedInv'
  <2>1. \A k \in created[w] : k < l + 1
    BY <1>1 DEF TypeOK
  <2>2. \A v \in Writers :
          /\ pc'[v] = "scan" => created'[v] = {}
          /\ pc'[v] = "mkdir" => \A k \in created'[v] : k < level'[v]
          /\ pc'[v] \in Working => level'[v] \in created'[v] /\ \A k \in created'[v] : k <= level'[v]
    BY <1>2, <1>3, <2>1 DEF CreatedInv, Working
  <2> QED BY <1>2, <2>2 DEF CreatedInv
<1>10. FoundInv'
  BY <1>2, <1>4 DEF FoundInv
<1>11. CoverInv'
  BY <1>1, <1>2, <1>3, <1>4, SMTT(30) DEF CoverInv, BeingMade
<1>12. FileInv'
  <2>1. \A v \in Writers : pc'[v] = "dirsync" => pc[v] = "dirsync"
    BY <1>3
  <2> QED BY <1>2, <1>4, <2>1 DEF FileInv
<1>13. OwnInv'
  <2> SUFFICES ASSUME NEW v \in Writers PROVE Own(v)'
    BY DEF OwnInv
  <2>1. CASE v # w
    <3>1. pc[v] = "persist" => level[v] \in created[v]
      BY DEF CreatedInv, Working
    <3>2. \A k \in created[v] : mode'[k] = mode[k] /\ (modeKept[k] => modeKept'[k])
      BY <1>2, <1>4 DEF TypeOK
    <3>3. kept \subseteq kept' /\ level'[v] = level[v] /\ dir'[v] = dir[v] /\ res'[v] = res[v]
          /\ syncFailed'[v] = syncFailed[v] /\ pc'[v] = pc[v] /\ created'[v] = created[v]
      BY <1>2, <1>3, <1>4, <1>5, <2>1
    <3> QED BY <3>1, <3>2, <3>3, OthersKeepOwn DEF OwnInv
  <2>2. CASE v = w
    <3>1. BeingMade(w) = {l} /\ BeingMade(w)' = {} /\ pc'[w] # "idle" /\ pc'[w] # "persist"
      BY <1>1, <1>3 DEF BeingMade
    <3>2. ASSUME Promising(w)'
          PROVE  Promising(w) /\ l \in kept' /\ (l - 1 \in Levels => modeKept'[l - 1])
      BY <1>1, <1>6, <3>1, <3>2 DEF Promising
    <3>3. ASSUME Promising(w)', NEW k \in created[w]
          PROVE  /\ k \in kept' /\ mode'[k] = "wanted"
                 /\ k + 1 \in created[w] => modeKept'[k]
      <4>1. /\ k # l => k \in kept /\ mode[k] = "wanted"
            /\ k + 1 \in created[w] \ {l} => modeKept[k]
        BY <3>1, <3>2, <3>3 DEF OwnInv, Own
      <4>2. k \in kept' /\ mode'[k] = "wanted"
        BY <1>1, <1>2, <1>4, <3>2, <3>3, <4>1
      <4>3. k \in Levels
        BY DEF TypeOK
      <4>4. k + 1 = l => k = l - 1
        BY <1>1, <4>3
      <4>5. k + 1 \in created[w] => modeKept'[k]
        BY <1>4, <3>2, <3>3, <4>1, <4>3, <4>4
      <4> QED BY <4>2, <4>5
    <3> QED BY <1>2, <2>2, <3>1, <3>3 DEF Own
  <2> QED BY <2>1, <2>2
<1> QED BY <1>7, <1>8, <1>9, <1>10, <1>11, <1>12, <1>13

LEMMA PublishPreserves ==
  ASSUME IInv, NEW w \in Writers, Publish(w)
  PROVE  IInv'
<1> USE DepthAssumption, StampAssumption DEF Levels, Dirs, IInv
<1>1. /\ pc[w] = "publish" /\ dir[w] \in Dirs /\ dir[w] <= depth /\ level[w] \in Dirs
      /\ stamp \in Nat
  BY DEF Publish, TypeOK, NothingBelowMissing
<1>2. UNCHANGED <<dirs, dir, level, created, syncFailed, floor, abandoned>>
  BY DEF Publish
<1>3. CASE Return(w, "failed") /\ UNCHANGED <<files, stamp, mine>>
  <2>1. Moved(w, "idle", level[w], "failed")
    BY <1>2, <1>3, UnmovedIsMoved DEF Moved, Return, GoTo
  <2>2. abandoned' = abandoned \cup BeingMade(w)
    BY <1>1, <1>2 DEF BeingMade
  <2> QED BY <1>1, <1>2, <1>3, <2>1, <2>2, MoveKeeps DEF Outcomes
<1>4. CASE /\ file' = [file EXCEPT ![dir[w]] = stamp + 1]
           /\ fileKept' = [fileKept EXCEPT ![dir[w]] = @ \cup {stamp + 1}]
           /\ stamp' = stamp + 1
           /\ mine' = [mine EXCEPT ![w] = stamp + 1]
           /\ pc' = [pc EXCEPT ![w] = "dirsync"]
           /\ UNCHANGED res
  <2>1. /\ pc' \in [Writers -> PCs] /\ pc'[w] = "dirsync"
        /\ mine' \in [Writers -> Nat] /\ mine'[w] = stamp + 1
        /\ \A v \in Writers \ {w} : pc'[v] = pc[v] /\ mine'[v] = mine[v]
    BY <1>1, <1>4, SMTT(30) DEF TypeOK, PCs
  <2>2. /\ file' \in [Dirs -> Nat] /\ file'[dir[w]] = stamp + 1
        /\ \A d \in Dirs \ {dir[w]} : file'[d] = file[d]
    BY <1>1, <1>4 DEF TypeOK
  <2>3. /\ fileKept' \in [Dirs -> SUBSET Nat]
        /\ fileKept'[dir[w]] = fileKept[dir[w]] \cup {stamp + 1}
        /\ \A d \in Dirs \ {dir[w]} : fileKept'[d] = fileKept[d]
    BY <1>1, <1>4, SMTT(30) DEF TypeOK
  <2>4. UNCHANGED <<depth, kept, mode, modeKept>>
    BY <1>2 DEF dirs
  <2>5. TypeOK'
    BY <1>1, <1>2, <1>4, <2>1, <2>2, <2>3, <2>4 DEF TypeOK
  <2>6. NothingBelowMissing' /\ LevelInv'
    <3>1. level[w] <= depth
      BY <1>1 DEF NothingBelowMissing
    <3> QED BY <1>1, <1>2, <2>1, <2>4, <3>1 DEF NothingBelowMissing, LevelInv, Working
  <2>7. CreatedInv'
    BY <1>2, <2>1, <2>4 DEF CreatedInv, Working
  <2>8. FoundInv'
    BY <2>4 DEF FoundInv
  <2>9. CoverInv'
    BY <1>1, <1>2, <2>1, <2>4 DEF CoverInv, BeingMade
  <2>10. FileInv'
    <3>1. ASSUME NEW d \in Dirs
          PROVE  /\ file'[d] \in fileKept'[d] /\ file'[d] <= stamp'
                 /\ \A f \in fileKept'[d] : f >= floor'[d]
                 /\ floor'[d] > 0 => d <= depth'
      <4>1. /\ file[d] \in fileKept[d] /\ file[d] <= stamp
            /\ \A f \in fileKept[d] : f >= floor[d]
            /\ floor[d] > 0 => d <= depth
        BY DEF FileInv
      <4>2. file[d] \in Nat /\ floor[d] \in Nat /\ floor[d] <= stamp
        BY <1>1, <4>1, SMTT(30) DEF TypeOK
      <4>3. CASE d # dir[w]
        BY <1>1, <1>2, <1>4, <2>2, <2>3, <2>4, <4>1, <4>2, <4>3
      <4>4. CASE d = dir[w]
        <5>1. \A f \in fileKept'[d] : f \in fileKept[d] \/ f = stamp + 1
          BY <2>3, <4>4
        <5> QED BY <1>1, <1>2, <1>4, <2>2, <2>3, <2>4, <4>1, <4>2, <4>4, <5>1
      <4> QED BY <4>3, <4>4
    <3>2. ASSUME NEW v \in Writers, pc'[v] = "dirsync"
          PROVE  mine'[v] <= file'[dir'[v]]
      <4>1. dir'[v] = dir[v] /\ dir[v] \in Dirs
        BY <1>2 DEF TypeOK
      <4>2. CASE v = w
        BY <1>1, <2>1, <2>2, <4>1, <4>2
      <4>3. CASE v # w
        <5>1. mine[v] <= file[dir[v]] /\ file[dir[v]] <= stamp /\ file[dir[v]] \in Nat
          BY <2>1, <3>2, <4>1, <4>3 DEF FileInv, TypeOK
        <5>2. mine'[v] = mine[v] /\ mine[v] \in Nat
          BY <2>1, <4>3 DEF TypeOK
        <5>3. file'[dir[v]] = file[dir[v]] \/ file'[dir[v]] = stamp + 1
          BY <2>2, <4>1
        <5> QED BY <1>1, <4>1, <5>1, <5>2, <5>3
      <4> QED BY <4>2, <4>3
    <3> QED BY <3>1, <3>2 DEF FileInv
  <2>11. OwnInv'
    <3> SUFFICES ASSUME NEW v \in Writers PROVE Own(v)'
      BY DEF OwnInv
    <3>1. CASE v # w
      <4>1. pc[v] = "persist" => level[v] \in created[v]
        BY DEF CreatedInv, Working
      <4> QED BY <1>2, <1>4, <2>1, <2>4, <3>1, <4>1, OthersKeepOwn DEF OwnInv
    <3>2. CASE v = w
      <4>1. BeingMade(w) = {} /\ BeingMade(w)' = {}
        BY <1>1, <2>1 DEF BeingMade
      <4>2. Promising(w)' => Promising(w)
        BY <1>1, <1>2, <2>1 DEF Promising
      <4> QED BY <1>2, <2>1, <2>4, <3>2, <4>1, <4>2 DEF OwnInv, Own
    <3> QED BY <3>1, <3>2
  <2> QED BY <2>5, <2>6, <2>7, <2>8, <2>9, <2>10, <2>11
<1> QED BY <1>3, <1>4 DEF Publish, GoTo

LEMMA DirSyncPreserves ==
  ASSUME IInv, NEW w \in Writers, DirSync(w)
  PROVE  IInv'
<1> USE DepthAssumption, StampAssumption DEF Levels, Dirs, IInv
<1>1. /\ pc[w] = "dirsync" /\ dir[w] \in Dirs /\ dir[w] <= depth /\ level[w] \in Dirs
  BY DEF DirSync, TypeOK, NothingBelowMissing
<1>2. UNCHANGED <<depth, mode, file, dir, level, created, syncFailed, stamp, mine, abandoned>>
  BY DEF DirSync
<1>3. CASE Return(w, "published") /\ UNCHANGED <<kept, modeKept, fileKept, floor>>
  <2>1. Moved(w, "idle", level[w], "published")
    BY <1>2, <1>3, UnmovedIsMoved DEF Moved, Return, GoTo
  <2>2. abandoned' = abandoned \cup BeingMade(w)
    BY <1>1, <1>2 DEF BeingMade
  <2> QED BY <1>1, <1>2, <1>3, <2>1, <2>2, MoveKeeps DEF Outcomes, dirs, files
<1>4. CASE /\ Fsync(dir[w])
           /\ Return(w, IF syncFailed[w] THEN "published" ELSE "durable")
           /\ floor' = [floor EXCEPT ![dir[w]] =
                            IF ~syncFailed[w] /\ @ < mine[w] THEN mine[w] ELSE @]
  <2>1. /\ pc' \in [Writers -> PCs] /\ pc'[w] = "idle"
        /\ \A v \in Writers \ {w} : pc'[v] = pc[v]
    BY <1>4 DEF Return, GoTo, TypeOK, PCs
  <2>2. /\ res' \in [Writers -> Outcomes]
        /\ res'[w] = "durable" => ~syncFailed[w]
        /\ \A v \in Writers \ {w} : res'[v] = res[v]
    <3>1. PICK o \in Outcomes : res' = [res EXCEPT ![w] = o] /\ (o = "durable" => ~syncFailed[w])
      BY <1>4 DEF Return, Outcomes
    <3> QED BY <3>1 DEF TypeOK
  <2>3. /\ floor' \in [Dirs -> Nat]
        /\ floor'[dir[w]] = floor[dir[w]] \/ floor'[dir[w]] = mine[w]
        /\ \A d \in Dirs \ {dir[w]} : floor'[d] = floor[d]
    <3>1. PICK n \in {floor[dir[w]], mine[w]} : floor' = [floor EXCEPT ![dir[w]] = n]
      BY <1>4
    <3>2. n \in Nat
      BY <1>1 DEF TypeOK
    <3> QED BY <1>1, <3>1, <3>2 DEF TypeOK
  <2>4. kept \subseteq kept' /\ kept' \subseteq Levels
    BY <1>1, <1>4, FsyncKeeps, Zenon
  <2>5. /\ modeKept' \in [Levels -> BOOLEAN]
        /\ dir[w] \in Levels => modeKept'[dir[w]]
        /\ \A k \in Levels : modeKept[k] => modeKept'[k]
    BY <1>1, <1>4, FsyncKeeps, Zenon
  <2>6. /\ fileKept' \in [Dirs -> SUBSET Nat]
        /\ fileKept'[dir[w]] = {file[dir[w]]}
        /\ \A e \in Dirs \ {dir[w]} : fileKept'[e] = fileKept[e]
    BY <1>1, <1>4, FsyncKeeps, Zenon
  <2>7. TypeOK'
    BY <1>2, <2>1, <2>2, <2>3, <2>4, <2>5, <2>6 DEF TypeOK
  <2>8. NothingBelowMissing' /\ LevelInv'
    BY <1>2, <2>1 DEF NothingBelowMissing, LevelInv, Working
  <2>9. CreatedInv'
    BY <1>2, <2>1 DEF CreatedInv, Working
  <2>10. FoundInv'
    BY <1>2, <2>5 DEF FoundInv
  <2>11. CoverInv'
    BY <1>1, <1>2, <2>1, <2>4 DEF CoverInv, BeingMade
  <2>12. FileInv'
    <3>1. mine[w] <= file[dir[w]] /\ mine[w] \in Nat /\ file[dir[w]] \in Nat /\ depth \in Nat
      BY <1>1 DEF FileInv, TypeOK
    <3>2. ASSUME NEW d \in Dirs
          PROVE  /\ file'[d] \in fileKept'[d] /\ file'[d] <= stamp'
                 /\ \A f \in fileKept'[d] : f >= floor'[d]
                 /\ floor'[d] > 0 => d <= depth'
      <4>1. /\ file[d] \in fileKept[d] /\ file[d] <= stamp
            /\ \A f \in fileKept[d] : f >= floor[d]
            /\ floor[d] > 0 => d <= depth
        BY DEF FileInv
      <4>2. file[d] \in Nat /\ floor[d] \in Nat
        BY DEF TypeOK
      <4>3. CASE d # dir[w]
        BY <1>2, <2>3, <2>6, <4>1, <4>3
      <4>4. CASE d = dir[w]
        BY <1>1, <1>2, <2>3, <2>6, <3>1, <4>1, <4>2, <4>4
      <4> QED BY <4>3, <4>4
    <3>3. \A v \in Writers : pc'[v] = "dirsync" => mine'[v] <= file'[dir'[v]]
      BY <1>2, <2>1 DEF FileInv
    <3> QED BY <3>2, <3>3 DEF FileInv
  <2>13. OwnInv'
    <3> SUFFICES ASSUME NEW v \in Writers PROVE Own(v)'
      BY DEF OwnInv
    <3>1. CASE v # w
      <4>1. pc[v] = "persist" => level[v] \in created[v]
        BY DEF CreatedInv, Working
      <4>2. \A k \in created[v] : modeKept[k] => modeKept'[k]
        BY <2>5 DEF TypeOK
      <4> QED BY <1>2, <2>1, <2>2, <2>4, <3>1, <4>1, <4>2, OthersKeepOwn DEF OwnInv
    <3>2. CASE v = w
      <4>1. BeingMade(w) = {} /\ BeingMade(w)' = {}
        BY <1>1, <2>1 DEF BeingMade
      <4>2. Promising(w)' => Promising(w)
        BY <1>1, <2>1, <2>2 DEF Promising
      <4>3. created[w] \subseteq Levels
        BY DEF TypeOK
      <4>4. Promising(w) => \A k \in created[w] :
              /\ k \in kept /\ mode[k] = "wanted"
              /\ k + 1 \in created[w] => modeKept[k]
        BY <4>1 DEF OwnInv, Own
      <4>5. Promising(w)' => \A k \in created'[w] :
              /\ k \notin BeingMade(w)' => k \in kept' /\ mode'[k] = "wanted"
              /\ k + 1 \in created'[w] \ BeingMade(w)' => modeKept'[k]
        BY <1>2, <2>4, <2>5, <4>1, <4>2, <4>3, <4>4
      <4>6. dir'[w] \in created'[w] => modeKept'[dir'[w]]
        BY <1>2, <2>5, <4>3
      <4> QED BY <2>1, <3>2, <4>5, <4>6 DEF Own
    <3> QED BY <3>1, <3>2
  <2> QED BY <2>7, <2>8, <2>9, <2>10, <2>11, <2>12, <2>13
<1> QED BY <1>3, <1>4 DEF DirSync

LEMMA PowerLossPreserves ==
  ASSUME IInv, PowerLoss
  PROVE  IInv'
<1> USE DepthAssumption, StampAssumption DEF Levels, Dirs, IInv
<1>1. PICK left \in 0..depth, lost \in SUBSET {l \in Levels : ~modeKept[l]}, back \in [Dirs -> 0..stamp] :
        /\ \A d \in Dirs : back[d] \in IF d <= left THEN fileKept[d] ELSE {0}
        /\ depth' = left
        /\ kept' = 1..left
        /\ mode' = [l \in Levels |-> IF l > left THEN "found"
                                     ELSE IF l \in lost THEN "other" ELSE mode[l]]
        /\ modeKept' = [l \in Levels |-> TRUE]
        /\ file' = back
        /\ fileKept' = [d \in Dirs |-> {back[d]}]
        /\ floor' = [d \in Dirs |-> IF d <= left THEN floor[d] ELSE 0]
  BY DEF PowerLoss
<1>2. /\ pc' = [w \in Writers |-> "idle"]
      /\ res' = [w \in Writers |-> "none"]
      /\ created' = [w \in Writers |-> {}]
      /\ abandoned' = {}
      /\ UNCHANGED <<dir, level, syncFailed, stamp, mine>>
  BY DEF PowerLoss
<1>3. depth \in Nat /\ depth <= Depth /\ left \in Nat /\ left <= depth /\ left \in Dirs
      /\ depth' = left
  BY <1>1 DEF TypeOK
<1>4. \A v \in Writers : pc'[v] = "idle" /\ res'[v] = "none" /\ created'[v] = {}
  BY <1>2
<1>5. TypeOK'
  <2>1. depth' \in Dirs /\ kept' \subseteq Levels
    BY <1>1, <1>3
  <2>2. mode' \in [Levels -> {"found", "wanted", "other"}]
    BY <1>1 DEF TypeOK
  <2>3. modeKept' \in [Levels -> BOOLEAN]
    BY <1>1
  <2>4. file' \in [Dirs -> Nat] /\ fileKept' \in [Dirs -> SUBSET Nat]
    BY <1>1 DEF TypeOK
  <2>5. floor' \in [Dirs -> Nat]
    BY <1>1 DEF TypeOK
  <2>6. /\ pc' \in [Writers -> PCs] /\ res' \in [Writers -> Outcomes]
        /\ created' \in [Writers -> SUBSET Levels] /\ abandoned' \subseteq Levels
    BY <1>2 DEF PCs, Outcomes
  <2> QED BY <1>2, <2>1, <2>2, <2>3, <2>4, <2>5, <2>6 DEF TypeOK
<1>6. NothingBelowMissing' /\ LevelInv' /\ CreatedInv'
  BY <1>4 DEF NothingBelowMissing, LevelInv, CreatedInv, Working
<1>7. FoundInv'
  BY <1>1 DEF FoundInv
<1>8. CoverInv'
  BY <1>1 DEF CoverInv
<1>9. FileInv'
  <2>1. ASSUME NEW d \in Dirs
        PROVE  /\ file'[d] \in fileKept'[d] /\ file'[d] <= stamp'
               /\ \A f \in fileKept'[d] : f >= floor'[d]
               /\ floor'[d] > 0 => d <= depth'
    <3>1. file'[d] = back[d] /\ fileKept'[d] = {back[d]} /\ back[d] \in 0..stamp /\ stamp' = stamp
      BY <1>1, <1>2
    <3>2. CASE d <= left
      <4>1. floor'[d] = floor[d] /\ back[d] >= floor[d]
        BY <1>1, <3>2 DEF FileInv
      <4> QED BY <1>3, <3>1, <3>2, <4>1
    <3>3. CASE ~(d <= left)
      <4>1. floor'[d] = 0
        BY <1>1, <3>3
      <4> QED BY <3>1, <4>1
    <3> QED BY <3>2, <3>3
  <2> QED BY <1>4, <2>1 DEF FileInv
<1>10. OwnInv'
  BY <1>4 DEF OwnInv, Own, Promising
<1> QED BY <1>5, <1>6, <1>7, <1>8, <1>9, <1>10

LEMMA StutterPreserves ==
  ASSUME IInv, UNCHANGED vars
  PROVE  IInv'
<1>1. /\ UNCHANGED <<depth, kept, mode, modeKept, file, fileKept, stamp, mine, floor, abandoned>>
      /\ UNCHANGED <<pc, dir, level, created, syncFailed, res>>
  BY DEF vars, dirs, files, ctl, ghost
<1>2. TypeOK' /\ NothingBelowMissing' /\ LevelInv'
  BY <1>1 DEF IInv, TypeOK, NothingBelowMissing, LevelInv
<1>3. CreatedInv' /\ FoundInv'
  BY <1>1 DEF IInv, CreatedInv, FoundInv
<1>4. CoverInv' /\ FileInv'
  BY <1>1 DEF IInv, CoverInv, BeingMade, FileInv
<1>5. OwnInv'
  BY <1>1 DEF IInv, OwnInv, Own, Promising, BeingMade
<1> QED BY <1>2, <1>3, <1>4, <1>5 DEF IInv

LEMMA Inductive == Spec => []IInv
<1>1. IInv /\ Next => IInv'
  BY BeginPreserves, ScanPreserves, MkdirPreserves, ProveModePreserves, PersistLevelPreserves,
     PublishPreserves, DirSyncPreserves, KillPreserves, PowerLossPreserves DEF Next, Step
<1>2. IInv /\ [Next]_vars => IInv'
  BY <1>1, StutterPreserves
<1> QED BY InitEstablishes, <1>2, PTL DEF Spec

-----------------------------------------------------------------------------
(* Every variable keeps its type: no call looks above or below the chain.   *)
THEOREM TypeCorrect == Spec => []TypeOK
<1>1. IInv => TypeOK
  BY DEF IInv
<1> QED BY <1>1, Inductive, PTL

(* deepestExistingDir and mkdirLevelInRoot: whoever creates the levels, a   *)
(* call creates, proves and publishes where the way there exists.           *)
THEOREM NothingIsMissing == Spec => []NothingBelowMissing
<1>1. IInv => NothingBelowMissing
  BY DEF IInv
<1> QED BY <1>1, Inductive, PTL

(* Result.Durable over every crash: only another call's unpersisted level   *)
(* may take a durable write.                                                *)
THEOREM DurableIsProven == Spec => []DurableButForOthersLevels
<1>1. IInv => DurableButForOthersLevels
  <2> SUFFICES ASSUME IInv, NEW d \in Dirs, floor[d] > 0
               PROVE  /\ 1..d \subseteq kept \cup abandoned \cup UNION {BeingMade(w) : w \in Writers}
                      /\ \A f \in fileKept[d] : f >= floor[d]
    BY DEF DurableButForOthersLevels
  <2>1. d <= depth /\ \A f \in fileKept[d] : f >= floor[d]
    BY DEF IInv, FileInv
  <2>2. 1..d \subseteq 1..depth
    BY <2>1, DepthAssumption DEF IInv, TypeOK, Dirs
  <2> QED BY <2>1, <2>2 DEF IInv, CoverInv
<1> QED BY <1>1, Inductive, PTL

(* mkdirLevelInRoot, dirSyncFailed: a durable call has persisted its own    *)
(* levels with their modes.                                                 *)
THEOREM OwnLevelsAreKept == Spec => []OwnLevelsKept
<1>1. IInv => OwnLevelsKept
  <2> SUFFICES ASSUME IInv, NEW w \in Writers, pc[w] = "idle", res[w] = "durable",
                      NEW l \in created[w]
               PROVE  /\ l \in kept /\ mode[l] = "wanted"
                      /\ l = dir[w] \/ l + 1 \in created[w] => modeKept[l]
    BY DEF OwnLevelsKept
  <2>1. BeingMade(w) = {} /\ Promising(w) /\ Own(w)
    BY DEF IInv, OwnInv, BeingMade, Promising
  <2> QED BY <2>1 DEF Own
<1> QED BY <1>1, Inductive, PTL

(* enforceDirMode is for created levels: one found is never chmod'ed.       *)
THEOREM FoundAreKept == Spec => FoundModesKept
<1>1. IInv /\ [Next]_vars => [\A l \in Levels : mode[l] = "found" /\ l <= depth /\ l <= depth'
                                                  => mode'[l] = "found"]_vars
  <2> SUFFICES ASSUME IInv, Next, NEW l \in Levels, mode[l] = "found", l <= depth, l <= depth'
               PROVE  mode'[l] = "found"
    OBVIOUS
  <2> USE DEF IInv, Levels, Dirs
  <2>1. ASSUME NEW w \in Writers, NEW c \in Calls, Begin(w, c) PROVE mode'[l] = "found"
    BY <2>1 DEF Begin, dirs
  <2>2. ASSUME NEW w \in Writers, Scan(w) \/ Publish(w) \/ Kill(w) PROVE mode'[l] = "found"
    BY <2>2 DEF Scan, Publish, Kill, dirs
  <2>3. ASSUME NEW w \in Writers, PersistLevel(w) \/ DirSync(w) PROVE mode'[l] = "found"
    BY <2>3 DEF PersistLevel, DirSync
  <2>4. ASSUME NEW w \in Writers, Mkdir(w) PROVE mode'[l] = "found"
    <3>1. \/ mode' = mode
          \/ /\ level[w] = depth + 1
             /\ \E m \in {"wanted", "other"} : mode' = [mode EXCEPT ![level[w]] = m]
      BY <2>4 DEF Mkdir, dirs
    <3>2. l # depth + 1
      BY DepthAssumption DEF TypeOK
    <3> QED BY <3>1, <3>2 DEF TypeOK
  <2>5. ASSUME NEW w \in Writers, ProveMode(w) PROVE mode'[l] = "found"
    <3>1. pc[w] = "prove" /\ \E m \in {"wanted", "other"} : mode' = [mode EXCEPT ![level[w]] = m]
      BY <2>5 DEF ProveMode
    <3>2. level[w] # l
      BY <3>1 DEF CreatedInv, Working
    <3> QED BY <3>1, <3>2 DEF TypeOK
  <2>6. CASE PowerLoss
    <3>1. PICK left \in 0..depth, lost \in SUBSET {k \in Levels : ~modeKept[k]} :
            mode' = [k \in Levels |-> IF k > left THEN "found"
                                      ELSE IF k \in lost THEN "other" ELSE mode[k]]
      BY <2>6 DEF PowerLoss
    <3>2. l \notin lost
      BY DEF FoundInv
    <3> QED BY <3>1, <3>2
  <2> QED BY <2>1, <2>2, <2>3, <2>4, <2>5, <2>6 DEF Next, Step
<1> QED BY <1>1, Inductive, PTL DEF Spec, FoundModesKept

=============================================================================
