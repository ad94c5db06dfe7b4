------------------------------ MODULE MCWalks ------------------------------
(* One behaviour shows either a walk of one of two small trees, or one    *)
(* sweep of any form of a directory with a directory in it: what walks,     *)
(* returns.  The two share nothing; the one that is not shown stays as it   *)
(* began.                                                                   *)
EXTENDS WalkDir, TLC

CONSTANTS A, B, a, b, aTemp, aFile, sweep

Tree(top, inA, inB) == (Root :> top) @@ (A :> inA) @@ (B :> inB)
Dir(x, y) == (a :> x) @@ (b :> y)

(* Two directories side by side, and a directory in a directory beside a    *)
(* symlink.                                                                 *)
SomeTrees == {Tree(Dir(A, B), Dir(File, None), Dir(None, File)),
              Tree(Dir(A, Link), Dir(B, None), Dir(File, None))}

VARIABLES
    shown,
    at, temps, stale, stands, kind, walk, reap, result, ended, done, looked,
    reaped, lasting, moved, risked

Sweeper == INSTANCE StaleSweep WITH
    Sweeps <- {sweep}, Kinds <- [rooted : BOOLEAN, recursive : BOOLEAN],
    Top <- Root, Subdirs <- {a}, Dirs <- {A}, Temps <- {aTemp}, Files <- {aFile},
    Specials <- {}, Rearranged <- TRUE, DirIsLink <- FALSE,
    entry <- temps, pc <- stands, outcome <- ended, cancelled <- done, steady <- lasting

sweepVars ==
    <<at, temps, stale, stands, kind, walk, reap, result, ended, done, looked,
      reaped, lasting, moved, risked>>
allVars == <<shown, vars, sweepVars>>

AnyInit ==
    \/ shown = "walk" /\ Init /\ Sweeper!Init
          /\ at[a] = None /\ stale = {} /\ \A e \in DOMAIN temps : temps[e] = None
    \/ shown = "sweep" /\ Init /\ Sweeper!Init
          /\ entry = Tree(Dir(A, B), Dir(File, None), Dir(None, File))

AnyNext ==
    \/ shown = "walk" /\ Next /\ UNCHANGED <<shown, sweepVars>>
    \/ shown = "sweep" /\ Sweeper!Next /\ UNCHANGED <<shown, vars>>

AnySpec ==
    /\ AnyInit /\ [][AnyNext]_allVars
    /\ WF_allVars(shown = "walk" /\ Step /\ UNCHANGED <<shown, sweepVars>>)
    /\ WF_allVars(shown = "sweep" /\ Sweeper!Step(sweep) /\ UNCHANGED <<shown, vars>>)

(* StaleSweep's property. *)
SweepReturns == Sweeper!SweepReturns

=============================================================================
