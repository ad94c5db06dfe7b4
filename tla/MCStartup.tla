----------------------------- MODULE MCStartup -----------------------------
(* What a program asks of a directory when it starts: one behaviour shows   *)
(* either calls of EnsurePrivateDir at one path or a writability probe.     *)
(* The two share nothing; the one that is not shown stays as it began.      *)
EXTENDS PrivateDir, TLC

CONSTANT MaxTries

VARIABLES
    shown,
    form, mkdirs, proves, phase, tries, stage, leaked, dirThere, astray, temp,
    failed, flushed, lost, absent

Prober == INSTANCE Probe

probeVars ==
    <<form, mkdirs, proves, phase, tries, stage, leaked, dirThere, astray, temp,
      failed, flushed, lost, absent>>

AnyInit ==
    \/ shown = "private" /\ Init /\ Prober!Init
          /\ form = "inRoot" /\ ~mkdirs /\ ~proves /\ ~dirThere
    \/ shown = "probe" /\ Init /\ Prober!Init
          /\ under = None /\ \A d \in Dirs : maker[d] = None /\ perm[d] = "open"

AnyNext ==
    \/ shown = "private" /\ Next /\ UNCHANGED <<shown, probeVars>>
    \/ shown = "probe" /\ Prober!Next /\ UNCHANGED <<shown, vars>>

AnySpec == AnyInit /\ [][AnyNext]_<<shown, vars, probeVars>>

Interchangeable == Permutations(Calls) \cup Permutations(Dirs)

(* Probe's properties. *)
LeakedIsTrue == Prober!LeakedIsTrue
StageIsTrue == Prober!StageIsTrue

=============================================================================
