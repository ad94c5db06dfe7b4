----------------------------- MODULE MCReaders -----------------------------
(* One behaviour shows either a call of the openers and of the removal, in  *)
(* a tree of two directories, a file, a FIFO and a symlink, or a reader     *)
(* that caches a file and polls it.  The two share nothing; the one that is *)
(* not shown stays as it began.                                             *)
EXTENDS RootAccess, TLC

CONSTANTS dir1, dir2, name1, name2, Inodes, Widest, MaxGen, MaxTick

TwoDirs == {dir1, dir2}
SomeSlots == {<<Root, name1>>, <<Root, name2>>, <<dir1, name1>>, <<dir2, name1>>}
SomePaths == {<<name1>>, <<name1, name1, name1>>}

VARIABLES
    shown,
    current, gen, len, mtime, now, last, maxBytes, cancelled, step, held, info,
    buf, answer, cache, peak, spoiled

Poller == INSTANCE Reload WITH Limits <- 0 .. Widest

pollVars ==
    <<current, gen, len, mtime, now, last, maxBytes, cancelled, step, held, info,
      buf, answer, cache, peak, spoiled>>
allVars == <<shown, vars, pollVars>>

AnyInit ==
    \/ shown = "call" /\ Init /\ Poller!Init /\ maxBytes = 0 /\ len[current] = 0
          /\ current = CHOOSE i \in Inodes : TRUE
    \/ shown = "reload" /\ Init /\ Poller!Init /\ \A s \in Slots : entry[s] = None

AnyNext ==
    \/ shown = "call" /\ Next /\ UNCHANGED <<shown, pollVars>>
    \/ shown = "reload" /\ Poller!Next /\ UNCHANGED <<shown, vars>>

AnySpec ==
    /\ AnyInit /\ [][AnyNext]_allVars
    /\ WF_allVars(shown = "call" /\ Step /\ UNCHANGED <<shown, pollVars>>)
    /\ WF_allVars(shown = "reload" /\ Poller!Reader /\ UNCHANGED <<shown, vars>>)

(* Reload's properties. *)
FreshIsCurrent == Poller!FreshIsCurrent
LimitIsExact == Poller!LimitIsExact
CatchesUp == shown = "reload" => Poller!CatchesUp

=============================================================================
