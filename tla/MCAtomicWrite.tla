--------------------------- MODULE MCAtomicWrite ---------------------------
(* Instances of AtomicWrite for TLC. *)
EXTENDS AtomicWrite, TLC

CONSTANTS t1, t2

Call(t, k, l, c, m) == [target |-> t, kind |-> k, len |-> l, cap |-> c, modeSet |-> m]

(* Two writers of one file: a plain write, and one that restricts the mode  *)
(* and bounds the size.                                                     *)
RaceCalls == {Call(t1, "bytes", 1, 0, FALSE), Call(t1, "reader", 1, 1, TRUE)}

(* One writer, every kind of call, contents below, at and above the cap,    *)
(* two targets one of which may be a special file.                          *)
KindCalls == {Call(t1, "bytes", 2, 1, FALSE), Call(t1, "bytes", 1, 1, TRUE),
              Call(t2, "reader", 2, 1, TRUE), Call(t1, "reader", 0, 0, FALSE),
              Call(t2, "writerTo", 1, 1, FALSE)}

Interchangeable == Permutations(Writers) \cup Permutations(TempNames)

=============================================================================
