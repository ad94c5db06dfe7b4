--------------------------- MODULE AtomicRegister ---------------------------
(***************************************************************************)
(* What atomicfile promises of the files it writes, with no temp file, no  *)
(* descriptor and no fsync in sight.  A file is a register behind a        *)
(* volatile cache: it holds one whole content at a time, a publication     *)
(* replaces the content in one step, and a power loss may roll the file    *)
(* back, but only to a whole content it held since its directory was last  *)
(* persisted.                                                              *)
(***************************************************************************)
CONSTANTS
    Files,     \* names whose content readers look at
    Contents   \* whole contents, the absence of the file among them

VARIABLES
    file,        \* what a reader of each file sees now
    recoverable  \* what a power loss may leave of each file

vars == <<file, recoverable>>

(* Every file starts durable. *)
Init ==
    /\ file \in [Files -> Contents]
    /\ recoverable = [f \in Files |-> {file[f]}]

(* A write reaches its name. *)
Publish(f, c) ==
    /\ file' = [file EXCEPT ![f] = c]
    /\ recoverable' = [recoverable EXCEPT ![f] = @ \cup {c}]

(* The directory is persisted. *)
Persist ==
    /\ recoverable' = [f \in Files |-> {file[f]}]
    /\ UNCHANGED file

(* Each file falls back, on its own, to something recoverable. *)
PowerLoss ==
    /\ file' \in [Files -> Contents]
    /\ \A f \in Files : file'[f] \in recoverable[f]
    /\ recoverable' = [f \in Files |-> {file'[f]}]

Next ==
    \/ \E f \in Files, c \in Contents : Publish(f, c)
    \/ Persist
    \/ PowerLoss

Spec == Init /\ [][Next]_vars

=============================================================================
