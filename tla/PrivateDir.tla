---------------------------- MODULE PrivateDir ----------------------------
(***************************************************************************)
(* EnsurePrivateDir and EnforceMode (privatedir.go): several calls, and    *)
(* other processes, at one path.                                           *)
(*                                                                         *)
(* A call makes the directory or finds it, opens whatever is at the path   *)
(* by then, and from there on believes the descriptor alone.               *)
(***************************************************************************)
CONSTANTS
    Calls,      \* calls of EnsurePrivateDir, of any goroutine or process
    Dirs,       \* directories that exist or may come to exist
    Occupants,  \* files, FIFOs and the like that may be at the path
    Links,      \* symlinks that may be there
    None        \* nothing

ASSUME NoneAssumption ==
    None \notin Calls \cup Dirs \cup Occupants \cup Links \cup {"own", "foreign"}
ASSUME OccupantsAssumption == Dirs \cap (Occupants \cup Links) = {}

(* 0700; fewer bits; some bit of group or others. *)
Modes == {"exact", "narrow", "open"}
Steps == {"new", "mkdir", "open", "label", "check", "chmod", "readback", "done"}
Verdicts == {"none", "private", "symlink", "notDir", "notOwned", "tooOpen",
             "notStored", "failed", "killed"}

VARIABLES
    under,     \* what is at the path
    perm,      \* the mode of each directory
    maker,     \* who made it: a call, this user otherwise, another user, None if nobody yet
    step,      \* where each call stands
    repairs,   \* whether it was given WithRepairOwnedDir
    created,   \* whether its mkdir made a directory
    held,      \* the directory it has open, or had
    verdict,   \* what it returned
    trusted,   \* history: directories answered for and not opened to others since
    misled     \* history: calls whose path was repointed between mkdir and open

dirs == <<under, perm, maker>>
calls == <<step, repairs, created, held, verdict>>
marks == <<trusted, misled>>
vars == <<dirs, calls, marks>>

Init ==
    /\ maker \in [Dirs -> {"own", "foreign", None}]
    /\ under \in {d \in Dirs : maker[d] # None} \cup Occupants \cup Links \cup {None}
    /\ perm \in [Dirs -> Modes]
    /\ step = [c \in Calls |-> "new"]
    /\ repairs = [c \in Calls |-> FALSE]
    /\ created = [c \in Calls |-> FALSE]
    /\ held = [c \in Calls |-> None]
    /\ verdict = [c \in Calls |-> "none"]
    /\ trusted = {} /\ misled = {}

-----------------------------------------------------------------------------
(* Helpers *)

GoTo(c, s) == step' = [step EXCEPT ![c] = s]

Return(c, v) ==
    /\ GoTo(c, "done")
    /\ verdict' = [verdict EXCEPT ![c] = v]

Refuse(c, v) == Return(c, v) /\ UNCHANGED trusted

(* A verdict: from here on the caller relies on the directory. *)
Vouch(c) ==
    /\ Return(c, "private")
    /\ trusted' = trusted \cup {held[c]}

-----------------------------------------------------------------------------
(* EnsurePrivateDir *)

Begin(c, r) ==
    /\ step[c] = "new"
    /\ GoTo(c, "mkdir")
    /\ repairs' = [repairs EXCEPT ![c] = r]
    /\ UNCHANGED <<dirs, created, held, verdict, marks>>

(* Mutant: a directory that exists counts as made. *)
MkdirClaims(c) ==
    /\ step[c] = "mkdir" /\ under # None
    /\ GoTo(c, "open")
    /\ created' = [created EXCEPT ![c] = TRUE]
    /\ UNCHANGED <<dirs, repairs, held, verdict, marks>>

(* mkdirPrivate: 0700 is asked for, umask and ACLs decide. *)
Mkdir(c) ==
    /\ step[c] = "mkdir"
    /\ \/ /\ under = None
          /\ \E d \in Dirs, m \in Modes :
                /\ maker[d] = None
                /\ under' = d
                /\ perm' = [perm EXCEPT ![d] = m]
                /\ maker' = [maker EXCEPT ![d] = c]
          /\ created' = [created EXCEPT ![c] = TRUE]
          /\ GoTo(c, "open")
          /\ UNCHANGED verdict
       \/ under # None /\ GoTo(c, "open") /\ UNCHANGED <<dirs, created, verdict>>
       \/ Return(c, "failed") /\ UNCHANGED <<dirs, created>>
    /\ UNCHANGED <<repairs, held, marks>>

(* openPrivateDir: O_DIRECTORY and O_NOFOLLOW refuse all but a directory.   *)
Open(c) ==
    /\ step[c] = "open"
    /\ \/ /\ under \in Dirs
          /\ held' = [held EXCEPT ![c] = under]
          /\ GoTo(c, "check")
          /\ UNCHANGED verdict
       \/ under \in Occupants \cup Links /\ GoTo(c, "label") /\ UNCHANGED <<held, verdict>>
       \/ Return(c, "failed") /\ UNCHANGED held
    /\ UNCHANGED <<dirs, repairs, created, marks>>

(* refusedOccupant looks at the path once more, to name what was refused.   *)
Label(c) ==
    /\ step[c] = "label"
    /\ Return(c, IF under \in Links THEN "symlink" ELSE "notDir")
    /\ UNCHANGED <<dirs, repairs, created, held, marks>>

(* statOwnedDir and the decision: a directory the call made is set right, a *)
(* found one is taken as it is, refused, or set right on request only.      *)
Check(c) ==
    /\ step[c] = "check"
    /\ \/ maker[held[c]] = "foreign" /\ Refuse(c, "notOwned")
       \/ /\ maker[held[c]] # "foreign"
          /\ \/ /\ created[c] \/ (perm[held[c]] = "open" /\ repairs[c])
                /\ GoTo(c, "chmod")
                /\ UNCHANGED <<verdict, trusted>>
             \/ ~created[c] /\ perm[held[c]] # "open" /\ Vouch(c)
             \/ ~created[c] /\ perm[held[c]] = "open" /\ ~repairs[c] /\ Refuse(c, "tooOpen")
       \/ Refuse(c, "failed")
    /\ UNCHANGED <<dirs, repairs, created, held, misled>>

(* Mutant: what chmod was asked for is believed. *)
ChmodBelieved(c) ==
    /\ step[c] = "chmod"
    /\ \E m \in Modes : perm' = [perm EXCEPT ![held[c]] = m]
    /\ Vouch(c)
    /\ UNCHANGED <<under, maker, repairs, created, held, misled>>

(* EnforceMode: fchmod, which asks for 0700 ...                             *)
Chmod(c) ==
    /\ step[c] = "chmod"
    /\ \/ /\ \E m \in Modes :
                /\ perm' = [perm EXCEPT ![held[c]] = m]
                /\ trusted' = IF m = "open" THEN trusted \ {held[c]} ELSE trusted
          /\ GoTo(c, "readback")
          /\ UNCHANGED verdict
       \/ Refuse(c, "failed") /\ UNCHANGED perm
    /\ UNCHANGED <<under, maker, repairs, created, held, misled>>

(* ... and fstat, which tells what is stored. *)
Readback(c) ==
    /\ step[c] = "readback"
    /\ \/ perm[held[c]] = "exact" /\ Vouch(c)
       \/ perm[held[c]] # "exact" /\ Refuse(c, "notStored")
       \/ Refuse(c, "failed")
    /\ UNCHANGED <<dirs, repairs, created, held, misled>>

-----------------------------------------------------------------------------
(* The environment *)

(* The process dies between two steps; what it made stays as it is. *)
Kill(c) ==
    /\ step[c] \notin {"new", "done"}
    /\ Refuse(c, "killed")
    /\ UNCHANGED <<dirs, repairs, created, held, misled>>

(* Others put something else at the path, or clear it. *)
Repoint(x) ==
    /\ x # under /\ (x \in Dirs => maker[x] # None)
    /\ under' = x
    /\ misled' = misled \cup {c \in Calls : step[c] = "open"}
    /\ UNCHANGED <<perm, maker, calls, trusted>>

(* The owner of a directory changes its mode. *)
OtherChmod(d, m) ==
    /\ maker[d] # None /\ perm[d] # m
    /\ perm' = [perm EXCEPT ![d] = m]
    /\ trusted' = IF m = "open" THEN trusted \ {d} ELSE trusted
    /\ UNCHANGED <<under, maker, calls, misled>>

-----------------------------------------------------------------------------
Next ==
    \/ \E c \in Calls :
        \/ \E r \in BOOLEAN : Begin(c, r)
        \/ Mkdir(c) \/ Open(c) \/ Label(c) \/ Check(c) \/ Chmod(c) \/ Readback(c)
        \/ Kill(c)
    \/ \E x \in Dirs \cup Occupants \cup Links \cup {None} : Repoint(x)
    \/ \E d \in Dirs, m \in Modes : OtherChmod(d, m)

Spec == Init /\ [][Next]_vars

-----------------------------------------------------------------------------
(* Properties *)

(* Every variable has its type. *)
TypeOK ==
    /\ under \in Dirs \cup Occupants \cup Links \cup {None}
    /\ perm \in [Dirs -> Modes]
    /\ maker \in [Dirs -> Calls \cup {"own", "foreign", None}]
    /\ step \in [Calls -> Steps]
    /\ repairs \in [Calls -> BOOLEAN] /\ created \in [Calls -> BOOLEAN]
    /\ held \in [Calls -> Dirs \cup {None}]
    /\ verdict \in [Calls -> Verdicts]
    /\ trusted \subseteq Dirs /\ misled \subseteq Calls
    /\ \A c \in Calls : step[c] \in {"check", "chmod", "readback"} => held[c] \in Dirs

(* A directory that some call answered for is not another user's and is     *)
(* closed to all others, until its owner, or a file system that does not    *)
(* store modes as asked, opens it: no race of calls, no call that was       *)
(* killed half way and no retry gives an open or foreign one out as private.*)
VouchedArePrivate ==
    \A d \in trusted : maker[d] # "foreign" /\ perm[d] # "open"

(* A mode is changed, without WithRepairOwnedDir, only of the directory the *)
(* very call made, and only such a one is reported as Created - unless what *)
(* was at the path was exchanged between mkdir and open.                    *)
FoundDirsKept ==
    \A c \in Calls : c \notin misled =>
        /\ step[c] = "chmod" => maker[held[c]] = c \/ repairs[c]
        /\ verdict[c] = "private" /\ created[c] => maker[held[c]] = c

=============================================================================
