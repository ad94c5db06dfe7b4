--------------------------- MODULE MCStaleSweep ---------------------------
(* The forms of sweep that TLC runs together. *)
EXTENDS StaleSweep, TLC

Flat == [rooted |-> FALSE, recursive |-> FALSE]
Recursive == [rooted |-> FALSE, recursive |-> TRUE]

AllKinds == Forms
FlatKind == {Flat}
RecursiveKind == {Recursive}

(* Names, directories and regular files may be exchanged. *)
Interchangeable == Permutations(Subdirs) \cup Permutations(Dirs) \cup Permutations(Files \ Specials)

=============================================================================
