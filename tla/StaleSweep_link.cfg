\* A recursive sweep by path of a directory named by a symlink.
CONSTANTS
    Sweeps = {s1}
    Kinds <- RecursiveKind
    Top = top
    Subdirs = {}
    Dirs = {}
    Temps = {t}
    Files = {f1}
    Specials = {}
    None = none
    Rearranged = FALSE
    DirIsLink = TRUE
SPECIFICATION Spec
INVARIANTS NothingLeftUnsaid
