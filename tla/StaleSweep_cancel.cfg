\* One flat sweep by path, two temps, nothing else going on.
CONSTANTS
    Sweeps = {s1}
    Kinds <- FlatKind
    Top = top
    Subdirs = {}
    Dirs = {}
    Temps = {t1, t2}
    Files = {f1, f2}
    Specials = {}
    None = none
    Rearranged = FALSE
    DirIsLink = FALSE
SPECIFICATION Spec
PROPERTIES StopsBetweenEntries
