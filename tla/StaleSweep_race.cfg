\* One sweep of any form, in a tree others rearrange, with a temp that may be
\* no regular file.
CONSTANTS
    Sweeps = {s1}
    Kinds <- AllKinds
    Top = top
    Subdirs = {a, b}
    Dirs = {A, B}
    Temps = {t}
    Files = {f1, f2}
    Specials = {f2}
    None = none
    Rearranged = TRUE
    DirIsLink = FALSE
SPECIFICATION Spec
SYMMETRY Interchangeable
INVARIANTS SparesTheLiving CountsWhatItRemoved NothingLeftUnsaid
PROPERTIES StopsUnlessFlat
