\* A walk of small trees in which others make up to two changes, or a sweep.
CONSTANTS
    Root = root
    A = A
    B = B
    a = a
    b = b
    aTemp = aTemp
    aFile = aFile
    sweep = sweep
    Dirs = {A, B}
    Names = {a, b}
    Alias = b
    File = file
    Link = link
    None = none
    Beginnings <- SomeTrees
    MaxMoves = 2
SPECIFICATION AnySpec
INVARIANTS TypeOK VisitedOnce NothingMissed OwnEntriesFirst SkipsArePruned
PROPERTIES WalkReturns SweepReturns
CHECK_DEADLOCK FALSE
