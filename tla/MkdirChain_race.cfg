\* Two writers, a chain of two directories, every failure possible.
CONSTANTS
    Writers = {w1, w2}
    Depth = 2
    MayFail = {"stat", "mkdir", "mode", "sync", "stage", "process"}
    MaxStamp = 2
SPECIFICATION Spec
SYMMETRY Interchangeable
INVARIANTS DurableButForOthersLevels OwnLevelsKept NothingBelowMissing
PROPERTIES FoundModesKept
