SPECIFICATION FairSpec
CONSTANTS
    Writers = {w1}
    t1 = t1
    t2 = t2
    Targets = {t1, t2}
    TempNames = {n1}
    Inodes = {i1, i2, j1, j2}
    Preexisting = {i1, i2}
    Special = {i2}
    Calls <- KindCalls
    MaxTries = 2
    None = None
INVARIANTS
    ModesHold
    CapNeverCrossed
PROPERTIES
    SpecialSurvives CallReturns
