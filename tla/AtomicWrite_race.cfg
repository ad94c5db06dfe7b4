SPECIFICATION Spec
CONSTANTS
    Writers = {w1, w2}
    t1 = t1
    t2 = t2
    Targets = {t1}
    TempNames = {n1, n2}
    Inodes = {i1, j1, j2}
    Preexisting = {i1}
    Special = {}
    Calls <- RaceCalls
    MaxTries = 1
    None = None
SYMMETRY Interchangeable
INVARIANTS
    WholeFile
    DurableSurvives
    VerdictIsTrue
    NoUnexplainedTemp
PROPERTIES
    ImplementsRegister
