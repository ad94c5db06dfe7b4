\* One writer whose directory fsyncs may fail, and which retries.
CONSTANTS
    Writers = {w1}
    Depth = 1
    MayFail = {"sync"}
    MaxStamp = 2
SPECIFICATION Spec
INVARIANTS DurableSurvives
