\* Any caller, capped or not, in the stream or around it.
\* A handle that was refused, or is at its end, may do nothing more.
CONSTANTS
    Caps = {0, 2}
    MaxSize = 3
    Old = Old
    OutOfStream = TRUE
SPECIFICATION Spec
INVARIANTS CapAtPublish ReplyIsTrue RootLifetime TempRemoved CountIsSize
CHECK_DEADLOCK FALSE
