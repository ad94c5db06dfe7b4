\* A caller that keeps to Write, WriteString, ReadFrom and Truncate.
\* A handle that was refused, or is at its end, may do nothing more.
CONSTANTS
    Caps = {0, 3}
    MaxSize = 6
    Old = Old
    OutOfStream = FALSE
SPECIFICATION Spec
INVARIANTS BytesWrittenIsSize
CHECK_DEADLOCK FALSE
