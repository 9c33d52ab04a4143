\* Up to three buffers, empty ones among them, and minimum lengths from
\* nothing to more than the message holds.
SPECIFICATION Spec
CONSTANTS
    BufLens = {0, 1, 3}
    MaxBufs = 3
    MinLengths = {0, 2, 5, 9}
    MaxBytes = 8
INVARIANTS
    TypeOK
    TruncateShrinks
    RestExact
    EchoExact
CHECK_DEADLOCK FALSE
