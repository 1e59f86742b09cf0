SPECIFICATION Spec
CONSTANTS
    Requests = {r1, r2}
    NoRequest = noRequest
    Callers = {c1, c2, c3}
    BufferCap = 2
    DrainCap = 1
    Limits = {2}
    Forefronts = {FALSE}
SYMMETRY Symmetry
INVARIANTS
    NothingStranded
    HeldSafely
    BufferBounded
CHECK_DEADLOCK FALSE
