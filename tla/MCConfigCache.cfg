\* One configuration with two values, public or not; two requests at once.  A TTL of two
\* ticks and a request of one: a fill may land a tick after its read.
CONSTANTS
    Keys = {k1}
    Values = {v1, v2}
    Procs = {p1, p2}
    TTL = 2
    Patience = 1
    None = None
    k1 = k1
    v1 = v1
    v2 = v2
    p1 = p1
    p2 = p2
SPECIFICATION Spec
SYMMETRY Symmetry
INVARIANTS TypeOK StaleHasACause BoundedStaleness
