\* Two processes, two users (u2 may have one session only), two sessions and three
\* tokens: one session rotated twice, or two sessions and one rotation, while the
\* other process reads, lists or revokes.  A lifetime of three ticks, two to the second,
\* is a second and a half: a key can be renewed between ticks, and EXPIRE gives the index
\* one tick less than SET gives the session.
CONSTANTS
    Users = {u1, u2}
    SingleUsers = {u2}
    SessionIds = {s1, s2}
    Digests = {d1, d2, d3}
    Procs = {p1, p2}
    TTL = 3
    Second = 2
    None = None
    u1 = u1
    u2 = u2
    s1 = s1
    s2 = s2
    d1 = d1
    d2 = d2
    d3 = d3
    p1 = p1
    p2 = p2
SPECIFICATION Spec
SYMMETRY Symmetry
INVARIANTS TypeOK OneCurrentToken ReuseEndsSession RevokeEndsSession RevokeUserEndsListed
PROPERTIES NeverResurrected IndexKeepsLive ImplementsLife
