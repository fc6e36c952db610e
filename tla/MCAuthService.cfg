\* Two users, two requests at once.  Two sessions and two refresh tokens: two logins,
\* or one login whose token is rotated once.  Version 2: each account changes once.
CONSTANTS
    Users = {u1, u2}
    SessionIds = {s1, s2}
    Digests = {d1, d2}
    Procs = {p1, p2}
    MaxVersion = 2
    None = None
    u1 = u1
    u2 = u2
    s1 = s1
    s2 = s2
    d1 = d1
    d2 = d2
    p1 = p1
    p2 = p2
SPECIFICATION Spec
SYMMETRY Symmetry
INVARIANTS TypeOK GrantsLinearize RevokedIsEnded OwnSessionsOnly
