\* One user, one session: a login while RevokeUser is about to delete the index.
CONSTANTS
    Users = {u1}
    SingleUsers = {}
    SessionIds = {s1}
    Digests = {d1}
    Procs = {p1, p2}
    TTL = 2
    Second = 1
    None = None
    u1 = u1
    s1 = s1
    d1 = d1
    p1 = p1
    p2 = p2
SPECIFICATION Spec
INVARIANT ListingComplete
