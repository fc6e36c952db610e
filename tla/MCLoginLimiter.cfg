\* An account tried from two clients; two logins at once.  Two attempts in a window of
\* two ticks, and room for a count above the limit.
CONSTANTS
    Clients = {c1, c2}
    Accounts = {a1}
    Procs = {p1, p2}
    Limit = 2
    Window = 2
    MaxCount = 3
    NoKey = NoKey
    c1 = c1
    c2 = c2
    a1 = a1
    p1 = p1
    p2 = p2
SPECIFICATION LimiterSpec
SYMMETRY Symmetry
INVARIANTS LimiterTypeOK AtMostLimit
