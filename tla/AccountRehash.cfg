\* One account, two passwords, two parameter sets: a login rehashes during a reset.
CONSTANTS
    Ids = {a1}
    Passwords = {w1, w2}
    Params = {k1, k2}
    Procs = {p1, p2}
    MaxVersion = 3
    None = None
    a1 = a1
    w1 = w1
    w2 = w2
    k1 = k1
    k2 = k2
    p1 = p1
    p2 = p2
SPECIFICATION Spec
PROPERTY PasswordChangeRenewsVersion
