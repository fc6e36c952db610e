\* One account, two passwords, an old and a new parameter set: logins that rehash
\* while the password is changed or reset and the account enabled or disabled, and
\* two transactions that want the lock; no symmetry, because one is a liveness property.
CONSTANTS
    Ids = {a1}
    Passwords = {w1, w2}
    Params = {k1, k2}
    Procs = {p1, p2}
    MaxVersion = 3
    None = None
    a1 = a1
    w1 = w1
    w2 = w2
    k1 = k1
    k2 = k2
    p1 = p1
    p2 = p2
SPECIFICATION FairSpec
PROPERTIES ImplementsVersions NoLockStarvation
