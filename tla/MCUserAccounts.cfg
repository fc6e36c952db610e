\* Two accounts and two requests; one password and one parameter set, which the
\* superuser rule does not look at.  Version 3 lets an account change twice.
CONSTANTS
    Ids = {a1, a2}
    Passwords = {w1}
    Params = {k1}
    Procs = {p1, p2}
    MaxVersion = 3
    None = None
    a1 = a1
    a2 = a2
    w1 = w1
    k1 = k1
    p1 = p1
    p2 = p2
SPECIFICATION Spec
SYMMETRY Symmetry
INVARIANTS TypeOK DecidesOnTruth
PROPERTY SuperuserRemains
