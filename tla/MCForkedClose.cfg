SPECIFICATION Spec
CONSTANTS
    p = p
    q = q
    d = d
    e = e
    one = one
    two = two
    Procs = {p, q}
    Paths = {one, two}
    Descriptions = {d, e}
    MaxInodes = 1
    MaxPowerLosses = 0
    Forks = TRUE
    ShortWrites = FALSE
    ChildCloses = TRUE
    Empty = Empty
    Torn = Torn
    None = None
SYMMETRY ProcSymmetry
INVARIANTS
    LockRetained
