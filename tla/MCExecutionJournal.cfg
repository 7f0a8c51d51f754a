SPECIFICATION JournalSpec
CONSTANTS
    p = p
    q = q
    d = d
    e = e
    one = one
    two = two
    live = live
    trial = trial
    Procs = {p, q}
    Paths = {one, two}
    Descriptions = {d, e}
    Scopes = {live, trial}
    MaxInodes = 2
    MaxPowerLosses = 1
    Forks = TRUE
    ShortWrites = TRUE
    ChildCloses = FALSE
    Empty = Empty
    Torn = Torn
    None = None
    Absent = Absent
    Bare = Bare
SYMMETRY JournalSymmetry
INVARIANTS
    OneBoundJournal
    OneValidOwner
PROPERTIES
    IdentityImmutable
    BindingStable
    ImplementsLock
