SPECIFICATION JournalSpec
CONSTANTS
    p = p
    q = q
    d = d
    e = e
    one = one
    two = two
    live = live
    trial = trial
    Procs = {p, q}
    Paths = {one, two}
    Descriptions = {d, e}
    Scopes = {live, trial}
    MaxInodes = 1
    MaxPowerLosses = 1
    Forks = FALSE
    ShortWrites = FALSE
    ChildCloses = FALSE
    Empty = Empty
    Torn = Torn
    None = None
    Absent = Absent
    Bare = Bare
SYMMETRY JournalSymmetry
INVARIANTS
    OneJournal
