\* From capture to commit; each directory is written once, two requests are killed.
CONSTANTS
    a = a
    b = b
    c1 = c1
    d1 = d1
    r1 = r1
    r2 = r2
    None = None
    Cache = cache
    Fresh = fresh
    Leaves = {a, b}
    Contents = {0, 1}
    MaxWrites = 1
    MaxFaults = 2
    Captures = {c1}
    Destinations = {d1}
    Restores = {r1, r2}
SPECIFICATION FairSpec
INVARIANTS
    RecordsFrozen
    SoundIsFrozen
    NothingDropped
PROPERTIES
    InstallsAtomically
    CaptureSettles
    Released
CHECK_DEADLOCK FALSE
