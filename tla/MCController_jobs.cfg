\* A move off the controller's own host; two moves, to different hosts; two failovers;
\* a move and the move back.
CONSTANTS
    i0 = i0
    i1 = i1
    i2 = i2
    i3 = i3
    i4 = i4
    i5 = i5
    j1 = j1
    j2 = j2
    j3 = j3
    k1 = k1
    k2 = k2
    a = a
    b = b
    c = c
    None = None
    Instances = {i0, i1, i2, i3, i4, i5}
    Jobs = {j1, j2, j3, k1, k2}
    Hosts = {a, b, c}
    Home = a
    Origin = i0
    ActionOf <- MovesAndFailovers
    EvidenceOf <- Attested
    SourceOf <- BackSources
    TargetOf <- AllTargets
    HostOf <- AllHosts
    GenOf <- AllGenerations
    Dependent = TRUE
    MaxWrites = 1
    MaxFaults = 3
SPECIFICATION Spec
CONSTRAINT InScene
INVARIANTS
    NoOverlap
    NothingLost
    JournalHonest
PROPERTIES
    RevivedNotFenced
CHECK_DEADLOCK FALSE
