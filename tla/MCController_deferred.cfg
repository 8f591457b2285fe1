\* Liveness: a move off the own host, whose dependency is lost once.
CONSTANTS
    i0 = i0
    i1 = i1
    i2 = i2
    i3 = i3
    i4 = i4
    i5 = i5
    j1 = j1
    j2 = j2
    j3 = j3
    k1 = k1
    k2 = k2
    a = a
    b = b
    c = c
    None = None
    Instances = {i0, i1}
    Jobs = {j1}
    Hosts = {a, b, c}
    Home = a
    Origin = i0
    ActionOf <- Moves
    EvidenceOf <- Attested
    SourceOf <- Sources
    TargetOf <- Targets
    HostOf <- InstanceHosts
    GenOf <- Generations
    Dependent = TRUE
    MaxWrites = 0
    MaxFaults = 1
SPECIFICATION FairSpec
PROPERTIES
    JobEnds
CHECK_DEADLOCK FALSE
