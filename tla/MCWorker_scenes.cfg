\* The life of an instance, a capture, two generations: one scene each.
CONSTANTS
    db = db
    i1 = i1
    i2 = i2
    p1 = p1
    s1 = s1
    s1b = s1b
    r1 = r1
    f1 = f1
    t1 = t1
    x1 = x1
    p2 = p2
    s2 = s2
    c1 = c1
    None = None
    Workloads = {db}
    Instances = {i1, i2}
    Captures = {c1}
    Operations = {p1, s1, s1b, r1, f1, t1, x1, p2, s2}
    WorkloadOf <- OneWorkload
    GenOf <- Generations
    ActionOf <- Actions
    InstanceOf <- Names
    CaptureOf <- CapturesNamed
    MaxFaults = 2
SPECIFICATION Spec
CONSTRAINT InScene
INVARIANTS
    TypeOK
    StartsOnce
    FrozenIsQuiet
    OnlyCurrentRuns
PROPERTIES
    RetiredStaysDown
    AcknowledgedDown
CHECK_DEADLOCK FALSE
