\* Liveness: one instance and a capture.
CONSTANTS
    db = db
    i1 = i1
    i2 = i2
    p1 = p1
    s1 = s1
    s1b = s1b
    r1 = r1
    f1 = f1
    t1 = t1
    x1 = x1
    p2 = p2
    s2 = s2
    c1 = c1
    None = None
    Workloads = {db}
    Instances = {i1}
    Captures = {c1}
    Operations = {p1, s1, f1, t1, r1}
    WorkloadOf <- OneWorkload
    GenOf <- Generations
    ActionOf <- Actions
    InstanceOf <- Names
    CaptureOf <- CapturesNamed
    MaxFaults = 1
SPECIFICATION FairSpec
PROPERTIES
    PendingSettles
CHECK_DEADLOCK FALSE
