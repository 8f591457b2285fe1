\* Moving clocks, restarts and sessions; the operation queue at its limit.
CONSTANTS
    db = db
    app = app
    r1 = r1
    h1 = h1
    h2 = h2
    web = web
    None = None
    Scenes = {"clock", "queue"}
    Services = {web}
    Revisions = {r1}
    Controllers = {ctl}
    Workloads = {db}
    Hosts = {h1, h2}
    Instances = {i1, i2}
    RequestIds = {q1, q2, q3, q4}
    OperationIds = {o1, o2}
    ReceiptIds = {x1, x2}
    Steps = {"start"}
    Evidences = {"operator"}
    Samples <- MoveSamples
    Definitions <- OneDefinition
    Eligible <- EitherHost
    Dependencies <- NoDependency
    Routes <- OneRoute
    MaxAge = 1
    LostAfter = 2
    RouteTTL = 2
    QueueMax = 1
    MaxVersion = 8
    MaxTime = 3
    MaxEpoch = 2
    MaxSequence = 2
SPECIFICATION Spec
CONSTRAINT InScene
INVARIANTS
    QueueBound
    RouteWindow
    WordAgrees
PROPERTIES
    NeverRevived
    Final
SYMMETRY Symmetry
CHECK_DEADLOCK FALSE
