\* Handovers between hosts; placement in dependency order.  The clocks stand still.
CONSTANTS
    db = db
    app = app
    r1 = r1
    h1 = h1
    h2 = h2
    web = web
    None = None
    Scenes = {"handover", "dependency"}
    Services = {web}
    Revisions = {r1}
    Controllers = {ctl}
    Workloads = {db, app}
    Hosts = {h1, h2}
    Instances = {i1, i2, i3}
    RequestIds = {q1, q2, q3, q4}
    OperationIds = {o1}
    ReceiptIds = {}
    Steps = {"start"}
    Evidences = {"operator", "quorum-attested"}
    Samples <- MoveSamples
    Definitions <- TwoDefinitions
    Eligible <- EachOnEitherHost
    Dependencies <- AppNeedsDb
    Routes <- TwoRoutes
    MaxAge = 1
    LostAfter = 2
    RouteTTL = 1
    QueueMax = 1
    MaxVersion = 7
    MaxTime = 0
    MaxEpoch = 2
    MaxSequence = 2
SPECIFICATION Spec
CONSTRAINT InScene
INVARIANTS
    Lineage
    Reopenable
    Attributed
PROPERTIES
    RestsOnEvidence
SYMMETRY Symmetry
CHECK_DEADLOCK FALSE
