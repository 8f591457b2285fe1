\* An operation of the worker and one of a program, two samples, two
\* placements, three failures.
CONSTANTS
    o1 = o1
    o2 = o2
    c1 = c1
    None = None
    Operations = {o1, c1}
    KindOf <- Kinds
    GenOf <- FirstGeneration
    MaxGeneration = 2
    MaxReports = 2
    MaxFaults = 3
SPECIFICATION FairSpec
INVARIANTS
    HonestReceipt
    ClaimedFirst
    InOrder
PROPERTIES
    NoOlderReport
    Served
CHECK_DEADLOCK FALSE
