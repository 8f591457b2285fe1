\* Two instances behind one route; an allowance of 1 and a validity of 3.
CONSTANTS
    b1 = b1
    b2 = b2
    None = None
    Backends = {b1, b2}
    Skew = 1
    Validity = 3
    Offsets <- SteppedClocks
    MaxVersion = 1
    MaxFaults = 1
SPECIFICATION Spec
INVARIANTS
    LeaseHonoured
    WithdrawnWithin
    NeverBack
SYMMETRY Symmetry
CHECK_DEADLOCK FALSE
