\* A prepare or an adopt, a fetch; two faults, and both files of the escrow replaced.
CONSTANTS
    r1 = r1
    None = None
    Versions = {1, 2}
    Names = {1, 2, 3}
    FilesOf <- Contained
    References = {r1}
    MaxFaults = 2
    Rollback = FALSE
SPECIFICATION FairSpec
INVARIANTS
    RetainedIsKept
    PreparedIsSealed
PROPERTIES
    NeverProvisionedOver
    PrepareSettles
