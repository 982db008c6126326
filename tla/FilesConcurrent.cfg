SPECIFICATION Spec
CONSTANTS
    alice = alice
    bob = bob
    owner = alice
    Users = {alice, bob}
    Sessions = {s1, s2}
    RowIds = {r1, r2}
    Limits = {None, 1}
    Ops = {"upload", "delete", "download", "downloadVersion", "configure", "destroy"}
    MaxUploads = 2
    MaxRequests = 3
    MaxFaults = 1
    NoRow = NoRow
    Deleted = Deleted
    Noise = Noise
    None = None
    Gone = Gone
    NoKey = NoKey
SYMMETRY Interchangeable
CHECK_DEADLOCK FALSE
INVARIANT RowsAreWhole
INVARIANT IInv
PROPERTY DestructionIsFinal
