SPECIFICATION Spec
CONSTANTS
    alice = alice
    bob = bob
    owner = alice
    Users = {alice}
    Sessions = {s1}
    RowIds = {r1, r2, r3, r4}
    Limits = {None, 2}
    Ops = {"upload", "restore", "delete", "download", "downloadVersion", "configure", "destroy"}
    MaxUploads = 3
    MaxRequests = 5
    MaxFaults = 0
    NoRow = NoRow
    Deleted = Deleted
    Noise = Noise
    None = None
    Gone = Gone
    NoKey = NoKey
SYMMETRY Interchangeable
CHECK_DEADLOCK FALSE
INVARIANT Readable
PROPERTY LimitEnforced
