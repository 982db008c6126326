SPECIFICATION FairSpec
CONSTANTS
    alice = alice
    bob = bob
    top = top
    sub = sub
    f1 = f1
    f2 = f2
    Users = {alice, bob}
    Folders = {top, sub}
    Files = {f1, f2}
    PermIds = {p1, p2, p3}
    Sessions = {s1}
    FolderOwner <- AliceOwnsFolders
    FileOwner <- AliceOwnsFiles
    Subtree <- Nested
    Levels = {4}
    MaxTime = 1
    MaxRequests = 4
    MaxCrashes = 0
    ExpiryDeactivates = FALSE
    NoRow = NoRow
    None = None
    Unborn = Unborn
    Keep = Keep
CHECK_DEADLOCK FALSE
INVARIANT RevocationReachesFiles
PROPERTY ImplementsFolderSharing
PROPERTY RevocationCompletes
