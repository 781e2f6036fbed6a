SPECIFICATION WallsSpec
CONSTANTS
    None = None
    f1 = f1
    f2 = f2
    p = p
    q = q
    r = r
    bad = bad
    Folders = {f1, f2}
    Contents <- MCContents
    Usable <- MCUsable
    EventOf <- MCEventOf
    WallSizes = {1, 2}
    WallAdmins = {1}
    FetchAttempts = 2
    MaxWallCalls = 2
    MaxWallFaults = 1
    Clients = {1, 2}
    Connectors = {1, 2}
    MaxConnects = 2
    MaxClientSaves = 1
    MaxFinishes = 2
PROPERTIES  NothingLingers
INVARIANTS
    WallShowsItsFolder
CHECK_DEADLOCK FALSE
