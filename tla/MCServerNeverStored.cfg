SPECIFICATION RetryingSpec
CONSTANTS
    a = a
    b = b
    s1 = s1
    s2 = s2
    s3 = s3
    r1 = r1
    r2 = r2
    m1 = m1
    m2 = m2
    m3 = m3
    e1 = e1
    e2 = e2
    None = None
    RoomIds = {r1}
    Users = {a, b}
    Sockets = {s1, s2}
    SocketUser <- OneSocketEach
    Objs = {1}
    BoardEdges = {e1, e2}
    NumSquares = 2
    Actions = {m1, m2}
    EdgeOf <- EdgeOfTwo
    Stakes = {1}
    Registered = {a, b}
    HasWallet = {a, b}
    ChainEnabled = TRUE
    Requests = {"join", "move", "sync", "stake"}
    Faults = {"tx unconfirmed"}
    Batched = FALSE
    Warm = TRUE
    MaxGames = 1
    MaxQueue = 1
    SaveIds = {1, 2}
    MaxRecords = 2
PROPERTY
    FinishedGamesAreStored
CHECK_DEADLOCK FALSE
