SPECIFICATION FairSpec
CONSTANTS
    a = a
    b = b
    s1 = s1
    s2 = s2
    s3 = s3
    r1 = r1
    r2 = r2
    m1 = m1
    m2 = m2
    m3 = m3
    e1 = e1
    e2 = e2
    None = None
    RoomIds = {r1, r2}
    Users = {a, b}
    Sockets = {s1, s2, s3}
    SocketUser <- AComesBack
    Objs = {1, 2}
    BoardEdges = {e1}
    NumSquares = 1
    Actions = {}
    EdgeOf <- NoActions
    Stakes = {None}
    Registered = {a, b}
    HasWallet = {}
    ChainEnabled = FALSE
    Requests = {"join", "disconnect", "rematch", "decline"}
    Faults = {}
    Batched = TRUE
    Warm = FALSE
    MaxGames = 2
    MaxQueue = 0
    SaveIds = {}
    MaxRecords = 1
INVARIANTS
    TypeOK
    SeatsAreHeld
PROPERTIES
    SeatIsKept
    GhostsNeedRaces
    AbandonedRoomsGo
CHECK_DEADLOCK FALSE
