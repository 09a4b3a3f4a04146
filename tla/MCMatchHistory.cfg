SPECIFICATION ApartSpec
CONSTANTS
    Owner = "owner"
    Rivals = {"rival"}
    s1 = s1
    s2 = s2
    Saves <- MCSaves
    d3 = d3
    d13 = d13
    Dates = {d3, d13}
    NoDate = NoDate
    Read <- MCRead
    StartElo = 3
    FloorElo = 2
    KeyRequired = FALSE
    MaxGames = 2
    MaxConnects = 2
    MaxFaults = 2
SYMMETRY MCSymmetry
INVARIANTS
    TypeOK
    StoredOnce
    NothingIsLost
    RatingsAreReplayed
CHECK_DEADLOCK FALSE
