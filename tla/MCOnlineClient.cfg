SPECIFICATION FairSpec
CONSTANTS
    Creator = Creator
    Joiner = Joiner
    None = None
    BoardEdges = {e1, e2}
    NumSquares = 1
    MaxRounds = 2
    MaxUnsent = 1
    MaxGone = 1
INVARIANTS
    TypeOK
    InStep
    SideIsSeat
PROPERTIES
    OneResultPerGame
    RematchIsAgreed
    GamesAreFinished
    RematchIsSettled
CHECK_DEADLOCK FALSE
