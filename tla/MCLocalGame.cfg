SPECIFICATION FairSpec
CONSTANTS
    Rows = 1
    Cols = 2
    MaxGames = 2
    MaxStrays = 2
    SwitchesMode = FALSE
INVARIANTS
    TypeOK
    EntriesAreRight
PROPERTIES
    MovesFollowTheRules
    AIAnswers
