SPECIFICATION Spec
CONSTANTS
    Rows = 1
    Cols = 3
    AIModes = {{}, {"O"}}
INVARIANT
    ScoreMatchesBoxes
PROPERTIES
    ImplementsBoardGame
    AIPlaysWell
CHECK_DEADLOCK FALSE
