SPECIFICATION Spec
CONSTANTS
    Names = {ann, bob}
    Wallets = {v, w}
    Slots = {s1, s2}
    MaxUsers = 2
    MaxTokens = 3
    MaxRestarts = 1
    Databases = {TRUE, FALSE}
SYMMETRY Symmetry
CHECK_DEADLOCK FALSE
INVARIANTS
    TypeOK
    IndicesAgree
    ExchangedOnce
PROPERTIES
    WalletIsKept
    SessionEnds
