SPECIFICATION FairSpec
CONSTANTS
    r1 = r1
    r2 = r2
    w1 = w1
    w2 = w2
    ZeroAddress = ZeroAddress
    Rooms = {r1, r2}
    Wallets = {w1, w2}
    Amounts = {0, 1, 2}
    JoinTimeout = 1
    ResultTimeout = 1
    LastCreation = 0
    MaxTime = 3
INVARIANTS
    TypeOK
    ExactPayout
    Solvent
    WindowsAreDisjoint
    LifeCycle
PROPERTIES
    ImplementsEscrow
    NoStakeIsTrapped
