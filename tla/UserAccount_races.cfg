SPECIFICATION Spec
CONSTANTS
    Passwords = {w1, w2}
    TempPassword = TempPassword
    NoPassword = NoPassword
    Procs = {p1, p2}
    MaxAttempts = 2
    MaxBlocks = 1
    MaxTokens = 2
SYMMETRY Symmetry
INVARIANTS TypeOK NotTrapped SingleUse ConsentGoesWithPassword
PROPERTY VerifiedForGood
CONSTRAINT NothingLost
CHECK_DEADLOCK FALSE
