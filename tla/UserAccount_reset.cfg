SPECIFICATION Spec
CONSTANTS
    Passwords = {w1, w2}
    TempPassword = TempPassword
    NoPassword = NoPassword
    Procs = {p1}
    MaxAttempts = 2
    MaxBlocks = 1
    MaxTokens = 2
SYMMETRY Symmetry
INVARIANT PasswordReplaced
CHECK_DEADLOCK FALSE
