CONSTANTS
    Users = {u1}
    Devices = {d1}
    MaxSessions = 2
    MaxTokens = 2
    Procs = {p1}
    MaxActive = 1
    MaxFailures = 0
    NoUser = NoUser
    NoDevice = NoDevice
SPECIFICATION Spec
SYMMETRY Symmetry
INVARIANTS
    RevokedIsDead
