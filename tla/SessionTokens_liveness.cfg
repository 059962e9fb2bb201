CONSTANTS
    Users = {u1}
    Devices = {d1, d2}
    MaxSessions = 2
    MaxTokens = 2
    Procs = {p1, p2}
    MaxActive = 1
    MaxFailures = 0
    NoUser = NoUser
    NoDevice = NoDevice
SPECIFICATION FairSpec
PROPERTIES
    RequestsEnd
    ClosingTakesEffect
