CONSTANTS
    Users = {u1}
    Devices = {d1}
    MaxSessions = 2
    MaxTokens = 3
    Procs = {p1, p2}
    MaxActive = 1
    MaxFailures = 1
    NoUser = NoUser
    NoDevice = NoDevice
SPECIFICATION Spec
SYMMETRY Symmetry
CONSTRAINT FewRecordsAfterFailure
INVARIANTS
    TypeOK
    ClosedSessionsAreDead
    RevokedIsDeadOrExcused
    FamilyOneSession
    ExchangedTokenIsRetired
    NoRotationAfterClose
    SessionCap
PROPERTY
    AuthoritySpec
