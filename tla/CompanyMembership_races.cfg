CONSTANTS
    Users = {u1, u2}
    Workers = {w1}
    NoUser = NoUser
    MaxMembers = 2
    Procs = {p1, p2}
SPECIFICATION Spec
SYMMETRY Symmetry
CHECK_DEADLOCK FALSE
INVARIANTS TypeOK OwnerRemains OwnershipGranted
PROPERTIES RemovedStaysOut
