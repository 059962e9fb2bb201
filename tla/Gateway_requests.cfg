SPECIFICATION Spec
CONSTANTS
    Procs = {p, q}
    MaxRetries = 1
SYMMETRY Symmetry
INVARIANTS TypeOK WritesOnce AnswerIsTrue ClosedSessionStopped MaintenanceHolds
