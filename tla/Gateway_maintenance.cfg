SPECIFICATION Spec
CONSTANTS
    Procs = {p}
    MaxRetries = 1
INVARIANT MaintenanceIsEnforced
