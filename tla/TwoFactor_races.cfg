SPECIFICATION Spec
CONSTANTS
    d1 = d1
    d2 = d2
    c1 = c1
    c2 = c2
    Origins <- MCOrigins
    Devices = {d1, d2}
    NoDevice = NoDevice
    Countries = {c1, c2}
    NoCountry = NoCountry
    Procs = {p, q}
    MaxTrusted = 1
    PerLot = 1
    MaxChallenges = 1
    MaxSecrets = 2
    MaxLots = 2
SYMMETRY Symmetry
CONSTRAINT NothingHurt
INVARIANTS TypeOK SecretIsProven CodesFollowFactor NoBypass NoDeadCode CountriesAsAsked
CHECK_DEADLOCK FALSE
