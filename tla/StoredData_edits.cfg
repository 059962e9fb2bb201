\* Three requests of any kind, on two companies, one user, one flag and the
\* windows of maintenance.  They come to an end: a finished run may stop.
SPECIFICATION Spec
CONSTANTS
    Requests = {r1, r2, r3}
    Companies = {c1, c2}
    TaxIds = {"t1"}
    People = {u1}
    Contacts = {"changed"}
    MaxTime = 3
SYMMETRY StoreSymmetry
CHECK_DEADLOCK FALSE
INVARIANTS ImagesStored SettingsAgree
PROPERTIES EditsKept
