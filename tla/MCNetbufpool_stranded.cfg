\* Three remus processes, two buffer devices; processes die at any point
\* but inside save().  Every remus process may end, so the system may stop.
CONSTANTS
    Procs = {p1, p2, p3}
    BufDevs = {0, 1}
    NONE = NONE
    CrashInSave = FALSE
    PidReuse = FALSE
SPECIFICATION Spec
SYMMETRY ProcSymmetry
CHECK_DEADLOCK FALSE
INVARIANT NoStrandedClaim
