\* Three remus processes, two buffer devices; processes die at any point
\* but inside save(), and no pid is reused: the pool gives each device to
\* one live process, and the pool implements the atomic allocation table.
\* No symmetry, so that each step is checked against the abstract one as
\* it is.  Every remus process
\* may end, so the system may stop.
CONSTANTS
    Procs = {p1, p2, p3}
    BufDevs = {0, 1}
    NONE = NONE
    CrashInSave = FALSE
    PidReuse = FALSE
SPECIFICATION Spec
CHECK_DEADLOCK FALSE
INVARIANT TypeOK
INVARIANT ExclusiveUse
PROPERTY ImplementsAllocation
