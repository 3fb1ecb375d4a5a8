\* Three remus processes, two buffer devices; processes die at any point,
\* inside save() too, and their pids may be reused.  Every remus process
\* may end, so the system may stop.
CONSTANTS
    Procs = {p1, p2, p3}
    BufDevs = {0, 1}
    NONE = NONE
    CrashInSave = TRUE
    PidReuse = TRUE
SPECIFICATION Spec
SYMMETRY ProcSymmetry
CHECK_DEADLOCK FALSE
INVARIANT OneWriter
