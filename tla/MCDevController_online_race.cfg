\* Two xend threads on one device id: a destroyDevice whose readVm result
\* is stale when it writes state.  Expected to violate OnlineBeforeClosing.
CONSTANTS
    Threads = {t1, t2}
    Devs = {0}
    MaxAlloc = 0
    NONE = NONE
SPECIFICATION Spec
SYMMETRY ThreadSymmetry
INVARIANT OnlineBeforeClosing
