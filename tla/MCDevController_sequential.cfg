\* One xend thread against the hotplug scripts, two device ids, all steps
\* of a call fair: the order of destroyDevice's writes as a backend driver
\* sees it, and createDevice's retry loop ending when the only other
\* writers are the hotplug scripts.  No symmetry (liveness).
CONSTANTS
    Threads = {t1}
    Devs = {0, 1}
    MaxAlloc = 2
    NONE = NONE
SPECIFICATION FairSpec
INVARIANT OnlineBeforeClosing
PROPERTY CreateReturns
