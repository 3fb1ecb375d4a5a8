\* One xend thread, one device id, all steps of a call and watch delivery
\* fair: a create or destroy wait that times out before its value comes.
\* Expected to violate StrayWatchRemoved.  No symmetry (liveness).
CONSTANTS
    Threads = {t1}
    Devs = {0}
    MaxAlloc = 0
    NONE = NONE
SPECIFICATION FairSpec
PROPERTY StrayWatchRemoved
