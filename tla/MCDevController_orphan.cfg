\* One xend thread destroying a device the hotplug scripts are cleaning up.
\* Expected to violate BackendPairing.
CONSTANTS
    Threads = {t1}
    Devs = {0}
    MaxAlloc = 0
    NONE = NONE
SPECIFICATION Spec
INVARIANT BackendPairing
