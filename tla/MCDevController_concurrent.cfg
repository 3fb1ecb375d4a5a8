\* Three xend threads on one device id: concurrent create / destroy / wait /
\* allocate of the same device.
CONSTANTS
    Threads = {t1, t2, t3}
    Devs = {0}
    MaxAlloc = 2
    NONE = NONE
SPECIFICATION Spec
SYMMETRY ThreadSymmetry
INVARIANT TypeOK
INVARIANT AllocUnique
INVARIANT OneCreatePerRecord
