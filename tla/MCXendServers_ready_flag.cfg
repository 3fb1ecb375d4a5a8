\* Two servers, up to two signals (so up to two reloads), two polls before
\* start() gives up.  xend rests sleeping or after start() returns, so the
\* system may stop.
CONSTANTS
    Servers = {s1, s2}
    MaxRetry = 2
    MaxSignals = 2
SPECIFICATION Spec
SYMMETRY ServerSymmetry
CHECK_DEADLOCK FALSE
INVARIANT StartupWaitRelease
