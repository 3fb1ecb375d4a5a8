\* Two servers, up to two signals (so up to two reloads), two polls before
\* start() gives up, under the threads' fairness.  No symmetry: TLC's
\* symmetry reduction is unsound for liveness.  xend rests sleeping or
\* after start() returns, so the system may stop.
CONSTANTS
    Servers = {s1, s2}
    MaxRetry = 2
    MaxSignals = 2
SPECIFICATION FairSpec
CHECK_DEADLOCK FALSE
INVARIANT TypeOK
INVARIANT ExitClean
INVARIANT OldGenerationsStopped
PROPERTY StartupEnds
