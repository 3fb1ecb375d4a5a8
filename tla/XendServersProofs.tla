------------------------- MODULE XendServersProofs -------------------------
(***************************************************************************)
(* Proofs about XendServers for every number of servers, retries and      *)
(* signals: the type invariant, and the two shutdown properties that the  *)
(* run srv_lifecycle checks on a small instance.                           *)
(***************************************************************************)
EXTENDS XendServers, TLAPS

\* The type invariant with what it needs: every generation after the first
\* was made by a SIGHUP, a pending reload has been counted too, and while
\* the main thread is in the readiness loop it has polled at most MaxRetry
\* times (the poll that passes the bound also breaks out of the loop).
TypeInv ==
    /\ TypeOK
    /\ gen <= sigs
    /\ reloading => gen < sigs
    /\ mpc = "wait" => retry <= MaxRetry

\* The facts the shutdown properties rest on.  Nothing sets a server's
\* running flag once it is False; a handler that clears xend's running
\* flag has shut the current servers down first; and a pending reload has
\* too, so the generation it leaves behind is stopped.
CurrentStopped == \A s \in Servers : ~srun[<<gen, s>>]

StopInv ==
    /\ TypeInv
    /\ OldGenerationsStopped
    /\ ExitClean
    /\ mpc = "sleep" /\ ~running => CurrentStopped
    /\ reloading => CurrentStopped

USE MaxRetryAssumption, MaxSignalsAssumption

-----------------------------------------------------------------------------
(* The type invariant.                                                     *)

LEMMA TypeInit == Init => TypeInv
<1> SUFFICES ASSUME Init PROVE TypeInv
    OBVIOUS
<1>1. spc \in [Objs -> ThreadPC] /\ ready \in [Objs -> BOOLEAN] /\ srun \in [Objs -> BOOLEAN]
      BY DEF Init, ThreadPC
<1>2. mpc \in MainPC /\ gen \in Gens /\ retry \in 0 .. MaxRetry + 1 /\ sigs \in 0 .. MaxSignals
      BY DEF Init, MainPC, Gens
<1>3. running \in BOOLEAN /\ cleaningUp \in BOOLEAN /\ reloading \in BOOLEAN
        /\ stopAsked \in BOOLEAN
      BY DEF Init
<1>4. gen <= sigs /\ (reloading => gen < sigs) /\ (mpc = "wait" => retry <= MaxRetry)
      BY DEF Init
<1>5. QED
      BY <1>1, <1>2, <1>3, <1>4 DEF TypeInv, TypeOK

\* ShutdownAll keeps the flags Boolean.
LEMMA ShutdownType ==
    ASSUME TypeOK, ShutdownAll
    PROVE  srun' \in [Objs -> BOOLEAN] /\ ready' \in [Objs -> BOOLEAN]
BY DEF ShutdownAll, TypeOK

\* The Boolean flags stay Boolean: no action assigns them anything else.
LEMMA FlagsStep ==
    ASSUME TypeOK, [Next]_vars
    PROVE  /\ running' \in BOOLEAN /\ cleaningUp' \in BOOLEAN
           /\ reloading' \in BOOLEAN /\ stopAsked' \in BOOLEAN
BY Zenon DEF TypeOK, Next, vars, Spawn, WaitPoll, Status, Wake, Sigterm,
             Sighup, RunFail, RunReady, ServeEnd

\* The per-server flags and threads stay in their types.
LEMMA ObjsStep ==
    ASSUME TypeOK, [Next]_vars
    PROVE  /\ spc' \in [Objs -> ThreadPC]
           /\ ready' \in [Objs -> BOOLEAN] /\ srun' \in [Objs -> BOOLEAN]
<1> USE DEF TypeOK
<1>1. CASE Sigterm \/ Sighup
      BY <1>1, ShutdownType DEF Sigterm, Sighup
<1>2. ASSUME NEW o \in Objs, RunFail(o) \/ RunReady(o) \/ ServeEnd(o)
      PROVE  /\ spc' \in [Objs -> ThreadPC]
             /\ ready' \in [Objs -> BOOLEAN] /\ srun' \in [Objs -> BOOLEAN]
      BY <1>2 DEF RunFail, RunReady, ServeEnd, ThreadPC
<1>3. CASE Spawn
      BY <1>3 DEF Spawn, ThreadPC
<1>4. CASE WaitPoll \/ Status \/ Wake \/ UNCHANGED vars
      BY <1>4 DEF WaitPoll, Status, Wake, vars
<1>5. QED
      BY <1>1, <1>2, <1>3, <1>4 DEF Next

\* The counters: retries stay within the bound, and each generation and
\* each pending reload is paid for by a handled SIGHUP.
LEMMA CountersStep ==
    ASSUME TypeInv, [Next]_vars
    PROVE  /\ mpc' \in MainPC /\ gen' \in Gens /\ retry' \in 0 .. MaxRetry + 1
           /\ sigs' \in 0 .. MaxSignals
           /\ gen' <= sigs' /\ (reloading' => gen' < sigs')
           /\ (mpc' = "wait" => retry' <= MaxRetry)
<1> USE DEF TypeInv, TypeOK, MainPC, Gens
<1>1. CASE Spawn
      BY <1>1 DEF Spawn
<1>2. CASE WaitPoll
  <2>1. CASE \A o \in Current : ready[o]
        BY <1>2, <2>1 DEF WaitPoll
  <2>2. CASE ~\A o \in Current : ready[o]
    <3>1. /\ retry' = retry + 1
          /\ mpc' = IF retry + 1 > MaxRetry THEN "status" ELSE "wait"
          BY <1>2, <2>2 DEF WaitPoll
    <3>2. UNCHANGED <<gen, sigs, reloading>>
          BY <1>2 DEF WaitPoll
    <3>3. retry < MaxRetry + 1
      <4>1. mpc = "wait"
            BY <1>2 DEF WaitPoll
      <4>2. QED
            BY <4>1 DEF TypeInv
    <3>4. QED
          BY <3>1, <3>2, <3>3
  <2>3. QED
        BY <2>1, <2>2
<1>3. CASE Status
      BY <1>3 DEF Status
<1>4. CASE Wake /\ reloading
      BY <1>4 DEF Wake
<1>5. CASE Wake /\ ~reloading
      BY <1>5 DEF Wake
<1>6. CASE Sigterm
      BY <1>6 DEF Sigterm
<1>7. CASE Sighup
      BY <1>7 DEF Sighup
<1>8. ASSUME NEW o \in Objs, RunFail(o) \/ RunReady(o) \/ ServeEnd(o)
      PROVE  /\ mpc' \in MainPC /\ gen' \in Gens /\ retry' \in 0 .. MaxRetry + 1
             /\ sigs' \in 0 .. MaxSignals
             /\ gen' <= sigs' /\ (reloading' => gen' < sigs')
             /\ (mpc' = "wait" => retry' <= MaxRetry)
      BY <1>8 DEF RunFail, RunReady, ServeEnd
<1>9. CASE UNCHANGED vars
      BY <1>9 DEF vars
<1>10. QED
      BY <1>1, <1>2, <1>3, <1>4, <1>5, <1>6, <1>7, <1>8, <1>9 DEF Next

LEMMA TypeStep == TypeInv /\ [Next]_vars => TypeInv'
BY FlagsStep, ObjsStep, CountersStep DEF TypeInv, TypeOK

\* Every reachable state is well typed, whatever the numbers of servers,
\* retries and signals: in particular the readiness loop's retryCount never
\* passes MaxRetry + 1, and start() never makes more generations of
\* servers than it has handled SIGHUPs.
THEOREM TypeOKHolds == Spec => []TypeOK
<1>1. TypeInv => TypeOK
      BY DEF TypeInv
<1>2. QED
      BY TypeInit, TypeStep, <1>1, PTL DEF Spec

-----------------------------------------------------------------------------
(* The shutdown properties.                                                *)

\* A server object of the current generation is a pair of gen and a server.
LEMMA CurrentObj ==
    ASSUME TypeOK, NEW s \in Servers
    PROVE  <<gen, s>> \in Objs /\ <<gen, s>> \in Current
BY DEF TypeOK, Objs, Current

\* The generation of a server object is a number.
LEMMA ObjGen ==
    ASSUME NEW o \in Objs
    PROVE  o[1] \in Gens /\ o = <<o[1], o[2]>> /\ o[2] \in Servers
BY DEF Objs

\* cleanup() stops every current server and starts none.
LEMMA ShutdownStops ==
    ASSUME TypeOK, ShutdownAll, gen' = gen
    PROVE  /\ CurrentStopped'
           /\ \A o \in Objs : ~srun[o] => ~srun'[o]
<1>1. CurrentStopped'
      BY CurrentObj DEF ShutdownAll, CurrentStopped
<1>2. \A o \in Objs : ~srun[o] => ~srun'[o]
      BY DEF ShutdownAll
<1>3. QED
      BY <1>1, <1>2

LEMMA StopInit == Init => StopInv
<1> SUFFICES ASSUME Init PROVE StopInv
    OBVIOUS
<1>1. TypeInv
      BY TypeInit
<1>2. OldGenerationsStopped
      BY ObjGen DEF Init, OldGenerationsStopped, Gens
<1>3. QED
      BY <1>1, <1>2 DEF Init, StopInv, ExitClean

\* Steps that change neither the main thread's flags nor the servers'
\* running flags keep every conjunct.
LEMMA QuietStep ==
    ASSUME StopInv, UNCHANGED <<mpc, gen, running, reloading, srun>>
    PROVE  /\ OldGenerationsStopped' /\ ExitClean'
           /\ (mpc = "sleep" /\ ~running => CurrentStopped)'
           /\ (reloading => CurrentStopped)'
BY DEF StopInv, OldGenerationsStopped, ExitClean, CurrentStopped

LEMMA StopStep == StopInv /\ [Next]_vars => StopInv'
<1> SUFFICES ASSUME StopInv, [Next]_vars
             PROVE  /\ OldGenerationsStopped' /\ ExitClean'
                    /\ (mpc = "sleep" /\ ~running => CurrentStopped)'
                    /\ (reloading => CurrentStopped)'
    BY TypeStep DEF StopInv
<1>1. CASE Spawn \/ WaitPoll
      <2>1. mpc' \in {"wait", "status"}
            BY <1>1 DEF Spawn, WaitPoll
      <2>2. UNCHANGED <<gen, running, reloading, srun>>
            BY <1>1 DEF Spawn, WaitPoll
      <2>3. QED
            BY <2>1, <2>2 DEF StopInv, OldGenerationsStopped, ExitClean,
                              CurrentStopped
<1>2. CASE Status
      BY <1>2 DEF Status, StopInv, OldGenerationsStopped, ExitClean,
                  CurrentStopped
<1>3. CASE Wake /\ reloading
      <2>1. gen' = gen + 1 /\ mpc' = "spawn" /\ ~reloading'
            /\ UNCHANGED srun
            BY <1>3 DEF Wake
      <2>2. OldGenerationsStopped'
            <3> SUFFICES ASSUME NEW o \in Objs, o[1] < gen + 1 PROVE ~srun[o]
                BY <2>1 DEF OldGenerationsStopped
            <3>1. CASE o[1] < gen
                  BY <3>1 DEF StopInv, OldGenerationsStopped
            <3>2. CASE o[1] = gen
                  BY <3>2, <1>3, ObjGen DEF StopInv, CurrentStopped
            <3>3. QED
                  BY <3>1, <3>2, ObjGen DEF StopInv, TypeInv, TypeOK, Gens
      <2>3. QED
            BY <2>1, <2>2 DEF ExitClean
<1>4. CASE Wake /\ ~reloading
      <2>1. mpc' = "exit" /\ UNCHANGED <<gen, reloading, running, srun>>
            BY <1>4 DEF Wake
      <2>2. ExitClean'
            <3> SUFFICES ASSUME NEW o \in Objs, o[1] <= gen PROVE ~srun[o]
                BY <2>1 DEF ExitClean
            <3>1. CASE o[1] < gen
                  BY <3>1 DEF StopInv, OldGenerationsStopped
            <3>2. CASE o[1] = gen
                  BY <3>2, <1>4, ObjGen DEF StopInv, CurrentStopped, Wake
            <3>3. QED
                  BY <3>1, <3>2, ObjGen DEF StopInv, TypeInv, TypeOK, Gens
      <2>3. QED
            BY <2>1, <2>2, <1>4 DEF StopInv, OldGenerationsStopped
<1>5. CASE Sigterm \/ Sighup
      <2>1. /\ ShutdownAll /\ ~running' /\ gen' = gen /\ mpc' = mpc
            /\ mpc # "exit"
            BY <1>5 DEF Sigterm, Sighup
      <2>2. CurrentStopped' /\ \A o \in Objs : ~srun[o] => ~srun'[o]
            BY <2>1, ShutdownStops DEF StopInv, TypeInv
      <2>3. QED
            BY <2>1, <2>2 DEF StopInv, OldGenerationsStopped, ExitClean
<1>6. ASSUME NEW o \in Objs, RunFail(o) \/ RunReady(o) \/ ServeEnd(o)
      PROVE  /\ OldGenerationsStopped' /\ ExitClean'
             /\ (mpc = "sleep" /\ ~running => CurrentStopped)'
             /\ (reloading => CurrentStopped)'
      BY <1>6, QuietStep DEF RunFail, RunReady, ServeEnd
<1>7. CASE UNCHANGED vars
      BY <1>7, QuietStep DEF vars
<1>8. QED
      BY <1>1, <1>2, <1>3, <1>4, <1>5, <1>6, <1>7 DEF Next

\* When start() returns, every server built so far, of every generation,
\* has been told to stop: a SIGTERM's cleanup() stopped the current ones,
\* and each reload stopped the generation it replaced.
THEOREM ExitCleanHolds == Spec => []ExitClean
<1>1. StopInv => ExitClean
      BY DEF StopInv
<1>2. QED
      BY StopInit, StopStep, <1>1, PTL DEF Spec

\* After any number of SIGHUP reloads, no server of an older generation
\* is still running: two generations never serve at once.
THEOREM OldGenerationsStoppedHolds == Spec => []OldGenerationsStopped
<1>1. StopInv => OldGenerationsStopped
      BY DEF StopInv
<1>2. QED
      BY StopInit, StopStep, <1>1, PTL DEF Spec

=============================================================================
