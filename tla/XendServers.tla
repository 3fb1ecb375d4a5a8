----------------------------- MODULE XendServers -----------------------------
(***************************************************************************)
(* xend's server lifecycle: XendServers.start, cleanup and reloadConfig   *)
(* (xend/server/SrvServer.py) and the run loop and shutdown of each        *)
(* XMLRPCServer (xend/server/XMLRPCServer.py).                             *)
(*                                                                         *)
(* The main thread starts one thread per server that is not ready, polls  *)
(* the servers' ready flags every half second (giving up after            *)
(* MaxRetry + 1 polls), then sets running and sleeps until a signal       *)
(* handler clears it.  SIGTERM (cleanup) and SIGHUP (reloadConfig) run in *)
(* the main thread between two of its steps and shut down the current    *)
(* servers.  A reload replaces self.servers by a new generation built by  *)
(* _loadConfig; threads of an old generation go on until they end.        *)
(***************************************************************************)
EXTENDS Naturals

CONSTANTS
    Servers,      \* the servers _loadConfig builds (one configuration)
    MaxRetry,     \* the retryCount bound of start() (60 in the code)
    MaxSignals    \* how many signals the environment sends

ASSUME MaxRetryAssumption == MaxRetry \in Nat \ {0}
ASSUME MaxSignalsAssumption == MaxSignals \in Nat

\* A reload is the only way to a new generation, so MaxSignals bounds them.
Gens == 0 .. MaxSignals

\* A server object: the generation of self.servers it belongs to, and its
\* place in the configuration.
Objs == Gens \X Servers

VARIABLES
    mpc,          \* where the main thread is in start()
    gen,          \* the generation self.servers holds
    retry,        \* retryCount
    running,      \* XendServers.running
    cleaningUp,   \* XendServers.cleaningUp
    reloading,    \* XendServers.reloadingConfig
    spc,          \* where each server object's thread is
    ready,        \* server.ready
    srun,         \* server.running
    sigs,         \* signals handled so far
    stopAsked     \* ghost: a SIGTERM has been handled

vars == <<mpc, gen, retry, running, cleaningUp, reloading, spc, ready, srun,
          sigs, stopAsked>>

\* "new": no thread yet; "run": inside run() before the serve loop;
\* "serve": in "while self.running: handle_request()"; "done": returned.
ThreadPC == {"new", "run", "serve", "done"}

MainPC == {"spawn", "wait", "status", "sleep", "exit"}

Current == {gen} \X Servers

\* create() builds the generation-0 servers: XMLRPCServer.__init__ sets
\* ready = False and running = True.
Init ==
    /\ mpc = "spawn"
    /\ gen = 0
    /\ retry = 0
    /\ running = FALSE
    /\ cleaningUp = FALSE
    /\ reloading = FALSE
    /\ spc = [o \in Objs |-> "new"]
    /\ ready = [o \in Objs |-> FALSE]
    /\ srun = [o \in Objs |-> TRUE]
    /\ sigs = 0
    /\ stopAsked = FALSE

-----------------------------------------------------------------------------
(* The main thread, XendServers.start.                                     *)

\* "for server in self.servers: if server.ready: continue" and start a
\* daemon thread on server.run; then retryCount = 0.
Spawn ==
    /\ mpc = "spawn"
    /\ spc' = [o \in Objs |-> IF o \in Current /\ ~ready[o] THEN "run"
                                                           ELSE spc[o]]
    /\ retry' = 0
    /\ mpc' = "wait"
    /\ UNCHANGED <<gen, running, cleaningUp, reloading, ready, srun, sigs,
                   stopAsked>>

\* Mutant: the "break" of "if retryCount > 60" indented under the logging
\* loop's if, so the readiness loop only logs and goes on counting.
WaitPollNoBreak ==
    /\ mpc = "wait"
    /\ IF \A o \in Current : ready[o]
       THEN mpc' = "status" /\ UNCHANGED retry
       ELSE retry' = retry + 1 /\ UNCHANGED mpc
    /\ UNCHANGED <<gen, running, cleaningUp, reloading, spc, ready, srun,
                   sigs, stopAsked>>

\* Mutant: "retryCount = 0" moved inside the while loop, so the count
\* starts again at every pass and never exceeds the bound.
WaitPollCounterReset ==
    /\ mpc = "wait"
    /\ IF \A o \in Current : ready[o]
       THEN mpc' = "status" /\ UNCHANGED retry
       ELSE /\ retry' = 1
            /\ mpc' = IF 1 > MaxRetry THEN "status" ELSE "wait"
    /\ UNCHANGED <<gen, running, cleaningUp, reloading, spc, ready, srun,
                   sigs, stopAsked>>

\* One pass of the readiness loop: all ready ends it; otherwise sleep .5,
\* "retryCount += 1", and "if retryCount > 60" log the servers that did
\* not initialise and break. The count thus reaches MaxRetry + 1.
WaitPoll ==
    /\ mpc = "wait"
    /\ IF \A o \in Current : ready[o]
       THEN mpc' = "status" /\ UNCHANGED retry
       ELSE /\ retry' = retry + 1
            /\ mpc' = IF retry + 1 > MaxRetry THEN "status" ELSE "wait"
    /\ UNCHANGED <<gen, running, cleaningUp, reloading, spc, ready, srun,
                   sigs, stopAsked>>

\* Close the status pipe, autostart pools and domains, then
\* "self.running = True" before the sleep loop.
Status ==
    /\ mpc = "status"
    /\ running' = TRUE
    /\ mpc' = "sleep"
    /\ UNCHANGED <<gen, retry, cleaningUp, reloading, spc, ready, srun, sigs,
                   stopAsked>>

\* "while self.running: time.sleep(...)" ends once a handler has cleared
\* running.  With reloadingConfig the servers are rebuilt and the outer
\* loop starts them; otherwise start() returns.
Wake ==
    /\ mpc = "sleep"
    /\ ~running
    /\ IF reloading
       THEN /\ cleaningUp' = FALSE
            /\ reloading' = FALSE
            /\ gen' = gen + 1
            /\ mpc' = "spawn"
       ELSE /\ mpc' = "exit"
            /\ UNCHANGED <<cleaningUp, reloading, gen>>
    /\ UNCHANGED <<retry, running, spc, ready, srun, sigs, stopAsked>>

-----------------------------------------------------------------------------
(* Signal handlers.  Python runs them in the main thread, between two of   *)
(* its steps, so never once start() has returned.                          *)

\* XMLRPCServer.shutdown on every current server: running = False; if
\* ready: ready = False and close the socket.
ShutdownAll ==
    /\ srun' = [o \in Objs |-> IF o \in Current THEN FALSE ELSE srun[o]]
    /\ ready' = [o \in Objs |-> IF o \in Current THEN FALSE ELSE ready[o]]

\* Mutant: cleanup() that forgets to shut the servers down.
SigtermNoShutdown ==
    /\ mpc # "exit"
    /\ sigs < MaxSignals
    /\ cleaningUp' = TRUE
    /\ running' = FALSE
    /\ sigs' = sigs + 1
    /\ stopAsked' = TRUE
    /\ UNCHANGED <<mpc, gen, retry, reloading, spc, ready, srun>>

\* SIGTERM: cleanup(): cleaningUp = True, shut down each server,
\* cleanup_domains, running = False.
Sigterm ==
    /\ mpc # "exit"
    /\ sigs < MaxSignals
    /\ cleaningUp' = TRUE
    /\ ShutdownAll
    /\ running' = FALSE
    /\ sigs' = sigs + 1
    /\ stopAsked' = TRUE
    /\ UNCHANGED <<mpc, gen, retry, reloading, spc>>

\* Mutant: reloadConfig() that only clears running, without cleanup().
SighupNoShutdown ==
    /\ mpc # "exit"
    /\ sigs < MaxSignals
    /\ reloading' = TRUE
    /\ cleaningUp' = TRUE
    /\ running' = FALSE
    /\ sigs' = sigs + 1
    /\ UNCHANGED <<mpc, gen, retry, spc, ready, srun, stopAsked>>

\* SIGHUP: reloadConfig(): reloadingConfig = True, then cleanup(...,
\* reloading = True), which does not clean up domains.
Sighup ==
    /\ mpc # "exit"
    /\ sigs < MaxSignals
    /\ reloading' = TRUE
    /\ cleaningUp' = TRUE
    /\ ShutdownAll
    /\ running' = FALSE
    /\ sigs' = sigs + 1
    /\ UNCHANGED <<mpc, gen, retry, spc, stopAsked>>

-----------------------------------------------------------------------------
(* Server threads, XMLRPCServer.run.                                       *)

\* Opening the socket raises (socket.error or another exception): the
\* handler assigns the locals "ready = True" and "running = False" and
\* returns, leaving self.ready False.
RunFail(o) ==
    /\ spc[o] = "run"
    /\ spc' = [spc EXCEPT ![o] = "done"]
    /\ UNCHANGED <<mpc, gen, retry, running, cleaningUp, reloading, ready,
                   srun, sigs, stopAsked>>

\* The socket opens; the functions are registered; self.ready = True.
RunReady(o) ==
    /\ spc[o] = "run"
    /\ ready' = [ready EXCEPT ![o] = TRUE]
    /\ spc' = [spc EXCEPT ![o] = "serve"]
    /\ UNCHANGED <<mpc, gen, retry, running, cleaningUp, reloading, srun,
                   sigs, stopAsked>>

\* "while self.running: handle_request()" ends once running is False (a
\* request after shutdown, or the closed socket raising); the finally
\* clause calls self.shutdown().
ServeEnd(o) ==
    /\ spc[o] = "serve"
    /\ ~srun[o]
    /\ ready' = [ready EXCEPT ![o] = FALSE]
    /\ spc' = [spc EXCEPT ![o] = "done"]
    /\ UNCHANGED <<mpc, gen, retry, running, cleaningUp, reloading, srun,
                   sigs, stopAsked>>

Next ==
    \/ Spawn \/ WaitPoll \/ Status \/ Wake
    \/ Sigterm \/ Sighup
    \/ \E o \in Objs : RunFail(o) \/ RunReady(o) \/ ServeEnd(o)

Spec == Init /\ [][Next]_vars

\* The main thread and each server thread are threads of one process that
\* the interpreter keeps scheduling: none stops forever while it can step.
\* Signals come from outside and are left outside fairness.
MainStep == Spawn \/ WaitPoll \/ Status \/ Wake

Fairness ==
    /\ WF_vars(MainStep)
    /\ \A o \in Objs : WF_vars(RunFail(o) \/ RunReady(o))
    /\ \A o \in Objs : WF_vars(ServeEnd(o))

FairSpec == Spec /\ Fairness

-----------------------------------------------------------------------------
(* Properties.                                                             *)

\* The variables keep their types.
TypeOK ==
    /\ mpc \in MainPC
    /\ gen \in Gens
    /\ retry \in 0 .. MaxRetry + 1
    /\ running \in BOOLEAN
    /\ cleaningUp \in BOOLEAN
    /\ reloading \in BOOLEAN
    /\ spc \in [Objs -> ThreadPC]
    /\ ready \in [Objs -> BOOLEAN]
    /\ srun \in [Objs -> BOOLEAN]
    /\ sigs \in 0 .. MaxSignals
    /\ stopAsked \in BOOLEAN

\* When start() returns, every server built so far, of every generation,
\* has been told to stop (its running flag is False), so no serve loop
\* outlives xend's main thread.
ExitClean ==
    mpc = "exit" => \A o \in Objs : o[1] <= gen => ~srun[o]

\* After a reload, the servers of the old generations are shut down, so
\* two generations never serve at once.
OldGenerationsStopped ==
    \A o \in Objs : o[1] < gen => ~srun[o]

\* The startup wait only waits for servers that are still initialising:
\* once every current server's run() has either failed or reached its
\* serve loop, all of them count as ready (the error paths of run() are
\* meant to set ready).
StartupWaitRelease ==
    mpc = "wait" /\ ~cleaningUp /\ (\A o \in Current : spc[o] # "run")
        => \A o \in Current : ready[o]

\* A SIGTERM that xend has handled is never undone: the main thread does
\* not go back to sleeping with running set.
NoLostStop ==
    stopAsked => ~(mpc = "sleep" /\ running)

\* Every pass of start()'s outer loop gets through the startup wait to the
\* sleep loop, even when a server's run() has failed and never sets ready:
\* the retry bound, not the servers, ends the wait.
StartupEnds ==
    mpc = "spawn" ~> mpc = "sleep"

=============================================================================
