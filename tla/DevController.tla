---------------------------- MODULE DevController ----------------------------
(***************************************************************************)
(* The xend device controller (tools/python/xen/xend/server/               *)
(* DevController.py) driving one device class of one guest domain through *)
(* the xenstore.                                                            *)
(*                                                                          *)
(* Several xend request threads (Threads) call createDevice,               *)
(* waitForDevice, destroyDevice and allocateDeviceID concurrently.  Every  *)
(* store call of the code is one step, so that the steps of different      *)
(* threads interleave exactly where the code lets them: a transaction      *)
(* (xstransact) is a begin step that reads and a commit step that applies  *)
(* all its writes or fails on a conflict, and a one-shot call such as      *)
(* xstransact.Read / Write / Remove is a step of its own.                   *)
(*                                                                          *)
(* The store is abstracted to what the properties tell apart, per device  *)
(* id d of this class:                                                     *)
(*   dev[d]  the record /vm/<uuid>/device/<class>/<d> (deviceIDs lists it);*)
(*   fe[d]   the frontend directory <domain>/device/<class>/<d>;           *)
(*   be[d]   the backend directory .../backend/<class>/<domid>/<d>, or     *)
(*           NONE; its fields online, state and hotplug-status, and ref,   *)
(*           whether it holds the record createDevice wrote (frontend      *)
(*           reference) or was created implicitly by a lone field write;   *)
(*   nextID  <domain>/device-misc/<class>/nextDeviceID, or NONE.           *)
(*                                                                          *)
(* The hotplug scripts and the backend driver are the environment: they    *)
(* write hotplug-status and, once a backend is offline and Closing, remove *)
(* the device (xen-hotplug-cleanup).                                       *)
(***************************************************************************)
EXTENDS Naturals

CONSTANTS
    Threads,    \* xend threads that call into the controller
    Devs,       \* device ids that configurations of this class name
    MaxAlloc,   \* bound on the nextDeviceID counter
    NONE        \* an absent store node

\* Device ids are the integers of the devid key; a class has at least one.
ASSUME DevIDsAssumption == Devs \subseteq Nat
ASSUME DevsAssumption == Devs # {}
ASSUME MaxAllocAssumption == MaxAlloc \in Nat
ASSUME NoneAssumption == NONE \notin Nat

VARIABLES
    dev, fe, be, nextID,   \* the store
    pc,                    \* where each thread is in its current call
    arg,                   \* the device id the thread's call is about
    force,                 \* the force argument of destroyDevice
    bp,                    \* readVm(dev, "backend") returned a path (force)
    conflict,              \* the thread's open transaction has conflicted
    snap,                  \* nextDeviceID as read in the thread's txn
    result,                \* result['status'] of the thread's hotplug wait
    allocated,             \* ghost: times each id was returned by allocate
    commits,               \* ghost: create commits since dev[d] appeared
    stray                  \* the callbacks of timed-out waits still watching
                           \* d's hotplug-status

store == <<dev, fe, be, nextID>>
local == <<pc, arg, force, bp, conflict, snap, result>>
ghost == <<allocated, commits>>
vars == <<store, local, ghost, stray>>

-----------------------------------------------------------------------------
(* Values.                                                                 *)

\* xenbusState values written by xend or by the backend driver.
XbState == {"Initialising", "Connected", "Closing", "Closed"}

\* What the hotplug scripts write to hotplug-status.
HotplugValue == {"connected", "error", "busy"}

\* result['status'] of a wait (DevConstants Timeout, Connected, Error, Busy).
WaitStatus == {"Timeout", "Connected", "Error", "Busy", "Disconnected"}

Backend == [ref: BOOLEAN, online: {NONE, "0", "1"},
            state: XbState \cup {NONE}, hotplug: HotplugValue \cup {NONE}]

\* The backend record of addStoreEntries: online "1", state Initialising,
\* frontend reference, no hotplug-status yet.
FreshBackend ==
    [ref |-> TRUE, online |-> "1", state |-> "Initialising", hotplug |-> NONE]

\* The node xenstore creates when a field is written below a missing path.
BareBackend == [ref |-> FALSE, online |-> NONE, state |-> NONE, hotplug |-> NONE]

\* The backend directory as a write below it finds it.
BackendOrBare(d) == IF be[d] = NONE THEN BareBackend ELSE be[d]

\* xstransact.Read(<backend>/hotplug-status): None once the backend is gone.
HotplugStatus(d) == IF be[d] = NONE THEN NONE ELSE be[d].hotplug

\* The watch callbacks on hotplug-status: hotplugStatusCallback (create
\* wait) and deviceDestroyCallback (destroy wait).  Each returns 0, and so
\* ends its watch, when it reads a value that resolves it: any value for
\* the first, None for the second.
Callbacks == {"hotplug", "destroy"}

Resolves(k, d) ==
    IF k = "hotplug" THEN HotplugStatus(d) # NONE ELSE HotplugStatus(d) = NONE

\* Value of nextDeviceID as _allocateDeviceID reads it (0 when absent).
Counter == IF nextID = NONE THEN 0 ELSE nextID

AllocIDs == 0 .. (MaxAlloc - 1)

PC == {"idle", "cr_check", "cr_commit", "wt_wait", "dw_wait",
       "wb_on_read", "wb_on_write", "wb_st_read", "wb_st_write",
       "fd_read", "fd_rm_back", "fd_rm_front", "fd_rm_vm", "al_commit"}

-----------------------------------------------------------------------------
(* Transactions.  A store node is <<kind, d>>.  The device-class listing   *)
(* that deviceIDs(t) reads covers every <<"dev", d>>.                       *)

Node(kind, d) == <<kind, d>>

CounterNode == Node("next", 0)

\* The nodes the open transaction of thread t has read or will write.
TxnNodes(t) ==
    IF pc[t] = "cr_commit"
    THEN {Node("dev", x) : x \in Devs}
           \cup {Node("fe", arg[t]), Node("be", arg[t])}
    ELSE IF pc[t] = "al_commit" THEN {CounterNode} ELSE {}

\* A write to the nodes W makes every open transaction that touches one of
\* them fail at commit (xenstored's conflict check); a thread outside a
\* transaction has no conflict.
Conflicts(W, u) == TxnNodes(u) # {} /\ (conflict[u] \/ TxnNodes(u) \cap W # {})

\* A write by the environment.
Written(W) == conflict' = [u \in Threads |-> Conflicts(W, u)]

\* A write (or a commit) by thread t, which leaves any transaction it had.
WrittenBy(t, W) == conflict' = [u \in Threads |-> u # t /\ Conflicts(W, u)]

\* Finishing a call: the thread goes back to idle.
Return(t) == pc' = [pc EXCEPT ![t] = "idle"]

Goto(t, l) == pc' = [pc EXCEPT ![t] = l]

-----------------------------------------------------------------------------
Init ==
    /\ dev = [d \in Devs |-> FALSE]
    /\ fe = [d \in Devs |-> FALSE]
    /\ be = [d \in Devs |-> NONE]
    /\ nextID = NONE
    /\ pc = [t \in Threads |-> "idle"]
    /\ arg = [t \in Threads |-> CHOOSE d \in Devs : TRUE]
    /\ force = [t \in Threads |-> FALSE]
    /\ bp = [t \in Threads |-> FALSE]
    /\ conflict = [t \in Threads |-> FALSE]
    /\ snap = [t \in Threads |-> 0]
    /\ result = [t \in Threads |-> "Timeout"]
    /\ allocated = [v \in AllocIDs |-> 0]
    /\ commits = [d \in Devs |-> 0]
    /\ stray = [d \in Devs |-> {}]

-----------------------------------------------------------------------------
(* createDevice(config) for a configuration that names device id d.        *)
(* getDeviceDetails, setupDevice and addStoreEntries do not touch the      *)
(* store; an unknown backend domain raises before any store call, which   *)
(* leaves every variable unchanged and so is not a step.                   *)
CreateStart(t, d) ==
    /\ pc[t] = "idle"
    /\ Goto(t, "cr_check")
    /\ arg' = [arg EXCEPT ![t] = d]
    /\ UNCHANGED <<store, force, bp, conflict, snap, result, ghost, stray>>

\* Mutant: a retry reuses the conflicted transaction's state.
CreateCheckKeepsConflict(t) ==
    /\ pc[t] = "cr_check"
    /\ IF dev[arg[t]] THEN Return(t) ELSE Goto(t, "cr_commit")
    /\ UNCHANGED <<store, arg, force, bp, conflict, snap, result, ghost, stray>>

\* t = xstransact(); "if devid in self.deviceIDs(t)": raise "already
\* connected" (abort), or go on to write the entries.
CreateCheck(t) ==
    /\ pc[t] = "cr_check"
    /\ conflict' = [conflict EXCEPT ![t] = FALSE]
    /\ IF dev[arg[t]] THEN Return(t) ELSE Goto(t, "cr_commit")
    /\ UNCHANGED <<store, arg, force, bp, snap, result, ghost, stray>>

\* Mutant: the commit ignores conflicts.
CreateCommitNoConflict(t) ==
    /\ pc[t] = "cr_commit"
    /\ LET d == arg[t] IN
         /\ dev' = [dev EXCEPT ![d] = TRUE]
         /\ fe' = [fe EXCEPT ![d] = TRUE]
         /\ be' = [be EXCEPT ![d] = FreshBackend]
         /\ commits' = [commits EXCEPT ![d] = @ + 1]
         /\ WrittenBy(t, {Node("dev", d), Node("fe", d), Node("be", d)})
    /\ Return(t)
    /\ UNCHANGED <<nextID, arg, force, bp, snap, result, allocated, stray>>

\* t.remove x3, mkdir, set_permissions, write2 x3, then t.commit(): on
\* success the records replace whatever was at the three paths; on a
\* conflict the loop starts a new transaction.
CreateCommit(t) ==
    /\ pc[t] = "cr_commit"
    /\ \/ /\ conflict[t]
          /\ Goto(t, "cr_check")
          /\ UNCHANGED <<store, conflict, commits>>
       \/ /\ ~conflict[t]
          /\ LET d == arg[t] IN
               /\ dev' = [dev EXCEPT ![d] = TRUE]
               /\ fe' = [fe EXCEPT ![d] = TRUE]
               /\ be' = [be EXCEPT ![d] = FreshBackend]
               /\ commits' = [commits EXCEPT ![d] = @ + 1]
               /\ WrittenBy(t, {Node("dev", d), Node("fe", d), Node("be", d)})
          /\ Return(t)
          /\ UNCHANGED nextID
    /\ UNCHANGED <<arg, force, bp, snap, result, allocated, stray>>

-----------------------------------------------------------------------------
(* waitForDevice(d) with hotplug on.  waitForBackend reads the backend    *)
(* path from the /vm device record: none means Missing (raise, nothing to *)
(* destroy); otherwise it watches <backend>/hotplug-status with result    *)
(* Timeout and waits on the event.                                         *)
WaitStart(t, d) ==
    /\ pc[t] = "idle"
    /\ arg' = [arg EXCEPT ![t] = d]
    /\ IF dev[d]
       THEN /\ Goto(t, "wt_wait")
            /\ result' = [result EXCEPT ![t] = "Timeout"]
       ELSE /\ UNCHANGED <<pc, result>>
    /\ UNCHANGED <<store, force, bp, conflict, snap, ghost, stray>>

\* hotplugStatusCallback: a watch event reads hotplug-status; None keeps
\* watching (no change), a value resolves the wait and ends the watch.
HotplugStatusCallback(t) ==
    /\ pc[t] = "wt_wait"
    /\ result[t] = "Timeout"
    /\ be[arg[t]] # NONE
    /\ be[arg[t]].hotplug # NONE
    /\ result' = [result EXCEPT ![t] =
                    CASE be[arg[t]].hotplug = "error" -> "Error"
                      [] be[arg[t]].hotplug = "busy"  -> "Busy"
                      [] OTHER                         -> "Connected"]
    /\ UNCHANGED <<store, pc, arg, force, bp, conflict, snap, ghost, stray>>

\* ev.wait(DEVICE_CREATE_TIMEOUT) returns, on the event or on the timeout,
\* and result['status'] is read.  Connected returns; Timeout, Error and
\* Busy call destroyDevice(devid, False) and then raise.  On Timeout the
\* callback has not returned 0 yet, so xswatch keeps its watch: the wait is
\* abandoned and the watch stays registered (stray).
WaitReturn(t) ==
    /\ pc[t] = "wt_wait"
    /\ IF result[t] = "Connected"
       THEN Return(t) /\ UNCHANGED force
       ELSE /\ Goto(t, "wb_on_read")
            /\ force' = [force EXCEPT ![t] = FALSE]
    /\ stray' = IF result[t] = "Timeout"
                THEN [stray EXCEPT ![arg[t]] = @ \cup {"hotplug"}]
                ELSE stray
    /\ result' = [result EXCEPT ![t] = "Timeout"]
    /\ UNCHANGED <<store, arg, bp, conflict, snap, ghost>>

-----------------------------------------------------------------------------
(* destroyDevice(d, f).  writeBackend(dev, key, v) is readVm(dev,          *)
(* "backend") followed by xstransact.Write(backpath, key, v): two calls,   *)
(* with no transaction around them.                                        *)
DestroyStart(t, d, f) ==
    /\ pc[t] = "idle"
    /\ Goto(t, "wb_on_read")
    /\ arg' = [arg EXCEPT ![t] = d]
    /\ force' = [force EXCEPT ![t] = f]
    /\ UNCHANGED <<store, bp, conflict, snap, result, ghost, stray>>

\* readVm(dev, "backend"): no path raises "Device not connected".
ReadVmBackend(t, next) ==
    IF dev[arg[t]] THEN Goto(t, next) ELSE Return(t)

WriteBackendRead(t) ==
    /\ pc[t] \in {"wb_on_read", "wb_st_read"}
    /\ IF pc[t] = "wb_on_read" THEN ReadVmBackend(t, "wb_on_write")
                               ELSE ReadVmBackend(t, "wb_st_write")
    /\ UNCHANGED <<store, arg, force, bp, conflict, snap, result, ghost, stray>>

\* Mutant: the first write of destroyDevice is the state write.
WriteOnlineSwapped(t) ==
    /\ pc[t] = "wb_on_write"
    /\ be' = [be EXCEPT ![arg[t]] = [BackendOrBare(arg[t]) EXCEPT !.state = "Closing"]]
    /\ WrittenBy(t, {Node("be", arg[t])})
    /\ Goto(t, "wb_st_read")
    /\ UNCHANGED <<dev, fe, nextID, arg, force, bp, snap, result, ghost, stray>>

\* Mutant: online written as str(False), "False", rather than "0".
WriteOnlineBool(t) ==
    /\ pc[t] = "wb_on_write"
    /\ be' = [be EXCEPT ![arg[t]] = [BackendOrBare(arg[t]) EXCEPT !.online = "False"]]
    /\ WrittenBy(t, {Node("be", arg[t])})
    /\ Goto(t, "wb_st_read")
    /\ UNCHANGED <<dev, fe, nextID, arg, force, bp, snap, result, ghost, stray>>

\* xstransact.Write(backpath, 'online', "0"); the write creates the node if
\* the backend has gone meanwhile.
WriteOnline(t) ==
    /\ pc[t] = "wb_on_write"
    /\ be' = [be EXCEPT ![arg[t]] = [BackendOrBare(arg[t]) EXCEPT !.online = "0"]]
    /\ WrittenBy(t, {Node("be", arg[t])})
    /\ Goto(t, "wb_st_read")
    /\ UNCHANGED <<dev, fe, nextID, arg, force, bp, snap, result, ghost, stray>>

\* xstransact.Write(backpath, 'state', Closing); a non-forced destroy ends.
WriteClosing(t) ==
    /\ pc[t] = "wb_st_write"
    /\ be' = [be EXCEPT ![arg[t]] = [BackendOrBare(arg[t]) EXCEPT !.state = "Closing"]]
    /\ WrittenBy(t, {Node("be", arg[t])})
    /\ IF force[t] THEN Goto(t, "fd_read") ELSE Return(t)
    /\ UNCHANGED <<dev, fe, nextID, arg, force, bp, snap, result, ghost, stray>>

\* force: backpath = self.readVm(dev, "backend").
ForceReadBackpath(t) ==
    /\ pc[t] = "fd_read"
    /\ bp' = [bp EXCEPT ![t] = dev[arg[t]]]
    /\ Goto(t, "fd_rm_back")
    /\ UNCHANGED <<store, arg, force, conflict, snap, result, ghost, stray>>

\* if backpath: xstransact.Remove(backpath).
RemoveBackend(t) ==
    /\ pc[t] = "fd_rm_back"
    /\ IF bp[t]
       THEN /\ be' = [be EXCEPT ![arg[t]] = NONE]
            /\ WrittenBy(t, {Node("be", arg[t])})
       ELSE UNCHANGED <<be, conflict>>
    /\ bp' = [bp EXCEPT ![t] = FALSE]
    /\ Goto(t, "fd_rm_front")
    /\ UNCHANGED <<dev, fe, nextID, arg, force, snap, result, ghost, stray>>

\* xstransact.Remove(frontpath).
RemoveFrontend(t) ==
    /\ pc[t] = "fd_rm_front"
    /\ fe' = [fe EXCEPT ![arg[t]] = FALSE]
    /\ WrittenBy(t, {Node("fe", arg[t])})
    /\ Goto(t, "fd_rm_vm")
    /\ UNCHANGED <<dev, be, nextID, arg, force, bp, snap, result, ghost, stray>>

\* self.vm._removeVm("device/<class>/<dev>").
RemoveVmRecord(t) ==
    /\ pc[t] = "fd_rm_vm"
    /\ dev' = [dev EXCEPT ![arg[t]] = FALSE]
    /\ commits' = [commits EXCEPT ![arg[t]] = 0]
    /\ WrittenBy(t, {Node("dev", arg[t])})
    /\ Return(t)
    /\ UNCHANGED <<fe, be, nextID, arg, force, bp, snap, result, allocated, stray>>

-----------------------------------------------------------------------------
(* waitForDevice_destroy(d, backpath) with hotplug on, backpath being d's  *)
(* backend: it watches <backpath>/hotplug-status with deviceDestroyCallback *)
(* and result Timeout, and waits DEVICE_DESTROY_TIMEOUT.                   *)
DestroyWaitStart(t, d) ==
    /\ pc[t] = "idle"
    /\ Goto(t, "dw_wait")
    /\ arg' = [arg EXCEPT ![t] = d]
    /\ result' = [result EXCEPT ![t] = "Timeout"]
    /\ UNCHANGED <<store, force, bp, conflict, snap, ghost, stray>>

\* deviceDestroyCallback: hotplug-status read as None (the hotplug scripts
\* have removed it) resolves the wait with Disconnected and ends the watch;
\* a value keeps watching.
DeviceDestroyCallback(t) ==
    /\ pc[t] = "dw_wait"
    /\ result[t] = "Timeout"
    /\ HotplugStatus(arg[t]) = NONE
    /\ result' = [result EXCEPT ![t] = "Disconnected"]
    /\ UNCHANGED <<store, pc, arg, force, bp, conflict, snap, ghost, stray>>

\* ev.wait returns; Timeout raises "could not be disconnected" and leaves
\* the watch registered.
DestroyWaitReturn(t) ==
    /\ pc[t] = "dw_wait"
    /\ Return(t)
    /\ stray' = IF result[t] = "Timeout"
                THEN [stray EXCEPT ![arg[t]] = @ \cup {"destroy"}]
                ELSE stray
    /\ result' = [result EXCEPT ![t] = "Timeout"]
    /\ UNCHANGED <<store, arg, force, bp, conflict, snap, ghost>>

-----------------------------------------------------------------------------
(* allocateDeviceID: complete(path, _allocateDeviceID) reads nextDeviceID  *)
(* (0 when absent), writes it plus one and commits, retrying from a fresh  *)
(* read on a conflict.  The bound MaxAlloc caps the counter.               *)
AllocStart(t) ==
    /\ pc[t] = "idle"
    /\ Counter < MaxAlloc
    /\ Goto(t, "al_commit")
    /\ snap' = [snap EXCEPT ![t] = Counter]
    /\ conflict' = [conflict EXCEPT ![t] = FALSE]
    /\ UNCHANGED <<store, arg, force, bp, result, ghost, stray>>

\* Mutant: the commit ignores conflicts.
AllocCommitNoConflict(t) ==
    /\ pc[t] = "al_commit"
    /\ nextID' = snap[t] + 1
    /\ allocated' = [allocated EXCEPT ![snap[t]] = @ + 1]
    /\ WrittenBy(t, {CounterNode})
    /\ Return(t)
    /\ snap' = [snap EXCEPT ![t] = 0]
    /\ UNCHANGED <<dev, fe, be, arg, force, bp, result, commits, stray>>

AllocCommit(t) ==
    /\ pc[t] = "al_commit"
    /\ \/ /\ ~conflict[t]
          /\ nextID' = snap[t] + 1
          /\ allocated' = [allocated EXCEPT ![snap[t]] = @ + 1]
          /\ WrittenBy(t, {CounterNode})
          /\ Return(t)
          /\ snap' = [snap EXCEPT ![t] = 0]
       \/ /\ conflict[t]
          /\ Counter < MaxAlloc
          /\ snap' = [snap EXCEPT ![t] = Counter]
          /\ conflict' = [conflict EXCEPT ![t] = FALSE]
          /\ UNCHANGED <<pc, nextID, allocated>>
    /\ UNCHANGED <<dev, fe, be, arg, force, bp, result, commits, stray>>

-----------------------------------------------------------------------------
(* The environment: hotplug scripts and the backend driver.               *)

\* On the backend device appearing, the hotplug script reports its outcome.
HotplugReport(d, v) ==
    /\ be[d] # NONE
    /\ be[d].ref
    /\ be[d].online = "1"
    /\ be[d].hotplug = NONE
    /\ be' = [be EXCEPT ![d].hotplug = v]
    /\ Written({Node("be", d)})
    /\ UNCHANGED <<dev, fe, nextID, pc, arg, force, bp, snap, result, ghost, stray>>

\* Once the backend is offline and Closing the driver tears the device down
\* and xen-hotplug-cleanup removes frontend, backend and /vm device record.
HotplugCleanup(d) ==
    /\ be[d] # NONE
    /\ be[d].ref
    /\ be[d].online = "0"
    /\ be[d].state = "Closing"
    /\ dev' = [dev EXCEPT ![d] = FALSE]
    /\ fe' = [fe EXCEPT ![d] = FALSE]
    /\ be' = [be EXCEPT ![d] = NONE]
    /\ commits' = [commits EXCEPT ![d] = 0]
    /\ Written({Node("dev", d), Node("fe", d), Node("be", d)})
    /\ UNCHANGED <<nextID, pc, arg, force, bp, snap, result, allocated, stray>>

\* The callback k of a watch whose wait timed out runs in xend's xswatch
\* thread on a change of hotplug-status: it fills the abandoned result
\* and, when the value resolves it, returns 0 and xswatch removes the
\* watch (every watch of kind k on the path fires on the same change).
\* Otherwise it returns 1 and keeps the watch, which changes nothing.
StrayWatchFires(d, k) ==
    /\ k \in stray[d]
    /\ Resolves(k, d)
    /\ stray' = [stray EXCEPT ![d] = @ \ {k}]
    /\ UNCHANGED <<store, local, ghost>>

-----------------------------------------------------------------------------
Thread(t) ==
    \/ \E d \in Devs : CreateStart(t, d) \/ WaitStart(t, d) \/ DestroyWaitStart(t, d)
    \/ \E d \in Devs, f \in BOOLEAN : DestroyStart(t, d, f)
    \/ CreateCheck(t) \/ CreateCommit(t)
    \/ HotplugStatusCallback(t) \/ WaitReturn(t)
    \/ DeviceDestroyCallback(t) \/ DestroyWaitReturn(t)
    \/ WriteBackendRead(t) \/ WriteOnline(t) \/ WriteClosing(t)
    \/ ForceReadBackpath(t) \/ RemoveBackend(t) \/ RemoveFrontend(t)
    \/ RemoveVmRecord(t)
    \/ AllocStart(t) \/ AllocCommit(t)

Environment ==
    \E d \in Devs :
        \/ \E v \in HotplugValue : HotplugReport(d, v)
        \/ HotplugCleanup(d)
        \/ \E k \in Callbacks : StrayWatchFires(d, k)

Next == (\E t \in Threads : Thread(t)) \/ Environment

Spec == Init /\ [][Next]_vars

\* A thread inside a call keeps running: the interpreter schedules it,
\* xenstored answers each of its requests, and ev.wait returns at its
\* timeout at the latest.  xswatch's thread delivers watch events.  When
\* a call starts is up to xend's callers, and the hotplug scripts and the
\* backend driver may never act: no fairness for those.
InCall(t) == pc[t] # "idle"

Fairness ==
    /\ \A t \in Threads : WF_vars(InCall(t) /\ Thread(t))
    /\ \A d \in Devs, k \in Callbacks : WF_vars(StrayWatchFires(d, k))

FairSpec == Spec /\ Fairness

-----------------------------------------------------------------------------
(* Properties.                                                             *)

\* Every variable has its type.
TypeOK ==
    /\ dev \in [Devs -> BOOLEAN]
    /\ fe \in [Devs -> BOOLEAN]
    /\ be \in [Devs -> Backend \cup {NONE}]
    /\ nextID \in (0 .. MaxAlloc) \cup {NONE}
    /\ pc \in [Threads -> PC]
    /\ arg \in [Threads -> Devs]
    /\ force \in [Threads -> BOOLEAN]
    /\ bp \in [Threads -> BOOLEAN]
    /\ conflict \in [Threads -> BOOLEAN]
    /\ snap \in [Threads -> 0 .. MaxAlloc]
    /\ result \in [Threads -> WaitStatus]
    /\ allocated \in [AllocIDs -> Nat]
    /\ commits \in [Devs -> Nat]
    /\ stray \in [Devs -> SUBSET Callbacks]

\* allocateDeviceID never hands the same id to two callers, however the
\* read-increment-write transactions of concurrent threads interleave.
AllocUnique == \A v \in AllocIDs : allocated[v] <= 1

\* Between the appearance of a device's /vm record and its removal, at most
\* one createDevice transaction commits for that id: a concurrent second
\* create of the same id raises "already connected" instead of overwriting.
OneCreatePerRecord == \A d \in Devs : commits[d] <= 1

\* destroyDevice's comment: online goes to "0" before state goes to
\* Closing, so a backend driver never sees Closing on an online device.
\* Stated for backend records written by createDevice (the ones a driver
\* binds to), not for bare nodes a stray write leaves behind.
OnlineBeforeClosing ==
    \A d \in Devs :
        be[d] # NONE /\ be[d].ref /\ be[d].state = "Closing" => be[d].online = "0"

Quiescent == \A t \in Threads : pc[t] = "idle"

\* When no call is in progress a device's backend directory exists exactly
\* when its frontend directory does (neither is left behind by destroy).
BackendPairing == Quiescent => \A d \in Devs : (be[d] # NONE) = fe[d]

\* createDevice's transaction loop (retry on conflict, without a cap)
\* ends: it commits or raises "already connected" (spec 9 asks whether
\* the unbounded retry is safe under contention).
CreateReturns == \A t \in Threads : pc[t] \in {"cr_check", "cr_commit"} ~> pc[t] = "idle"

\* The watch a create or destroy wait registers is removed in the end
\* (spec 4.2: a wait unsubscribes once resolved), also when the wait timed
\* out.
StrayWatchRemoved ==
    \A d \in Devs, k \in Callbacks : k \in stray[d] ~> k \notin stray[d]

=============================================================================
