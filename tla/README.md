# Formal models of xend's device controller, its server lifecycle and the remus buffer pool

This directory holds TLA+ models of the concurrent parts of the Python
tools in `src/tools`:

- xend's `DevController` over xenstore;
- xend's server lifecycle (`XendServers` and `XMLRPCServer`);
- the remus network-buffer pool.

It also holds TLC configurations that model-check the models on small
instances, and TLAPS proofs, for every instance, of the main invariants of
all three models and of the pool's refinement of an abstract allocation
table.

## 1. The system

### 1.1 Parts and how they interact

| Part | Source | State it owns | Operations that change state |
|---|---|---|---|
| Device Controller | `xend/server/DevController.py` | For each device id of one class: the /vm device record `<vm>/device/<class>/<id>` (holding the backend path), the frontend directory and the backend directory (`online`, `state`, `hotplug-status`). The `nextDeviceID` counter. | `createDevice`, `waitForDevice`, `destroyDevice`, `allocateDeviceID`, `waitForDevice_destroy`, `waitForDevice_reconfigure`, `reconfigureDevice` (raises), `migrate` and `recover_migrate` (external tool) |
| Hotplug Status Watcher | `DevController.py` 627-677 | The `result` dict and event of one wait | `hotplugStatusCallback`, `deviceDestroyCallback`, `xenbusStatusCallback` |
| Transaction Helper | `xstransact` (not in this repository; spec section 4.3) | Open transactions | read, write, remove and commit with a conflict check; one-shot `Read`, `Write` and `Remove` |
| Netbufpool | `remus/device.py` 227-311 | The table file `/var/run/remus/<class>` (device → pid) and its flock | `get`, `put` (each does `load` and `save`) |
| BufferedNIC | `remus/device.py` 313-397 | `bufdev` and `installed` | `setup`, `postsuspend`/`install`, `commit`, `uninstall` |
| ReplicatedDisk | `remus/device.py` 27-105 | `ackwait` | `postsuspend`, `preresume`, `commit` |
| XendServers / XMLRPCServer | `xend/server/SrvServer.py`, `XMLRPCServer.py` | `running`, `cleaningUp`, `reloadingConfig`, and each server's `ready` and `running` | `start`, `cleanup` (SIGTERM), `reloadConfig` (SIGHUP), `XMLRPCServer.run` and `shutdown` |
| Vifctl, gentest, observe, xm-test script | | none | none (they run commands or print) |

How the parts interact:

- Many xend threads call one DevController at once.
  - The only thing they share is xenstore.
  - `createDevice` and `allocateDeviceID` run in transactions that xenstored
    fails at commit on a conflicting write, and then retry from a fresh read.
  - `destroyDevice` and `writeBackend` use one-shot calls, each its own
    transaction.
- The hotplug scripts and the backend driver are a second writer.
  - They report `hotplug-status`, which the watcher reads to end a wait.
  - Once a backend is offline and Closing, `xen-hotplug-cleanup` removes the
    device's nodes.
- Remus processes share one Netbufpool file under a flock.
  - A BufferedNIC takes one device from the pool when it is set up, and
    gives it back when it is uninstalled.
- XendServers starts one thread per server and waits for the servers'
  `ready` flags. Signal handlers in the main thread shut the servers down or
  reload them.

### 1.2 Hard behaviours

- **Interleavings of xend threads.**
  - Two creates of one device id.
  - A destroy whose `readVm` is stale when it writes.
  - Concurrent id allocation.
- **The hotplug cleanup racing destroy.** A one-shot write to a removed
  node recreates it.
- **Timeouts.** A timed-out `waitForDevice` destroys the device, possibly a
  newer one. The watch of a timed-out create or destroy wait is not
  removed; it ends only if its callback later reads a value that resolves
  it.
- **Retries.** The create loop retries without a bound.
- **Crashes.**
  - A remus process dies at any moment, inside `save()` too.
  - Its flock is released, and checkpid then calls its claims dead.
  - The kernel may give its pid to an unrelated process, and checkpid then
    calls its claims alive again.
- **Partial failure.** `setup()` raises after `pool.get()`.
- **Signals.** A SIGTERM or SIGHUP handler runs while `start()` is still
  waiting for the servers.

### 1.3 Properties per part

- **Device Controller.**
  - No device id is allocated twice.
  - At most one create commits per /vm record.
  - `online` becomes 0 before `state` becomes Closing.
  - A frontend and its backend exist together.
  - A create that has started returns, under fair scheduling of xend's
    threads (holds with one thread; violated when another thread keeps
    writing the class's listing).
  - The watch of a timed-out wait is eventually removed (violated).
- **Netbufpool.**
  - No buffer device is used by two live processes.
  - At most one live process is inside load-change-save.
  - No live process keeps a claim it does not use (violated).
  - The pool behaves as an atomic allocation table (refinement).
- **XendServers.**
  - When `start()` returns, every server built so far has been told to stop.
  - After a reload, no server of an old generation still serves.
  - A server that failed to start does not hold the startup wait (violated).
  - A SIGTERM handled at any time stops xend (violated).
  - Every pass of `start()` gets through the startup wait, under fair
    scheduling of its threads.

## 2. Modules

| Module | Models | Kind |
|---|---|---|
| `DevController.tla` | Device Controller, hotplug-status watcher (create and destroy waits, watches left by timed-out waits), transaction helper, hotplug scripts as environment | specification |
| `MCDevController.tla` + `MCDevController_*.cfg` | instances for TLC | model checking |
| `DevControllerProofs.tla` | type invariant, AllocUnique, OneCreatePerRecord for all constants | TLAPS proofs |
| `PoolAllocation.tla` | what the pool promises: an atomic table of owners with claim, release and death | abstract specification |
| `Netbufpool.tla` | Netbufpool and the pool calls of BufferedNIC, crashes and pid reuse; the refinement mapping to `PoolAllocation` | specification |
| `MCNetbufpool.tla` + `MCNetbufpool_*.cfg` | instances for TLC | model checking |
| `NetbufpoolProofs.tla` | type invariant, OneWriter, ExclusiveUse and the refinement for all constants | TLAPS proofs |
| `XendServers.tla` | XendServers.start, cleanup, reloadConfig; XMLRPCServer.run and shutdown | specification |
| `MCXendServers.tla` + `MCXendServers_*.cfg` | instances for TLC | model checking |
| `XendServersProofs.tla` | type invariant, ExitClean, OldGenerationsStopped for all constants | TLAPS proofs |

### 2.1 DevController.tla

**Constants.**
- `Threads`: the xend threads.
- `Devs`: the device ids the configurations name.
- `MaxAlloc`: the bound on `nextDeviceID`.
- `NONE`: an absent node.

**Store variables.**
- `dev[d]`: the /vm device record exists.
- `fe[d]`: the frontend directory exists.
- `be[d]`: the backend directory as a record `[ref, online, state,
  hotplug]`, or `NONE`. `ref` is FALSE for a node that a stray write
  recreated.
- `nextID`: the counter, `NONE` while absent.

**Per-thread variables.**
- `pc`: where each thread is in its call.
- `arg`, `force`: the call's arguments.
- `bp`: the backend path read by a forced destroy.
- `snap`: the counter as read in the transaction.
- `result`: the wait's `result['status']`.
- `conflict`: the open transaction has met a conflicting write.

**Watch variable.**
- `stray[d]`: the callbacks (`"hotplug"`, `"destroy"`) of timed-out waits
  whose watches on `d`'s `hotplug-status` are still registered.

**Ghost variables.**
- `allocated[v]`: how often id `v` was returned.
- `commits[d]`: the create commits since the record appeared.

**Transactions.**
- `TxnNodes(t)` is the set of nodes that thread `t`'s open transaction
  touches.
  - A create reads the whole device-class listing, so it touches every
    `<<"dev", d>>`, plus its own frontend and backend.
  - An allocation touches the counter node.
- A write to the nodes `W` sets `conflict` for every other open transaction
  that touches `W` (`WrittenBy`, `Written`).
  - This is the per-node check of oxenstored.
  - C xenstored fails every transaction on any commit, which only admits
    fewer interleavings.

**Actions and the code they model.** Line numbers are in `DevController.py`.

| Action | Code |
|---|---|
| `CreateStart` | `createDevice` 58-80: details, setup, store entries, backend domain |
| `CreateCheck` | 81-91: a new transaction, then `devid in self.deviceIDs(t)`: raise "already connected" |
| `CreateCommit` | 93-135: remove, mkdir, write of the three paths, `t.commit()`; a conflict loops back |
| `WaitStart` | `waitForBackend` 548-563: `readVm(backend)`; none is Missing; otherwise watch and wait |
| `HotplugStatusCallback` | 627-645 |
| `WaitReturn` | `waitForDevice` 143-177: Connected returns; Timeout, Error and Busy call `destroyDevice(devid, False)` |
| `DestroyStart` | 210-225 |
| `WriteBackendRead` | `writeBackend`'s `readVm` 468-474 |
| `WriteOnline` | `writeBackend`'s `Write`, line 228 |
| `WriteClosing` | `writeBackend`'s `Write`, line 229 |
| `ForceReadBackpath`, `RemoveBackend`, `RemoveFrontend`, `RemoveVmRecord` | 231-239 |
| `AllocStart`, `AllocCommit` | `allocateDeviceID` / `_allocateDeviceID` 396-416 |
| `DestroyWaitStart` | `waitForDevice_destroy` 179-185 with hotplug on, `waitForBackend_destroy` 566-574: watch and wait |
| `DeviceDestroyCallback` | 648-662: `hotplug-status` read as None resolves the wait with Disconnected |
| `DestroyWaitReturn` | 574-576 and 187-189: return; Timeout raises and leaves the watch registered |
| `StrayWatchFires` | `xswatch` running the callback of a watch left by a timed-out wait: it ends when the callback returns 0 |
| `HotplugReport`, `HotplugCleanup` | the hotplug scripts (environment, not in this repository) |

**What is abstracted.**
- Each thread's call is one `pc` path.
- Record contents are reduced to the fields that the properties and the
  guards read.
- Logging and paths are left out: a path is a `<<kind, id>>` pair.
- An unknown backend domain raises before any store call. That changes no
  variable, so it is not a step.
- The destroy wait takes a device id; its backend path is that device's.

**Fairness** (`FairSpec`).
- Weak fairness of every step of a thread inside a call (`InCall(t)`): the
  interpreter schedules each thread, xenstored answers each request, and
  `ev.wait` returns at its timeout at the latest.
- Weak fairness of `StrayWatchFires`: xswatch's thread delivers watch
  events.
- No fairness for starting a call (up to xend's callers) or for the hotplug
  scripts and the backend driver (they may never act).

### 2.2 Netbufpool.tla

**Constants.**
- `Procs`: the remus processes, each buffering one VIF.
- `BufDevs`: the device list of `getdevs()`.
- `CrashInSave`: whether a process may die between the truncation and the
  write of `save()`.
- `PidReuse`: whether the kernel may give a dead process's pid to an
  unrelated process.

**Variables.**
- `file`: the table file.
- `lock`: the flock holder.
- `alive`: the checkpid result.
- `ppc`: where each process is.
- `tbl`: the table a process has loaded and changed.
- `cur`: the device `get()` chose.
- `mine`: `self.bufdev`.
- `installed`: the BufferedNIC's `installed` flag.

**Actions.** Line numbers are in `device.py`.
- `GetLoad` (247-262): lock, load, `getfreedev`. No free device raises.
- `SaveTruncate` (`open(path, 'w')`, 298).
- `SaveWrite` (`writelines`, close, unlock, return; 299-301).
- `SetupDone` (349-365): the link lookup or the module load may raise.
- `Install` (367-382). Its raise on a foreign qdisc (374-376) changes
  no state and is left out: it is a stutter.
- `Uninstall` (384-397, with `put` 272-280): only if installed. A missing
  entry raises KeyError.
- `Crash`: the process ends, and its flock is released.
- `Respawn`: a dead process's pid is taken by a process that is not remus
  (`ppc = "foreign"`). `util.checkpid` then sees it alive.

**Refinement.** `PoolAllocation.tla` states what the table promises
(spec section 5): a live process that holds nothing claims a device whose
owner is absent or dead, releases only its own device, and may die.
`AbsOwner` maps the pool to it. While a process holding the lock is between
the truncation and the write of `save()`, the table is its in-memory
`tbl`; otherwise it is the file. So the truncation is the step at which a
`get()` or `put()` takes effect, and every other step is a stutter. The
mapping holds only without `CrashInSave` and `PidReuse`: a crash after
the truncation loses the whole table, and a reused pid brings a dead owner
back. `Claim` requires that the process holds nothing: `get()` does not
check this, but each remus process runs one BufferedNIC and calls
`get()` once, and the model's processes do the same.

### 2.3 XendServers.tla

**Constants.**
- `Servers`: the servers one `_loadConfig` builds.
- `MaxRetry`: the poll bound of `start()` (60 in the code).
- `MaxSignals`: how many signals the environment sends. Each SIGHUP may
  make a new generation, so `Gens = 0..MaxSignals` bounds the generations.

**Variables.** A server object is a pair `<<generation, server>>`; the ones
of generation `gen` are `self.servers`.
- `mpc`: where the main thread is in `start()`.
- `gen`, `retry`, `running`, `cleaningUp`, `reloading`: the fields and
  locals of `XendServers.start`.
- `spc`: where each server object's thread is (`new`, `run`, `serve`,
  `done`).
- `ready`, `srun`: each server's `self.ready` and `self.running`.
- `sigs`: signals handled; `stopAsked`: a ghost, a SIGTERM was handled.

**Actions.** Line numbers are in `SrvServer.py` unless said otherwise.
- `Spawn` (107-123): a thread for each current server that is not ready.
- `WaitPoll` (125-143): all ready ends the wait; else sleep and count,
  and break once `retryCount > MaxRetry`, so the count reaches
  `MaxRetry + 1` (61 in the code).
- `Status` (145-166): the status pipe, autostart, `self.running = True`.
- `Wake` (167-175): once running is cleared, reload (a new generation)
  or return.
- `Sigterm` (`cleanup`, 76-89) and `Sighup` (`reloadConfig`, 92-95). Python
  runs signal handlers in the main thread between two of its bytecodes, so
  each is one step of the main thread; `ShutdownAll` is
  `XMLRPCServer.shutdown` (269-273) on each current server.
- `RunFail`, `RunReady`, `ServeEnd` (`XMLRPCServer.run`, 126-248): the
  socket fails to open (and the handler sets locals only), or
  `self.ready = True`; the serve loop ends once running is False.

**Fairness** (`FairSpec`). Weak fairness of the main thread's steps of
`start()` (`MainStep`) and of each server thread's `run()`. They are
threads of one interpreter, which keeps scheduling them. Signals come from
outside and get no fairness.

## 3. Runs

| Run | Config | Expect | Checks | Shows |
|---|---|---|---|---|
| dc_concurrent | `MCDevController_concurrent.cfg`: 3 threads, `Devs = {0}`, `MaxAlloc = 2`, thread symmetry | pass (3.7 million states, about 2.5 minutes) | TypeOK, AllocUnique, OneCreatePerRecord | The transaction conflict check keeps ids unique and creates single, under every interleaving of three threads with the hotplug scripts. |
| dc_sequential | 1 thread, `Devs = {0, 1}`, `MaxAlloc = 2`, `FairSpec` | pass | OnlineBeforeClosing, CreateReturns | One destroy at a time writes online=0 before Closing. A create always returns when only the hotplug scripts write beside it: they write each backend a bounded number of times. |
| dc_online_race | 2 threads, `Devs = {0}` | violation | OnlineBeforeClosing | A stale `readVm` in `writeBackend` puts Closing onto a recreated, online backend. |
| dc_orphan | 1 thread, `Devs = {0}` | violation | BackendPairing | A destroy racing `xen-hotplug-cleanup` recreates a backend node with no frontend. |
| pool_exclusive | 3 processes, 2 devices, `CrashInSave = FALSE`, `PidReuse = FALSE`, no symmetry | pass | TypeOK, ExclusiveUse, ImplementsAllocation | With deaths outside `save()`, the flock and checkpid give each device to one live process, and the pool refines `PoolAllocation` under `AbsOwner`. |
| pool_crash | same, `CrashInSave = TRUE`, `PidReuse = TRUE` | pass | OneWriter | The flock, released on death, keeps load-change-save exclusive. |
| pool_crash_in_save | `CrashInSave = TRUE`, `PidReuse = FALSE` | violation | ExclusiveUse | A death between truncate and write empties the table, and two live processes get one device. |
| pool_stranded | `CrashInSave = FALSE` | violation | NoStrandedClaim | A `setup()` that raises after `get()` strands the claim. |
| srv_lifecycle | `MCXendServers_lifecycle.cfg`: 2 servers, `MaxRetry = 2`, `MaxSignals = 2`, `FairSpec`, no symmetry | pass (22,203 states) | TypeOK, ExitClean, OldGenerationsStopped, StartupEnds | Under every placement of SIGTERMs and SIGHUPs and of failing servers, `start()` returns only with every server stopped, and a reload stops the old generation. Every pass of `start()` reaches the sleep loop; the retry bound, not the servers, ends the wait when a server has failed. |
| srv_ready_flag | same | violation | StartupWaitRelease | A server whose socket fails never sets `self.ready`, and `start()` polls for it to the bound. |
| srv_lost_stop | same | violation | NoLostStop | A SIGTERM handled during the startup wait is overwritten by `self.running = True`. |
| dc_watch_leak | 1 thread, `Devs = {0}`, `FairSpec` | violation | StrayWatchRemoved | A wait that timed out leaves a watch that never ends once the device is gone. |

Each property of a passing run has a mutant in `PROJECT.json`. The mutant
is a plausible bug in the modelled code, and TLC finds it under the run's
configuration:

- a commit that ignores conflicts;
- swapped online/state writes;
- online written as `"False"`;
- `get()` or `put()` without the lock;
- the pid stored where the device belongs;
- `cleanup()` or `reloadConfig()` without the server shutdown;
- the `break` of the retry bound mis-indented, or `retryCount = 0` moved
  into the loop;
- checkpid's result inverted;
- a create retry that keeps the conflicted transaction.

**Bounds.**
- Three threads are enough for every pairing in a race:
  - two creates against a destroy;
  - two allocations against a create.
  One device id suffices because all the conflicts are on one id. The
  device-class listing makes creates of different ids conflict too, and
  `dc_sequential` covers two ids.
- `MaxAlloc = 2` lets two allocations succeed and a third thread race them; each thread may also start a destroy wait, which is what makes this the largest run.
- For the pool, three processes and two devices cover these cases:
  - a full pool;
  - a reclaim from a dead owner;
  - a third process arriving while one holds the lock and another has died.

- `pool_crash` allows pid reuse, so `Respawn` is explored; `pool_exclusive`
  excludes it, since the refinement needs it excluded.
- For liveness, `dc_sequential` has two ids: the create loop conflicts
  through the class listing, which needs a second id.
- For the servers, two servers let one fail while the other serves, and
  two signals give a SIGHUP followed by a SIGTERM, or two reloads.
  `MaxRetry = 2` keeps the polling loop short; its length changes nothing
  but the number of states.

**Deadlock.** The server configurations say `CHECK_DEADLOCK FALSE`: xend
rests sleeping until a signal, or has returned. The pool configurations say `CHECK_DEADLOCK FALSE`, because
every remus process may end. The device-controller runs check for deadlock.

**Fairness.** The runs with liveness properties (`srv_lifecycle`,
`dc_sequential`, `dc_watch_leak`) use `FairSpec`, with the fairness of
sections 2.1 and 2.3, and no symmetry, which TLC cannot use for liveness.
The other runs check safety under `Spec`.

## 4. Proofs

Each proof module is checked with `tlapm <Module>.tla`.

### 4.1 `DevControllerProofs.tla`

The proofs assume only `Devs # {}`, `MaxAlloc \in Nat` and
`NONE \notin Nat`.

**TypeOKHolds** (`Spec => []TypeOK`) is proved from `TypeInv`.
- `TypeInv` is `TypeOK` plus one fact: a thread inside
  `allocateDeviceID`'s transaction has read a counter below `MaxAlloc`.
- That fact is needed because the commit writes `snap + 1`.
- `TypeStep` has one step per action. Where SMT cannot take a whole
  commit, the step is split per variable.

**AllocUniqueHolds** (`Spec => []AllocUnique`) uses the inductive invariant
`AllocInv = TypeInv /\ AllocCounted /\ AllocFresh`.
- `AllocCounted`: every id below the counter was returned exactly once,
  and no id above it was returned.
- `AllocFresh`: a thread at the commit with no conflict read the current
  counter.
- The key step is the successful commit. Every other thread at its commit
  gets `conflict`, because its `TxnNodes` contains the counter node. So
  `AllocFresh` survives the counter's change.
- Lemmas:
  - `ConflictKept`: a write never clears another transaction's conflict.
  - `TxnPending`: a thread at a commit has a non-empty `TxnNodes`.

**OneCreatePerRecordHolds** uses
`CreateInv = TypeInv /\ CreateCounted /\ CreateFresh`.
- `CreateCounted`: `commits[d]` is 1 exactly when the /vm record exists.
- `CreateFresh`: a thread at the create commit with no conflict saw no
  record.
- A create commit writes `<<"dev", d>>`. Every other create transaction
  lists all `<<"dev", _>>` nodes, so every one of them conflicts.

TLC checked each strengthening as an invariant before it was proved:
- 3 threads with one id;
- 2 threads with two ids, 3 million states.

### 4.2 `NetbufpoolProofs.tla`

Assumptions: `BufDevs \subseteq Nat`, `NONE` is neither a process nor a
device, and every non-empty set of devices has a first one
(`DevOrderAssumption`: `self.devices` is a list, and `getfreedev` returns
its first free entry).

- **TypeOKHolds** is inductive as it stands.
- **OneWriterHolds** rests on `LockInv`: the lock holder is alive and in
  the load-change-save section, and every live process in that section
  holds the lock. It holds with crashes in `save()` and pid reuse, because
  death releases the flock and a reused pid never enters the section.
- **ExclusiveUseHolds** and **ImplementsAllocationHolds** assume
  `~CrashInSave /\ ~PidReuse`. Both use
  `PoolInv = TypeOK /\ LockInv /\ SaveInv /\ HeldInv /\ OwnInv`:
  - `SaveInv`: what a process in `get()` or `put()` has in `tbl`: the file
    with its chosen device claimed, or with its own device released;
  - `HeldInv`: a live process that has its device is its owner in the
    abstract table `Tab` (`AbsOwner`);
  - `OwnInv`: whatever a live process owns in `Tab` is its `mine`, or the
    device its `get()` is writing.
  ExclusiveUse follows because two live owners of one device would both
  have it as `mine`. For the refinement, `SaveTruncate` is a `Claim` or a
  `Release` (`FirstFreeIsFree` shows the chosen device was reclaimable),
  `Crash` is a `Die`, and every other step leaves `Tab` and `alive` alone.
  The strengthening was checked by TLC as an invariant before it was
  proved.

### 4.3 `XendServersProofs.tla`

Assumptions: `MaxRetry \in Nat \ {0}`, `MaxSignals \in Nat`.

- **TypeOKHolds** uses `TypeInv`: every generation after the first was
  made by a counted SIGHUP, so `gen` stays in `Gens`; and while the main
  thread is in the readiness loop the count is at most `MaxRetry`, because
  the poll that passes the bound also breaks out. So `retryCount` never
  passes `MaxRetry + 1`.
- **ExitCleanHolds** and **OldGenerationsStoppedHolds** use `StopInv`:
  nothing sets a server's running flag once it is False; when the main
  thread sleeps with `running` cleared, the handler that cleared it has
  shut down the current generation; a pending reload has too. Lemma
  `ShutdownStops` states what `cleanup()` does to the flags.

### 4.4 What stays with TLC
- Liveness and anything about `ENABLED`: TLAPS does not handle these here.
- Properties of recursive definitions for all inputs: induction over data
  needs an operator parameter, which the installed provers cannot
  instantiate.
- Modules with `RECURSIVE` operators: the provers cannot take them.
- The violation runs are counterexamples, and a counterexample needs no
  proof.
- The liveness runs (`StartupEnds`, `CreateReturns`, `StrayWatchRemoved`).
- `NoStrandedClaim`, `StartupWaitRelease`, `NoLostStop` and
  `OnlineBeforeClosing` are only model-checked. TLC finds each of them
  violated, so no proof can exist. `OnlineBeforeClosing` holds in the
  one-thread run, but xend always calls DevController from several
  threads, so a proof limited to one thread would not say what the code
  does.

## 5. What is not modelled, and why

- **Vifctl, gentest, observe and the xm-test script.** They run commands,
  generate text or print. They have no concurrent state.
- **Netbuf, IFBBuffer, IMQBuffer.** They run shell commands (tc, ip,
  modprobe). Their state is in the kernel.
- **migrate and recover_migrate.** They run an external tool once per step.
  The store is untouched.
- **Configuration readers.** They are read-only.
- **ReplicatedDisk.** Its state is in the drbd kernel driver and the
  tapdisk process: `postsuspend`, `preresume` and `commit` send ioctls or
  fifo messages and wait for answers from outside this repository. Spec
  section 1 puts the disk proxies out of scope.
- **The phantom wait** of `waitForBackend` (543). Only the blkif subclass,
  not in this repository, writes `phantom_vbd`. The hazard there is about
  elapsed time (twice `DEVICE_CREATE_TIMEOUT`), and the model has no clock.
- **`waitForDevice_reconfigure` and `xenbusStatusCallback`.** They run only
  after a subclass's `reconfigureDevice`; the base one raises. They wait on
  the backend driver's `state`, which no code here writes.
- **The status pipe, pool and domain autostart, `cleanup_domains`.** They
  talk to the daemon's parent or to other xend components and change no
  state the servers depend on. Time (the half-second poll, the long sleep)
  is abstracted to steps.
- **Request handling in `XMLRPCServer`.** The registered functions are the
  rest of xend; the lifecycle only sees the serve loop end.

## 5a. Findings

Each violation run is a disagreement between the code and what the spec, a
comment or the code's own intent says:

- `dc_online_race` (`DevController.py` 229): Closing written onto a
  recreated, online backend.
- `dc_orphan` (`DevController.py` 472): a backend recreated with no frontend.
- `pool_crash_in_save` (`device.py` 298): a crash inside `save()` empties
  the table.
- `pool_stranded` (`device.py` 356): a failed `setup()` keeps its claim.
- `srv_ready_flag` (`XMLRPCServer.py` 167): `ready = True` and
  `running = False` assign locals, so a failed server holds the startup wait.
- `srv_lost_stop` (`SrvServer.py` 165): `self.running = True` overwrites a
  SIGTERM handled during the wait; after a SIGHUP, it turns a stop into a
  reload.
- `dc_watch_leak` (`DevController.py` 557): a timed-out wait leaves its
  watch, which never ends once the device is destroyed; spec section 4.2
  says a wait unsubscribes once resolved.

Two more hazards are recorded in `PROJECT.json` and have no run of their
own:

- `device.py` 252: checkpid tests that the pid exists, not that the
  claiming process still runs, so a reused pid keeps a dead holder's
  device claimed. The model has this step (`Respawn`, explored by
  `pool_crash`), but no property states it, and the hazard is listed as
  uncovered.
- `DevController.py` 81: with a second thread in
  `MCDevController_sequential.cfg`, `CreateReturns` fails. A thread that
  keeps creating and destroying another device of the class conflicts the
  create forever (spec section 9 leaves this open).

## 6. Plan for the next sittings

1. **An abstract device-lifecycle spec.** States absent, connecting,
   connected, closing. Show `DevController` refines it with
   `INSTANCE ... WITH`, limited to the sequential case, since the
   concurrent races break it.
2. **Liveness.** A pool `get()` ends once the lock is free; a SIGTERM
   eventually ends `start()` (expected to fail through the lost signal).
3. **Proofs.** The refinement of item 1.
