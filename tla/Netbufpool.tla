----------------------------- MODULE Netbufpool -----------------------------
(***************************************************************************)
(* The remus network-buffer pool (xen/remus/device.py, Netbufpool and the  *)
(* pool calls of BufferedNIC).  Remus processes share the IFB/IMQ devices *)
(* of one class through a table file /var/run/remus/<class> of            *)
(* "<device> <pid>" lines.  get() and put() take the file lock, load the   *)
(* table, change it and save it; get() takes the first device that is not *)
(* in the table or whose owner pid is dead.  save() opens the file with    *)
(* mode 'w', which truncates it, and then writes the lines.                *)
(*                                                                         *)
(* A process may die at any moment (its flock is then released).  The     *)
(* constant CrashInSave says whether the model lets it die between the    *)
(* truncation and the write of save().  PidReuse says whether the kernel  *)
(* may give a dead process's pid to a new, unrelated process.             *)
(***************************************************************************)
EXTENDS Naturals

CONSTANTS
    Procs,        \* remus processes, each buffering one VIF
    BufDevs,      \* the devices getdevs() finds, in the order it lists them
    NONE,         \* no owner, no device
    CrashInSave,  \* a process may die inside save()
    PidReuse      \* a dead process's pid may be given to another process

ASSUME BufDevsAssumption == BufDevs \subseteq Nat
ASSUME NoneAssumption == NONE \notin Procs \cup BufDevs
\* self.devices is a list: of any devices, one comes first.
ASSUME DevOrderAssumption ==
    \A S \in SUBSET BufDevs : S # {} => \E d \in S : \A e \in S : d <= e
ASSUME CrashInSaveAssumption == CrashInSave \in BOOLEAN
ASSUME PidReuseAssumption == PidReuse \in BOOLEAN

VARIABLES
    file,       \* the table file: the owner pid of each device, or NONE
    lock,       \* the process holding the file lock, or NONE
    alive,      \* checkpid(): the process still runs
    ppc,        \* where each process is
    tbl,        \* the table the process loaded and changed, to be saved
    cur,        \* the device get() chose, before it returns
    mine,       \* self.bufdev of the process's BufferedNIC
    installed   \* self.installed of the process's BufferedNIC

vars == <<file, lock, alive, ppc, tbl, cur, mine, installed>>

Table == [BufDevs -> Procs \cup {NONE}]

EmptyTable == [d \in BufDevs |-> NONE]

\* "idle": no BufferedNIC; "get_trunc"/"get_write" and "put_trunc"/
\* "put_write": inside save(); "setup": get() returned, setup() goes on;
\* "ready": a set-up BufferedNIC; "failed": its constructor raised;
\* "foreign": a process outside remus that got the pid of a dead one.
PC == {"idle", "get_trunc", "get_write", "setup", "ready", "failed",
       "put_trunc", "put_write", "foreign"}

\* Between the load and the end of the save of get() or put().
Saving == {"get_trunc", "get_write", "put_trunc", "put_write"}

\* Mutant: "or util.checkpid(table[dev])", the "not" dropped.
FreeCheckpidInverted(t) == {d \in BufDevs : t[d] = NONE \/ alive[t[d]]}

\* The devices getfreedev(table) may return: not in the table, or held by
\* a pid that checkpid says is dead.
Free(t) == {d \in BufDevs : t[d] = NONE \/ ~alive[t[d]]}

\* getfreedev returns the first of them in the order of self.devices.
FirstFree(t) == CHOOSE d \in Free(t) : \A e \in Free(t) : d <= e

Init ==
    /\ file = EmptyTable
    /\ lock = NONE
    /\ alive = [p \in Procs |-> TRUE]
    /\ ppc = [p \in Procs |-> "idle"]
    /\ tbl = [p \in Procs |-> EmptyTable]
    /\ cur = [p \in Procs |-> NONE]
    /\ mine = [p \in Procs |-> NONE]
    /\ installed = [p \in Procs |-> FALSE]

-----------------------------------------------------------------------------
\* Mutant: get() reads and claims without waiting for the lock.
GetLoadUnlocked(p) ==
    /\ alive[p]
    /\ ppc[p] = "idle"
    /\ IF Free(file) = {}
       THEN /\ ppc' = [ppc EXCEPT ![p] = "failed"]
            /\ UNCHANGED <<lock, tbl, cur>>
       ELSE LET d == FirstFree(file) IN
            /\ lock' = p
            /\ tbl' = [tbl EXCEPT ![p] = [file EXCEPT ![d] = p]]
            /\ cur' = [cur EXCEPT ![p] = d]
            /\ ppc' = [ppc EXCEPT ![p] = "get_trunc"]
    /\ UNCHANGED <<file, alive, mine, installed>>

\* Mutant: get() records os.getpid() where it means the device.
GetLoadPid(p) ==
    /\ alive[p]
    /\ ppc[p] = "idle"
    /\ lock = NONE
    /\ IF Free(file) = {}
       THEN /\ ppc' = [ppc EXCEPT ![p] = "failed"]
            /\ UNCHANGED <<lock, tbl, cur>>
       ELSE LET d == FirstFree(file) IN
            /\ lock' = p
            /\ tbl' = [tbl EXCEPT ![p] = [file EXCEPT ![d] = p]]
            /\ cur' = [cur EXCEPT ![p] = p]
            /\ ppc' = [ppc EXCEPT ![p] = "get_trunc"]
    /\ UNCHANGED <<file, alive, mine, installed>>

(* BufferedNIC.__init__ -> setup() -> pool.get(): lock = util.Lock(path)   *)
(* blocks until the lock is free; table = self.load(); getfreedev.  No    *)
(* free device: lock.unlock() and raise, so the constructor fails.         *)
(* Otherwise table[dev] = os.getpid() and save(table).                     *)
GetLoad(p) ==
    /\ alive[p]
    /\ ppc[p] = "idle"
    /\ lock = NONE
    /\ IF Free(file) = {}
       THEN /\ ppc' = [ppc EXCEPT ![p] = "failed"]
            /\ UNCHANGED <<lock, tbl, cur>>
       ELSE LET d == FirstFree(file) IN
            /\ lock' = p
            /\ tbl' = [tbl EXCEPT ![p] = [file EXCEPT ![d] = p]]
            /\ cur' = [cur EXCEPT ![p] = d]
            /\ ppc' = [ppc EXCEPT ![p] = "get_trunc"]
    /\ UNCHANGED <<file, alive, mine, installed>>

\* save(): fd = open(self.path, 'w') truncates the file.
SaveTruncate(p) ==
    /\ alive[p]
    /\ ppc[p] \in {"get_trunc", "put_trunc"}
    /\ file' = EmptyTable
    /\ ppc' = [ppc EXCEPT ![p] = IF ppc[p] = "get_trunc" THEN "get_write"
                                                        ELSE "put_write"]
    /\ UNCHANGED <<lock, alive, tbl, cur, mine, installed>>

\* save(): fd.writelines(lines); fd.close(); then lock.unlock().  get()
\* returns the device to setup(); put() returns to uninstall().
SaveWrite(p) ==
    /\ alive[p]
    /\ ppc[p] \in {"get_write", "put_write"}
    /\ file' = tbl[p]
    /\ lock' = NONE
    /\ IF ppc[p] = "get_write"
       THEN /\ mine' = [mine EXCEPT ![p] = cur[p]]
            /\ ppc' = [ppc EXCEPT ![p] = "setup"]
       ELSE /\ mine' = [mine EXCEPT ![p] = NONE]
            /\ ppc' = [ppc EXCEPT ![p] = "idle"]
    /\ cur' = [cur EXCEPT ![p] = NONE]
    /\ UNCHANGED <<alive, tbl, installed>>

\* The rest of setup(): rth.getlink(devname), bufdev.install(vif),
\* modprobe('sch_plug').  The lookup or the module load may fail and
\* raise; the claim in the table stays (nothing puts the device back).
SetupDone(p) ==
    /\ alive[p]
    /\ ppc[p] = "setup"
    /\ \E ok \in BOOLEAN :
          ppc' = [ppc EXCEPT ![p] = IF ok THEN "ready" ELSE "failed"]
    /\ UNCHANGED <<file, lock, alive, tbl, cur, mine, installed>>

\* postsuspend(): "if not self.installed: self.install()", which adds the
\* plug qdisc (or finds one) and sets installed.
Install(p) ==
    /\ alive[p]
    /\ ppc[p] = "ready"
    /\ ~installed[p]
    /\ installed' = [installed EXCEPT ![p] = TRUE]
    /\ UNCHANGED <<file, lock, alive, ppc, tbl, cur, mine>>

\* Mutant: put() changes the table without taking the lock.
UninstallUnlocked(p) ==
    /\ alive[p]
    /\ ppc[p] = "ready"
    /\ installed[p]
    /\ installed' = [installed EXCEPT ![p] = FALSE]
    /\ IF file[mine[p]] = NONE
       THEN /\ ppc' = [ppc EXCEPT ![p] = "failed"]
            /\ UNCHANGED <<lock, tbl>>
       ELSE /\ lock' = p
            /\ tbl' = [tbl EXCEPT ![p] = [file EXCEPT ![mine[p]] = NONE]]
            /\ ppc' = [ppc EXCEPT ![p] = "put_trunc"]
    /\ UNCHANGED <<file, alive, cur, mine>>

\* uninstall() (also from __del__): only "if self.installed": delete the
\* qdisc, installed = False, bufdev.uninstall(), pool.put(bufdev).  put()
\* locks, loads, "del table[dev.devname]" and saves.  A device missing
\* from the table raises KeyError out of put(); the lock object is dropped
\* with it.
Uninstall(p) ==
    /\ alive[p]
    /\ ppc[p] = "ready"
    /\ installed[p]
    /\ lock = NONE
    /\ installed' = [installed EXCEPT ![p] = FALSE]
    /\ IF file[mine[p]] = NONE
       THEN /\ ppc' = [ppc EXCEPT ![p] = "failed"]
            /\ UNCHANGED <<lock, tbl>>
       ELSE /\ lock' = p
            /\ tbl' = [tbl EXCEPT ![p] = [file EXCEPT ![mine[p]] = NONE]]
            /\ ppc' = [ppc EXCEPT ![p] = "put_trunc"]
    /\ UNCHANGED <<file, alive, cur, mine>>

\* The process ends at any point; the kernel drops its flock.  Unless
\* CrashInSave, not between the truncation and the write of save().
Crash(p) ==
    /\ alive[p]
    /\ CrashInSave \/ ppc[p] \notin {"get_write", "put_write"}
    /\ alive' = [alive EXCEPT ![p] = FALSE]
    /\ lock' = IF lock = p THEN NONE ELSE lock
    /\ UNCHANGED <<file, ppc, tbl, cur, mine, installed>>

\* The kernel starts a new process under the pid of a dead one; it never
\* calls into the pool, and checkpid(pid) is true again.
Respawn(p) ==
    /\ PidReuse
    /\ ~alive[p]
    /\ alive' = [alive EXCEPT ![p] = TRUE]
    /\ ppc' = [ppc EXCEPT ![p] = "foreign"]
    /\ UNCHANGED <<file, lock, tbl, cur, mine, installed>>

Next ==
    \E p \in Procs :
        \/ GetLoad(p) \/ SaveTruncate(p) \/ SaveWrite(p) \/ SetupDone(p)
        \/ Install(p) \/ Uninstall(p) \/ Crash(p) \/ Respawn(p)

Spec == Init /\ [][Next]_vars

-----------------------------------------------------------------------------
(* Properties.                                                             *)

\* The variables keep their types.
TypeOK ==
    /\ file \in Table
    /\ lock \in Procs \cup {NONE}
    /\ alive \in [Procs -> BOOLEAN]
    /\ ppc \in [Procs -> PC]
    /\ tbl \in [Procs -> Table]
    /\ cur \in [Procs -> BufDevs \cup {NONE}]
    /\ mine \in [Procs -> BufDevs \cup {NONE}]
    /\ installed \in [Procs -> BOOLEAN]

\* A process that uses a buffer device (its BufferedNIC is set up or
\* being set up).
Using(p) == alive[p] /\ ppc[p] \in {"setup", "ready"}

\* No buffer device is handed by get() to two live remus processes at once:
\* two domains' traffic would be plugged and released on one qdisc.
ExclusiveUse ==
    \A p, q \in Procs :
        p # q /\ Using(p) /\ Using(q) => mine[p] # mine[q]

\* The file lock makes the load-change-save of get() and put() exclusive:
\* at most one live process is between its load and the end of its save,
\* the flock of a process that dies inside save() being released.
OneWriter ==
    \A p, q \in Procs :
        p # q /\ alive[p] /\ alive[q] => ~(ppc[p] \in Saving /\ ppc[q] \in Saving)

\* Every claim in the table of a live process is a device it uses: a
\* device is kept from the others only while its owner buffers with it.
NoStrandedClaim ==
    \A d \in BufDevs :
        file[d] \in Procs /\ alive[file[d]] /\ lock = NONE
            => Using(file[d]) /\ mine[file[d]] = d

-----------------------------------------------------------------------------
(* Refinement of PoolAllocation.  The table a reader under the lock would   *)
(* see: the table being saved once save() has truncated the file, the file *)
(* otherwise.  With it, the truncation of save() is the moment a get() or  *)
(* put() takes effect.                                                     *)
AbsOwner ==
    IF lock # NONE /\ ppc[lock] \in {"get_write", "put_write"}
    THEN tbl[lock]
    ELSE file

Alloc == INSTANCE PoolAllocation WITH owner <- AbsOwner

\* The pool, with its file, lock, two-step save and checkpid, behaves as an
\* atomic allocation table: get() takes a device nobody alive holds, put()
\* gives back only the caller's own device, and one process holds at most
\* one device.
ImplementsAllocation == Alloc!Spec

=============================================================================
