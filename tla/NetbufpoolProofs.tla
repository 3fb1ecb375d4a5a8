-------------------------- MODULE NetbufpoolProofs --------------------------
(***************************************************************************)
(* Proofs about Netbufpool for every number of processes and devices: the *)
(* type invariant, OneWriter, and, when no process dies inside save(),    *)
(* ExclusiveUse and the refinement of PoolAllocation.                      *)
(***************************************************************************)
EXTENDS Netbufpool, TLAPS

\* The table every process would read under the lock (AbsOwner), and what
\* each live process holds in it at each point of its calls.
Tab == AbsOwner

\* The lock: held only by a live process inside load-change-save, and
\* every live process inside it holds the lock.
LockInv ==
    /\ lock # NONE => alive[lock] /\ ppc[lock] \in Saving
    /\ \A p \in Procs : alive[p] /\ ppc[p] \in Saving => lock = p

\* What a live process has loaded and is about to save.
SaveInv ==
    \A p \in Procs : alive[p] =>
        /\ ppc[p] = "get_trunc" =>
              /\ cur[p] \in Free(file)
              /\ tbl[p] = [file EXCEPT ![cur[p]] = p]
        /\ ppc[p] = "get_write" => cur[p] \in BufDevs /\ tbl[p][cur[p]] = p
        /\ ppc[p] = "put_trunc" =>
              tbl[p] = [file EXCEPT ![mine[p]] = NONE]

\* A live process that uses a device, or is giving it back, holds it.
HeldInv ==
    \A p \in Procs :
        alive[p] /\ ppc[p] \in {"setup", "ready", "put_trunc"} =>
            mine[p] \in BufDevs /\ Tab[mine[p]] = p

\* A live process holds nothing else: no device while idle, getting or
\* after its put, the device it claims while saving the claim, and no
\* device but its own otherwise.
OwnInv ==
    \A p \in Procs, d \in BufDevs :
        alive[p] /\ Tab[d] = p =>
            \/ ppc[p] \in {"setup", "ready", "put_trunc", "failed"} /\ d = mine[p]
            \/ ppc[p] = "get_write" /\ d = cur[p]

PoolInv == TypeOK /\ LockInv /\ SaveInv /\ HeldInv /\ OwnInv

USE NoneAssumption

-----------------------------------------------------------------------------
(* The type invariant.                                                     *)

\* getfreedev returns one of the free devices when there is one.
LEMMA FirstFreeIsFree ==
    ASSUME NEW t, Free(t) # {}
    PROVE  FirstFree(t) \in Free(t)
<1>1. Free(t) \in SUBSET BufDevs
      BY DEF Free
<1>2. \E d \in Free(t) : \A e \in Free(t) : d <= e
      BY <1>1, DevOrderAssumption
<1>3. QED
      BY <1>2 DEF FirstFree

LEMMA TypeInit == Init => TypeOK
BY DEF Init, TypeOK, Table, EmptyTable, PC

LEMMA TypeStep == TypeOK /\ [Next]_vars => TypeOK'
<1> SUFFICES ASSUME TypeOK, [Next]_vars PROVE TypeOK'
    OBVIOUS
<1> USE DEF TypeOK, Table, EmptyTable, PC
<1>1. ASSUME NEW p \in Procs, GetLoad(p) PROVE TypeOK'
      <2>1. CASE Free(file) = {}
            BY <1>1, <2>1 DEF GetLoad
      <2>2. CASE Free(file) # {}
            <3>1. FirstFree(file) \in BufDevs
                  BY <2>2, FirstFreeIsFree DEF Free
            <3> DEFINE d == FirstFree(file)
            <3>2. [file EXCEPT ![d] = p] \in Table
                  BY <3>1
            <3>3. tbl' = [tbl EXCEPT ![p] = [file EXCEPT ![d] = p]]
                    /\ cur' = [cur EXCEPT ![p] = d]
                    /\ ppc' = [ppc EXCEPT ![p] = "get_trunc"] /\ lock' = p
                    /\ UNCHANGED <<file, alive, mine, installed>>
                  BY <1>1, <2>2 DEF GetLoad
            <3>4. QED
                  BY <3>1, <3>2, <3>3
      <2>3. QED
            BY <2>1, <2>2
<1>2. ASSUME NEW p \in Procs, SaveTruncate(p) PROVE TypeOK'
      BY <1>2 DEF SaveTruncate
<1>3. ASSUME NEW p \in Procs, SaveWrite(p) PROVE TypeOK'
      BY <1>3 DEF SaveWrite
<1>4. ASSUME NEW p \in Procs, SetupDone(p) PROVE TypeOK'
      <2>1. PICK ok \in BOOLEAN :
              ppc' = [ppc EXCEPT ![p] = IF ok THEN "ready" ELSE "failed"]
            BY <1>4 DEF SetupDone
      <2>2. ppc' \in [Procs -> PC]
            BY <2>1
      <2>3. QED
            BY <1>4, <2>2 DEF SetupDone
<1>5. ASSUME NEW p \in Procs, Install(p) PROVE TypeOK'
      BY <1>5 DEF Install
<1>6. ASSUME NEW p \in Procs, Uninstall(p) PROVE TypeOK'
      <2>1. installed' \in [Procs -> BOOLEAN]
            BY <1>6 DEF Uninstall
      <2>2. [file EXCEPT ![mine[p]] = NONE] \in Table
            OBVIOUS
      <2>3. CASE file[mine[p]] = NONE
            BY <1>6, <2>1, <2>3 DEF Uninstall
      <2>4. CASE file[mine[p]] # NONE
            <3>1. /\ tbl' = [tbl EXCEPT ![p] = [file EXCEPT ![mine[p]] = NONE]]
                  /\ ppc' = [ppc EXCEPT ![p] = "put_trunc"] /\ lock' = p
                  /\ UNCHANGED <<file, alive, cur, mine>>
                  BY <1>6, <2>4 DEF Uninstall
            <3>2. QED
                  BY <2>1, <2>2, <3>1
      <2>5. QED
            BY <2>3, <2>4
<1>7. ASSUME NEW p \in Procs, Crash(p) PROVE TypeOK'
      BY <1>7 DEF Crash
<1>8. CASE UNCHANGED vars
      BY <1>8 DEF vars
<1>10. ASSUME NEW p \in Procs, Respawn(p) PROVE TypeOK'
      BY <1>10 DEF Respawn
<1>9. QED
      BY <1>1, <1>2, <1>3, <1>4, <1>5, <1>6, <1>7, <1>8, <1>10 DEF Next

\* Every run keeps the variables in their types.
THEOREM TypeOKHolds == Spec => []TypeOK
BY TypeInit, TypeStep, PTL DEF Spec

-----------------------------------------------------------------------------
(* OneWriter, whether or not a process may die inside save() and its pid  *)
(* be reused: LockInv is inductive, and two live writers would both hold  *)
(* the lock.                                                               *)

LEMMA LockInit == Init => LockInv
BY DEF Init, LockInv, Saving

LEMMA LockStep == TypeOK /\ LockInv /\ [Next]_vars => LockInv'
<1> SUFFICES ASSUME TypeOK, LockInv, [Next]_vars PROVE LockInv'
    OBVIOUS
<1> USE DEF TypeOK, LockInv, Saving
<1>1. ASSUME NEW p \in Procs, GetLoad(p) PROVE LockInv'
      BY <1>1 DEF GetLoad
<1>2. ASSUME NEW p \in Procs, SaveTruncate(p) PROVE LockInv'
      BY <1>2 DEF SaveTruncate
<1>3. ASSUME NEW p \in Procs, SaveWrite(p) PROVE LockInv'
      BY <1>3 DEF SaveWrite
<1>4. ASSUME NEW p \in Procs, SetupDone(p) PROVE LockInv'
      BY <1>4 DEF SetupDone
<1>5. ASSUME NEW p \in Procs, Install(p) PROVE LockInv'
      BY <1>5 DEF Install
<1>6. ASSUME NEW p \in Procs, Uninstall(p) PROVE LockInv'
      BY <1>6 DEF Uninstall
<1>7. ASSUME NEW p \in Procs, Crash(p) PROVE LockInv'
      BY <1>7 DEF Crash
<1>8. CASE UNCHANGED vars
      BY <1>8 DEF vars
<1>10. ASSUME NEW p \in Procs, Respawn(p) PROVE LockInv'
      BY <1>10 DEF Respawn
<1>9. QED
      BY <1>1, <1>2, <1>3, <1>4, <1>5, <1>6, <1>7, <1>8, <1>10 DEF Next

\* The flock makes the load-change-save of get() and put() exclusive among
\* live processes, even when a process may die in the middle of save()
\* and its pid go to another process.
THEOREM OneWriterHolds == Spec => []OneWriter
<1>1. TypeOK /\ LockInv => OneWriter
      BY DEF LockInv, OneWriter
<1>2. QED
      BY <1>1, TypeInit, TypeStep, LockInit, LockStep, PTL DEF Spec
-----------------------------------------------------------------------------
(* ExclusiveUse and the refinement, when no process dies inside save()    *)
(* and no pid is reused:                                                  *)
(* PoolInv is inductive.  Each action below keeps SaveInv, HeldInv and    *)
(* OwnInv, and is a step of PoolAllocation or leaves Tab and alive alone. *)

LEMMA PoolInit == Init => PoolInv
<1> SUFFICES ASSUME Init PROVE PoolInv
    OBVIOUS
<1>1. Tab = EmptyTable
      BY DEF Init, Tab, AbsOwner
<1>2. QED
      BY <1>1, TypeInit, LockInit
         DEF PoolInv, Init, SaveInv, HeldInv, OwnInv, EmptyTable

\* get() loads the table: nothing anybody holds changes.
LEMMA GetLoadStep ==
    ASSUME PoolInv, NEW p \in Procs, GetLoad(p)
    PROVE  SaveInv' /\ HeldInv' /\ OwnInv' /\ UNCHANGED <<Tab, alive>>
<1> USE DEF PoolInv, TypeOK
<1>1. Tab = file /\ Tab' = file
      BY DEF GetLoad, Tab, AbsOwner
<1>2. \A d \in BufDevs : Tab[d] # p
      BY <1>1 DEF GetLoad, OwnInv
<1>3. CASE Free(file) = {}
      <2>1. ppc' = [ppc EXCEPT ![p] = "failed"]
              /\ UNCHANGED <<lock, tbl, cur, file, alive, mine, installed>>
            BY <1>3 DEF GetLoad
      <2>2. SaveInv'
            BY <2>1 DEF SaveInv, Free
      <2>3. HeldInv'
            BY <1>1, <2>1 DEF HeldInv
      <2>4. OwnInv'
            BY <1>1, <1>2, <2>1 DEF OwnInv
      <2>5. QED
            BY <1>1, <2>1, <2>2, <2>3, <2>4
<1>4. CASE Free(file) # {}
      <2> DEFINE d == FirstFree(file)
      <2>1. d \in Free(file)
            BY <1>4, FirstFreeIsFree
      <2>2. /\ tbl' = [tbl EXCEPT ![p] = [file EXCEPT ![d] = p]]
            /\ cur' = [cur EXCEPT ![p] = d]
            /\ ppc' = [ppc EXCEPT ![p] = "get_trunc"]
            /\ UNCHANGED <<file, alive, mine, installed>>
            BY <1>4 DEF GetLoad
      <2>3. SaveInv'
            BY <2>1, <2>2 DEF SaveInv, Free
      <2>4. QED
            BY <1>1, <1>2, <2>2, <2>3 DEF HeldInv, OwnInv
<1>5. QED
      BY <1>3, <1>4

\* The truncation of save() is the commit point: it publishes the claim of
\* get() or the release of put().
LEMMA SaveTruncateStep ==
    ASSUME PoolInv, NEW p \in Procs, SaveTruncate(p)
    PROVE  /\ SaveInv' /\ HeldInv' /\ OwnInv'
           /\ \E d \in BufDevs : Alloc!Claim(p, d) \/ Alloc!Release(p, d)
<1> USE DEF PoolInv, TypeOK
<1>1. lock = p /\ Tab = file /\ Tab' = tbl[p]
      BY DEF SaveTruncate, LockInv, Saving, Tab, AbsOwner
<1>2. \A q \in Procs : q # p /\ alive[q] => ppc[q] \notin Saving
      BY <1>1 DEF LockInv
<1>3. CASE ppc[p] = "get_trunc"
      <2>1. cur[p] \in Free(file) /\ tbl[p] = [file EXCEPT ![cur[p]] = p]
            BY <1>3 DEF SaveTruncate, SaveInv
      <2>2. cur[p] \in BufDevs /\ Tab' = [Tab EXCEPT ![cur[p]] = p]
            BY <1>1, <2>1 DEF Free
      <2>3. \A d \in BufDevs : Tab[d] # p
            BY <1>3 DEF SaveTruncate, OwnInv
      <2>4. ppc' = [ppc EXCEPT ![p] = "get_write"]
              /\ UNCHANGED <<lock, alive, tbl, cur, mine, installed>>
            BY <1>3 DEF SaveTruncate
      <2>5. SaveInv'
            BY <1>2, <2>1, <2>2, <2>4 DEF SaveInv, Saving, Table
      <2>6. HeldInv'
            <3> SUFFICES ASSUME NEW q \in Procs, alive'[q],
                                ppc'[q] \in {"setup", "ready", "put_trunc"}
                         PROVE  mine'[q] \in BufDevs /\ Tab'[mine'[q]] = q
                BY DEF HeldInv
            <3>1. q # p /\ mine[q] \in BufDevs /\ file[mine[q]] = q
                  BY <1>1, <2>4 DEF HeldInv
            <3>2. mine[q] # cur[p]
                  BY <2>1, <3>1, <2>4 DEF Free
            <3>3. QED
                  BY <1>1, <2>2, <2>4, <3>1, <3>2
      <2>7. OwnInv'
            BY <2>2, <2>3, <2>4 DEF OwnInv
      <2>8. Alloc!Claim(p, cur[p])
            BY <1>1, <2>1, <2>2, <2>3, <2>4
               DEF SaveTruncate, Free, Alloc!Claim, Alloc!Holds, Alloc!Reclaimable, Tab
      <2>9. QED
            BY <2>2, <2>5, <2>6, <2>7, <2>8
<1>4. CASE ppc[p] = "put_trunc"
      <2>1. mine[p] \in BufDevs /\ file[mine[p]] = p
            BY <1>1, <1>4 DEF SaveTruncate, HeldInv
      <2>2. Tab' = [Tab EXCEPT ![mine[p]] = NONE]
            BY <1>1, <1>4 DEF SaveTruncate, SaveInv
      <2>3. ppc' = [ppc EXCEPT ![p] = "put_write"]
              /\ UNCHANGED <<lock, alive, tbl, cur, mine, installed>>
            BY <1>4 DEF SaveTruncate
      <2>4. SaveInv'
            BY <1>2, <2>3 DEF SaveInv, Saving
      <2>5. HeldInv'
            <3> SUFFICES ASSUME NEW q \in Procs, alive'[q],
                                ppc'[q] \in {"setup", "ready", "put_trunc"}
                         PROVE  mine'[q] \in BufDevs /\ Tab'[mine'[q]] = q
                BY DEF HeldInv
            <3>1. q # p /\ mine[q] \in BufDevs /\ file[mine[q]] = q
                  BY <1>1, <2>3 DEF HeldInv
            <3>2. QED
                  BY <1>1, <2>1, <2>2, <2>3, <3>1
      <2>6. OwnInv'
            <3> SUFFICES ASSUME NEW q \in Procs, NEW d \in BufDevs,
                                alive'[q], Tab'[d] = q
                         PROVE  \/ ppc'[q] \in {"setup", "ready", "put_trunc", "failed"}
                                   /\ d = mine'[q]
                                \/ ppc'[q] = "get_write" /\ d = cur'[q]
                BY DEF OwnInv
            <3>1. d # mine[p] /\ Tab[d] = q
                  BY <1>1, <2>1, <2>2 DEF Table
            <3>2. q # p
                  BY <1>4, <3>1, <2>3 DEF OwnInv
            <3>3. QED
                  BY <2>3, <3>1, <3>2 DEF OwnInv
      <2>7. Alloc!Release(p, mine[p])
            BY <1>1, <2>1, <2>2, <2>3 DEF SaveTruncate, Alloc!Release, Tab
      <2>8. QED
            BY <2>1, <2>4, <2>5, <2>6, <2>7
<1>5. QED
      BY <1>3, <1>4 DEF SaveTruncate

\* The write of save() puts back what the truncation already published.
LEMMA SaveWriteStep ==
    ASSUME PoolInv, NEW p \in Procs, SaveWrite(p)
    PROVE  SaveInv' /\ HeldInv' /\ OwnInv' /\ UNCHANGED <<Tab, alive>>
<1> USE DEF PoolInv, TypeOK
<1>1. lock = p /\ Tab = tbl[p] /\ Tab' = tbl[p]
      BY DEF SaveWrite, LockInv, Saving, Tab, AbsOwner
<1>2. \A q \in Procs : q # p /\ alive[q] => ppc[q] \notin Saving
      BY <1>1 DEF LockInv
<1>3. CASE ppc[p] = "get_write"
      <2>1. cur[p] \in BufDevs /\ tbl[p][cur[p]] = p
            BY <1>3 DEF SaveWrite, SaveInv
      <2>2. /\ mine' = [mine EXCEPT ![p] = cur[p]]
            /\ ppc' = [ppc EXCEPT ![p] = "setup"]
            /\ cur' = [cur EXCEPT ![p] = NONE]
            /\ UNCHANGED <<alive, tbl, installed>>
            BY <1>3 DEF SaveWrite
      <2>3. SaveInv'
            BY <1>2, <2>2 DEF SaveInv, Saving
      <2>4. HeldInv'
            BY <1>1, <2>1, <2>2 DEF HeldInv
      <2>5. OwnInv'
            BY <1>1, <1>3, <2>2 DEF OwnInv
      <2>6. QED
            BY <1>1, <2>2, <2>3, <2>4, <2>5
<1>4. CASE ppc[p] = "put_write"
      <2>1. /\ mine' = [mine EXCEPT ![p] = NONE]
            /\ ppc' = [ppc EXCEPT ![p] = "idle"]
            /\ cur' = [cur EXCEPT ![p] = NONE]
            /\ UNCHANGED <<alive, tbl, installed>>
            BY <1>4 DEF SaveWrite
      <2>2. \A d \in BufDevs : Tab[d] # p
            BY <1>4 DEF SaveWrite, OwnInv
      <2>3. SaveInv'
            BY <1>2, <2>1 DEF SaveInv, Saving
      <2>4. HeldInv'
            BY <1>1, <2>1 DEF HeldInv
      <2>5. OwnInv'
            BY <1>1, <2>1, <2>2 DEF OwnInv
      <2>6. QED
            BY <1>1, <2>1, <2>3, <2>4, <2>5
<1>5. QED
      BY <1>3, <1>4 DEF SaveWrite

\* The rest of setup() and the installation of the qdisc hold the device
\* they were given and touch no table.
LEMMA SetupInstallStep ==
    ASSUME PoolInv, NEW p \in Procs, SetupDone(p) \/ Install(p)
    PROVE  SaveInv' /\ HeldInv' /\ OwnInv' /\ UNCHANGED <<Tab, alive>>
<1> USE DEF PoolInv, TypeOK
<1>1. CASE SetupDone(p)
      <2>1. PICK ok \in BOOLEAN :
              ppc' = [ppc EXCEPT ![p] = IF ok THEN "ready" ELSE "failed"]
            BY <1>1 DEF SetupDone
      <2>2. ppc'[p] \in {"ready", "failed"} /\ ppc[p] = "setup"
              /\ \A q \in Procs \ {p} : ppc'[q] = ppc[q]
            BY <1>1, <2>1 DEF SetupDone
      <2>3. UNCHANGED <<file, lock, alive, tbl, cur, mine, installed>>
            BY <1>1 DEF SetupDone
      <2>4. lock # p
            BY <2>2 DEF LockInv, Saving
      <2>5. UNCHANGED Tab
            BY <2>2, <2>3, <2>4 DEF Tab, AbsOwner
      <2>6. QED
            BY <2>2, <2>3, <2>5 DEF SaveInv, HeldInv, OwnInv, Free
<1>2. CASE Install(p)
      BY <1>2 DEF Install, SaveInv, HeldInv, OwnInv, Free, Tab, AbsOwner
<1>3. QED
      BY <1>1, <1>2

\* put() loads the table: the device it gives back is in it, so the
\* KeyError branch is never taken while nobody dies inside save().
LEMMA UninstallStep ==
    ASSUME PoolInv, NEW p \in Procs, Uninstall(p)
    PROVE  SaveInv' /\ HeldInv' /\ OwnInv' /\ UNCHANGED <<Tab, alive>>
<1> USE DEF PoolInv, TypeOK
<1>1. Tab = file /\ mine[p] \in BufDevs /\ file[mine[p]] = p
      BY DEF Uninstall, Tab, AbsOwner, HeldInv
<1>2. /\ tbl' = [tbl EXCEPT ![p] = [file EXCEPT ![mine[p]] = NONE]]
      /\ ppc' = [ppc EXCEPT ![p] = "put_trunc"] /\ lock' = p
      /\ UNCHANGED <<file, alive, cur, mine>>
      BY <1>1 DEF Uninstall
<1>3. Tab' = file
      BY <1>2 DEF Tab, AbsOwner
<1>4. SaveInv'
      BY <1>2 DEF SaveInv, Free
<1>5. HeldInv'
      BY <1>1, <1>2, <1>3 DEF HeldInv
<1>6. OwnInv'
      BY <1>1, <1>2, <1>3 DEF OwnInv, Uninstall
<1>7. QED
      BY <1>1, <1>2, <1>3, <1>4, <1>5, <1>6

\* A process dies outside the write phase of save(): its claims stay, and
\* Free grows for the others.
LEMMA CrashStep ==
    ASSUME PoolInv, ~CrashInSave, NEW p \in Procs, Crash(p)
    PROVE  SaveInv' /\ HeldInv' /\ OwnInv' /\ Alloc!Die(p)
<1> USE DEF PoolInv, TypeOK
<1>1. ppc[p] \notin {"get_write", "put_write"}
      BY DEF Crash
<1>2. /\ alive' = [alive EXCEPT ![p] = FALSE]
      /\ lock' = IF lock = p THEN NONE ELSE lock
      /\ UNCHANGED <<file, ppc, tbl, cur, mine, installed>>
      BY DEF Crash
<1>3. UNCHANGED Tab
      BY <1>1, <1>2 DEF Tab, AbsOwner
<1>4. \A q \in Procs : alive'[q] => alive[q] /\ q # p
      BY <1>2
<1>5. SaveInv'
      BY <1>2, <1>4 DEF SaveInv, Free
<1>6. HeldInv' /\ OwnInv'
      BY <1>2, <1>3, <1>4 DEF HeldInv, OwnInv
<1>7. Alloc!Die(p)
      BY <1>2, <1>3 DEF Crash, Alloc!Die, Tab
<1>8. QED
      BY <1>5, <1>6, <1>7

LEMMA PoolStep ==
    ASSUME ~CrashInSave, ~PidReuse
    PROVE  PoolInv /\ [Next]_vars => PoolInv' /\ [Alloc!Next]_Alloc!vars
<1> SUFFICES ASSUME PoolInv, [Next]_vars
             PROVE  PoolInv' /\ [Alloc!Next]_Alloc!vars
    OBVIOUS
<1>1. TypeOK' /\ LockInv'
      BY TypeStep, LockStep DEF PoolInv
<1>2. ASSUME NEW p \in Procs,
             GetLoad(p) \/ SaveWrite(p) \/ SetupDone(p) \/ Install(p)
               \/ Uninstall(p)
      PROVE  SaveInv' /\ HeldInv' /\ OwnInv' /\ UNCHANGED <<Tab, alive>>
      BY <1>2, GetLoadStep, SaveWriteStep, SetupInstallStep, UninstallStep
<1>3. ASSUME NEW p \in Procs, SaveTruncate(p)
      PROVE  SaveInv' /\ HeldInv' /\ OwnInv' /\ Alloc!Next
      BY <1>3, SaveTruncateStep DEF Alloc!Next
<1>4. ASSUME NEW p \in Procs, Crash(p)
      PROVE  SaveInv' /\ HeldInv' /\ OwnInv' /\ Alloc!Next
      BY <1>4, CrashStep DEF Alloc!Next
<1>7. ASSUME NEW p \in Procs, Respawn(p) PROVE FALSE
      BY <1>7 DEF Respawn
<1>5. CASE UNCHANGED vars
      <2>1. UNCHANGED <<file, lock, alive, ppc, tbl, cur, mine>>
            BY <1>5 DEF vars
      <2>2. UNCHANGED Tab
            BY <2>1 DEF Tab, AbsOwner
      <2>3. SaveInv'
            BY <2>1 DEF PoolInv, SaveInv, Free
      <2>4. HeldInv' /\ OwnInv'
            BY <2>1, <2>2 DEF PoolInv, HeldInv, OwnInv
      <2>5. QED
            BY <1>1, <2>1, <2>2, <2>3, <2>4 DEF PoolInv, Alloc!vars, Tab
<1>6. QED
      BY <1>1, <1>2, <1>3, <1>4, <1>5, <1>7 DEF Next, PoolInv, Alloc!vars, Tab

\* When no remus process dies inside save() and no pid is reused, get()
\* never hands one buffer device to two live processes, for any number of
\* processes and devices.
THEOREM ExclusiveUseHolds == ~CrashInSave /\ ~PidReuse => (Spec => []ExclusiveUse)
<1> SUFFICES ASSUME ~CrashInSave, ~PidReuse PROVE Spec => []ExclusiveUse
    OBVIOUS
<1>1. PoolInv => ExclusiveUse
      BY DEF PoolInv, HeldInv, ExclusiveUse, Using
<1>2. PoolInv /\ [Next]_vars => PoolInv'
      BY PoolStep
<1>3. QED
      BY <1>1, <1>2, PoolInit, PTL DEF Spec

\* When no remus process dies inside save() and no pid is reused, the pool
\* implements the atomic allocation table of PoolAllocation under the
\* mapping AbsOwner.
THEOREM ImplementsAllocationHolds ==
    ~CrashInSave /\ ~PidReuse => (Spec => ImplementsAllocation)
<1> SUFFICES ASSUME ~CrashInSave, ~PidReuse PROVE Spec => Alloc!Spec
    BY DEF ImplementsAllocation
<1>1. Init => Alloc!Init
      BY DEF Init, Alloc!Init, AbsOwner, EmptyTable
<1>2. PoolInv /\ [Next]_vars => PoolInv' /\ [Alloc!Next]_Alloc!vars
      BY PoolStep
<1>3. QED
      BY <1>1, <1>2, PoolInit, PTL DEF Spec, Alloc!Spec

=============================================================================
