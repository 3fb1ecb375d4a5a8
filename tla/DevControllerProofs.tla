------------------------- MODULE DevControllerProofs -------------------------
(***************************************************************************)
(* Proofs about DevController for every value of the constants: the type  *)
(* invariant, and the two transaction properties the runs of              *)
(* MCDevController_concurrent check on a small instance.                   *)
(***************************************************************************)
EXTENDS DevController, TLAPS

\* The type invariant with the one fact it needs to be inductive: a thread
\* inside allocateDeviceID's transaction read a counter below the bound.
TypeInv ==
    /\ TypeOK
    /\ \A t \in Threads : pc[t] = "al_commit" => snap[t] < MaxAlloc

-----------------------------------------------------------------------------
(* allocateDeviceID never returns an id twice.  The counter node is the    *)
(* only place the ids come from: every id below the counter was returned   *)
(* exactly once and none above it, and a thread about to commit without a  *)
(* conflict read the counter as it is now (a commit by another thread     *)
(* would have made its transaction fail).                                  *)
AllocCounted ==
    \A v \in AllocIDs : allocated[v] = IF v < Counter THEN 1 ELSE 0

AllocFresh ==
    \A t \in Threads : pc[t] = "al_commit" /\ ~conflict[t] => snap[t] = Counter

AllocInv == TypeInv /\ AllocCounted /\ AllocFresh

\* createDevice commits the records of a device at most once while its /vm
\* record exists: a thread about to commit without a conflict saw no
\* record, and the commit of any other thread would have conflicted it.
CreateCounted == \A d \in Devs : commits[d] = IF dev[d] THEN 1 ELSE 0

CreateFresh ==
    \A t \in Threads : pc[t] = "cr_commit" /\ ~conflict[t] => ~dev[arg[t]]

CreateInv == TypeInv /\ CreateCounted /\ CreateFresh

USE DevsAssumption, MaxAllocAssumption, NoneAssumption

LEMMA BackendOrBareType ==
    ASSUME TypeOK, NEW d \in Devs
    PROVE  BackendOrBare(d) \in Backend
BY DEF TypeOK, BackendOrBare, BareBackend, Backend

\* The two fields destroyDevice writes keep a backend record in its type.
LEMMA BackendFieldType ==
    ASSUME NEW b \in Backend
    PROVE  /\ [b EXCEPT !.online = "0"] \in Backend
           /\ [b EXCEPT !.state = "Closing"] \in Backend
BY DEF Backend, XbState

\* A thread between the read and the commit of a transaction has one open.
LEMMA TxnPending ==
    ASSUME TypeOK, NEW u \in Threads, pc[u] \in {"cr_commit", "al_commit"}
    PROVE  TxnNodes(u) # {}
BY DEF TxnNodes, Node, CounterNode

\* A write by another thread never clears the conflict of an open
\* transaction: once failed, its commit fails.
LEMMA ConflictKept ==
    ASSUME NEW t, NEW u \in Threads, NEW W, u # t, TxnNodes(u) # {},
           conflict[u], WrittenBy(t, W)
    PROVE  conflict'[u]
BY DEF WrittenBy, Conflicts

\* The initial state is typed.
LEMMA TypeInit == Init => TypeInv
BY DEF Init, TypeInv, TypeOK, PC, AllocIDs, WaitStatus

\* Every step keeps the variables in their types.
LEMMA TypeStep == TypeInv /\ [Next]_vars => TypeInv'
<1> SUFFICES ASSUME TypeInv, [Next]_vars PROVE TypeInv'
  OBVIOUS
<1> USE DEF TypeInv, TypeOK, Return, Goto, PC
<1>1. ASSUME NEW t \in Threads, NEW d \in Devs, CreateStart(t, d) PROVE TypeInv'
  BY <1>1 DEF CreateStart, store, ghost
<1>2. ASSUME NEW t \in Threads, NEW d \in Devs, WaitStart(t, d) PROVE TypeInv'
  BY <1>2 DEF WaitStart, store, ghost, WaitStatus
<1>3. ASSUME NEW t \in Threads, NEW d \in Devs, NEW f \in BOOLEAN,
             DestroyStart(t, d, f) PROVE TypeInv'
  BY <1>3 DEF DestroyStart, store, ghost
<1>4. ASSUME NEW t \in Threads, CreateCheck(t) PROVE TypeInv'
  BY <1>4 DEF CreateCheck, store, ghost
<1>5. ASSUME NEW t \in Threads, CreateCommit(t) PROVE TypeInv'
  <2>1. CASE conflict[t] /\ Goto(t, "cr_check") /\ UNCHANGED <<store, conflict, commits>>
    BY <1>5, <2>1 DEF CreateCommit, store
  <2>2. CASE ~conflict[t]
    <3>1. FreshBackend \in Backend
      BY DEF FreshBackend, Backend, XbState
    <3>2. /\ dev' = [dev EXCEPT ![arg[t]] = TRUE]
          /\ fe' = [fe EXCEPT ![arg[t]] = TRUE]
          /\ be' = [be EXCEPT ![arg[t]] = FreshBackend]
          /\ commits' = [commits EXCEPT ![arg[t]] = @ + 1]
          /\ WrittenBy(t, {Node("dev", arg[t]), Node("fe", arg[t]), Node("be", arg[t])})
          /\ pc' = [pc EXCEPT ![t] = "idle"]
          /\ UNCHANGED <<nextID, arg, force, bp, snap, result, allocated, stray>>
      BY <1>5, <2>2 DEF CreateCommit
    <3>3. conflict' \in [Threads -> BOOLEAN]
      BY <3>2 DEF WrittenBy, Conflicts
    <3>5. be' \in [Devs -> Backend \cup {NONE}]
      BY <3>1, <3>2
    <3>6. /\ dev' \in [Devs -> BOOLEAN]
          /\ fe' \in [Devs -> BOOLEAN]
          /\ commits' \in [Devs -> Nat]
      <4>1. dev' \in [Devs -> BOOLEAN]
        BY <3>2
      <4>2. fe' \in [Devs -> BOOLEAN]
        BY <3>2
      <4>3. commits' \in [Devs -> Nat]
        <5>1. commits[arg[t]] + 1 \in Nat
          BY SMTT(30)
        <5>2. QED
          BY <3>2, <5>1
      <4>4. QED
        BY <4>1, <4>2, <4>3
    <3>7. /\ pc' \in [Threads -> PC]
          /\ \A u \in Threads : pc'[u] = "al_commit" => snap'[u] < MaxAlloc
      BY <3>2
    <3>4. QED
      BY <3>2, <3>3, <3>5, <3>6, <3>7
  <2>3. QED
    BY <1>5, <2>1, <2>2 DEF CreateCommit
<1>6. ASSUME NEW t \in Threads, HotplugStatusCallback(t) PROVE TypeInv'
  BY <1>6 DEF HotplugStatusCallback, store, ghost, WaitStatus
<1>7. ASSUME NEW t \in Threads, WaitReturn(t) PROVE TypeInv'
  BY <1>7 DEF WaitReturn, store, ghost, WaitStatus, Callbacks
<1>8. ASSUME NEW t \in Threads, WriteBackendRead(t) PROVE TypeInv'
  BY <1>8 DEF WriteBackendRead, ReadVmBackend, store, ghost
<1>9. ASSUME NEW t \in Threads, WriteOnline(t) PROVE TypeInv'
  BY <1>9, BackendOrBareType, BackendFieldType DEF WrittenBy, Conflicts, WriteOnline, ghost
<1>10. ASSUME NEW t \in Threads, WriteClosing(t) PROVE TypeInv'
  BY <1>10, BackendOrBareType, BackendFieldType DEF WrittenBy, Conflicts, WriteClosing, ghost
<1>11. ASSUME NEW t \in Threads, ForceReadBackpath(t) PROVE TypeInv'
  BY <1>11 DEF ForceReadBackpath, store, ghost
<1>12. ASSUME NEW t \in Threads, RemoveBackend(t) PROVE TypeInv'
  BY <1>12 DEF WrittenBy, Conflicts, RemoveBackend, ghost
<1>13. ASSUME NEW t \in Threads, RemoveFrontend(t) PROVE TypeInv'
  BY <1>13 DEF WrittenBy, Conflicts, RemoveFrontend, ghost
<1>14. ASSUME NEW t \in Threads, RemoveVmRecord(t) PROVE TypeInv'
  BY <1>14 DEF WrittenBy, Conflicts, RemoveVmRecord
<1>15. ASSUME NEW t \in Threads, AllocStart(t) PROVE TypeInv'
  BY <1>15 DEF AllocStart, store, ghost, Counter
<1>16. ASSUME NEW t \in Threads, AllocCommit(t) PROVE TypeInv'
  <2>1. CASE ~conflict[t]
    <3>1. /\ nextID' = snap[t] + 1
          /\ allocated' = [allocated EXCEPT ![snap[t]] = @ + 1]
          /\ WrittenBy(t, {CounterNode})
          /\ pc' = [pc EXCEPT ![t] = "idle"]
          /\ snap' = [snap EXCEPT ![t] = 0]
          /\ UNCHANGED <<dev, fe, be, arg, force, bp, result, commits, stray>>
      BY <1>16, <2>1 DEF AllocCommit
    <3>2. conflict' \in [Threads -> BOOLEAN]
      BY <3>1 DEF WrittenBy, Conflicts
    <3>3. snap[t] < MaxAlloc
      BY <1>16 DEF AllocCommit
    <3>5. nextID' \in (0 .. MaxAlloc) \cup {NONE}
      BY <3>1, <3>3
    <3>6. allocated' \in [AllocIDs -> Nat]
      BY <3>1, <3>3 DEF AllocIDs
    <3>7. snap' \in [Threads -> 0 .. MaxAlloc]
      BY <3>1
    <3>8. pc' \in [Threads -> PC]
      BY <3>1
    <3>9. \A u \in Threads : pc'[u] = "al_commit" => snap'[u] < MaxAlloc
      BY <3>1
    <3>4. QED
      BY <3>1, <3>2, <3>5, <3>6, <3>7, <3>8, <3>9
  <2>2. CASE conflict[t]
    <3>1. /\ Counter < MaxAlloc
          /\ snap' = [snap EXCEPT ![t] = Counter]
          /\ conflict' = [conflict EXCEPT ![t] = FALSE]
          /\ UNCHANGED <<pc, nextID, allocated>>
          /\ UNCHANGED <<dev, fe, be, arg, force, bp, result, commits, stray>>
      BY <1>16, <2>2 DEF AllocCommit
    <3>2. Counter \in 0 .. MaxAlloc
      BY DEF Counter
    <3>3. QED
      BY <3>1, <3>2
  <2>3. QED
    BY <2>1, <2>2
<1>17. ASSUME NEW d \in Devs, NEW v \in HotplugValue, HotplugReport(d, v)
       PROVE TypeInv'
  <2>1. be' \in [Devs -> Backend \cup {NONE}]
    BY <1>17 DEF HotplugReport, Backend, HotplugValue
  <2>2. conflict' \in [Threads -> BOOLEAN]
    BY <1>17 DEF HotplugReport, Written, Conflicts
  <2>3. UNCHANGED <<dev, fe, nextID, pc, arg, force, bp, snap, result, ghost, stray>>
    BY <1>17 DEF HotplugReport
  <2>4. QED
    BY <2>1, <2>2, <2>3 DEF ghost
<1>18. ASSUME NEW d \in Devs, HotplugCleanup(d) PROVE TypeInv'
  BY <1>18 DEF Written, Conflicts, HotplugCleanup
<1>21. ASSUME NEW d \in Devs, NEW k \in Callbacks, StrayWatchFires(d, k)
       PROVE TypeInv'
  BY <1>21 DEF StrayWatchFires, store, local, ghost
<1>22. ASSUME NEW t \in Threads, NEW d \in Devs, DestroyWaitStart(t, d)
       PROVE TypeInv'
  BY <1>22 DEF DestroyWaitStart, store, ghost, WaitStatus
<1>23. ASSUME NEW t \in Threads, DeviceDestroyCallback(t) PROVE TypeInv'
  BY <1>23 DEF DeviceDestroyCallback, store, ghost, WaitStatus
<1>24. ASSUME NEW t \in Threads, DestroyWaitReturn(t) PROVE TypeInv'
  BY <1>24 DEF DestroyWaitReturn, store, ghost, WaitStatus, Callbacks
<1>19. CASE UNCHANGED vars
  BY <1>19 DEF vars, store, local, ghost
<1>20. QED
  BY <1>1, <1>2, <1>3, <1>4, <1>5, <1>6, <1>7, <1>8, <1>9, <1>10, <1>11,
     <1>12, <1>13, <1>14, <1>15, <1>16, <1>17, <1>18, <1>19, <1>21, <1>22, <1>23, <1>24
  DEF Next, Thread, Environment

\* Spec => []TypeInv by induction over the steps.
LEMMA TypeCorrect == Spec => []TypeInv
BY TypeInit, TypeStep, PTL DEF Spec

-----------------------------------------------------------------------------
(* allocateDeviceID.                                                       *)

LEMMA AllocInit == Init => AllocInv
BY TypeInit DEF Init, AllocInv, AllocCounted, AllocFresh, Counter, AllocIDs

LEMMA AllocStep == AllocInv /\ [Next]_vars => AllocInv'
<1> SUFFICES ASSUME AllocInv, [Next]_vars PROVE AllocInv'
  OBVIOUS
<1>0. TypeInv'
  BY TypeStep DEF AllocInv
<1> USE DEF AllocInv, TypeInv, TypeOK, Return, Goto, AllocCounted, AllocFresh, Counter
<1>1. ASSUME NEW t \in Threads, NEW d \in Devs, CreateStart(t, d) PROVE AllocInv'
  BY <1>0, <1>1 DEF CreateStart, store, ghost
<1>2. ASSUME NEW t \in Threads, NEW d \in Devs, WaitStart(t, d) PROVE AllocInv'
  BY <1>0, <1>2 DEF WaitStart, store, ghost
<1>3. ASSUME NEW t \in Threads, NEW d \in Devs, NEW f \in BOOLEAN,
             DestroyStart(t, d, f) PROVE AllocInv'
  BY <1>0, <1>3 DEF DestroyStart, store, ghost
<1>4. ASSUME NEW t \in Threads, CreateCheck(t) PROVE AllocInv'
  BY <1>0, <1>4 DEF CreateCheck, store, ghost
<1>5. ASSUME NEW t \in Threads, CreateCommit(t) PROVE AllocInv'
  <2>1. CASE conflict[t]
    BY <1>0, <1>5, <2>1 DEF CreateCommit, store
  <2>2. CASE ~conflict[t]
    <3>1. /\ UNCHANGED <<nextID, snap, allocated>>
          /\ pc' = [pc EXCEPT ![t] = "idle"]
          /\ WrittenBy(t, {Node("dev", arg[t]), Node("fe", arg[t]), Node("be", arg[t])})
      BY <1>5, <2>2 DEF CreateCommit
    <3>2. ASSUME NEW u \in Threads, pc'[u] = "al_commit", ~conflict'[u]
          PROVE  snap'[u] = Counter'
      <4>1. u # t /\ pc[u] = "al_commit"
        BY <3>1, <3>2
      <4>2. ~conflict[u]
        BY <3>1, <3>2, <4>1 DEF WrittenBy, Conflicts, TxnNodes
      <4>3. QED
        BY <3>1, <4>1, <4>2
    <3>3. QED
      BY <1>0, <3>1, <3>2
  <2>3. QED
    BY <2>1, <2>2
<1>6. ASSUME NEW t \in Threads, HotplugStatusCallback(t) PROVE AllocInv'
  BY <1>0, <1>6 DEF HotplugStatusCallback, store, ghost
<1>7. ASSUME NEW t \in Threads, WaitReturn(t) PROVE AllocInv'
  BY <1>0, <1>7 DEF WaitReturn, store, ghost
<1>8. ASSUME NEW t \in Threads, WriteBackendRead(t) PROVE AllocInv'
  BY <1>0, <1>8 DEF WriteBackendRead, ReadVmBackend, store, ghost
<1>9. ASSUME NEW t \in Threads, WriteOnline(t) PROVE AllocInv'
  BY <1>0, <1>9 DEF WriteOnline, ghost, WrittenBy, Conflicts, TxnNodes
<1>10. ASSUME NEW t \in Threads, WriteClosing(t) PROVE AllocInv'
  <2>1. /\ pc'[t] \in {"idle", "fd_read"}
        /\ \A u \in Threads \ {t} : pc'[u] = pc[u]
        /\ UNCHANGED <<nextID, allocated, snap>>
    BY <1>10 DEF WriteClosing, ghost
  <2>2. AllocCounted'
    BY <2>1
  <2>3. AllocFresh'
    <3> SUFFICES ASSUME NEW u \in Threads, pc'[u] = "al_commit", ~conflict'[u]
                 PROVE  snap'[u] = Counter'
      OBVIOUS
    <3>1. u # t /\ pc[u] = "al_commit"
      BY <2>1
    <3>2. ~conflict[u]
      BY <1>10, <3>1, TxnPending, ConflictKept DEF WriteClosing
    <3>3. QED
      BY <2>1, <3>1, <3>2
  <2>4. QED
    BY <1>0, <2>2, <2>3
<1>11. ASSUME NEW t \in Threads, ForceReadBackpath(t) PROVE AllocInv'
  BY <1>0, <1>11 DEF ForceReadBackpath, store, ghost
<1>12. ASSUME NEW t \in Threads, RemoveBackend(t) PROVE AllocInv'
  BY <1>0, <1>12 DEF RemoveBackend, ghost, WrittenBy, Conflicts, TxnNodes
<1>13. ASSUME NEW t \in Threads, RemoveFrontend(t) PROVE AllocInv'
  BY <1>0, <1>13 DEF RemoveFrontend, ghost, WrittenBy, Conflicts, TxnNodes
<1>14. ASSUME NEW t \in Threads, RemoveVmRecord(t) PROVE AllocInv'
  BY <1>0, <1>14 DEF RemoveVmRecord, WrittenBy, Conflicts, TxnNodes
<1>15. ASSUME NEW t \in Threads, AllocStart(t) PROVE AllocInv'
  BY <1>0, <1>15 DEF AllocStart, store, ghost
<1>16. ASSUME NEW t \in Threads, AllocCommit(t) PROVE AllocInv'
  <2>1. CASE ~conflict[t]
    <3>1. /\ nextID' = snap[t] + 1
          /\ allocated' = [allocated EXCEPT ![snap[t]] = @ + 1]
          /\ WrittenBy(t, {CounterNode})
          /\ pc' = [pc EXCEPT ![t] = "idle"]
          /\ snap' = [snap EXCEPT ![t] = 0]
      BY <1>16, <2>1 DEF AllocCommit
    <3>2. snap[t] = Counter /\ Counter < MaxAlloc /\ Counter \in Nat
      BY <1>16, <2>1 DEF AllocCommit
    <3>3. Counter' = Counter + 1
      BY <3>1, <3>2
    <3>4. AllocCounted'
      BY <3>1, <3>2, <3>3 DEF AllocIDs
    <3>5. ASSUME NEW u \in Threads, pc'[u] = "al_commit"
          PROVE  conflict'[u]
      <4>1. u # t /\ pc[u] = "al_commit"
        BY <3>1, <3>5
      <4>2. CounterNode \in TxnNodes(u)
        BY <4>1 DEF TxnNodes
      <4>3. QED
        BY <3>1, <4>1, <4>2 DEF WrittenBy, Conflicts
    <3>6. QED
      BY <1>0, <3>4, <3>5
  <2>2. CASE conflict[t]
    <3>1. /\ snap' = [snap EXCEPT ![t] = Counter]
          /\ conflict' = [conflict EXCEPT ![t] = FALSE]
          /\ UNCHANGED <<pc, nextID, allocated>>
      BY <1>16, <2>2 DEF AllocCommit
    <3>2. QED
      BY <1>0, <3>1
  <2>3. QED
    BY <2>1, <2>2
<1>17. ASSUME NEW d \in Devs, NEW v \in HotplugValue, HotplugReport(d, v)
       PROVE AllocInv'
  BY <1>0, <1>17 DEF HotplugReport, ghost, Written, Conflicts, TxnNodes
<1>18. ASSUME NEW d \in Devs, HotplugCleanup(d) PROVE AllocInv'
  BY <1>0, <1>18 DEF HotplugCleanup, Written, Conflicts, TxnNodes
<1>21. ASSUME NEW d \in Devs, NEW k \in Callbacks, StrayWatchFires(d, k)
       PROVE AllocInv'
  BY <1>0, <1>21 DEF StrayWatchFires, store, local, ghost
<1>22. ASSUME NEW t \in Threads, NEW d \in Devs, DestroyWaitStart(t, d)
       PROVE AllocInv'
  BY <1>0, <1>22 DEF DestroyWaitStart, store, ghost, WaitStatus
<1>23. ASSUME NEW t \in Threads, DeviceDestroyCallback(t) PROVE AllocInv'
  BY <1>0, <1>23 DEF DeviceDestroyCallback, store, ghost, WaitStatus
<1>24. ASSUME NEW t \in Threads, DestroyWaitReturn(t) PROVE AllocInv'
  BY <1>0, <1>24 DEF DestroyWaitReturn, store, ghost, WaitStatus
<1>19. CASE UNCHANGED vars
  BY <1>0, <1>19 DEF vars, store, local, ghost
<1>20. QED
  BY <1>1, <1>2, <1>3, <1>4, <1>5, <1>6, <1>7, <1>8, <1>9, <1>10, <1>11,
     <1>12, <1>13, <1>14, <1>15, <1>16, <1>17, <1>18, <1>19, <1>21, <1>22, <1>23, <1>24
  DEF Next, Thread, Environment

\* allocateDeviceID never hands out the same device id twice, whatever the
\* number of threads and however their transactions interleave: the
\* counter is read and written in one xenstore transaction, and a commit
\* that finds the counter changed retries from a fresh read.
THEOREM AllocUniqueHolds == Spec => []AllocUnique
<1>1. AllocInv => AllocUnique
  BY DEF AllocInv, AllocCounted, AllocUnique
<1>2. QED
  BY <1>1, AllocInit, AllocStep, PTL DEF Spec

-----------------------------------------------------------------------------
(* createDevice.                                                           *)

LEMMA CreateInit == Init => CreateInv
BY TypeInit DEF Init, CreateInv, CreateCounted, CreateFresh

LEMMA CreateStep == CreateInv /\ [Next]_vars => CreateInv'
<1> SUFFICES ASSUME CreateInv, [Next]_vars PROVE CreateInv'
  OBVIOUS
<1>0. TypeInv'
  BY TypeStep DEF CreateInv
<1> USE DEF CreateInv, TypeInv, TypeOK, Return, Goto, CreateCounted, CreateFresh
<1>1. ASSUME NEW t \in Threads, NEW d \in Devs, CreateStart(t, d) PROVE CreateInv'
  BY <1>0, <1>1 DEF CreateStart, store, ghost
<1>2. ASSUME NEW t \in Threads, NEW d \in Devs, WaitStart(t, d) PROVE CreateInv'
  BY <1>0, <1>2 DEF WaitStart, store, ghost
<1>3. ASSUME NEW t \in Threads, NEW d \in Devs, NEW f \in BOOLEAN,
             DestroyStart(t, d, f) PROVE CreateInv'
  BY <1>0, <1>3 DEF DestroyStart, store, ghost
<1>4. ASSUME NEW t \in Threads, CreateCheck(t) PROVE CreateInv'
  BY <1>0, <1>4 DEF CreateCheck, store, ghost
<1>5. ASSUME NEW t \in Threads, CreateCommit(t) PROVE CreateInv'
  <2>1. CASE conflict[t]
    BY <1>0, <1>5, <2>1 DEF CreateCommit, store
  <2>2. CASE ~conflict[t]
    <3> DEFINE d == arg[t]
    <3>1. /\ dev' = [dev EXCEPT ![d] = TRUE]
          /\ commits' = [commits EXCEPT ![d] = @ + 1]
          /\ WrittenBy(t, {Node("dev", d), Node("fe", d), Node("be", d)})
          /\ pc' = [pc EXCEPT ![t] = "idle"]
          /\ UNCHANGED arg
      BY <1>5, <2>2 DEF CreateCommit
    <3>2. ~dev[d] /\ commits[d] = 0
      BY <1>5, <2>2 DEF CreateCommit
    <3>3. CreateCounted'
      BY <3>1, <3>2
    <3>4. ASSUME NEW u \in Threads, pc'[u] = "cr_commit"
          PROVE  conflict'[u]
      <4>1. u # t /\ pc[u] = "cr_commit"
        BY <3>1, <3>4
      <4>2. Node("dev", d) \in TxnNodes(u)
        BY <4>1 DEF TxnNodes
      <4>3. QED
        BY <3>1, <4>1, <4>2 DEF WrittenBy, Conflicts
    <3>5. QED
      BY <1>0, <3>3, <3>4
  <2>3. QED
    BY <2>1, <2>2
<1>6. ASSUME NEW t \in Threads, HotplugStatusCallback(t) PROVE CreateInv'
  BY <1>0, <1>6 DEF HotplugStatusCallback, store, ghost
<1>7. ASSUME NEW t \in Threads, WaitReturn(t) PROVE CreateInv'
  BY <1>0, <1>7 DEF WaitReturn, store, ghost
<1>8. ASSUME NEW t \in Threads, WriteBackendRead(t) PROVE CreateInv'
  BY <1>0, <1>8 DEF WriteBackendRead, ReadVmBackend, store, ghost
<1>9. ASSUME NEW t \in Threads, WriteOnline(t) PROVE CreateInv'
  BY <1>0, <1>9 DEF WriteOnline, ghost, WrittenBy, Conflicts, TxnNodes
<1>10. ASSUME NEW t \in Threads, WriteClosing(t) PROVE CreateInv'
  <2>1. /\ pc'[t] \in {"idle", "fd_read"}
        /\ \A u \in Threads \ {t} : pc'[u] = pc[u]
        /\ UNCHANGED <<dev, arg, commits>>
    BY <1>10 DEF WriteClosing, ghost
  <2>2. CreateCounted'
    BY <2>1
  <2>3. CreateFresh'
    <3> SUFFICES ASSUME NEW u \in Threads, pc'[u] = "cr_commit", ~conflict'[u]
                 PROVE  ~dev'[arg'[u]]
      OBVIOUS
    <3>1. u # t /\ pc[u] = "cr_commit"
      BY <2>1
    <3>2. ~conflict[u]
      BY <1>10, <3>1, TxnPending, ConflictKept DEF WriteClosing
    <3>3. QED
      BY <2>1, <3>1, <3>2
  <2>4. QED
    BY <1>0, <2>2, <2>3
<1>11. ASSUME NEW t \in Threads, ForceReadBackpath(t) PROVE CreateInv'
  BY <1>0, <1>11 DEF ForceReadBackpath, store, ghost
<1>12. ASSUME NEW t \in Threads, RemoveBackend(t) PROVE CreateInv'
  <2>1. CASE bp[t]
    <3>1. /\ WrittenBy(t, {Node("be", arg[t])})
          /\ pc' = [pc EXCEPT ![t] = "fd_rm_front"]
          /\ UNCHANGED <<dev, arg, commits>>
      BY <1>12, <2>1 DEF RemoveBackend, ghost
    <3>2. ASSUME NEW u \in Threads, pc'[u] = "cr_commit", ~conflict'[u]
          PROVE  ~dev'[arg'[u]]
      <4>1. u # t /\ pc[u] = "cr_commit"
        BY <3>1, <3>2
      <4>2. ~conflict[u]
        BY <3>1, <3>2, <4>1, ConflictKept, TxnPending
      <4>3. QED
        BY <3>1, <4>1, <4>2
    <3>3. QED
      BY <1>0, <3>1, <3>2
  <2>2. CASE ~bp[t]
    BY <1>0, <1>12, <2>2 DEF RemoveBackend, ghost
  <2>3. QED
    BY <2>1, <2>2
<1>13. ASSUME NEW t \in Threads, RemoveFrontend(t) PROVE CreateInv'
  BY <1>0, <1>13 DEF RemoveFrontend, ghost, WrittenBy, Conflicts, TxnNodes
<1>14. ASSUME NEW t \in Threads, RemoveVmRecord(t) PROVE CreateInv'
  BY <1>0, <1>14 DEF RemoveVmRecord, WrittenBy, Conflicts, TxnNodes
<1>15. ASSUME NEW t \in Threads, AllocStart(t) PROVE CreateInv'
  BY <1>0, <1>15 DEF AllocStart, store, ghost
<1>16. ASSUME NEW t \in Threads, AllocCommit(t) PROVE CreateInv'
  <2>1. CASE ~conflict[t]
    <3>1. /\ WrittenBy(t, {CounterNode})
          /\ pc' = [pc EXCEPT ![t] = "idle"]
          /\ UNCHANGED <<dev, arg, commits>>
      BY <1>16, <2>1 DEF AllocCommit
    <3>2. ASSUME NEW u \in Threads, pc'[u] = "cr_commit", ~conflict'[u]
          PROVE  ~dev'[arg'[u]]
      <4>1. u # t /\ pc[u] = "cr_commit"
        BY <3>1, <3>2
      <4>2. ~conflict[u]
        BY <3>1, <3>2, <4>1, ConflictKept, TxnPending
      <4>3. QED
        BY <3>1, <4>1, <4>2
    <3>3. QED
      BY <1>0, <3>1, <3>2
  <2>2. CASE conflict[t]
    BY <1>0, <1>16, <2>2 DEF AllocCommit
  <2>3. QED
    BY <2>1, <2>2
<1>17. ASSUME NEW d \in Devs, NEW v \in HotplugValue, HotplugReport(d, v)
       PROVE CreateInv'
  BY <1>0, <1>17 DEF HotplugReport, ghost, Written, Conflicts, TxnNodes
<1>18. ASSUME NEW d \in Devs, HotplugCleanup(d) PROVE CreateInv'
  BY <1>0, <1>18 DEF HotplugCleanup, Written, Conflicts, TxnNodes
<1>21. ASSUME NEW d \in Devs, NEW k \in Callbacks, StrayWatchFires(d, k)
       PROVE CreateInv'
  BY <1>0, <1>21 DEF StrayWatchFires, store, local, ghost
<1>22. ASSUME NEW t \in Threads, NEW d \in Devs, DestroyWaitStart(t, d)
       PROVE CreateInv'
  BY <1>0, <1>22 DEF DestroyWaitStart, store, ghost, WaitStatus
<1>23. ASSUME NEW t \in Threads, DeviceDestroyCallback(t) PROVE CreateInv'
  BY <1>0, <1>23 DEF DeviceDestroyCallback, store, ghost, WaitStatus
<1>24. ASSUME NEW t \in Threads, DestroyWaitReturn(t) PROVE CreateInv'
  BY <1>0, <1>24 DEF DestroyWaitReturn, store, ghost, WaitStatus
<1>19. CASE UNCHANGED vars
  BY <1>0, <1>19 DEF vars, store, local, ghost
<1> HIDE DEF CreateInv, TypeInv, TypeOK, CreateCounted, CreateFresh
<1>20. QED
  BY <1>1, <1>2, <1>3, <1>4, <1>5, <1>6, <1>7, <1>8, <1>9, <1>10, <1>11,
     <1>12, <1>13, <1>14, <1>15, <1>16, <1>17, <1>18, <1>19, <1>21, <1>22, <1>23, <1>24
  DEF Next, Thread, Environment

\* createDevice commits the records of a device at most once per /vm
\* record: the "already connected" check and the writes are in one
\* transaction, so two concurrent creates of one device id cannot both
\* commit, and a retry re-reads the device list.
THEOREM OneCreatePerRecordHolds == Spec => []OneCreatePerRecord
<1>1. CreateInv => OneCreatePerRecord
  BY DEF CreateInv, CreateCounted, OneCreatePerRecord
<1>2. QED
  BY <1>1, CreateInit, CreateStep, PTL DEF Spec

\* The type invariant of the runs, for every value of the constants.
THEOREM TypeOKHolds == Spec => []TypeOK
BY TypeCorrect, PTL DEF TypeInv

=============================================================================
