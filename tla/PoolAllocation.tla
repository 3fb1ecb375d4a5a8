---------------------------- MODULE PoolAllocation ----------------------------
(***************************************************************************)
(* What a lock-protected allocation table with owner liveness checking     *)
(* promises (spec section 5, "the fallback-safe resource reclamation       *)
(* pattern"), with no file, lock or save in it: each device has at most    *)
(* one owner; a process claims, in one atomic step, a device that has no   *)
(* owner or whose owner is dead; it releases only a device it owns; a      *)
(* process may die at any time.  Netbufpool is shown to implement it.     *)
(***************************************************************************)
EXTENDS Naturals

CONSTANTS Procs, BufDevs, NONE

VARIABLES
    owner,    \* the owner of each device, or NONE
    alive     \* the process still runs

vars == <<owner, alive>>

\* A device nobody alive holds.
Reclaimable(d) == owner[d] = NONE \/ ~alive[owner[d]]

\* A process holds at most one device of the pool.
Holds(p) == \E d \in BufDevs : owner[d] = p

Init ==
    /\ owner = [d \in BufDevs |-> NONE]
    /\ alive = [p \in Procs |-> TRUE]

\* A live process that holds nothing takes a reclaimable device.
Claim(p, d) ==
    /\ alive[p]
    /\ ~Holds(p)
    /\ Reclaimable(d)
    /\ owner' = [owner EXCEPT ![d] = p]
    /\ UNCHANGED alive

\* A live process gives back the device it holds.
Release(p, d) ==
    /\ alive[p]
    /\ owner[d] = p
    /\ owner' = [owner EXCEPT ![d] = NONE]
    /\ UNCHANGED alive

\* A process ends; its claims stay until somebody reclaims them.
Die(p) ==
    /\ alive[p]
    /\ alive' = [alive EXCEPT ![p] = FALSE]
    /\ UNCHANGED owner

Next ==
    \E p \in Procs :
        \/ Die(p)
        \/ \E d \in BufDevs : Claim(p, d) \/ Release(p, d)

Spec == Init /\ [][Next]_vars

=============================================================================
