---------------------------- MODULE MCNetbufpool ----------------------------
(* Model-checking instance of Netbufpool: processes as model values.       *)
EXTENDS Netbufpool, TLC

ProcSymmetry == Permutations(Procs)

=============================================================================
