--------------------------- MODULE MCDevController ---------------------------
(* Model-checking instance of DevController: xend threads are model values *)
(* and interchangeable, so the runs with two threads use their symmetry.   *)
EXTENDS DevController, TLC

\* Threads are interchangeable: no action names a particular thread.
ThreadSymmetry == Permutations(Threads)
=============================================================================
