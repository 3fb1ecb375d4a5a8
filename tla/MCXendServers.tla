---------------------------- MODULE MCXendServers ----------------------------
(* Model-checking instance of XendServers: servers as model values.        *)
EXTENDS XendServers, TLC

ServerSymmetry == Permutations(Servers)

=============================================================================
