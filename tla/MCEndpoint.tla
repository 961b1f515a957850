------------------------------ MODULE MCEndpoint ------------------------------
(* Three processes that start, stop and are killed at one path. *)
EXTENDS Endpoint, TLC

CONSTANTS p1, p2, p3

MCProcesses == {p1, p2, p3}
MCSymmetry == Permutations(MCProcesses)
=============================================================================
