-------------------------- MODULE MCDeploymentStore --------------------------
(* A host with two processes on one store and three deployments. *)
EXTENDS DeploymentStore, TLC

CONSTANTS a1, a2, d1, d2, d3

MCActors == {a1, a2}
MCDeployments == {d1, d2, d3}
MCSymmetry == Permutations(MCActors) \union Permutations(MCDeployments)
=============================================================================
