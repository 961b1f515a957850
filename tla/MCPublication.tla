----------------------------- MODULE MCPublication -----------------------------
(* A workstation that publishes two requests to one host. *)
EXTENDS Publication, TLC

CONSTANTS r1, r2, s1, s2, v1, v2, b1, b2

MCRequests == {r1, r2}
OneRequest == {r1}
MCSnapshots == {s1, s2}
OneRelease == {v1}
TwoReleases == {v1, v2}
MCRuns == {b1, b2}
OneRun == {b1}

MCSymmetry == Permutations(MCRequests) \union Permutations(MCSnapshots)
                  \union Permutations(MCRuns)
=============================================================================
