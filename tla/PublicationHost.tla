--------------------------- MODULE PublicationHost ---------------------------
(***************************************************************************)
(* What a HomeOps host promises to the publisher behind the receiver: the  *)
(* queue of immutable requests, their results and commit markers, and the  *)
(* deployment that is selected and the one that is shown. RemoteProcessor  *)
(* is checked to implement it; Publication runs the coordinator against it.*)
(*                                                                         *)
(*   req, result, marker   as in RemoteProcessor, a result without the     *)
(*                         promotion policy                                *)
(*   current               the deployment active.json selects              *)
(*   shown                 the deployment pipeline-state/current.json shows*)
(*   seen                  every deployment that was ever selected         *)
(*   applied               the requests whose commit the host applied      *)
(***************************************************************************)
EXTENDS Naturals, FiniteSets

CONSTANTS Requests, Snapshots, Releases, Runs, None

VARIABLES req, result, marker, current, shown, seen, applied

hostVars == <<req, result, marker, current, shown, seen, applied>>

Candidates == [snap : Snapshots, rel : Releases, run : Runs]

Failures == {"REMOTE_SNAPSHOT_INVALID", "BUILD_FAILED", "EVALUATION_FAILED",
             "PROMOTION_CONFLICT"}

Outcomes == {"NONE", "CANDIDATE_READY", "PROMOTED", "UNCHANGED"} \union Failures

NoResult == [outcome |-> "NONE", cand |-> None]

InitHost ==
    /\ req = [r \in Requests |-> None]
    /\ result = [r \in Requests |-> NoResult]
    /\ marker = {}
    /\ current = None /\ shown = None
    /\ seen = {}
    /\ applied = {}

\* The receiver queues a request of the publisher, once.
Enqueue(r, body) ==
    /\ req[r] = None
    /\ req' = [req EXCEPT ![r] = body]
    /\ UNCHANGED <<result, marker, current, shown, seen, applied>>

\* The receiver accepts the publisher's commit of a candidate.
Authorize(r) ==
    /\ result[r].outcome = "CANDIDATE_READY"
    /\ marker' = marker \union {r}
    /\ UNCHANGED <<req, result, current, shown, seen, applied>>

Settle(r, o, d) ==
    /\ result' = [result EXCEPT ![r] = [outcome |-> o, cand |-> d]]
    /\ UNCHANGED <<req, marker, current, shown, seen, applied>>

\* A queued request is answered: its snapshot is selected already, or it has
\* a candidate of its own, or it failed.
Answer(r) ==
    /\ req[r] # None /\ result[r] = NoResult
    /\ \/ \E d \in Candidates :
            /\ d.snap = req[r].snap /\ d.rel = req[r].rel
            /\ \A q \in Requests : result[q].cand # d
            /\ Settle(r, "CANDIDATE_READY", d)
       \/ \E d \in seen : d.snap = req[r].snap /\ Settle(r, "UNCHANGED", d)
       \/ \E o \in Failures : Settle(r, o, None)

\* The compare-and-swap of an authorized candidate.
Apply(r) ==
    /\ r \in marker \ applied
    /\ result[r].outcome = "CANDIDATE_READY"
    /\ current = req[r].expected
    /\ current' = result[r].cand
    /\ seen' = seen \union {current'}
    /\ applied' = applied \union {r}
    /\ UNCHANGED <<req, result, marker, shown>>

\* An authorized request gets its final result.
Finish(r) ==
    /\ r \in marker
    /\ result[r].outcome = "CANDIDATE_READY"
    /\ \/ \E o \in {"PROMOTED", "UNCHANGED"} :
            result[r].cand \in seen /\ Settle(r, o, result[r].cand)
       \/ \E o \in Failures : Settle(r, o, result[r].cand)

\* An operator promotes a build or rolls back.
Choose(d) ==
    /\ current' = d
    /\ seen' = seen \union {d}
    /\ UNCHANGED <<req, result, marker, shown, applied>>

\* The projection is written; an unlocked publication may be late.
Show(d) ==
    /\ d \in seen \union {None}
    /\ shown' = d
    /\ UNCHANGED <<req, result, marker, current, seen, applied>>

\* What the publisher saw selected is not what it asks for.
Bodies == {b \in [snap : Snapshots, rel : Releases, expected : seen \union {None}] :
             b.expected # None => <<b.expected.snap, b.expected.rel>> # <<b.snap, b.rel>>}

Next ==
    \/ \E r \in Requests, body \in Bodies : Enqueue(r, body)
    \/ \E r \in Requests : Authorize(r) \/ Answer(r) \/ Apply(r) \/ Finish(r)
    \/ \E d \in Candidates : Choose(d)
    \/ \E d \in seen \union {None} : Show(d)

Spec == InitHost /\ [][Next]_hostVars
=============================================================================
