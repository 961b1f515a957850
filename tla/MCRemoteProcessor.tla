-------------------------- MODULE MCRemoteProcessor --------------------------
(* A host with one processor, one operator and a handful of requests. *)
EXTENDS RemoteProcessor, TLC

CONSTANTS host, op, r1, r2, s1, s2, b1, b2, b3, v1, v2, e1, e2

MCActors == {host, op}
MCRequests == {r1, r2}
OneRequest == {r1}
MCSnapshots == {s1, s2}
MCRuns == {b1, b2, b3}
TwoRuns == {b1, b2}

\* One release with one suite; one release with two suites and a second release.
OnePolicy == {[rel |-> v1, suite |-> e1]}
SomePolicies == {[rel |-> v1, suite |-> e1], [rel |-> v1, suite |-> e2],
                 [rel |-> v2, suite |-> e1]}

DeploymentsOver(S, P, B) == [snap : S, rel : {p.rel : p \in P}, run : B]
MCDeployments == DeploymentsOver(MCSnapshots, OnePolicy, MCRuns)
PolicyDeployments == DeploymentsOver(MCSnapshots, SomePolicies, TwoRuns)

\* A host that has been in use: two deployments were promoted, one after the
\* other, and both are recorded.
WarmInit ==
    LET p  == CHOOSE p \in Policies : TRUE
        d1 == [snap |-> s1, rel |-> p.rel, run |-> b1]
        d2 == [snap |-> s2, rel |-> p.rel, run |-> b2]
        x1 == [dep |-> d1, at |-> 1]
        x2 == [dep |-> d2, at |-> 2]
    IN  /\ active = [cur |-> x2, prev |-> x1]
        /\ history = {x1, x2} /\ torn = {} /\ builds = {d1, d2}
        /\ projection = x2
        /\ journal = None
        /\ lock = None
        /\ txn = [a \in Actors |-> NoTxn]
        /\ reply = [a \in Actors |-> "none"]
        /\ clock = 2 /\ faults = 0
        /\ selections = {[dep |-> d1, at |-> 1, way |-> "promote", over |-> None],
                         [dep |-> d2, at |-> 2, way |-> "promote", over |-> d1]}
        /\ req = [r \in Requests |-> None]
        /\ result = [r \in Requests |-> NoResult]
        /\ marker = {} /\ cjournal = {}
        /\ evaluation = [d \in Deployments |->
                           [passed |-> d \in {d1, d2},
                            policy |-> IF d \in {d1, d2} THEN p ELSE None]]
        /\ vouched = {d1, d2}
        /\ policy = p
        /\ proc = NoRun
        /\ ops = 0
        /\ applied = {}

WarmSpec == WarmInit /\ [][NextHost]_vars

FairWarmSpec == /\ WarmSpec
                /\ WF_vars(ProcessorStep)
                /\ \A o \in Operators : WF_vars(OperatorStep(o))

MCSymmetry == Permutations(MCRequests) \union Permutations(MCSnapshots)
                  \union Permutations(MCRuns)
=============================================================================
