----------------------------- MODULE MCRetention -----------------------------
(* A host with a planner and a history: five deployments of three snapshots, *)
(* one of them the candidate of a request that waits for its commit, and a   *)
(* fourth snapshot to come.                                                  *)
EXTENDS Retention, TLC

CONSTANTS host, op, planner, r1, r2, s1, s2, s3, s4, b1, b2, b3, b4, b5, b6, v1, e1

MCActors == {host, op, planner}
MCRequests == {r1, r2}
MCSnapshots == {s1, s2, s3, s4}
MCRuns == {b1, b2, b3, b4, b5, b6}
OnePolicy == {[rel |-> v1, suite |-> e1]}
MCDeployments == [snap : MCSnapshots, rel : {v1}, run : MCRuns]

\* Request r1 was queued over d2 and got the candidate d3. Then one deployment
\* after the other was promoted, d3 too, until d2 was selected again. Request
\* r2 is still to come, and no operator interferes; or r2 was about d5 and is
\* settled, and an operator may act.
UsedInit ==
    LET p  == [rel |-> v1, suite |-> e1]
        d1 == [snap |-> s1, rel |-> v1, run |-> b1]
        d2 == [snap |-> s2, rel |-> v1, run |-> b2]
        d3 == [snap |-> s1, rel |-> v1, run |-> b3]
        d4 == [snap |-> s3, rel |-> v1, run |-> b4]
        d5 == [snap |-> s3, rel |-> v1, run |-> b5]
        past == <<d2, d3, d4, d5, d1, d2>>
        body(s, d) == [snap |-> s, rel |-> v1, expected |-> d]
        answer(o, d) == [outcome |-> o, cand |-> d, policy |-> p]
    IN  /\ active = [cur |-> [dep |-> d2, at |-> 6], prev |-> [dep |-> d1, at |-> 5]]
        /\ history = {[dep |-> past[t], at |-> t] : t \in 1..6}
        /\ torn = {} /\ builds = {d1, d2, d3, d4, d5}
        /\ projection = active.cur
        /\ journal = None
        /\ lock = None
        /\ txn = [a \in Actors |-> NoTxn]
        /\ reply = [a \in Actors |-> "none"]
        /\ clock = 6 /\ faults = 0
        /\ selections = {[dep |-> past[t], at |-> t, way |-> "promote",
                          over |-> IF t = 1 THEN None ELSE past[t - 1]] : t \in 1..6}
        /\ \/ /\ req = (r1 :> body(s1, d2) @@ r2 :> None)
              /\ result = (r1 :> answer("CANDIDATE_READY", d3) @@ r2 :> NoResult)
              /\ marker = {} /\ cjournal = {} /\ applied = {}
              /\ ops = MaxOps
           \/ /\ req = (r1 :> body(s1, d2) @@ r2 :> body(s3, d4))
              /\ result = (r1 :> answer("CANDIDATE_READY", d3) @@ r2 :> answer("PROMOTED", d5))
              /\ marker = {r2} /\ cjournal = {r2}
              /\ applied = {[req |-> r2, at |-> 4, dep |-> d5, over |-> d4, policy |-> p]}
              /\ ops = 0
        /\ evaluation = [d \in Deployments |->
                           [passed |-> d \in builds, policy |-> IF d \in builds THEN p ELSE None]]
        /\ vouched = builds
        /\ policy = p
        /\ proc = NoRun
        /\ snaps = {s1, s2, s3}
        /\ failed = {} /\ unfinished = FALSE
        /\ plan = NoPlan

UsedSpec == UsedInit /\ [][NextRetention]_<<vars, retentionVars>>
=============================================================================
