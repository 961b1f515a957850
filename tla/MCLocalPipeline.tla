--------------------------- MODULE MCLocalPipeline ---------------------------
(* A synced vault with two valid contents and an invalid one, and an         *)
(* operator. The host is new and nobody interferes, or its first run has     *)
(* promoted c1, the vault has moved on to c2, and an operator or an upgrade  *)
(* may interfere. Run ids, releases and valid contents are interchangeable:  *)
(* ids are taken in one order, and one release to begin with and one valid   *)
(* content that comes first stand for all. Four ids leave room for three     *)
(* builds that are followed by a fresh id: one content, the next one, and    *)
(* the one that follows a rollback.                                          *)
EXTENDS LocalPipeline

CONSTANTS job, op, c1, c2, bad, v1, v2, b1, b2, b3, b4

MCActors == {job, op}
MCContents == {c1, c2, bad}
MCValid == {c1, c2}
MCReleases == {v1, v2}
MCRuns == {b1, b2, b3, b4}
MCDeployments == [snap : MCValid, rel : MCReleases, run : MCRuns]

Taken(id) == \E b \in builds : b.run = id
InOrder == (Taken(b2) => Taken(b1)) /\ (Taken(b3) => Taken(b2)) /\ (Taken(b4) => Taken(b3))

NewHost ==
    /\ Init
    /\ vault \in {c1, bad} /\ passed = {}
    /\ last = NoResult /\ chosen = {}
    /\ ops = MaxOps

UsedHost ==
    LET d == [snap |-> c1, rel |-> v1, run |-> b1] IN
    /\ active = [cur |-> [dep |-> d, at |-> 1], prev |-> None]
    /\ history = {active.cur} /\ torn = {} /\ builds = {d}
    /\ projection = active.cur
    /\ journal = None
    /\ lock = None
    /\ txn = [a \in MCActors |-> NoTxn]
    /\ reply = [a \in MCActors |-> "none"]
    /\ clock = 1 /\ faults = 0
    /\ selections = {[dep |-> d, at |-> 1, way |-> "promote", over |-> None]}
    /\ vault = c2 /\ passed = {d}
    /\ last = [outcome |-> "PROMOTED", dep |-> d, did |-> TRUE]
    /\ chosen = {[dep |-> d, over |-> None, expected |-> None, recent |-> {c1}, rel |-> v1]}
    /\ ops = 0

OrderedSpec == /\ NewHost \/ UsedHost
               /\ edits = 0 /\ release = v1 /\ run = NoRun
               /\ [][NextLocal /\ InOrder']_vars
               /\ FairLocal
=============================================================================
