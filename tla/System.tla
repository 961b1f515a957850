-------------------------------- MODULE System --------------------------------
(***************************************************************************)
(* The whole publication path: the workstation of Publication on the host  *)
(* of RemoteProcessor. Coordinator and receiver do what they do in         *)
(* Publication, but on the queue files, active.json and the projection of  *)
(* the real host, and the processor, its operators, upgrades and crashes   *)
(* take the steps of RemoteProcessor. Nothing is added to either side:     *)
(* what Publication says of its abstract host is replaced by the state of  *)
(* the real one, and the submissions and markers that RemoteProcessor lets *)
(* happen at any time are the ones the receiver makes.                     *)
(*                                                                         *)
(* The theorems are the end-to-end promises, for every number of requests, *)
(* snapshots, policies, runs, operators, crashes and lost calls.           *)
(***************************************************************************)
EXTENDS RemoteProcessorProofs

CONSTANTS MaxMoves, MaxLosses

VARIABLES vault, release, attempt, archive, co, wire, late,
          moves, losses, reported, confirmed, used

\* The publisher, on the host's own state. Operators and publications are
\* steps of the host, so nothing is chosen or shown by the publisher's model.
Pub == INSTANCE PublicationProofs
           WITH Releases <- Releases,
                result <- [r \in Requests |-> [outcome |-> result[r].outcome,
                                              cand |-> result[r].cand]],
                current <- DepOf(active.cur), shown <- DepOf(projection),
                seen <- {s.dep : s \in selections},
                applied <- {x.req : x \in applied},
                MaxChoices <- 0, choices <- 0

InitSystem == InitHost /\ Pub!InitPublication

\* The processor, its operators and the upgrades: everything of NextHost but
\* the receiver.
HostSide ==
    /\ \/ ProcessorStep \/ ProcessorFault
       \/ \E o \in Operators : OperatorCommand(o) \/ OperatorStep(o) \/ OperatorFault(o)
       \/ \E p \in Policies : Upgrade(p)
    /\ UNCHANGED <<vault, release, attempt, archive, co, wire, late, moves, losses,
                   reported, confirmed, used>>

\* Coordinator, receiver and the changes of the vault; of the host's files the
\* receiver writes requests and markers.
PublisherSide ==
    /\ UNCHANGED <<storeVars, result, cjournal, reports, policy, proc, ops, applied>>
    /\ \/ Pub!CoordinatorStep \/ Pub!Interrupt
       \/ \E c \in late \union {wire} : Pub!Receive(c) \/ Pub!ReceiverFault(c)
       \/ Pub!Move

NextSystem == HostSide \/ PublisherSide

systemVars == <<vars, vault, release, attempt, archive, co, wire, late, moves, losses,
                reported, confirmed, used>>

SpecSystem == InitSystem /\ [][NextSystem]_systemVars

-----------------------------------------------------------------------------
(* Properties *)

\* What last-result.json calls published was selected in active.json with the
\* snapshot and the release of the attempt, and had passed its evaluation.
PublishedIsSelected ==
    \A x \in reported : x.outcome \in {"PROMOTED", "PROMOTED_SOURCE_MOVED", "UNCHANGED"} =>
        \E s \in selections : s.dep.snap = x.snap /\ s.dep.rel = x.rel /\ s.dep \in vouched

\* Whatever the processor put into active.json for a request, the workstation
\* asked for: the commit was sent while its vault and release were those of
\* the attempt, the deployment is built from just that snapshot under just that
\* release, and it replaced the deployment the attempt was made against.
AppliedIsConfirmed ==
    \A y \in applied :
        /\ y.req \in confirmed /\ y.over = req[y.req].expected
        /\ \/ attempt # None /\ attempt.id = y.req
              /\ attempt.snap = y.dep.snap /\ attempt.rel = y.dep.rel
              /\ attempt.expected = y.over
           \/ \E x \in reported : x.id = y.req /\ x.snap = y.dep.snap /\ x.rel = y.dep.rel

-----------------------------------------------------------------------------
(* The two views of the host agree *)

\* What the publisher's model takes for granted of its constants: null is no
\* attempt, and the numbers of moves and losses are numbers.
WorkstationAssumption ==
    /\ {MaxMoves, MaxLosses} \subseteq Nat
    /\ None \notin Pub!Attempts

\* The host of the publisher is the abstract host that RemoteProcessor implements.
LEMMA SameHost ==
    /\ Host!Next <=> Pub!Next
    /\ Host!hostVars = Pub!hostVars
<1>1. Host!hostVars = Pub!hostVars
  BY DEF Host!hostVars, Pub!hostVars
<1>2. Host!Next <=> Pub!Next
  BY DEF Host!Next, Pub!Next, Host!Enqueue, Pub!Enqueue, Host!Authorize, Pub!Authorize,
     Host!Answer, Pub!Answer, Host!Settle, Pub!Settle, Host!Apply, Pub!Apply, Host!Finish,
     Pub!Finish, Host!Choose, Pub!Choose, Host!Show, Pub!Show, Host!Bodies, Pub!Bodies,
     Host!Candidates, Pub!Candidates, Host!Failures, Pub!Failures, Host!NoResult, Pub!NoResult
<1>3. QED BY <1>1, <1>2

\* Every step of the host is one the publisher's model of it has.
LEMMA HostTakesPubSteps ==
    ASSUME HostInv, [NextHost]_vars
    PROVE  [Pub!Next]_(Pub!hostVars)
<1>1. [Host!Next]_(Host!hostVars)
  BY HostMaps
<1>2. Host!Next <=> Pub!Next
  BY SameHost
<1>3. QED BY <1>1, <1>2 DEF Host!hostVars, Pub!hostVars

\* What both modules assume of their constants, in the publisher's words.
LEMMA SystemConstants ==
    ASSUME WorkstationAssumption
    PROVE  /\ None \notin Requests
           /\ {MaxMoves, MaxLosses, 0} \subseteq Nat
           /\ None \notin Pub!Candidates \union Pub!Attempts
           /\ Pub!Candidates = Deployments
<1>1. Pub!Candidates = Deployments
  BY ProcessorAssumption DEF Pub!Candidates, Releases
<1>2. QED BY <1>1, ProcessorAssumption, StoreAssumption DEF WorkstationAssumption

-----------------------------------------------------------------------------
(* The inductive invariant: both sides' own, on one state *)

SystemInv ==
    /\ HostInv
    /\ Pub!PublicationInv /\ Pub!RequestInv /\ Pub!CandidateInv

\* The host's own steps leave requests and markers alone.
LEMMA HostSideFrame ==
    ASSUME HostSide
    PROVE  NextHost /\ UNCHANGED <<req, marker>>
<1>1. NextHost
  BY DEF HostSide, NextHost
<1>2. CASE ProcessorStep
  BY <1>1, <1>2 DEF ProcessorStep, StartRun, Recover, Recovered, Publish, Published, RejectPayload,
     RejectRelease, RefuseSubmission, BuildSubmission, FinishBuild, Built, EvaluationFails,
     Evaluate, BindPolicy, WriteReady, ListCommits, RefuseCommit, BeginCommit, ApplyCommit, Applied,
     RepairCommit, Repaired, Announced, ListDone, EndRun, WorkInStore, queueVars
<1>3. CASE ProcessorFault
  BY <1>1, <1>3 DEF ProcessorFault, queueVars
<1>4. QED
  BY <1>1, <1>2, <1>3 DEF HostSide, OperatorCommand, OperatorStep, OperatorFault, Upgrade, queueVars

\* A step of the host is one the publisher's model has, and keeps what the
\* publisher knows.
LEMMA HostSideStep ==
    ASSUME WorkstationAssumption, SystemInv, HostSide
    PROVE  SystemInv'
<1>1. NextHost /\ UNCHANGED <<req, marker>>
  BY HostSideFrame
<1>2. UNCHANGED <<vault, release, attempt, archive, co, wire, late, reported, confirmed, used>>
  BY DEF HostSide
<1>3. HostInv'
  BY <1>1, HostStep DEF SystemInv
<1>4. [Pub!Next]_(Pub!hostVars)
  BY <1>1, HostTakesPubSteps DEF SystemInv
<1>5. Pub!HostInv /\ vault \in Snapshots /\ release \in Releases
  BY DEF SystemInv, Pub!PublicationInv, Pub!LocalTypes
<1>6. Pub!HostInv' /\ Pub!HostKeeps /\ marker' = marker
  <2>1. \/ \E r \in Requests : Pub!Answer(r) \/ Pub!Apply(r) \/ Pub!Finish(r)
        \/ \E d \in Pub!Candidates : Pub!Choose(d)
        \/ \E d \in {s.dep : s \in selections} \union {None} : Pub!Show(d)
        \/ UNCHANGED Pub!hostVars
    BY <1>1, <1>4 DEF Pub!Next, Pub!Enqueue, Pub!Authorize, Pub!hostVars
  <2>2. QED BY <1>5, <2>1, SystemConstants, Pub!HostStep
<1>7. Pub!PublicationInv'
  BY <1>1, <1>2, <1>5, <1>6, SystemConstants, Pub!EnvironmentStep DEF SystemInv
<1>8. Pub!RequestInv'
  BY <1>1, <1>2, SystemConstants, Pub!RequestElsewhere DEF SystemInv
<1>9. Pub!CandidateInv'
  BY <1>4, <1>5, SystemConstants, Pub!CandidateStep DEF SystemInv
<1>10. QED BY <1>3, <1>7, <1>8, <1>9 DEF SystemInv

\* A receiver process does to the host what RemoteProcessor expects of it: it
\* queues a request, or authorizes a ready candidate once, or does nothing.
LEMMA ReceiverActs ==
    ASSUME WorkstationAssumption, SystemInv,
           UNCHANGED <<storeVars, result, cjournal, reports, policy, proc, ops, applied>>,
           NEW c \in late \union {wire}, Pub!Receive(c) \/ Pub!ReceiverFault(c)
    PROVE  [NextHost]_vars
<1>1. \/ UNCHANGED Pub!hostVars
      \/ \E r \in Requests, body \in Pub!Bodies : Pub!Enqueue(r, body)
      \/ \E r \in Requests \ marker : Pub!Authorize(r)
  BY SystemConstants, Pub!ReceiverEffect DEF SystemInv
<1>2. CASE UNCHANGED Pub!hostVars
  BY <1>2 DEF Pub!hostVars, vars, queueVars
<1>3. ASSUME NEW r \in Requests, NEW body \in Pub!Bodies, Pub!Enqueue(r, body)
      PROVE  NextHost
  <2>1. /\ body.snap \in Snapshots /\ body.rel \in Releases
        /\ body.expected \in {None} \union {x.dep : x \in selections}
        /\ ~(body.expected # None /\ body.expected.snap = body.snap /\ body.expected.rel = body.rel)
        /\ body = [snap |-> body.snap, rel |-> body.rel, expected |-> body.expected]
    BY DEF Pub!Bodies
  <2>2. Submit(r, body.snap, body.rel, body.expected)
    BY <1>3, <2>1 DEF Submit, Pub!Enqueue
  <2>3. QED BY <2>1, <2>2 DEF NextHost
<1>4. ASSUME NEW r \in Requests \ marker, Pub!Authorize(r)
      PROVE  NextHost
  <2>1. Authorize(r)
    BY <1>4 DEF Authorize, Pub!Authorize
  <2>2. QED BY <2>1 DEF NextHost
<1>5. QED BY <1>1, <1>2, <1>3, <1>4

\* A step of the workstation or of its receiver is one the host's model has.
LEMMA PublisherSideMaps ==
    ASSUME WorkstationAssumption, SystemInv, PublisherSide
    PROVE  [NextHost]_vars
<1>1. UNCHANGED <<storeVars, result, cjournal, reports, policy, proc, ops, applied>>
  BY DEF PublisherSide
<1>2. CASE Pub!CoordinatorStep
  <2>1. UNCHANGED <<req, marker>>
    BY <1>2, SystemConstants, Pub!CoordinatorFrame DEF Pub!hostVars
  <2>2. QED BY <1>1, <2>1 DEF vars, queueVars
<1>3. CASE Pub!Interrupt \/ Pub!Move
  BY <1>1, <1>3 DEF Pub!Interrupt, Pub!Move, Pub!hostVars, vars, queueVars
<1>4. ASSUME NEW c \in late \union {wire}, Pub!Receive(c) \/ Pub!ReceiverFault(c)
      PROVE  [NextHost]_vars
  BY <1>1, <1>4, ReceiverActs
<1>5. QED BY <1>2, <1>3, <1>4 DEF PublisherSide

\* The workstation keeps both sides' invariants.
LEMMA PublisherSideStep ==
    ASSUME WorkstationAssumption, SystemInv, PublisherSide
    PROVE  SystemInv'
<1>1. [NextHost]_vars
  BY PublisherSideMaps
<1>2. HostInv'
  BY <1>1, HostStep DEF SystemInv
<1>3. [Pub!Next]_(Pub!hostVars)
  BY <1>1, HostTakesPubSteps DEF SystemInv
<1>4. Pub!HostInv /\ vault \in Snapshots /\ release \in Releases
  BY DEF SystemInv, Pub!PublicationInv, Pub!LocalTypes
<1>5. Pub!CandidateInv'
  BY <1>3, <1>4, SystemConstants, Pub!CandidateStep DEF SystemInv
<1>6. CASE Pub!CoordinatorStep \/ Pub!Interrupt
  <2>1. Pub!PublicationInv'
    BY <1>6, SystemConstants, Pub!RunStep, Pub!SubmitStep, Pub!CommitStep, Pub!FinalStep,
       Pub!FileStep DEF SystemInv, Pub!CoordinatorStep
  <2>2. Pub!RequestInv'
    BY <1>6, <2>1, SystemConstants, Pub!RequestRun DEF SystemInv
  <2>3. QED BY <1>2, <1>5, <2>1, <2>2 DEF SystemInv
<1>7. ASSUME NEW c \in late \union {wire}, Pub!Receive(c) \/ Pub!ReceiverFault(c)
      PROVE  SystemInv'
  <2>1. Pub!PublicationInv'
    BY <1>7, SystemConstants, Pub!ReceiveStep DEF SystemInv
  <2>2. Pub!RequestInv'
    BY <1>7, SystemConstants, Pub!RequestReceived DEF SystemInv
  <2>3. QED BY <1>2, <1>5, <2>1, <2>2 DEF SystemInv
<1>8. CASE Pub!Move
  <2>1. /\ UNCHANGED Pub!hostVars
        /\ UNCHANGED <<attempt, archive, co, wire, late, reported, confirmed, used>>
        /\ vault' \in Snapshots /\ release' \in Releases
    BY <1>4, <1>8 DEF Pub!Move, Pub!ghosts
  <2>2. Pub!HostInv' /\ Pub!HostKeeps /\ marker' = marker
    BY <1>4, <2>1, SystemConstants, Pub!HostStep
  <2>3. Pub!PublicationInv'
    BY <2>1, <2>2, SystemConstants, Pub!EnvironmentStep DEF SystemInv
  <2>4. Pub!RequestInv'
    BY <2>1, SystemConstants, Pub!RequestElsewhere DEF SystemInv, Pub!hostVars
  <2>5. QED BY <1>2, <1>5, <2>3, <2>4 DEF SystemInv
<1>9. QED BY <1>6, <1>7, <1>8 DEF PublisherSide

\* Every step of the system is a step of the host, or changes nothing of it.
LEMMA SystemMaps ==
    ASSUME WorkstationAssumption, SystemInv, [NextSystem]_systemVars
    PROVE  [NextHost]_vars
<1>1. CASE HostSide
  BY <1>1, HostSideFrame
<1>2. CASE PublisherSide
  BY <1>2, PublisherSideMaps
<1>3. QED BY <1>1, <1>2 DEF NextSystem, systemVars

\* Every step preserves SystemInv.
LEMMA SystemStep ==
    ASSUME WorkstationAssumption, SystemInv, [NextSystem]_systemVars
    PROVE  SystemInv'
<1>1. CASE NextSystem
  BY <1>1, HostSideStep, PublisherSideStep DEF NextSystem
<1>2. CASE UNCHANGED systemVars
  <2>1. /\ UNCHANGED vars
        /\ UNCHANGED <<vault, release, attempt, archive, co, wire, late, reported, confirmed, used>>
    BY <1>2 DEF systemVars
  <2>2. UNCHANGED Pub!hostVars
    BY <2>1 DEF vars, queueVars, storeVars, durableVars, DepOf, Pub!hostVars
  <2>3. HostInv'
    BY <2>1, HostStep DEF SystemInv
  <2>4. Pub!HostInv /\ vault \in Snapshots /\ release \in Releases
    BY DEF SystemInv, Pub!PublicationInv, Pub!LocalTypes
  <2>5. Pub!HostInv' /\ Pub!HostKeeps /\ marker' = marker
    BY <2>2, <2>4, SystemConstants, Pub!HostStep
  <2>6. Pub!PublicationInv'
    BY <2>1, <2>4, <2>5, SystemConstants, Pub!EnvironmentStep DEF SystemInv
  <2>7. Pub!RequestInv'
    BY <2>1, <2>2, SystemConstants, Pub!RequestElsewhere DEF SystemInv, Pub!hostVars
  <2>8. Pub!CandidateInv'
    BY <2>2, <2>4, SystemConstants, Pub!CandidateStep DEF SystemInv
  <2>9. QED BY <2>3, <2>6, <2>7, <2>8 DEF SystemInv
<1>3. QED BY <1>1, <1>2

\* It holds initially.
LEMMA SystemInit ==
    ASSUME WorkstationAssumption, InitSystem
    PROVE  SystemInv
<1>1. HostInv
  BY HostInitially DEF InitSystem
<1>2. Pub!PublicationInv
  BY SystemConstants, Pub!PublicationInit DEF InitSystem
<1>3. Pub!RequestInv
  BY DEF InitSystem, Pub!InitPublication, Pub!InitHost, Pub!RequestInv, Pub!NoCall
<1>4. Pub!CandidateInv
  BY DEF InitSystem, Pub!InitPublication, Pub!InitHost, Pub!CandidateInv, Pub!NoResult
<1>5. QED BY <1>1, <1>2, <1>3, <1>4 DEF SystemInv

-----------------------------------------------------------------------------
(* Theorems *)

\* Both sides' invariants hold together, on the files they share: what either
\* module assumes of the other side is what the other side does.
THEOREM SystemInvariant ==
    ASSUME WorkstationAssumption
    PROVE  SpecSystem => []SystemInv
<1>1. InitSystem => SystemInv
  BY SystemInit
<1>2. SystemInv /\ [NextSystem]_systemVars => SystemInv'
  BY SystemStep
<1>3. QED BY <1>1, <1>2, PTL DEF SpecSystem

\* With the real coordinator and receiver in the publisher's place the host
\* still behaves as RemoteProcessor says: every theorem about SpecHost holds of
\* the whole system, commits being applied once and as authorized among them.
THEOREM SystemRunsTheHost ==
    ASSUME WorkstationAssumption
    PROVE  SpecSystem => SpecHost
<1>1. InitSystem => InitHost
  BY DEF InitSystem
<1>2. SystemInv /\ [NextSystem]_systemVars => [NextHost]_vars
  BY SystemMaps
<1>3. QED BY <1>1, <1>2, SystemInvariant, PTL DEF SpecSystem, SpecHost

\* What last-result.json calls published was selected in the host's active.json
\* after a passing evaluation, with the snapshot and release of the attempt.
THEOREM WhatIsPublishedWasSelected ==
    ASSUME WorkstationAssumption
    PROVE  SpecSystem => []PublishedIsSelected
<1>1. SystemInv => PublishedIsSelected
  <2> SUFFICES ASSUME SystemInv, NEW x \in reported,
                      x.outcome \in {"PROMOTED", "PROMOTED_SOURCE_MOVED", "UNCHANGED"}
               PROVE  \E s \in selections :
                          s.dep.snap = x.snap /\ s.dep.rel = x.rel /\ s.dep \in vouched
    BY DEF PublishedIsSelected
  <2>1. Pub!TrueOutcome(x.snap, x.rel, x.outcome)
    BY DEF SystemInv, Pub!PublicationInv, Pub!ReportInv
  <2>2. PICK d \in {s.dep : s \in selections} : d.snap = x.snap /\ d.rel = x.rel
    BY <2>1 DEF Pub!TrueOutcome, Pub!Shows
  <2>3. \A s \in selections : s.dep \in vouched
    BY DEF SystemInv, HostInv, StoreInv, SelectsFrom
  <2>4. QED BY <2>2, <2>3
<1>2. QED BY <1>1, SystemInvariant, PTL

\* The processor applies nothing the workstation did not ask for, however late
\* a submission or a commit arrives: commit sent while vault and release were
\* those of the attempt, a build of just that snapshot and release, replacing
\* the deployment the attempt was made against.
THEOREM WhatIsAppliedWasConfirmed ==
    ASSUME WorkstationAssumption
    PROVE  SpecSystem => []AppliedIsConfirmed
<1>1. SystemInv => AppliedIsConfirmed
  <2> SUFFICES ASSUME SystemInv, NEW y \in applied
               PROVE  /\ y.req \in confirmed /\ y.over = req[y.req].expected
                      /\ \/ attempt # None /\ attempt.id = y.req
                            /\ attempt.snap = y.dep.snap /\ attempt.rel = y.dep.rel
                            /\ attempt.expected = y.over
                         \/ \E x \in reported : /\ x.id = y.req
                                                /\ x.snap = y.dep.snap /\ x.rel = y.dep.rel
    BY DEF AppliedIsConfirmed
  <2>1. /\ y.req \in marker /\ y.req \in Requests
        /\ y.dep = result[y.req].cand /\ y.over = req[y.req].expected
    BY DEF SystemInv, HostInv, AppliedInv, HostTypes
  <2>2. y.req \in confirmed
    BY <2>1 DEF SystemInv, Pub!PublicationInv, Pub!CommitInv
  <2>3. req[y.req] # None /\ y.dep.snap = req[y.req].snap /\ y.dep.rel = req[y.req].rel
    BY <2>1 DEF SystemInv, Pub!CandidateInv
  <2>4. Pub!Asked(y.req, req[y.req])
    BY <2>1, <2>3 DEF SystemInv, Pub!RequestInv
  <2>5. QED BY <2>1, <2>2, <2>3, <2>4 DEF Pub!Asked, Pub!Body
<1>2. QED BY <1>1, SystemInvariant, PTL

\* The promises of the workstation hold on the real host: an attempt is reported
\* once and with the final result of results/<publisher>/<id>.json, unless it was
\* withdrawn; a commit is followed until it is reported; and an unfinished attempt
\* can be loaded.
THEOREM WorkstationKeepsItsPromises ==
    ASSUME WorkstationAssumption
    PROVE  SpecSystem => [](/\ Pub!ReportsMatchResults
                            /\ Pub!CommitsAreFollowed
                            /\ Pub!ArchiveAvailable)
<1>1. SystemInv => Pub!ReportsMatchResults
  BY DEF SystemInv, Pub!PublicationInv, Pub!ReportInv, Pub!OutcomeOK, Pub!ReportsMatchResults
<1>2. SystemInv => Pub!CommitsAreFollowed
  BY DEF SystemInv, Pub!PublicationInv, Pub!CommitInv, Pub!CommitsAreFollowed
<1>3. SystemInv => Pub!ArchiveAvailable
  BY DEF SystemInv, Pub!PublicationInv, Pub!AttemptInv, Pub!ArchiveAvailable
<1>4. QED BY <1>1, <1>2, <1>3, SystemInvariant, PTL

\* On the real host, too, nothing a coordinator has read is taken back: a final
\* results/<publisher>/<id>.json is never rewritten, a marker stays, and a ready
\* candidate is settled only after its marker, through crashes of the processor,
\* operators' commands and upgrades.
THEOREM HostKeepsItsWord ==
    ASSUME WorkstationAssumption
    PROVE  SpecSystem => [][Pub!HostKeeps]_systemVars
<1>1. ASSUME SystemInv, [NextSystem]_systemVars
      PROVE  Pub!HostKeeps
  <2>1. [NextHost]_vars
    BY <1>1, SystemMaps
  <2>2. HostInv /\ Pub!HostInv
    BY <1>1 DEF SystemInv, Pub!PublicationInv
  <2>3. [Pub!Next]_(Pub!hostVars)
    BY <2>1, <2>2, HostTakesPubSteps
  <2>4. QED BY <2>2, <2>3, SystemConstants, Pub!NextKeeps
<1>2. SystemInv /\ [NextSystem]_systemVars => [Pub!HostKeeps]_systemVars
  BY <1>1
<1>3. QED BY <1>2, SystemInvariant, PTL DEF SpecSystem
=============================================================================
