----------------------- MODULE RemoteProcessorProofs -----------------------
(***************************************************************************)
(* Proofs about RemoteProcessor for every number of operators, requests,   *)
(* snapshots, policies and runs and for every bound. HostInv is the        *)
(* inductive invariant: the store's own (DeploymentStoreProofs), only      *)
(* evaluated deployments in it, the queue files (QueueInv), what was       *)
(* applied (AppliedInv), and what the processor knows of its request and   *)
(* of the store transaction it waits for (WorkInv, StoreCallInv).          *)
(***************************************************************************)
EXTENDS RemoteProcessor, DeploymentStoreProofs

RequestBodies == [snap : Snapshots, rel : Releases, expected : Deployments \union {None}]

ResultFiles == [outcome : Outcomes \union {"NONE"}, cand : Deployments \union {None},
                policy : Policies \union {None}]

Submitting == {"submissions", "building", "evaluate", "bind", "ready"}

Committing == {"commits", "promote", "promoting", "repair", "repairing", "announce", "announcing"}

Memory == [pc : {"off", "recover", "recovering", "publish", "publishing", "finish", "finishing"}
                  \union Submitting \union Committing,
           todo : SUBSET Requests, work : Requests \union {None},
           made : Deployments \union {None}, policy : Policies \union {None}]

HostTypes ==
    /\ req \in [Requests -> RequestBodies \union {None}]
    /\ result \in [Requests -> ResultFiles]
    /\ marker \subseteq Requests /\ cjournal \subseteq marker
    /\ evaluation \in [Deployments -> [passed : BOOLEAN, policy : Policies \union {None}]]
    /\ policy \in Policies
    /\ proc \in Memory
    /\ applied \subseteq [req : Requests, at : Nat, dep : Deployments,
                          over : Deployments \union {None}, policy : Policies \union {None}]

\* What was selected on the host.
Seen == {s.dep : s \in selections}

StoreInv == Inv /\ ProvenanceInv /\ SelectsFrom(vouched)

\* A passing report vouches for a build.
EvaluationInv ==
    /\ vouched \subseteq builds
    /\ \A d \in Deployments : evaluation[d].passed => d \in vouched

\* A result belongs to a request; a candidate was built; a commit is
\* authorized only for a request with a candidate.
QueueInv ==
    \A r \in Requests :
        /\ result[r].outcome = "NONE" => result[r] = NoResult
        /\ result[r] # NoResult => req[r] # None
        /\ result[r].cand # None => result[r].cand \in builds
        /\ result[r].outcome = "CANDIDATE_READY" \/ r \in marker =>
               result[r] # NoResult /\ result[r].cand # None

\* What was applied was journalled before, and as it was authorized.
AppliedInv ==
    /\ \A x \in applied : /\ x.req \in cjournal
                          /\ x.dep = result[x.req].cand
                          /\ x.over = req[x.req].expected
                          /\ x.policy = result[x.req].policy
    /\ \A x, y \in applied : x.req = y.req => x = y

Open(r) == req[r] # None /\ result[r] = NoResult

Authorized(r) == r \in marker /\ result[r].outcome = "CANDIDATE_READY"

Unapplied(r) == \A x \in applied : x.req # r

\* d is a build of request r that no result names yet.
MadeFor(d, r) ==
    /\ d \in builds /\ d.snap = req[r].snap /\ d.rel = req[r].rel
    /\ \A q \in Requests : result[q].cand # d

\* What the processor knows at each of its steps.
WorkInv ==
    /\ proc.pc # "off" => proc.policy # None
    /\ proc.pc \in Submitting => \A r \in proc.todo : Open(r)
    /\ proc.pc \in Committing => \A r \in proc.todo : Authorized(r)
    /\ proc.pc \in Submitting \ {"submissions"} =>
           proc.work \in proc.todo /\ req[proc.work].rel = proc.policy.rel
    /\ proc.pc \in {"evaluate", "bind", "ready"} => MadeFor(proc.made, proc.work)
    /\ proc.pc \in {"promote", "promoting", "repair", "repairing"} =>
           proc.work \in proc.todo /\ proc.work \in cjournal
    /\ proc.pc \in {"promote", "promoting"} => result[proc.work].policy = proc.policy
    /\ proc.pc = "promote" => Unapplied(proc.work)
    /\ proc.pc \in {"repair", "repairing"} => result[proc.work].cand \in Seen

\* How the transaction t that the processor waits for, and its answer w, stand
\* to the request at hand.
CallOK(t, w) ==
    /\ t.phase = "active" =>
           /\ proc.pc = "promoting" /\ Unapplied(proc.work)
           /\ t.target.cur.dep = result[proc.work].cand
           /\ DepOf(t.target.prev) = req[proc.work].expected
    /\ proc.pc = "building" =>
           /\ t.phase \in {"idle", "build", "release"}
           /\ t.phase = "release" \/ w = "built" => MadeFor(proc.made, proc.work)
    /\ proc.pc = "promoting" =>
           /\ t.phase # "publish"
           /\ t.phase # "idle" => t.result \in {"promoted", "unchanged"}
           /\ w \in {"none", "promoted", "unchanged", "conflict", "refused", "ioerror"}
           /\ t.phase \notin {"idle", "active"} \/ w \in {"promoted", "unchanged"} =>
                  result[proc.work].cand \in Seen

StoreCallInv == CallOK(txn[Processor], reply[Processor])

HostInv ==
    /\ HostTypes /\ StoreInv /\ EvaluationInv
    /\ QueueInv /\ AppliedInv /\ WorkInv /\ StoreCallInv

-----------------------------------------------------------------------------
(* The host works on the store through its operations only *)

LEMMA PromoteEvaluatedOperates ==
    ASSUME HostInv, NEW V, V = vouched, NEW a \in Actors, NEW d \in Deployments,
           NEW e \in Deployments \union {None}, PromoteEvaluated(a, d, e)
    PROVE  Operates(a, V)
<1>1. CASE evaluation[d].passed /\ Promote(a, d, e)
  BY <1>1 DEF HostInv, EvaluationInv, Operates
<1>2. CASE PromoteRefused(a)
  BY <1>2 DEF Operates
<1>3. CASE Answer(a, "refused") /\ UNCHANGED faults
  BY <1>3 DEF Operates, Replies
<1>4. QED BY <1>1, <1>2, <1>3 DEF PromoteEvaluated

\* The candidate the processor promotes or repairs is a deployment.
LEMMA CandidateAtHand ==
    ASSUME HostInv, proc.pc \in {"promote", "promoting", "repair", "repairing"}
    PROVE  /\ proc.work \in Requests /\ proc.work \in marker /\ proc.work \in cjournal
           /\ result[proc.work].outcome = "CANDIDATE_READY"
           /\ result[proc.work].cand \in Deployments
           /\ req[proc.work] \in RequestBodies /\ req[proc.work].expected \in Deployments \union {None}
<1>1. proc.work \in Requests /\ Authorized(proc.work) /\ proc.work \in cjournal
  BY DEF HostInv, WorkInv, HostTypes, Memory, Committing
<1>2. /\ result[proc.work] \in ResultFiles /\ result[proc.work].cand # None
      /\ req[proc.work] \in RequestBodies
  BY <1>1 DEF HostInv, HostTypes, QueueInv, Authorized
<1>3. QED BY <1>1, <1>2 DEF Authorized, ResultFiles, RequestBodies

LEMMA RequestAtHand ==
    ASSUME HostInv, proc.pc \in {"building", "evaluate", "bind", "ready"}
    PROVE  /\ proc.work \in Requests /\ proc.work \in proc.todo
           /\ result[proc.work] = NoResult /\ proc.work \notin marker
           /\ req[proc.work] \in RequestBodies /\ req[proc.work] # None
           /\ req[proc.work].rel = proc.policy.rel /\ proc.policy \in Policies
<1>1. proc.work \in Requests /\ proc.work \in proc.todo /\ Open(proc.work)
      /\ req[proc.work].rel = proc.policy.rel /\ proc.policy \in Policies
  BY DEF HostInv, WorkInv, HostTypes, Memory, Submitting
<1>2. QED BY <1>1 DEF HostInv, HostTypes, QueueInv, Open

LEMMA ProcessorOperates ==
    ASSUME HostInv, NEW V, V = vouched, ProcessorStep \/ ProcessorFault
    PROVE  UNCHANGED storeVars \/ Operates(Processor, V)
<1>1. Processor \in Actors
  BY ProcessorAssumption
<1>2. CASE Recover \/ RepairCommit
  <2>1. CASE RepairCommit
    <3>1. PICK d \in Deployments : d = result[proc.work].cand /\ Repair(Processor, d)
      BY <2>1, CandidateAtHand DEF RepairCommit, At
    <3>2. QED BY <3>1 DEF Operates
  <2>2. QED BY <1>2, <2>1 DEF Recover, Operates
<1>3. CASE \/ Publish("publish", "publishing") \/ Publish("announce", "announcing")
           \/ Publish("finish", "finishing") \/ WorkInStore
  BY <1>3 DEF Publish, WorkInStore, Operates
<1>4. CASE \/ Recovered \/ Published \/ Built \/ Applied \/ Repaired \/ Announced \/ EndRun
  BY <1>4 DEF Recovered, Published, Built, Applied, Repaired, Announced, EndRun, Operates
<1>5. CASE \E r \in Requests : BuildSubmission(r)
  <2>1. \/ LockBusy(Processor) \/ RebuildUnchanged(Processor) \/ RebuildBegin(Processor)
    BY <1>5 DEF BuildSubmission
  <2>2. QED BY <2>1 DEF Operates, LockBusy, Replies
<1>6. CASE FinishBuild
  <2>1. ASSUME NEW run \in Runs,
               RebuildEnd(Processor, [snap |-> req[proc.work].snap, rel |-> proc.policy.rel,
                                      run |-> run])
        PROVE  Operates(Processor, V)
    <3>1. [snap |-> req[proc.work].snap, rel |-> proc.policy.rel, run |-> run] \in Deployments
      BY <1>6, RequestAtHand, ProcessorAssumption DEF FinishBuild, At, RequestBodies
    <3>2. PICK d \in Deployments : RebuildEnd(Processor, d)
      BY <2>1, <3>1
    <3>3. QED BY <3>2 DEF Operates
  <2>2. QED BY <1>6, <2>1 DEF FinishBuild, Operates
<1>7. CASE ApplyCommit
  <2>1. PICK d \in Deployments, e \in Deployments \union {None} :
            PromoteEvaluated(Processor, d, e)
    BY <1>7, CandidateAtHand DEF ApplyCommit, At
  <2>2. QED BY <1>1, <2>1, PromoteEvaluatedOperates
<1>8. CASE ProcessorFault
  BY <1>8 DEF ProcessorFault, Operates
<1>9. CASE \/ StartRun \/ EvaluationFails \/ Evaluate \/ BindPolicy \/ WriteReady \/ ListCommits
           \/ ListDone \/ \E r \in Requests : \/ RejectPayload(r) \/ RejectRelease(r)
                                            \/ RefuseCommit(r) \/ BeginCommit(r)
  BY <1>9 DEF StartRun, EvaluationFails, Evaluate, BindPolicy, WriteReady, ListCommits, ListDone,
     RejectPayload, RejectRelease, RefuseSubmission, RefuseCommit, BeginCommit
<1>10. QED BY <1>2, <1>3, <1>4, <1>5, <1>6, <1>7, <1>8, <1>9 DEF ProcessorStep

LEMMA OperatorOperates ==
    ASSUME HostInv, NEW V, V = vouched, NEW o \in Operators,
           OperatorCommand(o) \/ OperatorStep(o) \/ OperatorFault(o)
    PROVE  UNCHANGED storeVars \/ Operates(o, V)
<1>1. o \in Actors
  BY DEF Operators
<1>2. CASE OperatorCommand(o)
  <2>1. ASSUME NEW d \in builds, NEW e \in Deployments \union {None}, PromoteEvaluated(o, d, e)
        PROVE  Operates(o, V)
    <3>1. d \in Deployments
      BY DEF HostInv, StoreInv, Inv, TypeOK
    <3>2. QED BY <1>1, <2>1, <3>1, PromoteEvaluatedOperates
  <2>2. QED BY <1>2, <2>1 DEF OperatorCommand, Operates
<1>3. CASE OperatorStep(o)
  BY <1>3 DEF OperatorStep, Operates
<1>4. CASE OperatorFault(o)
  BY <1>4 DEF OperatorFault, Crash, Operates
<1>5. QED BY <1>2, <1>3, <1>4

\* Every step of the host promotes evaluated deployments only.
LEMMA HostStoreStep ==
    ASSUME HostInv, [NextHost]_vars, NEW V, V = vouched
    PROVE  StoreStep(V)
<1>1. TypeOK /\ V \in SUBSET Deployments
  BY DEF HostInv, StoreInv, EvaluationInv, Inv, TypeOK
<1>2. CASE ProcessorStep \/ ProcessorFault
  BY <1>1, <1>2, ProcessorOperates, StepCases, ProcessorAssumption DEF StoreStep
<1>3. ASSUME NEW o \in Operators, OperatorCommand(o) \/ OperatorStep(o) \/ OperatorFault(o)
      PROVE  StoreStep(V)
  <2>1. o \in Actors
    BY DEF Operators
  <2>2. QED BY <1>1, <1>3, <2>1, OperatorOperates, StepCases DEF StoreStep
<1>4. CASE \/ \E r \in Requests, s \in Snapshots, rel \in Releases :
                \E seen \in {None} \union {x.dep : x \in selections} : Submit(r, s, rel, seen)
           \/ \E r \in Requests : Authorize(r)
           \/ \E q \in Policies : Upgrade(q)
           \/ UNCHANGED vars
  BY <1>4 DEF Submit, Authorize, Upgrade, vars, StoreStep
<1>5. QED BY <1>2, <1>3, <1>4 DEF NextHost

-----------------------------------------------------------------------------
(* Evaluations *)

LEMMA ReportFacts ==
    ASSUME HostInv, NEW d \in builds, NEW ok \in BOOLEAN, NEW p \in Policies \union {None},
           Report(d, ok, p), builds \subseteq builds'
    PROVE  /\ evaluation' \in [Deployments -> [passed : BOOLEAN, policy : Policies \union {None}]]
           /\ vouched \subseteq vouched' /\ EvaluationInv'
<1> DEFINE x == [passed |-> ok, policy |-> p]
<1>1. x \in [passed : BOOLEAN, policy : Policies \union {None}] /\ x.passed = ok
  OBVIOUS
<1>2. evaluation' = [evaluation EXCEPT ![d] = x]
  BY DEF Report
<1> HIDE DEF x
<1>3. d \in Deployments
  BY DEF HostInv, StoreInv, Inv, TypeOK
<1>4. evaluation' \in [Deployments -> [passed : BOOLEAN, policy : Policies \union {None}]]
  BY <1>1, <1>2 DEF HostInv, HostTypes
<1>5. /\ evaluation'[d] = x
      /\ \A c \in Deployments \ {d} : evaluation'[c] = evaluation[c]
  BY <1>2, <1>3 DEF HostInv, HostTypes
<1>6. vouched' = vouched \union (IF ok THEN {d} ELSE {})
  BY DEF Report
<1>7. EvaluationInv'
  BY <1>1, <1>5, <1>6 DEF HostInv, EvaluationInv
<1>8. QED BY <1>4, <1>6, <1>7

\* Reports are only added, for builds.
LEMMA EvaluationStep ==
    ASSUME HostInv, [NextHost]_vars, builds \subseteq builds'
    PROVE  /\ evaluation' \in [Deployments -> [passed : BOOLEAN, policy : Policies \union {None}]]
           /\ vouched \subseteq vouched' /\ EvaluationInv'
<1> DEFINE Goal == /\ evaluation' \in [Deployments -> [passed : BOOLEAN, policy : Policies \union {None}]]
                   /\ vouched \subseteq vouched' /\ EvaluationInv'
<1>1. ASSUME UNCHANGED reports PROVE Goal
  BY <1>1 DEF reports, HostInv, HostTypes, EvaluationInv
<1>2. ASSUME proc.pc \in {"evaluate", "bind", "ready"}, NEW ok \in BOOLEAN,
             NEW p \in Policies \union {None}, Report(proc.made, ok, p)
      PROVE  Goal
  <2>1. proc.made \in builds
    BY <1>2 DEF HostInv, WorkInv, MadeFor
  <2>2. PICK d \in builds : d = proc.made /\ Report(d, ok, p)
    BY <1>2, <2>1
  <2>3. QED BY <2>2, ReportFacts
<1>3. CASE EvaluationFails \/ Evaluate \/ BindPolicy
  <2>1. TRUE \in BOOLEAN /\ FALSE \in BOOLEAN /\ proc.policy \in Policies \union {None}
    BY DEF HostInv, HostTypes, Memory
  <2>2. CASE EvaluationFails
    BY <1>1, <1>2, <2>1, <2>2 DEF EvaluationFails, At
  <2>3. CASE Evaluate
    BY <1>2, <2>1, <2>3 DEF Evaluate, At
  <2>4. CASE BindPolicy
    <3>1. PICK p : p = proc.policy /\ (Report(proc.made, TRUE, p) \/ UNCHANGED reports)
      BY <2>4 DEF BindPolicy
    <3>2. QED BY <1>1, <1>2, <2>1, <2>4, <3>1 DEF BindPolicy, At
  <2>5. QED BY <1>3, <2>2, <2>3, <2>4
<1>4. ASSUME NEW o \in Operators, OperatorCommand(o)
      PROVE  Goal
  <2>1. ASSUME NEW d \in builds, NEW ok \in BOOLEAN, Report(d, ok, None)
        PROVE  Goal
    BY <2>1, ReportFacts
  <2>2. QED BY <1>1, <1>4, <2>1 DEF OperatorCommand
<1>5. CASE ~(EvaluationFails \/ Evaluate \/ BindPolicy) /\ ~\E o \in Operators : OperatorCommand(o)
  <2>1. UNCHANGED reports
    BY <1>5 DEF NextHost, Submit, Authorize, ProcessorStep, ProcessorFault, OperatorStep,
       OperatorFault, Upgrade, vars, queueVars, StartRun, Recover, Recovered, Publish, Published,
       RejectPayload, RejectRelease, RefuseSubmission, BuildSubmission, FinishBuild, Built,
       WriteReady, ListCommits, RefuseCommit, BeginCommit, ApplyCommit, Applied, RepairCommit,
       Repaired, Announced, ListDone, EndRun, WorkInStore
  <2>2. QED BY <1>1, <2>1
<1>6. QED BY <1>3, <1>4, <1>5

LEMMA StoreKept ==
    ASSUME HostInv, [NextHost]_vars
    PROVE  /\ StoreInv' /\ EvaluationInv'
           /\ evaluation' \in [Deployments -> [passed : BOOLEAN, policy : Policies \union {None}]]
           /\ builds \subseteq builds' /\ selections \subseteq selections'
<1>1. PICK V, W : V = vouched /\ W = vouched'
  OBVIOUS
<1>2. StoreStep(V) /\ V \in SUBSET Deployments
  BY <1>1, HostStoreStep DEF HostInv, StoreInv, EvaluationInv, Inv, TypeOK
<1>3. builds \subseteq builds' /\ selections \subseteq selections'
  BY <1>2, StoreGrows
<1>4. /\ evaluation' \in [Deployments -> [passed : BOOLEAN, policy : Policies \union {None}]]
      /\ vouched \subseteq vouched' /\ EvaluationInv'
  BY <1>3, EvaluationStep
<1>5. Inv /\ ProvenanceInv /\ SelectsFrom(V)
  BY <1>1 DEF HostInv, StoreInv, SelectsFrom
<1>6. Inv' /\ ProvenanceInv'
  <2>1. TypeOK'
    BY <1>2, <1>5, TypeStep DEF Inv
  <2>2. QED BY <1>2, <1>5, <2>1, InvStep, ProvenanceStep DEF Inv
<1>7. SelectsFrom(W)'
  BY <1>1, <1>2, <1>4, <1>5, SelectsFromStep
<1>8. SelectsFrom(vouched)'
  BY <1>1, <1>7 DEF SelectsFrom
<1>9. QED BY <1>3, <1>4, <1>6, <1>8 DEF StoreInv

-----------------------------------------------------------------------------
(* Queue, journal and memory *)

\* What StoreKept says of every step.
Kept ==
    /\ evaluation' \in [Deployments -> [passed : BOOLEAN, policy : Policies \union {None}]]
    /\ builds \subseteq builds' /\ selections \subseteq selections'

LocalInv == HostTypes /\ QueueInv /\ AppliedInv /\ WorkInv /\ StoreCallInv

\* Nothing that is known of a request is taken back while the processor stays
\* where it is: requests are immutable, markers and selections only added.
LEMMA KnownStaysKnown ==
    ASSUME HostInv, Kept, UNCHANGED <<result, cjournal, proc, applied>>, policy' \in Policies,
           req' \in [Requests -> RequestBodies \union {None}],
           \A r \in Requests : req[r] # None => req'[r] = req[r],
           marker \subseteq marker', marker' \subseteq Requests,
           \A r \in marker' \ marker : result[r].outcome = "CANDIDATE_READY"
    PROVE  /\ HostTypes' /\ QueueInv' /\ AppliedInv' /\ WorkInv'
           /\ \A t, w : CallOK(t, w) => CallOK(t, w)'
<1>1. HostTypes'
  BY DEF HostInv, HostTypes, Kept
<1>2. QueueInv'
  BY DEF HostInv, QueueInv, HostTypes, Kept
<1>3. \A r \in marker : req'[r] = req[r] /\ r \in Requests
  BY DEF HostInv, QueueInv, HostTypes
<1>4. AppliedInv'
  BY <1>3 DEF HostInv, AppliedInv, HostTypes
<1>5. \A r \in Requests : /\ Open(r) => Open(r)' /\ req'[r] = req[r]
                          /\ Authorized(r) => Authorized(r)' /\ req'[r] = req[r]
                          /\ Unapplied(r) => Unapplied(r)'
  <2>1. \A r \in Requests : Authorized(r) => req[r] # None
    BY DEF HostInv, QueueInv, Authorized
  <2>2. QED BY <2>1 DEF Open, Authorized, Unapplied
<1>6. Seen \subseteq Seen'
  BY DEF Seen, Kept
<1>7. \A d : \A r \in Requests : req'[r] = req[r] /\ MadeFor(d, r) => MadeFor(d, r)'
  BY DEF MadeFor, Kept
<1>8. proc \in Memory
  BY DEF HostInv, HostTypes
<1>9. /\ proc.pc \in Submitting \ {"submissions"} =>
             proc.work \in Requests /\ req'[proc.work] = req[proc.work]
      /\ proc.pc \in {"promote", "promoting", "repair", "repairing"} =>
             proc.work \in Requests /\ req'[proc.work] = req[proc.work]
  BY RequestAtHand, CandidateAtHand, <1>3 DEF Submitting
<1>10. WorkInv'
  <2>1. \A r \in proc.todo : r \in Requests
    BY <1>8 DEF Memory
  <2>2. proc.pc \in {"evaluate", "bind", "ready"} => MadeFor(proc.made, proc.work)'
    <3>1. PICK d, r : d = proc.made /\ r = proc.work
      OBVIOUS
    <3>2. QED BY <1>7, <1>9, <3>1 DEF HostInv, WorkInv, MadeFor, Submitting
  <2>3. proc.pc = "promote" => Unapplied(proc.work)'
    BY DEF HostInv, WorkInv, Unapplied
  <2>4. QED BY <1>5, <1>6, <1>9, <2>1, <2>2, <2>3 DEF HostInv, WorkInv
<1>11. ASSUME NEW t, NEW w, CallOK(t, w) PROVE CallOK(t, w)'
  <2>1. proc.pc = "building" /\ MadeFor(proc.made, proc.work) => MadeFor(proc.made, proc.work)'
    <3>1. PICK d, r : d = proc.made /\ r = proc.work
      OBVIOUS
    <3>2. QED BY <1>7, <1>9, <3>1 DEF MadeFor, Submitting
  <2>2. Unapplied(proc.work) => Unapplied(proc.work)'
    BY DEF Unapplied
  <2>3. QED BY <1>6, <1>9, <1>11, <2>1, <2>2 DEF CallOK
<1>12. QED BY <1>1, <1>2, <1>4, <1>10, <1>11

\* The files of the queue stay as they are; only the processor moves on.
LEMMA FilesKept ==
    ASSUME HostInv, Kept, UNCHANGED <<req, result, marker, cjournal, policy, applied>>,
           proc' \in Memory, WorkInv', StoreCallInv'
    PROVE  LocalInv'
<1>1. HostTypes'
  BY DEF HostInv, HostTypes, Kept
<1>2. QueueInv' /\ AppliedInv'
  BY DEF HostInv, QueueInv, AppliedInv, Kept
<1>3. QED BY <1>1, <1>2 DEF LocalInv

Resting == {"off", "recover", "recovering", "publish", "publishing", "finish", "finishing"}

\* Outside the two loops nothing is known of any request.
LEMMA RestingStep ==
    ASSUME proc' \in Memory, proc'.pc \in Resting, proc'.pc # "off" => proc'.policy # None,
           txn'[Processor].phase # "active"
    PROVE  WorkInv' /\ StoreCallInv'
<1>1. WorkInv'
  BY DEF Resting, WorkInv, Submitting, Committing
<1>2. StoreCallInv'
  BY DEF Resting, StoreCallInv, CallOK
<1>3. QED BY <1>1, <1>2

\* At the head of the commit loop, and while a promotion is announced.
LEMMA CommitsStep ==
    ASSUME proc' \in Memory, proc'.pc \in {"commits", "announce", "announcing"},
           proc'.policy # None, \A r \in proc'.todo : Authorized(r)', txn'[Processor].phase # "active"
    PROVE  WorkInv' /\ StoreCallInv'
<1>1. WorkInv'
  BY DEF WorkInv, Submitting, Committing
<1>2. StoreCallInv'
  BY DEF StoreCallInv, CallOK
<1>3. QED BY <1>1, <1>2

LEMMA SettleFacts ==
    ASSUME HostTypes, NEW r \in Requests, NEW o \in Outcomes, NEW d \in Deployments \union {None},
           NEW q \in Policies \union {None}, Settle(r, o, d, q)
    PROVE  /\ result' \in [Requests -> ResultFiles]
           /\ result'[r] \in ResultFiles
           /\ result'[r].outcome = o /\ result'[r].cand = d /\ result'[r].policy = q
           /\ result'[r] # NoResult /\ o # "NONE"
           /\ \A x \in Requests \ {r} : result'[x] = result[x]
<1> DEFINE y == [outcome |-> o, cand |-> d, policy |-> q]
<1>1. y \in ResultFiles /\ y.outcome = o /\ y.cand = d /\ y.policy = q
  BY DEF ResultFiles
<1>2. o # "NONE" /\ NoResult.outcome = "NONE"
  BY DEF Outcomes, Failures, NoResult
<1>3. result' = [result EXCEPT ![r] = y]
  BY DEF Settle
<1> HIDE DEF y
<1>4. QED BY <1>1, <1>2, <1>3 DEF HostTypes

LEMMA NextInFacts ==
    ASSUME proc \in Memory, NEW r \in Requests,
           NEW loop \in {"submissions", "commits", "announce"}, NextIn(loop, r)
    PROVE  /\ proc' \in Memory /\ proc'.pc = loop /\ proc'.todo = proc.todo \ {r}
           /\ proc'.policy = proc.policy
BY DEF NextIn, Memory, Submitting, Committing

\* A request without a result gets one.
LEMMA AnswerStep ==
    ASSUME HostInv, Kept, UNCHANGED <<req, marker, cjournal, policy, applied>>,
           proc.pc \in Submitting, NEW r \in proc.todo,
           NEW o \in Outcomes, NEW d \in Deployments \union {None},
           NEW q \in Policies \union {None},
           d # None => d \in builds, o = "CANDIDATE_READY" => d # None,
           Settle(r, o, d, q), NextIn("submissions", r), txn'[Processor].phase # "active"
    PROVE  LocalInv'
<1>1. r \in Requests /\ Open(r) /\ proc \in Memory
  BY DEF HostInv, HostTypes, Memory, WorkInv
<1>2. /\ result' \in [Requests -> ResultFiles]
      /\ result'[r].outcome = o /\ result'[r].cand = d
      /\ result'[r] # NoResult /\ o # "NONE"
      /\ \A x \in Requests \ {r} : result'[x] = result[x]
  BY <1>1, SettleFacts DEF HostInv
<1>3. /\ proc' \in Memory /\ proc'.pc = "submissions" /\ proc'.todo = proc.todo \ {r}
      /\ proc'.policy = proc.policy
  BY <1>1, NextInFacts
<1>4. r \notin marker /\ req[r] # None
  BY <1>1 DEF HostInv, QueueInv, Open
<1>5. HostTypes'
  BY <1>2, <1>3 DEF HostInv, HostTypes, Kept
<1>6. QueueInv'
  BY <1>1, <1>2, <1>4 DEF HostInv, QueueInv, Kept
<1>7. AppliedInv'
  <2>1. \A x \in applied : x.req \in Requests \ {r}
    BY <1>4 DEF HostInv, AppliedInv, HostTypes
  <2>2. QED BY <1>2, <2>1 DEF HostInv, AppliedInv
<1>8. WorkInv' /\ StoreCallInv'
  <2>1. \A x \in proc'.todo : Open(x)'
    BY <1>1, <1>2, <1>3 DEF HostInv, WorkInv, HostTypes, Memory, Open
  <2>2. QED BY <1>3, <2>1 DEF WorkInv, Submitting, Committing, StoreCallInv, CallOK, HostInv
<1>9. QED BY <1>5, <1>6, <1>7, <1>8 DEF LocalInv

\* An authorized request gets its final result, for the same candidate.
LEMMA FinishStep ==
    ASSUME HostInv, Kept, UNCHANGED <<req, marker, cjournal, policy, applied>>,
           proc.pc \in Committing, NEW r \in proc.todo,
           NEW o \in Outcomes \ {"CANDIDATE_READY"},
           Settle(r, o, result[r].cand, result[r].policy),
           NEW loop \in {"commits", "announce"}, NextIn(loop, r), txn'[Processor].phase # "active"
    PROVE  LocalInv'
<1>1. r \in Requests /\ Authorized(r) /\ proc \in Memory
  BY DEF HostInv, HostTypes, Memory, WorkInv
<1>2. PICK d \in Deployments \union {None}, q \in Policies \union {None} :
          d = result[r].cand /\ q = result[r].policy /\ Settle(r, o, d, q)
  BY <1>1 DEF HostInv, HostTypes, ResultFiles
<1>3. /\ result' \in [Requests -> ResultFiles]
      /\ result'[r].outcome = o /\ result'[r].cand = d /\ result'[r].policy = q
      /\ result'[r] # NoResult /\ o # "NONE"
      /\ \A x \in Requests \ {r} : result'[x] = result[x]
  BY <1>1, <1>2, SettleFacts DEF HostInv
<1>4. /\ proc' \in Memory /\ proc'.pc = loop /\ proc'.todo = proc.todo \ {r}
      /\ proc'.policy = proc.policy
  BY <1>1, NextInFacts
<1>5. HostTypes'
  BY <1>3, <1>4 DEF HostInv, HostTypes, Kept
<1>6. QueueInv'
  BY <1>1, <1>2, <1>3 DEF HostInv, QueueInv, Authorized, Kept
<1>7. AppliedInv'
  <2>1. \A x \in applied : x.req \in Requests
    BY DEF HostInv, HostTypes
  <2>2. QED BY <1>2, <1>3, <2>1 DEF HostInv, AppliedInv
<1>8. WorkInv' /\ StoreCallInv'
  <2>1. \A x \in proc'.todo : Authorized(x)'
    BY <1>1, <1>3, <1>4 DEF HostInv, WorkInv, HostTypes, Memory, Authorized
  <2>2. proc'.policy # None
    BY <1>4 DEF HostInv, WorkInv, Committing
  <2>3. QED BY <1>4, <2>1, <2>2, CommitsStep
<1>9. QED BY <1>5, <1>6, <1>7, <1>8 DEF LocalInv

-----------------------------------------------------------------------------
(* The steps of a run *)

LEMMA GoFacts ==
    ASSUME proc \in Memory, NEW p \in Resting \union Submitting \union Committing, Go(p)
    PROVE  /\ proc' \in Memory /\ proc'.pc = p /\ proc'.todo = proc.todo /\ proc'.work = proc.work
           /\ proc'.made = proc.made /\ proc'.policy = proc.policy
BY DEF Go, Memory, Resting

LEMMA AbortFacts == Abort => proc' \in Memory /\ proc'.pc = "off"
BY DEF Abort, NoRun, Memory

LEMMA ProcessorFacts ==
    ASSUME HostInv
    PROVE  /\ proc \in Memory /\ Processor \in Actors
           /\ txn \in [Actors -> Txns] /\ reply \in [Actors -> Replies]
           /\ proc.pc # "promoting" => txn[Processor].phase # "active"
           /\ proc.pc # "off" => proc.policy # None
BY ProcessorAssumption DEF HostInv, HostTypes, StoreInv, Inv, TypeOK, StoreCallInv, CallOK, WorkInv

\* The steps that begin and end a run, and those outside of its two loops.
LEMMA RunSteps ==
    ASSUME HostInv, Kept,
           \/ StartRun \/ Recover \/ Recovered
           \/ Publish("publish", "publishing") \/ Publish("finish", "finishing")
           \/ ListDone \/ EndRun
           \/ Stop(Processor) /\ Abort /\ UNCHANGED <<queueVars, policy, ops, applied>>
    PROVE  LocalInv'
<1>1. UNCHANGED <<req, result, marker, cjournal, policy, applied>>
  BY DEF StartRun, Recover, Recovered, Publish, ListDone, EndRun, queueVars
<1>2. /\ proc \in Memory /\ Processor \in Actors /\ txn \in [Actors -> Txns]
      /\ proc.pc # "promoting" => txn[Processor].phase # "active"
      /\ proc.pc # "off" => proc.policy # None
  BY ProcessorFacts
<1>3. /\ proc' \in Memory /\ proc'.pc \in Resting
      /\ proc'.pc # "off" => proc'.policy # None
  <2>1. CASE StartRun
    <3>1. policy \in Policies /\ None \notin Policies
      BY ProcessorAssumption DEF HostInv, HostTypes
    <3>2. QED BY <2>1, <3>1 DEF StartRun, NoRun, Memory, Resting
  <2>2. CASE Recover
    BY <1>2, <2>2, GoFacts DEF Recover, At, Resting
  <2>3. CASE Recovered
    BY <1>2, <2>3, GoFacts, AbortFacts DEF Recovered, At, Resting
  <2>4. CASE Publish("publish", "publishing") \/ Publish("finish", "finishing")
    BY <1>2, <2>4, GoFacts DEF Publish, At, Resting
  <2>5. CASE ListDone
    BY <1>2, <2>5, GoFacts DEF ListDone, At, Resting
  <2>6. CASE Abort
    BY <2>6, AbortFacts DEF Resting
  <2>7. QED BY <2>1, <2>2, <2>3, <2>4, <2>5, <2>6 DEF EndRun
<1>4. txn'[Processor].phase # "active"
  <2>1. CASE StartRun \/ ListDone \/ Recovered \/ EndRun
    BY <1>2, <2>1 DEF StartRun, ListDone, Recovered, EndRun, Return, At, storeVars
  <2>2. CASE Recover
    BY <1>2, <2>2 DEF Recover, recover_pending_rollback, LockBusy, Answer, FinishPending, Enter, At
  <2>3. CASE Publish("publish", "publishing") \/ Publish("finish", "finishing")
    BY <1>2, <2>3 DEF Publish, PublishRead
  <2>4. CASE Stop(Processor)
    BY <1>2, <2>4 DEF Stop, Leave, NoTxn
  <2>5. QED BY <2>1, <2>2, <2>3, <2>4
<1>5. WorkInv' /\ StoreCallInv'
  BY <1>3, <1>4, RestingStep
<1>6. QED BY <1>1, <1>3, <1>5, FilesKept

\* _process_submission: what the store, the build and the suites answer.
LEMMA SubmissionSteps ==
    ASSUME HostInv, Kept,
           \/ \E r \in Requests : RejectPayload(r) \/ RejectRelease(r)
           \/ Built \/ EvaluationFails \/ BindPolicy \/ WriteReady \/ Evaluate
    PROVE  LocalInv'
<1>1. /\ proc \in Memory /\ Processor \in Actors /\ txn \in [Actors -> Txns]
      /\ reply \in [Actors -> Replies]
      /\ proc.pc # "promoting" => txn[Processor].phase # "active"
      /\ proc.pc # "off" => proc.policy # None
  BY ProcessorFacts
<1>2. UNCHANGED <<req, marker, cjournal, policy, applied>> /\ proc.pc \in Submitting
  BY DEF RejectPayload, RejectRelease, RefuseSubmission, Built, EvaluationFails, BindPolicy,
         WriteReady, Evaluate, At, Submitting
<1>3. txn' = txn /\ txn'[Processor].phase # "active"
  BY <1>1, <1>2 DEF RejectPayload, RejectRelease, RefuseSubmission, Built, EvaluationFails,
         BindPolicy, WriteReady, Evaluate, Return, storeVars, Submitting
<1>4. ASSUME NEW r \in proc.todo, NEW o \in Failures, Settle(r, o, None, None),
             NextIn("submissions", r)
      PROVE  LocalInv'
  <2>1. o \in Outcomes /\ o # "CANDIDATE_READY"
    BY DEF Outcomes, Failures
  <2>2. QED BY <1>2, <1>3, <1>4, <2>1, AnswerStep
<1>5. ASSUME proc.pc \in {"building", "evaluate", "bind", "ready"}
      PROVE  proc.work \in proc.todo
  BY <1>5, RequestAtHand
<1>6. ASSUME proc.pc \in {"building", "evaluate", "bind", "ready"}, NEW o \in Failures,
             Settle(proc.work, o, None, None), NextIn("submissions", proc.work)
      PROVE  LocalInv'
  <2>1. PICK r \in proc.todo : r = proc.work /\ Settle(r, o, None, None) /\ NextIn("submissions", r)
    BY <1>5, <1>6
  <2>2. QED BY <1>4, <2>1
<1>7. ASSUME NEW p \in {"evaluate", "bind", "ready"}, Go(p), UNCHANGED result,
             proc.pc \in {"building", "evaluate", "bind"}, MadeFor(proc.made, proc.work)
      PROVE  LocalInv'
  <2>1. /\ proc' \in Memory /\ proc'.pc = p /\ proc'.todo = proc.todo /\ proc'.work = proc.work
        /\ proc'.made = proc.made /\ proc'.policy = proc.policy
    BY <1>1, <1>7, GoFacts DEF Submitting
  <2>2. MadeFor(proc.made, proc.work)'
    BY <1>2, <1>7, <2>1 DEF MadeFor, Kept
  <2>3. proc.pc \in Submitting \ {"submissions"}
    BY <1>7 DEF Submitting
  <2>4. WorkInv'
    BY <1>2, <1>7, <2>1, <2>2, <2>3 DEF HostInv, WorkInv, Open, Submitting, Committing
  <2>5. StoreCallInv'
    BY <1>3, <2>1 DEF StoreCallInv, CallOK
  <2>6. QED BY <1>2, <1>7, <2>1, <2>4, <2>5, FilesKept
<1>8. CASE \E r \in Requests : RejectPayload(r) \/ RejectRelease(r)
  BY <1>4, <1>8 DEF RejectPayload, RejectRelease, RefuseSubmission, Failures
<1>9. CASE Built
  <2>1. CASE reply[Processor] = "built" /\ Go("evaluate") /\ UNCHANGED result
    <3>1. proc.pc = "building" /\ MadeFor(proc.made, proc.work)
      BY <1>9, <2>1 DEF Built, At, HostInv, StoreCallInv, CallOK
    <3>2. QED BY <1>7, <2>1, <3>1
  <2>2. CASE /\ active.cur # None /\ Settle(proc.work, "UNCHANGED", active.cur.dep, proc.policy)
             /\ NextIn("submissions", proc.work)
    <3>1. active.cur.dep \in Deployments /\ active.cur.dep \in builds
      BY <2>2 DEF HostInv, StoreInv, SelectsFrom, EvaluationInv, Inv, TypeOK, States, Selected
    <3>2. PICK r \in proc.todo, d \in builds, q \in Policies \union {None} :
              /\ d \in Deployments /\ Settle(r, "UNCHANGED", d, q) /\ NextIn("submissions", r)
      BY <1>1, <1>5, <1>9, <2>2, <3>1 DEF Built, At, Memory
    <3>3. QED BY <1>2, <1>3, <3>2, AnswerStep DEF Outcomes
  <2>3. CASE Settle(proc.work, "BUILD_FAILED", None, None) /\ NextIn("submissions", proc.work)
    BY <1>6, <1>9, <2>3 DEF Built, At, Failures
  <2>4. QED BY <1>9, <2>1, <2>2, <2>3 DEF Built
<1>10. CASE EvaluationFails
  BY <1>6, <1>10 DEF EvaluationFails, At, Failures
<1>11. CASE BindPolicy
  <2>1. CASE Go("ready") /\ UNCHANGED result
    BY <1>7, <1>11, <2>1 DEF BindPolicy, At, HostInv, WorkInv
  <2>2. QED BY <1>6, <1>11, <2>1 DEF BindPolicy, At, Failures
<1>12. CASE Evaluate
  BY <1>7, <1>12 DEF Evaluate, At, HostInv, WorkInv
<1>13. CASE WriteReady
  <2>1. proc.made \in builds /\ proc.made \in Deployments
    BY <1>13 DEF WriteReady, At, HostInv, WorkInv, MadeFor, StoreInv, Inv, TypeOK
  <2>2. PICK r \in proc.todo, d \in builds, q \in Policies \union {None} :
            d \in Deployments /\ Settle(r, "CANDIDATE_READY", d, q) /\ NextIn("submissions", r)
    BY <1>1, <1>5, <1>13, <2>1 DEF WriteReady, At, Memory
  <2>3. d # None
    BY <2>2, StoreAssumption
  <2>4. QED BY <1>2, <1>3, <2>2, <2>3, AnswerStep DEF Outcomes
<1>14. QED BY <1>8, <1>9, <1>10, <1>11, <1>12, <1>13

\* _process_submission up to the end of its build.
LEMMA BuildSteps ==
    ASSUME HostInv, Kept, Published \/ FinishBuild \/ \E r \in Requests : BuildSubmission(r)
    PROVE  LocalInv'
<1>1. /\ proc \in Memory /\ Processor \in Actors /\ txn \in [Actors -> Txns]
      /\ reply \in [Actors -> Replies]
      /\ proc.pc # "promoting" => txn[Processor].phase # "active"
      /\ proc.pc # "off" => proc.policy # None
  BY ProcessorFacts
<1>2. UNCHANGED <<req, result, marker, cjournal, policy, applied>>
  BY DEF Published, FinishBuild, BuildSubmission, queueVars
<1>3. \A r : Open(r) => Open(r)'
  BY <1>2 DEF Open
<1>4. CASE Published
  <2>1. CASE Abort
    <3>1. txn'[Processor].phase # "active"
      BY <1>1, <1>4 DEF Published, Return, At
    <3>2. QED BY <1>2, <2>1, <3>1, AbortFacts, RestingStep, FilesKept DEF Resting
  <2>2. CASE proc' = [proc EXCEPT !.pc = "submissions",
                           !.todo = {r \in Requests : req[r] # None /\ result[r] = NoResult}]
    <3>1. /\ proc' \in Memory /\ proc'.pc = "submissions" /\ proc'.policy = proc.policy
          /\ proc'.todo = {r \in Requests : req[r] # None /\ result[r] = NoResult}
      BY <1>1, <2>2 DEF Memory, Submitting
    <3>2. WorkInv'
      BY <1>1, <1>2, <1>4, <3>1 DEF WorkInv, Open, Submitting, Committing, Published, At
    <3>3. StoreCallInv'
      BY <1>1, <1>4, <3>1 DEF StoreCallInv, CallOK, Published, Return, At
    <3>4. QED BY <1>2, <3>1, <3>2, <3>3, FilesKept
  <2>3. QED BY <1>4, <2>1, <2>2 DEF Published
<1>5. ASSUME NEW r \in Requests, BuildSubmission(r)
      PROVE  LocalInv'
  <2>1. r \in proc.todo /\ Open(r) /\ req[r].rel = proc.policy.rel /\ proc.pc = "submissions"
    BY <1>5 DEF BuildSubmission, At, HostInv, WorkInv, Submitting
  <2>2. /\ proc' \in Memory /\ proc'.pc = "building" /\ proc'.work = r
        /\ proc'.todo = proc.todo /\ proc'.policy = proc.policy
    BY <1>1, <1>5 DEF BuildSubmission, Memory, Submitting
  <2>3. WorkInv'
    BY <1>1, <1>2, <1>3, <2>1, <2>2 DEF HostInv, WorkInv, Submitting, Committing
  <2>4. /\ txn'[Processor].phase \in {"idle", "build"}
        /\ reply'[Processor] # "built"
    <3>1. CASE Idle(Processor) /\ (LockBusy(Processor) \/ RebuildUnchanged(Processor))
      BY <1>1, <3>1 DEF Idle, LockBusy, RebuildUnchanged, Answer
    <3>2. CASE RebuildBegin(Processor)
      BY <1>1, <3>2 DEF RebuildBegin, Idle, Enter
    <3>3. QED BY <1>5, <3>1, <3>2 DEF BuildSubmission, RebuildUnchanged
  <2>5. StoreCallInv'
    BY <2>2, <2>4 DEF StoreCallInv, CallOK
  <2>6. QED BY <1>2, <2>2, <2>3, <2>5, FilesKept
<1>6. CASE FinishBuild
  <2>1. proc.pc = "building"
    BY <1>6 DEF FinishBuild, At
  <2>2. CASE RebuildFails(Processor) /\ UNCHANGED proc
    <3>1. WorkInv'
      BY <1>2, <1>3, <2>1, <2>2 DEF HostInv, WorkInv, Submitting, Committing
    <3>2. txn'[Processor].phase = "idle" /\ reply'[Processor] = "refused"
      BY <1>1, <2>2 DEF RebuildFails, Leave, NoTxn
    <3>3. StoreCallInv'
      BY <2>1, <2>2, <3>2 DEF StoreCallInv, CallOK
    <3>4. QED BY <1>1, <1>2, <2>2, <3>1, <3>3, FilesKept
  <2>3. ASSUME NEW run \in Runs, NEW d,
               d = [snap |-> req[proc.work].snap, rel |-> proc.policy.rel, run |-> run],
               RebuildEnd(Processor, d), proc' = [proc EXCEPT !.made = d]
        PROVE  LocalInv'
    <3>1. /\ proc.work \in Requests /\ proc.work \in proc.todo
          /\ req[proc.work] \in RequestBodies
          /\ req[proc.work].rel = proc.policy.rel /\ proc.policy \in Policies
      BY <2>1, RequestAtHand
    <3>2. d \in Deployments /\ d.snap = req[proc.work].snap /\ d.rel = req[proc.work].rel
      BY <2>3, <3>1, ProcessorAssumption DEF RequestBodies
    <3>3. /\ proc' \in Memory /\ proc'.pc = "building" /\ proc'.work = proc.work
          /\ proc'.todo = proc.todo /\ proc'.policy = proc.policy /\ proc'.made = d
      BY <1>1, <2>1, <2>3, <3>2 DEF Memory, Submitting
    <3>4. d \notin builds /\ d \in builds'
      BY <2>3 DEF RebuildEnd
    <3>5. \A q \in Requests : result'[q].cand # d
      BY <1>2, <3>2, <3>4, StoreAssumption DEF HostInv, QueueInv
    <3>6. MadeFor(proc.made, proc.work)'
      BY <1>2, <3>2, <3>3, <3>4, <3>5 DEF MadeFor
    <3>7. WorkInv'
      BY <1>2, <1>3, <2>1, <3>3 DEF HostInv, WorkInv, Submitting, Committing
    <3>8. txn'[Processor].phase = "release"
      BY <1>1, <2>3 DEF RebuildEnd, Goto, Txns
    <3>9. StoreCallInv'
      BY <3>3, <3>6, <3>8 DEF StoreCallInv, CallOK
    <3>10. QED BY <1>2, <3>3, <3>7, <3>9, FilesKept
  <2>4. QED BY <1>6, <2>2, <2>3 DEF FinishBuild
<1>7. QED BY <1>4, <1>5, <1>6

\* What active.json selects was selected.
LEMMA ActiveWasSeen ==
    ASSUME HostInv, NEW d \in Deployments, IsActive(d)
    PROVE  d \in Seen
<1>1. active.cur # None /\ active.cur.dep = d
  BY StoreAssumption DEF IsActive, DepOf
<1>2. QED BY <1>1 DEF HostInv, StoreInv, ProvenanceInv, WasSelected, Seen

\* _process_commit up to the call of promote or of the repair.
LEMMA BeginSteps ==
    ASSUME HostInv, Kept, ListCommits \/ \E r \in Requests : RefuseCommit(r) \/ BeginCommit(r)
    PROVE  LocalInv'
<1>1. /\ proc \in Memory /\ Processor \in Actors /\ txn \in [Actors -> Txns]
      /\ proc.pc # "promoting" => txn[Processor].phase # "active"
      /\ proc.pc # "off" => proc.policy # None
  BY ProcessorFacts
<1>2. UNCHANGED <<req, marker, policy, applied, selections>>
  BY DEF ListCommits, RefuseCommit, BeginCommit, queueVars, storeVars
<1>3. txn'[Processor].phase # "active" /\ proc.pc # "off"
  BY <1>1 DEF ListCommits, RefuseCommit, BeginCommit, storeVars, At
<1>4. CASE ListCommits
  <2>1. /\ proc' \in Memory /\ proc'.pc = "commits" /\ proc'.policy = proc.policy
        /\ \A r \in proc'.todo : r \in marker /\ result[r].outcome = "CANDIDATE_READY"
        /\ UNCHANGED <<result, cjournal>>
    BY <1>1, <1>4 DEF ListCommits, Memory, Committing, queueVars, HostInv, HostTypes
  <2>2. \A r \in proc'.todo : Authorized(r)'
    BY <1>2, <2>1 DEF Authorized
  <2>3. QED BY <1>1, <1>2, <1>3, <2>1, <2>2, CommitsStep, FilesKept
<1>5. ASSUME NEW r \in Requests, RefuseCommit(r)
      PROVE  LocalInv'
  BY <1>2, <1>3, <1>5, FinishStep DEF RefuseCommit, At, Committing, Outcomes, Failures
<1>6. ASSUME NEW r \in Requests, BeginCommit(r)
      PROVE  LocalInv'
  <2>1. proc.pc = "commits" /\ r \in proc.todo /\ UNCHANGED result
    BY <1>6 DEF BeginCommit, At
  <2>2. \A x \in proc.todo : Authorized(x) /\ Authorized(x)'
    BY <1>2, <2>1 DEF HostInv, WorkInv, Committing, Authorized
  <2>3. CASE /\ r \notin cjournal /\ cjournal' = cjournal \union {r}
             /\ proc' = [proc EXCEPT !.pc = "promote", !.work = r]
    <3>1. /\ proc' \in Memory /\ proc'.pc = "promote" /\ proc'.work = r
          /\ proc'.todo = proc.todo /\ proc'.policy = proc.policy
      BY <1>1, <2>3 DEF Memory, Committing
    <3>2. HostTypes'
      BY <1>2, <2>1, <2>2, <2>3, <3>1 DEF HostInv, HostTypes, Kept, Authorized
    <3>3. QueueInv' /\ AppliedInv'
      BY <1>2, <2>1, <2>3 DEF HostInv, QueueInv, AppliedInv, Kept
    <3>4. Unapplied(proc.work)'
      BY <1>2, <2>3, <3>1 DEF HostInv, AppliedInv, Unapplied
    <3>5. result'[r].policy = proc.policy
      BY <1>6, <2>1 DEF BeginCommit, PolicyHolds
    <3>6. WorkInv'
      BY <1>1, <1>3, <2>1, <2>2, <2>3, <3>1, <3>4, <3>5 DEF WorkInv, Submitting, Committing
    <3>7. StoreCallInv'
      BY <1>3, <3>1 DEF StoreCallInv, CallOK
    <3>8. QED BY <3>2, <3>3, <3>6, <3>7 DEF LocalInv
  <2>4. CASE /\ r \in cjournal /\ IsActive(result[r].cand) /\ UNCHANGED cjournal
             /\ proc' = [proc EXCEPT !.pc = "repair", !.work = r]
    <3>1. /\ proc' \in Memory /\ proc'.pc = "repair" /\ proc'.work = r
          /\ proc'.todo = proc.todo /\ proc'.policy = proc.policy
      BY <1>1, <2>4 DEF Memory, Committing
    <3>2. result[r].cand \in Deployments
      BY <2>1, <2>2 DEF HostInv, QueueInv, HostTypes, ResultFiles, Authorized
    <3>3. result[r].cand \in Seen'
      BY <1>2, <2>4, <3>2, ActiveWasSeen DEF Seen
    <3>4. WorkInv'
      BY <1>1, <1>3, <2>1, <2>2, <2>4, <3>1, <3>3 DEF WorkInv, Submitting, Committing
    <3>5. StoreCallInv'
      BY <1>3, <3>1 DEF StoreCallInv, CallOK
    <3>6. QED BY <1>2, <2>1, <2>4, <3>1, <3>4, <3>5, FilesKept
  <2>5. QED BY <1>6, <2>3, <2>4 DEF BeginCommit
<1>7. QED BY <1>4, <1>5, <1>6

\* How promote starts: the candidate is the deployment that a promotion will
\* select over the one the publisher expected.
LEMMA PromoteFacts ==
    ASSUME HostInv, NEW d \in Deployments, NEW e \in Deployments \union {None},
           PromoteEvaluated(Processor, d, e)
    PROVE  /\ txn'[Processor].phase \in {"idle", "create", "active"}
           /\ txn'[Processor].phase # "idle" => txn'[Processor].result \in {"promoted", "unchanged"}
           /\ reply'[Processor] \in {"none", "conflict", "refused"}
           /\ txn'[Processor].phase = "create" => d \in Seen'
           /\ txn'[Processor].phase = "active" =>
                  txn'[Processor].target.cur.dep = d /\ DepOf(txn'[Processor].target.prev) = e
<1>1. /\ Processor \in Actors /\ txn \in [Actors -> Txns] /\ reply \in [Actors -> Replies]
  BY ProcessorFacts
<1>2. Idle(Processor) /\ txn[Processor].phase = "idle" /\ reply[Processor] = "none"
  BY DEF PromoteEvaluated, Promote, PromoteRefused, PromoteConflict, PromoteUnchanged,
         PromoteSelect, Idle
<1>3. ASSUME NEW w \in {"conflict", "refused"}, Answer(Processor, w)
      PROVE  txn'[Processor].phase = "idle" /\ reply'[Processor] = w
  BY <1>1, <1>2, <1>3 DEF Answer
<1>4. CASE PromoteRefused(Processor)
  <2>1. Answer(Processor, "refused")
    BY <1>4 DEF PromoteRefused, LockBusy, VerificationFails
  <2>2. QED BY <1>3, <2>1
<1>5. CASE Answer(Processor, "refused")
  BY <1>3, <1>5
<1>6. CASE PromoteConflict(Processor, d, e)
  BY <1>3, <1>6 DEF PromoteConflict
<1>7. CASE PromoteUnchanged(Processor, d)
  <2>1. d \in Seen
    BY <1>7, ActiveWasSeen DEF PromoteUnchanged, IsActive
  <2>2. /\ txn'[Processor].phase = "create" /\ txn'[Processor].result = "unchanged"
        /\ reply'[Processor] = "none" /\ UNCHANGED selections
    BY <1>1, <1>2, <1>7 DEF PromoteUnchanged, Enter
  <2>3. QED BY <2>1, <2>2 DEF Seen
<1>8. CASE PromoteSelect(Processor, d, e)
  BY <1>1, <1>2, <1>8 DEF PromoteSelect, Enter, select_deployment
<1>9. QED BY <1>4, <1>5, <1>6, <1>7, <1>8 DEF PromoteEvaluated, Promote

\* _process_commit from the call of promote or of the repair to the result,
\* and the announcement of a promotion.
LEMMA CommitSteps ==
    ASSUME HostInv, Kept,
           \/ ApplyCommit \/ Applied \/ RepairCommit \/ Repaired
           \/ Publish("announce", "announcing") \/ Announced
    PROVE  LocalInv'
<1>1. /\ proc \in Memory /\ Processor \in Actors /\ txn \in [Actors -> Txns]
      /\ reply \in [Actors -> Replies]
      /\ proc.pc # "promoting" => txn[Processor].phase # "active"
      /\ proc.pc # "off" => proc.policy # None
  BY ProcessorFacts
<1>2. UNCHANGED <<req, marker, cjournal, policy, applied>> /\ proc.pc \in Committing
  BY DEF ApplyCommit, Applied, RepairCommit, Repaired, Publish, Announced, queueVars, At, Committing
<1>3. proc.policy # None /\ \A r \in proc.todo : Authorized(r)
  BY <1>1, <1>2 DEF HostInv, WorkInv, Committing
<1>4. UNCHANGED result => \A r : (Authorized(r) => Authorized(r)') /\ (Unapplied(r) => Unapplied(r)')
  BY <1>2 DEF Authorized, Unapplied
<1>5. ASSUME UNCHANGED result, Abort, txn'[Processor].phase # "active"
      PROVE  LocalInv'
  BY <1>2, <1>5, AbortFacts, RestingStep, FilesKept DEF Resting
<1>6. ASSUME UNCHANGED result, NEW p \in {"commits", "announce", "announcing"}, Go(p),
             txn'[Processor].phase # "active"
      PROVE  LocalInv'
  <2>1. /\ proc' \in Memory /\ proc'.pc = p /\ proc'.todo = proc.todo /\ proc'.policy = proc.policy
    BY <1>1, <1>6, GoFacts DEF Committing
  <2>2. QED BY <1>2, <1>3, <1>4, <1>6, <2>1, CommitsStep, FilesKept
<1>7. ASSUME UNCHANGED result, NEW p \in {"repair", "repairing"}, Go(p),
             txn'[Processor].phase # "active", result[proc.work].cand \in Seen,
             proc.pc \in {"promoting", "repair"}
      PROVE  LocalInv'
  <2>1. /\ proc' \in Memory /\ proc'.pc = p /\ proc'.todo = proc.todo /\ proc'.work = proc.work
        /\ proc'.policy = proc.policy
    BY <1>1, <1>7, GoFacts DEF Committing
  <2>2. result[proc.work].cand \in Seen'
    BY <1>7 DEF Seen, Kept
  <2>3. proc.work \in proc.todo /\ proc.work \in cjournal
    BY <1>7 DEF HostInv, WorkInv
  <2>4. WorkInv'
    BY <1>2, <1>3, <1>4, <1>7, <2>1, <2>2, <2>3 DEF WorkInv, Submitting, Committing
  <2>5. StoreCallInv'
    BY <1>7, <2>1 DEF StoreCallInv, CallOK
  <2>6. QED BY <1>2, <1>7, <2>1, <2>4, <2>5, FilesKept
<1>8. ASSUME NEW o \in Outcomes \ {"CANDIDATE_READY"}, SettleCommit(o),
             proc.pc \in {"promoting", "repairing"}, txn'[Processor].phase # "active"
      PROVE  LocalInv'
  <2>1. PICK r \in proc.todo, loop \in {"commits", "announce"} :
            r = proc.work /\ Settle(r, o, result[r].cand, result[r].policy) /\ NextIn(loop, r)
    BY <1>8 DEF HostInv, WorkInv, SettleCommit
  <2>2. QED BY <1>2, <1>8, <2>1, FinishStep
<1>9. CASE ApplyCommit
  <2>1. PICK d \in Deployments, e \in Deployments \union {None} :
            /\ d = result[proc.work].cand /\ e = req[proc.work].expected
            /\ PromoteEvaluated(Processor, d, e)
    BY <1>9, CandidateAtHand DEF ApplyCommit, At
  <2>2. /\ proc' \in Memory /\ proc'.pc = "promoting" /\ proc'.todo = proc.todo
        /\ proc'.work = proc.work /\ proc'.policy = proc.policy /\ UNCHANGED result
    BY <1>1, <1>9, GoFacts DEF ApplyCommit, Committing, queueVars
  <2>3. /\ proc.work \in proc.todo /\ proc.work \in cjournal /\ Unapplied(proc.work)
        /\ result[proc.work].policy = proc.policy
    BY <1>9 DEF ApplyCommit, At, HostInv, WorkInv
  <2>4. WorkInv'
    BY <1>2, <1>3, <1>4, <2>2, <2>3 DEF WorkInv, Submitting, Committing
  <2>5. /\ result'[proc'.work].cand = d /\ req'[proc'.work].expected = e
        /\ Unapplied(proc.work)'
    BY <1>2, <2>1, <2>2, <2>3 DEF Unapplied
  <2>6. StoreCallInv'
    BY <2>1, <2>2, <2>5, PromoteFacts DEF StoreCallInv, CallOK
  <2>7. QED BY <1>2, <2>2, <2>4, <2>6, FilesKept
<1>10. CASE Applied
  <2>1. /\ proc.pc = "promoting" /\ txn[Processor].phase = "idle" /\ txn' = txn
        /\ reply[Processor] # "none"
    BY <1>10 DEF Applied, At, Returned, Return
  <2>2. reply[Processor] \in {"promoted", "unchanged", "conflict", "refused", "ioerror"}
    BY <2>1 DEF HostInv, StoreCallInv, CallOK
  <2>3. CASE reply[Processor] # "ioerror" /\ SettleCommit(OutcomeOf(reply[Processor]))
    <3>1. OutcomeOf(reply[Processor]) \in Outcomes \ {"CANDIDATE_READY"}
      BY <2>2, <2>3 DEF OutcomeOf, Outcomes, Failures
    <3>2. PICK o \in Outcomes \ {"CANDIDATE_READY"} : SettleCommit(o)
      BY <2>3, <3>1
    <3>3. QED BY <1>8, <2>1, <3>2
  <2>4. CASE /\ reply[Processor] = "ioerror" /\ UNCHANGED result
             /\ IF IsActive(result[proc.work].cand) THEN Go("repair") ELSE Abort
    <3>1. result[proc.work].cand \in Deployments
      BY <2>1, CandidateAtHand
    <3>2. QED BY <1>5, <1>7, <2>1, <2>4, <3>1, ActiveWasSeen
  <2>5. QED BY <1>10, <2>3, <2>4 DEF Applied
<1>11. CASE RepairCommit
  <2>1. txn'[Processor].phase # "active"
    BY <1>1, <1>11 DEF RepairCommit, Repair, Idle, LockBusy, Answer, Enter
  <2>2. proc.pc = "repair" /\ result[proc.work].cand \in Seen
    BY <1>11 DEF RepairCommit, At, HostInv, WorkInv
  <2>3. QED BY <1>7, <1>11, <2>1, <2>2 DEF RepairCommit, queueVars
<1>12. CASE Repaired
  <2>1. proc.pc = "repairing" /\ txn'[Processor].phase # "active"
    BY <1>12 DEF Repaired, At, Returned, Return
  <2>2. CASE SettleCommit("PROMOTED")
    BY <1>8, <2>1, <2>2 DEF Outcomes
  <2>3. CASE Abort /\ UNCHANGED result
    BY <1>5, <2>1, <2>3
  <2>4. QED BY <1>12, <2>2, <2>3 DEF Repaired
<1>13. CASE Publish("announce", "announcing")
  <2>1. txn'[Processor].phase # "active"
    BY <1>1, <1>13 DEF Publish, PublishRead
  <2>2. QED BY <1>6, <1>13, <2>1 DEF Publish, queueVars
<1>14. CASE Announced
  <2>1. txn'[Processor].phase # "active"
    BY <1>14 DEF Announced, Returned, Return
  <2>2. QED BY <1>5, <1>6, <1>14, <2>1 DEF Announced, queueVars
<1>15. QED BY <1>9, <1>10, <1>11, <1>12, <1>13, <1>14

-----------------------------------------------------------------------------
(* The store transaction, operators, publisher and upgrades *)

\* The processor's transaction goes on without replacing active.json, or an
\* OSError ends it.
LEMMA WorkStep ==
    ASSUME HostInv, Kept,
           (Step(Processor) /\ txn[Processor].phase # "active") \/ IOFault(Processor),
           UNCHANGED <<queueVars, policy, proc, ops, applied>>
    PROVE  LocalInv'
<1>1. /\ HostTypes' /\ QueueInv' /\ AppliedInv' /\ WorkInv'
      /\ \A t, w : CallOK(t, w) => CallOK(t, w)'
  BY KnownStaysKnown DEF HostInv, HostTypes, queueVars
<1>2. PICK t, w, u, v : /\ t = txn[Processor] /\ w = reply[Processor]
                        /\ u = txn'[Processor] /\ v = reply'[Processor]
  OBVIOUS
<1>3. CallOK(t, w)
  BY <1>2 DEF HostInv, StoreCallInv
<1>4. TypeOK /\ Processor \in Actors
  BY ProcessorAssumption DEF HostInv, StoreInv, Inv
<1>5. \/ /\ t.phase \notin {"idle", "active", "build", "release", "publish"}
         /\ u.phase \notin {"idle", "active", "build", "publish"}
         /\ u.result = t.result /\ v = w
      \/ /\ u.phase = "idle" /\ t.phase \notin {"idle", "build"}
         /\ \/ t.phase = "release" /\ v = t.result
            \/ t.phase = "publish" /\ v = "published"
            \/ v \in {"refused", "ioerror"}
  BY <1>2, <1>4, StepFacts
<1>6. CallOK(u, v)
  BY <1>3, <1>5 DEF CallOK
<1>7. CallOK(u, v)'
  BY <1>1, <1>6
<1>8. QED BY <1>1, <1>2, <1>7 DEF LocalInv, StoreCallInv, CallOK

\* The processor replaces active.json.
LEMMA ApplyStep ==
    ASSUME HostInv, Kept, WorkInStore, txn[Processor].phase = "active"
    PROVE  LocalInv'
<1> DEFINE t == txn[Processor].target
           x == [req |-> proc.work, at |-> t.cur.at, dep |-> t.cur.dep,
                 over |-> DepOf(active.cur), policy |-> proc.policy]
<1>1. /\ proc \in Memory /\ Processor \in Actors /\ txn \in [Actors -> Txns]
      /\ reply \in [Actors -> Replies]
  BY ProcessorFacts
<1>2. /\ WriteActive(Processor) /\ applied' = applied \union {x}
      /\ UNCHANGED <<req, result, marker, cjournal, policy, proc>>
  BY DEF WorkInStore, Step, WriteActive, WriteJournal, FinishSelect, ClearJournal, CreateHistory,
         WriteHistory, WriteProjection, Release, PublishWrite, queueVars
<1>3. /\ proc.pc = "promoting" /\ Unapplied(proc.work)
      /\ t.cur.dep = result[proc.work].cand /\ DepOf(t.prev) = req[proc.work].expected
      /\ txn[Processor].result \in {"promoted", "unchanged"}
      /\ reply[Processor] \in {"none", "promoted", "unchanged", "conflict", "refused", "ioerror"}
  BY DEF HostInv, StoreCallInv, CallOK
<1>4. /\ proc.work \in Requests /\ proc.work \in cjournal /\ proc.work \in proc.todo
      /\ result[proc.work].policy = proc.policy
      /\ \A r \in proc.todo : Authorized(r) /\ Authorized(r)'
  BY <1>2, <1>3, CandidateAtHand DEF HostInv, WorkInv, Committing, Authorized
<1>5. t \in States /\ t.cur \in Selected /\ t.prev = active.cur
  BY <1>1 DEF HostInv, StoreInv, Inv, TxnInv, TxnOK, Txns, States
<1>6. DepOf(active.cur) \in Deployments \union {None}
  BY DEF DepOf, HostInv, StoreInv, Inv, TypeOK, States, Selected
<1>7. /\ x \in [req : Requests, at : Nat, dep : Deployments, over : Deployments \union {None},
                policy : Policies \union {None}]
      /\ x.req = proc.work /\ x.dep = t.cur.dep /\ x.over = DepOf(active.cur)
      /\ x.policy = proc.policy
  BY <1>1, <1>4, <1>5, <1>6 DEF Selected, Memory
<1> HIDE DEF x
<1>8. HostTypes'
  BY <1>2, <1>7 DEF HostInv, HostTypes, Kept
<1>9. QueueInv'
  BY <1>2 DEF HostInv, QueueInv, Kept
<1>10. AppliedInv'
  BY <1>2, <1>3, <1>4, <1>5, <1>7 DEF HostInv, AppliedInv, Unapplied
<1>11. WorkInv'
  BY <1>2, <1>3, <1>4 DEF HostInv, WorkInv, Submitting, Committing
<1>12. result'[proc'.work].cand \in Seen'
  <2>1. \E s \in selections' : s.dep = t.cur.dep
    <3> DEFINE y == [dep |-> t.cur.dep, at |-> t.cur.at, way |-> "promote",
                     over |-> DepOf(active.cur)]
    <3>1. y \in selections' /\ y.dep = t.cur.dep
      BY <1>2 DEF WriteActive, ReplaceActive
    <3>2. QED BY <3>1
  <2>2. QED BY <1>2, <1>3, <2>1 DEF Seen
<1>13. /\ txn'[Processor].phase = "create" /\ txn'[Processor].result = txn[Processor].result
       /\ reply'[Processor] = reply[Processor]
  BY <1>1, <1>2 DEF WriteActive, Goto, Txns
<1>14. StoreCallInv'
  BY <1>2, <1>3, <1>12, <1>13 DEF StoreCallInv, CallOK
<1>15. QED BY <1>8, <1>9, <1>10, <1>11, <1>14 DEF LocalInv

\* What the other processes do: the processor's transaction is its own.
LEMMA OtherSteps ==
    ASSUME HostInv, Kept,
           \/ \E r \in Requests, s \in Snapshots, rel \in Releases :
                 \E seen \in {None} \union {x.dep : x \in selections} : Submit(r, s, rel, seen)
           \/ \E r \in Requests : Authorize(r)
           \/ \E o \in Operators : OperatorCommand(o) \/ OperatorStep(o) \/ OperatorFault(o)
           \/ \E p \in Policies : Upgrade(p)
           \/ UNCHANGED vars
    PROVE  LocalInv'
<1>1. txn'[Processor] = txn[Processor] /\ reply'[Processor] = reply[Processor]
  <2>1. CASE UNCHANGED storeVars
    BY <2>1 DEF storeVars
  <2>2. ASSUME NEW o \in Operators, OperatorCommand(o) \/ OperatorStep(o) \/ OperatorFault(o)
        PROVE  txn'[Processor] = txn[Processor] /\ reply'[Processor] = reply[Processor]
    <3>1. PICK V : V = vouched
      OBVIOUS
    <3>2. UNCHANGED storeVars \/ Operates(o, V)
      BY <2>2, <3>1, OperatorOperates
    <3>3. /\ TypeOK /\ V \in SUBSET Deployments /\ o \in Actors /\ Processor \in Actors
          /\ Processor # o
      BY <3>1, ProcessorAssumption DEF HostInv, StoreInv, EvaluationInv, Inv, TypeOK, Operators
    <3>4. QED BY <2>1, <3>2, <3>3, StepCases, StoreFrame
  <2>3. QED BY <2>1, <2>2 DEF Submit, Authorize, Upgrade, vars
<1>2. UNCHANGED <<result, cjournal, proc, applied>>
  BY DEF Submit, Authorize, OperatorCommand, OperatorStep, OperatorFault, Upgrade, vars, queueVars
<1>3. policy' \in Policies
  BY DEF Submit, Authorize, OperatorCommand, OperatorStep, OperatorFault, Upgrade, vars, HostInv,
         HostTypes
<1>4. /\ req' \in [Requests -> RequestBodies \union {None}]
      /\ \A r \in Requests : req[r] # None => req'[r] = req[r]
  <2>1. CASE UNCHANGED req
    BY <2>1 DEF HostInv, HostTypes
  <2>2. ASSUME NEW r \in Requests, NEW s \in Snapshots, NEW rel \in Releases,
               NEW seen \in {None} \union {x.dep : x \in selections}, Submit(r, s, rel, seen)
        PROVE  /\ req' \in [Requests -> RequestBodies \union {None}]
               /\ \A q \in Requests : req[q] # None => req'[q] = req[q]
    <3> DEFINE b == [snap |-> s, rel |-> rel, expected |-> seen]
    <3>1. seen \in Deployments \union {None}
      BY DEF HostInv, StoreInv, Inv, TypeOK, Selections
    <3>2. b \in RequestBodies
      BY <3>1 DEF RequestBodies
    <3>3. req[r] = None /\ req' = [req EXCEPT ![r] = b]
      BY <2>2 DEF Submit
    <3> HIDE DEF b
    <3>4. QED BY <3>2, <3>3 DEF HostInv, HostTypes
  <2>3. QED BY <2>1, <2>2 DEF Authorize, OperatorCommand, OperatorStep, OperatorFault, Upgrade,
       vars, queueVars
<1>5. /\ marker \subseteq marker' /\ marker' \subseteq Requests
      /\ \A r \in marker' \ marker : result[r].outcome = "CANDIDATE_READY"
  BY DEF Submit, Authorize, OperatorCommand, OperatorStep, OperatorFault, Upgrade, vars, queueVars,
         HostInv, HostTypes
<1>6. /\ HostTypes' /\ QueueInv' /\ AppliedInv' /\ WorkInv'
      /\ \A t, w : CallOK(t, w) => CallOK(t, w)'
  BY <1>2, <1>3, <1>4, <1>5, KnownStaysKnown
<1>7. PICK t, w : t = txn[Processor] /\ w = reply[Processor]
  OBVIOUS
<1>8. CallOK(t, w)'
  BY <1>6, <1>7 DEF HostInv, StoreCallInv
<1>9. QED BY <1>1, <1>6, <1>7, <1>8 DEF LocalInv, StoreCallInv, CallOK

-----------------------------------------------------------------------------
(* The invariant and what follows from it *)

\* A fresh host satisfies the invariant.
LEMMA HostInitially == InitHost => HostInv
<1> SUFFICES ASSUME InitHost PROVE HostInv
  OBVIOUS
<1>0. Init /\ Processor \in Actors
  BY ProcessorAssumption DEF InitHost
<1>1. StoreInv
  <2>1. Inv
    BY <1>0, InitialInv
  <2>2. ProvenanceInv
    BY <1>0, StoreAssumption DEF Init, ProvenanceInv, NoTxn, empty_state
  <2>3. SelectsFrom(vouched)
    BY <1>0 DEF Init, SelectsFrom, NoTxn, empty_state
  <2>4. QED BY <2>1, <2>2, <2>3 DEF StoreInv
<1>2. HostTypes
  <2>1. NoResult \in ResultFiles
    BY DEF NoResult, ResultFiles
  <2>2. NoRun \in Memory
    BY DEF NoRun, Memory
  <2>3. [passed |-> FALSE, policy |-> None] \in [passed : BOOLEAN, policy : Policies \union {None}]
    OBVIOUS
  <2>4. QED BY <2>1, <2>2, <2>3 DEF InitHost, HostTypes
<1>3. EvaluationInv
  BY DEF InitHost, EvaluationInv
<1>4. QueueInv
  BY DEF InitHost, QueueInv, NoResult
<1>5. AppliedInv
  BY DEF InitHost, AppliedInv
<1>6. proc.pc = "off" /\ txn[Processor].phase = "idle"
  BY <1>0 DEF InitHost, Init, NoRun, NoTxn
<1>7. WorkInv /\ StoreCallInv
  BY <1>6 DEF WorkInv, StoreCallInv, CallOK, Submitting, Committing
<1>8. QED BY <1>1, <1>2, <1>3, <1>4, <1>5, <1>7 DEF HostInv

\* Every step of the host preserves it.
LEMMA HostStep ==
    ASSUME HostInv, [NextHost]_vars
    PROVE  HostInv'
<1>1. /\ StoreInv' /\ EvaluationInv' /\ Kept
  BY StoreKept DEF Kept
<1>2. LocalInv'
  <2>1. CASE ProcessorStep
    <3>1. CASE WorkInStore
      BY <1>1, <3>1, ApplyStep, WorkStep DEF WorkInStore
    <3>2. QED BY <1>1, <2>1, <3>1, RunSteps, SubmissionSteps, BuildSteps, BeginSteps, CommitSteps
       DEF ProcessorStep
  <2>2. CASE ProcessorFault
    <3>1. CASE IOFault(Processor) /\ UNCHANGED <<queueVars, policy, proc, ops, applied>>
      BY <1>1, <3>1, WorkStep
    <3>2. QED BY <1>1, <2>2, <3>1, RunSteps DEF ProcessorFault
  <2>3. CASE ~ProcessorStep /\ ~ProcessorFault
    BY <1>1, <2>3, OtherSteps DEF NextHost
  <2>4. QED BY <2>1, <2>2, <2>3
<1>3. QED BY <1>1, <1>2 DEF HostInv, LocalInv

\* HostInv holds in every reachable state of the host.
THEOREM HostInvariant == SpecHost => []HostInv
<1>1. HostInv /\ [NextHost]_vars => HostInv'
  BY HostStep
<1>2. QED BY <1>1, HostInitially, PTL DEF SpecHost

LEMMA HostTyped == HostInv => HostTypeOK
<1> SUFFICES ASSUME HostInv PROVE HostTypeOK
  OBVIOUS
<1>1. TypeOK
  BY DEF HostInv, StoreInv, Inv
<1>2. ASSUME NEW r \in Requests, result[r] # NoResult
      PROVE  result[r] \in [outcome : Outcomes, cand : Deployments \union {None},
                            policy : Policies \union {None}]
  <2>1. result[r] \in ResultFiles /\ result[r].outcome # "NONE"
    BY <1>2 DEF HostInv, HostTypes, QueueInv
  <2>2. QED BY <2>1 DEF ResultFiles
<1>3. proc.todo \subseteq Requests /\ proc.work \in Requests \union {None}
  BY DEF HostInv, HostTypes, Memory
<1>4. QED BY <1>1, <1>2, <1>3 DEF HostInv, HostTypes, HostTypeOK, RequestBodies

\* The queue files, the commit journal and the processor's memory keep their
\* types; a commit is journalled only for a request with a marker.
THEOREM HostTypesHold == SpecHost => []HostTypeOK
BY HostTyped, HostInvariant, PTL

\* A commit authorization is applied at most once: _process_commit journals it
\* before it calls promote, and refuses or repairs what it finds journalled.
THEOREM CommitsAreAppliedOnce == SpecHost => []AppliedOnce
<1>1. HostInv => AppliedOnce
  BY DEF HostInv, AppliedInv, AppliedOnce
<1>2. QED BY <1>1, HostInvariant, PTL

\* Whatever the processor applied was authorized, is the candidate of its
\* request, replaced the deployment its publisher expected, and was evaluated
\* under the policy of the run that applied it.
THEOREM CommitsAreAppliedAsAuthorized == SpecHost => []AppliedAsAuthorized
<1>1. HostInv => AppliedAsAuthorized
  BY DEF HostInv, HostTypes, AppliedInv, AppliedAsAuthorized
<1>2. QED BY <1>1, HostInvariant, PTL

\* Only deployments with a passing evaluation report are ever selected, by
\* the processor, by an operator's promotion or by a rollback.
THEOREM OnlyEvaluatedIsSelected == SpecHost => []SelectedWasEvaluated
<1>1. HostInv => SelectedWasEvaluated
  BY DEF HostInv, StoreInv, SelectsFrom, SelectedWasEvaluated
<1>2. QED BY <1>1, HostInvariant, PTL

-----------------------------------------------------------------------------
(* The host implements PublicationHost *)

LEMMA SettleMaps ==
    ASSUME HostInv, NEW r \in Requests, NEW o, NEW d, NEW q, Settle(r, o, d, q),
           UNCHANGED <<req, marker, active, projection, selections, applied>>
    PROVE  Host!Settle(r, o, d)
<1> DEFINE F == [x \in Requests |-> [outcome |-> result[x].outcome, cand |-> result[x].cand]]
           y == [outcome |-> o, cand |-> d, policy |-> q]
           z == [outcome |-> o, cand |-> d]
<1>1. result' = [result EXCEPT ![r] = y] /\ result \in [Requests -> ResultFiles]
  BY DEF Settle, HostInv, HostTypes
<1>2. [outcome |-> y.outcome, cand |-> y.cand] = z
  OBVIOUS
<1> HIDE DEF y, z
<1>3. result'[r] = y /\ \A x \in Requests \ {r} : result'[x] = result[x]
  BY <1>1
<1>4. F' = [F EXCEPT ![r] = z]
  BY <1>2, <1>3
<1>5. QED BY <1>4 DEF Host!Settle, z

\* A request gets its first result.
LEMMA AnswerMaps ==
    ASSUME HostInv, NEW r \in Requests, Open(r), NEW o, NEW d, NEW q, Settle(r, o, d, q),
           UNCHANGED <<req, marker, active, projection, selections, applied>>,
           \/ o = "CANDIDATE_READY" /\ MadeFor(d, r)
           \/ o = "UNCHANGED" /\ d \in Seen /\ d.snap = req[r].snap
           \/ o \in Failures /\ d = None
    PROVE  Host!Next
<1>1. Host!Settle(r, o, d)
  BY SettleMaps
<1>2. req[r] # None /\ [outcome |-> result[r].outcome, cand |-> result[r].cand] = Host!NoResult
  BY DEF Open, NoResult, Host!NoResult
<1>3. \A q1 \in Requests : [outcome |-> result[q1].outcome, cand |-> result[q1].cand].cand
                             = result[q1].cand
  OBVIOUS
<1>4. CASE o = "CANDIDATE_READY" /\ MadeFor(d, r)
  <2>1. d \in Host!Candidates
    BY <1>4, ProcessorAssumption DEF MadeFor, HostInv, StoreInv, Inv, TypeOK, Host!Candidates,
       Releases
  <2>2. Host!Answer(r)
    BY <1>1, <1>2, <1>3, <1>4, <2>1 DEF Host!Answer, MadeFor
  <2>3. QED BY <2>2 DEF Host!Next
<1>5. CASE o = "UNCHANGED" /\ d \in Seen /\ d.snap = req[r].snap
  <2>1. Host!Answer(r)
    BY <1>1, <1>2, <1>5 DEF Host!Answer, Seen
  <2>2. QED BY <2>1 DEF Host!Next
<1>6. CASE o \in Failures /\ d = None
  <2>1. Host!Answer(r)
    BY <1>1, <1>2, <1>6 DEF Host!Answer, Failures, Host!Failures
  <2>2. QED BY <2>1 DEF Host!Next
<1>7. QED BY <1>4, <1>5, <1>6

\* An authorized request gets its final result.
LEMMA FinishMaps ==
    ASSUME HostInv, NEW r \in Requests, Authorized(r), NEW o,
           Settle(r, o, result[r].cand, result[r].policy),
           UNCHANGED <<req, marker, active, projection, selections, applied>>,
           \/ o \in {"PROMOTED", "UNCHANGED"} /\ result[r].cand \in Seen
           \/ o \in Failures
    PROVE  Host!Next
<1>1. PICK d, q : d = result[r].cand /\ q = result[r].policy /\ Settle(r, o, d, q)
  OBVIOUS
<1>2. Host!Settle(r, o, d)
  BY <1>1, SettleMaps
<1>3. [outcome |-> result[r].outcome, cand |-> result[r].cand].outcome = "CANDIDATE_READY"
  BY DEF Authorized
<1>4. [outcome |-> result[r].outcome, cand |-> result[r].cand].cand = d
  BY <1>1
<1>5. Host!Finish(r)
  <2>1. CASE o \in {"PROMOTED", "UNCHANGED"} /\ d \in Seen
    BY <1>2, <1>3, <1>4, <2>1 DEF Host!Finish, Host!Settle, Authorized, Seen
  <2>2. CASE o \in Failures
    BY <1>2, <1>3, <1>4, <2>2 DEF Host!Finish, Host!Settle, Authorized, Failures, Host!Failures
  <2>3. QED BY <1>1, <2>1, <2>2
<1>6. QED BY <1>5 DEF Host!Next

\* active.json is replaced by a transaction of somebody else than the processor
\* or by a rollback.
LEMMA ChooseMaps ==
    ASSUME HostInv, NEW t, NEW w, t.cur \in Selected, ReplaceActive(t, w),
           UNCHANGED <<req, result, marker, projection, applied>>
    PROVE  Host!Next
<1>1. t.cur # None /\ t.cur.dep \in Deployments
  BY StoreAssumption DEF Selected
<1>2. DepOf(active.cur)' = t.cur.dep
  BY <1>1 DEF ReplaceActive, DepOf
<1>3. Seen' = Seen \union {t.cur.dep}
  <2> DEFINE y == [dep |-> t.cur.dep, at |-> t.cur.at, way |-> w, over |-> DepOf(active.cur)]
  <2>1. selections' = selections \union {y} /\ y.dep = t.cur.dep
    BY DEF ReplaceActive
  <2> HIDE DEF y
  <2>2. QED BY <2>1 DEF Seen
<1>4. Host!Choose(t.cur.dep)
  BY <1>2, <1>3 DEF Host!Choose, Seen
<1>5. t.cur.dep \in Host!Candidates
  BY <1>1, ProcessorAssumption DEF Host!Candidates, Releases
<1>6. QED BY <1>4, <1>5 DEF Host!Next

\* The projection is written.
LEMMA ShowMaps ==
    ASSUME HostInv, NEW x, x # None => WasSelected(x), projection' = x,
           UNCHANGED <<req, result, marker, active, selections, applied>>
    PROVE  Host!Next
<1>1. DepOf(x) \in Seen \union {None}
  BY DEF WasSelected, DepOf, Seen
<1>2. DepOf(projection)' = DepOf(x)
  BY DEF DepOf
<1>3. Host!Show(DepOf(x))
  BY <1>1, <1>2 DEF Host!Show, Seen
<1>4. QED BY <1>1, <1>3 DEF Host!Next, Seen

\* A step of the store that leaves the queue alone: an operator's selection,
\* a rollback, or a publication of the projection.
LEMMA StoreMaps ==
    ASSUME HostInv, NEW D \in SUBSET Deployments, StoreStep(D),
           UNCHANGED <<req, result, marker, applied>>
    PROVE  [Host!Next]_(Host!hostVars)
<1>1. UNCHANGED <<active, projection, selections>> => UNCHANGED Host!hostVars
  BY DEF Host!hostVars, DepOf
<1>2. CASE UNCHANGED storeVars
  BY <1>1, <1>2 DEF storeVars, durableVars
<1>3. ASSUME NEW a \in Actors, Acts(a, D)
      PROVE  [Host!Next]_(Host!hostVars)
  <2>1. TxnOK(txn[a]) /\ txn[a] \in Txns /\ Inv /\ ProvenanceInv
    BY DEF HostInv, StoreInv, Inv, TxnInv, TypeOK
  <2>2. CASE WriteActive(a)
    <3>1. txn[a].target.cur \in Selected
      BY <2>1, <2>2 DEF WriteActive, TxnOK, Txns, States
    <3>2. PICK t : t = txn[a].target /\ ReplaceActive(t, "promote")
      BY <2>2 DEF WriteActive
    <3>3. QED BY <2>2, <3>1, <3>2, ChooseMaps DEF WriteActive
  <2>3. CASE FinishSelect(a)
    <3>1. CASE ReplaceActive(journal.target, "rollback")
      <4>1. journal # None /\ journal \in Journals
        BY <2>1, <2>3 DEF FinishSelect, TxnOK, Inv, TypeOK
      <4>2. journal.target.cur \in Selected
        BY <2>1, <4>1 DEF Inv, JournalInv, Journals, States
      <4>3. PICK t : t = journal.target /\ ReplaceActive(t, "rollback")
        BY <3>1
      <4>4. QED BY <2>3, <4>2, <4>3, ChooseMaps DEF FinishSelect
    <3>2. QED BY <1>1, <2>3, <3>1 DEF FinishSelect
  <2>4. CASE WriteProjection(a) \/ PublishWrite(a)
    <3>1. txn[a].target.cur # None => WasSelected(txn[a].target.cur)
      BY <2>1, <2>4 DEF WriteProjection, PublishWrite, TxnOK, ProvenanceInv
    <3>2. PICK x : x = txn[a].target.cur /\ projection' = x
      BY <2>4 DEF WriteProjection, PublishWrite
    <3>3. UNCHANGED <<active, selections>>
      BY <2>4 DEF WriteProjection, PublishWrite
    <3>4. x # None => WasSelected(x)
      BY <3>1, <3>2 DEF WasSelected
    <3>5. QED BY <3>2, <3>3, <3>4, ShowMaps
  <2>5. CASE ~(WriteActive(a) \/ FinishSelect(a) \/ WriteProjection(a) \/ PublishWrite(a))
    <3>1. UNCHANGED <<active, projection, selections>>
      BY <1>3, <2>5 DEF Acts, Answers, Leaves, RebuildBegin, RebuildEnd, PromoteUnchanged,
         PromoteSelect, RollbackBegin, FinishPending, Enter, PublishRead, WriteJournal,
         ClearJournal, CreateHistory, WriteHistory, durableVars
    <3>2. QED BY <1>1, <3>1
  <2>6. QED BY <2>2, <2>3, <2>4, <2>5
<1>4. QED BY <1>2, <1>3 DEF StoreStep

\* The processor replaces active.json for the request at hand.
LEMMA ApplyMaps ==
    ASSUME HostInv, WorkInStore, txn[Processor].phase = "active"
    PROVE  Host!Next
<1> DEFINE t == txn[Processor].target
           x == [req |-> proc.work, at |-> t.cur.at, dep |-> t.cur.dep,
                 over |-> DepOf(active.cur), policy |-> proc.policy]
           y == [dep |-> t.cur.dep, at |-> t.cur.at, way |-> "promote", over |-> DepOf(active.cur)]
<1>1. Processor \in Actors /\ txn \in [Actors -> Txns]
  BY ProcessorFacts
<1>2. /\ WriteActive(Processor) /\ applied' = applied \union {x}
      /\ UNCHANGED <<req, result, marker, projection>>
  BY DEF WorkInStore, Step, WriteActive, WriteJournal, FinishSelect, ClearJournal, CreateHistory,
         WriteHistory, WriteProjection, Release, PublishWrite, queueVars
<1>3. /\ proc.pc = "promoting" /\ Unapplied(proc.work)
      /\ t.cur.dep = result[proc.work].cand /\ DepOf(t.prev) = req[proc.work].expected
  BY DEF HostInv, StoreCallInv, CallOK
<1>4. /\ proc.work \in Requests /\ proc.work \in marker
      /\ result[proc.work].outcome = "CANDIDATE_READY"
      /\ result[proc.work].cand \in Deployments
  BY <1>3, CandidateAtHand
<1>5. t.cur # None /\ t.prev = active.cur
  BY <1>1 DEF HostInv, StoreInv, Inv, TxnInv, TxnOK
<1>6. active' = t /\ selections' = selections \union {y}
  BY <1>2 DEF WriteActive, ReplaceActive
<1>7. x.req = proc.work /\ y.dep = t.cur.dep
  OBVIOUS
<1> HIDE DEF x, y
<1>8. PICK r \in Requests, d \in Deployments : r = proc.work /\ d = result[r].cand
  BY <1>4
<1>9. Seen' = Seen \union {d} /\ DepOf(active.cur)' = d
  BY <1>3, <1>5, <1>6, <1>7, <1>8 DEF Seen, DepOf
<1>10. /\ {z.req : z \in applied}' = {z.req : z \in applied} \union {r}
       /\ r \notin {z.req : z \in applied}
  BY <1>2, <1>3, <1>7, <1>8 DEF Unapplied
<1>11. DepOf(active.cur) = req[r].expected
  BY <1>3, <1>5, <1>8
<1>12. Host!Apply(r)
  BY <1>2, <1>4, <1>8, <1>9, <1>10, <1>11 DEF Host!Apply, Seen
<1>13. QED BY <1>12 DEF Host!Next

\* The receiver: a request is queued, or its commit is authorized.
LEMMA ReceiverMaps ==
    ASSUME HostInv,
           \/ \E r \in Requests, s \in Snapshots, rel \in Releases :
                 \E seen \in {None} \union {x.dep : x \in selections} : Submit(r, s, rel, seen)
           \/ \E r \in Requests : Authorize(r)
    PROVE  Host!Next
<1>1. UNCHANGED <<result, active, projection, selections, applied>>
  BY DEF Submit, Authorize, storeVars, durableVars
<1>2. ASSUME NEW r \in Requests, Authorize(r)
      PROVE  Host!Next
  <2>1. [outcome |-> result[r].outcome, cand |-> result[r].cand].outcome = "CANDIDATE_READY"
    BY <1>2 DEF Authorize
  <2>2. Host!Authorize(r)
    BY <1>1, <1>2, <2>1 DEF Authorize, Host!Authorize
  <2>3. QED BY <2>2 DEF Host!Next
<1>3. ASSUME NEW r \in Requests, NEW s \in Snapshots, NEW rel \in Releases,
             NEW seen \in {None} \union {x.dep : x \in selections}, Submit(r, s, rel, seen)
      PROVE  Host!Next
  <2> DEFINE b == [snap |-> s, rel |-> rel, expected |-> seen]
  <2>1. /\ req[r] = None /\ req' = [req EXCEPT ![r] = b] /\ UNCHANGED marker
        /\ seen # None => <<seen.snap, seen.rel>> # <<s, rel>>
    BY <1>3 DEF Submit
  <2>2. b \in Host!Bodies
    BY <2>1 DEF Host!Bodies
  <2> HIDE DEF b
  <2>3. Host!Enqueue(r, b)
    BY <1>1, <2>1 DEF Host!Enqueue
  <2>4. QED BY <2>2, <2>3 DEF Host!Next
<1>4. QED BY <1>2, <1>3

\* The processor writes a result, of a submission or of a commit.
LEMMA ResultMaps ==
    ASSUME HostInv, ~UNCHANGED result,
           \/ \E r \in Requests : RejectPayload(r) \/ RejectRelease(r) \/ RefuseCommit(r)
           \/ Built \/ EvaluationFails \/ BindPolicy \/ WriteReady \/ Applied \/ Repaired
    PROVE  Host!Next
<1>1. UNCHANGED <<req, marker, active, projection, selections, applied>>
  BY DEF RejectPayload, RejectRelease, RefuseSubmission, RefuseCommit, Built, EvaluationFails,
         BindPolicy, WriteReady, Applied, Repaired, Return, storeVars, durableVars
<1>2. ASSUME NEW r \in Requests, RejectPayload(r) \/ RejectRelease(r)
      PROVE  Host!Next
  <2>1. Open(r)
    BY <1>2 DEF RejectPayload, RejectRelease, RefuseSubmission, At, HostInv, WorkInv, Submitting
  <2>2. PICK o \in Failures : Settle(r, o, None, None)
    BY <1>2 DEF RejectPayload, RejectRelease, RefuseSubmission, Failures
  <2>3. QED BY <1>1, <2>1, <2>2, AnswerMaps
<1>3. CASE Built \/ EvaluationFails \/ BindPolicy \/ WriteReady
  <2>1. PICK r \in Requests : r = proc.work /\ Open(r)
    BY <1>3, RequestAtHand DEF Built, EvaluationFails, BindPolicy, WriteReady, At, Open
  <2>2. ASSUME NEW o \in Failures, Settle(proc.work, o, None, None)
        PROVE  Host!Next
    BY <1>1, <2>1, <2>2, AnswerMaps
  <2>3. CASE Built
    <3>1. CASE /\ active.cur # None /\ active.cur.dep.snap = req[proc.work].snap
               /\ Settle(proc.work, "UNCHANGED", active.cur.dep, proc.policy)
      <4>1. PICK d, q : d = active.cur.dep /\ q = proc.policy /\ Settle(r, "UNCHANGED", d, q)
        BY <2>1, <3>1
      <4>2. d \in Seen /\ d.snap = req[r].snap
        BY <2>1, <3>1, <4>1 DEF HostInv, StoreInv, ProvenanceInv, WasSelected, Seen
      <4>3. QED BY <1>1, <2>1, <4>1, <4>2, AnswerMaps
    <3>2. QED BY <2>2, <2>3, <3>1 DEF Built, Failures
  <2>4. CASE EvaluationFails \/ BindPolicy
    BY <2>2, <2>4 DEF EvaluationFails, BindPolicy, Failures
  <2>5. CASE WriteReady
    <3>1. PICK d, q : d = proc.made /\ q = proc.policy /\ Settle(r, "CANDIDATE_READY", d, q)
      BY <2>1, <2>5 DEF WriteReady
    <3>2. MadeFor(d, r)
      BY <2>1, <2>5, <3>1 DEF WriteReady, At, HostInv, WorkInv
    <3>3. QED BY <1>1, <2>1, <3>1, <3>2, AnswerMaps
  <2>6. QED BY <1>3, <2>3, <2>4, <2>5
<1>4. ASSUME NEW r \in Requests, RefuseCommit(r)
      PROVE  Host!Next
  <2>1. Authorized(r) /\ "PROMOTION_CONFLICT" \in Failures
    BY <1>4 DEF RefuseCommit, At, HostInv, WorkInv, Committing, Failures
  <2>2. QED BY <1>1, <1>4, <2>1, FinishMaps DEF RefuseCommit
<1>5. CASE Applied \/ Repaired
  <2>1. PICK r \in Requests : r = proc.work /\ Authorized(r)
    BY <1>5, CandidateAtHand DEF Applied, Repaired, At, Authorized
  <2>2. ASSUME NEW o, SettleCommit(o),
               \/ o \in {"PROMOTED", "UNCHANGED"} /\ result[proc.work].cand \in Seen
               \/ o \in Failures
        PROVE  Host!Next
    BY <1>1, <2>1, <2>2, FinishMaps DEF SettleCommit
  <2>3. CASE Applied
    <3>1. /\ proc.pc = "promoting" /\ reply[Processor] # "ioerror" /\ reply[Processor] # "none"
          /\ SettleCommit(OutcomeOf(reply[Processor]))
      BY <2>3 DEF Applied, At, Returned
    <3>2. /\ reply[Processor] \in {"promoted", "unchanged", "conflict", "refused"}
          /\ reply[Processor] \in {"promoted", "unchanged"} => result[proc.work].cand \in Seen
      BY <3>1 DEF HostInv, StoreCallInv, CallOK
    <3>3. PICK o : o = OutcomeOf(reply[Processor]) /\ SettleCommit(o)
      BY <3>1
    <3>4. \/ o \in {"PROMOTED", "UNCHANGED"} /\ result[proc.work].cand \in Seen
          \/ o \in Failures
      BY <3>2, <3>3 DEF OutcomeOf, Failures
    <3>5. QED BY <2>2, <3>3, <3>4
  <2>4. CASE Repaired
    <3>1. SettleCommit("PROMOTED") /\ result[proc.work].cand \in Seen
      BY <2>4 DEF Repaired, At, HostInv, WorkInv
    <3>2. QED BY <2>2, <3>1
  <2>5. QED BY <1>5, <2>3, <2>4
<1>6. QED BY <1>2, <1>3, <1>4, <1>5

\* Every step of the host is one of PublicationHost, or invisible to a publisher.
LEMMA HostMaps ==
    ASSUME HostInv, [NextHost]_vars
    PROVE  [Host!Next]_(Host!hostVars)
<1>1. PICK V : V = vouched
  OBVIOUS
<1>2. StoreStep(V) /\ V \in SUBSET Deployments
  BY <1>1, HostStoreStep DEF HostInv, StoreInv, EvaluationInv, Inv, TypeOK
<1>3. CASE UNCHANGED <<req, result, marker, applied>>
  BY <1>2, <1>3, StoreMaps
<1>4. CASE \/ \E r \in Requests, s \in Snapshots, rel \in Releases :
                 \E seen \in {None} \union {x.dep : x \in selections} : Submit(r, s, rel, seen)
           \/ \E r \in Requests : Authorize(r)
  BY <1>4, ReceiverMaps
<1>5. CASE WorkInStore /\ txn[Processor].phase = "active"
  BY <1>5, ApplyMaps
<1>6. CASE \/ \E r \in Requests : RejectPayload(r) \/ RejectRelease(r) \/ RefuseCommit(r)
           \/ Built \/ EvaluationFails \/ BindPolicy \/ WriteReady \/ Applied \/ Repaired
  <2>1. UNCHANGED <<req, marker, applied>>
    BY <1>6 DEF RejectPayload, RejectRelease, RefuseSubmission, RefuseCommit, Built,
       EvaluationFails, BindPolicy, WriteReady, Applied, Repaired
  <2>2. QED BY <1>3, <1>6, <2>1, ResultMaps
<1>7. CASE ~UNCHANGED <<req, result, marker, applied>>
  <2>1. CASE ProcessorStep
    BY <1>5, <1>6, <1>7, <2>1 DEF ProcessorStep, StartRun, Recover, Recovered, Publish,
       Published, BuildSubmission, FinishBuild, Evaluate, ListCommits, BeginCommit, ApplyCommit,
       RepairCommit, Announced, ListDone, EndRun, WorkInStore, queueVars
  <2>2. CASE ProcessorFault
    BY <1>7, <2>2 DEF ProcessorFault, queueVars
  <2>3. CASE ~ProcessorStep /\ ~ProcessorFault
    BY <1>4, <1>7, <2>3 DEF NextHost, OperatorCommand, OperatorStep, OperatorFault, Upgrade,
       vars, queueVars
  <2>4. QED BY <2>1, <2>2, <2>3
<1>8. QED BY <1>3, <1>7

\* The host implements what the publisher relies on: every step of the
\* processor, of an operator, of a crash or of an upgrade is a step of
\* PublicationHost or changes nothing a publisher can see.
THEOREM ProcessorImplementsHost == SpecHost => ImplementsHost
<1>1. InitHost => Host!InitHost
  BY DEF InitHost, Init, NoResult, empty_state, DepOf, Host!InitHost, Host!NoResult
<1>2. HostInv /\ [NextHost]_vars => [Host!Next]_(Host!hostVars)
  BY HostMaps
<1>3. QED BY <1>1, <1>2, HostInvariant, PTL DEF SpecHost, ImplementsHost, Host!Spec
=============================================================================
