--------------------------- MODULE RetentionProofs ---------------------------
(***************************************************************************)
(* Proofs about Retention for every number of operators, requests,         *)
(* snapshots and runs, every Keep and every bound. PlanInv is the          *)
(* inductive invariant: the host's own (RemoteProcessorProofs), the lock   *)
(* and the memory of the planner, what the processor left behind           *)
(* (StoredInv), what the planner knows after each directory it has read    *)
(* (ReadInv), and why what it listed stays out of use (TimeInv, UnusedInv).*)
(***************************************************************************)
EXTENDS Retention, RemoteProcessorProofs, FiniteSetTheorems

AfterIncoming == {"commits", "journals", "store", "orphans", "pins", "decide"}

InProgress == {"results", "incoming"} \union AfterIncoming

PlanMemory ==
    [pc : {"off", "done"} \union InProgress, final : SUBSET Requests, deps : SUBSET Deployments,
     snaps : SUBSET Snapshots, lost : SUBSET Deployments, blocked : BOOLEAN,
     remove : SUBSET Deployments, drop : SUBSET Snapshots, aged : SUBSET Requests,
     live : SUBSET Deployments, asked : SUBSET Requests, at : Nat]

\* The planner is in no transaction of its own; it holds the lock while it
\* reads; it lists nothing before it has decided.
PlannerInv ==
    /\ plan \in PlanMemory
    /\ txn[Planner].phase = "idle"
    /\ lock = Planner <=> plan.pc \in InProgress
    /\ plan.pc # "done" => plan.remove = {} /\ plan.drop = {}
    /\ plan.remove \subseteq builds /\ plan.drop \subseteq snaps /\ plan.aged \subseteq failed

\* The snapshot of a build, and of one that is being made, is stored.
StoredInv ==
    /\ snaps \subseteq Snapshots /\ failed \subseteq Requests
    /\ SnapsOf(builds) \subseteq snaps
    /\ proc.pc = "building" => req[proc.work].snap \in snaps

\* Request r has a candidate of its own, which waits for its commit or failed.
Evidence(r) == /\ result[r].cand # None
               /\ result[r].outcome \in Failures \union {"CANDIDATE_READY"}

CandidateInv == \A r \in Requests : Evidence(r) => result[r].cand.snap = req[r].snap

\* The processor has a build for the request at hand, without a result yet.
HasMade == \/ proc.pc \in {"evaluate", "bind", "ready"}
           \/ proc.pc = "building"
              /\ (txn[Processor].phase = "release" \/ reply[Processor] = "built")

\* What the planner knows: final requests stay final, with their candidates
\* in lost; after the queue is read, the snapshot of every other request that
\* has a build, or was queued before, is referenced.
ReadInv ==
    /\ \A r \in plan.asked : req[r] # None
    /\ plan.pc \in {"incoming"} \union AfterIncoming =>
         \A r \in plan.final : Settled(r) /\ (Evidence(r) => result[r].cand \in plan.lost)
    /\ plan.pc \in AfterIncoming =>
         /\ \A r \in Requests : Evidence(r) => \/ result[r].cand \in plan.lost
                                               \/ result[r].cand.snap \in plan.snaps
         /\ \A r \in plan.asked \ plan.final : /\ req[r].snap \in plan.snaps
                                               /\ req[r].expected \in plan.deps \union {None}
         /\ HasMade => proc.made.snap \in plan.snaps

\* Selections are made in the order of their times, and none is in the future.
TimeInv ==
    /\ \A s \in selections : active.cur # None /\ s.at <= active.cur.at
    /\ \A x \in applied : active.cur # None /\ x.at <= active.cur.at

\* An operator promoted d anew after the plan and not after time t.
Excused(d, t) ==
    \E s \in selections : /\ s.dep = d /\ plan.at < s.at /\ s.at <= t
                          /\ s.way = "promote" /\ s.at \notin {x.at : x \in applied}

\* What was listed is selected, or kept as the previous deployment, only if it
\* was promoted anew, and is no candidate of an open request.
UnusedInv ==
    /\ plan.at <= clock
    /\ plan.pc = "done" => \A a \in Actors :
           txn[a].phase = "active" => txn[a].target.cur.at > plan.at
    /\ active.cur # None /\ active.cur.dep \in plan.remove => Excused(active.cur.dep, active.cur.at)
    /\ active.prev # None /\ active.prev.dep \in plan.remove =>
           active.cur # None /\ Excused(active.prev.dep, active.cur.at)
    /\ \A r \in Requests : result[r].outcome = "CANDIDATE_READY" => result[r].cand \notin plan.remove
    /\ HasMade => proc.made \notin plan.remove

PlanInv == /\ HostInv /\ PlannerInv /\ StoredInv /\ CandidateInv /\ ReadInv /\ TimeInv
           /\ UnusedInv /\ PlannedStaysUnused


-----------------------------------------------------------------------------
(* The store while the planner holds its lock *)

\* A process neither takes nor loses the lock of another one.
LEMMA LockFrame ==
    ASSUME TypeOK, NEW D, NEW a \in Actors, Acts(a, D), NEW b \in Actors, b # a
    PROVE  lock' = b <=> lock = b
BY StoreAssumption DEF TypeOK, Acts, Answers, Leaves, Leave, RebuildBegin, RebuildEnd,
       PromoteUnchanged, PromoteSelect, RollbackBegin, FinishPending, Enter, PublishRead,
       WriteActive, WriteJournal, FinishSelect, ClearJournal, CreateHistory, WriteHistory,
       WriteProjection, PublishWrite, Goto

\* Nobody changes the files below the deployment lock of another process.
LEMMA Standstill ==
    ASSUME TypeOK, LockInv, NEW D, NEW a \in Actors, Acts(a, D), NEW b \in Actors, b # a, lock = b
    PROVE  UNCHANGED <<active, history, journal, builds, clock, selections>>
<1>1. txn[a].phase \in {"idle", "publish"} /\ lock # None
  BY Exclusion, StoreAssumption
<1>2. QED
  BY <1>1 DEF Acts, Answers, Leaves, RebuildBegin, RebuildEnd, PromoteUnchanged, PromoteSelect,
     RollbackBegin, FinishPending, Enter, PublishRead, WriteActive, WriteJournal, FinishSelect,
     ClearJournal, CreateHistory, WriteHistory, WriteProjection, PublishWrite, durableVars

\* d is selected at time t.
SelectsAt(d, t, way) ==
    \E e \in Deployments \union {None} :
        selections' = selections \union {[dep |-> d, at |-> t, way |-> way, over |-> e]}

\* How active.json changes: by a promotion, or a rollback to the previous
\* deployment, both at a new time.
Selects(a) ==
    /\ active' \in States /\ active'.cur \in Selected
    /\ active.cur # None => active.cur.at < active'.cur.at
    /\ active'.prev = active.cur
    /\ \/ /\ txn[a].phase = "active" /\ active' = txn[a].target
          /\ SelectsAt(active'.cur.dep, active'.cur.at, "promote")
       \/ /\ txn[a].phase = "select" /\ active.prev # None /\ active'.cur.dep = active.prev.dep
          /\ SelectsAt(active'.cur.dep, active'.cur.at, "rollback")

LEMMA SelectionFacts ==
    ASSUME Inv, NEW D, NEW a \in Actors, Acts(a, D)
    PROVE  /\ clock' \in Nat /\ clock <= clock'
           /\ UNCHANGED <<active, selections>> \/ Selects(a)
           /\ txn'[a].phase = "active" => txn'[a] = txn[a] \/ txn'[a].target.cur.at > clock
<1> USE StoreAssumption DEF Inv
<1>x. txn \in [Actors -> Txns] /\ clock \in Nat /\ DepOf(active.cur) \in Deployments \union {None}
  BY DEF TypeOK, DepOf, States, Selected
<1>1. clock' \in Nat /\ clock <= clock'
  BY <1>x DEF Acts, Answers, Leaves, RebuildBegin, RebuildEnd, PromoteUnchanged, PromoteSelect,
     RollbackBegin, FinishPending, Enter, PublishRead, WriteActive, WriteJournal, FinishSelect,
     ClearJournal, CreateHistory, WriteHistory, WriteProjection, PublishWrite, durableVars
<1>2. CASE WriteActive(a)
  <2>1. PICK t : t = txn[a].target /\ ReplaceActive(t, "promote")
    BY <1>2 DEF WriteActive
  <2>2. /\ t \in States /\ t.cur \in Selected /\ t.prev = active.cur
        /\ active.cur # None => active.cur.at < t.cur.at
    BY <1>2, <1>x, <2>1 DEF WriteActive, TxnInv, TxnOK, FreshTime, Txns, States
  <2>3. active' = t /\ SelectsAt(t.cur.dep, t.cur.at, "promote")
    BY <1>x, <2>1 DEF ReplaceActive, SelectsAt
  <2>4. Selects(a)
    BY <1>2, <2>1, <2>2, <2>3 DEF Selects, WriteActive, SelectsAt
  <2>5. txn'[a].phase # "active"
    BY <1>2, <1>x DEF WriteActive, Goto, Txns
  <2>6. QED BY <1>1, <2>4, <2>5
<1>3. CASE FinishSelect(a)
  <2>1. journal # None /\ journal \in Journals /\ active \in {journal.source, journal.target}
    BY <1>3 DEF FinishSelect, TxnInv, TxnOK, TypeOK, JournalInv
  <2>2. ASSUME active = journal.source, ReplaceActive(journal.target, "rollback")
        PROVE  Selects(a)
    <3>1. PICK t : t = journal.target /\ ReplaceActive(t, "rollback")
      BY <2>2
    <3>2. /\ t \in States /\ t.cur \in Selected /\ t.prev = active.cur
          /\ active.cur # None => active.cur.at < t.cur.at
          /\ active.prev # None /\ t.cur.dep = active.prev.dep
      BY <2>1, <2>2, <3>1 DEF JournalInv, Journals, States
    <3>3. active' = t /\ SelectsAt(t.cur.dep, t.cur.at, "rollback")
      BY <1>x, <3>1 DEF ReplaceActive, SelectsAt
    <3>4. QED BY <1>3, <3>2, <3>3 DEF Selects, FinishSelect, SelectsAt
  <2>3. txn'[a].phase # "active"
    BY <1>3, <1>x, <2>1 DEF FinishSelect, Goto, Txns
  <2>4. QED BY <1>1, <1>3, <2>2, <2>3 DEF FinishSelect
<1>4. CASE \E d \in D, e \in Deployments \union {None} : PromoteSelect(a, d, e)
  <2>1. PICK d \in D, e \in Deployments \union {None} : PromoteSelect(a, d, e)
    BY <1>4
  <2>2. txn'[a].target.cur.at = clock + 1 /\ UNCHANGED <<active, selections>>
    BY <1>x, <2>1 DEF PromoteSelect, Enter, select_deployment, durableVars
  <2>3. QED BY <1>1, <1>x, <2>2
<1>5. CASE ~WriteActive(a) /\ ~FinishSelect(a)
           /\ ~\E d \in D, e \in Deployments \union {None} : PromoteSelect(a, d, e)
  <2>1. UNCHANGED <<active, selections>>
    BY <1>5 DEF Acts, Answers, Leaves, RebuildBegin, RebuildEnd, PromoteUnchanged, RollbackBegin,
       FinishPending, Enter, PublishRead, WriteJournal, ClearJournal, CreateHistory,
       WriteHistory, WriteProjection, PublishWrite, durableVars
  <2>2. txn'[a] = txn[a] \/ txn'[a].phase # "active"
    BY <1>5, <1>x DEF Acts, Answers, Leaves, Leave, RebuildBegin, RebuildEnd,
       PromoteUnchanged, RollbackBegin, FinishPending, Enter, PublishRead, ClearJournal,
       CreateHistory, WriteHistory, WriteJournal, WriteProjection, PublishWrite, Goto, NoTxn, Txns
  <2>3. QED BY <1>1, <2>1, <2>2
<1>6. QED BY <1>2, <1>3, <1>4, <1>5


-----------------------------------------------------------------------------
(* The steps of the host around the planner *)

\* What the publisher and the operators do.
Outside ==
    \/ \E r \in Requests, s \in Snapshots, rel \in Releases : Submit(r, s, rel, DepOf(projection))
    \/ \E r \in Requests : Authorize(r)
    \/ \E o \in Operators \ {Planner} : OperatorCommand(o) \/ OperatorStep(o) \/ OperatorFault(o)
    \/ UNCHANGED vars

HostMoves == ProcessorStep \/ ProcessorFault \/ Outside

LEMMA MovesAreSteps ==
    ASSUME HostInv, HostMoves
    PROVE  [NextHost]_vars
<1>1. DepOf(projection) \in {None} \union {x.dep : x \in selections}
  BY DEF HostInv, StoreInv, ProvenanceInv, WasSelected, DepOf
<1>2. ASSUME NEW r \in Requests, NEW s \in Snapshots, NEW rel \in Releases,
             Submit(r, s, rel, DepOf(projection))
      PROVE  NextHost
  <2>1. PICK d \in {None} \union {x.dep : x \in selections} : Submit(r, s, rel, d)
    BY <1>1, <1>2
  <2>2. QED BY <2>1 DEF NextHost
<1>3. QED BY <1>2 DEF HostMoves, Outside, NextHost

\* The planner itself is not the one that works on the store.
LEMMA MovesAct ==
    ASSUME HostInv, HostMoves, NEW V, V = vouched
    PROVE  UNCHANGED storeVars \/ \E a \in Actors \ {Planner} : Acts(a, V)
<1>1. /\ TypeOK /\ V \in SUBSET Deployments
      /\ Processor \in Actors \ {Planner}
  BY ProcessorAssumption, RetentionAssumption DEF HostInv, StoreInv, EvaluationInv, Inv, TypeOK
<1>2. CASE ProcessorStep \/ ProcessorFault
  BY <1>1, <1>2, ProcessorOperates, StepCases
<1>3. ASSUME NEW o \in Operators \ {Planner},
             OperatorCommand(o) \/ OperatorStep(o) \/ OperatorFault(o)
      PROVE  UNCHANGED storeVars \/ \E a \in Actors \ {Planner} : Acts(a, V)
  <2>1. o \in Actors \ {Planner}
    BY DEF Operators
  <2>2. QED BY <1>1, <1>3, <2>1, OperatorOperates, StepCases
<1>4. QED BY <1>2, <1>3 DEF HostMoves, Outside, Submit, Authorize, vars

\* The lock of the planner keeps the deployment store as it is.
LEMMA AroundPlanner ==
    ASSUME HostInv, HostMoves
    PROVE  /\ HostInv' /\ Kept
           /\ lock' = Planner <=> lock = Planner
           /\ txn'[Planner] = txn[Planner]
           /\ lock = Planner => UNCHANGED <<active, history, journal, builds, clock, selections>>
<1>1. HostInv' /\ Kept
  BY MovesAreSteps, HostStep, StoreKept DEF Kept
<1>2. PICK V : V = vouched
  OBVIOUS
<1>3. Planner \in Actors /\ TypeOK /\ LockInv
  BY RetentionAssumption DEF HostInv, StoreInv, Inv
<1>4. CASE UNCHANGED storeVars
  BY <1>1, <1>4 DEF storeVars, durableVars
<1>5. ASSUME NEW a \in Actors \ {Planner}, Acts(a, V)
      PROVE  /\ lock' = Planner <=> lock = Planner
             /\ txn'[Planner] = txn[Planner]
             /\ lock = Planner => UNCHANGED <<active, history, journal, builds, clock, selections>>
  BY <1>3, <1>5, LockFrame, StoreFrame, Standstill
<1>6. QED BY <1>1, <1>2, <1>4, <1>5, MovesAct

\* How results change: a request without one gets its first, and one whose
\* commit is authorized its last.
LEMMA ResultStep ==
    ASSUME HostInv, HostMoves
    PROVE  /\ \A r \in Requests : req[r] # None => req'[r] = req[r]
           /\ \A r \in Requests :
                 \/ result'[r] = result[r]
                 \/ /\ Open(r) /\ result'[r].outcome \in Failures \union {"UNCHANGED"}
                    /\ result'[r].outcome \in Failures => result'[r].cand = None
                 \/ /\ Open(r) /\ result'[r].outcome = "CANDIDATE_READY"
                    /\ result'[r].cand = proc.made /\ r = proc.work /\ proc.pc = "ready"
                 \/ /\ Authorized(r) /\ result'[r].cand = result[r].cand
                    /\ result'[r].outcome \in Outcomes \ {"CANDIDATE_READY"}
<1>0. HostTypes /\ proc \in Memory
  BY DEF HostInv, HostTypes
<1>1. \A r \in Requests : req[r] # None => req'[r] = req[r]
  BY <1>0 DEF HostTypes, HostMoves, Outside, ProcessorStep, ProcessorFault, Submit, Authorize,
     OperatorCommand, OperatorStep, OperatorFault, vars, queueVars, StartRun, Recover, Recovered,
     Publish, Published, RejectPayload, RejectRelease, RefuseSubmission, BuildSubmission,
     FinishBuild, Built, EvaluationFails, Evaluate, BindPolicy, WriteReady, ListCommits,
     RefuseCommit, BeginCommit, ApplyCommit, Applied, RepairCommit, Repaired, Announced, ListDone,
     EndRun, WorkInStore
<1> DEFINE
      First(r) == /\ Open(r) /\ result'[r].outcome \in Failures \union {"UNCHANGED"}
                  /\ result'[r].outcome \in Failures => result'[r].cand = None
      Waits(r) == /\ Open(r) /\ result'[r].outcome = "CANDIDATE_READY"
                  /\ result'[r].cand = proc.made /\ r = proc.work /\ proc.pc = "ready"
      Last(r) == /\ Authorized(r) /\ result'[r].cand = result[r].cand
                 /\ result'[r].outcome \in Outcomes \ {"CANDIDATE_READY"}
      Goal == \A r \in Requests : result'[r] = result[r] \/ First(r) \/ Waits(r) \/ Last(r)
<1> SUFFICES Goal
  BY <1>1
<1>2. ASSUME NEW r \in Requests, Open(r), NEW o \in Failures, Settle(r, o, None, None)
      PROVE  Goal
  <2>1. o \in Outcomes
    BY DEF Outcomes
  <2>2. PICK d, q : d = None /\ q = None /\ Settle(r, o, d, q)
    BY <1>2
  <2>3. /\ result'[r].outcome = o /\ result'[r].cand = None
        /\ \A x \in Requests \ {r} : result'[x] = result[x]
    BY <1>0, <2>1, <2>2, SettleFacts
  <2>4. First(r)
    BY <1>2, <2>3
  <2>5. QED BY <2>3, <2>4
<1>3. ASSUME NEW r \in Requests, Authorized(r), NEW o \in Outcomes \ {"CANDIDATE_READY"},
             Settle(r, o, result[r].cand, result[r].policy)
      PROVE  Goal
  <2>1. PICK d \in Deployments \union {None}, q \in Policies \union {None} :
            d = result[r].cand /\ Settle(r, o, d, q)
    BY <1>0, <1>3 DEF HostTypes, ResultFiles
  <2>2. /\ result'[r].outcome = o /\ result'[r].cand = result[r].cand
        /\ \A x \in Requests \ {r} : result'[x] = result[x]
    BY <1>0, <2>1, SettleFacts
  <2>3. Last(r)
    BY <1>3, <2>2
  <2>4. QED BY <2>2, <2>3
<1>4. ASSUME NEW r \in Requests, RejectPayload(r) \/ RejectRelease(r)
      PROVE  Goal
  <2>1. Open(r)
    BY <1>4 DEF RejectPayload, RejectRelease, RefuseSubmission, At, HostInv, WorkInv, Submitting
  <2>2. QED BY <1>2, <1>4, <2>1 DEF RejectPayload, RejectRelease, RefuseSubmission, Failures
<1>5. CASE Built \/ EvaluationFails \/ BindPolicy \/ WriteReady
  <2>1. PICK r \in Requests : r = proc.work /\ Open(r)
    BY <1>5, RequestAtHand DEF Built, EvaluationFails, BindPolicy, WriteReady, At, Open
  <2>2. CASE Built
    <3>1. CASE active.cur # None /\ Settle(proc.work, "UNCHANGED", active.cur.dep, proc.policy)
      <4>1. PICK d \in Deployments, q \in Policies \union {None} : Settle(r, "UNCHANGED", d, q)
        BY <1>0, <2>1, <3>1 DEF HostInv, StoreInv, Inv, TypeOK, States, Selected, Memory
      <4>2. "UNCHANGED" \in Outcomes /\ "UNCHANGED" \notin Failures
        BY DEF Outcomes, Failures
      <4>3. QED BY <1>0, <2>1, <4>1, <4>2, SettleFacts
    <3>2. QED BY <1>2, <2>1, <2>2, <3>1 DEF Built, Failures
  <2>3. CASE EvaluationFails \/ BindPolicy
    BY <1>2, <2>1, <2>3 DEF EvaluationFails, BindPolicy, Failures
  <2>4. CASE WriteReady
    <3>1. proc.pc = "ready" /\ proc.made \in Deployments
      BY <2>4 DEF WriteReady, At, HostInv, WorkInv, MadeFor, StoreInv, Inv, TypeOK
    <3>2. PICK d \in Deployments, q \in Policies \union {None} :
              d = proc.made /\ Settle(r, "CANDIDATE_READY", d, q)
      BY <1>0, <2>1, <2>4, <3>1 DEF WriteReady, Memory
    <3>3. "CANDIDATE_READY" \in Outcomes
      BY DEF Outcomes
    <3>4. QED BY <1>0, <2>1, <3>1, <3>2, <3>3, SettleFacts
  <2>5. QED BY <1>5, <2>2, <2>3, <2>4
<1>6. ASSUME NEW r \in Requests, RefuseCommit(r)
      PROVE  Goal
  <2>1. Authorized(r) /\ "PROMOTION_CONFLICT" \in Outcomes \ {"CANDIDATE_READY"}
    BY <1>6 DEF RefuseCommit, At, HostInv, WorkInv, Committing, Outcomes, Failures
  <2>2. QED BY <1>3, <1>6, <2>1 DEF RefuseCommit
<1>7. CASE Applied \/ Repaired
  <2>1. PICK r \in Requests : r = proc.work /\ Authorized(r)
    BY <1>7, CandidateAtHand DEF Applied, Repaired, At, Authorized
  <2>2. ASSUME NEW o \in Outcomes \ {"CANDIDATE_READY"}, SettleCommit(o)
        PROVE  Goal
    BY <1>3, <2>1, <2>2 DEF SettleCommit
  <2>3. CASE Applied
    <3>1. CASE SettleCommit(OutcomeOf(reply[Processor])) /\ reply[Processor] # "ioerror"
      <4>1. reply[Processor] \in {"promoted", "unchanged", "conflict", "refused"}
        BY <2>3, <3>1 DEF Applied, At, Returned, HostInv, StoreCallInv, CallOK
      <4>2. PICK o : o = OutcomeOf(reply[Processor]) /\ SettleCommit(o)
        BY <3>1
      <4>3. o \in Outcomes \ {"CANDIDATE_READY"}
        BY <4>1, <4>2 DEF OutcomeOf, Outcomes, Failures
      <4>4. QED BY <2>2, <4>2, <4>3
    <3>2. QED BY <2>3, <3>1 DEF Applied
  <2>4. CASE Repaired
    BY <2>2, <2>4 DEF Repaired, Outcomes
  <2>5. QED BY <1>7, <2>3, <2>4
<1>8. CASE UNCHANGED result
  BY <1>8
<1> HIDE DEF Goal
<1>9. QED
  BY <1>4, <1>5, <1>6, <1>7, <1>8 DEF HostMoves, Outside, ProcessorStep, ProcessorFault, Submit, Authorize,
     OperatorCommand, OperatorStep, OperatorFault, vars, queueVars, StartRun, Recover, Recovered,
     Publish, Published, BuildSubmission, FinishBuild, Evaluate, ListCommits, BeginCommit,
     ApplyCommit, RepairCommit, Announced, ListDone, EndRun, WorkInStore


\* Only the end of a build adds one, for the request at hand.
LEMMA BuildsStep ==
    ASSUME HostInv, HostMoves
    PROVE  \/ UNCHANGED builds
           \/ /\ proc.pc = "building" /\ txn[Processor].phase = "build"
              /\ \E d : builds' = builds \union {d} /\ d.snap = req[proc.work].snap
<1>1. CASE FinishBuild
  <2>1. CASE RebuildFails(Processor)
    BY <2>1 DEF RebuildFails, durableVars
  <2>2. ASSUME NEW d, d.snap = req[proc.work].snap, RebuildEnd(Processor, d)
        PROVE  txn[Processor].phase = "build" /\ builds' = builds \union {d}
    BY <2>2 DEF RebuildEnd
  <2>3. proc.pc = "building"
    BY <1>1 DEF FinishBuild, At
  <2>4. \A run : [snap |-> req[proc.work].snap, rel |-> proc.policy.rel, run |-> run].snap
                    = req[proc.work].snap
    OBVIOUS
  <2>5. QED BY <1>1, <2>1, <2>2, <2>3, <2>4 DEF FinishBuild
<1>2. CASE ProcessorStep /\ ~FinishBuild
  BY <1>2 DEF ProcessorStep, StartRun, Recover, Recovered, Publish, Published, RejectPayload,
     RejectRelease, RefuseSubmission, BuildSubmission, Built, EvaluationFails, Evaluate,
     BindPolicy, WriteReady, ListCommits, RefuseCommit, BeginCommit, ApplyCommit, Applied,
     RepairCommit, Repaired, Announced, ListDone, EndRun, WorkInStore, storeVars, durableVars,
     recover_pending_rollback, LockBusy, Answer, FinishPending, Enter, Return, PublishRead,
     RebuildUnchanged, RebuildBegin, PromoteEvaluated, Promote, PromoteRefused, PromoteConflict,
     PromoteUnchanged, PromoteSelect, VerificationFails, Repair, Step, WriteActive, WriteJournal,
     FinishSelect, ClearJournal, CreateHistory, WriteHistory, WriteProjection, Release, PublishWrite
<1>3. CASE ProcessorFault
  BY <1>3 DEF ProcessorFault, IOFault, Stop, durableVars
<1>4. ASSUME NEW o \in Operators \ {Planner},
             OperatorCommand(o) \/ OperatorStep(o) \/ OperatorFault(o)
      PROVE  UNCHANGED builds
  BY <1>4 DEF OperatorCommand, OperatorStep, OperatorFault, storeVars, durableVars, Rollback,
     RollbackRefused, RollbackBegin, FinishPending, LockBusy, Answer, Enter, VerificationFails,
     PromoteEvaluated, Promote, PromoteRefused, PromoteConflict, PromoteUnchanged, PromoteSelect,
     Return, PublishRead, Step, WriteActive, WriteJournal, FinishSelect, ClearJournal,
     CreateHistory, WriteHistory, WriteProjection, Release, PublishWrite, IOFault, Crash, Stop
<1>5. QED BY <1>1, <1>2, <1>3, <1>4 DEF HostMoves, Outside, Submit, Authorize, vars, storeVars, durableVars

\* The steps that lead to, or stay in, the middle of a submission.
LEMMA RunsOn ==
    ASSUME HostInv, ProcessorStep \/ ProcessorFault,
           proc'.pc \in {"building", "evaluate", "bind", "ready"}
    PROVE  \/ \E r \in Requests : BuildSubmission(r)
           \/ FinishBuild \/ Built \/ Evaluate \/ BindPolicy
           \/ (WorkInStore \/ IOFault(Processor)) /\ UNCHANGED proc
<1>1. proc \in Memory /\ proc.work \in Requests \union {None}
  BY DEF HostInv, HostTypes, Memory
<1>2. ASSUME \/ Abort
             \/ \E p \in {"recovering", "publish", "publishing", "announcing", "finishing",
                          "promoting", "repair", "repairing", "commits", "finish"} : Go(p)
             \/ \E loop \in {"submissions", "commits", "announce"}, r \in Requests \union {None} :
                  NextIn(loop, r)
      PROVE  FALSE
  <2>1. CASE Abort
    BY <2>1, AbortFacts
  <2>2. ASSUME NEW p, p \notin {"building", "evaluate", "bind", "ready"}, Go(p)
        PROVE  FALSE
    BY <1>1, <2>2 DEF Go, Memory
  <2>3. ASSUME NEW p \in {"submissions", "commits", "announce"}, NEW r, NextIn(p, r)
        PROVE  FALSE
    BY <1>1, <2>3 DEF NextIn, Memory
  <2>4. QED BY <1>2, <2>1, <2>2, <2>3
<1>3. ASSUME StartRun \/ Published \/ ListCommits \/ \E r \in Requests : BeginCommit(r)
      PROVE  FALSE
  <2>1. CASE StartRun
    BY <2>1 DEF StartRun, NoRun
  <2>2. CASE Published
    BY <1>1, <2>2, AbortFacts DEF Published, Memory
  <2>3. CASE ListCommits
    BY <1>1, <2>3 DEF ListCommits, Memory
  <2>4. CASE \E r \in Requests : BeginCommit(r)
    BY <1>1, <2>4 DEF BeginCommit, Memory
  <2>5. QED BY <1>3, <2>1, <2>2, <2>3, <2>4
<1>4. CASE \/ Recover \/ Recovered \/ Publish("publish", "publishing")
           \/ Publish("announce", "announcing") \/ Publish("finish", "finishing")
           \/ ApplyCommit \/ RepairCommit \/ Announced \/ ListDone \/ EndRun
  BY <1>2, <1>4 DEF Recover, Recovered, Publish, ApplyCommit, RepairCommit, Announced, ListDone,
     EndRun
<1>5. CASE \/ \E r \in Requests : RejectPayload(r) \/ RejectRelease(r) \/ RefuseCommit(r)
           \/ EvaluationFails \/ WriteReady
  BY <1>1, <1>2, <1>5 DEF RejectPayload, RejectRelease, RefuseSubmission, RefuseCommit,
     EvaluationFails, WriteReady
<1>6. CASE Applied \/ Repaired
  BY <1>1, <1>2, <1>6 DEF Applied, Repaired, SettleCommit
<1>7. CASE ProcessorFault
  BY <1>2, <1>7 DEF ProcessorFault
<1>8. CASE WorkInStore
  BY <1>8 DEF WorkInStore
<1>9. QED BY <1>3, <1>4, <1>5, <1>6, <1>7, <1>8 DEF ProcessorStep

\* The other processes leave the processor and its transaction alone.
LEMMA OthersKeepProcessor ==
    ASSUME HostInv, Outside
    PROVE  /\ UNCHANGED proc /\ txn'[Processor] = txn[Processor]
           /\ reply'[Processor] = reply[Processor]
<1>1. ASSUME NEW o \in Operators \ {Planner},
             OperatorCommand(o) \/ OperatorStep(o) \/ OperatorFault(o)
      PROVE  txn'[Processor] = txn[Processor] /\ reply'[Processor] = reply[Processor]
  <2>1. PICK V : V = vouched
    OBVIOUS
  <2>2. /\ TypeOK /\ V \in SUBSET Deployments /\ o \in Actors /\ o \in Operators /\ Processor # o
        /\ Processor \in Actors
    BY <2>1, ProcessorAssumption DEF HostInv, StoreInv, EvaluationInv, Inv, TypeOK, Operators
  <2>3. UNCHANGED storeVars \/ Operates(o, V)
    BY <1>1, <2>1, <2>2, OperatorOperates
  <2>4. QED BY <2>2, <2>3, StepCases, StoreFrame DEF storeVars
<1>2. QED BY <1>1 DEF Outside, Submit, Authorize, vars, storeVars, OperatorCommand, OperatorStep,
     OperatorFault

\* What the processor has made, it had made before, or makes now.
LEMMA MadeStep ==
    ASSUME HostInv, HostMoves, HasMade'
    PROVE  \/ HasMade /\ proc'.made = proc.made
           \/ txn[Processor].phase = "build" /\ proc'.made \notin builds
<1>1. /\ proc \in Memory /\ Processor \in Actors /\ txn \in [Actors -> Txns]
      /\ reply \in [Actors -> Replies]
  BY ProcessorFacts
<1>2. CASE Outside
  BY <1>2, OthersKeepProcessor DEF HasMade
<1>3. CASE FinishBuild
  <2>1. CASE RebuildFails(Processor) /\ UNCHANGED proc
    <3>1. txn'[Processor].phase = "idle" /\ reply'[Processor] = "refused"
      BY <1>1, <2>1 DEF RebuildFails, Leave, NoTxn
    <3>2. QED BY <1>3, <2>1, <3>1 DEF HasMade, FinishBuild, At
  <2>2. ASSUME NEW d, RebuildEnd(Processor, d), proc' = [proc EXCEPT !.made = d]
        PROVE  txn[Processor].phase = "build" /\ proc'.made \notin builds
    BY <1>1, <2>2 DEF RebuildEnd, Memory
  <2>3. QED BY <1>3, <2>1, <2>2 DEF FinishBuild
<1>4. ASSUME NEW r \in Requests, BuildSubmission(r)
      PROVE  FALSE
  <2>1. proc'.pc = "building"
    BY <1>1, <1>4 DEF BuildSubmission, Memory
  <2>2. txn'[Processor].phase \in {"idle", "build"} /\ reply'[Processor] # "built"
    <3>1. CASE Idle(Processor) /\ (LockBusy(Processor) \/ RebuildUnchanged(Processor))
      BY <1>1, <3>1 DEF Idle, LockBusy, RebuildUnchanged, Answer
    <3>2. CASE RebuildBegin(Processor)
      BY <1>1, <3>2 DEF RebuildBegin, Idle, Enter
    <3>3. QED BY <1>4, <3>1, <3>2 DEF BuildSubmission, RebuildUnchanged
  <2>3. QED BY <2>1, <2>2 DEF HasMade
<1>5. CASE Built \/ Evaluate \/ BindPolicy
  <2>1. ASSUME NEW p \in {"evaluate", "bind", "ready"}, Go(p)
        PROVE  proc'.made = proc.made
    BY <1>1, <2>1, GoFacts DEF Submitting
  <2>2. ASSUME NEW r, NextIn("submissions", r)
        PROVE  FALSE
    BY <1>1, <2>2 DEF NextIn, Memory, HasMade
  <2>3. QED BY <1>5, <2>1, <2>2 DEF Built, Evaluate, BindPolicy, At, HasMade
<1>6. CASE (WorkInStore \/ IOFault(Processor)) /\ UNCHANGED proc
  <2>1. CASE proc.pc = "building"
    <3>1. txn[Processor].phase \in {"idle", "build", "release"}
      BY <2>1 DEF HostInv, StoreCallInv, CallOK
    <3>2. txn[Processor].phase = "release"
      BY <1>6, <3>1 DEF WorkInStore, IOFault, Step, WriteActive, WriteJournal, FinishSelect,
         ClearJournal, CreateHistory, WriteHistory, WriteProjection, Release, PublishWrite
    <3>3. QED BY <1>6, <2>1, <3>2 DEF HasMade
  <2>2. QED BY <1>6, <2>1 DEF HasMade
<1>7. proc'.pc \in {"building", "evaluate", "bind", "ready"}
  BY DEF HasMade
<1>8. QED BY <1>2, <1>3, <1>4, <1>5, <1>6, <1>7, RunsOn DEF HostMoves

\* How the host selects: one process at a time, and what the processor
\* promotes is recorded as applied.
LEMMA MovesSelect ==
    ASSUME HostInv, HostMoves
    PROVE  /\ clock' \in Nat /\ clock <= clock'
           /\ \A b \in Actors : txn'[b].phase = "active" =>
                                    txn'[b] = txn[b] \/ txn'[b].target.cur.at > clock
           /\ \/ UNCHANGED <<active, selections, applied>>
              \/ \E a \in Actors : /\ Selects(a)
                                   /\ \/ UNCHANGED applied
                                      \/ /\ a = Processor
                                         /\ \E x : applied' = applied \union {x} /\ x.at = active'.cur.at
<1>1. PICK V : V = vouched
  OBVIOUS
<1>2. /\ Inv /\ TypeOK /\ clock \in Nat /\ Processor \in Actors /\ V \in SUBSET Deployments
  BY <1>1, ProcessorAssumption DEF HostInv, StoreInv, EvaluationInv, Inv, TypeOK
<1>3. ASSUME NEW a \in Actors, Acts(a, V)
      PROVE  /\ clock' \in Nat /\ clock <= clock'
             /\ \A b \in Actors : txn'[b].phase = "active" =>
                                    txn'[b] = txn[b] \/ txn'[b].target.cur.at > clock
             /\ UNCHANGED <<active, selections>> \/ Selects(a)
  <2>1. /\ clock' \in Nat /\ clock <= clock'
        /\ UNCHANGED <<active, selections>> \/ Selects(a)
        /\ txn'[a].phase = "active" => txn'[a] = txn[a] \/ txn'[a].target.cur.at > clock
    BY <1>2, <1>3, SelectionFacts
  <2>2. \A b \in Actors \ {a} : txn'[b] = txn[b]
    BY <1>2, <1>3, StoreFrame
  <2>3. QED BY <2>1, <2>2
<1>4. CASE UNCHANGED storeVars /\ UNCHANGED applied
  BY <1>2, <1>4 DEF storeVars, durableVars
<1>5. CASE UNCHANGED applied
  BY <1>1, <1>3, <1>4, <1>5, MovesAct
<1>6. CASE WorkInStore /\ txn[Processor].phase = "active"
  <2>1. Acts(Processor, V)
    <3>1. Operates(Processor, V)
      BY <1>6 DEF WorkInStore, Operates
    <3>2. QED BY <1>2, <3>1, StepCases
  <2>2. WriteActive(Processor)
    BY <1>6 DEF WorkInStore, Step, WriteActive, WriteJournal, FinishSelect, ClearJournal,
       CreateHistory, WriteHistory, WriteProjection, Release, PublishWrite
  <2>3. /\ active' = txn[Processor].target /\ txn[Processor].target.cur # None
        /\ txn[Processor].target.cur.at \in Nat
        /\ active.cur # None => active.cur.at < txn[Processor].target.cur.at /\ active.cur.at \in Nat
    BY <1>2, <1>6, <2>2 DEF Inv, TxnInv, TxnOK, FreshTime, WriteActive, ReplaceActive, TypeOK,
       States, Selected
  <2>4. ~UNCHANGED active
    BY <2>3
  <2>5. Selects(Processor)
    BY <1>2, <1>3, <2>1, <2>4
  <2>6. \E x : applied' = applied \union {x} /\ x.at = active'.cur.at
    <3> DEFINE x == [req |-> proc.work, at |-> txn[Processor].target.cur.at,
                     dep |-> txn[Processor].target.cur.dep, over |-> DepOf(active.cur),
                     policy |-> proc.policy]
    <3>1. applied' = applied \union {x} /\ x.at = active'.cur.at
      BY <1>6, <2>3 DEF WorkInStore
    <3>2. QED BY <3>1
  <2>7. QED BY <1>2, <1>3, <2>1, <2>5, <2>6
<1>7. UNCHANGED applied \/ (WorkInStore /\ txn[Processor].phase = "active")
  BY DEF HostMoves, Outside, ProcessorStep, ProcessorFault, Submit, Authorize, OperatorCommand,
     OperatorStep, OperatorFault, vars, StartRun, Recover, Recovered, Publish, Published,
     RejectPayload, RejectRelease, RefuseSubmission, BuildSubmission, FinishBuild, Built,
     EvaluationFails, Evaluate, BindPolicy, WriteReady, ListCommits, RefuseCommit, BeginCommit,
     ApplyCommit, Applied, RepairCommit, Repaired, Announced, ListDone, EndRun, WorkInStore
<1>8. QED BY <1>5, <1>6, <1>7


-----------------------------------------------------------------------------
(* What the processor leaves behind *)

\* The steps around the planner, with what they leave behind.
Moves == \/ Process
         \/ Outside /\ UNCHANGED retentionVars

\* A build that ends with a refusal is the one of the request at hand.
LEMMA FailingBuild ==
    ASSUME HostInv, ProcessorStep \/ ProcessorFault, txn[Processor].phase = "build",
           txn'[Processor].phase = "idle", reply'[Processor] = "refused"
    PROVE  proc.pc = "building"
<1>1. /\ Processor \in Actors /\ txn \in [Actors -> Txns] /\ reply \in [Actors -> Replies]
  BY ProcessorFacts
<1>2. CASE FinishBuild
  BY <1>2 DEF FinishBuild, At
<1>3. CASE ProcessorFault
  BY <1>1, <1>3 DEF ProcessorFault, IOFault, Stop, Leave
<1>4. CASE txn' = txn
  BY <1>4
<1>5. CASE \/ Recover \/ \E r \in Requests : BuildSubmission(r)
           \/ ApplyCommit \/ RepairCommit \/ WorkInStore
           \/ Publish("publish", "publishing") \/ Publish("announce", "announcing")
           \/ Publish("finish", "finishing")
  BY <1>5 DEF Recover, recover_pending_rollback, FinishPending, BuildSubmission, RebuildUnchanged,
     RebuildBegin, ApplyCommit, PromoteEvaluated, Promote, PromoteRefused, PromoteConflict,
     PromoteUnchanged, PromoteSelect, RepairCommit, Repair, Publish, PublishRead, WorkInStore,
     Step, WriteActive, WriteJournal, FinishSelect, ClearJournal, CreateHistory, WriteHistory,
     WriteProjection, Release, PublishWrite, Idle
<1>6. CASE ~ProcessorFault /\ ~FinishBuild
  BY <1>4, <1>5, <1>6 DEF ProcessorStep, StartRun, Recovered, Published, RejectPayload,
     RejectRelease, RefuseSubmission, Built, EvaluationFails, Evaluate, BindPolicy, WriteReady,
     ListCommits, RefuseCommit, BeginCommit, Applied, Repaired, Announced, ListDone, EndRun,
     Return, storeVars
<1>7. QED BY <1>2, <1>3, <1>6

\* A snapshot is stored before its build begins, and never removed; under the
\* planner's lock no build fails.
LEMMA StoredStep ==
    ASSUME HostInv, StoredInv, Moves, HostInv', HostMoves
    PROVE  StoredInv' /\ snaps \subseteq snaps' /\ failed \subseteq failed'
<1>1. \A r \in Requests : req[r] # None => req'[r] = req[r]
  BY ResultStep
<1>2. \/ UNCHANGED builds
      \/ /\ proc.pc = "building" /\ txn[Processor].phase = "build"
         /\ \E d : builds' = builds \union {d} /\ d.snap = req[proc.work].snap
  BY BuildsStep
<1>3. SnapsOf(builds') \subseteq snaps
  BY <1>2 DEF StoredInv, SnapsOf
<1>4. proc \in Memory /\ Processor \in Actors /\ Processor # Planner
  BY ProcessorFacts, RetentionAssumption
<1>5. proc.pc = "building" => proc.work \in Requests /\ req[proc.work] # None
                              /\ req[proc.work].snap \in snaps
  BY RequestAtHand DEF StoredInv
<1>6. CASE ~Process
  <2>1. UNCHANGED <<proc, snaps, failed>>
    BY <1>6, OthersKeepProcessor DEF Moves, retentionVars, leftovers
  <2>2. proc'.pc = "building" => req'[proc'.work].snap \in snaps'
    BY <1>1, <1>5, <2>1
  <2>3. QED BY <1>3, <2>1, <2>2 DEF StoredInv
<1>7. CASE Process
  <2>1. /\ ProcessorStep \/ ProcessorFault
        /\ StoreSnapshot /\ LeaveBuild
    BY <1>7 DEF Process
  <2>2. proc'.pc = "building" =>
            /\ proc'.work \in Requests /\ req'[proc'.work] # None
            /\ req'[proc'.work] \in RequestBodies
    <3>1. ASSUME proc'.pc = "building"
          PROVE  proc'.work \in Requests /\ req'[proc'.work] \in RequestBodies \union {None}
                 /\ Open(proc.work)'
      BY <3>1 DEF HostInv, WorkInv, HostTypes, Memory, Submitting
    <3>2. QED BY <3>1 DEF Open
  <2>3. UNCHANGED req
    BY <2>1 DEF ProcessorStep, ProcessorFault, queueVars, StartRun, Recover, Recovered, Publish,
       Published, RejectPayload, RejectRelease, RefuseSubmission, BuildSubmission, FinishBuild,
       Built, EvaluationFails, Evaluate, BindPolicy, WriteReady, ListCommits, RefuseCommit,
       BeginCommit, ApplyCommit, Applied, RepairCommit, Repaired, Announced, ListDone, EndRun,
       WorkInStore
  <2>4. /\ snaps \subseteq snaps' /\ snaps' \subseteq Snapshots
        /\ proc'.pc = "building" /\ proc.pc = "submissions" => req[proc'.work].snap \in snaps'
    BY <2>1, <2>2, <2>3 DEF StoreSnapshot, At, StoredInv, RequestBodies
  <2>5. proc'.pc = "building" => req'[proc'.work].snap \in snaps'
    <3>1. CASE \E r \in Requests : BuildSubmission(r)
      BY <2>3, <2>4, <3>1 DEF BuildSubmission, At
    <3>2. CASE FinishBuild
      <4>1. proc'.work = proc.work /\ proc.pc = "building"
        BY <1>4, <3>2 DEF FinishBuild, At, Memory
      <4>2. QED BY <1>5, <2>3, <2>4, <4>1
    <3>3. CASE UNCHANGED proc
      BY <1>5, <2>3, <2>4, <3>3
    <3>4. ASSUME Built \/ Evaluate \/ BindPolicy PROVE proc'.pc # "building"
      BY <1>4, <3>4 DEF Built, Evaluate, BindPolicy, Go, NextIn, Memory
    <3>5. QED BY <2>1, <3>1, <3>2, <3>3, <3>4, RunsOn
  <2>6. \/ UNCHANGED failed
        \/ failed' = failed \union {proc.work} /\ proc.pc = "building"
    BY <2>1, FailingBuild DEF LeaveBuild
  <2>7. failed' \subseteq Requests /\ failed \subseteq failed'
    BY <1>5, <2>6 DEF StoredInv
  <2>8. QED BY <1>3, <2>4, <2>5, <2>7 DEF StoredInv, SnapsOf
<1>8. QED BY <1>6, <1>7


-----------------------------------------------------------------------------
(* What the planner knows stays true around it *)

LEMMA CandidateStep ==
    ASSUME HostInv, HostMoves, CandidateInv
    PROVE  CandidateInv'
<1> SUFFICES ASSUME NEW r \in Requests, Evidence(r)'
             PROVE  result'[r].cand.snap = req'[r].snap
  BY DEF CandidateInv
<1>1. req[r] # None => req'[r] = req[r]
  BY ResultStep
<1>2. CASE result'[r] = result[r]
  <2>1. Evidence(r) /\ result[r] # NoResult
    BY <1>2 DEF Evidence, NoResult
  <2>2. QED BY <1>1, <1>2, <2>1 DEF HostInv, QueueInv, CandidateInv
<1>3. CASE Open(r) /\ result'[r].cand = proc.made /\ r = proc.work /\ proc.pc = "ready"
  BY <1>1, <1>3 DEF Open, HostInv, WorkInv, MadeFor
<1>4. CASE Authorized(r) /\ result'[r].cand = result[r].cand
  <2>1. Evidence(r) /\ result[r] # NoResult
    BY <1>4 DEF Evidence, Authorized, HostInv, QueueInv
  <2>2. QED BY <1>1, <1>4, <2>1 DEF HostInv, QueueInv, CandidateInv
<1>5. ~(result'[r].outcome \in Failures \union {"UNCHANGED"}
        /\ (result'[r].outcome \in Failures => result'[r].cand = None))
  BY DEF Evidence, Failures
<1>6. QED BY <1>2, <1>3, <1>4, <1>5, ResultStep

\* A settled request keeps its result; what has a candidate had it before, or
\* gets what the processor has made.
LEMMA EvidenceStep ==
    ASSUME HostInv, HostMoves, NEW r \in Requests
    PROVE  /\ Settled(r) => result'[r] = result[r]
           /\ Evidence(r)' => \/ Evidence(r) /\ result'[r].cand = result[r].cand
                              \/ HasMade /\ result'[r].cand = proc.made
           /\ result'[r].outcome = "CANDIDATE_READY" =>
                  result'[r] = result[r] \/ (HasMade /\ result'[r].cand = proc.made)
<1>1. Settled(r) => ~Open(r) /\ ~Authorized(r)
  BY DEF Settled, Open, Authorized
<1>2. Authorized(r) => Evidence(r)
  BY DEF Authorized, Evidence, HostInv, QueueInv
<1>3. Evidence(r)' => ~(result'[r].outcome \in Failures \union {"UNCHANGED"}
                        /\ (result'[r].outcome \in Failures => result'[r].cand = None))
  BY DEF Evidence, Failures
<1>4. result'[r] = result[r] => (Evidence(r)' => Evidence(r))
  BY DEF Evidence
<1>5. proc.pc = "ready" => HasMade
  BY DEF HasMade
<1>6. "CANDIDATE_READY" \notin Failures \union {"UNCHANGED"}
  BY DEF Failures
<1>7. QED BY <1>1, <1>2, <1>3, <1>4, <1>5, <1>6, ResultStep

LEMMA PlannerKept ==
    ASSUME HostInv, HostMoves, UNCHANGED plan, PlannerInv, snaps \subseteq snaps',
           failed \subseteq failed'
    PROVE  PlannerInv'
BY AroundPlanner DEF PlannerInv, Kept

LEMMA ReadKept ==
    ASSUME HostInv, HostMoves, UNCHANGED plan, PlannerInv, ReadInv
    PROVE  ReadInv'
<1>1. /\ plan \in PlanMemory /\ lock = Planner <=> plan.pc \in InProgress
      /\ plan.final \subseteq Requests /\ plan.asked \subseteq Requests
  BY DEF PlannerInv, PlanMemory
<1>2. \A r \in Requests : req[r] # None => req'[r] = req[r]
  BY ResultStep
<1>3. \A r \in plan.asked : req'[r] # None /\ req'[r] = req[r]
  BY <1>1, <1>2 DEF ReadInv
<1>4. {"incoming"} \union AfterIncoming \subseteq InProgress
  BY DEF InProgress, AfterIncoming
<1>5. ASSUME plan.pc \in {"incoming"} \union AfterIncoming, NEW r \in plan.final
      PROVE  Settled(r)' /\ (Evidence(r)' => result'[r].cand \in plan.lost)
  <2>1. r \in Requests /\ Settled(r) /\ (Evidence(r) => result[r].cand \in plan.lost)
    BY <1>1, <1>5 DEF ReadInv
  <2>2. result'[r] = result[r]
    BY <2>1, EvidenceStep
  <2>3. QED BY <2>1, <2>2 DEF Settled, Evidence
<1>6. ASSUME plan.pc \in AfterIncoming
      PROVE  /\ \A r \in Requests : Evidence(r)' => \/ result'[r].cand \in plan.lost
                                                    \/ result'[r].cand.snap \in plan.snaps
             /\ HasMade' => proc'.made.snap \in plan.snaps
  <2>1. lock = Planner /\ Processor # Planner /\ Processor \in Actors
    BY <1>1, <1>4, <1>6, RetentionAssumption, ProcessorAssumption
  <2>2. txn[Processor].phase # "build"
    BY <2>1 DEF HostInv, StoreInv, Inv, LockInv, LockedPhases, Phases
  <2>3. HasMade => proc.made.snap \in plan.snaps
    BY <1>6 DEF ReadInv
  <2>4. QED BY <1>6, <2>2, <2>3, EvidenceStep, MadeStep DEF ReadInv
<1>7. ASSUME plan.pc \in AfterIncoming, NEW r \in plan.asked \ plan.final
      PROVE  req'[r].snap \in plan.snaps /\ req'[r].expected \in plan.deps \union {None}
  BY <1>3, <1>7 DEF ReadInv
<1>8. QED BY <1>3, <1>5, <1>6, <1>7 DEF ReadInv


-----------------------------------------------------------------------------
(* What was listed stays out of use *)

Unused == UnusedInv /\ PlannedStaysUnused

\* The times of what is selected and applied are numbers.
LEMMA TimesAreNumbers ==
    ASSUME HostInv
    PROVE  /\ selections \subseteq Selections /\ \A s \in selections : s.at \in Nat
           /\ \A x \in applied : x.at \in Nat
           /\ active \in States /\ clock \in Nat
           /\ active.cur # None => active.cur \in Selected /\ active.cur.at \in Nat
                                   /\ active.cur.at <= clock
           /\ active.prev # None => active.prev \in Selected
<1>1. selections \subseteq Selections /\ active \in States /\ clock \in Nat
  BY DEF HostInv, StoreInv, Inv, TypeOK
<1>2. \A x \in applied : x.at \in Nat
  BY DEF HostInv, HostTypes
<1>3. active.cur # None => active.cur.at <= clock
  BY DEF HostInv, StoreInv, Inv, ClockInv
<1>4. QED BY <1>1, <1>2, <1>3 DEF Selections, States, Selected

LEMMA TimeStep ==
    ASSUME HostInv, HostInv', HostMoves, TimeInv
    PROVE  TimeInv'
<1>1. CASE UNCHANGED <<active, selections, applied>>
  BY <1>1 DEF TimeInv
<1>2. ASSUME NEW a \in Actors, Selects(a),
             \/ UNCHANGED applied
             \/ \E x : applied' = applied \union {x} /\ x.at = active'.cur.at
      PROVE  TimeInv'
  <2>1. /\ active'.cur # None /\ active'.cur.at \in Nat
        /\ active.cur # None => active.cur.at < active'.cur.at
        /\ \E e, way : selections' = selections \union
               {[dep |-> active'.cur.dep, at |-> active'.cur.at, way |-> way, over |-> e]}
    BY <1>2, StoreAssumption DEF Selects, SelectsAt, Selected
  <2>2. PICK y : selections' = selections \union {y} /\ y.at = active'.cur.at
    <3>1. PICK e, way : selections' = selections \union
               {[dep |-> active'.cur.dep, at |-> active'.cur.at, way |-> way, over |-> e]}
      BY <2>1
    <3> DEFINE y == [dep |-> active'.cur.dep, at |-> active'.cur.at, way |-> way, over |-> e]
    <3>2. selections' = selections \union {y} /\ y.at = active'.cur.at
      BY <3>1
    <3>3. QED BY <3>2
  <2>3. /\ \A s \in selections : s.at \in Nat
        /\ \A x \in applied : x.at \in Nat
        /\ active.cur # None => active.cur.at \in Nat
    BY TimesAreNumbers
  <2>4. \A s \in selections : s.at <= active'.cur.at
    BY <2>1, <2>3 DEF TimeInv
  <2>5. \A s \in applied : s.at <= active'.cur.at
    BY <2>1, <2>3 DEF TimeInv
  <2>6. QED BY <1>2, <2>1, <2>2, <2>4, <2>5 DEF TimeInv
<1>3. QED BY <1>1, <1>2, MovesSelect

\* Excused, after the step.
ExcusedNext(d, t) ==
    \E s \in selections' : /\ s.dep = d /\ plan.at < s.at /\ s.at <= t
                           /\ s.way = "promote" /\ s.at \notin {x.at : x \in applied'}

\* A promotion that excuses the use of d is not forgotten, and does not
\* become one of the processor's.
LEMMA ExcusedStep ==
    ASSUME HostInv, HostMoves, TimeInv, NEW d, NEW t, Excused(d, t)
    PROVE  ExcusedNext(d, t)
<1>1. PICK s \in selections : /\ s.dep = d /\ plan.at < s.at /\ s.at <= t
                              /\ s.way = "promote" /\ s.at \notin {x.at : x \in applied}
  BY DEF Excused
<1>2. selections \subseteq selections'
  BY AroundPlanner DEF Kept
<1>3. CASE UNCHANGED applied
  BY <1>1, <1>2, <1>3 DEF ExcusedNext
<1>4. ASSUME NEW a \in Actors, Selects(a), NEW x, applied' = applied \union {x},
             x.at = active'.cur.at
      PROVE  ExcusedNext(d, t)
  <2>1. /\ active.cur # None /\ s.at <= active.cur.at /\ active.cur.at < active'.cur.at
        /\ active'.cur.at \in Nat
    BY <1>4 DEF TimeInv, Selects, Selected
  <2>2. s.at \in Nat /\ active.cur.at \in Nat
    BY <2>1, TimesAreNumbers
  <2>3. s.at # x.at
    BY <1>4, <2>1, <2>2
  <2>4. QED BY <1>1, <1>2, <1>4, <2>3 DEF ExcusedNext
<1>5. QED BY <1>3, <1>4, MovesSelect

\* What excuses d until t excuses it for longer.
LEMMA ExcusedLonger ==
    ASSUME HostInv, NEW d, NEW t \in Nat, NEW u \in Nat, t <= u, Excused(d, t)
    PROVE  Excused(d, u)
BY TimesAreNumbers DEF Excused

\* The commits and rollbacks of the host never select what the plan listed,
\* unless it was promoted anew.
LEMMA UnusedStep ==
    ASSUME HostInv, HostInv', HostMoves, UNCHANGED plan, PlannerInv, TimeInv, Unused
    PROVE  Unused'
<1>1. /\ plan \in PlanMemory /\ plan.at \in Nat /\ plan.remove \subseteq builds
      /\ plan.remove # {} => plan.pc = "done"
  BY DEF PlannerInv, PlanMemory
<1>2. /\ clock' \in Nat /\ clock <= clock' /\ clock \in Nat /\ plan.at <= clock
      /\ \A b \in Actors : txn'[b].phase = "active" => txn'[b] = txn[b] \/ txn'[b].target.cur.at > clock
  BY MovesSelect, TimesAreNumbers DEF Unused, UnusedInv
<1>3. plan.at <= clock'
  BY <1>1, <1>2
<1>4. /\ txn' \in [Actors -> Txns]
      /\ \A b \in Actors : txn'[b].phase = "active" => txn'[b].target.cur.at \in Nat
  BY DEF HostInv, StoreInv, Inv, TypeOK, TxnInv, TxnOK, FreshTime
<1>5. plan.pc = "done" => \A b \in Actors : txn'[b].phase = "active" =>
                                                txn'[b].target.cur.at > plan.at
  BY <1>1, <1>2, <1>4 DEF Unused, UnusedInv
<1>6. \A r \in Requests : result'[r].outcome = "CANDIDATE_READY" => result'[r].cand \notin plan.remove
  BY EvidenceStep DEF Unused, UnusedInv
<1>7. HasMade' => proc'.made \notin plan.remove
  BY <1>1, MadeStep DEF Unused, UnusedInv
<1>8. ASSUME active'.cur # None /\ active'.cur.dep \in plan.remove =>
                 ExcusedNext(active'.cur.dep, active'.cur.at),
             active'.prev # None /\ active'.prev.dep \in plan.remove =>
                 active'.cur # None /\ ExcusedNext(active'.prev.dep, active'.cur.at),
             \A s \in selections' : s.dep \in plan.remove /\ s.at > plan.at =>
                 ExcusedNext(s.dep, s.at)
      PROVE  Unused'
  <2>1. UnusedInv'
    BY <1>3, <1>5, <1>6, <1>7, <1>8 DEF UnusedInv, Excused, ExcusedNext
  <2>2. PlannedStaysUnused'
    BY <1>8 DEF PlannedStaysUnused, ExcusedNext
  <2>3. QED BY <2>1, <2>2 DEF Unused
<1>9. \A d, t : Excused(d, t) => ExcusedNext(d, t)
  BY ExcusedStep
<1>10. \A s \in selections : s.dep \in plan.remove /\ s.at > plan.at => ExcusedNext(s.dep, s.at)
  <2>1. \A s \in selections : s.dep \in plan.remove /\ s.at > plan.at => Excused(s.dep, s.at)
    BY DEF Unused, PlannedStaysUnused, Excused
  <2>2. QED BY <1>9, <2>1
<1>11. CASE UNCHANGED <<active, selections, applied>>
  BY <1>8, <1>9, <1>10, <1>11 DEF Unused, UnusedInv
<1>12. ASSUME NEW a \in Actors, Selects(a), a # Processor => UNCHANGED applied
       PROVE  Unused'
  <2>1. /\ active'.cur # None /\ active'.cur.at \in Nat
        /\ active.cur # None => active.cur.at \in Nat /\ active.cur.at < active'.cur.at
        /\ active'.prev = active.cur
    BY <1>12, StoreAssumption, TimesAreNumbers DEF Selects, Selected
  <2>2. PICK at \in Nat : at = active'.cur.at
    BY <2>1
  <2>3. \A d : active.cur # None /\ Excused(d, active.cur.at) => ExcusedNext(d, at)
    <3>1. ASSUME NEW d, active.cur # None, Excused(d, active.cur.at)
          PROVE  ExcusedNext(d, at)
      <4>1. PICK t \in Nat : t = active.cur.at /\ Excused(d, t) /\ t <= at
        BY <2>1, <2>2, <3>1
      <4>2. QED BY <1>9, <4>1, ExcusedLonger
    <3>2. QED BY <3>1
  <2>4. active'.prev # None /\ active'.prev.dep \in plan.remove => ExcusedNext(active'.prev.dep, at)
    BY <2>1, <2>3 DEF Unused, UnusedInv
  <2>5. ASSUME active'.cur.dep \in plan.remove
        PROVE  ExcusedNext(active'.cur.dep, at)
    <3>1. CASE txn[a].phase = "select" /\ active.prev # None /\ active'.cur.dep = active.prev.dep
      BY <2>3, <2>5, <3>1 DEF Unused, UnusedInv
    <3>2. CASE /\ txn[a].phase = "active" /\ active' = txn[a].target
               /\ SelectsAt(active'.cur.dep, active'.cur.at, "promote")
      <4>1. a # Processor
        <5>1. ASSUME a = Processor PROVE FALSE
          <6>1. proc.pc = "promoting" /\ active'.cur.dep = result[proc.work].cand
            BY <3>2, <5>1 DEF HostInv, StoreCallInv, CallOK
          <6>2. proc.work \in Requests /\ result[proc.work].outcome = "CANDIDATE_READY"
            BY <6>1, CandidateAtHand
          <6>3. QED BY <2>5, <6>1, <6>2 DEF Unused, UnusedInv
        <5>2. QED BY <5>1
      <4>2. plan.at < at
        BY <1>1, <2>2, <2>5, <3>2 DEF Unused, UnusedInv
      <4>3. at \notin {x.at : x \in applied'}
        <5>1. UNCHANGED applied /\ \A x \in applied : x.at \in Nat
          BY <1>12, <4>1, TimesAreNumbers
        <5>2. \A x \in applied : x.at # at
          BY <2>1, <2>2, <5>1 DEF TimeInv
        <5>3. QED BY <5>1, <5>2
      <4>4. PICK e : selections' = selections \union
                {[dep |-> active'.cur.dep, at |-> at, way |-> "promote", over |-> e]}
        BY <2>2, <3>2 DEF SelectsAt
      <4> DEFINE y == [dep |-> active'.cur.dep, at |-> at, way |-> "promote", over |-> e]
      <4>5. y \in selections' /\ y.dep = active'.cur.dep /\ y.at = at /\ y.way = "promote"
        BY <4>4
      <4> HIDE DEF y
      <4>6. at <= at
        BY <2>2
      <4>7. QED BY <4>2, <4>3, <4>5, <4>6 DEF ExcusedNext
    <3>3. QED BY <1>12, <3>1, <3>2 DEF Selects
  <2>6. PICK y : /\ selections' = selections \union {y}
                 /\ y.dep = active'.cur.dep /\ y.at = at
    <3>1. PICK e, way : selections' = selections \union
               {[dep |-> active'.cur.dep, at |-> at, way |-> way, over |-> e]}
      BY <1>12, <2>2 DEF Selects, SelectsAt
    <3> DEFINE y == [dep |-> active'.cur.dep, at |-> at, way |-> way, over |-> e]
    <3>2. selections' = selections \union {y} /\ y.dep = active'.cur.dep /\ y.at = at
      BY <3>1
    <3>3. QED BY <3>2
  <2>7. QED BY <1>8, <1>10, <2>1, <2>2, <2>4, <2>5, <2>6
<1>13. QED BY <1>11, <1>12, MovesSelect


-----------------------------------------------------------------------------
(* The steps of the planner *)

\* The planner changes its own memory and the lock.
OnlyPlans == UNCHANGED <<durableVars, txn, reply, clock, faults, selections, queueVars, policy, proc,
                         ops, applied, leftovers>>

LEMMA PlannerStays ==
    ASSUME PlanInv, OnlyPlans, lock \in {Planner, None}, lock' \in {Planner, None}
    PROVE  HostInv' /\ StoredInv' /\ CandidateInv' /\ TimeInv'
<1> USE DEF OnlyPlans, durableVars, queueVars, reports, leftovers
<1>1. Planner \in Actors /\ TypeOK /\ LockInv /\ txn[Planner].phase = "idle"
  BY RetentionAssumption DEF PlanInv, PlannerInv, HostInv, StoreInv, Inv
<1>2. \A b \in Actors : txn[b].phase \in {"idle", "publish"}
  BY <1>1, Exclusion
<1>3. LockInv'
  BY <1>2 DEF LockInv, LockedPhases
<1>4. TypeOK'
  BY <1>1 DEF TypeOK
<1>5. TxnInv' /\ JournalInv' /\ ClockInv'
  BY DEF PlanInv, HostInv, StoreInv, Inv, TxnInv, TxnOK, FreshTime, JournalInv, ClockInv
<1>6. ProvenanceInv' /\ SelectsFrom(vouched)'
  BY DEF PlanInv, HostInv, StoreInv, ProvenanceInv, WasSelected, SelectsFrom
<1>7. HostTypes' /\ EvaluationInv' /\ QueueInv' /\ AppliedInv'
  BY DEF PlanInv, HostInv, HostTypes, EvaluationInv, QueueInv, AppliedInv
<1>8. WorkInv' /\ StoreCallInv'
  BY DEF PlanInv, HostInv, WorkInv, StoreCallInv, CallOK, Open, Authorized, Unapplied, MadeFor, Seen
<1>9. StoredInv' /\ CandidateInv' /\ TimeInv'
  BY DEF PlanInv, StoredInv, CandidateInv, Evidence, TimeInv, SnapsOf
<1>10. QED BY <1>3, <1>4, <1>5, <1>6, <1>7, <1>8, <1>9 DEF HostInv, StoreInv, Inv

\* Before it has decided, the planner has listed nothing.
LEMMA NothingListed ==
    ASSUME PlanInv, OnlyPlans, plan' \in PlanMemory, plan'.pc \in InProgress, plan'.remove = {},
           plan'.drop = {}, plan'.aged \subseteq failed, plan'.at = plan.at, lock' = Planner,
           lock \in {Planner, None}, ReadInv'
    PROVE  PlanInv'
<1>1. HostInv' /\ StoredInv' /\ CandidateInv' /\ TimeInv'
  BY PlannerStays
<1>2. "done" \notin InProgress /\ "off" \notin InProgress
  BY DEF InProgress, AfterIncoming
<1>3. PlannerInv'
  BY <1>2 DEF PlanInv, PlannerInv, OnlyPlans, leftovers
<1>4. UnusedInv'
  BY <1>2 DEF PlanInv, UnusedInv, OnlyPlans
<1>5. PlannedStaysUnused'
  BY DEF PlannedStaysUnused
<1>6. QED BY <1>1, <1>3, <1>4, <1>5 DEF PlanInv

LEMMA BeginStep ==
    ASSUME PlanInv, PlanBegin
    PROVE  PlanInv'
<1>1. /\ plan \in PlanMemory /\ plan.pc = "off" /\ plan.remove = {} /\ plan.drop = {}
      /\ plan.aged \subseteq failed
  BY DEF PlanInv, PlannerInv, PlanBegin, Planning
<1>2. /\ plan' \in PlanMemory /\ plan'.pc = "results"
      /\ plan'.asked = {r \in Requests : req[r] # None /\ ~Settled(r)}
      /\ plan'.remove = plan.remove /\ plan'.drop = plan.drop /\ plan'.aged = plan.aged
      /\ plan'.at = plan.at
  BY <1>1 DEF PlanBegin, PlanMemory, InProgress, AfterIncoming
<1>3. OnlyPlans /\ lock = None /\ lock' = Planner
  BY DEF PlanBegin, OnlyPlans
<1>4. ReadInv'
  BY <1>2, <1>3 DEF ReadInv, AfterIncoming, OnlyPlans, queueVars
<1>5. plan'.pc \in InProgress
  BY <1>2 DEF InProgress
<1>6. QED BY <1>1, <1>2, <1>3, <1>4, <1>5, NothingListed

\* A reading keeps what the planner has not read.
LEMMA ReadsFacts ==
    ASSUME PlanInv, NEW pc \in InProgress, NEW memory, Reads(pc, memory), memory \in PlanMemory,
           memory.pc \in InProgress, memory.remove = plan.remove, memory.drop = plan.drop,
           memory.aged \subseteq failed, memory.at = plan.at, ReadInv'
    PROVE  PlanInv'
<1>1. /\ plan.pc \in InProgress /\ plan' = memory /\ OnlyPlans /\ UNCHANGED lock
  BY DEF Reads, Planning, OnlyPlans, vars, storeVars
<1>2. plan.pc # "done"
  BY <1>1 DEF InProgress, AfterIncoming
<1>3. lock = Planner /\ plan.remove = {} /\ plan.drop = {}
  BY <1>1, <1>2 DEF PlanInv, PlannerInv
<1>4. QED BY <1>1, <1>3, NothingListed

LEMMA ResultsStep ==
    ASSUME PlanInv, ReadResults
    PROVE  PlanInv'
<1> DEFINE m == [plan EXCEPT !.pc = "incoming",
                             !.final = {r \in Requests : Settled(r)},
                             !.deps = Candidates(Ready) \union Expected(Ready \union Lost),
                             !.snaps = SnapsOf(Candidates(Ready)),
                             !.lost = Candidates(Lost)]
<1>1. plan \in PlanMemory /\ plan.aged \subseteq failed /\ "results" \in InProgress
  BY DEF PlanInv, PlannerInv, InProgress
<1>2. Ready \subseteq Requests /\ Lost \subseteq Requests
  BY DEF Ready, Lost
<1>3. /\ \A r \in Requests : /\ result[r] \in ResultFiles
                             /\ result[r].cand \in builds \union {None}
                             /\ req[r] \in RequestBodies \union {None}
                             /\ result[r] # NoResult => req[r] # None
      /\ builds \subseteq Deployments
  BY DEF PlanInv, HostInv, HostTypes, QueueInv, StoreInv, Inv, TypeOK
<1>4. Candidates(Ready) \subseteq builds /\ Candidates(Lost) \subseteq builds
  BY <1>2, <1>3 DEF Candidates
<1>5. Expected(Ready \union Lost) \subseteq Deployments
  <2>1. \A r \in Ready \union Lost : r \in Requests /\ req[r] \in RequestBodies
    BY <1>2, <1>3 DEF Ready, Lost, NoResult, Failures
  <2>2. QED BY <2>1 DEF Expected, RequestBodies
<1>6. SnapsOf(Candidates(Ready)) \subseteq Snapshots
  BY <1>3, <1>4, ProcessorAssumption DEF SnapsOf
<1>7. /\ m \in PlanMemory /\ m.pc = "incoming" /\ m.final = {r \in Requests : Settled(r)}
      /\ m.snaps = SnapsOf(Candidates(Ready)) /\ m.lost = Candidates(Lost)
      /\ m.remove = plan.remove /\ m.drop = plan.drop /\ m.aged = plan.aged /\ m.at = plan.at
      /\ m.asked = plan.asked
  BY <1>1, <1>3, <1>4, <1>5, <1>6 DEF PlanMemory, InProgress
<1>8. Reads("results", m)
  BY DEF ReadResults
<1> HIDE DEF m
<1>9. plan' = m /\ UNCHANGED <<vars, leftovers>>
  BY <1>8 DEF Reads
<1>10. ReadInv'
  <2>1. \A r \in m.final : Settled(r) /\ (Evidence(r) => result[r].cand \in m.lost)
    BY <1>7 DEF Settled, Evidence, Lost, Candidates
  <2>2. UNCHANGED <<req, result>>
    BY <1>9 DEF vars, queueVars
  <2>3. QED BY <1>7, <1>9, <2>1, <2>2
            DEF ReadInv, AfterIncoming, Settled, Evidence, PlanInv
<1>11. m.pc \in InProgress
  BY <1>7 DEF InProgress
<1>12. QED BY <1>1, <1>7, <1>8, <1>10, <1>11, ReadsFacts


LEMMA IncomingStep ==
    ASSUME PlanInv, ReadIncoming
    PROVE  PlanInv'
<1> DEFINE open == {r \in Requests \ plan.final : req[r] # None}
           m == [plan EXCEPT !.pc = "commits",
                             !.deps = @ \union Expected(open),
                             !.snaps = @ \union {req[r].snap : r \in open}]
<1>1. plan \in PlanMemory /\ plan.aged \subseteq failed /\ "incoming" \in InProgress
  BY DEF PlanInv, PlannerInv, InProgress
<1>2. \A r \in open : r \in Requests /\ req[r] \in RequestBodies
  BY DEF PlanInv, HostInv, HostTypes
<1>3. Expected(open) \subseteq Deployments /\ {req[r].snap : r \in open} \subseteq Snapshots
  BY <1>2 DEF Expected, RequestBodies
<1> HIDE DEF open
<1>4. /\ m \in PlanMemory /\ m.pc = "commits" /\ m.final = plan.final
      /\ m.snaps = plan.snaps \union {req[r].snap : r \in open}
      /\ m.deps = plan.deps \union Expected(open) /\ m.lost = plan.lost /\ m.asked = plan.asked
      /\ m.remove = plan.remove /\ m.drop = plan.drop /\ m.aged = plan.aged /\ m.at = plan.at
  BY <1>1, <1>3 DEF PlanMemory, InProgress, AfterIncoming
<1>5. Reads("incoming", m)
  BY DEF ReadIncoming, open
<1> HIDE DEF m
<1>6. plan' = m /\ UNCHANGED <<vars, leftovers>> /\ plan.pc = "incoming"
  BY <1>5 DEF Reads, Planning
<1>7. /\ \A r \in plan.asked : r \in Requests /\ req[r] # None
      /\ \A r \in plan.final : r \in Requests /\ Settled(r) /\ (Evidence(r) => result[r].cand \in plan.lost)
  BY <1>1, <1>6 DEF PlanInv, ReadInv, PlanMemory
<1>8. \A r \in Requests \ plan.final : req[r] # None => r \in open /\ req[r].snap \in m.snaps
  BY <1>4 DEF open
<1>9. ASSUME NEW r \in Requests, Evidence(r)
      PROVE  result[r].cand \in m.lost \/ result[r].cand.snap \in m.snaps
  <2>1. req[r] # None /\ result[r].cand.snap = req[r].snap
    BY <1>9 DEF Evidence, NoResult, PlanInv, CandidateInv, HostInv, QueueInv
  <2>2. QED BY <1>4, <1>7, <1>8, <1>9, <2>1
<1>10. ASSUME NEW r \in plan.asked \ plan.final
       PROVE  req[r].snap \in m.snaps /\ req[r].expected \in m.deps \union {None}
  BY <1>4, <1>7, <1>8 DEF Expected
<1>11. ASSUME HasMade
       PROVE  proc.made.snap \in m.snaps
  <2>1. /\ proc.work \in Requests /\ req[proc.work] # None /\ result[proc.work] = NoResult
        /\ proc.made.snap = req[proc.work].snap
    <3>1. proc.pc \in {"building", "evaluate", "bind", "ready"}
      BY <1>11 DEF HasMade
    <3>2. MadeFor(proc.made, proc.work)
      BY <1>11 DEF HasMade, PlanInv, HostInv, WorkInv, StoreCallInv, CallOK
    <3>3. HostInv
      BY DEF PlanInv
    <3>4. QED BY <3>1, <3>2, <3>3, RequestAtHand DEF MadeFor
  <2>2. proc.work \notin plan.final
    BY <1>7, <2>1 DEF Settled
  <2>3. QED BY <1>8, <2>1, <2>2
<1>12. ReadInv'
  <2>1. UNCHANGED <<req, result, proc, txn, reply>>
    BY <1>6 DEF vars, storeVars, queueVars
  <2>2. /\ \A r : (Settled(r) <=> Settled(r)') /\ (Evidence(r) <=> Evidence(r)')
        /\ HasMade <=> HasMade'
    BY <2>1 DEF Settled, Evidence, HasMade
  <2>3. QED BY <1>4, <1>6, <1>7, <1>9, <1>10, <1>11, <2>1, <2>2 DEF ReadInv
<1>13. m.pc \in InProgress
  BY <1>4 DEF InProgress, AfterIncoming
<1>14. QED BY <1>1, <1>4, <1>5, <1>12, <1>13, ReadsFacts

\* After the queue, what the planner reads only adds references.
LEMMA GoesOn ==
    ASSUME PlanInv, NEW pc \in AfterIncoming, NEW memory, Reads(pc, memory),
           memory \in PlanMemory, memory.pc \in AfterIncoming,
           memory.final = plan.final, memory.snaps = plan.snaps, memory.lost = plan.lost,
           memory.asked = plan.asked, plan.deps \subseteq memory.deps,
           memory.remove = plan.remove, memory.drop = plan.drop, memory.at = plan.at,
           memory.aged \subseteq failed
    PROVE  PlanInv'
<1>1. plan' = memory /\ UNCHANGED <<vars, leftovers>> /\ plan.pc \in AfterIncoming
  BY DEF Reads, Planning
<1>2. UNCHANGED <<req, result, proc, txn, reply>>
  BY <1>1 DEF vars, storeVars, queueVars
<1>3. /\ \A r : (Settled(r) <=> Settled(r)') /\ (Evidence(r) <=> Evidence(r)')
      /\ HasMade <=> HasMade'
  BY <1>2 DEF Settled, Evidence, HasMade
<1>4. ReadInv
  BY DEF PlanInv
<1>5. ReadInv'
  BY <1>1, <1>2, <1>3, <1>4 DEF ReadInv
<1>6. pc \in InProgress /\ memory.pc \in InProgress
  BY DEF InProgress
<1>7. QED BY <1>5, <1>6, ReadsFacts

LEMMA LaterReads ==
    ASSUME PlanInv,
           \/ ReadCommits("commits", "journals", marker)
           \/ ReadCommits("journals", "store", cjournal)
           \/ CheckStore \/ ListOrphans \/ ProbePins
    PROVE  PlanInv'
<1>1. plan \in PlanMemory /\ plan.aged \subseteq failed /\ plan.blocked \in BOOLEAN
  BY DEF PlanInv, PlannerInv, PlanMemory
<1>2. ASSUME NEW pc \in {"commits", "journals"}, NEW next \in {"journals", "store"},
             NEW R \in SUBSET marker, ReadCommits(pc, next, R)
      PROVE  PlanInv'
  <2> DEFINE open == R \ plan.final
             m == [plan EXCEPT !.pc = next,
                               !.deps = @ \union Candidates(open) \union Expected(open)]
  <2>1. \A r \in open : /\ result[r].cand \in Deployments \union {None}
                        /\ req[r] \in RequestBodies
    <3>1. marker \subseteq Requests
      BY DEF PlanInv, HostInv, HostTypes
    <3>2. \A r \in marker : /\ result[r] \in ResultFiles /\ req[r] \in RequestBodies
      BY <3>1 DEF PlanInv, HostInv, HostTypes, QueueInv
    <3>3. QED BY <3>2 DEF ResultFiles
  <2>2. Candidates(open) \subseteq Deployments /\ Expected(open) \subseteq Deployments
    BY <2>1 DEF Candidates, Expected, RequestBodies
  <2>3. Reads(pc, m)
    BY <1>2 DEF ReadCommits
  <2> HIDE DEF open
  <2>4. /\ m \in PlanMemory /\ m.pc = next /\ m.final = plan.final /\ m.snaps = plan.snaps
        /\ m.lost = plan.lost /\ m.asked = plan.asked /\ plan.deps \subseteq m.deps
        /\ m.remove = plan.remove /\ m.drop = plan.drop /\ m.at = plan.at /\ m.aged = plan.aged
    BY <1>1, <2>2 DEF PlanMemory, InProgress, AfterIncoming
  <2> HIDE DEF m
  <2>5. pc \in AfterIncoming /\ next \in AfterIncoming
    BY DEF AfterIncoming
  <2>6. QED BY <1>1, <2>3, <2>4, <2>5, GoesOn
<1>3. CASE CheckStore
  <2> DEFINE b == plan.blocked \/ journal # None \/ Missing # {} \/ StateDisagrees
             m == [plan EXCEPT !.pc = "orphans", !.blocked = b]
  <2>1. Reads("store", m)
    BY <1>3 DEF CheckStore
  <2>2. b \in BOOLEAN
    OBVIOUS
  <2> HIDE DEF b
  <2>3. /\ m \in PlanMemory /\ m.pc = "orphans" /\ m.final = plan.final /\ m.snaps = plan.snaps
        /\ m.lost = plan.lost /\ m.asked = plan.asked /\ plan.deps = m.deps
        /\ m.remove = plan.remove /\ m.drop = plan.drop /\ m.at = plan.at /\ m.aged = plan.aged
    BY <1>1, <2>2 DEF PlanMemory, InProgress, AfterIncoming
  <2> HIDE DEF m
  <2>4. "store" \in AfterIncoming /\ m.pc \in AfterIncoming
    BY <2>3 DEF AfterIncoming
  <2>5. QED BY <1>1, <2>1, <2>3, <2>4, GoesOn
<1>4. CASE ListOrphans
  <2>1. PICK stale \in SUBSET failed :
            Reads("orphans",
                  [plan EXCEPT !.pc = "pins",
                               !.blocked = \/ plan.blocked
                                           \/ unfinished
                                           \/ snaps \ (SnapsOf(builds) \union plan.snaps) # {},
                               !.aged = stale])
    BY <1>4 DEF ListOrphans
  <2> DEFINE b == \/ plan.blocked
                  \/ unfinished
                  \/ snaps \ (SnapsOf(builds) \union plan.snaps) # {}
             m == [plan EXCEPT !.pc = "pins", !.blocked = b, !.aged = stale]
  <2>2. Reads("orphans", m)
    BY <2>1
  <2>3. b \in BOOLEAN /\ failed \subseteq Requests
    BY DEF PlanInv, StoredInv
  <2> HIDE DEF b
  <2>4. /\ m \in PlanMemory /\ m.pc = "pins" /\ m.final = plan.final /\ m.snaps = plan.snaps
        /\ m.lost = plan.lost /\ m.asked = plan.asked /\ plan.deps = m.deps
        /\ m.remove = plan.remove /\ m.drop = plan.drop /\ m.at = plan.at /\ m.aged = stale
    BY <1>1, <2>3 DEF PlanMemory, InProgress, AfterIncoming
  <2> HIDE DEF m
  <2>5. "orphans" \in AfterIncoming /\ m.pc \in AfterIncoming
    BY <2>4 DEF AfterIncoming
  <2>6. QED BY <2>2, <2>4, <2>5, GoesOn
<1>5. CASE ProbePins
  <2>1. PICK live \in Pinnable : Reads("pins", [plan EXCEPT !.pc = "decide", !.live = live])
    BY <1>5 DEF ProbePins
  <2> DEFINE m == [plan EXCEPT !.pc = "decide", !.live = live]
  <2>2. live \subseteq Deployments
    BY DEF Pinnable, PlanInv, HostInv, StoreInv, Inv, TypeOK
  <2>3. /\ m \in PlanMemory /\ m.pc = "decide" /\ m.final = plan.final /\ m.snaps = plan.snaps
        /\ m.lost = plan.lost /\ m.asked = plan.asked /\ plan.deps = m.deps
        /\ m.remove = plan.remove /\ m.drop = plan.drop /\ m.at = plan.at /\ m.aged = plan.aged
    BY <1>1, <2>2 DEF PlanMemory, InProgress, AfterIncoming
  <2>4. Reads("pins", m)
    BY <2>1
  <2> HIDE DEF m
  <2>5. "pins" \in AfterIncoming /\ m.pc \in AfterIncoming
    BY <2>3 DEF AfterIncoming
  <2>6. QED BY <1>1, <2>3, <2>4, <2>5, GoesOn
<1>6. marker \in SUBSET marker /\ cjournal \in SUBSET marker
  BY DEF PlanInv, HostInv, HostTypes
<1>7. ASSUME ReadCommits("commits", "journals", marker) \/ ReadCommits("journals", "store", cjournal)
      PROVE  \E R \in SUBSET marker : \/ ReadCommits("commits", "journals", R)
                                      \/ ReadCommits("journals", "store", R)
  BY <1>6, <1>7
<1>8. QED BY <1>2, <1>3, <1>4, <1>5, <1>7


\* What may be listed: nothing that is selected, pinned, referenced, evidence
\* of a request, or made for one.
LEMMA RemovableFacts ==
    ASSUME PlanInv, plan.pc = "decide"
    PROVE  /\ Removable \subseteq builds
           /\ \A d \in Removable : /\ d \notin {DepOf(active.cur), DepOf(active.prev)} \union plan.live
                                   /\ d \notin plan.deps /\ d.snap \notin plan.snaps
           /\ \A r \in Requests : Evidence(r) => result[r].cand \notin Removable
           /\ HasMade => proc.made \notin Removable
           /\ Unshared(Removable) \subseteq snaps
           /\ Unshared(Removable) \intersect (plan.snaps \union SnapsOf(builds \ Removable)) = {}
<1>1. Removable \subseteq builds
  BY DEF Removable
<1>2. \A d \in Removable : d \notin Reserved /\ d.snap \notin plan.snaps
  BY DEF Removable
<1>3. \A d \in Removable : /\ d \notin {DepOf(active.cur), DepOf(active.prev)} \union plan.live
                           /\ d \notin plan.deps /\ d \notin plan.lost
  BY <1>2 DEF Reserved
<1>4. /\ \A r \in Requests : Evidence(r) => \/ result[r].cand \in plan.lost
                                            \/ result[r].cand.snap \in plan.snaps
      /\ HasMade => proc.made.snap \in plan.snaps
  BY DEF PlanInv, ReadInv, AfterIncoming
<1>5. Unshared(Removable) \subseteq SnapsOf(builds)
  BY <1>1 DEF Unshared, SnapsOf
<1>6. Unshared(Removable) \intersect (plan.snaps \union SnapsOf(builds \ Removable)) = {}
  BY DEF Unshared
<1>7. SnapsOf(builds) \subseteq snaps
  BY DEF PlanInv, StoredInv
<1>8. QED BY <1>1, <1>2, <1>3, <1>4, <1>5, <1>6, <1>7

LEMMA DecideFacts ==
    ASSUME PlanInv, Decide
    PROVE  /\ plan' \in PlanMemory /\ plan'.pc = "done" /\ plan'.at = clock
           /\ plan'.asked = plan.asked /\ plan'.final = {} /\ plan'.snaps = {}
           /\ plan.blocked => plan'.remove = {} /\ plan'.drop = {} /\ plan'.aged = {}
           /\ ~plan.blocked => /\ plan'.remove = Removable
                               /\ plan'.drop = Unshared(Removable) /\ plan'.aged = plan.aged
<1> DEFINE remove == IF plan.blocked THEN {} ELSE Removable
           drop == IF plan.blocked THEN {} ELSE Unshared(Removable)
           aged == IF plan.blocked THEN {} ELSE plan.aged
<1>1. plan.pc = "decide" /\ plan \in PlanMemory /\ clock \in Nat /\ snaps \subseteq Snapshots
      /\ builds \subseteq Deployments
  BY DEF Decide, Planning, PlanInv, PlannerInv, StoredInv, HostInv, StoreInv, Inv, TypeOK
<1>2. remove \subseteq Deployments /\ drop \subseteq Snapshots /\ aged \subseteq Requests
  BY <1>1, RemovableFacts DEF PlanMemory
<1>3. plan' = [NoPlan EXCEPT !.pc = "done", !.asked = plan.asked, !.at = clock,
                             !.blocked = plan.blocked, !.remove = remove, !.drop = drop,
                             !.aged = aged]
  BY DEF Decide
<1> HIDE DEF remove, drop, aged
<1>4. /\ plan' \in PlanMemory /\ plan'.pc = "done" /\ plan'.at = clock
      /\ plan'.asked = plan.asked /\ plan'.final = {} /\ plan'.snaps = {}
      /\ plan'.remove = remove /\ plan'.drop = drop /\ plan'.aged = aged
  BY <1>1, <1>2, <1>3 DEF NoPlan, PlanMemory
<1>5. QED BY <1>4 DEF remove, drop, aged

LEMMA DecideStep ==
    ASSUME PlanInv, Decide
    PROVE  PlanInv'
<1>1. /\ plan.pc = "decide" /\ OnlyPlans /\ lock' = None /\ lock = Planner
  BY DEF Decide, Planning, OnlyPlans, PlanInv, PlannerInv, InProgress, AfterIncoming
<1>2. HostInv' /\ StoredInv' /\ CandidateInv' /\ TimeInv'
  BY <1>1, PlannerStays
<1>3. /\ plan' \in PlanMemory /\ plan'.pc = "done" /\ plan'.at = clock /\ plan'.asked = plan.asked
      /\ plan'.remove \subseteq Removable /\ plan'.drop \subseteq Unshared(Removable)
      /\ plan'.aged \subseteq plan.aged
  BY DecideFacts
<1>4. UNCHANGED <<active, builds, clock, selections, req, result, proc, txn, reply, applied, snaps, failed>>
  BY <1>1 DEF OnlyPlans, durableVars, queueVars, leftovers
<1>5. PlannerInv'
  <2>1. "done" \notin InProgress /\ None # Planner
    BY RetentionAssumption, StoreAssumption DEF InProgress, AfterIncoming
  <2>2. QED BY <1>1, <1>3, <1>4, <2>1, RemovableFacts DEF PlanInv, PlannerInv
<1>6. ReadInv'
  BY <1>3, <1>4 DEF PlanInv, ReadInv, AfterIncoming
<1>7. UnusedInv'
  <2>1. \A a \in Actors : txn[a].phase # "active"
    <3>1. Planner \in Actors /\ TypeOK /\ LockInv /\ txn[Planner].phase = "idle"
      BY RetentionAssumption DEF PlanInv, PlannerInv, HostInv, StoreInv, Inv
    <3>2. QED BY <1>1, <3>1, Exclusion
  <2>2. clock \in Nat /\ clock <= clock
    BY TimesAreNumbers DEF PlanInv
  <2>3. /\ active.cur # None => active.cur.dep \notin plan'.remove
        /\ active.prev # None => active.prev.dep \notin plan'.remove
    BY <1>1, <1>3, RemovableFacts DEF DepOf
  <2>4. \A r \in Requests : result[r].outcome = "CANDIDATE_READY" => result[r].cand \notin plan'.remove
    <3>1. \A r \in Requests : result[r].outcome = "CANDIDATE_READY" => Evidence(r)
      BY DEF PlanInv, HostInv, QueueInv, Evidence
    <3>2. QED BY <1>1, <1>3, <3>1, RemovableFacts
  <2>5. HasMade' => proc.made \notin plan'.remove
    BY <1>1, <1>3, <1>4, RemovableFacts DEF HasMade
  <2>6. QED BY <1>3, <1>4, <2>1, <2>2, <2>3, <2>4, <2>5 DEF UnusedInv
<1>8. PlannedStaysUnused'
  <2>1. \A s \in selections : ~(s.at > clock)
    BY TimesAreNumbers DEF PlanInv, TimeInv
  <2>2. QED BY <1>3, <1>4, <2>1 DEF PlannedStaysUnused
<1>9. QED BY <1>2, <1>5, <1>6, <1>7, <1>8 DEF PlanInv

-----------------------------------------------------------------------------
(* The invariant and what follows from it *)

LEMMA PlanInitially == InitRetention => PlanInv
<1> SUFFICES ASSUME InitRetention PROVE PlanInv
  OBVIOUS
<1>1. /\ HostInv /\ Init /\ plan = NoPlan /\ snaps = {} /\ failed = {}
  BY HostInitially DEF InitRetention, InitHost
<1>2. PlannerInv
  <2>1. NoPlan \in PlanMemory
    BY DEF NoPlan, PlanMemory
  <2>2. Planner \in Actors /\ None # Planner
    BY RetentionAssumption, StoreAssumption
  <2>3. txn[Planner].phase = "idle" /\ lock = None
    BY <1>1, <2>2 DEF Init, NoTxn
  <2>4. QED BY <1>1, <2>1, <2>2, <2>3 DEF PlannerInv, NoPlan, InProgress, AfterIncoming
<1>3. proc.pc = "off" /\ \A r \in Requests : result[r] = NoResult
  BY DEF InitRetention, InitHost, NoRun
<1>4. StoredInv
  BY <1>1, <1>3 DEF StoredInv, Init, SnapsOf
<1>5. CandidateInv
  BY <1>3 DEF CandidateInv, Evidence, NoResult
<1>6. ReadInv
  BY <1>1 DEF ReadInv, NoPlan, AfterIncoming
<1>7. TimeInv
  BY <1>1 DEF TimeInv, Init, InitRetention, InitHost
<1>8. UnusedInv /\ PlannedStaysUnused
  BY <1>1 DEF UnusedInv, PlannedStaysUnused, NoPlan, Init
<1>9. QED BY <1>1, <1>2, <1>4, <1>5, <1>6, <1>7, <1>8 DEF PlanInv

\* Every step is one of the planner's or one around it.
LEMMA RetentionSteps ==
    ASSUME [NextRetention]_<<vars, retentionVars>>
    PROVE  PlannerStep \/ (Moves /\ HostMoves /\ UNCHANGED plan)
<1>1. CASE Process
  BY <1>1 DEF Moves, Process, HostMoves, Outside
<1>2. CASE /\ \/ \E r \in Requests, s \in Snapshots, rel \in Releases :
                   Submit(r, s, rel, DepOf(projection))
              \/ \E r \in Requests : Authorize(r)
              \/ \E o \in Operators \ {Planner} :
                   \/ OperatorCommand(o) /\ UNCHANGED reports
                   \/ OperatorStep(o) \/ OperatorFault(o)
              \/ UNCHANGED vars
           /\ UNCHANGED retentionVars
  BY <1>2 DEF Moves, HostMoves, Outside, retentionVars
<1>3. QED BY <1>1, <1>2 DEF NextRetention, retentionVars


\* The invariant is inductive.
LEMMA PlanStep ==
    ASSUME PlanInv, [NextRetention]_<<vars, retentionVars>>
    PROVE  PlanInv'
<1>1. CASE PlannerStep
  BY <1>1, BeginStep, ResultsStep, IncomingStep, LaterReads, DecideStep DEF PlannerStep
<1>2. CASE Moves /\ HostMoves /\ UNCHANGED plan
  <2>1. /\ HostInv /\ PlannerInv /\ StoredInv /\ CandidateInv /\ ReadInv /\ TimeInv /\ Unused
    BY DEF PlanInv, Unused
  <2>2. HostInv'
    BY <1>2, <2>1, AroundPlanner
  <2>3. StoredInv' /\ snaps \subseteq snaps' /\ failed \subseteq failed'
    BY <1>2, <2>1, <2>2, StoredStep
  <2>4. PlannerInv' /\ CandidateInv' /\ ReadInv'
    BY <1>2, <2>1, <2>3, PlannerKept, CandidateStep, ReadKept
  <2>5. TimeInv' /\ Unused'
    BY <1>2, <2>1, <2>2, TimeStep, UnusedStep
  <2>6. QED BY <2>2, <2>3, <2>4, <2>5 DEF PlanInv, Unused
<1>3. QED BY <1>1, <1>2, RetentionSteps

\* What a plan knows and lists: see PlanInv.
THEOREM RetentionInvariant == SpecRetention => []PlanInv
<1>1. PlanInv /\ [NextRetention]_<<vars, retentionVars>> => PlanInv'
  BY PlanStep
<1>2. QED BY <1>1, PlanInitially, PTL DEF SpecRetention

\* The planner holds the deployment lock from PlanBegin until it has decided,
\* and lists only deployments, snapshots and failed builds that are stored.
THEOREM PlanTypesHold == SpecRetention => []PlanTypeOK
<1>1. PlanInv => PlanTypeOK
  <2> SUFFICES ASSUME PlanInv PROVE PlanTypeOK
    OBVIOUS
  <2>1. plan.pc \in {"off", "done"} \union InProgress
    BY DEF PlanInv, PlannerInv, PlanMemory
  <2>2. plan.pc \in InProgress <=> plan.pc \notin {"off", "done"}
    BY <2>1 DEF InProgress, AfterIncoming
  <2>3. QED BY <2>2, HostTyped DEF PlanInv, PlannerInv, StoredInv, PlanTypeOK
<1>2. QED BY <1>1, RetentionInvariant, PTL

\* What plan_deployment_retention listed is never selected again by a commit
\* or a rollback of the host, only by an operator who promotes it anew.
THEOREM ListedStaysUnused == SpecRetention => []PlannedStaysUnused
<1>1. PlanInv => PlannedStaysUnused
  BY DEF PlanInv
<1>2. QED BY <1>1, RetentionInvariant, PTL

-----------------------------------------------------------------------------
(* The step in which the planner decides *)

LEMMA OnlyDecideEnds ==
    ASSUME PlanInv, [NextRetention]_<<vars, retentionVars>>, Planning("decide"), plan'.pc = "done"
    PROVE  Decide
<1>1. plan.pc = "decide"
  BY DEF Planning
<1>2. PlannerStep
  BY <1>1, RetentionSteps
<1>3. QED BY <1>1, <1>2 DEF PlannerStep, PlanBegin, ReadResults, ReadIncoming, ReadCommits,
     CheckStore, ListOrphans, ProbePins, Reads, Planning

\* Nothing that is selected, pinned, waited for by a request that was open
\* before the plan began, or evidence of a failed commit is listed, although
\* the queue directories are read one after the other.
THEOREM PlansKeepWhatIsNeeded == SpecRetention => PlanKeepsNeeded
<1> DEFINE open == {r \in plan.asked : ~Settled(r)}
           Kept1 == ({DepOf(active.cur), DepOf(active.prev)} \union plan.live) \intersect plan'.remove = {}
           Kept2 == (Candidates(open \union Lost) \union Expected(open)) \intersect plan'.remove = {}
           Kept3 == ({req[r].snap : r \in open} \union SnapsOf(builds \ plan'.remove))
                       \intersect plan'.drop = {}
<1>1. ASSUME PlanInv, [NextRetention]_<<vars, retentionVars>>, Planning("decide"), plan'.pc = "done"
      PROVE  Kept1 /\ Kept2 /\ Kept3
  <2>1. Decide /\ plan.pc = "decide"
    BY <1>1, OnlyDecideEnds DEF Planning
  <2>2. \/ plan'.remove = {} /\ plan'.drop = {}
        \/ plan'.remove = Removable /\ plan'.drop = Unshared(Removable)
    BY <1>1, <2>1, DecideFacts
  <2>3. \A r \in open : /\ r \in Requests /\ r \in plan.asked \ plan.final
                        /\ req[r].snap \in plan.snaps
                        /\ req[r].expected \in plan.deps \union {None}
    <3>1. plan.asked \subseteq Requests
      BY <1>1 DEF PlanInv, PlannerInv, PlanMemory
    <3>2. \A r \in open : r \in plan.asked \ plan.final
      BY <1>1, <2>1 DEF PlanInv, ReadInv, AfterIncoming
    <3>3. QED BY <1>1, <2>1, <3>1, <3>2 DEF PlanInv, ReadInv, AfterIncoming
  <2>4. \A r \in open \union Lost : r \in Requests /\ (result[r].cand # None => Evidence(r))
    <3>1. \A r \in Lost : r \in Requests /\ Evidence(r)
      BY DEF Lost, Evidence
    <3>2. \A r \in open : result[r] = NoResult \/ result[r].outcome = "CANDIDATE_READY"
      BY DEF Settled
    <3>3. NoResult.cand = None
      BY DEF NoResult
    <3>4. QED BY <2>3, <3>1, <3>2, <3>3 DEF Evidence
  <2>5. CASE plan'.remove = {} /\ plan'.drop = {}
    BY <2>5
  <2>6. CASE plan'.remove = Removable /\ plan'.drop = Unshared(Removable)
    <3>1. Kept1
      <4>1. \A d \in Removable : d \notin {DepOf(active.cur), DepOf(active.prev)} \union plan.live
        BY <1>1, <2>1, RemovableFacts
      <4>2. QED BY <2>6, <4>1
    <3>2. Candidates(open \union Lost) \intersect Removable = {}
      <4>1. \A r \in Requests : Evidence(r) => result[r].cand \notin Removable
        BY <1>1, <2>1, RemovableFacts
      <4>2. QED BY <2>4, <4>1 DEF Candidates
    <3>3. Expected(open) \intersect Removable = {}
      <4>1. \A d \in Removable : d \notin plan.deps
        BY <1>1, <2>1, RemovableFacts
      <4>2. QED BY <2>3, <4>1 DEF Expected
    <3>4. Kept3
      <4> DEFINE asked == {req[r].snap : r \in open}
                 shared == SnapsOf(builds \ Removable)
                 dropped == Unshared(Removable)
      <4>1. asked \subseteq plan.snaps
        BY <2>3
      <4>2. dropped \intersect (plan.snaps \union shared) = {}
        BY <1>1, <2>1, RemovableFacts
      <4>3. Kept3 <=> (asked \union shared) \intersect dropped = {}
        BY <2>6
      <4> HIDE DEF asked, shared, dropped
      <4>4. (asked \union shared) \intersect dropped = {}
        BY <4>1, <4>2
      <4>5. QED BY <4>3, <4>4
    <3>5. QED BY <2>6, <3>1, <3>2, <3>3, <3>4
  <2>7. QED BY <2>2, <2>5, <2>6
<1>2. PlanInv /\ [NextRetention]_<<vars, retentionVars>> =>
        [Planning("decide") /\ plan'.pc = "done" => Kept1 /\ Kept2 /\ Kept3]_<<vars, retentionVars>>
  BY <1>1
<1>3. QED BY <1>2, RetentionInvariant, PTL DEF SpecRetention, PlanKeepsNeeded

-----------------------------------------------------------------------------
(* What a plan keeps of the deployments nobody refers to *)

\* There are finitely many builds: every step makes at most one.
LEMMA BuildsFinite ==
    ASSUME PlanInv, [NextRetention]_<<vars, retentionVars>>, IsFiniteSet(builds)
    PROVE  IsFiniteSet(builds')
<1>1. PICK V : V = vouched
  OBVIOUS
<1>2. ASSUME NEW a \in Actors, Acts(a, V)
      PROVE  UNCHANGED builds \/ \E d : builds' = builds \union {d}
  BY <1>2 DEF durableVars, Acts, Answers, Leaves, RebuildBegin, RebuildEnd, PromoteUnchanged,
     PromoteSelect, RollbackBegin, FinishPending, Enter, PublishRead, WriteActive, WriteJournal,
     FinishSelect, ReplaceActive, ClearJournal, CreateHistory, WriteHistory, WriteProjection,
     PublishWrite
<1>3. CASE PlannerStep
  <2>1. UNCHANGED builds
    BY <1>3 DEF PlannerStep, PlanBegin, ReadResults, ReadIncoming, ReadCommits, CheckStore,
       ListOrphans, ProbePins, Decide, Reads, durableVars, storeVars, vars
  <2>2. QED BY <2>1
<1>4. CASE HostMoves
  <2>1. UNCHANGED storeVars \/ \E a \in Actors \ {Planner} : Acts(a, V)
    BY <1>1, <1>4, MovesAct DEF PlanInv
  <2>2. UNCHANGED builds \/ \E d : builds' = builds \union {d}
    BY <1>2, <2>1 DEF storeVars, durableVars
  <2>3. CASE UNCHANGED builds
    BY <2>3
  <2>4. ASSUME NEW d, builds' = builds \union {d}
        PROVE  IsFiniteSet(builds')
    BY <2>4, FS_AddElement
  <2>5. QED BY <2>2, <2>3, <2>4
<1>5. QED BY <1>3, <1>4, RetentionSteps


\* Every deployment that is not kept as one of the Keep most recent has Keep
\* of those that are before it: one of them with the fewest newer ones is
\* found among any that are not kept, because the builds are finitely many.
LEMMA RecentOnesStay ==
    ASSUME PlanInv, IsFiniteSet(builds), NEW d \in builds \ Reserved, d \notin Additional
    PROVE  Cardinality(Newer(d) \intersect Additional) >= Keep
<1> DEFINE others == builds \ Reserved
           dropped == (Newer(d) \union {d}) \ Additional
           sets == {Newer(e) : e \in dropped}
<1>1. \A e \in others : Times(e) \subseteq Nat
  BY DEF PlanInv, HostInv, StoreInv, Inv, TypeOK, Selected, Times
<1>2. \A e \in others : Newer(e) \subseteq others
  BY DEF Newer
<1>3. \A e \in others : \A f \in Newer(e) : Newer(f) \subseteq Newer(e)
  <2> SUFFICES ASSUME NEW e \in others, NEW f \in Newer(e), NEW g \in Newer(f)
               PROVE  g \in Newer(e)
    OBVIOUS
  <2>1. PICK t \in Times(f) : \A u \in Times(e) : t > u
    BY DEF Newer
  <2>2. PICK v \in Times(g) : \A u \in Times(f) : v > u
    BY DEF Newer
  <2>3. f \in others /\ g \in others
    BY DEF Newer
  <2>4. v \in Nat /\ t \in Nat /\ Times(e) \subseteq Nat /\ v > t
    BY <1>1, <2>1, <2>2, <2>3
  <2>5. \A u \in Times(e) : v > u
    BY <2>1, <2>4
  <2>6. QED BY <2>3, <2>5 DEF Newer
<1>4. \A e \in others : e \notin Newer(e)
  <2> SUFFICES ASSUME NEW e \in others, NEW t \in Times(e), \A u \in Times(e) : t > u
               PROVE  FALSE
    BY DEF Newer
  <2>1. t \in Nat /\ t > t
    BY <1>1
  <2>2. QED BY <2>1
<1>5. \A e \in others : IsFiniteSet(Newer(e)) /\ Cardinality(Newer(e)) \in Nat
  <2> SUFFICES ASSUME NEW e \in others
               PROVE  IsFiniteSet(Newer(e)) /\ Cardinality(Newer(e)) \in Nat
    OBVIOUS
  <2>1. Newer(e) \in SUBSET builds
    BY DEF Newer
  <2>2. IsFiniteSet(Newer(e))
    BY <2>1, FS_Subset
  <2>3. QED BY <2>2, FS_CardinalityType
<1>6. \A e \in others : e \in Additional <=> Cardinality(Newer(e)) < Keep
  BY DEF Additional, Newer
<1>7. dropped \subseteq others /\ d \in dropped
  BY <1>2
<1>8. PICK e \in dropped : \A f \in dropped : ~(Newer(f) \subseteq Newer(e) /\ Newer(f) # Newer(e))
  <2> DEFINE R == StrictSubsetOrdering(others)
  <2>1. IsWellFoundedOn(R, FiniteSubsetsOf(others))
    BY FS_StrictSubsetOrderingWellFounded
  <2>2. sets \subseteq FiniteSubsetsOf(others) /\ sets # {}
    BY <1>2, <1>5, <1>7 DEF FiniteSubsetsOf
  <2> HIDE DEF R, sets
  <2>3. \E s \in sets : \A y \in sets : <<y, s>> \notin R
    BY <2>1, <2>2, WFMin
  <2>4. PICK s \in sets : \A y \in sets : <<y, s>> \notin R
    BY <2>3
  <2> USE DEF sets
  <2>5. PICK k \in dropped : s = Newer(k)
    OBVIOUS
  <2>6. \A f \in dropped : <<Newer(f), Newer(k)>> \notin R
    BY <2>4, <2>5
  <2>7. \A f \in dropped : Newer(f) \in SUBSET others
    BY <1>2, <1>7
  <2>8. QED BY <2>6, <2>7 DEF R, StrictSubsetOrdering
<1> HIDE DEF sets
<1>9. e \in others /\ Newer(e) \subseteq Newer(d)
  BY <1>3, <1>7
<1>10. Newer(e) \subseteq Newer(d) \intersect Additional
  <2> SUFFICES ASSUME NEW f \in Newer(e), f \notin Additional PROVE FALSE
    BY <1>9
  <2>1. f \in dropped
    BY <1>9
  <2>2. Newer(f) \subseteq Newer(e) /\ f \notin Newer(f)
    BY <1>2, <1>3, <1>4, <1>9
  <2>3. QED BY <1>8, <2>1, <2>2
<1>11. Cardinality(Newer(e)) >= Keep
  BY <1>5, <1>6, <1>9, RetentionAssumption
<1>12. /\ Cardinality(Newer(e)) <= Cardinality(Newer(d) \intersect Additional)
       /\ Cardinality(Newer(d) \intersect Additional) \in Nat
  <2> DEFINE kept == Newer(d) \intersect Additional
  <2>1. IsFiniteSet(kept)
    <3>1. kept \in SUBSET Newer(d) /\ IsFiniteSet(Newer(d))
      BY <1>5
    <3> HIDE DEF kept
    <3>2. QED BY <3>1, FS_Subset
  <2>2. Newer(e) \in SUBSET kept
    BY <1>10
  <2> HIDE DEF kept
  <2>3. Cardinality(Newer(e)) <= Cardinality(kept) /\ Cardinality(kept) \in Nat
    BY <2>1, <2>2, FS_Subset, FS_CardinalityType
  <2>4. QED BY <2>3 DEF kept
<1>13. QED BY <1>5, <1>9, <1>11, <1>12, RetentionAssumption

\* A plan removes the oldest first: for every deployment it lists, at least
\* Keep that were selected more recently, and that nobody refers to either,
\* stay where they are, whatever the processor, operators and publishers do
\* while it reads.
THEOREM PlansKeepRecent == SpecRetention => PlanKeepsRecent
<1>1. InitRetention => IsFiniteSet(builds)
  BY FS_EmptySet DEF InitRetention, InitHost, Init
<1>2. PlanInv /\ IsFiniteSet(builds) /\ [NextRetention]_<<vars, retentionVars>> => IsFiniteSet(builds)'
  BY BuildsFinite
<1>3. ASSUME PlanInv, IsFiniteSet(builds), [NextRetention]_<<vars, retentionVars>>,
             Planning("decide"), plan'.pc = "done"
      PROVE  \A d \in plan'.remove : Cardinality(Newer(d) \ plan'.remove) >= Keep
  <2> SUFFICES ASSUME NEW d \in plan'.remove
               PROVE  Cardinality(Newer(d) \ plan'.remove) >= Keep
    OBVIOUS
  <2>1. Decide
    BY <1>3, OnlyDecideEnds
  <2>2. plan'.remove = Removable
    BY <1>3, <2>1, DecideFacts
  <2>3. d \in builds \ Reserved /\ d \notin Additional
    BY <2>2 DEF Removable
  <2>4. Cardinality(Newer(d) \intersect Additional) >= Keep
    BY <1>3, <2>3, RecentOnesStay
  <2>5. Newer(d) \intersect Additional \subseteq Newer(d) \ plan'.remove
    BY <2>2 DEF Removable
  <2>6. Newer(d) \ plan'.remove \in SUBSET builds
    BY DEF Newer
  <2>7. IsFiniteSet(Newer(d) \ plan'.remove)
    BY <1>3, <2>6, FS_Subset
  <2> DEFINE small == Newer(d) \intersect Additional
             large == Newer(d) \ plan'.remove
  <2>8. small \in SUBSET large /\ IsFiniteSet(large)
    BY <2>5, <2>7
  <2> HIDE DEF small, large
  <2>9. /\ Cardinality(small) <= Cardinality(large)
        /\ Cardinality(small) \in Nat /\ Cardinality(large) \in Nat
    BY <2>8, FS_Subset, FS_CardinalityType
  <2>10. Cardinality(small) >= Keep
    BY <2>4 DEF small
  <2>11. Cardinality(large) >= Keep
    BY <2>9, <2>10, RetentionAssumption
  <2>12. QED BY <2>11 DEF large
<1>4. PlanInv /\ IsFiniteSet(builds) /\ [NextRetention]_<<vars, retentionVars>>
        => [Planning("decide") /\ plan'.pc = "done" =>
              \A d \in plan'.remove : Cardinality(Newer(d) \ plan'.remove) >= Keep]_<<vars, retentionVars>>
  BY <1>3
<1>5. QED BY <1>1, <1>2, <1>4, RetentionInvariant, PTL DEF SpecRetention, PlanKeepsRecent
=============================================================================
