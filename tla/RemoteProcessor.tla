--------------------------- MODULE RemoteProcessor ---------------------------
(***************************************************************************)
(* The host processor of pipeline.py (process_remote) on the deployment    *)
(* store: one systemd job that finishes a pending rollback, republishes    *)
(* the projection, builds and evaluates the queued submissions, applies    *)
(* the commits the publisher authorized, and publishes again. Operators    *)
(* run `db promote`, `db rollback` and `db evaluate-candidate` next to it. *)
(*                                                                         *)
(*   req         incoming/<publisher>/<id>: the immutable request          *)
(*   result      results/<publisher>/<id>.json                             *)
(*   marker      commits/<publisher>/<id>.json                             *)
(*   cjournal    pipeline-state/commit-journal/<publisher>/<id>.json       *)
(*   evaluation  builds/<run>/promotion-evaluation.json                    *)
(*   policy      the release (package, revision, image) and evaluation     *)
(*               suite the host is configured with                         *)
(*   proc        the processor's own memory; a crash loses it              *)
(*                                                                         *)
(* applied and vouched are history variables: the promotions the processor *)
(* made and for which request, and the builds that ever had a passing      *)
(* evaluation report. The files of a request are sorted by request id,     *)
(* which is random, so the model takes them in any order. A result file    *)
(* binds candidate and expected deployment, and nothing rewrites them, so  *)
(* the marker and the commit journal are the sets of requests that have    *)
(* one: what the code compares with the result is equal to it.             *)
(***************************************************************************)
EXTENDS DeploymentStore

CONSTANTS Requests,   \* request ids
          Snapshots,  \* vault snapshots
          Policies,   \* promotion policies: a release and an evaluation suite
          Runs,       \* build run ids
          Processor,  \* the one process that runs process_remote
          MaxOps      \* bound on operator commands and host upgrades

ASSUME ProcessorAssumption ==
    /\ Processor \in Actors
    /\ None \notin Requests /\ None \notin Policies
    /\ \A p \in Policies : DOMAIN p = {"rel", "suite"}
    /\ Deployments = [snap : Snapshots, rel : {p.rel : p \in Policies}, run : Runs]
    /\ MaxOps \in Nat

VARIABLES req, result, marker, cjournal, evaluation, vouched, policy, proc, ops,
          applied

reports == <<evaluation, vouched>>
queueVars == <<req, result, marker, cjournal, reports>>
vars == <<storeVars, queueVars, policy, proc, ops, applied>>

Releases == {p.rel : p \in Policies}

Failures == {"REMOTE_SNAPSHOT_INVALID", "BUILD_FAILED", "EVALUATION_FAILED",
             "PROMOTION_CONFLICT"}

Outcomes == {"CANDIDATE_READY", "PROMOTED", "UNCHANGED"} \union Failures

NoResult == [outcome |-> "NONE", cand |-> None, policy |-> None]

\* The processor reads its configuration once, when a run starts.
NoRun == [pc |-> "off", todo |-> {}, work |-> None, made |-> None, policy |-> None]

Operators == Actors \ {Processor}

InitHost ==
    /\ Init
    /\ req = [r \in Requests |-> None]
    /\ result = [r \in Requests |-> NoResult]
    /\ marker = {} /\ cjournal = {}
    /\ evaluation = [d \in Deployments |-> [passed |-> FALSE, policy |-> None]]
    /\ vouched = {}
    /\ policy \in Policies
    /\ proc = NoRun
    /\ ops = 0
    /\ applied = {}

-----------------------------------------------------------------------------
(* The publisher, through the receiver *)

\* A request is queued for a snapshot that the projection did not show when
\* the publisher read it, at any time before; it expects what was shown.
Submit(r, s, rel, seen) ==
    /\ req[r] = None
    /\ ~(seen # None /\ seen.snap = s /\ seen.rel = rel)
    /\ req' = [req EXCEPT ![r] = [snap |-> s, rel |-> rel, expected |-> seen]]
    /\ UNCHANGED <<storeVars, result, marker, cjournal, reports, policy, proc, ops, applied>>

\* handleCommit accepts only while the result is CANDIDATE_READY.
Authorize(r) ==
    /\ result[r].outcome = "CANDIDATE_READY"
    /\ r \notin marker
    /\ marker' = marker \union {r}
    /\ UNCHANGED <<storeVars, req, result, cjournal, reports, policy, proc, ops, applied>>

-----------------------------------------------------------------------------
(* process_remote *)

At(p) == proc.pc = p

\* The store operation the processor called has returned or raised.
Returned == txn[Processor].phase = "idle" /\ reply[Processor] # "none"

Go(p) == proc' = [proc EXCEPT !.pc = p]

\* An exception that process_remote does not catch ends the run.
Abort == proc' = NoRun

StartRun ==
    /\ At("off")
    /\ proc' = [NoRun EXCEPT !.pc = "recover", !.policy = policy]
    /\ UNCHANGED <<storeVars, queueVars, policy, ops, applied>>

\* Mutant: a pending rollback is left to the operator.
RecoverNothing ==
    /\ At("recover")
    /\ Idle(Processor) /\ Answer(Processor, "nothing") /\ UNCHANGED faults
    /\ Go("recovering")
    /\ UNCHANGED <<queueVars, policy, ops, applied>>

Recover ==
    /\ At("recover")
    /\ recover_pending_rollback(Processor)
    /\ Go("recovering")
    /\ UNCHANGED <<queueVars, policy, ops, applied>>

Recovered ==
    /\ At("recovering") /\ Returned
    /\ Return(Processor)
    /\ IF reply[Processor] \in {"nothing", "rolledback"} THEN Go("publish") ELSE Abort
    /\ UNCHANGED <<queueVars, policy, ops, applied>>

\* Mutant: the projection is only published where there is none.
PublishMissing(before, during) ==
    /\ At(before)
    /\ IF projection = None THEN PublishRead(Processor)
       ELSE Idle(Processor) /\ Answer(Processor, "published") /\ UNCHANGED faults
    /\ Go(during)
    /\ UNCHANGED <<queueVars, policy, ops, applied>>

Publish(before, during) ==
    /\ At(before)
    /\ PublishRead(Processor)
    /\ Go(during)
    /\ UNCHANGED <<queueVars, policy, ops, applied>>

\* Requests that have a result are skipped: every result is written with
\* retryable false.
Published ==
    /\ At("publishing") /\ Returned
    /\ Return(Processor)
    /\ IF reply[Processor] = "published"
       THEN proc' = [proc EXCEPT !.pc = "submissions",
                                 !.todo = {r \in Requests : req[r] # None /\ result[r] = NoResult}]
       ELSE Abort
    /\ UNCHANGED <<queueVars, policy, ops, applied>>

-----------------------------------------------------------------------------
(* _process_submission *)

\* _write_remote_result for the request at hand.
Settle(r, o, d, p) ==
    result' = [result EXCEPT ![r] = [outcome |-> o, cand |-> d, policy |-> p]]

NextIn(loop, r) ==
    proc' = [proc EXCEPT !.pc = loop, !.todo = @ \ {r}, !.work = None, !.made = None]

RefuseSubmission(r, o) ==
    /\ At("submissions") /\ r \in proc.todo
    /\ Settle(r, o, None, None)
    /\ NextIn("submissions", r)
    /\ UNCHANGED <<storeVars, req, marker, cjournal, reports, policy, ops, applied>>

\* The payload, its receipt and its proofs do not fit together, or the
\* snapshot cannot be stored.
RejectPayload(r) == RefuseSubmission(r, "REMOTE_SNAPSHOT_INVALID")

\* The request or its exporter belongs to another release.
RejectRelease(r) == r \in proc.todo /\ req[r].rel # proc.policy.rel
                    /\ RefuseSubmission(r, "BUILD_FAILED")

\* rebuild would reproduce the selected deployment.
SameBuild(r) == /\ active.cur # None
                /\ active.cur.dep.snap = req[r].snap
                /\ active.cur.dep.rel = proc.policy.rel

BuildSubmission(r) ==
    /\ At("submissions") /\ r \in proc.todo
    /\ req[r].rel = proc.policy.rel
    /\ \/ Idle(Processor) /\ LockBusy(Processor)
       \/ SameBuild(r) /\ RebuildUnchanged(Processor)
       \/ ~SameBuild(r) /\ RebuildBegin(Processor)
    /\ proc' = [proc EXCEPT !.pc = "building", !.work = r]
    /\ UNCHANGED <<queueVars, policy, ops, applied>>

\* A build has a fresh run id (uuid4).
FinishBuild ==
    /\ At("building")
    /\ \/ RebuildFails(Processor) /\ UNCHANGED proc
       \/ \E run \in Runs :
            LET d == [snap |-> req[proc.work].snap, rel |-> proc.policy.rel, run |-> run] IN
            /\ \A b \in builds : b.run # run
            /\ RebuildEnd(Processor, d)
            /\ proc' = [proc EXCEPT !.made = d]
    /\ UNCHANGED <<queueVars, policy, ops, applied>>

\* Mutant: a failed build leaves the request for the next run.
BuiltOrLeft ==
    /\ At("building") /\ Returned
    /\ Return(Processor)
    /\ \/ /\ reply[Processor] = "built"
          /\ Go("evaluate") /\ UNCHANGED result
       \/ /\ reply[Processor] = "same"
          /\ Settle(proc.work, "UNCHANGED", DepOf(active.cur), proc.policy)
          /\ NextIn("submissions", proc.work)
       \/ /\ reply[Processor] \in {"refused", "ioerror"} /\ UNCHANGED result
          /\ NextIn("submissions", proc.work)
    /\ UNCHANGED <<req, marker, cjournal, reports, policy, ops, applied>>

\* "unchanged" is confirmed against active.json, read again without the lock.
Built ==
    /\ At("building") /\ Returned
    /\ Return(Processor)
    /\ \/ /\ reply[Processor] = "built"
          /\ Go("evaluate") /\ UNCHANGED result
       \/ /\ reply[Processor] = "same"
          /\ active.cur # None /\ active.cur.dep.snap = req[proc.work].snap
          /\ Settle(proc.work, "UNCHANGED", active.cur.dep, proc.policy)
          /\ NextIn("submissions", proc.work)
       \/ /\ \/ reply[Processor] \in {"refused", "ioerror"}
             \/ /\ reply[Processor] = "same"
                /\ active.cur = None \/ active.cur.dep.snap # req[proc.work].snap
          /\ Settle(proc.work, "BUILD_FAILED", None, None)
          /\ NextIn("submissions", proc.work)
    /\ UNCHANGED <<req, marker, cjournal, reports, policy, ops, applied>>

\* evaluate_candidate writes its report, whatever the suites say.
Report(d, ok, p) ==
    /\ evaluation' = [evaluation EXCEPT ![d] = [passed |-> ok, policy |-> p]]
    /\ vouched' = IF ok THEN vouched \union {d} ELSE vouched

\* A suite fails, or a query or a suite cannot be run at all.
EvaluationFails ==
    /\ At("evaluate")
    /\ Report(proc.made, FALSE, None) \/ UNCHANGED reports
    /\ Settle(proc.work, "EVALUATION_FAILED", None, None)
    /\ NextIn("submissions", proc.work)
    /\ UNCHANGED <<storeVars, req, marker, cjournal, policy, ops, applied>>

Evaluate ==
    /\ At("evaluate")
    /\ Report(proc.made, TRUE, None)
    /\ Go("bind")
    /\ UNCHANGED <<storeVars, req, result, marker, cjournal, policy, ops, applied>>

\* The passing report is rewritten with the promotion policy it stands for.
BindPolicy ==
    /\ At("bind")
    /\ \/ Report(proc.made, TRUE, proc.policy) /\ Go("ready") /\ UNCHANGED result
       \/ /\ Settle(proc.work, "BUILD_FAILED", None, None)
          /\ NextIn("submissions", proc.work) /\ UNCHANGED reports
    /\ UNCHANGED <<storeVars, req, marker, cjournal, policy, ops, applied>>

\* Mutant: the commit journal is written before the commit is authorized.
WriteReadyJournalled ==
    /\ At("ready")
    /\ Settle(proc.work, "CANDIDATE_READY", proc.made, proc.policy)
    /\ cjournal' = cjournal \union {proc.work}
    /\ NextIn("submissions", proc.work)
    /\ UNCHANGED <<storeVars, req, marker, reports, policy, ops, applied>>

WriteReady ==
    /\ At("ready")
    /\ Settle(proc.work, "CANDIDATE_READY", proc.made, proc.policy)
    /\ NextIn("submissions", proc.work)
    /\ UNCHANGED <<storeVars, req, marker, cjournal, reports, policy, ops, applied>>

-----------------------------------------------------------------------------
(* _process_commit *)

\* Mutant: interrupted commits are passed over.
ListNewCommits ==
    /\ At("submissions") /\ proc.todo = {}
    /\ proc' = [proc EXCEPT !.pc = "commits",
                            !.todo = {r \in marker \ cjournal :
                                        result[r].outcome = "CANDIDATE_READY"}]
    /\ UNCHANGED <<storeVars, queueVars, policy, ops, applied>>

ListCommits ==
    /\ At("submissions") /\ proc.todo = {}
    /\ proc' = [proc EXCEPT !.pc = "commits",
                            !.todo = {r \in marker : result[r].outcome = "CANDIDATE_READY"}]
    /\ UNCHANGED <<storeVars, queueVars, policy, ops, applied>>

\* Mutant: the promotion policy of the candidate is not compared.
PolicyIgnored(r) == evaluation[result[r].cand].passed

\* The candidate was built and evaluated under the policy of this run.
PolicyHolds(r) == /\ result[r].policy = proc.policy
                  /\ evaluation[result[r].cand] = [passed |-> TRUE, policy |-> proc.policy]

IsActive(d) == DepOf(active.cur) = d

\* A commit with a journal was applied or interrupted before; it is never
\* applied again.
RefuseCommit(r) ==
    /\ At("commits") /\ r \in proc.todo
    /\ ~PolicyHolds(r) \/ (r \in cjournal /\ ~IsActive(result[r].cand))
    /\ Settle(r, "PROMOTION_CONFLICT", result[r].cand, result[r].policy)
    /\ NextIn("commits", r)
    /\ UNCHANGED <<storeVars, req, marker, cjournal, reports, policy, ops, applied>>

\* Mutant: an interrupted commit is started again.
BeginCommitAgain(r) ==
    /\ At("commits") /\ r \in proc.todo
    /\ PolicyHolds(r)
    /\ cjournal' = cjournal \union {r}
    /\ proc' = [proc EXCEPT !.pc = "promote", !.work = r]
    /\ UNCHANGED <<storeVars, req, result, marker, reports, policy, ops, applied>>

BeginCommit(r) ==
    /\ At("commits") /\ r \in proc.todo
    /\ PolicyHolds(r)
    /\ \/ r \notin cjournal
          /\ cjournal' = cjournal \union {r}
          /\ proc' = [proc EXCEPT !.pc = "promote", !.work = r]
       \/ r \in cjournal /\ IsActive(result[r].cand)
          /\ proc' = [proc EXCEPT !.pc = "repair", !.work = r]
          /\ UNCHANGED cjournal
    /\ UNCHANGED <<storeVars, req, result, marker, reports, policy, ops, applied>>

\* Mutant: the report is not required.
PromoteUnevaluated(a, d, expected) == Promote(a, d, expected)

\* promote(require_evaluation=True) reads the report again under the lock.
PromoteEvaluated(a, d, expected) ==
    \/ evaluation[d].passed /\ Promote(a, d, expected)
    \/ /\ ~evaluation[d].passed
       /\ \/ PromoteRefused(a)
          \/ Idle(a) /\ lock = None /\ Answer(a, "refused") /\ UNCHANGED faults

\* Mutant: the candidate replaces whatever is selected.
ApplyToCurrent ==
    /\ At("promote")
    /\ PromoteEvaluated(Processor, result[proc.work].cand, DepOf(active.cur))
    /\ Go("promoting")
    /\ UNCHANGED <<queueVars, policy, ops, applied>>

ApplyCommit ==
    /\ At("promote")
    /\ PromoteEvaluated(Processor, result[proc.work].cand, req[proc.work].expected)
    /\ Go("promoting")
    /\ UNCHANGED <<queueVars, policy, ops, applied>>

\* The outcome that the promotion's return value or exception stands for.
OutcomeOf(answer) == CASE answer = "promoted"  -> "PROMOTED"
                       [] answer = "unchanged" -> "UNCHANGED"
                       [] answer = "conflict"  -> "PROMOTION_CONFLICT"
                       [] answer = "refused"   -> "BUILD_FAILED"

SettleCommit(o) ==
    /\ Settle(proc.work, o, result[proc.work].cand, result[proc.work].policy)
    /\ NextIn(IF o \in {"PROMOTED", "UNCHANGED"} THEN "announce" ELSE "commits", proc.work)

\* After an OSError the candidate may be selected all the same; only then is
\* the bookkeeping repaired, otherwise the error ends the run.
Applied ==
    /\ At("promoting") /\ Returned
    /\ Return(Processor)
    /\ \/ reply[Processor] # "ioerror" /\ SettleCommit(OutcomeOf(reply[Processor]))
       \/ /\ reply[Processor] = "ioerror" /\ UNCHANGED result
          /\ IF IsActive(result[proc.work].cand) THEN Go("repair") ELSE Abort
    /\ UNCHANGED <<req, marker, cjournal, reports, policy, ops, applied>>

RepairCommit ==
    /\ At("repair")
    /\ Repair(Processor, result[proc.work].cand)
    /\ Go("repairing")
    /\ UNCHANGED <<queueVars, policy, ops, applied>>

\* A BuildError of the repair is not caught by process_remote.
Repaired ==
    /\ At("repairing") /\ Returned
    /\ Return(Processor)
    /\ IF reply[Processor] = "repaired" THEN SettleCommit("PROMOTED")
                                        ELSE Abort /\ UNCHANGED result
    /\ UNCHANGED <<req, marker, cjournal, reports, policy, ops, applied>>

Announced ==
    /\ At("announcing") /\ Returned
    /\ Return(Processor)
    /\ IF reply[Processor] = "published" THEN Go("commits") ELSE Abort
    /\ UNCHANGED <<queueVars, policy, ops, applied>>

ListDone == /\ At("commits") /\ proc.todo = {} /\ Go("finish")
            /\ UNCHANGED <<storeVars, queueVars, policy, ops, applied>>

EndRun ==
    /\ At("finishing") /\ Returned
    /\ Return(Processor)
    /\ Abort
    /\ UNCHANGED <<queueVars, policy, ops, applied>>

\* The store transaction that the processor called takes its next step.
WorkInStore ==
    /\ Step(Processor)
    /\ applied' = IF txn[Processor].phase = "active"
                  THEN applied \union {[req |-> proc.work, at |-> txn[Processor].target.cur.at,
                                        dep |-> txn[Processor].target.cur.dep,
                                        over |-> DepOf(active.cur), policy |-> proc.policy]}
                  ELSE applied
    /\ UNCHANGED <<queueVars, policy, proc, ops>>

ProcessorStep ==
    \/ StartRun \/ Recover \/ Recovered
    \/ Publish("publish", "publishing") \/ Published
    \/ \E r \in Requests : RejectPayload(r) \/ RejectRelease(r) \/ BuildSubmission(r)
    \/ FinishBuild \/ Built \/ EvaluationFails \/ Evaluate \/ BindPolicy \/ WriteReady
    \/ ListCommits
    \/ \E r \in Requests : RefuseCommit(r) \/ BeginCommit(r)
    \/ ApplyCommit \/ Applied \/ RepairCommit \/ Repaired
    \/ Publish("announce", "announcing") \/ Announced
    \/ ListDone \/ Publish("finish", "finishing") \/ EndRun
    \/ WorkInStore

\* An OSError inside a store operation, or the end of the whole process.
ProcessorFault ==
    \/ IOFault(Processor) /\ UNCHANGED <<queueVars, policy, proc, ops, applied>>
    \/ /\ ~At("off") /\ Stop(Processor) /\ Abort
       /\ UNCHANGED <<queueVars, policy, ops, applied>>

-----------------------------------------------------------------------------
(* Operators *)

Succeeded == {"promoted", "unchanged", "rolledback"}

\* db rollback, db promote and db evaluate-candidate. The last one writes the
\* report anew, for the suites of the operator and without a promotion policy.
OperatorCommand(o) ==
    /\ ops < MaxOps /\ ops' = ops + 1
    /\ \/ Rollback(o) /\ UNCHANGED reports
       \/ \E d \in builds, e \in Deployments \union {None} :
            PromoteEvaluated(o, d, e) /\ UNCHANGED reports
       \/ \E d \in builds, ok \in BOOLEAN :
            Idle(o) /\ Report(d, ok, None) /\ UNCHANGED storeVars
    /\ UNCHANGED <<req, result, marker, cjournal, policy, proc, applied>>

\* The command works, and publishes the projection if it succeeded.
OperatorStep(o) ==
    /\ \/ Step(o)
       \/ reply[o] \in Succeeded /\ PublishRead(o)
       \/ reply[o] \notin Succeeded /\ Return(o)
    /\ UNCHANGED <<queueVars, policy, proc, ops, applied>>

OperatorFault(o) == (IOFault(o) \/ Crash(o)) /\ UNCHANGED <<queueVars, policy, proc, ops, applied>>

\* The host is reconfigured: another release or another evaluation suite.
Upgrade(p) ==
    /\ ops < MaxOps /\ ops' = ops + 1
    /\ p # policy /\ policy' = p
    /\ UNCHANGED <<storeVars, queueVars, proc, applied>>

NextHost ==
    \/ \E r \in Requests, s \in Snapshots, rel \in Releases :
          \E seen \in {None} \union {x.dep : x \in selections} : Submit(r, s, rel, seen)
    \/ \E r \in Requests : Authorize(r)
    \/ ProcessorStep
    \/ ProcessorFault
    \/ \E o \in Operators : OperatorCommand(o) \/ OperatorStep(o) \/ OperatorFault(o)
    \/ \E p \in Policies : Upgrade(p)

SpecHost == InitHost /\ [][NextHost]_vars

\* systemd starts the processor again and again (timer and path units), and a
\* command that an operator started goes on until it ends or is interrupted.
FairSpecHost == /\ SpecHost
                /\ WF_vars(ProcessorStep)
                /\ \A o \in Operators : WF_vars(OperatorStep(o))

-----------------------------------------------------------------------------
(* Properties *)

\* Types of the queue files and of the processor's memory.
HostTypeOK ==
    /\ TypeOK
    /\ \A r \in Requests :
         /\ req[r] # None => req[r] \in [snap : Snapshots, rel : Releases,
                                        expected : Deployments \union {None}]
         /\ result[r] # NoResult => result[r] \in [outcome : Outcomes,
                                                  cand : Deployments \union {None},
                                                  policy : Policies \union {None}]
    /\ marker \subseteq Requests /\ cjournal \subseteq marker
    /\ proc.todo \subseteq Requests /\ proc.work \in Requests \union {None}

\* A commit authorization is applied at most once, even if the processor
\* stops between the replacement of active.json and the result file and an
\* operator rolls the candidate back before the next run.
AppliedOnce == \A x, y \in applied : x.req = y.req => x = y

\* The processor replaces active.json only for a commit the publisher
\* authorized, with the candidate it was told about, over the deployment the
\* publisher expected, and under the policy the candidate was evaluated for.
AppliedAsAuthorized ==
    \A x \in applied : /\ x.req \in marker
                       /\ x.dep = result[x.req].cand
                       /\ x.over = req[x.req].expected
                       /\ x.policy = result[x.req].policy

\* Whatever active.json ever selected, by the processor, an operator or a
\* rollback, had passed an evaluation before.
SelectedWasEvaluated == \A s \in selections : s.dep \in vouched

Host == INSTANCE PublicationHost
            WITH Releases <- Releases,
                 result <- [r \in Requests |-> [outcome |-> result[r].outcome,
                                               cand |-> result[r].cand]],
                 current <- DepOf(active.cur), shown <- DepOf(projection),
                 seen <- {s.dep : s \in selections},
                 applied <- {x.req : x \in applied}

\* The publisher may rely on PublicationHost: whatever crashes, whichever
\* release the host runs and whatever operators do, a request is answered
\* once and settled once, a commit is applied at most once and only over the
\* deployment its publisher expected, and only selected deployments are shown.
ImplementsHost == Host!Spec

\* No record of deployment-history is left half-written for good.
HistoryHeals == []<>(torn = {})

Settled(r) == result[r] # NoResult /\ result[r].outcome # "CANDIDATE_READY"

\* Every authorized commit gets a final result, whatever is interrupted, as
\* long as no history record stays torn.
CommitsSettle == HistoryHeals => \A r \in Requests : r \in marker ~> Settled(r)

\* Every queued request gets a result.
RequestsAnswered == HistoryHeals => \A r \in Requests : req[r] # None ~> result[r] # NoResult

\* A rollback that reached its journal is finished by the periodic runs.
RollbackFinishes == HistoryHeals => (journal # None ~> journal = None)

\* The unlocked publications may overwrite a newer projection, but once the
\* operators are quiet the projection becomes, and stays, the active deployment.
ProjectionConverges == HistoryHeals => <>[](projection = active.cur)

\* build.py, pipeline.py: a rollback journal is a durable, already authorized
\* intent that periodic processing finishes.
RollbackAlwaysFinishes == journal # None ~> journal = None
=============================================================================
