---------------------------- MODULE LocalPipeline ----------------------------
(***************************************************************************)
(* reconcile_local of pipeline.py: a host that receives its vault through  *)
(* a sync client builds and promotes it without a publisher. One run waits *)
(* until the vault is quiet, exports it, builds and evaluates the copy,    *)
(* looks at the vault and at active.json again and promotes. Editors (the  *)
(* sync client) change the vault, and operators the deployment, between    *)
(* any two of its steps.                                                   *)
(*                                                                         *)
(*   vault    the content of the synced vault (valid or not)               *)
(*   passed   the builds with a passing promotion-evaluation.json          *)
(*   release  the release the host is configured with                      *)
(*   last     last-result.json                                             *)
(*   run      the memory of the run: the release it was started for, the   *)
(*            content it saw, the deployment it read, the build it made    *)
(*                                                                         *)
(* History: run.recent is what the vault held since the run last inspected *)
(* it or finished its evaluation, run.did whether the run replaced         *)
(* active.json, chosen the replacements that runs made; last carries the   *)
(* did of the run that wrote it.                                           *)
(***************************************************************************)
EXTENDS DeploymentStore

CONSTANTS Contents,    \* what the vault may hold
          Valid,       \* the contents that pass the vault's validation
          Releases,    \* releases of the host
          Runs,        \* build run ids
          Reconciler,  \* the process that runs reconcile_local
          MaxEdits,    \* bound on changes of the vault
          MaxOps       \* bound on operator commands and host upgrades

ASSUME LocalAssumption ==
    /\ Reconciler \in Actors
    /\ Valid \subseteq Contents
    /\ None \notin Contents \union Releases
    /\ Deployments = [snap : Valid, rel : Releases, run : Runs]
    /\ MaxEdits \in Nat /\ MaxOps \in Nat

VARIABLES vault, edits, passed, release, run, last, ops, chosen

sourceVars == <<vault, edits>>
vars == <<storeVars, sourceVars, passed, release, run, last, ops, chosen>>

Operators == Actors \ {Reconciler}

NoRun == [pc |-> "off", rel |-> None, saw |-> None, before |-> None,
          expected |-> None, made |-> None, recent |-> {}, did |-> FALSE]

NoResult == [outcome |-> "NONE", dep |-> None, did |-> FALSE]

InitLocal ==
    /\ Init
    /\ vault \in Contents /\ edits = 0
    /\ passed = {}
    /\ release \in Releases
    /\ run = NoRun /\ last = NoResult
    /\ ops = 0 /\ chosen = {}

-----------------------------------------------------------------------------
(* The steps of a run *)

At(p) == run.pc = p

\* The store operation the run called has returned or raised.
Returned == txn[Reconciler].phase = "idle" /\ reply[Reconciler] # "none"

\* The run ends: the lock is released and last-result.json replaced.
End(o, d) ==
    /\ last' = [outcome |-> o, dep |-> d, did |-> run.did]
    /\ run' = NoRun

Fail(o) == End(o, None)

Go(p) == run' = [run EXCEPT !.pc = p] /\ UNCHANGED last

\* inspect_vault: the run knows the vault as it is at this moment.
Inspected(p, field) ==
    /\ run' = [run EXCEPT !.pc = p, ![field] = vault, !.recent = {vault}]
    /\ UNCHANGED last

\* Mutant: a run is not repeated after a failed promotion.
StartUnlessFailed ==
    /\ At("off") /\ last.outcome # "POST_PROMOTION_MISMATCH"
    /\ run' = [NoRun EXCEPT !.pc = "first", !.rel = release]
    /\ UNCHANGED <<storeVars, sourceVars, passed, release, last, ops, chosen>>

StartRun ==
    /\ At("off")
    /\ run' = [NoRun EXCEPT !.pc = "first", !.rel = release]
    /\ UNCHANGED <<storeVars, sourceVars, passed, release, last, ops, chosen>>

\* Another invocation finds pipeline.lock taken.
Overlap ==
    /\ ~At("off")
    /\ last' = [NoResult EXCEPT !.outcome = "UNCHANGED"]
    /\ UNCHANGED <<storeVars, sourceVars, passed, release, run, ops, chosen>>

\* Mutant: the vault's validation errors are not looked at.
FirstInspectionAny ==
    /\ At("first")
    /\ Inspected("second", "saw")
    /\ UNCHANGED <<storeVars, sourceVars, passed, release, ops, chosen>>

FirstInspection ==
    /\ At("first")
    /\ IF vault \in Valid THEN Inspected("second", "saw") ELSE Fail("LOCAL_VAULT_INVALID")
    /\ UNCHANGED <<storeVars, sourceVars, passed, release, ops, chosen>>

\* After the quiescence interval.
SecondInspection ==
    /\ At("second")
    /\ IF vault = run.saw THEN Inspected("export", "saw") ELSE Fail("LOCAL_SOURCE_CHANGED")
    /\ UNCHANGED <<storeVars, sourceVars, passed, release, ops, chosen>>

\* export_candidate inspects the vault, copies it file by file, inspects the
\* copy and inspects the vault again.
BeginExport ==
    /\ At("export")
    /\ IF vault \in Valid THEN Inspected("copy", "before") ELSE Fail("LOCAL_VAULT_INVALID")
    /\ UNCHANGED <<storeVars, sourceVars, passed, release, ops, chosen>>

\* A copy of a vault that was edited meanwhile can be any mixture.
EndExport ==
    /\ At("copy")
    /\ \/ vault = run.before /\ run.before = run.saw /\ Inspected("compare", "saw")
       \/ run.recent # {run.saw} /\ Fail("LOCAL_SOURCE_CHANGED")
       \/ run.recent # {run.before} /\ Fail("LOCAL_VAULT_INVALID")
    /\ UNCHANGED <<storeVars, sourceVars, passed, release, ops, chosen>>

\* An OSError or a ValueError of the inspections, or of reading active.json.
LocalError ==
    /\ run.pc \in {"first", "second", "export", "copy", "compare", "check", "confirm"}
    /\ faults < MaxFaults /\ faults' = faults + 1
    /\ Fail("INTERNAL_ERROR")
    /\ UNCHANGED <<durableVars, lock, txn, reply, clock, selections,
                   sourceVars, passed, release, ops, chosen>>

Matches(s) == s # None /\ s.dep.snap = run.saw /\ s.dep.rel = run.rel

\* active.json is read, without the lock.
Compare ==
    /\ At("compare")
    /\ IF Matches(active.cur)
       THEN End("UNCHANGED", active.cur.dep)
       ELSE run' = [run EXCEPT !.pc = "build", !.expected = DepOf(active.cur)] /\ UNCHANGED last
    /\ UNCHANGED <<storeVars, sourceVars, passed, release, ops, chosen>>

\* materialize_snapshot fails, or rebuild is called.
BuildSnapshot ==
    /\ At("build")
    /\ \/ /\ faults < MaxFaults /\ faults' = faults + 1
          /\ Fail("BUILD_FAILED")
          /\ UNCHANGED <<durableVars, lock, txn, reply, clock, selections>>
       \/ /\ \/ Idle(Reconciler) /\ LockBusy(Reconciler)
             \/ Matches(active.cur) /\ RebuildUnchanged(Reconciler)
             \/ ~Matches(active.cur) /\ RebuildBegin(Reconciler)
          /\ Go("building")
    /\ UNCHANGED <<sourceVars, passed, release, ops, chosen>>

\* A build has a fresh run id (uuid4).
BuildSucceeds ==
    /\ At("building")
    /\ \E id \in Runs :
         LET d == [snap |-> run.saw, rel |-> run.rel, run |-> id] IN
         /\ \A b \in builds : b.run # id
         /\ RebuildEnd(Reconciler, d)
         /\ run' = [run EXCEPT !.made = d]
    /\ UNCHANGED <<sourceVars, passed, release, last, ops, chosen>>

BuildFails ==
    /\ At("building")
    /\ RebuildFails(Reconciler)
    /\ UNCHANGED <<sourceVars, passed, release, run, last, ops, chosen>>

\* "same": an unchanged rebuild has no deployment record, which is a failure.
Built ==
    /\ At("building") /\ Returned
    /\ Return(Reconciler)
    /\ IF reply[Reconciler] = "built" THEN Go("evaluate") ELSE Fail("BUILD_FAILED")
    /\ UNCHANGED <<sourceVars, passed, release, ops, chosen>>

\* The suites pass, or they do not, or cannot be run.
Evaluate ==
    /\ At("evaluate")
    /\ \/ /\ passed' = passed \union {run.made}
          /\ run' = [run EXCEPT !.pc = "check", !.recent = {vault}] /\ UNCHANGED last
       \/ passed' = passed \ {run.made} /\ Fail("EVALUATION_FAILED")
    /\ UNCHANGED <<storeVars, sourceVars, release, ops, chosen>>

\* Mutant: the source is not inspected again.
CheckNothing ==
    /\ At("check")
    /\ Go("confirm")
    /\ UNCHANGED <<storeVars, sourceVars, passed, release, ops, chosen>>

CheckSource ==
    /\ At("check")
    /\ IF vault = run.saw THEN Inspected("confirm", "saw") ELSE Fail("PROMOTED_SOURCE_MOVED")
    /\ UNCHANGED <<storeVars, sourceVars, passed, release, ops, chosen>>

ConfirmCurrent ==
    /\ At("confirm")
    /\ IF DepOf(active.cur) = run.expected THEN Go("promote") ELSE Fail("PROMOTION_CONFLICT")
    /\ UNCHANGED <<storeVars, sourceVars, passed, release, ops, chosen>>

\* promote(require_evaluation=True) reads the report under the lock.
PromoteEvaluated(a, d, expected) ==
    \/ d \in passed /\ Promote(a, d, expected)
    \/ /\ d \notin passed
       /\ \/ PromoteRefused(a)
          \/ Idle(a) /\ lock = None /\ Answer(a, "refused") /\ UNCHANGED faults

PromoteCandidate ==
    /\ At("promote")
    /\ PromoteEvaluated(Reconciler, run.made, run.expected)
    /\ Go("promoting")
    /\ UNCHANGED <<sourceVars, passed, release, ops, chosen>>

\* Mutant: an error of promote is taken for a lost compare-and-swap.
PromotedOrConflict ==
    /\ At("promoting") /\ Returned
    /\ Return(Reconciler)
    /\ IF reply[Reconciler] \in {"promoted", "unchanged"} THEN Go("verify")
                                                     ELSE Fail("PROMOTION_CONFLICT")
    /\ UNCHANGED <<sourceVars, passed, release, ops, chosen>>

\* Every error of promote is reported in the same way.
Promoted ==
    /\ At("promoting") /\ Returned
    /\ Return(Reconciler)
    /\ IF reply[Reconciler] \in {"promoted", "unchanged"} THEN Go("verify")
                                                     ELSE Fail("POST_PROMOTION_MISMATCH")
    /\ UNCHANGED <<sourceVars, passed, release, ops, chosen>>

\* verify_active looks at whatever is selected now, and publishes it.
VerifyActive ==
    /\ At("verify")
    /\ \/ PublishRead(Reconciler) /\ Go("publishing")
       \/ /\ faults < MaxFaults /\ faults' = faults + 1
          /\ Fail("POST_PROMOTION_MISMATCH")
          /\ UNCHANGED <<durableVars, lock, txn, reply, clock, selections>>
    /\ UNCHANGED <<sourceVars, passed, release, ops, chosen>>

Verified ==
    /\ At("publishing") /\ Returned
    /\ Return(Reconciler)
    /\ IF reply[Reconciler] = "published" THEN End("PROMOTED", run.made)
                                          ELSE Fail("POST_PROMOTION_MISMATCH")
    /\ UNCHANGED <<sourceVars, passed, release, ops, chosen>>

\* The store transaction that the run called takes its next step.
WorkInStore ==
    /\ Step(Reconciler)
    /\ IF txn[Reconciler].phase = "active"
       THEN /\ chosen' = chosen \union {[dep |-> txn[Reconciler].target.cur.dep,
                                         over |-> DepOf(active.cur),
                                         expected |-> run.expected, recent |-> run.recent,
                                         rel |-> run.rel]}
            /\ run' = [run EXCEPT !.did = TRUE]
       ELSE UNCHANGED <<chosen, run>>
    /\ UNCHANGED <<sourceVars, passed, release, last, ops>>

ReconcileStep ==
    \/ StartRun \/ FirstInspection \/ SecondInspection \/ BeginExport \/ EndExport
    \/ Compare \/ BuildSnapshot \/ BuildSucceeds \/ BuildFails \/ Built \/ Evaluate
    \/ CheckSource \/ ConfirmCurrent \/ PromoteCandidate \/ Promoted \/ VerifyActive \/ Verified
    \/ WorkInStore

ReconcileFault ==
    \/ LocalError
    \/ IOFault(Reconciler) /\ UNCHANGED <<sourceVars, passed, release, run, last, ops, chosen>>
    \/ /\ ~At("off") /\ Stop(Reconciler) /\ run' = NoRun
       /\ UNCHANGED <<sourceVars, passed, release, last, ops, chosen>>

-----------------------------------------------------------------------------
(* The vault's editors, the operators and the host's configuration *)

Edit(c) ==
    /\ edits < MaxEdits /\ edits' = edits + 1
    /\ c # vault /\ vault' = c
    /\ run' = [run EXCEPT !.recent = @ \union {c}]
    /\ UNCHANGED <<storeVars, passed, release, last, ops, chosen>>

\* db rollback, db promote and db evaluate-candidate.
OperatorCommand(o) ==
    /\ ops < MaxOps /\ ops' = ops + 1
    /\ \/ Rollback(o) /\ UNCHANGED passed
       \/ \E d \in builds, e \in Deployments \union {None} :
            PromoteEvaluated(o, d, e) /\ UNCHANGED passed
       \/ \E d \in builds :
            Idle(o) /\ passed' \in {passed \union {d}, passed \ {d}} /\ UNCHANGED storeVars
    /\ UNCHANGED <<sourceVars, release, run, last, chosen>>

OperatorStep(o) ==
    /\ \/ Step(o)
       \/ reply[o] \in {"promoted", "unchanged", "rolledback"} /\ PublishRead(o)
       \/ reply[o] \notin {"promoted", "unchanged", "rolledback"} /\ Return(o)
    /\ UNCHANGED <<sourceVars, passed, release, run, last, ops, chosen>>

OperatorFault(o) ==
    /\ IOFault(o) \/ Crash(o)
    /\ UNCHANGED <<sourceVars, passed, release, run, last, ops, chosen>>

Upgrade(v) ==
    /\ ops < MaxOps /\ ops' = ops + 1
    /\ v # release /\ release' = v
    /\ UNCHANGED <<storeVars, sourceVars, passed, run, last, chosen>>

NextLocal ==
    \/ ReconcileStep \/ ReconcileFault \/ Overlap
    \/ \E c \in Contents : Edit(c)
    \/ \E o \in Operators : OperatorCommand(o) \/ OperatorStep(o) \/ OperatorFault(o)
    \/ \E v \in Releases : Upgrade(v)

SpecLocal == InitLocal /\ [][NextLocal]_vars

\* The timer starts a run after every run, and a command that an operator
\* started goes on until it ends or is interrupted. A build that is tried again
\* and again succeeds in the end. Nobody owes an edit or a command.
FairLocal == /\ WF_vars(ReconcileStep)
             /\ SF_vars(BuildSucceeds)
             /\ \A o \in Operators : WF_vars(OperatorStep(o))

FairSpecLocal == SpecLocal /\ FairLocal

-----------------------------------------------------------------------------
(* Properties *)

Outcomes == {"NONE", "UNCHANGED", "PROMOTED", "LOCAL_VAULT_INVALID",
             "LOCAL_SOURCE_CHANGED", "PROMOTED_SOURCE_MOVED", "BUILD_FAILED",
             "EVALUATION_FAILED", "PROMOTION_CONFLICT", "POST_PROMOTION_MISMATCH",
             "INTERNAL_ERROR"}

\* Types; a run that goes on has only ever seen valid content.
LocalTypeOK ==
    /\ TypeOK
    /\ vault \in Contents /\ run.recent \subseteq Contents
    /\ run.saw \in Valid \union {None} /\ run.expected \in Deployments \union {None}
    /\ run.made \in builds \union {None}
    /\ passed \subseteq builds
    /\ last.outcome \in Outcomes /\ last.dep \in builds \union {None}

\* Whatever was edited, promoted, rolled back or upgraded between its steps, a
\* run replaces only the deployment it read before it built, with a build of
\* its own release whose content the vault still held at some moment after
\* the evaluation.
SelectsWhatItChecked ==
    \A x \in chosen : /\ x.over = x.expected
                      /\ x.dep.snap \in x.recent
                      /\ x.dep.rel = x.rel

\* A run that replaced active.json says so, or reports the mismatch that
\* followed: no other outcome hides a promotion.
OutcomeTellsPromotion == last.did => last.outcome \in {"PROMOTED", "POST_PROMOTION_MISMATCH"}

\* A build can still be given a fresh run id.
Fresh == \E id \in Runs : \A b \in builds : b.run # id

\* The suites pass what is built from some moment on. (A suite that fails for
\* what the vault holds keeps it from being deployed, as it should.)
EvaluationsPass == <>[](last.outcome # "EVALUATION_FAILED")

\* The vault settles on valid content, no record stays torn, no rollback stays
\* pending.
Settles == []<>(torn = {}) /\ []<>(journal = None) /\ <>[](vault \in Valid)

\* Then the vault's content is what is deployed in the end, by the release the
\* host is configured with, however often runs were interrupted, overtaken by
\* edits or undone by operators before. []Fresh is about the bound on run ids.
Converges ==
    Settles /\ EvaluationsPass /\ []Fresh =>
        <>[](/\ active.cur # None /\ active.cur.dep.snap = vault
             /\ active.cur.dep.rel = release)
=============================================================================
