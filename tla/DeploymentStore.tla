--------------------------- MODULE DeploymentStore ---------------------------
(***************************************************************************)
(* The durable deployment store of a HomeOps host: the files below <data>/ *)
(* and the transactions of build.py and deployment.py that change them.    *)
(*                                                                         *)
(*   active      active.json: the selected and the previous deployment,    *)
(*               each with the time at which it was selected               *)
(*   history     deployment-history/<id>/<sha256(promoted_at)>.json, the   *)
(*               files that were written completely                        *)
(*   torn        the files of deployment-history that were created with    *)
(*               O_EXCL by durable_create_json and not yet written         *)
(*   projection  pipeline-state/current.json                               *)
(*   journal     pipeline-transactions/rollback.json                       *)
(*   builds      deployments/<id>.json with a verified build behind it     *)
(*   lock        deployment.lock, a non-blocking kernel lock               *)
(*   txn, reply  the operation each process is executing, and what its     *)
(*               last operation returned or raised                         *)
(*                                                                         *)
(* Every process may stop (Crash) or see an OSError (IOFault) between any  *)
(* two file operations. Deployments are content-addressed, so a deployment *)
(* id and its record are one value here. selections is a history variable: *)
(* the records that active.json ever selected, with the way it happened.   *)
(***************************************************************************)
EXTENDS Naturals, FiniteSets

CONSTANTS Actors,       \* processes that run an operation on the store
          Deployments,  \* deployment records (content-addressed)
          None,
          MaxClock,     \* bound on the number of selections
          MaxFaults     \* bound on crashes, OSErrors and failed verifications

VARIABLES active, history, torn, projection, journal, builds, lock, txn, reply,
          clock, faults, selections

durableVars == <<active, history, torn, projection, journal, builds>>
storeVars == <<durableVars, lock, txn, reply, clock, faults, selections>>

(***************************************************************************)
(* A deployment selected at a time (a record with its promoted_at), and    *)
(* the schema-v2 content of active.json.                                   *)
(***************************************************************************)
Selected == [dep : Deployments, at : Nat]

States == [cur : Selected \union {None}, prev : Selected \union {None}]

empty_state == [cur |-> None, prev |-> None]

ASSUME StoreAssumption == /\ None \notin Actors
                          /\ None \notin Deployments
                          /\ None \notin Selected
                          /\ None \notin States
                          /\ None \notin [source : States, target : States]
                          /\ MaxClock \in Nat
                          /\ MaxFaults \in Nat

DepOf(s) == IF s = None THEN None ELSE s.dep

\* promote, rebuild, rollback, recover_pending_rollback and
\* repair_selected_bookkeeping hold the deployment lock in every phase but
\* "idle" and "publish".
Phases == {"idle", "build", "active", "journal", "select", "create", "write",
           "project", "clear", "release", "publish"}

LockedPhases == Phases \ {"idle", "publish"}

Replies == {"none", "built", "same", "promoted", "unchanged", "conflict",
            "refused", "ioerror", "rolledback", "nothing", "repaired",
            "published"}

\* target is the state the transaction is about to select or has just
\* selected; for "publish" it is the state that was read without the lock.
Txns == [phase : Phases, undo : BOOLEAN, target : States, result : Replies]

NoTxn == [phase |-> "idle", undo |-> FALSE, target |-> empty_state,
          result |-> "none"]

Idle(a) == txn[a].phase = "idle" /\ reply[a] = "none"

Init ==
    /\ active = empty_state
    /\ history = {} /\ torn = {} /\ builds = {}
    /\ projection = None
    /\ journal = None
    /\ lock = None
    /\ txn = [a \in Actors |-> NoTxn]
    /\ reply = [a \in Actors |-> "none"]
    /\ clock = 0 /\ faults = 0
    /\ selections = {}

-----------------------------------------------------------------------------
(* Helpers of the transactions *)

\* The operation of a ends without having taken the lock.
Answer(a, r) ==
    /\ reply' = [reply EXCEPT ![a] = r]
    /\ UNCHANGED <<durableVars, lock, txn, clock, selections>>

\* deployment_lock with LOCK_NB: the transaction starts in phase p.
Enter(a, p, undo, target, result) ==
    /\ lock = None
    /\ lock' = a
    /\ txn' = [txn EXCEPT ![a] = [phase |-> p, undo |-> undo,
                                  target |-> target, result |-> result]]
    /\ UNCHANGED <<durableVars, reply, faults, selections>>

Goto(a, p) == txn' = [txn EXCEPT ![a].phase = p]

\* Leaving the with-block: the lock is released, r is returned or raised.
Leave(a, r) ==
    /\ lock' = IF lock = a THEN None ELSE lock
    /\ txn' = [txn EXCEPT ![a] = NoTxn]
    /\ reply' = [reply EXCEPT ![a] = r]

\* active.json is atomically replaced.
ReplaceActive(s, way) ==
    /\ active' = s
    /\ selections' = selections \union {[dep |-> s.cur.dep, at |-> s.cur.at, way |-> way,
                                         over |-> DepOf(active.cur)]}

\* The lock is held by another process, or the immutable bytes behind a
\* deployment fail their verification: BuildError.
LockBusy(a) == lock # None /\ Answer(a, "refused") /\ UNCHANGED faults

VerificationFails(a) ==
    /\ lock = None
    /\ faults < MaxFaults
    /\ faults' = faults + 1
    /\ Answer(a, "refused")

-----------------------------------------------------------------------------
(* rebuild(promote=False): one new verified build, bound to its snapshot *)

RebuildBegin(a) == Idle(a) /\ Enter(a, "build", FALSE, empty_state, "built")
                   /\ UNCHANGED clock

\* rebuild finds that the selected deployment already is this build.
RebuildUnchanged(a) ==
    /\ Idle(a) /\ lock = None
    /\ active.cur # None
    /\ Answer(a, "same") /\ UNCHANGED faults

\* Validation, ingestion or the verifier fails; the manifest says "failed".
RebuildFails(a) ==
    /\ txn[a].phase = "build"
    /\ Leave(a, "refused")
    /\ UNCHANGED <<durableVars, clock, faults, selections>>

RebuildEnd(a, d) ==
    /\ txn[a].phase = "build"
    /\ d \notin builds
    /\ builds' = builds \union {d}
    /\ Goto(a, "release")
    /\ UNCHANGED <<active, history, torn, projection, journal, lock, reply,
                   clock, faults, selections>>

-----------------------------------------------------------------------------
(* promote: compare-and-swap under the deployment lock *)

\* The pure transition select_deployment.
select_deployment(s, candidate, at) ==
    [cur |-> [dep |-> candidate, at |-> at], prev |-> s.cur]

PromoteRefused(a) ==
    /\ Idle(a)
    /\ \/ LockBusy(a)
       \/ VerificationFails(a)
       \/ lock = None /\ journal # None /\ Answer(a, "refused") /\ UNCHANGED faults

PromoteConflict(a, candidate, expected) ==
    /\ Idle(a) /\ lock = None /\ journal = None
    /\ candidate \in builds
    /\ DepOf(active.cur) \notin {candidate, expected}
    /\ Answer(a, "conflict") /\ UNCHANGED faults

PromoteUnchanged(a, candidate) ==
    /\ Idle(a) /\ journal = None
    /\ candidate \in builds
    /\ DepOf(active.cur) = candidate
    /\ Enter(a, "create", FALSE, active, "unchanged")
    /\ UNCHANGED clock

\* Mutant: the unfinished-rollback check is dropped.
PromoteDuringRollback(a, candidate, expected) ==
    /\ Idle(a)
    /\ candidate \in builds
    /\ DepOf(active.cur) # candidate
    /\ DepOf(active.cur) = expected
    /\ clock < MaxClock
    /\ clock' = clock + 1
    /\ Enter(a, "active", FALSE, select_deployment(active, candidate, clock'), "promoted")

\* Mutant: the projection is published before active.json is replaced.
PromoteProjectingFirst(a, candidate, expected) ==
    /\ Idle(a) /\ journal = None
    /\ candidate \in builds
    /\ DepOf(active.cur) # candidate
    /\ DepOf(active.cur) = expected
    /\ clock < MaxClock
    /\ clock' = clock + 1
    /\ Enter(a, "project", FALSE, select_deployment(active, candidate, clock'), "promoted")

PromoteSelect(a, candidate, expected) ==
    /\ Idle(a) /\ journal = None
    /\ candidate \in builds
    /\ DepOf(active.cur) # candidate
    /\ DepOf(active.cur) = expected
    /\ clock < MaxClock
    /\ clock' = clock + 1
    /\ Enter(a, "active", FALSE, select_deployment(active, candidate, clock'), "promoted")

Promote(a, candidate, expected) ==
    \/ PromoteRefused(a)
    \/ PromoteConflict(a, candidate, expected)
    \/ PromoteUnchanged(a, candidate)
    \/ PromoteSelect(a, candidate, expected)

WriteActive(a) ==
    /\ txn[a].phase = "active"
    /\ ReplaceActive(txn[a].target, "promote")
    /\ Goto(a, "create")
    /\ UNCHANGED <<history, torn, projection, journal, builds, lock, reply,
                   clock, faults>>

-----------------------------------------------------------------------------
(* rollback and recover_pending_rollback: journal, select, bookkeeping *)

rollback_transition(s, at) ==
    [cur |-> [s.prev EXCEPT !.at = at], prev |-> s.cur]

RollbackRefused(a) ==
    /\ Idle(a)
    /\ \/ LockBusy(a)
       \/ journal = None /\ active.prev # None /\ VerificationFails(a)
       \/ /\ lock = None /\ journal = None /\ active.prev = None
          /\ Answer(a, "refused") /\ UNCHANGED faults

RollbackBegin(a) ==
    /\ Idle(a) /\ journal = None
    /\ active.prev # None
    /\ clock < MaxClock
    /\ clock' = clock + 1
    /\ Enter(a, "journal", TRUE, rollback_transition(active, clock'), "rolledback")

\* A pending journal is finished; a new rollback is not started.
FinishPending(a) ==
    /\ Idle(a) /\ journal # None
    /\ Enter(a, "select", TRUE, journal.target, "rolledback")
    /\ UNCHANGED clock

Rollback(a) == RollbackRefused(a) \/ RollbackBegin(a) \/ FinishPending(a)

recover_pending_rollback(a) ==
    \/ Idle(a) /\ LockBusy(a)
    \/ Idle(a) /\ lock = None /\ journal = None /\ Answer(a, "nothing") /\ UNCHANGED faults
    \/ FinishPending(a)

\* Mutant: the journal is cleared before the pair is exchanged.
WriteJournalThenClear(a) ==
    /\ txn[a].phase = "journal"
    /\ journal' = [source |-> active, target |-> txn[a].target]
    /\ Goto(a, "clear")
    /\ UNCHANGED <<active, history, torn, projection, builds, lock, reply,
                   clock, faults, selections>>

WriteJournal(a) ==
    /\ txn[a].phase = "journal"
    /\ journal' = [source |-> active, target |-> txn[a].target]
    /\ Goto(a, "select")
    /\ UNCHANGED <<active, history, torn, projection, builds, lock, reply,
                   clock, faults, selections>>

\* The first half of _finish_rollback_locked.
FinishSelect(a) ==
    /\ txn[a].phase = "select"
    /\ \/ active = journal.source /\ ReplaceActive(journal.target, "rollback")
       \/ active # journal.source /\ UNCHANGED <<active, selections>>
    /\ IF active \in {journal.source, journal.target}
       THEN Goto(a, "create") /\ UNCHANGED <<lock, reply>>
       ELSE Leave(a, "refused")
    /\ UNCHANGED <<history, torn, projection, journal, builds, clock, faults>>

ClearJournal(a) ==
    /\ txn[a].phase = "clear"
    /\ journal' = None
    /\ Goto(a, "release")
    /\ UNCHANGED <<active, history, torn, projection, builds, lock, reply,
                   clock, faults, selections>>

-----------------------------------------------------------------------------
(* _repair_selected_bookkeeping_locked: history record, then projection *)

Repair(a, d) ==
    /\ Idle(a)
    /\ \/ LockBusy(a)
       \/ lock = None /\ DepOf(active.cur) # d /\ Answer(a, "refused") /\ UNCHANGED faults
       \/ /\ active.cur # None /\ active.cur.dep = d
          /\ Enter(a, "create", FALSE, active, "repaired") /\ UNCHANGED clock

\* durable_create_json opens the record with O_EXCL; an existing file is
\* accepted only if its bytes are the whole record.
CreateHistory(a) ==
    /\ txn[a].phase = "create"
    /\ \/ /\ active.cur \notin history \union torn
          /\ torn' = torn \union {active.cur}
          /\ Goto(a, "write")
          /\ UNCHANGED <<lock, reply>>
       \/ /\ active.cur \in history
          /\ Goto(a, "project")
          /\ UNCHANGED <<torn, lock, reply>>
       \/ /\ active.cur \in torn
          /\ Leave(a, "refused")
          /\ UNCHANGED torn
    /\ UNCHANGED <<active, history, projection, journal, builds, clock, faults,
                   selections>>

\* Mutant: the record is skipped when the deployment has one already.
WriteFirstHistory(a) ==
    /\ txn[a].phase = "write"
    /\ torn' = torn \ {active.cur}
    /\ history' = IF \E h \in history : h.dep = active.cur.dep
                  THEN history ELSE history \union {active.cur}
    /\ Goto(a, "project")
    /\ UNCHANGED <<active, projection, journal, builds, lock, reply, clock,
                   faults, selections>>

WriteHistory(a) ==
    /\ txn[a].phase = "write"
    /\ torn' = torn \ {active.cur}
    /\ history' = history \union {active.cur}
    /\ Goto(a, "project")
    /\ UNCHANGED <<active, projection, journal, builds, lock, reply, clock,
                   faults, selections>>

\* Mutant: the whole state is published instead of its current deployment.
WriteWholeState(a) ==
    /\ txn[a].phase = "project"
    /\ projection' = txn[a].target
    /\ Goto(a, IF txn[a].undo THEN "clear" ELSE "release")
    /\ UNCHANGED <<active, history, torn, journal, builds, lock, reply, clock,
                   faults, selections>>

WriteProjection(a) ==
    /\ txn[a].phase = "project"
    /\ projection' = txn[a].target.cur
    /\ Goto(a, IF txn[a].undo THEN "clear" ELSE "release")
    /\ UNCHANGED <<active, history, torn, journal, builds, lock, reply, clock,
                   faults, selections>>

Release(a) ==
    /\ txn[a].phase = "release"
    /\ Leave(a, txn[a].result)
    /\ UNCHANGED <<durableVars, clock, faults, selections>>

-----------------------------------------------------------------------------
(* publish_current_projection(root): read, then write, without the lock *)

\* The CLI publishes right after a successful promote or rollback; the host
\* processor and verify_active publish on their own.
PublishRead(a) ==
    /\ txn[a].phase = "idle"
    /\ reply[a] \in {"none", "promoted", "unchanged", "rolledback"}
    /\ reply' = [reply EXCEPT ![a] = "none"]
    /\ txn' = [txn EXCEPT ![a] = [phase |-> "publish", undo |-> FALSE,
                                  target |-> active, result |-> "published"]]
    /\ UNCHANGED <<durableVars, lock, clock, faults, selections>>

PublishWrite(a) ==
    /\ txn[a].phase = "publish"
    /\ projection' = txn[a].target.cur
    /\ Leave(a, "published")
    /\ UNCHANGED <<active, history, torn, journal, builds, clock, faults,
                   selections>>

-----------------------------------------------------------------------------
(* Faults *)

\* An OSError instead of the next file operation. The with-block releases the
\* lock; durable_create_json removes the record it had only created. (An error
\* reported after the operation took effect is an error at the next phase.)
\* load_state turns an OSError on active.json, which the rollback and the
\* bookkeeping read again, into a refusal.
IOFault(a) ==
    /\ txn[a].phase \notin {"idle", "build"}
    /\ faults < MaxFaults
    /\ faults' = faults + 1
    /\ torn' = IF txn[a].phase = "write" THEN torn \ {active.cur} ELSE torn
    /\ \/ Leave(a, "ioerror")
       \/ txn[a].phase \in {"select", "create"} /\ Leave(a, "refused")
    /\ UNCHANGED <<active, history, projection, journal, builds, clock, selections>>

\* The process ends; the kernel drops its lock and every file stays as it is.
Stop(a) ==
    /\ faults < MaxFaults
    /\ faults' = faults + 1
    /\ Leave(a, "none")
    /\ UNCHANGED <<durableVars, clock, selections>>

Crash(a) == txn[a].phase # "idle" /\ Stop(a)

\* The caller takes the answer of its operation.
Return(a) ==
    /\ txn[a].phase = "idle"
    /\ reply[a] # "none"
    /\ reply' = [reply EXCEPT ![a] = "none"]
    /\ UNCHANGED <<durableVars, lock, txn, clock, faults, selections>>

\* The steps of a transaction that has started.
Step(a) == \/ WriteActive(a) \/ WriteJournal(a) \/ FinishSelect(a)
           \/ ClearJournal(a) \/ CreateHistory(a) \/ WriteHistory(a)
           \/ WriteProjection(a) \/ Release(a) \/ PublishWrite(a)

Next ==
    \E a \in Actors :
        \/ RebuildBegin(a)
        \/ RebuildUnchanged(a)
        \/ RebuildFails(a)
        \/ \E d \in Deployments : RebuildEnd(a, d)
        \/ \E d \in Deployments, e \in Deployments \union {None} : Promote(a, d, e)
        \/ Rollback(a)
        \/ recover_pending_rollback(a)
        \/ \E d \in Deployments : Repair(a, d)
        \/ PublishRead(a)
        \/ Step(a)
        \/ IOFault(a)
        \/ Crash(a)
        \/ Return(a)

Spec == Init /\ [][Next]_storeVars

-----------------------------------------------------------------------------
(* Properties *)

Journals == [source : States, target : States]

Selections == [dep : Deployments, at : Nat, way : {"promote", "rollback"},
               over : Deployments \union {None}]

\* Types of the store's files, locks and transactions.
TypeOK ==
    /\ active \in States
    /\ history \subseteq Selected
    /\ torn \subseteq Selected
    /\ projection \in Selected \union {None}
    /\ journal \in Journals \union {None}
    /\ builds \subseteq Deployments
    /\ lock \in Actors \union {None}
    /\ txn \in [Actors -> Txns]
    /\ reply \in [Actors -> Replies]
    /\ clock \in Nat
    /\ faults \in Nat
    /\ selections \subseteq Selections

\* While a rollback is journalled, active.json is exactly the state the
\* rollback started from or the one it leads to, whatever crashed and whoever
\* ran in between: recovery can always finish (the "active deployment changed
\* during rollback recovery" refusal of _finish_rollback_locked is never met).
JournalBrackets ==
    journal # None => active \in {journal.source, journal.target}

\* The projection that publishers compare-and-swap against never shows a
\* deployment before active.json durably selected it.
ProjectionWasSelected ==
    projection # None =>
        \E s \in selections : s.dep = projection.dep /\ s.at = projection.at

\* Provenance in deployment-history is about selections that happened.
HistoryIsTruthful ==
    \A h \in history \union torn :
        \E s \in selections : s.dep = h.dep /\ s.at = h.at

\* Provenance in deployment-history is complete: as long as no process was
\* interrupted, every selection active.json ever made has its own record once
\* the lock is free (a second selection of one deployment too).
SelectionsAreRecorded ==
    lock = None /\ faults = 0 =>
        \A s \in selections : [dep |-> s.dep, at |-> s.at] \in history

-----------------------------------------------------------------------------
(* The store implements DeploymentSelection *)

Selection == INSTANCE DeploymentSelection
                 WITH Times <- 1..MaxClock, sel <- active,
                      intent <- IF journal = None THEN None ELSE journal.target

\* Seen from outside, the locked, journalled and interruptible transactions
\* of build.py are the atomic steps of DeploymentSelection: a promotion
\* always shifts the pair, a rollback that reached its journal exchanges the
\* pair it was decided for, exactly once, and nothing is selected in between.
ImplementsSelection == Selection!Spec
=============================================================================
