# HomeOps AI: a verification project

TLA+ models, TLC runs and TLAPS proofs of the parts of HomeOps AI that keep
durable state: the deployment store, the host processor behind the receiver,
the publication protocol, the local pipeline, the vault write broker, the
frontmatter migration, the retention planner, and the sockets of the servers. Every definition is translated from the code, and
`PROJECT.json` maps it to the lines it stands for.

## 1. The system

HomeOps AI turns a Markdown vault into an immutable, verified Cozo database and
serves it read-only to coding agents. A *workstation* publishes vault snapshots
to a *host*, or a host with a synced vault builds its own. Three kinds of
processes share files and no memory: systemd jobs (timer and path units),
operators' commands, and servers.

| Component | State it keeps | Operations | Meets |
|---|---|---|---|
| deployment store (`build.py`, `deployment.py`) | `active.json` (current and previous), `deployment-history/`, `pipeline-transactions/rollback.json`, `pipeline-state/current.json`, `deployments/`, `builds/`, a kernel lock | rebuild, promote (compare-and-swap), rollback, recovery, bookkeeping repair, publication of the projection | every process on a host |
| host processor (`pipeline.py` process_remote) | `results/`, `commit-journal/`, evaluation reports | finish rollback, build and evaluate submissions, apply commits, publish | store, receiver's spool, operators, host upgrades |
| receiver (`internal/receiver`) | `incoming/`, `commits/` | current, submit, status, commit | coordinator over SSH, processor over files |
| publication coordinator (`pipeline.py` reconcile) | `pending-attempt.json`, its archive, `last-result.json` | start, resume, resolve an attempt | receiver, vault |
| local pipeline (`pipeline.py` reconcile_local) | `last-result.json`, `pipeline.lock` | wait for a quiet vault, export, build, evaluate, promote, verify | store, vault, operators |
| write broker (`write_broker.py`) | intents, results, captured notes in the vault | capture_note, write_status | MCP server over a socket, editors of the vault |
| frontmatter migration (`migration.py`) | reports, originals, manifest, the vault | plan, apply (with undo), restore | editors of the vault |
| retention (`retention.py`) | none: it is a dry-run planner and deletes nothing | plan | reads store, spool, results, snapshots and the pins of readers (`query.py`) |
| servers (`write_broker.py`, `mcp_server.py`) | a Unix socket each | take over a path, serve, leave it | each other's earlier and later instances |
| context compiler, tool dispatch, snapshot, ingestion, verification, evaluation, CLI, scripts | none or immutable files | pure functions and read-only access | |

What is hard here, and which properties would show it going wrong, is the
`hazards` list of `PROJECT.json`. In short:

- *crashes between two file operations*, since a transaction spans
  several files (journal, `active.json`, history, projection, result);
- *unlocked reads*: the projection, the "unchanged" check, the commit check of
  the receiver and both coordinators' views of `active.json`;
- *lost and late calls*: a submit or commit that its caller gave up on is still
  executed;
- *editors*: the vault changes at any time under coordinator, local pipeline,
  broker and migration;
- *slow readers*: the retention plan is put together file by file;
- *operators* promote, roll back and evaluate between any two automatic steps;
- *retries* of work that was already done, in part or in whole.

What makes each part correct: the store selects like an atomic pair; a commit
is applied at most once, as it was authorized; what a result says was done was
done; an attempt is followed until it is reported; a capture is create-only and
answered consistently; a migration keeps the originals and does all or nothing;
a plan lists nothing anybody needs; a server that serves is reachable;
and, under fair scheduling, everything queued is finished.

## 2. Modules

    DeploymentSelection <--implements-- DeploymentStore
                                           ^       ^
                                  EXTENDS  |       |  EXTENDS
                               RemoteProcessor   LocalPipeline
                                           |
                    ^                      | implements
          EXTENDS   |                      v
                Retention         PublicationHost <--EXTENDS-- Publication

    System = RemoteProcessor (EXTENDS) + Publication (INSTANCE, on the same files)

    NoteCapture <--implements-- WriteBroker      Migration      Endpoint

Each `MC...` module instantiates one of them with model values; each `.cfg`
is one run. Each `...Proofs` module extends the module it is named after
with TLAPS proofs (`WriteBrokerProofs` also holds those of Endpoint);
`RemoteProcessorProofs` and `LocalPipelineProofs` build on
`DeploymentStoreProofs`, and `RetentionProofs` on `RemoteProcessorProofs`, as
the modules do on each other.

**DeploymentSelection** is the abstract promise of the store: one pair of
deployments; a promotion pushes the current into "previous"; a decided rollback
exchanges the two once, and nothing is selected in between.

**DeploymentStore** is the store. A transaction takes the non-blocking lock,
goes through *phases* (one per file operation) and releases it. A process may
stop (`Crash`) or get an OSError (`IOFault`) before any of them. `torn` holds
history records that `durable_create_json` created and had not written:
a later run refuses them. `publish_current_projection` runs without the lock,
in two steps. A timestamp (`promoted_at`) is the value of a counter, strictly
increasing: two selections within one microsecond, and clocks that step back, are left out. The
projection `None` stands for no file and for the all-empty projection.
`selections` is a history variable.

**RemoteProcessor** extends the store with process_remote: one action for each
step between two file operations of the run (`proc.pc`), each
calling a store operation and waiting for its reply. Operators run
`db promote`, `db rollback`, `db evaluate-candidate`, with the publication that
the CLI does after a success. `Upgrade` changes the release or the evaluation
suite between runs.

**PublicationHost** is what the host promises the publisher: requests, results,
markers, what is selected, what is shown. RemoteProcessor implements it
(`ImplementsHost`); Publication is the coordinator and the receiver running
against it. So the end-to-end argument is in two halves with this module in the
middle: `RespectsHost` shows that the publisher's side uses the host as the
module says, `ImplementsHost` that the host answers as the module says.

**System** joins the halves: the coordinator and the receiver of Publication act
on the queue files, `active.json` and the projection of RemoteProcessor, and the
processor, operators, upgrades and crashes take RemoteProcessor's steps
(`HostSide`, `PublisherSide`). It adds no behaviour of its own, and is there for
the theorems: the two modules are instantiated as they are.

**Publication**: the coordinator's memory (`co`), its pending attempt and
archive as separate files, the call it waits for (`wire`) and calls given up on
(`late`, a set: two identical late calls count as one). The receiver's verbs take
two steps where it reads and then writes. An error after the receiver's write
is a lost reply.

**LocalPipeline** extends the store with reconcile_local: two inspections around
the quiescence interval, the export with its own two, the comparison with
`active.json`, build, evaluation, the last inspection, the check of the expected
deployment, promotion and verification, with edits, operators, upgrades and faults in
between. (An operator's rollback does not last on such a host: the next
run builds and promotes the vault's content again. That is what the code does;
no document says otherwise.)

**NoteCapture** is the promise of the write broker; **WriteBroker** its handler:
intent, result, the checks on a private copy, the link into the vault. The
broker serves one request at a time; editors do anything between its steps.
Left-over temporary files are not modelled, nothing reads them.

**Migration**: the report as the contents it hashes, the check of every file, the
copies, the manifest, the second look for sources, the read and the write of every
file, the undo, and the restore with its check and its writes. The files an apply
copies and rewrites (`cmd.changed`) are those that its own check of the vault found
without an id, as in the code; `Changed` are those of the reviewed report. The two
differ when a file without an id is created after the review: the comparison with
the report passes it over, it is copied, and the write loop fails at it (section 5).
"Migrated" is one mark of a content.

**Retention** extends RemoteProcessor with what the processor leaves behind
(`snaps`: the snapshot is stored before the build, whatever becomes of it;
`failed` and `unfinished` builds) and with `retention-plan`, one action for
each part of what it reads, in the order of the code. It holds the deployment lock shared, so
the deployment store stands still, but queue, results, projection, snapshots and
pins move on. Pins and ages are inputs where the planner looks: nobody excludes a
reader (`retention.lock` is only ever taken shared), and no other step depends on either. `Readers` bounds how many builds are pinned at that moment. References to a run or a snapshot of a candidate coincide with the reference
to its deployment. `cleanup_failed` removes only the databases of failed builds,
which the planner does not look at.

**Endpoint**: one path, processes that start, serve, stop and are killed, one
action per system call. `service` says which of the two servers it is: the
broker probes what it finds and knows its own inode; the MCP server unlinks
what it finds, and again what is there when it ends. A new socket has an inode that
was never used before (as on tmpfs). `crossed` marks the starts that overlapped
with another start or stop.

## 3. Runs

All bounds are constants of the models: `MaxClock` selections, `MaxFaults`
crashes and errors, `MaxOps` operator commands, `MaxEdits`/`MaxMoves` changes of
the vault, `MaxLosses` lost calls, `MaxStarts` and `MaxFailures` of the sockets,
`Readers` pinned builds. Two of each kind of thing are what the
conflicts between two parties take; one fault is enough for every
single crash point, and the second fault of the broker is the one that hits the
recovery. The migration needs no second fault for that: an edit makes it undo (a file
that is gone, malformed or new), and the fault hits the undo. Its two edits are
what it takes to create a file after the review and to change another one before it
is read again.

| Run | Question | Bounds | Distinct states |
|---|---|---|---|
| `store` | does the store stay consistent, and implement DeploymentSelection? | 2 processes, 3 deployments, 4 selections, 1 fault | 177,198 |
| `remote` | are commits applied once, as authorized, and under the policy of their candidate? does the host implement PublicationHost? | 2 requests, 2 snapshots, 3 policies, 2 builds, 1 fault, 1 operator command or upgrade | 1,503,388 |
| `remote_liveness` | is every request answered and every commit, rollback and projection finished? | 1 request, a host in use (`WarmInit`) | 87,415 |
| `publication` | is every commit confirmed, followed and reported as it ended? | 2 requests, 2 lost calls, 1 change | 1,303,759 |
| `publication_liveness` | is what is reported as published selected, when operators interfere? does every attempt end? | 1 request, 2 releases, 1 lost call, 1 change, 1 choice | 466,176 |
| `local` | does a local run select only what it checked, tell what happened, and deploy the vault in the end? | 3 contents (1 invalid), 2 releases, 4 run ids, 4 selections, 1 edit, 1 fault, 1 command or upgrade | 1,236,357 |
| `broker` | create-only, consistent answers, NoteCapture; is a repeated capture settled? | 2 requests, 2 edits, 2 faults | 134,253 |
| `migration` | snapshots first, only reviewed files are written, all or nothing | 2 files (there from the beginning or not), 3 texts (1 malformed), 2 migrations, 2 edits, 1 fault | 3,055,860 |
| `retention` | does a plan list only what nobody needs, now and later, and the oldest first? | 2 requests, 5 deployments of 3 snapshots with a history and 1 to come, 2 more selections, 1 fault, 1 command, 1 pinned build, 1 plan | 1,455,667 |
| `endpoint` | does a server stay reachable, and replace what a dead one left? | 3 processes, 4 starts, 2 kills or failures | 2,032,305 |

`retention` starts on a host in use, in one of two situations: a candidate waits for
its commit and another request is still to come; or the second request is
settled and an operator may interfere. The selections that are possible
after the plan (a commit or a rollback that was under way, a promotion) all
happen, and plans with deployments, snapshots and failed builds to delete do too.
One build is pinned in the run (`Readers`); the theorems hold for any number.

`local` starts on a new host, with edits and faults and nobody who interferes; or on
one whose first run has promoted, the vault has moved on, and an operator or an
upgrade may interfere. Its four run ids leave room for three builds that are still
followed by a fresh id: so `Converges` covers the case that two contents are
deployed one after the other, an operator rolls back, and a third build brings the
vault's content again.

The runs `torn_history` and `attempt_stuck` expect a violation: each checks a
statement of a comment that the code does not keep (section 5).

`CHECK_DEADLOCK FALSE` is set where the counters can stop the model, as the real
system may be idle; the runs of RemoteProcessor check for deadlocks, since its timer
always starts another run. Symmetry is used only for safety; for `local`,
which checks liveness too, interchangeable run ids are taken in one order (`InOrder`) and one release and one valid content begin.

Liveness runs assume:

- `WF` of the processor, the coordinator and the local run: their systemd
  units start them again and again (README.md: every 30 minutes; path units);
- `WF` of an operator's command that has begun, of receiver processes, and of a
  call that is not lost: a started process goes on;
- `SF` of a broker retry: the client repeats an unanswered capture and the
  socket's queue gives it a turn among the others;
- `SF` of the success of a local build: building is deterministic and is
  tried again;
- nothing of editors, operators or upgrades.

Their premises are named in the properties: `HistoryHeals` (no record stays
torn), a vault that becomes valid and stays so, a pending rollback that somebody
finishes (`Settles`: on a host without process_remote only an operator does), and
suites that pass from some moment on (`EvaluationsPass`: a local host whose
evaluation fails forever never deploys, as it should). `[]Fresh` in `Converges` is
not a premise about the code but the bound of the model on run ids, which are
random in the code and do not run out. One warning: the premises do not
hide the faults, which happen before them.

## 4. Proofs

Every safety property that a run checks is also proved, for every value of
the constants: any number of processes, requests, files, contents and starts,
and every bound. `PROJECT.json` lists the theorem of each. The theorems are about
the specification with its own initial state; the runs that begin on a host in use
(`remote_liveness`, `retention`, `local`) add other beginnings for TLC.

The assumptions are the named ones of the modules: `None` is none of the
values it stands beside (`StoreAssumption`, `NullAssumption`, `NoFileAssumption`
and parts of the others), bounds are natural numbers, the processor, the local run
and the planner are processes of the host (the planner not the
processor), a deployment is made of a snapshot, a release and a run id.
TLC evaluates all of them in the runs. The theorems of System have one
hypothesis more, `WorkstationAssumption`: what Publication assumes and
RemoteProcessor does not already (its two bounds are numbers, `None` is no attempt).

None of the properties is inductive alone. Each proof module defines an
inductive invariant that adds what the code relies on without saying so, shows that
it holds initially and that every action keeps it, and derives the properties.

**DeploymentStoreProofs** (`Inv`, then `ProvenanceInv`, `RecordInv`):
`TypeCorrect`, `JournalAlwaysBrackets`, `ProvenanceIsTruthful` (the projection, and
with `HistoryIsTruthful` every record, is about a selection that happened),
`EverySelectionIsRecorded`, and the refinement `StoreImplementsSelection`.
`Inv` adds: who is in a locked phase holds the lock (`LockInv`); what
the transaction may assume in each phase (`TxnOK`: for example, that the target
of "create" is what `active.json` says, that a rollback in "journal" still
starts from the active pair); that both sides of a journal are the two
orders of one pair (`JournalInv`); that the clock is ahead of `active.json`
(`ClockInv`). `StepCases` reduces the next-state relation to eighteen kinds of
steps; `SoleStep` shows that the transaction that acts is the only one inside,
so the others' `TxnOK` is vacuous; `SideStep` handles the steps outside
the lock; `InvStep` then has one step per action. `SelectionStep` maps each action
to a step of DeploymentSelection or a stutter. `ProvenanceInv` adds what an
unlocked publication holds in memory; `RecordInv` that, without a fault, only the
selection `active.json` shows can lack its record, and only while its
transaction is about to write it.

**RemoteProcessorProofs** (`HostInv`): `HostTypesHold`, `CommitsAreAppliedOnce`,
`CommitsAreAppliedAsAuthorized`, `OnlyEvaluatedIsSelected`, and the refinement
`ProcessorImplementsHost`. Whatever the processor or an operator does on the store
is a step of the store (`ProcessorOperates`, `OperatorOperates`), so its
invariants carry over. On top of them: a passing report vouches for a build;
the files of a request appear in their order (`QueueInv`); what was applied was
journalled before (`AppliedInv`), which is why a commit is not applied twice
after a crash between `active.json` and the result; what the request at hand
is in at each step of a run (`WorkInv`); and what the store transaction the
processor waits for can be doing (`StoreCallInv`), which ties the moment
`active.json` changes to the candidate that was authorized.

**PublicationProofs** (`PublicationInv`): `PublicationTypesHold`,
`ArchiveIsAvailable`, `ReportsTellTheTruth`, `ReportsAreFinal`,
`MarkersWereConfirmed`, `CommitsStayFollowed`, and `PublicationRespectsHost`. The heart
of it is `CallOK`: what a call in flight, also one the coordinator gave up on,
may still write, and that what the receiver has read but not used yet is
still good, because results only move forward. `CoInv` and `WireInv` say what
the coordinator knows at each step and which call it waits for; `AttemptInv`,
`ReportInv` and `CommitInv` how its files stand to the host. Three more theorems are
what the end-to-end argument needs: whatever is queued, and every submission still
on its way, asks for the snapshot and the release of the attempt with its id
(`RequestsAreAttempts`, from `RequestInv`); a candidate is a build of just that
(`CandidatesAreBuiltForRequests`, from `CandidateInv`); and what the host has said it does
not take back (`WhatWasSaidStays`).

**System** (`SystemInv`: `HostInv` and, on the host's own state, `PublicationInv`,
`RequestInv` and `CandidateInv`). A step of one side is a step or a stutter of
the other side's model: the receiver's writes are `Submit` and `Authorize` of
RemoteProcessor (`PublisherSideMaps`), the processor's steps are the steps of
PublicationHost (`HostTakesPubSteps`). So each side keeps its own invariant, and the
other side's by the lemmas already proved (`SystemStep`).
`SystemRunsTheHost`: SpecSystem implies SpecHost, so every theorem about the host
holds of the whole. `WhatIsPublishedWasSelected`: what `last-result.json` calls
published was selected in `active.json`, with the snapshot and the release of the
attempt, after it had passed its evaluation. `WhatIsAppliedWasConfirmed`: what the
processor applied was confirmed by the workstation, for that snapshot and
release, against the deployment it replaced, however late a call arrived.
`WorkstationKeepsItsPromises` and `HostKeepsItsWord` carry the promises of
Publication over to the real host. These properties have no run: each side has its
runs, and the product of the two is what the theorem covers and TLC reaches only
for one or two requests.

**WriteBrokerProofs** (`BrokerInv`): `BrokerTypesHold`, `CaptureAnswersAgree`,
`BrokerOnlyCreates`, and the refinement `BrokerImplementsCapture`. The
invariant: the handler is the only writer of the files of its request and has
linked a note before it calls it applied (`JobInv`), nobody brings a note the
broker never linked (`FileInv`), an answered capture has its result file (`AnswerInv`).
Two theorems say more than a run does: a complete request or result file is never
rewritten (`BrokerFilesStay`), and no client is told of an applied note that the
broker did not link (`AppliedNotesWereLinked`).

**LocalPipelineProofs** (`RunInv`): `LocalTypesHold`, `RunSelectsWhatItChecked`,
`OutcomeIsHonest`. What the run has read, built and evaluated at each step
(`MemoryInv`) and what its call of the store can be doing (`CallInv`).

**MigrationProofs** (`MigrationInv`): `MigrationTypesHold`, `SnapshotPrecedesChange`,
`MigrationIsAllOrNothing`. In each phase, how the files the command found stand to
those of the report (`Found`: all of the report's are among them, and new ones may
be), what their copies hold (`Copied`), which of the files nobody edited are still
as reviewed and which are migrated (`CmdInv`), and that a manifest is written after
all the originals (`DirInv`). That only files of the report are written, and that an
apply succeeds only if there is no new one, are consequences of the read before each
write, not of what the loop runs over.

**RetentionProofs** (`PlanInv`): `PlanTypesHold`, `ListedStaysUnused`,
`PlansKeepWhatIsNeeded`, `PlansKeepRecent`. The planner's lock keeps the
store still (`Standstill`); what it learnt from a directory stays true while the
queue moves on (`ReadInv`): a final request stays final, and every other
one that has a build, or was queued before, has its snapshot among the references.
The order of the reads is what makes this so: results before the queue.
Why a listed deployment stays unused takes three more facts: times of
selections grow (`TimeInv`), no commit or promotion that was under way aims at
it, and it is neither half of the selected pair, which a rollback could
bring back (`UnusedInv`). `PlansKeepRecent` is about the count: for everything a plan lists, `Keep` unreferenced deployments that were selected more
recently stay. That takes the finiteness of the builds
(`BuildsFinite`) and, among the newer ones that would go, one with the fewest newer
ones, which exists because strict inclusion of finite sets is well-founded
(`RecentOnesStay`).

**Endpoint**, in WriteBrokerProofs (`EndpointInv`): `ServedIsReachable` and `StaleSocketIsReplaced`.
A process nobody crossed is the only one that starts or stops, so what it saw
at the path is still there, and no other process takes its inode for its own.

Only model-checked: liveness, which TLAPS does not reach (`CommitsSettle`,
`RequestsAnswered`, `RollbackFinishes`, `ProjectionConverges`,
`ResolvesUnlessReplaced`, `CapturesSettle`, `Converges`), and the two violations
of section 5, which are traces.

## 5. Where code and documents differ

Two have a run whose counterexample shows them.

- `torn_history`: a history record torn by a crash blocks a journalled rollback
  for good. Every later `process_remote` fails at its first step. The comment at
  `pipeline.py:2052` promises that boot or periodic processing may finish it.
- `attempt_stuck`: an operator's rollback before the coordinator reads the result back
  leaves an attempt that fails on every resume, and with it every new
  publication. The comment at `pipeline.py:1039` promises a deterministic recovery.

Others follow from the definitions by hand; the models contain them and no
property excludes them:

- A commit can be reported as failed although its candidate was selected: the
  bookkeeping after the replacement of `active.json` raises BuildError, and
  `pipeline.py:2018` maps it to `BUILD_FAILED`. (README.md: a failure
  "leaves the active database untouched".)
- A local run that stops after replacing `active.json` leaves the history and the
  projection behind until the next promotion: the next run reports `UNCHANGED`.
- A commit call that was given up can be executed after the attempt was
  reported as `LOCAL_SOURCE_CHANGED`. What is selected then is still what the
  workstation had confirmed (`WhatIsAppliedWasConfirmed`).
- A capture whose note was linked, before a crash, and then edited is rejected by its retry.
- `write_status` reports a rejection that is recorded nowhere; the capture can be
  applied later.
- A vault that becomes invalid between the baseline inspection and the copy gets
  a capture rejected for good, for errors of other notes.
- An intent torn by a crash can never be settled: every retry is answered
  `INTERNAL_ERROR`.
- A restore overwrites a file that is edited between its check and its write, and
  the undo of an apply does the same.
- A second local invocation records `UNCHANGED` over the first one's result; a
  local run reports `PROMOTED_SOURCE_MOVED` when nothing was promoted, and
  `POST_PROMOTION_MISMATCH` for a busy lock.
- A migration that was killed half-way cannot be restored, only planned again.
- A file without an id that is created after the review makes `vault migrate --apply`
  fail for good: the comparison of `migration.py:343` passes it over, the loop over
  the re-plan's files (`migration.py:360`) copies it and raises a KeyError at
  `proposed_ids[...]` (393), what was written is undone, and every later apply of the
  report is refused because its directory exists (355). A new report is needed, as
  for a file that changed, but here only after the vault was rewritten and put back.
- A second way to a stuck attempt: the host answers `UNCHANGED` with what
  `active.json` names by then, which may be a deployment of another release
  (`pipeline.py:1768`), and the coordinator refuses it on every resume.
  `ResolvesUnlessReplaced` excepts both ways.
- The snapshot of a failed build has no owner, and nothing removes it
  (`pipeline.py:1752`): until the same content is queued or built again, every
  retention plan is held back, so that the failed build is never listed by
  its age either. The test `test_age_policy_targets_only_stale_failed_build_and_incomplete_upload`
  (`test_retention.py:980`) expects a stale failed build to be listed, but writes one
  without its snapshot, which the processor cannot leave. No property is stated
  about this hold-back: nothing says that it is meant.
- `retention-plan` without the wrapper of `retention.py:1273`, which holds the
  host pipeline lock, makes a submission or a commit that meets it fail for good
  (`BUILD_FAILED`): the deployment lock it holds is not waited for.
- A request queued after the planner has read the queue is not in the plan:
  the property speaks of those queued before. A reader that pins a build after the
  planner has probed it is not in the plan either: the property speaks of the pins
  the planner found. There is no command that carries
  a plan out; one that did would have to look again under its own locks.
- Two brokers that start at one time may remove each other's new socket: between
  the second look (`write_broker.py:959`) and the unlink the other has bound
  its own. The one that lost it serves a path nobody reaches.
- An MCP server replaces the socket of one that is served, and when it ends it
  removes its successor's (`mcp_server.py:993`).

## 6. Not modelled

Schema-v1 state, `adopt_legacy_state` and `rebuild(promote=True)`: legacy paths
of the store. Two process_remote runs at once: only the systemd unit excludes
them. The parsing of USTAR archives, capabilities and byte limits in the
receiver, and the validation of record bytes by the retention planner: the
files of the model are well-formed, or torn where a crash can tear them. Incomplete uploads
(judged by their age alone), quarantine and the output path of a plan. The
normalisation of notes. The context compiler, the breadth-first searches of
`query.py`, parsing of Markdown, the Cozo schema, the evaluation suites: data without control, whose verdicts
are inputs of the models. Authentication and tool dispatch of the MCP server. Inodes that are reused, with which
the broker's comparison can be deceived. The interim `last-result.json` of an attempt
that stays pending (`pipeline.py:1038`), which no step reads. Duplicate ids in the
vault, and an id a file has that is no UUID, for which a migration is refused as it is for a malformed file. Hashes are the identity of what they hash.

## 7. Plan

Done in this order: DeploymentStore with its abstraction and proofs,
RemoteProcessor, PublicationHost, Publication, NoteCapture and WriteBroker,
LocalPipeline, Migration, Retention, Endpoint.

Then the proofs: the invariants and refinements of the store, of the write broker, the
sockets, the migration, the publication, the host processor, the local pipeline
and the retention planner; the composition of host and workstation (System); what
a retention plan keeps.

What is left: the parts of section 6 with control of their own (schema-v1
adoption, two processors at once), and liveness, for which the runs are all there is.
