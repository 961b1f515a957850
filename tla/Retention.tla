------------------------------ MODULE Retention ------------------------------
(***************************************************************************)
(* `pipeline retention-plan` of retention.py next to the host processor    *)
(* and its operators: a dry run that lists what a cleanup could delete. It *)
(* holds the deployment lock shared, so that the files of the deployment   *)
(* store stand still, and reads the queue, the projection, the snapshot    *)
(* store and the run pins one after the other while they move on.          *)
(*                                                                         *)
(*   snaps       vault-snapshots/<id>: the stored snapshots                *)
(*   failed      requests whose build left a manifest "failed" behind      *)
(*   unfinished  a build without a deployment left another manifest behind *)
(*   plan        the planner's memory, and its result once it is done      *)
(*                                                                         *)
(* Nobody excludes readers or is excluded by them: retention.lock is only  *)
(* ever taken shared. So the builds that are pinned, and the failed builds *)
(* that are older than FAILED_BUILD_RETENTION, are any at the moment the   *)
(* planner looks. A result names the run and the snapshot of its           *)
(* candidate, so one reference to the deployment stands for all three. A   *)
(* directory is read in one step, because what the planner takes from a    *)
(* request depends on that request's files only. plan.asked and plan.at    *)
(* are history: the unsettled requests that were queued when the plan      *)
(* began, and the number of selections before the plan was made.           *)
(***************************************************************************)
EXTENDS RemoteProcessor

CONSTANTS Planner,  \* the process that runs retention-plan
          Keep,     \* --keep-additional-verified
          Readers   \* bound on the processes that query the databases

ASSUME RetentionAssumption ==
    /\ Planner \in Actors \ {Processor}
    /\ Keep \in Nat /\ Readers \in Nat

VARIABLES snaps, failed, unfinished, plan

leftovers == <<snaps, failed, unfinished>>
retentionVars == <<leftovers, plan>>

\* deps and snaps are references.deployments and .snapshots, lost those of
\* failure_deployments (their snapshots are failure_snapshots).
NoPlan == [pc |-> "off", final |-> {}, deps |-> {}, snaps |-> {}, lost |-> {},
           blocked |-> FALSE, remove |-> {}, drop |-> {}, aged |-> {},
           live |-> {}, asked |-> {}, at |-> 0]

SnapsOf(D) == {d.snap : d \in D}

InitRetention ==
    /\ InitHost
    /\ snaps = {} /\ failed = {} /\ unfinished = FALSE
    /\ plan = NoPlan

-----------------------------------------------------------------------------
(* What the processor leaves in the snapshot store and among the builds *)

\* Mutant: the snapshot is stored when its build is there.
StoreSnapshotOfBuild ==
    snaps' = IF At("building") /\ proc'.pc = "evaluate"
             THEN snaps \union {req[proc'.work].snap} ELSE snaps

\* _copy_verified_snapshot stores the snapshot before rebuild is called,
\* whatever becomes of the build. Nothing ever removes it.
StoreSnapshot ==
    snaps' = IF At("submissions") /\ proc'.pc = "building"
             THEN snaps \union {req[proc'.work].snap} ELSE snaps

\* A build that fails has its manifest, if it came that far; one that failed
\* after its verification, or was killed, says something else than "failed".
LeaveBuild ==
    \/ UNCHANGED <<failed, unfinished>>
    \/ /\ txn[Processor].phase = "build" /\ txn'[Processor].phase = "idle"
       /\ \/ /\ reply'[Processor] = "refused" /\ failed' = failed \union {proc.work}
             /\ UNCHANGED unfinished
          \/ unfinished' = TRUE /\ UNCHANGED failed

Process == /\ ProcessorStep \/ ProcessorFault
           /\ StoreSnapshot /\ LeaveBuild
           /\ UNCHANGED plan

-----------------------------------------------------------------------------
(* plan_deployment_retention *)

Planning(pc) == plan.pc = pc

\* The planner reads, under its lock, and goes on.
Reads(pc, memory) ==
    /\ Planning(pc)
    /\ plan' = memory
    /\ UNCHANGED <<vars, leftovers>>

\* The lock is waited for. A half-written history record is no record: the
\* bundle it belongs to is invalid.
PlanBegin ==
    /\ Planning("off") /\ lock = None
    /\ lock' = Planner
    /\ plan' = [plan EXCEPT !.pc = "results", !.blocked = torn # {},
                            !.asked = {r \in Requests : req[r] # None /\ ~Settled(r)}]
    /\ UNCHANGED <<durableVars, txn, reply, clock, faults, selections, queueVars,
                   policy, proc, ops, applied, leftovers>>

Candidates(R) == {result[r].cand : r \in R} \ {None}
Expected(R) == {req[r].expected : r \in R} \ {None}

Ready == {r \in Requests : result[r].outcome = "CANDIDATE_READY"}

Lost == {r \in Requests : /\ result[r].outcome \in Failures
                          /\ result[r].cand # None}

\* Mutant: a candidate that waits for its commit counts as settled.
ReadResultsAsFinal ==
    Reads("results",
          [plan EXCEPT !.pc = "incoming",
                       !.final = {r \in Requests : result[r] # NoResult},
                       !.deps = Expected(Lost),
                       !.lost = Candidates(Lost)])

ReadResults ==
    Reads("results",
          [plan EXCEPT !.pc = "incoming",
                       !.final = {r \in Requests : Settled(r)},
                       !.deps = Candidates(Ready) \union Expected(Ready \union Lost),
                       !.snaps = SnapsOf(Candidates(Ready)),
                       !.lost = Candidates(Lost)])

\* The results were read before: a request that was answered since is open.
ReadIncoming ==
    LET open == {r \in Requests \ plan.final : req[r] # None} IN
    Reads("incoming",
          [plan EXCEPT !.pc = "commits",
                       !.deps = @ \union Expected(open),
                       !.snaps = @ \union {req[r].snap : r \in open}])

\* A marker and a commit journal name the candidate and what it replaces.
ReadCommits(pc, next, R) ==
    LET open == R \ plan.final IN
    Reads(pc, [plan EXCEPT !.pc = next,
                           !.deps = @ \union Candidates(open) \union Expected(open)])

\* What is referenced and has no bundle.
Missing == (plan.deps \union plan.lost) \ builds

\* There must be an active deployment, and the projection must show it.
StateDisagrees == active.cur = None \/ projection # active.cur

\* With a pending rollback, a missing bundle or such a state, nothing may be
\* deleted.
CheckStore ==
    Reads("store",
          [plan EXCEPT !.pc = "orphans",
                       !.blocked = @ \/ journal # None \/ Missing # {} \/ StateDisagrees])

\* Nothing names the run of a failed build, so that it is listed by its age.
ListOrphans ==
    \E stale \in SUBSET failed :
        Reads("orphans",
              [plan EXCEPT !.pc = "pins",
                           !.blocked = \/ @
                                       \/ unfinished
                                       \/ snaps \ (SnapsOf(builds) \union plan.snaps) # {},
                           !.aged = stale])

\* Each reader pins the build it has selected, of late or long ago.
Pinnable == {live \in SUBSET builds : Cardinality(live) <= Readers}

\* run_is_pinned tries the lock of every build.
ProbePins ==
    \E live \in Pinnable : Reads("pins", [plan EXCEPT !.pc = "decide", !.live = live])

Times(d) == {h.at : h \in {x \in history : x.dep = d}}

\* The selected pair, the pinned and the referenced deployments, and those
\* that are evidence: a failed candidate, and a build never promoted.
Reserved ==
    LET inUse == {DepOf(active.cur), DepOf(active.prev)} \union plan.live IN
    inUse \union plan.deps \union plan.lost \union {d \in builds \ inUse : Times(d) = {}}

\* The deployments nobody refers to that were selected more recently than d.
Newer(d) ==
    {e \in builds \ Reserved : \E t \in Times(e) : \A u \in Times(d) : t > u}

\* Mutant: a deployment is ranked by the first time it was selected.
AdditionalByFirst ==
    {d \in builds \ Reserved :
        Cardinality({e \in builds \ Reserved :
                        \A t \in Times(e) : \E u \in Times(d) : t > u}) < Keep}

\* The Keep most recently selected ones of them are kept too.
Additional == {d \in builds \ Reserved : Cardinality(Newer(d)) < Keep}

Removable ==
    {d \in builds \ (Reserved \union Additional) :
        d.snap \notin plan.snaps \union SnapsOf(plan.lost)}

\* Mutant: a snapshot goes with the first deployment that is removed.
UnsharedOrNot(removed) == SnapsOf(removed) \ (plan.snaps \union SnapsOf(plan.lost))

\* A snapshot goes with the last deployment that was built from it.
Unshared(removed) ==
    SnapsOf(removed) \ (SnapsOf(builds \ removed) \union plan.snaps \union SnapsOf(plan.lost))

Decide ==
    /\ Planning("decide")
    /\ lock' = None
    /\ plan' = [NoPlan EXCEPT !.pc = "done", !.asked = plan.asked, !.at = clock,
                              !.blocked = plan.blocked,
                              !.remove = IF plan.blocked THEN {} ELSE Removable,
                              !.drop = IF plan.blocked THEN {} ELSE Unshared(Removable),
                              !.aged = IF plan.blocked THEN {} ELSE plan.aged]
    /\ UNCHANGED <<durableVars, txn, reply, clock, faults, selections, queueVars,
                   policy, proc, ops, applied, leftovers>>

PlannerStep ==
    \/ PlanBegin \/ ReadResults \/ ReadIncoming
    \/ ReadCommits("commits", "journals", marker)
    \/ ReadCommits("journals", "store", cjournal)
    \/ CheckStore \/ ListOrphans \/ ProbePins \/ Decide

\* A request expects what the projection shows; RemoteProcessor's own runs
\* have those that expect what it showed before, and the operators' reports.
NextRetention ==
    \/ Process
    \/ /\ \/ \E r \in Requests, s \in Snapshots, rel \in Releases :
                Submit(r, s, rel, DepOf(projection))
          \/ \E r \in Requests : Authorize(r)
          \/ \E o \in Operators \ {Planner} :
                \/ OperatorCommand(o) /\ UNCHANGED reports
                \/ OperatorStep(o) \/ OperatorFault(o)
       /\ UNCHANGED retentionVars
    \/ PlannerStep

SpecRetention == InitRetention /\ [][NextRetention]_<<vars, retentionVars>>

-----------------------------------------------------------------------------
(* Properties *)

\* A dry run holds the deployment lock until it has decided, and what it
\* lists is stored: deployments with a record, snapshots, failed builds.
PlanTypeOK ==
    /\ HostTypeOK
    /\ lock = Planner <=> plan.pc \notin {"off", "done"}
    /\ plan.remove \subseteq builds /\ plan.drop \subseteq snaps
    /\ plan.aged \subseteq failed
    /\ SnapsOf(builds) \subseteq snaps

\* What a plan lists for deletion is needed by nobody when it is made, though
\* the queue was read file by file while requests were answered, committed
\* and applied: not the selected pair, not a pinned build, not what a
\* request that was open before needs to be committed, nor a candidate that
\* failed; and no snapshot that a retained deployment or such a request uses.
PlanKeepsNeeded ==
    [][Planning("decide") /\ plan'.pc = "done" =>
         LET open == {r \in plan.asked : ~Settled(r)} IN
         /\ ({DepOf(active.cur), DepOf(active.prev)} \union plan.live) \intersect plan'.remove = {}
         /\ (Candidates(open \union Lost) \union Expected(open)) \intersect plan'.remove = {}
         /\ ({req[r].snap : r \in open} \union SnapsOf(builds \ plan'.remove))
               \intersect plan'.drop = {}]_<<vars, retentionVars>>

\* Once a deployment is listed, it stays out of use: the processor's commits
\* and rollbacks, also those begun before the plan, never select it again,
\* unless an operator promotes it anew.
PlannedStaysUnused ==
    \A s \in selections :
        s.dep \in plan.remove /\ s.at > plan.at =>
            \E t \in selections : /\ t.dep = s.dep /\ plan.at < t.at /\ t.at <= s.at
                                  /\ t.way = "promote"
                                  /\ t.at \notin {x.at : x \in applied}

\* The oldest go first: for whatever a plan removes, Keep deployments are left
\* that were selected more recently. Those it keeps anyhow, since they are
\* selected, pinned, named by a request or evidence, do not count, even if they
\* became so while the planner was reading, and neither does an earlier
\* selection of a deployment that was selected again.
PlanKeepsRecent ==
    [][Planning("decide") /\ plan'.pc = "done" =>
         \A d \in plan'.remove : Cardinality(Newer(d) \ plan'.remove) >= Keep]_<<vars, retentionVars>>
=============================================================================
