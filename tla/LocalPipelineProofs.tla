------------------------ MODULE LocalPipelineProofs ------------------------
(***************************************************************************)
(* Proofs about LocalPipeline for every set of contents, releases, run ids *)
(* and operators and for every bound. RunInv is the inductive invariant:   *)
(* the store's own (DeploymentStoreProofs), only builds selected in it,    *)
(* what the run knows at each of its steps (MemoryInv) and of the store    *)
(* transaction it waits for (CallInv).                                     *)
(***************************************************************************)
EXTENDS LocalPipeline, DeploymentStoreProofs

\* Until the run calls promote, and once it has inspected the source again.
Early == {"first", "second", "export", "copy", "compare", "build", "building", "evaluate",
          "check", "confirm", "promote"}

Checked == {"confirm", "promote", "promoting", "verify", "publishing"}

Memory == [pc : {"off"} \union Early \union Checked,
           rel : Releases \union {None}, saw : Valid \union {None},
           before : Contents \union {None}, expected : Deployments \union {None},
           made : Deployments \union {None}, recent : SUBSET Contents, did : BOOLEAN]

ResultFiles == [outcome : Outcomes, dep : Deployments \union {None}, did : BOOLEAN]

LocalTypes ==
    /\ vault \in Contents
    /\ passed \subseteq builds
    /\ release \in Releases
    /\ run \in Memory /\ run.made \in builds \union {None}
    /\ last \in ResultFiles /\ last.dep \in builds \union {None}

StoreInv == Inv /\ SelectsFrom(builds)

\* The build of this run: of the content it saw, by the release it runs.
OwnBuild == run.made \in builds /\ run.made.snap = run.saw /\ run.made.rel = run.rel

\* What a run knows at each of its steps: only from its promotion on it has
\* replaced anything, and once it has inspected the source again the vault
\* did hold what it saw.
MemoryInv ==
    /\ run.pc # "off" => run.rel # None
    /\ run.pc \notin {"off", "first"} => run.saw # None
    /\ run.pc \in {"off"} \union Early => ~run.did
    /\ run.pc \in {"evaluate", "check"} \union Checked => OwnBuild
    /\ run.pc \in Checked => run.saw \in run.recent

\* How the transaction t of the run, and its answer w, stand to the run.
CallOK(t, w) ==
    /\ t.phase = "active" => /\ run.pc = "promoting"
                             /\ t.target.cur.dep = run.made
                             /\ DepOf(t.target.prev) = run.expected
    /\ run.pc = "building" =>
           /\ t.phase \in {"idle", "build", "release"}
           /\ t.phase = "release" \/ w = "built" => OwnBuild

CallInv == CallOK(txn[Reconciler], reply[Reconciler])

RunInv == /\ LocalTypes /\ StoreInv /\ MemoryInv /\ CallInv
          /\ SelectsWhatItChecked /\ OutcomeTellsPromotion

-----------------------------------------------------------------------------
(* A run works on the store through its operations only *)

LEMMA PromoteEvaluatedOperates ==
    ASSUME RunInv, NEW V, V = builds, NEW a \in Actors, NEW d \in Deployments,
           NEW e \in Deployments \union {None}, PromoteEvaluated(a, d, e)
    PROVE  Operates(a, V)
<1>1. CASE d \in passed /\ Promote(a, d, e)
  BY <1>1 DEF RunInv, LocalTypes, Operates
<1>2. CASE PromoteRefused(a)
  BY <1>2 DEF Operates
<1>3. CASE Answer(a, "refused") /\ UNCHANGED faults
  BY <1>3 DEF Operates, Replies
<1>4. QED BY <1>1, <1>2, <1>3 DEF PromoteEvaluated

\* An error that only the run sees is no step of the store.
LEMMA FaultIsStoreStep ==
    ASSUME TypeOK, NEW D, faults' = faults + 1,
           UNCHANGED <<durableVars, lock, txn, reply, clock, selections>>
    PROVE  StoreStep(D)
<1>1. /\ Reconciler \in Actors /\ reply[Reconciler] \in Replies
      /\ reply' = [reply EXCEPT ![Reconciler] = reply[Reconciler]]
  BY LocalAssumption DEF TypeOK
<1>2. Answers(Reconciler)
  BY <1>1 DEF Answers
<1>3. QED BY <1>1, <1>2 DEF Acts, StoreStep

LEMMA ReconcileStoreStep ==
    ASSUME RunInv, NEW V, V = builds, ReconcileStep \/ ReconcileFault
    PROVE  StoreStep(V)
<1>1. Reconciler \in Actors /\ TypeOK /\ V \in SUBSET Deployments /\ run \in Memory
  BY LocalAssumption DEF RunInv, StoreInv, Inv, TypeOK, LocalTypes
<1>2. ASSUME UNCHANGED storeVars \/ Operates(Reconciler, V)
      PROVE  StoreStep(V)
  BY <1>1, <1>2, StepCases DEF StoreStep
<1>3. ASSUME faults' = faults + 1, UNCHANGED <<durableVars, lock, txn, reply, clock, selections>>
      PROVE  StoreStep(V)
  BY <1>1, <1>3, FaultIsStoreStep
<1>4. CASE \/ StartRun \/ FirstInspection \/ SecondInspection \/ BeginExport \/ EndExport
           \/ Compare \/ Evaluate \/ CheckSource \/ ConfirmCurrent
  BY <1>2, <1>4 DEF StartRun, FirstInspection, SecondInspection, BeginExport, EndExport, Compare,
     Evaluate, CheckSource, ConfirmCurrent
<1>5. CASE BuildSnapshot
  <2>1. CASE LockBusy(Reconciler) \/ RebuildUnchanged(Reconciler) \/ RebuildBegin(Reconciler)
    BY <1>2, <2>1 DEF Operates, LockBusy, Replies
  <2>2. QED BY <1>3, <1>5, <2>1 DEF BuildSnapshot
<1>6. CASE BuildSucceeds
  <2>1. ASSUME NEW id \in Runs,
               RebuildEnd(Reconciler, [snap |-> run.saw, rel |-> run.rel, run |-> id])
        PROVE  StoreStep(V)
    <3>1. [snap |-> run.saw, rel |-> run.rel, run |-> id] \in Deployments
      BY <1>1, <1>6, LocalAssumption DEF BuildSucceeds, At, RunInv, MemoryInv, Memory
    <3>2. PICK d \in Deployments : RebuildEnd(Reconciler, d)
      BY <2>1, <3>1
    <3>3. QED BY <1>2, <3>2 DEF Operates
  <2>2. QED BY <1>6, <2>1 DEF BuildSucceeds
<1>7. CASE BuildFails \/ Built \/ Promoted \/ Verified \/ WorkInStore
  BY <1>2, <1>7 DEF BuildFails, Built, Promoted, Verified, WorkInStore, Operates
<1>8. CASE PromoteCandidate
  <2>1. run.made \in Deployments /\ run.expected \in Deployments \union {None}
    BY <1>1, <1>8 DEF PromoteCandidate, At, RunInv, MemoryInv, OwnBuild, TypeOK, Memory, Checked
  <2>2. PICK d \in Deployments, e \in Deployments \union {None} : PromoteEvaluated(Reconciler, d, e)
    BY <1>8, <2>1 DEF PromoteCandidate
  <2>3. QED BY <1>1, <1>2, <2>2, PromoteEvaluatedOperates
<1>9. CASE VerifyActive
  BY <1>2, <1>3, <1>9 DEF VerifyActive, Operates
<1>10. CASE ReconcileFault
  BY <1>2, <1>3, <1>10 DEF ReconcileFault, LocalError, Operates
<1>11. QED BY <1>4, <1>5, <1>6, <1>7, <1>8, <1>9, <1>10 DEF ReconcileStep

LEMMA OperatorStoreStep ==
    ASSUME RunInv, NEW V, V = builds, NEW o \in Operators,
           OperatorCommand(o) \/ OperatorStep(o) \/ OperatorFault(o)
    PROVE  /\ StoreStep(V)
           /\ txn'[Reconciler] = txn[Reconciler] /\ reply'[Reconciler] = reply[Reconciler]
<1>1. /\ o \in Actors /\ Reconciler \in Actors /\ Reconciler # o /\ TypeOK
      /\ V \in SUBSET Deployments
  BY LocalAssumption DEF Operators, RunInv, StoreInv, Inv, TypeOK
<1>2. UNCHANGED storeVars \/ Operates(o, V)
  <2>1. ASSUME NEW d \in builds, NEW e \in Deployments \union {None}, PromoteEvaluated(o, d, e)
        PROVE  Operates(o, V)
    <3>1. d \in Deployments
      BY <1>1 DEF TypeOK
    <3>2. QED BY <1>1, <2>1, <3>1, PromoteEvaluatedOperates
  <2>2. CASE OperatorCommand(o)
    BY <2>1, <2>2 DEF OperatorCommand, Operates
  <2>3. CASE OperatorStep(o) \/ OperatorFault(o)
    BY <2>3 DEF OperatorStep, OperatorFault, Crash, Operates
  <2>4. QED BY <2>2, <2>3
<1>3. QED BY <1>1, <1>2, StepCases, StoreFrame DEF StoreStep, storeVars

\* Every step of the host keeps the store's invariant and every build.
LEMMA StoreKept ==
    ASSUME RunInv, [NextLocal]_vars
    PROVE  StoreInv' /\ builds \subseteq builds'
<1>1. PICK V, W : V = builds /\ W = builds'
  OBVIOUS
<1>2. StoreStep(V)
  <2>1. CASE \/ Overlap \/ UNCHANGED vars
             \/ \E c \in Contents : Edit(c)
             \/ \E v \in Releases : Upgrade(v)
    BY <2>1 DEF Overlap, Edit, Upgrade, vars, StoreStep
  <2>2. QED BY <1>1, <2>1, ReconcileStoreStep, OperatorStoreStep DEF NextLocal
<1>3. Inv /\ V \in SUBSET Deployments /\ SelectsFrom(V)
  BY <1>1 DEF RunInv, StoreInv, Inv, TypeOK, SelectsFrom
<1>4. builds \subseteq builds'
  BY <1>2, StoreGrows
<1>5. Inv'
  <2>1. TypeOK'
    BY <1>2, <1>3, TypeStep DEF Inv
  <2>2. QED BY <1>2, <1>3, <2>1, InvStep DEF Inv
<1>6. SelectsFrom(W)'
  BY <1>1, <1>2, <1>3, <1>4, SelectsFromStep
<1>7. SelectsFrom(builds)'
  BY <1>1, <1>6 DEF SelectsFrom
<1>8. QED BY <1>4, <1>5, <1>7 DEF StoreInv

-----------------------------------------------------------------------------
(* The memory of a run *)

LocalInv == LocalTypes /\ MemoryInv /\ CallInv /\ SelectsWhatItChecked /\ OutcomeTellsPromotion

LEMMA RunFacts ==
    ASSUME RunInv
    PROVE  /\ run \in Memory /\ Reconciler \in Actors
           /\ txn \in [Actors -> Txns] /\ reply \in [Actors -> Replies]
           /\ run.pc # "promoting" => txn[Reconciler].phase # "active"
           /\ None \notin Contents /\ None \notin Valid /\ None \notin Releases
           /\ vault \in Contents
BY LocalAssumption DEF RunInv, LocalTypes, StoreInv, Inv, TypeOK, CallInv, CallOK

\* The run goes on; nothing is reported.
LEMMA MoveStep ==
    ASSUME RunInv, builds \subseteq builds', UNCHANGED <<vault, release, chosen, last>>,
           passed' \subseteq builds', run' \in Memory, run'.made \in builds' \union {None},
           MemoryInv', CallInv'
    PROVE  LocalInv'
<1>1. LocalTypes'
  BY DEF RunInv, LocalTypes
<1>2. SelectsWhatItChecked' /\ OutcomeTellsPromotion'
  BY DEF RunInv, SelectsWhatItChecked, OutcomeTellsPromotion
<1>3. QED BY <1>1, <1>2 DEF LocalInv

\* No run: nothing is known, and the store owes it nothing.
LEMMA OffStep ==
    ASSUME run' = NoRun, txn'[Reconciler].phase # "active"
    PROVE  /\ run' \in Memory /\ run'.made \in builds' \union {None}
           /\ MemoryInv' /\ CallInv'
<1>1. run' \in Memory /\ run'.pc = "off" /\ ~run'.did /\ run'.made = None
  BY DEF NoRun, Memory
<1>2. QED BY <1>1 DEF MemoryInv, CallInv, CallOK, Early, Checked

\* The run ends with a result; it may have replaced active.json only if the
\* result says so.
LEMMA EndStep ==
    ASSUME RunInv, builds \subseteq builds', UNCHANGED <<vault, release, chosen>>,
           passed' \subseteq builds', NEW o \in Outcomes, NEW d \in builds \union {None}, End(o, d),
           run.did => o \in {"PROMOTED", "POST_PROMOTION_MISMATCH"},
           txn'[Reconciler].phase # "active"
    PROVE  LocalInv'
<1>1. /\ run' \in Memory /\ run'.made \in builds' \union {None}
      /\ MemoryInv' /\ CallInv'
  BY OffStep DEF End
<1>2. /\ last' \in ResultFiles /\ last'.outcome = o /\ last'.dep = d /\ last'.did = run.did
  <2>1. d \in Deployments \union {None}
    BY DEF RunInv, StoreInv, Inv, TypeOK
  <2>2. QED BY <2>1, RunFacts DEF End, ResultFiles, Memory
<1>3. LocalTypes'
  BY <1>1, <1>2 DEF RunInv, LocalTypes
<1>4. OutcomeTellsPromotion'
  BY <1>2 DEF OutcomeTellsPromotion
<1>5. SelectsWhatItChecked'
  BY DEF RunInv, SelectsWhatItChecked
<1>6. QED BY <1>1, <1>3, <1>4, <1>5 DEF LocalInv

LEMMA GoFacts ==
    ASSUME run \in Memory, NEW p \in Early \union Checked, Go(p)
    PROVE  /\ run' \in Memory /\ run'.pc = p /\ run'.rel = run.rel /\ run'.saw = run.saw
           /\ run'.expected = run.expected /\ run'.made = run.made
           /\ run'.recent = run.recent /\ run'.did = run.did /\ UNCHANGED last
BY DEF Go, Memory

LEMMA InspectedFacts ==
    ASSUME run \in Memory, vault \in Valid, vault \in Contents, NEW p \in Early \union Checked,
           Inspected(p, "saw")
    PROVE  /\ run' \in Memory /\ run'.pc = p /\ run'.rel = run.rel /\ run'.saw = vault
           /\ run'.expected = run.expected /\ run'.made = run.made
           /\ run'.recent = {vault} /\ run'.did = run.did /\ UNCHANGED last
BY DEF Inspected, Memory

\* The steps of a run that call nothing of the store.
LEMMA SourceSteps ==
    ASSUME RunInv,
           \/ StartRun \/ FirstInspection \/ SecondInspection \/ BeginExport \/ EndExport
           \/ Compare \/ Evaluate \/ CheckSource \/ ConfirmCurrent \/ LocalError
    PROVE  LocalInv'
<1>1. /\ run \in Memory /\ Reconciler \in Actors
      /\ run.pc # "promoting" => txn[Reconciler].phase # "active"
      /\ None \notin Contents /\ None \notin Valid /\ None \notin Releases
      /\ vault \in Contents
  BY RunFacts
<1>2. /\ UNCHANGED <<vault, release, chosen, txn, reply, builds>>
      /\ run.pc \in {"off"} \union (Early \ {"build", "building", "promote"})
  BY DEF StartRun, FirstInspection, SecondInspection, BeginExport, EndExport, Compare, Evaluate,
         CheckSource, ConfirmCurrent, LocalError, sourceVars, storeVars, durableVars, At, Early
<1>3. ~run.did /\ txn'[Reconciler].phase # "active"
  BY <1>1, <1>2 DEF RunInv, MemoryInv, Early
<1>4. passed' \subseteq builds'
  BY <1>2 DEF StartRun, FirstInspection, SecondInspection, BeginExport, EndExport, Compare,
     Evaluate, CheckSource, ConfirmCurrent, LocalError, At, RunInv, LocalTypes, MemoryInv, OwnBuild
<1>5. ASSUME NEW o \in Outcomes, NEW d \in builds \union {None}, End(o, d)
      PROVE  LocalInv'
  BY <1>2, <1>3, <1>4, <1>5, EndStep
<1>6. ASSUME NEW o \in Outcomes, Fail(o)
      PROVE  LocalInv'
  BY <1>5, <1>6 DEF Fail
<1>7. ASSUME run' \in Memory, run'.made = run.made \/ run'.made = None, UNCHANGED last, MemoryInv',
             run'.pc # "building"
      PROVE  LocalInv'
  <2>1. CallInv'
    BY <1>3, <1>7 DEF CallInv, CallOK
  <2>2. run'.made \in builds' \union {None}
    BY <1>2, <1>7 DEF RunInv, LocalTypes
  <2>3. QED BY <1>2, <1>4, <1>7, <2>1, <2>2, MoveStep
<1>8. CASE StartRun
  <2>1. release \in Releases
    BY DEF RunInv, LocalTypes
  <2>2. /\ run' \in Memory /\ run'.pc = "first" /\ run'.rel = release /\ run'.made = None
        /\ ~run'.did /\ UNCHANGED last
    BY <1>8, <2>1 DEF StartRun, NoRun, Memory, Early
  <2>3. MemoryInv'
    BY <1>1, <2>1, <2>2 DEF MemoryInv, Early, Checked
  <2>4. QED BY <1>7, <2>2, <2>3
<1>9. ASSUME NEW p \in {"second", "export", "compare"}, vault \in Valid, Inspected(p, "saw"),
             run.pc # "off"
      PROVE  LocalInv'
  <2>1. /\ run' \in Memory /\ run'.pc = p /\ run'.rel = run.rel /\ run'.saw = vault
        /\ run'.made = run.made /\ run'.did = run.did /\ UNCHANGED last
    BY <1>1, <1>9, InspectedFacts DEF Early
  <2>2. MemoryInv'
    BY <1>1, <1>3, <1>9, <2>1 DEF RunInv, MemoryInv, Early, Checked
  <2>3. QED BY <1>7, <1>9, <2>1, <2>2
<1>10. run.saw # None => run.saw \in Valid
  BY <1>1 DEF Memory
<1>11. CASE FirstInspection
  BY <1>6, <1>9, <1>11 DEF FirstInspection, At, Outcomes
<1>12. CASE SecondInspection
  BY <1>1, <1>6, <1>9, <1>10, <1>12 DEF SecondInspection, At, Outcomes
<1>13. CASE BeginExport
  <2>1. CASE vault \in Valid /\ Inspected("copy", "before")
    <3>1. /\ run' \in Memory /\ run'.pc = "copy" /\ run'.rel = run.rel /\ run'.saw = run.saw
          /\ run'.made = run.made /\ run'.did = run.did /\ UNCHANGED last
      BY <1>1, <2>1 DEF Inspected, Memory, Early
    <3>2. MemoryInv'
      BY <1>1, <1>3, <1>13, <3>1 DEF RunInv, MemoryInv, BeginExport, At, Early, Checked
    <3>3. QED BY <1>7, <3>1, <3>2
  <2>2. QED BY <1>6, <1>13, <2>1 DEF BeginExport, Outcomes
<1>14. CASE EndExport
  BY <1>1, <1>6, <1>9, <1>10, <1>14 DEF EndExport, At, Outcomes
<1>15. CASE Compare
  <2>1. CASE Matches(active.cur) /\ End("UNCHANGED", active.cur.dep)
    <3>1. active.cur.dep \in builds
      BY <2>1 DEF Matches, RunInv, StoreInv, SelectsFrom
    <3>2. PICK d \in builds : End("UNCHANGED", d)
      BY <2>1, <3>1
    <3>3. QED BY <1>5, <3>2 DEF Outcomes
  <2>2. CASE /\ run' = [run EXCEPT !.pc = "build", !.expected = DepOf(active.cur)]
             /\ UNCHANGED last
    <3>1. DepOf(active.cur) \in Deployments \union {None}
      BY DEF DepOf, RunInv, StoreInv, Inv, TypeOK, States, Selected
    <3>2. /\ run' \in Memory /\ run'.pc = "build" /\ run'.rel = run.rel /\ run'.saw = run.saw
          /\ run'.made = run.made /\ run'.did = run.did
      BY <1>1, <2>2, <3>1 DEF Memory, Early
    <3>3. MemoryInv'
      BY <1>3, <1>15, <3>2 DEF RunInv, MemoryInv, Compare, At, Early, Checked
    <3>4. QED BY <1>7, <2>2, <3>2, <3>3
  <2>3. QED BY <1>15, <2>1, <2>2 DEF Compare
<1>16. CASE Evaluate
  <2>1. CASE run' = [run EXCEPT !.pc = "check", !.recent = {vault}] /\ UNCHANGED last
    <3>1. /\ run' \in Memory /\ run'.pc = "check" /\ run'.rel = run.rel /\ run'.saw = run.saw
          /\ run'.made = run.made /\ run'.did = run.did
      BY <1>1, <2>1 DEF Memory, Early
    <3>2. MemoryInv'
      BY <1>2, <1>3, <1>16, <3>1 DEF RunInv, MemoryInv, OwnBuild, Evaluate, At, Early, Checked
    <3>3. QED BY <1>7, <2>1, <3>1, <3>2
  <2>2. QED BY <1>6, <1>16, <2>1 DEF Evaluate, Outcomes
<1>17. CASE CheckSource
  <2>1. CASE vault = run.saw /\ Inspected("confirm", "saw")
    <3>1. vault \in Valid
      BY <1>1, <1>10, <2>1
    <3>2. /\ run' \in Memory /\ run'.pc = "confirm" /\ run'.rel = run.rel /\ run'.saw = run.saw
          /\ run'.made = run.made /\ run'.did = run.did /\ run'.recent = {run.saw}
          /\ UNCHANGED last
      BY <1>1, <2>1, <3>1, InspectedFacts DEF Early
    <3>3. MemoryInv'
      BY <1>2, <1>3, <1>17, <3>2 DEF RunInv, MemoryInv, OwnBuild, CheckSource, At, Early, Checked
    <3>4. QED BY <1>7, <3>2, <3>3
  <2>2. QED BY <1>6, <1>17, <2>1 DEF CheckSource, Outcomes
<1>18. CASE ConfirmCurrent
  <2>1. CASE Go("promote")
    <3>1. /\ run' \in Memory /\ run'.pc = "promote" /\ run'.rel = run.rel /\ run'.saw = run.saw
          /\ run'.made = run.made /\ run'.did = run.did /\ run'.recent = run.recent
          /\ UNCHANGED last
      BY <1>1, <2>1, GoFacts DEF Early
    <3>2. MemoryInv'
      BY <1>2, <1>3, <1>18, <3>1 DEF RunInv, MemoryInv, OwnBuild, ConfirmCurrent, At, Early, Checked
    <3>3. QED BY <1>7, <3>1, <3>2
  <2>2. QED BY <1>6, <1>18, <2>1 DEF ConfirmCurrent, Outcomes
<1>19. CASE LocalError
  BY <1>6, <1>19 DEF LocalError, Outcomes
<1>20. QED BY <1>8, <1>11, <1>12, <1>13, <1>14, <1>15, <1>16, <1>17, <1>18, <1>19

\* The steps of a run around its build.
LEMMA BuildSteps ==
    ASSUME RunInv, builds \subseteq builds', BuildSnapshot \/ BuildSucceeds \/ BuildFails \/ Built
    PROVE  LocalInv'
<1>1. /\ run \in Memory /\ Reconciler \in Actors /\ txn \in [Actors -> Txns]
      /\ reply \in [Actors -> Replies]
      /\ run.pc # "promoting" => txn[Reconciler].phase # "active"
      /\ None \notin Contents /\ None \notin Valid /\ None \notin Releases
  BY RunFacts
<1>2. UNCHANGED <<vault, passed, release, chosen>> /\ run.pc \in {"build", "building"}
  BY DEF BuildSnapshot, BuildSucceeds, BuildFails, Built, sourceVars, At
<1>3. passed' \subseteq builds' /\ run.made \in builds' \union {None}
  BY <1>2 DEF RunInv, LocalTypes
<1>4. ~run.did /\ run.rel # None /\ run.saw # None
  BY <1>2 DEF RunInv, MemoryInv, Early
<1>5. ASSUME Fail("BUILD_FAILED"), UNCHANGED txn
      PROVE  LocalInv'
  BY <1>1, <1>2, <1>3, <1>4, <1>5, EndStep DEF Fail, Outcomes
<1>6. CASE BuildSnapshot
  <2>1. CASE Go("building") /\ \/ Idle(Reconciler) /\ LockBusy(Reconciler)
                               \/ RebuildUnchanged(Reconciler)
                               \/ RebuildBegin(Reconciler)
    <3>1. /\ run' \in Memory /\ run'.pc = "building" /\ run'.rel = run.rel /\ run'.saw = run.saw
          /\ run'.made = run.made /\ run'.did = run.did /\ UNCHANGED last
      BY <1>1, <2>1, GoFacts DEF Early
    <3>2. MemoryInv'
      BY <1>4, <3>1 DEF MemoryInv, Early, Checked
    <3>3. txn'[Reconciler].phase \in {"idle", "build"} /\ reply'[Reconciler] # "built"
      <4>1. CASE Idle(Reconciler) /\ (LockBusy(Reconciler) \/ RebuildUnchanged(Reconciler))
        BY <1>1, <4>1 DEF Idle, LockBusy, RebuildUnchanged, Answer
      <4>2. CASE RebuildBegin(Reconciler)
        BY <1>1, <4>2 DEF RebuildBegin, Idle, Enter
      <4>3. QED BY <2>1, <4>1, <4>2 DEF RebuildUnchanged
    <3>4. CallInv'
      BY <3>1, <3>3 DEF CallInv, CallOK
    <3>5. QED BY <1>2, <1>3, <3>1, <3>2, <3>4, MoveStep
  <2>2. QED BY <1>5, <1>6, <2>1 DEF BuildSnapshot
<1>7. CASE BuildSucceeds
  <2>1. ASSUME NEW id \in Runs, NEW d, d = [snap |-> run.saw, rel |-> run.rel, run |-> id],
               RebuildEnd(Reconciler, d), run' = [run EXCEPT !.made = d]
        PROVE  LocalInv'
    <3>1. d \in Deployments /\ d.snap = run.saw /\ d.rel = run.rel
      BY <1>1, <1>4, <2>1, LocalAssumption DEF Memory
    <3>2. /\ run' \in Memory /\ run'.pc = run.pc /\ run'.rel = run.rel /\ run'.saw = run.saw
          /\ run'.made = d /\ run'.did = run.did
      BY <1>1, <2>1, <3>1 DEF Memory
    <3>3. d \in builds' /\ txn'[Reconciler].phase = "release"
      BY <1>1, <2>1 DEF RebuildEnd, Goto, Txns
    <3>4. OwnBuild'
      BY <3>1, <3>2, <3>3 DEF OwnBuild
    <3>5. MemoryInv' /\ CallInv'
      BY <1>2, <1>4, <3>2, <3>3, <3>4 DEF MemoryInv, CallInv, CallOK, Early, Checked
    <3>6. QED BY <1>2, <1>3, <1>7, <3>2, <3>3, <3>5, MoveStep DEF BuildSucceeds
  <2>2. QED BY <1>7, <2>1 DEF BuildSucceeds
<1>8. CASE BuildFails
  <2>1. txn'[Reconciler].phase = "idle" /\ reply'[Reconciler] = "refused"
        /\ UNCHANGED <<run, last>>
    BY <1>1, <1>8 DEF BuildFails, RebuildFails, Leave, NoTxn
  <2>2. MemoryInv'
    BY <1>2, <1>4, <2>1 DEF MemoryInv, Early, Checked
  <2>3. CallInv'
    BY <2>1 DEF CallInv, CallOK
  <2>4. QED BY <1>1, <1>2, <1>3, <2>1, <2>2, <2>3, MoveStep
<1>9. CASE Built
  <2>1. UNCHANGED <<txn, builds>>
    BY <1>9 DEF Built, Return, durableVars
  <2>2. CASE reply[Reconciler] = "built" /\ Go("evaluate")
    <3>1. /\ run' \in Memory /\ run'.pc = "evaluate" /\ run'.rel = run.rel /\ run'.saw = run.saw
          /\ run'.made = run.made /\ run'.did = run.did /\ UNCHANGED last
      BY <1>1, <2>2, GoFacts DEF Early
    <3>2. OwnBuild
      BY <1>9, <2>2 DEF Built, At, RunInv, CallInv, CallOK
    <3>3. OwnBuild'
      BY <2>1, <3>1, <3>2 DEF OwnBuild
    <3>4. MemoryInv'
      BY <1>4, <3>1, <3>3 DEF MemoryInv, Early, Checked
    <3>5. CallInv'
      BY <1>1, <1>2, <2>1, <3>1 DEF CallInv, CallOK
    <3>6. QED BY <1>2, <1>3, <3>1, <3>4, <3>5, MoveStep
  <2>3. QED BY <1>5, <1>9, <2>1, <2>2 DEF Built
<1>10. QED BY <1>6, <1>7, <1>8, <1>9

\* The run promotes its build over the deployment it has read.
LEMMA PromoteStep ==
    ASSUME RunInv, builds \subseteq builds', PromoteCandidate
    PROVE  LocalInv'
<1>1. /\ run \in Memory /\ Reconciler \in Actors /\ txn \in [Actors -> Txns]
      /\ reply \in [Actors -> Replies]
  BY RunFacts
<1>2. UNCHANGED <<vault, passed, release, chosen>> /\ run.pc = "promote"
  BY DEF PromoteCandidate, sourceVars, At
<1>3. passed' \subseteq builds' /\ run.made \in builds' \union {None}
  BY <1>2 DEF RunInv, LocalTypes
<1>4. /\ run' \in Memory /\ run'.pc = "promoting" /\ run'.rel = run.rel /\ run'.saw = run.saw
      /\ run'.expected = run.expected /\ run'.made = run.made /\ run'.did = run.did
      /\ run'.recent = run.recent /\ UNCHANGED last
  BY <1>1, GoFacts DEF PromoteCandidate, Checked
<1>5. MemoryInv'
  BY <1>2, <1>4 DEF RunInv, MemoryInv, OwnBuild, Early, Checked
<1>6. PICK d, e : d = run.made /\ e = run.expected /\ PromoteEvaluated(Reconciler, d, e)
  BY DEF PromoteCandidate
<1>7. txn'[Reconciler].phase = "active" =>
          /\ txn'[Reconciler].target.cur.dep = d
          /\ DepOf(txn'[Reconciler].target.prev) = e
  <2>1. ASSUME Answer(Reconciler, "refused") \/ Answer(Reconciler, "conflict")
        PROVE  txn'[Reconciler].phase # "active"
    BY <1>1, <1>2, <2>1, RunFacts DEF Answer
  <2>2. CASE PromoteRefused(Reconciler)
    BY <2>1, <2>2 DEF PromoteRefused, LockBusy, VerificationFails
  <2>3. CASE PromoteConflict(Reconciler, d, e)
    BY <2>1, <2>3 DEF PromoteConflict
  <2>4. CASE PromoteUnchanged(Reconciler, d)
    BY <1>1, <2>4 DEF PromoteUnchanged, Enter
  <2>5. CASE PromoteSelect(Reconciler, d, e)
    BY <1>1, <2>5 DEF PromoteSelect, Enter, select_deployment
  <2>6. QED BY <1>6, <2>1, <2>2, <2>3, <2>4, <2>5 DEF PromoteEvaluated, Promote
<1>8. CallInv'
  BY <1>4, <1>6, <1>7 DEF CallInv, CallOK
<1>9. QED BY <1>2, <1>3, <1>4, <1>5, <1>8, MoveStep

\* What follows the promotion: the run reports it, or a mismatch.
LEMMA ClosingSteps ==
    ASSUME RunInv, builds \subseteq builds', Promoted \/ VerifyActive \/ Verified
    PROVE  LocalInv'
<1>1. /\ run \in Memory /\ Reconciler \in Actors /\ txn \in [Actors -> Txns]
      /\ run.pc # "promoting" => txn[Reconciler].phase # "active"
  BY RunFacts
<1>2. /\ UNCHANGED <<vault, passed, release, chosen>>
      /\ run.pc \in {"promoting", "verify", "publishing"}
  BY DEF Promoted, VerifyActive, Verified, sourceVars, At
<1>3. passed' \subseteq builds' /\ run.made \in builds' \union {None}
  BY <1>2 DEF RunInv, LocalTypes
<1>4. txn'[Reconciler].phase # "active"
  <2>1. CASE Promoted \/ Verified
    BY <2>1 DEF Promoted, Verified, Returned, Return
  <2>2. CASE VerifyActive
    BY <1>1, <2>2 DEF VerifyActive, PublishRead, At
  <2>3. QED BY <2>1, <2>2
<1>5. ASSUME NEW p \in {"verify", "publishing"}, Go(p)
      PROVE  LocalInv'
  <2>1. /\ run' \in Memory /\ run'.pc = p /\ run'.rel = run.rel /\ run'.saw = run.saw
        /\ run'.made = run.made /\ run'.recent = run.recent /\ UNCHANGED last
    BY <1>1, <1>5, GoFacts DEF Checked
  <2>2. MemoryInv'
    BY <1>2, <2>1 DEF RunInv, MemoryInv, OwnBuild, Early, Checked
  <2>3. CallInv'
    BY <1>4, <2>1 DEF CallInv, CallOK
  <2>4. QED BY <1>2, <1>3, <2>1, <2>2, <2>3, MoveStep
<1>6. ASSUME NEW o \in {"PROMOTED", "POST_PROMOTION_MISMATCH"}, NEW d \in builds \union {None},
             End(o, d)
      PROVE  LocalInv'
  BY <1>2, <1>3, <1>4, <1>6, EndStep DEF Outcomes
<1>7. CASE Promoted
  BY <1>5, <1>6, <1>7 DEF Promoted, Fail
<1>8. CASE VerifyActive
  BY <1>5, <1>6, <1>8 DEF VerifyActive, Fail
<1>9. CASE Verified
  <2>1. PICK d \in builds \union {None} : d = run.made
    BY DEF RunInv, LocalTypes
  <2>2. QED BY <1>6, <1>9, <2>1 DEF Verified, Fail
<1>10. QED BY <1>7, <1>8, <1>9

\* Nothing the run knows is taken back while it waits: builds are kept, and
\* an edit only adds to what the vault held.
LEMMA KnownStaysKnown ==
    ASSUME RunInv, builds \subseteq builds', vault' \in Contents, release' \in Releases,
           passed' \subseteq builds', UNCHANGED chosen,
           last' \in ResultFiles, last'.dep \in builds' \union {None}, OutcomeTellsPromotion',
           run' \in Memory, run'.pc = run.pc, run'.rel = run.rel, run'.saw = run.saw,
           run'.expected = run.expected, run'.made = run.made, run'.did = run.did,
           run.recent \subseteq run'.recent
    PROVE  /\ LocalTypes' /\ MemoryInv' /\ SelectsWhatItChecked' /\ OutcomeTellsPromotion'
           /\ \A t, w : CallOK(t, w) => CallOK(t, w)'
<1>1. LocalTypes'
  BY DEF RunInv, LocalTypes
<1>2. OwnBuild => OwnBuild'
  BY DEF OwnBuild
<1>3. MemoryInv'
  BY <1>2 DEF RunInv, MemoryInv
<1>4. \A t, w : CallOK(t, w) => CallOK(t, w)'
  BY <1>2 DEF CallOK
<1>5. SelectsWhatItChecked'
  BY DEF RunInv, SelectsWhatItChecked
<1>6. QED BY <1>1, <1>3, <1>4, <1>5

\* The run's transaction goes on without replacing active.json, or an OSError
\* ends it.
LEMMA WorkStep ==
    ASSUME RunInv, builds \subseteq builds',
           (Step(Reconciler) /\ txn[Reconciler].phase # "active") \/ IOFault(Reconciler),
           UNCHANGED <<sourceVars, passed, release, run, last, chosen>>
    PROVE  LocalInv'
<1>1. /\ LocalTypes' /\ MemoryInv' /\ SelectsWhatItChecked' /\ OutcomeTellsPromotion'
      /\ \A t, w : CallOK(t, w) => CallOK(t, w)'
  BY KnownStaysKnown DEF RunInv, LocalTypes, OutcomeTellsPromotion, sourceVars
<1>2. PICK t, w, u, v : /\ t = txn[Reconciler] /\ w = reply[Reconciler]
                        /\ u = txn'[Reconciler] /\ v = reply'[Reconciler]
  OBVIOUS
<1>3. CallOK(t, w)
  BY <1>2 DEF RunInv, CallInv
<1>4. TypeOK /\ Reconciler \in Actors
  BY LocalAssumption DEF RunInv, StoreInv, Inv
<1>5. \/ /\ t.phase \notin {"idle", "active", "build", "release", "publish"}
         /\ u.phase \notin {"idle", "active", "build", "publish"}
         /\ u.result = t.result /\ v = w
      \/ /\ u.phase = "idle" /\ t.phase \notin {"idle", "build"}
         /\ \/ t.phase = "release" /\ v = t.result
            \/ t.phase = "publish" /\ v = "published"
            \/ v \in {"refused", "ioerror"}
  BY <1>2, <1>4, StepFacts
<1>6. CallOK(u, v)
  BY <1>3, <1>5 DEF CallOK
<1>7. CallOK(u, v)'
  BY <1>1, <1>6
<1>8. QED BY <1>1, <1>2, <1>7 DEF LocalInv, CallInv, CallOK

\* The run replaces active.json: the deployment it read, by its own build.
LEMMA ReplaceStep ==
    ASSUME RunInv, builds \subseteq builds', WorkInStore, txn[Reconciler].phase = "active"
    PROVE  LocalInv'
<1> DEFINE t == txn[Reconciler].target
           x == [dep |-> t.cur.dep, over |-> DepOf(active.cur), expected |-> run.expected,
                 recent |-> run.recent, rel |-> run.rel]
<1>1. /\ run \in Memory /\ Reconciler \in Actors /\ txn \in [Actors -> Txns]
  BY RunFacts
<1>2. /\ WriteActive(Reconciler) /\ chosen' = chosen \union {x}
      /\ run' = [run EXCEPT !.did = TRUE] /\ UNCHANGED <<vault, passed, release, last>>
  BY DEF WorkInStore, Step, WriteActive, WriteJournal, FinishSelect, ClearJournal, CreateHistory,
         WriteHistory, WriteProjection, Release, PublishWrite, sourceVars
<1>3. /\ run.pc = "promoting" /\ t.cur.dep = run.made /\ DepOf(t.prev) = run.expected
  BY DEF RunInv, CallInv, CallOK
<1>4. OwnBuild /\ run.saw \in run.recent /\ run.rel # None /\ run.saw # None
  BY <1>3 DEF RunInv, MemoryInv, Checked
<1>5. t.prev = active.cur
  BY <1>1 DEF RunInv, StoreInv, Inv, TxnInv, TxnOK
<1>6. x.over = x.expected /\ x.dep.snap \in x.recent /\ x.dep.rel = x.rel
  BY <1>3, <1>4, <1>5 DEF OwnBuild
<1> HIDE DEF x
<1>7. SelectsWhatItChecked'
  BY <1>2, <1>6 DEF RunInv, SelectsWhatItChecked
<1>8. /\ run' \in Memory /\ run'.pc = "promoting" /\ run'.rel = run.rel /\ run'.saw = run.saw
      /\ run'.made = run.made /\ run'.recent = run.recent
  BY <1>1, <1>2, <1>3 DEF Memory
<1>9. LocalTypes' /\ OutcomeTellsPromotion'
  BY <1>2, <1>8 DEF RunInv, LocalTypes, OutcomeTellsPromotion
<1>10. MemoryInv'
  BY <1>4, <1>8 DEF MemoryInv, OwnBuild, Early, Checked
<1>11. txn'[Reconciler].phase = "create"
  BY <1>1, <1>2 DEF WriteActive, Goto, Txns
<1>12. CallInv'
  BY <1>8, <1>11 DEF CallInv, CallOK
<1>13. QED BY <1>7, <1>9, <1>10, <1>12 DEF LocalInv

\* The run is killed.
LEMMA StopStep ==
    ASSUME RunInv, builds \subseteq builds', Stop(Reconciler), run' = NoRun,
           UNCHANGED <<sourceVars, passed, release, last, chosen>>
    PROVE  LocalInv'
<1>1. txn'[Reconciler].phase # "active"
  BY RunFacts DEF Stop, Leave, NoTxn
<1>2. /\ run' \in Memory /\ run'.made \in builds' \union {None}
      /\ MemoryInv' /\ CallInv'
  BY <1>1, OffStep
<1>3. passed' \subseteq builds' /\ UNCHANGED vault
  BY DEF RunInv, LocalTypes, sourceVars
<1>4. QED BY <1>2, <1>3, MoveStep

\* Editors, operators, upgrades and the runs that find the lock taken.
LEMMA OtherSteps ==
    ASSUME RunInv, builds \subseteq builds',
           \/ Overlap \/ UNCHANGED vars
           \/ \E c \in Contents : Edit(c)
           \/ \E o \in Operators : OperatorCommand(o) \/ OperatorStep(o) \/ OperatorFault(o)
           \/ \E v \in Releases : Upgrade(v)
    PROVE  LocalInv'
<1>1. txn'[Reconciler] = txn[Reconciler] /\ reply'[Reconciler] = reply[Reconciler]
  <2>1. PICK V : V = builds
    OBVIOUS
  <2>2. QED BY <2>1, OperatorStoreStep DEF Overlap, Edit, Upgrade, vars, storeVars
<1>2. /\ vault' \in Contents /\ release' \in Releases /\ UNCHANGED chosen
  BY DEF Overlap, Edit, OperatorCommand, OperatorStep, OperatorFault, Upgrade, vars, sourceVars,
         RunInv, LocalTypes
<1>3. passed' \subseteq builds'
  <2>1. CASE UNCHANGED passed
    BY <2>1 DEF RunInv, LocalTypes
  <2>2. ASSUME NEW d \in builds, passed' \in {passed \union {d}, passed \ {d}}
        PROVE  passed' \subseteq builds'
    BY <2>2 DEF RunInv, LocalTypes
  <2>3. QED BY <2>1, <2>2 DEF Overlap, Edit, OperatorCommand, OperatorStep, OperatorFault,
       Upgrade, vars
<1>4. /\ last' \in ResultFiles /\ last'.dep \in builds' \union {None} /\ OutcomeTellsPromotion'
  <2>1. CASE UNCHANGED last
    BY <2>1 DEF RunInv, LocalTypes, OutcomeTellsPromotion
  <2>2. CASE Overlap
    <3>1. /\ last' \in ResultFiles /\ last'.dep = None /\ ~last'.did
      BY <2>2 DEF Overlap, NoResult, ResultFiles, Outcomes
    <3>2. QED BY <3>1 DEF OutcomeTellsPromotion
  <2>3. QED BY <2>1, <2>2 DEF Edit, OperatorCommand, OperatorStep, OperatorFault, Upgrade, vars
<1>5. /\ run' \in Memory /\ run'.pc = run.pc /\ run'.rel = run.rel /\ run'.saw = run.saw
      /\ run'.expected = run.expected /\ run'.made = run.made /\ run'.did = run.did
      /\ run.recent \subseteq run'.recent
  <2>1. run \in Memory
    BY RunFacts
  <2>2. CASE UNCHANGED run
    BY <2>1, <2>2
  <2>3. ASSUME NEW c \in Contents, run' = [run EXCEPT !.recent = @ \union {c}]
        PROVE  /\ run' \in Memory /\ run'.pc = run.pc /\ run'.rel = run.rel /\ run'.saw = run.saw
               /\ run'.expected = run.expected /\ run'.made = run.made /\ run'.did = run.did
               /\ run.recent \subseteq run'.recent
    BY <2>1, <2>3 DEF Memory
  <2>4. QED BY <2>2, <2>3 DEF Overlap, Edit, OperatorCommand, OperatorStep, OperatorFault,
       Upgrade, vars
<1>6. /\ LocalTypes' /\ MemoryInv' /\ SelectsWhatItChecked' /\ OutcomeTellsPromotion'
      /\ \A t, w : CallOK(t, w) => CallOK(t, w)'
  BY <1>2, <1>3, <1>4, <1>5, KnownStaysKnown
<1>7. PICK t, w : t = txn[Reconciler] /\ w = reply[Reconciler]
  OBVIOUS
<1>8. CallOK(t, w)'
  BY <1>6, <1>7 DEF RunInv, CallInv
<1>9. QED BY <1>1, <1>6, <1>7, <1>8 DEF LocalInv, CallInv, CallOK

-----------------------------------------------------------------------------
(* The invariant and what follows from it *)

\* A fresh host satisfies the invariant.
LEMMA RunInitially == InitLocal => RunInv
<1> SUFFICES ASSUME InitLocal PROVE RunInv
  OBVIOUS
<1>1. Init /\ Reconciler \in Actors
  BY LocalAssumption DEF InitLocal
<1>2. StoreInv
  BY <1>1, InitialInv DEF StoreInv, Init, SelectsFrom, NoTxn, empty_state
<1>3. NoRun \in Memory /\ NoRun.pc = "off" /\ ~NoRun.did /\ NoRun.made = None
  BY DEF NoRun, Memory
<1>4. NoResult \in ResultFiles /\ ~NoResult.did /\ NoResult.dep = None
  BY DEF NoResult, ResultFiles, Outcomes
<1>5. LocalTypes
  BY <1>3, <1>4 DEF InitLocal, LocalTypes
<1>6. MemoryInv
  BY <1>3 DEF InitLocal, MemoryInv, Early, Checked
<1>7. CallInv
  BY <1>1, <1>3 DEF InitLocal, Init, NoTxn, CallInv, CallOK
<1>8. SelectsWhatItChecked /\ OutcomeTellsPromotion
  BY <1>4 DEF InitLocal, SelectsWhatItChecked, OutcomeTellsPromotion
<1>9. QED BY <1>2, <1>5, <1>6, <1>7, <1>8 DEF RunInv

\* Every step of the host preserves it.
LEMMA RunStep ==
    ASSUME RunInv, [NextLocal]_vars
    PROVE  RunInv'
<1>1. StoreInv' /\ builds \subseteq builds'
  BY StoreKept
<1>2. LocalInv'
  <2>1. CASE WorkInStore
    BY <1>1, <2>1, ReplaceStep, WorkStep DEF WorkInStore
  <2>2. CASE ReconcileStep /\ ~WorkInStore
    BY <1>1, <2>2, SourceSteps, BuildSteps, PromoteStep, ClosingSteps DEF ReconcileStep
  <2>3. CASE ReconcileFault
    BY <1>1, <2>3, SourceSteps, WorkStep, StopStep DEF ReconcileFault
  <2>4. CASE ~ReconcileStep /\ ~ReconcileFault
    BY <1>1, <2>4, OtherSteps DEF NextLocal
  <2>5. QED BY <2>1, <2>2, <2>3, <2>4
<1>3. QED BY <1>1, <1>2 DEF RunInv, LocalInv

\* RunInv holds in every reachable state.
THEOREM LocalInvariant == SpecLocal => []RunInv
<1>1. RunInv /\ [NextLocal]_vars => RunInv'
  BY RunStep
<1>2. QED BY <1>1, RunInitially, PTL DEF SpecLocal

\* The memory of a run and last-result.json keep their types: a run that goes
\* on has only seen valid content, and what is reported was built.
THEOREM LocalTypesHold == SpecLocal => []LocalTypeOK
<1>1. RunInv => LocalTypeOK
  BY DEF RunInv, StoreInv, Inv, LocalTypes, Memory, ResultFiles, LocalTypeOK
<1>2. QED BY <1>1, LocalInvariant, PTL

\* A run of reconcile_local replaces only the deployment it read before it
\* built, with its own build of content the vault still held afterwards.
THEOREM RunSelectsWhatItChecked == SpecLocal => []SelectsWhatItChecked
<1>1. RunInv => SelectsWhatItChecked
  BY DEF RunInv
<1>2. QED BY <1>1, LocalInvariant, PTL

\* last-result.json never hides a promotion the run made.
THEOREM OutcomeIsHonest == SpecLocal => []OutcomeTellsPromotion
<1>1. RunInv => OutcomeTellsPromotion
  BY DEF RunInv
<1>2. QED BY <1>1, LocalInvariant, PTL
=============================================================================
