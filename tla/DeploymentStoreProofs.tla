------------------------ MODULE DeploymentStoreProofs ------------------------
(***************************************************************************)
(* Proofs about DeploymentStore for every set of processes and deployments *)
(* and every bound. Inv is the inductive invariant: the lock excludes, and *)
(* each phase of a transaction knows what the files say.                   *)
(***************************************************************************)
EXTENDS DeploymentStore, TLAPS

\* Who is inside a locked transaction holds the deployment lock.
LockInv == \A a \in Actors : txn[a].phase \in LockedPhases => lock = a

\* at is a legal time for the next selection.
FreshTime(at) ==
    /\ at \in 1..clock
    /\ active.cur # None => active.cur.at < at

\* What a transaction t may rely on in each of its phases.
TxnOK(t) ==
    /\ t.phase = "active" =>
           /\ journal = None /\ ~t.undo
           /\ t.target.cur # None
           /\ t.target.prev = active.cur
           /\ active.cur # None => active.cur.dep # t.target.cur.dep
           /\ FreshTime(t.target.cur.at)
    /\ t.phase = "journal" =>
           /\ journal = None
           /\ active.prev # None
           /\ t.target.cur # None
           /\ t.target.cur.dep = active.prev.dep
           /\ t.target.prev = active.cur
           /\ FreshTime(t.target.cur.at)
    /\ t.phase = "select" => journal # None /\ t.target = journal.target
    /\ t.phase \in {"create", "write", "project"} =>
           active.cur # None /\ t.target = active
    /\ t.phase \in {"create", "write", "project", "clear"} /\ t.undo =>
           journal # None /\ active = journal.target
    /\ t.phase = "clear" => t.undo

TxnInv == \A a \in Actors : TxnOK(txn[a])

\* A journalled rollback exchanges the pair it started from, and active.json
\* is on one side of it or on the other.
JournalInv ==
    journal # None =>
        /\ active \in {journal.source, journal.target}
        /\ journal.source.prev # None
        /\ journal.target.cur # None
        /\ journal.target.cur.dep = journal.source.prev.dep
        /\ journal.target.prev = journal.source.cur
        /\ journal.target.cur.at \in 1..clock
        /\ journal.source.cur # None => journal.source.cur.at < journal.target.cur.at

ClockInv == /\ clock \in 0..MaxClock
            /\ active.cur # None => active.cur.at <= clock

Inv == TypeOK /\ LockInv /\ TxnInv /\ JournalInv /\ ClockInv

-----------------------------------------------------------------------------
(* Kinds of steps *)

\* The operation of a answers, or its answer is taken: no file, no lock and no
\* transaction changes.
Answers(a) ==
    /\ UNCHANGED <<durableVars, lock, txn, clock, selections>>
    /\ \E r \in Replies : reply' = [reply EXCEPT ![a] = r]
    /\ faults' \in {faults, faults + 1}

\* a leaves its transaction without changing a file (but for torn records): it
\* is interrupted, or at its end.
Leaves(a) ==
    /\ UNCHANGED <<active, history, projection, journal, builds, clock, selections>>
    /\ torn' \in {torn, torn \ {active.cur}}
    /\ \E r \in Replies : Leave(a, r)
    /\ \/ faults' = faults + 1
       \/ txn[a].phase \in {"build", "release"} /\ UNCHANGED <<torn, faults>>

\* The operations and steps of build.py, one by one; the refusals and the
\* interruptions are Answers and Leaves.
Acts(a, D) ==
    \/ Answers(a)
    \/ Leaves(a)
    \/ RebuildBegin(a)
    \/ \E d \in Deployments : RebuildEnd(a, d)
    \/ \E d \in Deployments : PromoteUnchanged(a, d)
    \/ \E d \in D, e \in Deployments \union {None} : PromoteSelect(a, d, e)
    \/ RollbackBegin(a)
    \/ FinishPending(a)
    \/ /\ Idle(a) /\ active.cur # None
       /\ Enter(a, "create", FALSE, active, "repaired") /\ UNCHANGED clock
    \/ PublishRead(a)
    \/ WriteActive(a)
    \/ WriteJournal(a)
    \/ FinishSelect(a)
    \/ ClearJournal(a)
    \/ CreateHistory(a)
    \/ WriteHistory(a)
    \/ WriteProjection(a)
    \/ PublishWrite(a)

\* A step of the store, by whatever program: one that promotes only
\* deployments of D.
StoreStep(D) == UNCHANGED storeVars \/ \E a \in Actors : Acts(a, D)

\* The operations of process a, as the programs on top of the store call them.
Operates(a, D) ==
    \/ RebuildBegin(a)
    \/ RebuildUnchanged(a)
    \/ RebuildFails(a)
    \/ \E d \in Deployments : RebuildEnd(a, d)
    \/ \E d \in D, e \in Deployments \union {None} : Promote(a, d, e)
    \/ Rollback(a)
    \/ recover_pending_rollback(a)
    \/ \E d \in Deployments : Repair(a, d)
    \/ \E r \in Replies : Answer(a, r) /\ UNCHANGED faults
    \/ PromoteRefused(a)
    \/ PublishRead(a)
    \/ Step(a)
    \/ IOFault(a)
    \/ Stop(a)
    \/ Return(a)

\* Every operation is one of the steps above: the case analysis that the
\* proofs about the store share.
LEMMA StepCases ==
    ASSUME TypeOK, NEW D \in SUBSET Deployments, NEW a \in Actors, Operates(a, D)
    PROVE  Acts(a, D)
<1>a. ASSUME NEW r \in Replies, Answer(a, r), faults' \in {faults, faults + 1}
      PROVE  Acts(a, D)
  BY <1>a DEF Acts, Answers, Answer
<1>b. ASSUME LockBusy(a) \/ VerificationFails(a) PROVE Acts(a, D)
  <2>1. Answer(a, "refused") /\ faults' \in {faults, faults + 1}
    BY <1>b DEF LockBusy, VerificationFails
  <2>2. QED BY <2>1, <1>a DEF Replies
<1>c. ASSUME NEW r \in Replies, Leave(a, r), UNCHANGED <<durableVars, clock, selections>>,
             faults' = faults + 1
             \/ (txn[a].phase \in {"build", "release"} /\ UNCHANGED faults)
      PROVE  Acts(a, D)
  BY <1>c DEF Acts, Leaves, durableVars
<1>2. CASE RebuildUnchanged(a)
  BY <1>2, <1>a DEF RebuildUnchanged, Replies
<1>3. CASE RebuildFails(a)
  BY <1>3, <1>c DEF RebuildFails, Replies
<1>4. CASE \E d \in D, e \in Deployments \union {None} : Promote(a, d, e)
  <2>1. PICK d \in D, e \in Deployments \union {None} : Promote(a, d, e)
    BY <1>4
  <2>2. CASE PromoteRefused(a)
    BY <2>2, <1>a, <1>b DEF PromoteRefused, Replies
  <2>3. CASE PromoteConflict(a, d, e)
    BY <2>3, <1>a DEF PromoteConflict, Replies
  <2>4. CASE PromoteUnchanged(a, d) \/ PromoteSelect(a, d, e)
    BY <2>4 DEF Acts
  <2>5. QED BY <2>1, <2>2, <2>3, <2>4 DEF Promote
<1>5. CASE Rollback(a)
  <2>1. CASE RollbackRefused(a)
    BY <2>1, <1>a, <1>b DEF RollbackRefused, Replies
  <2>2. CASE RollbackBegin(a) \/ FinishPending(a)
    BY <2>2 DEF Acts
  <2>3. QED BY <1>5, <2>1, <2>2 DEF Rollback
<1>6. CASE recover_pending_rollback(a)
  <2>1. CASE FinishPending(a)
    BY <2>1 DEF Acts
  <2>2. CASE LockBusy(a)
    BY <2>2, <1>b
  <2>3. CASE Answer(a, "nothing") /\ UNCHANGED faults
    BY <2>3, <1>a DEF Replies
  <2>4. QED BY <1>6, <2>1, <2>2, <2>3 DEF recover_pending_rollback
<1>7. CASE \E d \in Deployments : Repair(a, d)
  <2>1. PICK d \in Deployments : Repair(a, d)
    BY <1>7
  <2>2. CASE LockBusy(a)
    BY <2>2, <1>b
  <2>3. CASE Answer(a, "refused") /\ UNCHANGED faults
    BY <2>3, <1>a DEF Replies
  <2>4. CASE Idle(a) /\ active.cur # None /\ Enter(a, "create", FALSE, active, "repaired")
             /\ UNCHANGED clock
    BY <2>4 DEF Acts
  <2>5. QED BY <2>1, <2>2, <2>3, <2>4 DEF Repair
<1>8. CASE Step(a)
  <2>1. CASE Release(a)
    <3>1. txn[a].result \in Replies
      BY DEF TypeOK, Txns
    <3>2. QED BY <2>1, <3>1, <1>c DEF Release
  <2>2. CASE ~Release(a)
    BY <1>8, <2>2 DEF Step, Acts
  <2>3. QED BY <2>1, <2>2
<1>9. CASE IOFault(a)
  BY <1>9 DEF IOFault, Acts, Leaves, Replies
<1>10. CASE Stop(a)
  BY <1>10, <1>c DEF Stop, Replies
<1>11. CASE Return(a)
  BY <1>11 DEF Return, Acts, Answers, Replies
<1>12. CASE RebuildBegin(a) \/ (\E d \in Deployments : RebuildEnd(a, d)) \/ PublishRead(a)
  BY <1>12 DEF Acts
<1>13. CASE PromoteRefused(a)
  BY <1>13, <1>a, <1>b DEF PromoteRefused, Replies
<1>14. CASE \E r \in Replies : Answer(a, r) /\ UNCHANGED faults
  BY <1>14, <1>a
<1>15. QED
  BY <1>2, <1>3, <1>4, <1>5, <1>6, <1>7, <1>8, <1>9, <1>10, <1>11, <1>12, <1>13, <1>14
  DEF Operates

LEMMA NextIsStoreStep ==
    ASSUME TypeOK, [Next]_storeVars
    PROVE  StoreStep(Deployments)
<1>1. CASE Next
  <2>1. PICK a \in Actors : Operates(a, Deployments)
    BY <1>1 DEF Next, Operates, Crash
  <2>2. QED BY <2>1, StepCases DEF StoreStep
<1>2. QED BY <1>1 DEF StoreStep

-----------------------------------------------------------------------------
(* Type correctness *)

\* The files, the lock and the transactions keep their types in every step.
\* What is selected or recorded is a deployment, never an absent one, because
\* of what TxnInv and JournalInv say of the phases.
LEMMA TypeStep ==
    ASSUME TypeOK, TxnInv, JournalInv, NEW D \in SUBSET Deployments, StoreStep(D)
    PROVE  TypeOK'
<1> USE StoreAssumption DEF TypeOK
<1>1. CASE UNCHANGED storeVars
  BY <1>1 DEF storeVars, durableVars
<1>2. CASE \E a \in Actors : Acts(a, D)
  <2>1. PICK a \in Actors : Acts(a, D)
    BY <1>2
  <2>t. \A r \in Replies, t \in Txns :
          /\ [txn EXCEPT ![a] = t] \in [Actors -> Txns]
          /\ [reply EXCEPT ![a] = r] \in [Actors -> Replies]
    OBVIOUS
  <2>p. \A p \in Phases : [txn EXCEPT ![a].phase = p] \in [Actors -> Txns]
    BY DEF Txns
  <2>n. NoTxn \in Txns /\ empty_state \in States
    BY DEF NoTxn, Txns, Phases, Replies, empty_state, States
  <2>e. ASSUME NEW p \in Phases, NEW u \in BOOLEAN, NEW s \in States, NEW r \in Replies,
               Enter(a, p, u, s, r), clock' \in Nat
        PROVE  TypeOK'
    <3>1. [phase |-> p, undo |-> u, target |-> s, result |-> r] \in Txns
      BY DEF Txns
    <3>2. QED BY <2>e, <2>t, <3>1 DEF Enter, durableVars
  <2>l. ASSUME NEW r \in Replies, Leave(a, r)
        PROVE  /\ lock' \in Actors \union {None}
               /\ txn' \in [Actors -> Txns]
               /\ reply' \in [Actors -> Replies]
    BY <2>l, <2>t, <2>n DEF Leave
  <2>r. ASSUME NEW s \in States, s.cur \in Selected, NEW w \in {"promote", "rollback"},
               ReplaceActive(s, w)
        PROVE  active' \in States /\ selections' \subseteq Selections
    <3>1. DepOf(active.cur) \in Deployments \union {None}
      BY DEF DepOf, States, Selected
    <3>2. [dep |-> s.cur.dep, at |-> s.cur.at, way |-> w, over |-> DepOf(active.cur)]
             \in Selections
      BY <2>r, <3>1 DEF Selections, Selected
    <3>3. QED BY <2>r, <3>2 DEF ReplaceActive
  <2>2. CASE Answers(a)
    BY <2>2, <2>t DEF Answers, durableVars
  <2>3. CASE Leaves(a)
    BY <2>3, <2>l DEF Leaves
  <2>4. CASE RebuildBegin(a)
    BY <2>4, <2>e, <2>n DEF RebuildBegin, Phases, Replies
  <2>5. CASE \E d \in Deployments : RebuildEnd(a, d)
    BY <2>5, <2>p DEF RebuildEnd, Goto, Phases
  <2>6. CASE \E d \in Deployments : PromoteUnchanged(a, d)
    BY <2>6, <2>e DEF PromoteUnchanged, Phases, Replies
  <2>7. CASE \E d \in D, e \in Deployments \union {None} : PromoteSelect(a, d, e)
    <3>1. PICK d \in D, e \in Deployments \union {None} : PromoteSelect(a, d, e)
      BY <2>7
    <3>2. clock' \in Nat /\ clock' = clock + 1
      BY <3>1 DEF PromoteSelect
    <3>3. select_deployment(active, d, clock') \in States
      BY <3>2 DEF select_deployment, States, Selected
    <3>4. QED BY <3>1, <3>2, <3>3, <2>e DEF PromoteSelect, Phases, Replies
  <2>8. CASE RollbackBegin(a)
    <3>1. clock' \in Nat
      BY <2>8 DEF RollbackBegin
    <3>2. rollback_transition(active, clock') \in States
      BY <2>8, <3>1 DEF RollbackBegin, rollback_transition, States, Selected
    <3>3. QED BY <2>8, <3>1, <3>2, <2>e DEF RollbackBegin, Phases, Replies
  <2>9. CASE FinishPending(a)
    <3>1. journal.target \in States
      BY <2>9 DEF FinishPending, Journals
    <3>2. QED BY <2>9, <3>1, <2>e DEF FinishPending, Phases, Replies
  <2>10. CASE Enter(a, "create", FALSE, active, "repaired") /\ UNCHANGED clock
    BY <2>10, <2>e DEF Phases, Replies
  <2>11. CASE PublishRead(a)
    <3>1. [phase |-> "publish", undo |-> FALSE, target |-> active, result |-> "published"]
             \in Txns
      BY DEF Txns, Phases, Replies
    <3>2. QED BY <2>11, <3>1, <2>t DEF PublishRead, durableVars, Replies
  <2>12. CASE WriteActive(a)
    <3>1. txn[a].target \in States /\ txn[a].target.cur \in Selected
      BY <2>12 DEF WriteActive, TxnInv, TxnOK, Txns, States
    <3>2. txn' \in [Actors -> Txns]
      BY <2>12, <2>p DEF WriteActive, Goto, Phases
    <3>3. QED BY <2>12, <3>1, <3>2, <2>r DEF WriteActive
  <2>13. CASE WriteJournal(a)
    <3>1. [source |-> active, target |-> txn[a].target] \in Journals
      BY DEF Txns, Journals
    <3>2. QED BY <2>13, <3>1, <2>p DEF WriteJournal, Goto, Phases
  <2>14. CASE FinishSelect(a)
    <3>1. journal # None /\ journal \in Journals /\ active \in {journal.source, journal.target}
      BY <2>14 DEF FinishSelect, TxnInv, TxnOK, JournalInv
    <3>2. journal.target \in States /\ journal.target.cur \in Selected
      BY <3>1 DEF JournalInv, Journals, States
    <3>3. active' \in States /\ selections' \subseteq Selections
      BY <2>14, <3>2, <2>r DEF FinishSelect
    <3>4. txn' \in [Actors -> Txns] /\ UNCHANGED <<lock, reply>>
      BY <2>14, <3>1, <2>p DEF FinishSelect, Goto, Phases
    <3>5. QED BY <2>14, <3>3, <3>4 DEF FinishSelect
  <2>15. CASE ClearJournal(a)
    BY <2>15, <2>p DEF ClearJournal, Goto, Phases
  <2>16. CASE CreateHistory(a)
    <3>1. active.cur \in Selected
      BY <2>16 DEF CreateHistory, TxnInv, TxnOK, States
    <3>2. torn' \subseteq Selected
      BY <2>16, <3>1 DEF CreateHistory
    <3>3. /\ txn' \in [Actors -> Txns] /\ reply' \in [Actors -> Replies]
          /\ lock' \in Actors \union {None}
      BY <2>16, <2>p, <2>l DEF CreateHistory, Goto, Phases, Replies
    <3>4. QED BY <2>16, <3>2, <3>3 DEF CreateHistory
  <2>17. CASE WriteHistory(a)
    <3>1. active.cur \in Selected
      BY <2>17 DEF WriteHistory, TxnInv, TxnOK, States
    <3>2. QED BY <2>17, <3>1, <2>p DEF WriteHistory, Goto, Phases
  <2>18. CASE WriteProjection(a)
    <3>1. txn[a].target.cur \in Selected \union {None}
      BY DEF Txns, States
    <3>2. txn' \in [Actors -> Txns]
      BY <2>18, <2>p DEF WriteProjection, Goto, Phases
    <3>3. QED BY <2>18, <3>1, <3>2 DEF WriteProjection
  <2>19. CASE PublishWrite(a)
    <3>1. txn[a].target.cur \in Selected \union {None}
      BY DEF Txns, States
    <3>2. QED BY <2>19, <3>1, <2>l DEF PublishWrite, Replies
  <2>20. QED
    BY <2>1, <2>2, <2>3, <2>4, <2>5, <2>6, <2>7, <2>8, <2>9, <2>10, <2>11, <2>12,
       <2>13, <2>14, <2>15, <2>16, <2>17, <2>18, <2>19 DEF Acts
<1>3. QED BY <1>1, <1>2 DEF StoreStep

-----------------------------------------------------------------------------
(* The inductive invariant *)

\* The lock excludes: whoever works inside a locked transaction works alone.
LEMMA Exclusion ==
    ASSUME LockInv, TypeOK, NEW a \in Actors, lock \in {a, None},
           NEW b \in Actors, b # a
    PROVE  txn[b].phase \in {"idle", "publish"}
BY StoreAssumption DEF LockInv, TypeOK, Txns, LockedPhases

\* A step of a process that holds or takes the lock: the others are outside
\* every locked phase, so only its own transaction is to be considered.
LEMMA SoleStep ==
    ASSUME TypeOK, LockInv, NEW a \in Actors, lock \in {a, None},
           \A b \in Actors \ {a} : txn'[b] = txn[b],
           txn'[a].phase \in LockedPhases => lock' = a,
           TxnOK(txn[a])'
    PROVE  LockInv' /\ TxnInv'
<1>1. ASSUME NEW b \in Actors, b # a
      PROVE  /\ txn'[b].phase \in LockedPhases => lock' = b
             /\ TxnOK(txn[b])'
  <2>1. txn'[b].phase \in {"idle", "publish"}
    BY <1>1, Exclusion
  <2>2. QED BY <2>1 DEF TxnOK, LockedPhases
<1>2. QED BY <1>1 DEF LockInv, TxnInv

\* A step that ends outside the locked phases and changes neither active.json
\* nor the journal disturbs nobody.
LEMMA SideStep ==
    ASSUME TypeOK, LockInv, TxnInv, NEW a \in Actors,
           UNCHANGED <<active, journal, clock>>,
           \A b \in Actors \ {a} : txn'[b] = txn[b] /\ (lock = b => lock' = b),
           txn'[a].phase \in {"idle", "publish"}
    PROVE  LockInv' /\ TxnInv'
<1>1. ASSUME NEW b \in Actors
      PROVE  /\ txn'[b].phase \in LockedPhases => lock' = b
             /\ TxnOK(txn[b])'
  <2>1. CASE b = a
    BY <2>1 DEF TxnOK, LockedPhases
  <2>2. CASE b # a
    BY <2>2 DEF TxnInv, TxnOK, LockInv, FreshTime
  <2>3. QED BY <2>1, <2>2
<1>2. QED BY <1>1 DEF LockInv, TxnInv

\* Every step of the store preserves the four parts of Inv that are not types.
LEMMA InvStep ==
    ASSUME Inv, NEW D \in SUBSET Deployments, StoreStep(D)
    PROVE  LockInv' /\ TxnInv' /\ JournalInv' /\ ClockInv'
<1> USE StoreAssumption DEF Inv
<1>1. CASE UNCHANGED storeVars
  BY <1>1 DEF storeVars, durableVars, LockInv, TxnInv, TxnOK, FreshTime, JournalInv, ClockInv
<1>2. CASE \E a \in Actors : Acts(a, D)
  <2>1. PICK a \in Actors : Acts(a, D)
    BY <1>2
  <2>h. txn[a].phase \in LockedPhases => lock = a
    BY DEF LockInv
  <2>u. UNCHANGED <<active, journal, clock>> => JournalInv' /\ ClockInv'
    BY DEF JournalInv, ClockInv
  <2>x. txn \in [Actors -> Txns]
    BY DEF TypeOK
  <2>2. CASE Answers(a)
    BY <2>2, <2>u DEF Answers, durableVars, LockInv, TxnInv, TxnOK, FreshTime
  <2>3. CASE Leaves(a)
    <3>1. /\ txn' = [txn EXCEPT ![a] = NoTxn]
          /\ lock' = IF lock = a THEN None ELSE lock
      BY <2>3 DEF Leaves, Leave
    <3>2. txn'[a].phase = "idle" /\ \A b \in Actors \ {a} : txn'[b] = txn[b]
      BY <3>1, <2>x DEF NoTxn
    <3>3. QED BY <2>3, <2>u, <3>1, <3>2, SideStep DEF Leaves
  <2>4. CASE RebuildBegin(a)
    <3>1. txn'[a].phase = "build" /\ \A b \in Actors \ {a} : txn'[b] = txn[b]
      BY <2>4, <2>x DEF RebuildBegin, Enter
    <3>2. UNCHANGED <<active, journal, clock>> /\ lock = None /\ lock' = a
      BY <2>4 DEF RebuildBegin, Enter, durableVars
    <3>3. TxnOK(txn[a])'
      BY <3>1 DEF TxnOK
    <3>4. QED BY <2>u, <3>1, <3>2, <3>3, SoleStep
  <2>5. CASE \E d \in Deployments : RebuildEnd(a, d)
    <3>1. txn'[a].phase = "release" /\ \A b \in Actors \ {a} : txn'[b] = txn[b]
      BY <2>5, <2>x DEF RebuildEnd, Goto, Txns
    <3>2. UNCHANGED <<active, journal, clock>> /\ lock = a /\ lock' = a
      BY <2>5, <2>h DEF RebuildEnd, LockedPhases, Phases
    <3>3. TxnOK(txn[a])'
      BY <3>1 DEF TxnOK
    <3>4. QED BY <2>u, <3>1, <3>2, <3>3, SoleStep
  <2>6. CASE (\E d \in Deployments : PromoteUnchanged(a, d))
             \/ /\ active.cur # None /\ UNCHANGED clock
                /\ Enter(a, "create", FALSE, active, "repaired")
    <3>1. /\ \E r \in Replies : Enter(a, "create", FALSE, active, r)
          /\ UNCHANGED clock
          /\ active.cur # None
      BY <2>6 DEF PromoteUnchanged, DepOf, Replies
    <3>2. /\ txn'[a].phase = "create" /\ txn'[a].undo = FALSE /\ txn'[a].target = active
          /\ \A b \in Actors \ {a} : txn'[b] = txn[b]
      BY <3>1, <2>x DEF Enter
    <3>3. UNCHANGED <<active, journal, clock>> /\ lock = None /\ lock' = a
      BY <3>1 DEF Enter, durableVars
    <3>4. TxnOK(txn[a])'
      BY <3>1, <3>2, <3>3 DEF TxnOK
    <3>5. QED BY <2>u, <3>2, <3>3, <3>4, SoleStep
  <2>7. CASE \E d \in D, e \in Deployments \union {None} : PromoteSelect(a, d, e)
    <3>1. PICK d \in D, e \in Deployments \union {None} : PromoteSelect(a, d, e)
      BY <2>7
    <3>2. /\ UNCHANGED <<active, journal>> /\ journal = None
          /\ lock = None /\ lock' = a
          /\ clock' = clock + 1 /\ clock < MaxClock
      BY <3>1 DEF PromoteSelect, Enter, durableVars
    <3>3. /\ txn'[a].phase = "active" /\ txn'[a].undo = FALSE
          /\ txn'[a].target = [cur |-> [dep |-> d, at |-> clock'], prev |-> active.cur]
          /\ \A b \in Actors \ {a} : txn'[b] = txn[b]
      BY <3>1, <2>x DEF PromoteSelect, Enter, select_deployment
    <3>4. [dep |-> d, at |-> clock'] \in Selected /\ clock' \in 1..clock'
      BY <3>2 DEF Selected, TypeOK
    <3>5. active.cur # None => active.cur.at < clock' /\ active.cur.dep # d
      BY <3>1, <3>2 DEF PromoteSelect, DepOf, ClockInv, TypeOK, States, Selected
    <3>6. TxnOK(txn[a])'
      BY <3>2, <3>3, <3>4, <3>5 DEF TxnOK, FreshTime
    <3>7. ClockInv' /\ JournalInv'
      BY <3>2 DEF ClockInv, JournalInv, TypeOK, States, Selected
    <3>8. QED BY <3>2, <3>3, <3>6, <3>7, SoleStep
  <2>8. CASE RollbackBegin(a)
    <3>2. /\ UNCHANGED <<active, journal>> /\ journal = None
          /\ lock = None /\ lock' = a /\ active.prev # None
          /\ clock' = clock + 1 /\ clock < MaxClock
      BY <2>8 DEF RollbackBegin, Enter, durableVars
    <3>1. active.prev \in Selected
      BY <3>2 DEF TypeOK, States
    <3>3. /\ txn'[a].phase = "journal"
          /\ txn'[a].target = rollback_transition(active, clock')
          /\ \A b \in Actors \ {a} : txn'[b] = txn[b]
      BY <2>8, <2>x DEF RollbackBegin, Enter
    <3>4. /\ rollback_transition(active, clock').cur \in Selected
          /\ rollback_transition(active, clock').cur.at = clock'
          /\ rollback_transition(active, clock').cur.dep = active.prev.dep
          /\ rollback_transition(active, clock').prev = active.cur
          /\ clock' \in 1..clock'
      BY <3>1, <3>2 DEF Selected, TypeOK, rollback_transition
    <3>5. active.cur # None => active.cur.at < clock'
      BY <3>2 DEF ClockInv, TypeOK, States, Selected
    <3>6. TxnOK(txn[a])'
      BY <3>2, <3>3, <3>4, <3>5 DEF TxnOK, FreshTime
    <3>7. ClockInv' /\ JournalInv'
      BY <3>2 DEF ClockInv, JournalInv, TypeOK, States, Selected
    <3>8. QED BY <3>2, <3>3, <3>6, <3>7, SoleStep
  <2>9. CASE FinishPending(a)
    <3>1. /\ txn'[a].phase = "select" /\ txn'[a].target = journal.target
          /\ \A b \in Actors \ {a} : txn'[b] = txn[b]
      BY <2>9, <2>x DEF FinishPending, Enter
    <3>2. UNCHANGED <<active, journal, clock>> /\ lock = None /\ lock' = a /\ journal # None
      BY <2>9 DEF FinishPending, Enter, durableVars
    <3>3. TxnOK(txn[a])'
      BY <3>1, <3>2 DEF TxnOK
    <3>4. QED BY <2>u, <3>1, <3>2, <3>3, SoleStep
  <2>10. CASE PublishRead(a)
    <3>1. txn'[a].phase = "publish" /\ \A b \in Actors \ {a} : txn'[b] = txn[b]
      BY <2>10, <2>x DEF PublishRead
    <3>2. QED BY <2>10, <2>u, <3>1, SideStep DEF PublishRead, durableVars
  <2>11. CASE WriteActive(a)
    <3>1. /\ txn[a].phase = "active" /\ TxnOK(txn[a]) /\ lock = a /\ lock' = a
          /\ journal = None /\ UNCHANGED <<journal, clock>>
          /\ active' = txn[a].target
      BY <2>11, <2>h DEF WriteActive, ReplaceActive, TxnInv, TxnOK, LockedPhases, Phases
    <3>2. /\ txn'[a].phase = "create" /\ txn'[a].target = txn[a].target /\ ~txn'[a].undo
          /\ \A b \in Actors \ {a} : txn'[b] = txn[b]
      BY <2>11, <3>1, <2>x DEF WriteActive, Goto, Txns, TxnOK
    <3>3. TxnOK(txn[a])'
      BY <3>1, <3>2 DEF TxnOK
    <3>4. JournalInv' /\ ClockInv'
      BY <3>1 DEF TxnOK, FreshTime, JournalInv, ClockInv
    <3>5. QED BY <3>1, <3>2, <3>3, <3>4, SoleStep
  <2>12. CASE WriteJournal(a)
    <3>1. /\ txn[a].phase = "journal" /\ TxnOK(txn[a]) /\ lock = a /\ lock' = a
          /\ UNCHANGED <<active, clock>>
          /\ journal' = [source |-> active, target |-> txn[a].target]
      BY <2>12, <2>h DEF WriteJournal, TxnInv, LockedPhases, Phases
    <3>2. /\ txn'[a].phase = "select" /\ txn'[a].target = txn[a].target
          /\ \A b \in Actors \ {a} : txn'[b] = txn[b]
      BY <2>12, <2>x DEF WriteJournal, Goto, Txns
    <3>3. journal' # None
      BY <3>1, <2>x DEF Txns, TypeOK
    <3>4. TxnOK(txn[a])'
      BY <3>1, <3>2, <3>3 DEF TxnOK
    <3>5. JournalInv' /\ ClockInv'
      BY <3>1 DEF TxnOK, FreshTime, JournalInv, ClockInv
    <3>6. QED BY <3>1, <3>2, <3>4, <3>5, SoleStep
  <2>13. CASE FinishSelect(a)
    <3>1. /\ txn[a].phase = "select" /\ lock = a /\ txn[a].target = journal.target
          /\ journal # None /\ active \in {journal.source, journal.target}
      BY <2>13, <2>h DEF FinishSelect, TxnInv, TxnOK, JournalInv, LockedPhases, Phases
    <3>2. /\ active' = journal.target /\ UNCHANGED <<journal, clock, lock>>
          /\ Goto(a, "create")
      BY <2>13, <3>1 DEF FinishSelect, ReplaceActive
    <3>3. /\ txn'[a].phase = "create" /\ txn'[a].target = txn[a].target
          /\ \A b \in Actors \ {a} : txn'[b] = txn[b]
      BY <3>2, <2>x DEF Goto, Txns
    <3>4. TxnOK(txn[a])'
      BY <3>1, <3>2, <3>3 DEF TxnOK, JournalInv
    <3>5. JournalInv' /\ ClockInv'
      BY <3>1, <3>2 DEF JournalInv, ClockInv
    <3>6. QED BY <3>1, <3>2, <3>3, <3>4, <3>5, SoleStep
  <2>14. CASE ClearJournal(a)
    <3>1. UNCHANGED <<active, clock, lock>> /\ lock = a /\ journal' = None
      BY <2>14, <2>h DEF ClearJournal, LockedPhases, Phases
    <3>2. txn'[a].phase = "release" /\ \A b \in Actors \ {a} : txn'[b] = txn[b]
      BY <2>14, <2>x DEF ClearJournal, Goto, Txns
    <3>3. TxnOK(txn[a])'
      BY <3>2 DEF TxnOK
    <3>4. JournalInv' /\ ClockInv'
      BY <3>1 DEF JournalInv, ClockInv
    <3>5. QED BY <3>1, <3>2, <3>3, <3>4, SoleStep
  <2>15. CASE CreateHistory(a)
    <3>1. /\ txn[a].phase = "create" /\ lock = a /\ TxnOK(txn[a])
          /\ UNCHANGED <<active, journal, clock>>
      BY <2>15, <2>h DEF CreateHistory, TxnInv, LockedPhases, Phases
    <3>2. CASE UNCHANGED lock /\ \E p \in {"write", "project"} : Goto(a, p)
      <4>1. /\ txn'[a].phase \in {"write", "project"}
            /\ txn'[a].target = txn[a].target /\ txn'[a].undo = txn[a].undo
            /\ \A b \in Actors \ {a} : txn'[b] = txn[b]
        BY <3>2, <2>x DEF Goto, Txns
      <4>2. TxnOK(txn[a])'
        BY <3>1, <4>1 DEF TxnOK
      <4>3. QED BY <2>u, <3>1, <3>2, <4>1, <4>2, SoleStep
    <3>3. CASE Leave(a, "refused")
      <4>1. txn'[a].phase = "idle" /\ \A b \in Actors \ {a} : txn'[b] = txn[b]
        BY <3>3, <2>x DEF Leave, NoTxn
      <4>2. \A b \in Actors \ {a} : lock = b => lock' = b
        BY <3>1
      <4>3. QED BY <2>u, <3>1, <4>1, <4>2, SideStep
    <3>4. QED BY <2>15, <3>2, <3>3 DEF CreateHistory
  <2>16. CASE WriteHistory(a) \/ WriteProjection(a)
    <3>1. /\ txn[a].phase \in {"write", "project"} /\ lock = a /\ TxnOK(txn[a])
          /\ UNCHANGED <<active, journal, clock, lock>>
      BY <2>16, <2>h DEF WriteHistory, WriteProjection, TxnInv, LockedPhases, Phases
    <3>2. /\ txn'[a].phase = "project" \/ txn'[a].phase = "release"
             \/ (txn'[a].phase = "clear" /\ txn[a].undo)
          /\ txn'[a].target = txn[a].target /\ txn'[a].undo = txn[a].undo
          /\ \A b \in Actors \ {a} : txn'[b] = txn[b]
      BY <2>16, <2>x DEF WriteHistory, WriteProjection, Goto, Txns
    <3>3. TxnOK(txn[a])'
      BY <3>1, <3>2 DEF TxnOK
    <3>4. QED BY <2>u, <3>1, <3>2, <3>3, SoleStep
  <2>17. CASE PublishWrite(a)
    <3>1. /\ UNCHANGED <<active, journal, clock>>
          /\ txn' = [txn EXCEPT ![a] = NoTxn]
          /\ lock' = IF lock = a THEN None ELSE lock
      BY <2>17 DEF PublishWrite, Leave
    <3>2. txn'[a].phase = "idle" /\ \A b \in Actors \ {a} : txn'[b] = txn[b]
      BY <3>1, <2>x DEF NoTxn
    <3>3. QED BY <2>u, <3>1, <3>2, SideStep
  <2>20. QED
    BY <2>1, <2>2, <2>3, <2>4, <2>5, <2>6, <2>7, <2>8, <2>9, <2>10, <2>11, <2>12,
       <2>13, <2>14, <2>15, <2>16, <2>17 DEF Acts
<1>3. QED BY <1>1, <1>2 DEF StoreStep

LEMMA InitialInv == Init => Inv
BY StoreAssumption DEF Init, Inv, TypeOK, LockInv, TxnInv, TxnOK, JournalInv, ClockInv,
     empty_state, States, NoTxn, Txns, Phases, Replies, LockedPhases

\* Inv holds in every reachable state.
THEOREM StoreInvariant == Spec => []Inv
<1>1. Inv /\ [Next]_storeVars => Inv'
  BY NextIsStoreStep, TypeStep, InvStep DEF Inv
<1>2. QED BY <1>1, InitialInv, PTL DEF Spec

\* The types of the store's files hold in every reachable state.
THEOREM TypeCorrect == Spec => []TypeOK
<1>1. Inv => TypeOK
  BY DEF Inv
<1>2. QED BY <1>1, StoreInvariant, PTL

\* A pending rollback can always be finished: whatever crashed, whoever ran,
\* active.json is on one of the two sides of its journal.
THEOREM JournalAlwaysBrackets == Spec => []JournalBrackets
<1>1. Inv => JournalBrackets
  BY DEF Inv, JournalInv, JournalBrackets
<1>2. QED BY <1>1, StoreInvariant, PTL

-----------------------------------------------------------------------------
(* The store implements DeploymentSelection *)

\* Every step of the store is a step of the abstract selection or leaves the
\* selection and the intent alone.
LEMMA SelectionStep ==
    ASSUME Inv, NEW D \in SUBSET Deployments, StoreStep(D)
    PROVE  [Selection!Next]_(Selection!vars)
<1> USE StoreAssumption DEF Inv
<1> DEFINE Intent == IF journal = None THEN None ELSE journal.target
<1>s. UNCHANGED <<active, journal>> => UNCHANGED Selection!vars
  BY DEF Selection!vars
<1>1. CASE UNCHANGED storeVars
  BY <1>1, <1>s DEF storeVars, durableVars
<1>2. CASE \E a \in Actors : Acts(a, D)
  <2>1. PICK a \in Actors : Acts(a, D)
    BY <1>2
  <2>2. CASE WriteActive(a)
    <3> DEFINE t == txn[a].target
    <3>1. /\ TxnOK(txn[a]) /\ txn[a].phase = "active"
          /\ active' = t /\ UNCHANGED journal
      BY <2>2 DEF WriteActive, ReplaceActive, TxnInv
    <3>2. t \in States /\ t.cur \in Selected /\ t.prev = active.cur /\ journal = None
      BY <3>1 DEF TypeOK, Txns, States, TxnOK
    <3>3. t.cur.at \in 1..MaxClock /\ (active.cur # None => t.cur.at > active.cur.at)
      BY <3>1, <3>2 DEF TxnOK, FreshTime, ClockInv, TypeOK, States, Selected
    <3>4. t = [cur |-> [dep |-> t.cur.dep, at |-> t.cur.at], prev |-> active.cur]
      BY <3>2 DEF States, Selected
    <3>5. t.cur.dep \in Deployments /\ (active.cur # None => active.cur.dep # t.cur.dep)
      BY <3>1, <3>2 DEF Selected, TxnOK
    <3>6. Selection!Promote(t.cur.dep, t.cur.at)
      BY <3>1, <3>2, <3>3, <3>4, <3>5 DEF Selection!Promote, Selection!Later
    <3>7. QED BY <3>3, <3>5, <3>6 DEF Selection!Next
  <2>3. CASE WriteJournal(a)
    <3> DEFINE t == txn[a].target
    <3>1. /\ TxnOK(txn[a]) /\ txn[a].phase = "journal" /\ UNCHANGED active
          /\ journal' = [source |-> active, target |-> t]
      BY <2>3 DEF WriteJournal, TxnInv
    <3>2. /\ t \in States /\ t.cur \in Selected /\ t.prev = active.cur
          /\ journal = None /\ active.prev # None
      BY <3>1 DEF TypeOK, Txns, States, TxnOK
    <3>3. t.cur.at \in 1..MaxClock /\ (active.cur # None => t.cur.at > active.cur.at)
      BY <3>1, <3>2 DEF TxnOK, FreshTime, ClockInv, TypeOK, States, Selected
    <3>4. t = [cur |-> [dep |-> active.prev.dep, at |-> t.cur.at], prev |-> active.cur]
      BY <3>1, <3>2 DEF States, Selected, TxnOK
    <3>5. journal' # None /\ journal'.target = t
      BY <3>1, <3>2 DEF TypeOK
    <3>6. Selection!DecideRollback(t.cur.at)
      BY <3>1, <3>2, <3>3, <3>4, <3>5 DEF Selection!DecideRollback, Selection!Later
    <3>7. QED BY <3>3, <3>6 DEF Selection!Next
  <2>4. CASE FinishSelect(a)
    <3>1. journal # None /\ UNCHANGED journal
      BY <2>4 DEF FinishSelect, TxnInv, TxnOK
    <3>2. CASE active = journal.source
      <4>1. active' = journal.target /\ journal.target.prev = active.cur
        BY <2>4, <3>1, <3>2 DEF FinishSelect, ReplaceActive, JournalInv
      <4>2. Intent # None
        BY <3>1 DEF TypeOK, Journals
      <4>3. QED BY <3>1, <4>1, <4>2 DEF Selection!Next, Selection!Exchange
    <3>3. CASE active # journal.source
      BY <2>4, <3>1, <3>3, <1>s DEF FinishSelect
    <3>4. QED BY <3>2, <3>3
  <2>5. CASE ClearJournal(a)
    <3>1. journal # None /\ active = journal.target /\ journal' = None /\ UNCHANGED active
      BY <2>5 DEF ClearJournal, TxnInv, TxnOK
    <3>2. journal.target # None
      BY <3>1 DEF TypeOK, Journals
    <3>3. QED BY <3>1, <3>2 DEF Selection!Next, Selection!Forget
  <2>6. CASE UNCHANGED <<active, journal>>
    BY <2>6, <1>s
  <2>7. QED
    BY <2>1, <2>2, <2>3, <2>4, <2>5, <2>6 DEF Acts, Answers, Leaves, RebuildBegin, RebuildEnd,
       PromoteUnchanged, PromoteSelect, RollbackBegin, FinishPending, Enter, PublishRead,
       CreateHistory, WriteHistory, WriteProjection, PublishWrite, durableVars
<1>3. QED BY <1>1, <1>2 DEF StoreStep

\* The store implements the abstract selection: promotions shift the pair,
\* a journalled rollback exchanges it exactly once, and nothing is selected
\* between the two.
THEOREM StoreImplementsSelection == Spec => ImplementsSelection
<1>1. Init => Selection!Init
  BY DEF Init, empty_state, Selection!Init
<1>2. Inv /\ [Next]_storeVars => [Selection!Next]_(Selection!vars)
  BY NextIsStoreStep, SelectionStep DEF Inv
<1>3. QED BY <1>1, <1>2, StoreInvariant, PTL DEF Spec, ImplementsSelection, Selection!Spec

-----------------------------------------------------------------------------
(* Nothing is shown or recorded that was not selected *)

WasSelected(x) == \E s \in selections : s.dep = x.dep /\ s.at = x.at

\* What active.json holds, what a reader without the lock has in hand, what
\* is published and what is recorded was selected.
ProvenanceInv ==
    /\ active.cur # None => WasSelected(active.cur)
    /\ projection # None => WasSelected(projection)
    /\ \A h \in history \union torn : WasSelected(h)
    /\ \A a \in Actors : txn[a].phase = "publish" /\ txn[a].target.cur # None =>
                              WasSelected(txn[a].target.cur)

\* Every step preserves ProvenanceInv: selections are never forgotten, and
\* every value that is shown or recorded is read from active.json.
LEMMA ProvenanceStep ==
    ASSUME Inv, ProvenanceInv, NEW D \in SUBSET Deployments, StoreStep(D)
    PROVE  ProvenanceInv'
<1> USE StoreAssumption DEF Inv
<1>1. CASE UNCHANGED storeVars
  BY <1>1 DEF storeVars, durableVars, ProvenanceInv, WasSelected
<1>2. CASE \E a \in Actors : Acts(a, D)
  <2>1. PICK a \in Actors : Acts(a, D)
    BY <1>2
  <2>x. txn \in [Actors -> Txns]
    BY DEF TypeOK
  <2>2. selections \subseteq selections'
    BY <2>1 DEF Acts, Answers, Leaves, RebuildBegin, RebuildEnd, PromoteUnchanged, PromoteSelect,
       RollbackBegin, FinishPending, Enter, PublishRead, WriteActive, WriteJournal, FinishSelect,
       ReplaceActive, ClearJournal, CreateHistory, WriteHistory, WriteProjection, PublishWrite
  <2>3. \A x : WasSelected(x) => \E s \in selections' : s.dep = x.dep /\ s.at = x.at
    BY <2>2 DEF WasSelected
  <2>4. active'.cur # None => \E s \in selections' : s.dep = active'.cur.dep /\ s.at = active'.cur.at
    <3>1. CASE WriteActive(a) \/ FinishSelect(a)
      <4>1. UNCHANGED active \/ \E t, w : ReplaceActive(t, w)
        BY <3>1 DEF WriteActive, FinishSelect
      <4>2. ASSUME NEW t, NEW w, ReplaceActive(t, w)
            PROVE  \E s \in selections' : s.dep = active'.cur.dep /\ s.at = active'.cur.at
        <5> DEFINE x == [dep |-> t.cur.dep, at |-> t.cur.at, way |-> w, over |-> DepOf(active.cur)]
        <5>1. x \in selections' /\ active' = t
          BY <4>2 DEF ReplaceActive
        <5>2. x.dep = t.cur.dep /\ x.at = t.cur.at
          OBVIOUS
        <5>3. QED BY <5>1, <5>2
      <4>3. QED BY <4>1, <4>2, <2>3 DEF ProvenanceInv
    <3>2. CASE ~(WriteActive(a) \/ FinishSelect(a))
      <4>1. UNCHANGED active
        BY <2>1, <3>2 DEF Acts, Answers, Leaves, RebuildBegin, RebuildEnd, PromoteUnchanged,
           PromoteSelect, RollbackBegin, FinishPending, Enter, PublishRead, WriteJournal,
           ClearJournal, CreateHistory, WriteHistory, WriteProjection, PublishWrite, durableVars
      <4>2. QED BY <4>1, <2>3 DEF ProvenanceInv
    <3>3. QED BY <3>1, <3>2
  <2>5. projection' # None => \E s \in selections' : s.dep = projection'.dep /\ s.at = projection'.at
    <3>1. CASE WriteProjection(a)
      <4>1. projection' = active.cur
        BY <3>1 DEF WriteProjection, TxnInv, TxnOK
      <4>2. QED BY <4>1, <2>3 DEF ProvenanceInv
    <3>2. CASE PublishWrite(a)
      BY <3>2, <2>3 DEF PublishWrite, ProvenanceInv
    <3>3. CASE ~WriteProjection(a) /\ ~PublishWrite(a)
      <4>1. UNCHANGED projection
        BY <2>1, <3>3 DEF Acts, Answers, Leaves, RebuildBegin, RebuildEnd, PromoteUnchanged,
           PromoteSelect, RollbackBegin, FinishPending, Enter, PublishRead, WriteActive,
           WriteJournal, FinishSelect, ClearJournal, CreateHistory, WriteHistory, durableVars
      <4>2. QED BY <4>1, <2>3 DEF ProvenanceInv
    <3>4. QED BY <3>1, <3>2, <3>3
  <2>6. \A h \in history' \union torn' : \E s \in selections' : s.dep = h.dep /\ s.at = h.at
    <3>1. CASE CreateHistory(a) \/ WriteHistory(a)
      <4>1. history' \union torn' \subseteq history \union torn \union {active.cur}
        BY <3>1 DEF CreateHistory, WriteHistory
      <4>2. WasSelected(active.cur)
        BY <3>1 DEF CreateHistory, WriteHistory, TxnInv, TxnOK, ProvenanceInv
      <4>3. QED BY <4>1, <4>2, <2>3 DEF ProvenanceInv
    <3>2. CASE ~CreateHistory(a) /\ ~WriteHistory(a)
      <4>1. history' \union torn' \subseteq history \union torn
        BY <2>1, <3>2 DEF Acts, Answers, Leaves, RebuildBegin, RebuildEnd, PromoteUnchanged,
           PromoteSelect, RollbackBegin, FinishPending, Enter, PublishRead, WriteActive,
           WriteJournal, FinishSelect, ClearJournal, WriteProjection, PublishWrite, durableVars
      <4>2. QED BY <4>1, <2>3 DEF ProvenanceInv
    <3>3. QED BY <3>1, <3>2
  <2>7. ASSUME NEW b \in Actors, txn'[b].phase = "publish", txn'[b].target.cur # None
        PROVE  \E s \in selections' : s.dep = txn'[b].target.cur.dep /\ s.at = txn'[b].target.cur.at
    <3>1. CASE PublishRead(a) /\ b = a
      <4>1. txn'[b].target = active
        BY <3>1, <2>x DEF PublishRead
      <4>2. QED BY <4>1, <2>7, <2>3 DEF ProvenanceInv
    <3>2. CASE ~(PublishRead(a) /\ b = a)
      <4>1. txn'[b] = txn[b]
        <5>1. CASE b # a
          BY <5>1, <2>1, <2>x DEF Acts, Answers, Leaves, Leave, RebuildBegin, RebuildEnd,
             PromoteUnchanged, PromoteSelect, RollbackBegin, FinishPending, Enter, PublishRead,
             WriteActive, WriteJournal, FinishSelect, ClearJournal, CreateHistory, WriteHistory,
             WriteProjection, PublishWrite, Goto
        <5>2. CASE b = a
          BY <5>2, <3>2, <2>1, <2>7, <2>x DEF Acts, Answers, Leaves, Leave, RebuildBegin, RebuildEnd,
             PromoteUnchanged, PromoteSelect, RollbackBegin, FinishPending, Enter,
             WriteActive, WriteJournal, FinishSelect, ClearJournal, CreateHistory, WriteHistory,
             WriteProjection, PublishWrite, Goto, NoTxn, Txns
        <5>3. QED BY <5>1, <5>2
      <4>2. QED BY <4>1, <2>7, <2>3 DEF ProvenanceInv
    <3>3. QED BY <3>1, <3>2
  <2>8. QED BY <2>4, <2>5, <2>6, <2>7 DEF ProvenanceInv, WasSelected
<1>3. QED BY <1>1, <1>2 DEF StoreStep

\* The projection never shows a deployment that active.json did not select,
\* and every record of deployment-history is about a selection that happened.
THEOREM ProvenanceIsTruthful == Spec => [](ProjectionWasSelected /\ HistoryIsTruthful)
<1>1. Init => ProvenanceInv
  BY DEF Init, ProvenanceInv, empty_state, NoTxn
<1>2. Inv /\ ProvenanceInv /\ [Next]_storeVars => ProvenanceInv'
  BY NextIsStoreStep, ProvenanceStep DEF Inv
<1>3. ProvenanceInv => ProjectionWasSelected /\ HistoryIsTruthful
  BY DEF ProvenanceInv, WasSelected, ProjectionWasSelected, HistoryIsTruthful
<1>4. QED BY <1>1, <1>2, <1>3, StoreInvariant, PTL DEF Spec

-----------------------------------------------------------------------------
(* Every selection is recorded *)

Recorded(s) == [dep |-> s.dep, at |-> s.at] \in history

\* As long as nothing was interrupted, only the selection that active.json
\* shows may lack its record, while its transaction is about to write it, and
\* only that record may be half-written.
RecordInv ==
    faults = 0 =>
        /\ torn \subseteq {active.cur}
        /\ torn # {} => \E a \in Actors : txn[a].phase = "write"
        /\ \A s \in selections :
              \/ Recorded(s)
              \/ /\ active.cur = [dep |-> s.dep, at |-> s.at]
                 /\ \E a \in Actors : txn[a].phase \in {"create", "write"}

\* A step that selects nothing and records nothing, of a process that was not
\* about to write a record.
LEMMA RecordKept ==
    ASSUME RecordInv, TypeOK, NEW a \in Actors,
           faults' \in {faults, faults + 1},
           UNCHANGED <<active, history, torn, selections>>,
           \A b \in Actors \ {a} : txn'[b] = txn[b],
           txn[a].phase \notin {"create", "write"} \/ txn'[a] = txn[a]
    PROVE  RecordInv'
<1>1. faults' = 0 => faults = 0
  BY DEF TypeOK
<1>2. \A b \in Actors : txn[b].phase \in {"create", "write"} => txn'[b] = txn[b]
  OBVIOUS
<1>3. QED BY <1>1, <1>2 DEF RecordInv, Recorded

LEMMA RecordStep ==
    ASSUME Inv, RecordInv, NEW D \in SUBSET Deployments, StoreStep(D)
    PROVE  RecordInv'
<1> USE StoreAssumption DEF Inv
<1>1. CASE UNCHANGED storeVars
  BY <1>1 DEF storeVars, durableVars, RecordInv, Recorded
<1>2. CASE \E a \in Actors : Acts(a, D)
  <2>1. PICK a \in Actors : Acts(a, D)
    BY <1>2
  <2>x. txn \in [Actors -> Txns] /\ faults \in Nat
    BY DEF TypeOK
  <2>h. txn[a].phase \in LockedPhases =>
            \A b \in Actors \ {a} : txn[b].phase \in {"idle", "publish"}
    BY Exclusion DEF LockInv
  <2>2. CASE Answers(a)
    BY <2>2, RecordKept DEF Answers, durableVars
  <2>3. CASE Leaves(a)
    <3>1. CASE faults' = faults + 1
      BY <2>x, <3>1 DEF RecordInv
    <3>2. CASE txn[a].phase \in {"build", "release"} /\ UNCHANGED <<torn, faults>>
      <4>1. \A b \in Actors \ {a} : txn'[b] = txn[b]
        BY <2>3, <2>x DEF Leaves, Leave
      <4>2. QED BY <2>3, <3>2, <4>1, RecordKept DEF Leaves
    <3>3. QED BY <2>3, <3>1, <3>2 DEF Leaves
  <2>4. CASE \/ RebuildBegin(a) \/ FinishPending(a) \/ RollbackBegin(a) \/ PublishRead(a)
             \/ \E d \in Deployments : PromoteUnchanged(a, d)
             \/ \E d \in D, e \in Deployments \union {None} : PromoteSelect(a, d, e)
             \/ Idle(a) /\ Enter(a, "create", FALSE, active, "repaired")
    <3>1. /\ txn[a].phase = "idle" /\ faults' = faults
          /\ UNCHANGED <<active, history, torn, selections>>
          /\ \A b \in Actors \ {a} : txn'[b] = txn[b]
      BY <2>4, <2>x DEF RebuildBegin, FinishPending, RollbackBegin, PublishRead, PromoteUnchanged,
         PromoteSelect, Enter, Idle, durableVars
    <3>2. QED BY <3>1, RecordKept
  <2>5. CASE (\E d \in Deployments : RebuildEnd(a, d)) \/ WriteJournal(a) \/ ClearJournal(a)
             \/ WriteProjection(a) \/ PublishWrite(a)
    <3>1. /\ txn[a].phase \notin {"create", "write"} /\ faults' = faults
          /\ UNCHANGED <<active, history, torn, selections>>
          /\ \A b \in Actors \ {a} : txn'[b] = txn[b]
      BY <2>5, <2>x DEF RebuildEnd, WriteJournal, ClearJournal, WriteProjection, PublishWrite,
         Goto, Leave
    <3>2. QED BY <3>1, RecordKept
  <2>6. CASE WriteActive(a) \/ FinishSelect(a)
    <3>1. /\ txn[a].phase \in {"active", "select"} /\ faults' = faults
          /\ UNCHANGED <<history, torn>>
      BY <2>6 DEF WriteActive, FinishSelect
    <3>2. txn'[a].phase = "create"
      BY <2>6, <2>x DEF WriteActive, FinishSelect, Goto, Txns, TxnInv, TxnOK, JournalInv
    <3>3. \A b \in Actors : txn[b].phase \notin {"create", "write"}
      BY <2>h, <3>1 DEF LockedPhases, Phases
    <3>4. faults = 0 => torn = {} /\ \A s \in selections : Recorded(s)
      BY <3>3 DEF RecordInv
    <3>5. ASSUME NEW t, NEW w, t \in States, t.cur # None, ReplaceActive(t, w)
          PROVE  RecordInv'
      <4> DEFINE x == [dep |-> t.cur.dep, at |-> t.cur.at, way |-> w, over |-> DepOf(active.cur)]
      <4>1. selections' = selections \union {x} /\ active' = t
        BY <3>5 DEF ReplaceActive
      <4>2. x.dep = t.cur.dep /\ x.at = t.cur.at
        OBVIOUS
      <4>3. t.cur = [dep |-> t.cur.dep, at |-> t.cur.at]
        BY <3>5 DEF States, Selected
      <4> HIDE DEF x
      <4>4. QED BY <3>1, <3>2, <3>4, <4>1, <4>2, <4>3 DEF RecordInv, Recorded
    <3>6. CASE UNCHANGED <<active, selections>>
      BY <3>1, <3>4, <3>6 DEF RecordInv, Recorded
    <3>7. CASE WriteActive(a)
      <4>1. txn[a].target \in States /\ txn[a].target.cur # None
        BY <3>7, <2>x DEF WriteActive, Txns, TxnInv, TxnOK
      <4>2. PICK t : t = txn[a].target /\ ReplaceActive(t, "promote")
        BY <3>7 DEF WriteActive
      <4>3. QED BY <3>5, <4>1, <4>2
    <3>8. CASE FinishSelect(a) /\ ~UNCHANGED <<active, selections>>
      <4>1. journal.target \in States /\ journal.target.cur # None
        BY <3>8 DEF FinishSelect, TxnInv, TxnOK, JournalInv, TypeOK, Journals
      <4>2. PICK t : t = journal.target /\ ReplaceActive(t, "rollback")
        BY <3>8 DEF FinishSelect
      <4>3. QED BY <3>5, <4>1, <4>2
    <3>9. QED BY <2>6, <3>6, <3>7, <3>8
  <2>7. CASE CreateHistory(a)
    <3>1. /\ txn[a].phase = "create" /\ faults' = faults
          /\ UNCHANGED <<active, history, selections>> /\ active.cur \in Selected
      BY <2>7 DEF CreateHistory, TxnInv, TxnOK, TypeOK, States
    <3>2. \A b \in Actors : txn[b].phase # "write"
      BY <2>h, <3>1 DEF LockedPhases, Phases
    <3>3. faults = 0 => torn = {}
      BY <3>2 DEF RecordInv
    <3>4. CASE torn' = torn \union {active.cur} /\ Goto(a, "write")
      <4>1. txn'[a].phase = "write"
        BY <2>x, <3>4 DEF Goto, Txns
      <4>2. QED BY <3>1, <3>3, <3>4, <4>1 DEF RecordInv, Recorded
    <3>5. CASE active.cur \in history /\ UNCHANGED torn
      BY <3>1, <3>3, <3>5 DEF RecordInv, Recorded
    <3>6. CASE active.cur \in torn
      BY <3>1, <3>3, <3>6 DEF RecordInv
    <3>7. QED BY <2>7, <3>4, <3>5, <3>6 DEF CreateHistory
  <2>8. CASE WriteHistory(a)
    <3>1. /\ faults' = faults /\ UNCHANGED <<active, selections>>
          /\ history' = history \union {active.cur} /\ torn' = torn \ {active.cur}
      BY <2>8 DEF WriteHistory
    <3>2. QED BY <3>1 DEF RecordInv, Recorded
  <2>9. QED BY <2>1, <2>2, <2>3, <2>4, <2>5, <2>6, <2>7, <2>8 DEF Acts
<1>3. QED BY <1>1, <1>2 DEF StoreStep

\* deployment-history is complete: with the lock free and nothing interrupted,
\* every selection has its record.
THEOREM EverySelectionIsRecorded == Spec => []SelectionsAreRecorded
<1>1. Init => RecordInv
  BY DEF Init, RecordInv
<1>2. Inv /\ RecordInv /\ [Next]_storeVars => RecordInv'
  BY NextIsStoreStep, RecordStep DEF Inv
<1>3. Inv /\ RecordInv => SelectionsAreRecorded
  <2>1. Inv /\ lock = None => \A a \in Actors : txn[a].phase \notin {"create", "write"}
    BY StoreAssumption DEF Inv, LockInv, LockedPhases, Phases
  <2>2. QED BY <2>1 DEF RecordInv, Recorded, SelectionsAreRecorded
<1>4. QED BY <1>1, <1>2, <1>3, StoreInvariant, PTL DEF Spec

-----------------------------------------------------------------------------
(* What the programs on top of the store rely on *)

\* Only deployments of D were ever selected, are selected or kept as the
\* previous one, or will be by a transaction or a rollback that has begun.
SelectsFrom(D) ==
    /\ \A s \in selections : s.dep \in D
    /\ active.cur # None => active.cur.dep \in D
    /\ active.prev # None => active.prev.dep \in D
    /\ journal # None => /\ journal.target.cur.dep \in D
                         /\ journal.target.prev # None => journal.target.prev.dep \in D
    /\ \A a \in Actors : txn[a].phase = "active" => txn[a].target.cur.dep \in D

\* A process changes neither the transaction nor the answer of another one.
LEMMA StoreFrame ==
    ASSUME TypeOK, NEW D, NEW a \in Actors, Acts(a, D), NEW b \in Actors, b # a
    PROVE  txn'[b] = txn[b] /\ reply'[b] = reply[b]
BY DEF TypeOK, Acts, Answers, Leaves, Leave, RebuildBegin, RebuildEnd, PromoteUnchanged,
       PromoteSelect, RollbackBegin, FinishPending, Enter, PublishRead, WriteActive, WriteJournal,
       FinishSelect, ClearJournal, CreateHistory, WriteHistory, WriteProjection, PublishWrite, Goto

\* Builds and selections are never forgotten.
LEMMA StoreGrows ==
    ASSUME NEW D, StoreStep(D)
    PROVE  builds \subseteq builds' /\ selections \subseteq selections'
BY DEF StoreStep, storeVars, durableVars, Acts, Answers, Leaves, RebuildBegin, RebuildEnd,
       PromoteUnchanged, PromoteSelect, RollbackBegin, FinishPending, Enter, PublishRead,
       WriteActive, WriteJournal, FinishSelect, ReplaceActive, ClearJournal, CreateHistory,
       WriteHistory, WriteProjection, PublishWrite

\* If only deployments of D are promoted, only deployments of D are selected:
\* a rollback leads back to one of them.
LEMMA SelectsFromStep ==
    ASSUME Inv, NEW D \in SUBSET Deployments, NEW E, D \subseteq E, SelectsFrom(D), StoreStep(D)
    PROVE  SelectsFrom(E)'
<1> USE StoreAssumption DEF Inv
<1>1. CASE UNCHANGED storeVars
  BY <1>1 DEF storeVars, durableVars, SelectsFrom
<1>2. CASE \E a \in Actors : Acts(a, D)
  <2>1. PICK a \in Actors : Acts(a, D)
    BY <1>2
  <2>x. txn \in [Actors -> Txns]
    BY DEF TypeOK
  <2>2. \A b \in Actors \ {a} : txn'[b] = txn[b]
    BY <2>1, StoreFrame
  <2>3. CASE WriteActive(a) \/ FinishSelect(a)
    <3>1. txn'[a].phase = "create" /\ UNCHANGED journal
      BY <2>3, <2>x DEF WriteActive, FinishSelect, Goto, Txns, TxnInv, TxnOK, JournalInv
    <3>2. ASSUME NEW t, NEW w, ReplaceActive(t, w), t.cur.dep \in D,
                 t.prev # None => t.prev.dep \in D
          PROVE  SelectsFrom(E)'
      <4> DEFINE x == [dep |-> t.cur.dep, at |-> t.cur.at, way |-> w, over |-> DepOf(active.cur)]
      <4>1. selections' = selections \union {x} /\ active' = t /\ x.dep = t.cur.dep
        BY <3>2 DEF ReplaceActive
      <4> HIDE DEF x
      <4>2. QED BY <2>2, <3>1, <3>2, <4>1 DEF SelectsFrom
    <3>3. CASE WriteActive(a)
      <4>1. /\ txn[a].target.cur.dep \in D
            /\ txn[a].target.prev # None => txn[a].target.prev.dep \in D
        BY <3>3 DEF WriteActive, TxnInv, TxnOK, SelectsFrom
      <4>2. PICK t : t = txn[a].target /\ ReplaceActive(t, "promote")
        BY <3>3 DEF WriteActive
      <4>3. QED BY <3>2, <4>1, <4>2
    <3>4. CASE FinishSelect(a) /\ UNCHANGED <<active, selections>>
      BY <2>2, <3>1, <3>4 DEF SelectsFrom
    <3>5. CASE FinishSelect(a) /\ ReplaceActive(journal.target, "rollback")
      <4>1. journal # None
        BY <3>5 DEF FinishSelect, TxnInv, TxnOK
      <4>2. PICK t : t = journal.target /\ ReplaceActive(t, "rollback")
        BY <3>5
      <4>3. QED BY <3>2, <4>1, <4>2 DEF SelectsFrom
    <3>6. QED BY <2>3, <3>3, <3>4, <3>5 DEF FinishSelect
  <2>4. CASE WriteJournal(a)
    <3>1. /\ UNCHANGED <<active, selections>> /\ journal' = [source |-> active, target |-> txn[a].target]
          /\ txn[a].target.cur.dep = active.prev.dep /\ active.prev # None
          /\ txn[a].target.prev = active.cur
      BY <2>4 DEF WriteJournal, TxnInv, TxnOK
    <3>2. txn'[a].phase = "select" /\ journal'.target = txn[a].target
      BY <2>4, <2>x, <3>1 DEF WriteJournal, Goto, Txns
    <3>3. QED BY <2>2, <3>1, <3>2 DEF SelectsFrom
  <2>5. CASE \E d \in D, e \in Deployments \union {None} : PromoteSelect(a, d, e)
    <3>1. PICK d \in D, e \in Deployments \union {None} : PromoteSelect(a, d, e)
      BY <2>5
    <3>2. UNCHANGED <<active, journal, selections>> /\ txn'[a].target.cur.dep = d
      BY <2>x, <3>1 DEF PromoteSelect, Enter, select_deployment, durableVars
    <3>3. QED BY <2>2, <3>2 DEF SelectsFrom
  <2>6. CASE ~(WriteActive(a) \/ FinishSelect(a) \/ WriteJournal(a))
             /\ ~\E d \in D, e \in Deployments \union {None} : PromoteSelect(a, d, e)
    <3>1. UNCHANGED <<active, selections>> /\ journal' \in {journal, None}
      BY <2>1, <2>6 DEF Acts, Answers, Leaves, RebuildBegin, RebuildEnd, PromoteUnchanged,
         RollbackBegin, FinishPending, Enter, PublishRead, ClearJournal, CreateHistory,
         WriteHistory, WriteProjection, PublishWrite, durableVars
    <3>2. txn'[a] = txn[a] \/ txn'[a].phase # "active"
      BY <2>1, <2>6, <2>x DEF Acts, Answers, Leaves, Leave, RebuildBegin, RebuildEnd,
         PromoteUnchanged, RollbackBegin, FinishPending, Enter, PublishRead, ClearJournal,
         CreateHistory, WriteHistory, WriteProjection, PublishWrite, Goto, NoTxn, Txns
    <3>3. QED BY <2>2, <3>1, <3>2 DEF SelectsFrom
  <2>7. QED BY <2>3, <2>4, <2>5, <2>6
<1>3. QED BY <1>1, <1>2 DEF StoreStep

\* A transaction goes on, keeping what it will answer, or ends with an answer.
LEMMA StepFacts ==
    ASSUME TypeOK, NEW a \in Actors, (Step(a) /\ txn[a].phase # "active") \/ IOFault(a)
    PROVE  \/ /\ txn[a].phase \notin {"idle", "active", "build", "release", "publish"}
              /\ txn'[a].phase \notin {"idle", "active", "build", "publish"}
              /\ txn'[a].result = txn[a].result /\ reply'[a] = reply[a]
           \/ /\ txn'[a].phase = "idle" /\ txn[a].phase \notin {"idle", "build"}
              /\ \/ txn[a].phase = "release" /\ reply'[a] = txn[a].result
                 \/ txn[a].phase = "publish" /\ reply'[a] = "published"
                 \/ reply'[a] \in {"refused", "ioerror"}
<1>1. txn \in [Actors -> Txns] /\ reply \in [Actors -> Replies]
  BY DEF TypeOK
<1>2. ASSUME NEW r, Leave(a, r) PROVE txn'[a].phase = "idle" /\ reply'[a] = r
  BY <1>1, <1>2 DEF Leave, NoTxn
<1>3. ASSUME NEW p, Goto(a, p) PROVE txn'[a].phase = p /\ txn'[a].result = txn[a].result
  BY <1>1, <1>3 DEF Goto, Txns
<1>4. CASE IOFault(a)
  BY <1>2, <1>4 DEF IOFault
<1>5. CASE WriteJournal(a) \/ ClearJournal(a) \/ WriteHistory(a)
  BY <1>3, <1>5 DEF WriteJournal, ClearJournal, WriteHistory
<1>6. CASE WriteProjection(a)
  BY <1>3, <1>6 DEF WriteProjection
<1>7. CASE FinishSelect(a)
  BY <1>2, <1>3, <1>7 DEF FinishSelect
<1>8. CASE CreateHistory(a)
  BY <1>2, <1>3, <1>8 DEF CreateHistory
<1>9. CASE Release(a) \/ PublishWrite(a)
  BY <1>2, <1>9 DEF Release, PublishWrite
<1>10. QED BY <1>4, <1>5, <1>6, <1>7, <1>8, <1>9 DEF Step, WriteActive
=============================================================================
