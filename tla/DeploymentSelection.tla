------------------------- MODULE DeploymentSelection -------------------------
(***************************************************************************)
(* What the deployment store promises its readers and its operators, with  *)
(* the lock, the files and the crashes left out: one pair of deployments   *)
(* is selected at a time, a promotion pushes the selected one into         *)
(* "previous", and a rollback, once it is decided (intent), exchanges the  *)
(* two exactly once and lets nothing else select in between.               *)
(***************************************************************************)
EXTENDS Naturals

CONSTANTS Deployments, None,
          Times    \* the instants at which a selection can happen

VARIABLES sel,     \* the selected state: current and previous deployment
          intent   \* the state a decided rollback leads to, or None

vars == <<sel, intent>>

Init == sel = [cur |-> None, prev |-> None] /\ intent = None

\* The time of a selection is later than that of the one it replaces.
Later(at) == sel.cur # None => at > sel.cur.at

Promote(d, at) ==
    /\ intent = None
    /\ sel.cur # None => sel.cur.dep # d
    /\ Later(at)
    /\ sel' = [cur |-> [dep |-> d, at |-> at], prev |-> sel.cur]
    /\ UNCHANGED intent

DecideRollback(at) ==
    /\ intent = None
    /\ sel.prev # None
    /\ Later(at)
    /\ intent' = [cur |-> [dep |-> sel.prev.dep, at |-> at], prev |-> sel.cur]
    /\ UNCHANGED sel

\* A rollback exchanges the two deployments it was decided for.
Exchange ==
    /\ intent # None
    /\ intent.prev = sel.cur
    /\ sel' = intent
    /\ UNCHANGED intent

Forget == intent # None /\ sel = intent /\ intent' = None /\ UNCHANGED sel

Next == \/ \E d \in Deployments, at \in Times : Promote(d, at)
        \/ \E at \in Times : DecideRollback(at)
        \/ Exchange
        \/ Forget

Spec == Init /\ [][Next]_vars
=============================================================================
