--------------------------- MODULE Phase3Contracts ---------------------------
(***************************************************************************)
(* The durable contract of a guarded apply: the states of a transaction    *)
(* record, the adjacency of its transitions, and what makes one record a   *)
(* legal successor of another.  It is shared by the coordinator, which     *)
(* asks for transitions, and the journals, which refuse the illegal ones.  *)
(***************************************************************************)
EXTENDS Naturals

States ==
  {"intent_prepared", "apply_committed", "post_validation_succeeded",
   "reload_intent", "reload_succeeded", "verification_succeeded",
   "rollback_intent", "rollback_committed", "rollback_validation_succeeded",
   "rollback_reload_intent", "rollback_reload_succeeded",
   "rollback_verification_succeeded", "manual_recovery_required"}

TerminalStates ==
  {"verification_succeeded", "rollback_verification_succeeded",
   "manual_recovery_required"}

\* The adjacency table, without the manual_recovery_required edge that every
\* non-terminal row of it also carries.
Onward ==
  [s \in States |->
     CASE s = "intent_prepared" -> {"apply_committed", "rollback_intent"}
       [] s = "apply_committed" -> {"post_validation_succeeded", "rollback_intent"}
       [] s = "post_validation_succeeded" ->
            {"reload_intent", "reload_succeeded", "rollback_intent"}
       [] s = "reload_intent" -> {"reload_succeeded", "rollback_intent"}
       [] s = "reload_succeeded" -> {"verification_succeeded", "rollback_intent"}
       [] s = "rollback_intent" -> {"rollback_committed"}
       [] s = "rollback_committed" -> {"rollback_validation_succeeded"}
       [] s = "rollback_validation_succeeded" ->
            {"rollback_reload_intent", "rollback_verification_succeeded"}
       [] s = "rollback_reload_intent" -> {"rollback_reload_succeeded"}
       [] s = "rollback_reload_succeeded" -> {"rollback_verification_succeeded"}
       [] OTHER -> {}]

LegalTransitions ==
  [s \in States |->
     IF s \in TerminalStates THEN {}
     ELSE Onward[s] \union {"manual_recovery_required"}]

\* What the reload target of a record can be: null, or one of the contract's.
ReloadTargets == {"none", "automation.reload", "script.reload", "scene.reload"}

\* The fields of a record that its legality is about.  The identities and
\* digests are fixed at intent and never compared with each other here.
Record ==
  [state : States, priorState : States \union {"none"}, version : Nat,
   reloadTarget : ReloadTargets, rollbackReloadRequired : BOOLEAN]

\* No transaction has been journalled yet.
NoRecord ==
  [state |-> "none", priorState |-> "none", version |-> 0,
   reloadTarget |-> "none", rollbackReloadRequired |-> FALSE]

\* Mutant: the record keeps the impact where the reload target belongs.
IntentBindsImpact(target) ==
  [state |-> "intent_prepared", priorState |-> "none", version |-> 0,
   reloadTarget |-> IF target = "none" THEN "none" ELSE "domain_reload",
   rollbackReloadRequired |-> FALSE]

IntentRecord(target) ==
  [state |-> "intent_prepared", priorState |-> "none", version |-> 0,
   reloadTarget |-> target, rollbackReloadRequired |-> FALSE]

RecordReloadContextIsLegal(r) ==
  /\ r.rollbackReloadRequired => r.reloadTarget # "none"
  /\ r.state = "reload_intent" => r.reloadTarget # "none"
  /\ r.state \in {"rollback_reload_intent", "rollback_reload_succeeded"} =>
       r.rollbackReloadRequired /\ r.reloadTarget # "none"
  /\ r.priorState = "post_validation_succeeded" /\ r.state = "reload_succeeded" =>
       r.reloadTarget = "none"
  /\ /\ r.priorState = "rollback_validation_succeeded"
     /\ r.state = "rollback_verification_succeeded"
     => ~r.rollbackReloadRequired

\* The flag may be raised on rollback_intent only, and whether it must be
\* depends on how far the candidate reload had durably gone.
RollbackFlagIsLegal(prev, next) ==
  CASE prev.state = "reload_intent" -> TRUE
    [] prev.state = "reload_succeeded" ->
         next.rollbackReloadRequired = (prev.reloadTarget # "none")
    [] OTHER -> ~next.rollbackReloadRequired

CanRecordTransition(prev, next) ==
  /\ next.state \in LegalTransitions[prev.state]
  /\ next.reloadTarget = prev.reloadTarget
  /\ prev.rollbackReloadRequired => next.rollbackReloadRequired
  /\ next.rollbackReloadRequired /\ ~prev.rollbackReloadRequired =>
       next.state = "rollback_intent"
  /\ next.state = "rollback_intent" => RollbackFlagIsLegal(prev, next)
  /\ RecordReloadContextIsLegal(next)

\* The record a transition to `state` writes; `flag` is the patch that raises
\* rollbackReloadRequired.
Successor(r, state, flag) ==
  [state |-> state, priorState |-> r.state, version |-> r.version + 1,
   reloadTarget |-> r.reloadTarget,
   rollbackReloadRequired |-> r.rollbackReloadRequired \/ flag]
=============================================================================
