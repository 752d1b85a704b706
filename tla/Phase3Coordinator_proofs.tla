----------------------- MODULE Phase3Coordinator_proofs -----------------------
(***************************************************************************)
(* Theorems about the coordinator, for every set of reload targets, every  *)
(* number of faults and both kinds of journal.                             *)
(*                                                                         *)
(* First the types and the ledger of what the journal and the program's    *)
(* memory hold at each step, and what follows from it for the requests to  *)
(* the journal, the verifications, the reload flag and the end of a call.  *)
(*                                                                         *)
(* Then, provided a new command waits until a helper that outlived its     *)
(* parent has ended: a settled record tells the truth about the file and   *)
(* the running system.  While a verification runs, the record in hand is   *)
(* the one in the journal and no helper is left that could still write the *)
(* file; what the probe saw can then only be changed by an outside edit,   *)
(* which clears `quiet'.  A helper alive without its parent is only ever   *)
(* under intent_prepared or rollback_intent, so it cannot reach a settled  *)
(* record either.                                                          *)
(*                                                                         *)
(* Under the same condition an effect is announced: a helper works under   *)
(* the record that announced its content, with the grant spent, and lands  *)
(* once.  With the above this makes every step of the coordinator a step   *)
(* of Phase3Outcome, the promise a caller relies on, or a stutter.         *)
(***************************************************************************)
EXTENDS Phase3Coordinator, SequenceTheorems, TLAPS

-----------------------------------------------------------------------------
(* Types *)

LEMMA SuccessorType ==
  ASSUME NEW r \in AnyRecord, NEW state \in States, NEW flag \in BOOLEAN
  PROVE  Successor(r, state, flag) \in AnyRecord
<1>1. (r.rollbackReloadRequired \/ flag) \in BOOLEAN
  OBVIOUS
<1>2. /\ r.version + 1 \in Nat
      /\ r.state \in States \union {"none"}
      /\ r.reloadTarget \in ReloadTargets
  BY DEF AnyRecord
<1> QED
  BY <1>1, <1>2, Zenon DEF Successor, AnyRecord

LEMMA NoRecordType == NoRecord \in AnyRecord
  BY DEF NoRecord, AnyRecord, ReloadTargets

LEMMA IntentRecordType ==
  ASSUME NEW target \in Targets
  PROVE  IntentRecord(target) \in AnyRecord
  BY TargetsAssumption DEF IntentRecord, AnyRecord, States, ReloadTargets

\* The three parts of the type invariant, each about the variables that are
\* written together.
ProcTypeOK == pc \in Steps /\ cur \in AnyRecord /\ frames \in Seq(AnyRecord)

CoreTypeOK ==
  /\ record \in AnyRecord
  /\ grant \in {"none", "issued", "consumed"}
  /\ loaded \in Bytes
  /\ faults \in Nat
  /\ reloadStarted \in BOOLEAN
  /\ quiet \in BOOLEAN

LEMMA TypeParts == TypeOK <=> ApplyTypeOK /\ ProcTypeOK /\ CoreTypeOK
  BY DEF TypeOK, ProcTypeOK, CoreTypeOK

LEMMA TypePartsNext == TypeOK' <=> ApplyTypeOK' /\ ProcTypeOK' /\ CoreTypeOK'
  BY DEF TypeOK, ProcTypeOK, CoreTypeOK

LEMMA LeaveType == ASSUME ProcTypeOK, Leave PROVE ProcTypeOK'
  BY NoRecordType DEF ProcTypeOK, Leave, Steps

LEMMA GotoType ==
  ASSUME ProcTypeOK, NEW step \in Steps, Goto(step) PROVE ProcTypeOK'
  BY DEF ProcTypeOK, Goto

LEMMA CatchType == ASSUME ProcTypeOK, Catch PROVE ProcTypeOK'
  BY GotoType DEF Catch, Steps

LEMMA PropagateType == ASSUME ProcTypeOK, Propagate PROVE ProcTypeOK'
<1>1. CASE frames = <<>>
  BY <1>1, LeaveType DEF Propagate
<1>2. CASE frames # <<>>
  <2>1. Head(frames) \in AnyRecord /\ Tail(frames) \in Seq(AnyRecord)
    BY <1>2 DEF ProcTypeOK
  <2> QED
    BY <1>2, <2>1 DEF Propagate, ProcTypeOK, Steps
<1> QED
  BY <1>1, <1>2

\* A block is entered: the record in hand is pushed.
LEMMA PushType ==
  ASSUME ProcTypeOK, frames' = <<cur>> \o frames
  PROVE  frames' \in Seq(AnyRecord)
  BY DEF ProcTypeOK

LEMMA TransitionsType ==
  ASSUME CoreTypeOK, NEW state \in States, NEW flag \in BOOLEAN,
         Transitions(state, flag)
  PROVE  CoreTypeOK' /\ record' \in AnyRecord /\ UNCHANGED applyVars
  BY SuccessorType DEF CoreTypeOK, Transitions, haVars

LEMMA TransitionFailsType ==
  ASSUME CoreTypeOK, NEW state \in States, NEW flag \in BOOLEAN,
         TransitionFails(state, flag)
  PROVE  CoreTypeOK' /\ UNCHANGED applyVars
  BY SuccessorType DEF CoreTypeOK, TransitionFails, Spend, haVars

LEMMA SettleType ==
  ASSUME TypeOK, NEW step, NEW state \in States, NEW next \in Steps,
         Settle(step, state, next)
  PROVE  TypeOK'
<1>1. CoreTypeOK' /\ record' \in AnyRecord /\ UNCHANGED applyVars
  BY TransitionsType, TypeParts DEF Settle
<1>2. ProcTypeOK'
  BY <1>1, TypeParts DEF Settle, Carry, ProcTypeOK
<1> QED
  BY <1>1, <1>2, TypePartsNext, TypeParts DEF ApplyTypeOK, applyVars

LEMMA CarryType ==
  ASSUME TypeOK, NEW state \in States, NEW flag \in BOOLEAN, NEW next \in Steps,
         Transitions(state, flag), Carry(next)
  PROVE  TypeOK'
<1>1. CoreTypeOK' /\ record' \in AnyRecord /\ UNCHANGED applyVars
  BY TransitionsType, TypeParts
<1>2. ProcTypeOK'
  BY <1>1, TypeParts DEF Carry, ProcTypeOK
<1> QED
  BY <1>1, <1>2, TypePartsNext, TypeParts DEF ApplyTypeOK, applyVars

LEMMA FailsType ==
  ASSUME TypeOK, NEW state \in States, NEW flag \in BOOLEAN,
         TransitionFails(state, flag), Catch \/ Leave \/ Propagate \/ Goto("rollback_intent")
  PROVE  TypeOK'
<1>1. CoreTypeOK' /\ UNCHANGED applyVars
  BY TransitionFailsType, TypeParts
<1>2. ProcTypeOK'
  BY TypeParts, CatchType, LeaveType, PropagateType, GotoType DEF Steps, RollbackSteps
<1> QED
  BY <1>1, <1>2, TypePartsNext, TypeParts DEF ApplyTypeOK, applyVars

LEMMA AnswersType ==
  ASSUME TypeOK, NEW step, NEW next \in Steps, Answers(step, next)
  PROVE  TypeOK'
  BY TypeParts, TypePartsNext, GotoType DEF Answers, CoreTypeOK, ApplyTypeOK, coreVars, applyVars

\* A step that moves the control state and nothing else.
LEMMA ProcOnlyType ==
  ASSUME TypeOK, ProcTypeOK', UNCHANGED <<coreVars, applyVars>>
  PROVE  TypeOK'
  BY TypeParts, TypePartsNext DEF CoreTypeOK, ApplyTypeOK, coreVars, applyVars

\* The helper's own steps.
LEMMA HelperType == ASSUME ApplyTypeOK, HelperNext PROVE ApplyTypeOK'
<1> USE DEF ApplyTypeOK, Running, CommitStatuses, LiveBytes, Bytes
<1>1. ASSUME NEW s \in Running \union CommitStatuses, Stage(s)
      PROVE  helper' \in [stage : Running \union CommitStatuses \union {"none"},
                          content : {"checkpoint", "candidate"},
                          displaced : LiveBytes]
  BY <1>1 DEF Stage
<1>2. CASE HelperStage
  BY <1>1, <1>2 DEF HelperStage
<1>3. CASE HelperRefuse
  BY <1>1, <1>3 DEF HelperRefuse
<1>4. CASE HelperArm
  BY <1>1, <1>4 DEF HelperArm
<1>5. CASE HelperBackOut
  BY <1>1, <1>5 DEF HelperBackOut
<1>6. CASE HelperExchange
  <2>1. landed + (IF helper.content = "candidate" THEN 1 ELSE 0) \in Nat
    OBVIOUS
  <2> QED  BY <1>6, <2>1 DEF HelperExchange
<1>7. CASE HelperExchangeFails
  BY <1>1, <1>7 DEF HelperExchangeFails
<1>8. CASE HelperFinish
  <2>1. PICK status \in {"committed", "commit_unknown"} : Stage(status)
    BY <1>8 DEF HelperFinish
  <2> QED  BY <1>1, <1>8, <2>1 DEF HelperFinish
<1>9. CASE HelperUncertain
  BY <1>1, <1>9 DEF HelperUncertain
<1>10. CASE HelperKilled
  BY <1>1, <1>10 DEF HelperKilled
<1> QED
  BY <1>2, <1>3, <1>4, <1>5, <1>6, <1>7, <1>8, <1>9, <1>10 DEF HelperNext

LEMMA SpawnType ==
  ASSUME ApplyTypeOK, NEW content \in {"checkpoint", "candidate"}, Spawn(content)
  PROVE  ApplyTypeOK'
  BY DEF Spawn, ApplyTypeOK, Running, LiveBytes, Bytes

LEMMA ReapType == ASSUME ApplyTypeOK, NEW status, Reap(status) PROVE ApplyTypeOK'
  BY DEF Reap, NoHelper, ApplyTypeOK, LiveBytes, Bytes

LEMMA LoadsType == ASSUME live \in LiveBytes PROVE Loads \in Bytes
  BY DEF Loads, LiveBytes, Bytes

LEMMA FlagType ==
  ASSUME NEW r \in AnyRecord, NEW b \in BOOLEAN
  PROVE  ShouldRequireRollbackReload(r, b) \in BOOLEAN
  BY DEF ShouldRequireRollbackReload

LEMMA RollbackIntentAfterType ==
  ASSUME TypeOK, NEW b \in BOOLEAN, RollbackIntentAfter(b)
  PROVE  TypeOK'
<1> DEFINE flag == ShouldRequireRollbackReload(cur, b)
<1>1. flag \in BOOLEAN
  BY FlagType, TypeParts DEF ProcTypeOK
<1>2. "rollback_intent" \in States /\ "restore" \in Steps
  BY DEF States, Steps, RollbackSteps
<1>3. CASE Transitions("rollback_intent", flag) /\ Carry("restore")
  <2> HIDE DEF flag
  <2> QED  BY <1>1, <1>2, <1>3, CarryType
<1>4. CASE TransitionFails("rollback_intent", flag) /\ Catch
  <2> HIDE DEF flag
  <2> QED  BY <1>1, <1>2, <1>4, FailsType
<1> QED
  BY <1>3, <1>4 DEF RollbackIntentAfter

-----------------------------------------------------------------------------
(* The type invariant, one lemma per part of the program *)

LEMMA ApplyStepType == ASSUME TypeOK, Apply PROVE TypeOK'
<1> USE DEF Steps, ApplySteps, CompleteSteps, PostCommitSteps
<1>0. ProcTypeOK /\ CoreTypeOK /\ ApplyTypeOK
  BY TypeParts
<1>1. CASE ConsumeApplyGrant
  <2>1. ProcTypeOK'
    BY <1>0, <1>1, GotoType, LeaveType DEF ConsumeApplyGrant
  <2>2. CoreTypeOK' /\ ApplyTypeOK'
    BY <1>0, <1>1 DEF ConsumeApplyGrant, CoreTypeOK, ApplyTypeOK, haVars, applyVars
  <2> QED  BY <2>1, <2>2, TypePartsNext
<1>2. CASE CreateCheckpoint
  BY <1>0, <1>2, GotoType, LeaveType, ProcOnlyType DEF CreateCheckpoint
<1>3. CASE CreateIntent
  <2> PICK target \in Targets :
        \/ /\ record' = IntentRecord(target)
           /\ cur' = record' /\ pc' = "apply_replace" /\ frames' = <<>>
           /\ UNCHANGED faults
        \/ Spend /\ record' \in {record, IntentRecord(target)} /\ Leave
    BY <1>3 DEF CreateIntent
  <2>1. record' \in AnyRecord /\ faults' \in Nat
    BY <1>0, IntentRecordType DEF CoreTypeOK, Spend
  <2>2. ProcTypeOK'
    <3>1. CASE cur' = record' /\ pc' = "apply_replace" /\ frames' = <<>>
      <4>1. pc' \in Steps /\ cur' \in AnyRecord
        BY <2>1, <3>1
      <4>2. frames' \in Seq(AnyRecord)
        BY <3>1
      <4> QED  BY <4>1, <4>2 DEF ProcTypeOK
    <3> QED  BY <1>0, <3>1, LeaveType
  <2>3. CoreTypeOK' /\ ApplyTypeOK'
    BY <1>0, <1>3, <2>1 DEF CreateIntent, CoreTypeOK, ApplyTypeOK, haVars, applyVars
  <2> QED  BY <2>2, <2>3, TypePartsNext
<1>4. CASE ApplyCandidate
  <2>1. ProcTypeOK'
    BY <1>0, <1>4, GotoType, LeaveType DEF ApplyCandidate
  <2>2. CoreTypeOK'
    BY <1>0, <1>4 DEF ApplyCandidate, CoreTypeOK, coreVars
  <2>3. ApplyTypeOK'
    BY <1>0, <1>4, SpawnType DEF ApplyCandidate, ApplyTypeOK, applyVars
  <2> QED  BY <2>1, <2>2, <2>3, TypePartsNext
<1>5. CASE ApplyReturns
  <2>1. ProcTypeOK'
    BY <1>0, <1>5, GotoType, LeaveType DEF ApplyReturns
  <2>2. CoreTypeOK'
    BY <1>0, <1>5 DEF ApplyReturns, CoreTypeOK, coreVars
  <2>3. ApplyTypeOK'
    BY <1>0, <1>5, ReapType DEF ApplyReturns
  <2> QED  BY <2>1, <2>2, <2>3, TypePartsNext
<1>6. CASE ClassifyApply
  <2>1. ProcTypeOK'
    BY <1>0, <1>6, GotoType, LeaveType DEF ClassifyApply
  <2>2. CoreTypeOK' /\ ApplyTypeOK'
    BY <1>0, <1>6 DEF ClassifyApply, Spend, CoreTypeOK, ApplyTypeOK, haVars, applyVars
  <2> QED  BY <2>1, <2>2, TypePartsNext
<1>7. CASE CommitApply
  BY <1>7, SettleType, FailsType DEF CommitApply, States
<1>8. CASE UnknownRollbackIntent
  BY <1>8, SettleType, FailsType DEF UnknownRollbackIntent, States
<1> QED
  BY <1>1, <1>2, <1>3, <1>4, <1>5, <1>6, <1>7, <1>8 DEF Apply

LEMMA PostCommitType == ASSUME TypeOK, FinishPostCommit PROVE TypeOK'
<1> USE DEF Steps, PostCommitSteps, RollbackSteps
<1>0. ProcTypeOK /\ CoreTypeOK /\ ApplyTypeOK
  BY TypeParts
<1>1. CASE PostValidate
  BY <1>1, SettleType, FailsType, AnswersType DEF PostValidate, FailTo, States
<1>2. CASE ReloadIntent
  BY <1>2, SettleType, FailsType DEF ReloadIntent, FailTo, States
<1>3. CASE ReloadNotDispatched
  BY <1>3, RollbackIntentAfterType DEF ReloadNotDispatched
<1>4. CASE ReloadDomain
  <2>1. ProcTypeOK'
    BY <1>0, <1>4, GotoType DEF ReloadDomain
  <2>2. loaded' \in Bytes
    BY <1>0, <1>4, LoadsType DEF ReloadDomain, CoreTypeOK, ApplyTypeOK
  <2>3. CoreTypeOK' /\ ApplyTypeOK'
    BY <1>0, <1>4, <2>2 DEF ReloadDomain, CoreTypeOK, ApplyTypeOK, applyVars
  <2> QED  BY <2>1, <2>3, TypePartsNext
<1>5. CASE ReloadSettle
  BY <1>5, SettleType, FailsType DEF ReloadSettle, FailTo, States
<1>6. CASE Verify
  <2>1. CASE ReadsBefore("candidate") /\ Goto("verify_loaded")
    <3>1. ProcTypeOK'
      BY <1>0, <2>1, GotoType
    <3>2. CoreTypeOK' /\ ApplyTypeOK'
      BY <1>0, <2>1 DEF ReadsBefore, CoreTypeOK, ApplyTypeOK, haVars, applyVars
    <3> QED  BY <3>1, <3>2, TypePartsNext
  <2> QED  BY <1>6, <2>1, AnswersType DEF Verify
<1>7. CASE VerifyLoaded
  BY <1>7, AnswersType DEF VerifyLoaded
<1>8. CASE VerifyFinal
  BY <1>8, AnswersType DEF VerifyFinal
<1>9. CASE VerifySettle
  <2>1. CASE Transitions("verification_succeeded", FALSE) /\ Leave
    <3>1. CoreTypeOK' /\ UNCHANGED applyVars
      BY <1>0, <2>1, TransitionsType DEF States
    <3>2. ProcTypeOK'
      BY <1>0, <2>1, LeaveType
    <3> QED  BY <1>0, <3>1, <3>2, TypePartsNext DEF ApplyTypeOK, applyVars
  <2> QED  BY <1>9, <2>1, FailsType DEF VerifySettle, FailTo, States
<1> QED
  BY <1>1, <1>2, <1>3, <1>4, <1>5, <1>6, <1>7, <1>8, <1>9 DEF FinishPostCommit

LEMMA RollbackType == ASSUME TypeOK, RollbackAfterCommit PROVE TypeOK'
<1> USE DEF Steps, RollbackSteps, CompleteSteps
<1>0. ProcTypeOK /\ CoreTypeOK /\ ApplyTypeOK
  BY TypeParts
<1>a. ASSUME InnerManual PROVE ProcTypeOK'
  BY <1>0, <1>a, PushType DEF InnerManual, ProcTypeOK
<1>1. CASE RollbackIntent
  BY <1>1, RollbackIntentAfterType DEF RollbackIntent
<1>2. CASE RestoreCheckpoint
  <2>1. ProcTypeOK'
    BY <1>0, <1>2, <1>a, GotoType, CatchType DEF RestoreCheckpoint
  <2>2. CoreTypeOK'
    BY <1>0, <1>2 DEF RestoreCheckpoint, CoreTypeOK, coreVars
  <2>3. ApplyTypeOK'
    BY <1>0, <1>2, SpawnType DEF RestoreCheckpoint, ApplyTypeOK, applyVars
  <2> QED  BY <2>1, <2>2, <2>3, TypePartsNext
<1>3. CASE RestoreReturns
  <2>1. ProcTypeOK'
    BY <1>0, <1>3, <1>a, GotoType DEF RestoreReturns
  <2>2. CoreTypeOK'
    BY <1>0, <1>3 DEF RestoreReturns, CoreTypeOK, coreVars
  <2>3. ApplyTypeOK'
    BY <1>0, <1>3, ReapType DEF RestoreReturns
  <2> QED  BY <2>1, <2>2, <2>3, TypePartsNext
<1>4. CASE ClassifyRestore
  <2>1. ProcTypeOK'
    BY <1>0, <1>4, <1>a, GotoType, CatchType DEF ClassifyRestore
  <2>2. CoreTypeOK' /\ ApplyTypeOK'
    BY <1>0, <1>4 DEF ClassifyRestore, Spend, CoreTypeOK, ApplyTypeOK, haVars, applyVars
  <2> QED  BY <2>1, <2>2, TypePartsNext
<1>5. CASE RestoreCommit
  <2>1. CASE /\ Transitions("rollback_committed", FALSE)
             /\ pc' = "rollback_validate" /\ cur' = record'
             /\ frames' = <<cur>> \o frames
    <3>1. CoreTypeOK' /\ record' \in AnyRecord /\ UNCHANGED applyVars
      BY <1>0, <2>1, TransitionsType DEF States
    <3>2. ProcTypeOK'
      BY <1>0, <2>1, <3>1, PushType DEF ProcTypeOK
    <3> QED  BY <1>0, <3>1, <3>2, TypePartsNext DEF ApplyTypeOK, applyVars
  <2> QED  BY <1>5, <2>1, FailsType DEF RestoreCommit, States
<1> QED
  BY <1>1, <1>2, <1>3, <1>4, <1>5 DEF RollbackAfterCommit

LEMMA ValidationStepType ==
  ASSUME NEW r PROVE ValidationStep(r) \in Steps
  BY DEF ValidationStep, Steps, CompleteSteps

\* The rollback reload runs two blocks deep: there is a record to fall back to.
ReloadHasCaller == pc \in {"rollback_reload", "rollback_reload_settle"} => frames # <<>>

LEMMA CompleteType ==
  ASSUME TypeOK, ReloadHasCaller, CompleteRollback PROVE TypeOK'
<1> USE DEF CompleteSteps
<1>0. ProcTypeOK /\ CoreTypeOK /\ ApplyTypeOK
  BY TypeParts
<1>s. CompleteSteps \union {"manual", "idle"} \subseteq Steps
  BY DEF Steps
<1>1. CASE CompleteIntent
  <2> DEFINE flag == ShouldRequireRollbackReload(cur, FALSE)
  <2>1. flag \in BOOLEAN /\ "rollback_intent" \in States
    BY <1>0, FlagType DEF ProcTypeOK, States
  <2>2. \/ Transitions("rollback_intent", flag) /\ Carry("complete_commit")
        \/ TransitionFails("rollback_intent", flag) /\ Catch
    BY <1>1 DEF CompleteIntent
  <2> HIDE DEF flag
  <2> QED  BY <1>s, <2>1, <2>2, CarryType, FailsType
<1>2. CASE CompleteCommit
  BY <1>s, <1>2, SettleType, FailsType DEF CompleteCommit, CatchIn, States
<1>3. CASE CompleteLoad
  <2>1. ProcTypeOK'
    BY <1>0, <1>3, CatchType, PushType, ValidationStepType DEF CompleteLoad, ProcTypeOK
  <2> QED  BY <1>3, <2>1, ProcOnlyType DEF CompleteLoad
<1>4. CASE RollbackValidate
  <2> DEFINE next == ValidationStep(Successor(cur, "rollback_validation_succeeded", FALSE))
  <2>1. next \in Steps /\ "rollback_validation_succeeded" \in States
    BY ValidationStepType DEF States
  <2>2. CASE Settle("rollback_validate", "rollback_validation_succeeded", next)
    <3> HIDE DEF next
    <3> QED  BY <2>1, <2>2, SettleType
  <2> QED
    BY <1>s, <1>4, <2>1, <2>2, FailsType, AnswersType DEF RollbackValidate, CatchIn
<1>5. CASE RollbackReloadIntent
  <2>1. CASE /\ Transitions("rollback_reload_intent", FALSE)
             /\ pc' = "rollback_reload" /\ cur' = record'
             /\ frames' = <<cur>> \o frames
    <3>1. CoreTypeOK' /\ record' \in AnyRecord /\ UNCHANGED applyVars
      BY <1>0, <2>1, TransitionsType DEF States
    <3>2. ProcTypeOK'
      BY <1>0, <1>s, <2>1, <3>1, PushType DEF ProcTypeOK
    <3> QED  BY <1>0, <3>1, <3>2, TypePartsNext DEF ApplyTypeOK, applyVars
  <2> QED  BY <1>5, <2>1, FailsType DEF RollbackReloadIntent, CatchIn, States
<1>6. CASE RollbackReload
  <2>1. ProcTypeOK'
    BY <1>0, <1>s, <1>6, GotoType, CatchType DEF RollbackReload
  <2>2. loaded' \in Bytes
    BY <1>0, <1>6, LoadsType DEF RollbackReload, CoreTypeOK, ApplyTypeOK
  <2>3. CoreTypeOK' /\ ApplyTypeOK'
    BY <1>0, <1>6, <2>2 DEF RollbackReload, CoreTypeOK, ApplyTypeOK, applyVars
  <2> QED  BY <2>1, <2>3, TypePartsNext
<1>7. CASE RollbackReloadSettle
  <2>1. CASE /\ Transitions("rollback_reload_succeeded", FALSE)
             /\ pc' = "rollback_verify" /\ cur' = record' /\ frames' = Tail(frames)
    <3>1. CoreTypeOK' /\ record' \in AnyRecord /\ UNCHANGED applyVars
      BY <1>0, <2>1, TransitionsType DEF States
    <3>0. frames # <<>>
      BY <1>7 DEF RollbackReloadSettle, ReloadHasCaller
    <3>2. Tail(frames) \in Seq(AnyRecord)
      BY <1>0, <3>0 DEF ProcTypeOK
    <3>3. ProcTypeOK'
      BY <1>s, <2>1, <3>1, <3>2 DEF ProcTypeOK
    <3> QED  BY <1>0, <3>1, <3>3, TypePartsNext DEF ApplyTypeOK, applyVars
  <2> QED  BY <1>7, <2>1, FailsType DEF RollbackReloadSettle, States
<1>8. CASE RollbackVerify
  <2>1. CASE ReadsBefore("checkpoint") /\ Goto("rollback_verify_loaded")
    <3>1. ProcTypeOK'
      BY <1>0, <1>s, <2>1, GotoType
    <3>2. CoreTypeOK' /\ ApplyTypeOK'
      BY <1>0, <2>1 DEF ReadsBefore, CoreTypeOK, ApplyTypeOK, haVars, applyVars
    <3> QED  BY <3>1, <3>2, TypePartsNext
  <2> QED  BY <1>s, <1>8, <2>1, AnswersType DEF RollbackVerify
<1>9. CASE RollbackVerifyLoaded
  BY <1>s, <1>9, AnswersType DEF RollbackVerifyLoaded
<1>10. CASE RollbackVerifyFinal
  BY <1>s, <1>10, AnswersType DEF RollbackVerifyFinal
<1>11. CASE RollbackVerifySettle
  <2>1. CASE Transitions("rollback_verification_succeeded", FALSE) /\ Leave
    <3>1. CoreTypeOK' /\ UNCHANGED applyVars
      BY <1>0, <2>1, TransitionsType DEF States
    <3>2. ProcTypeOK'
      BY <1>0, <2>1, LeaveType
    <3> QED  BY <1>0, <3>1, <3>2, TypePartsNext DEF ApplyTypeOK, applyVars
  <2> QED  BY <1>11, <2>1, FailsType DEF RollbackVerifySettle, CatchIn, States
<1> QED
  BY <1>1, <1>2, <1>3, <1>4, <1>5, <1>6, <1>7, <1>8, <1>9, <1>10, <1>11
     DEF CompleteRollback

LEMMA ManualType == ASSUME TypeOK, Manual PROVE TypeOK'
<1>0. ProcTypeOK /\ CoreTypeOK /\ ApplyTypeOK
  BY TypeParts
<1>1. CASE ManualReturnsTerminal
  BY <1>0, <1>1, LeaveType, ProcOnlyType DEF ManualReturnsTerminal
<1>2. CASE ManualSettles
  <2>1. CoreTypeOK' /\ UNCHANGED applyVars
    BY <1>0, <1>2, TransitionsType DEF ManualSettles, States
  <2>2. ProcTypeOK'
    BY <1>0, <1>2, LeaveType DEF ManualSettles
  <2> QED  BY <1>0, <2>1, <2>2, TypePartsNext DEF ApplyTypeOK, applyVars
<1>3. CASE ManualReconciles
  <2>1. ProcTypeOK'
    BY <1>0, <1>3 DEF ManualReconciles, ProcTypeOK, CoreTypeOK, Steps
  <2> QED  BY <1>3, <2>1, ProcOnlyType DEF ManualReconciles
<1>4. CASE ManualRethrows
  <2>1. CASE TransitionFails("manual_recovery_required", FALSE)
    BY <1>4, <2>1, FailsType DEF ManualRethrows, States
  <2>2. CASE Spend /\ UNCHANGED <<record, grant, haVars, quiet, applyVars>>
    <3>1. ProcTypeOK'
      BY <1>0, <1>4, PropagateType DEF ManualRethrows
    <3>2. CoreTypeOK' /\ ApplyTypeOK'
      BY <1>0, <2>2 DEF Spend, CoreTypeOK, ApplyTypeOK, haVars, applyVars
    <3> QED  BY <3>1, <3>2, TypePartsNext
  <2> QED  BY <1>4, <2>1, <2>2 DEF ManualRethrows
<1> QED
  BY <1>1, <1>2, <1>3, <1>4 DEF Manual

LEMMA EnvironmentType ==
  ASSUME TypeOK,
         \/ Approve \/ StartApply \/ StartRecover \/ RecoverOne
         \/ HelperSteps \/ OrphanExits
         \/ Crash \/ OutsideEdit \/ HomeAssistantReloads
  PROVE  TypeOK'
<1> USE DEF Steps, ApplySteps
<1>0. ProcTypeOK /\ CoreTypeOK /\ ApplyTypeOK
  BY TypeParts
<1>1. CASE Approve
  <2>1. CoreTypeOK' /\ ApplyTypeOK' /\ ProcTypeOK'
    BY <1>0, <1>1
       DEF Approve, CoreTypeOK, ApplyTypeOK, ProcTypeOK, haVars, procVars, applyVars
  <2> QED  BY <2>1, TypePartsNext
<1>2. CASE StartApply
  BY <1>0, <1>2, GotoType, ProcOnlyType DEF StartApply
<1>3. CASE StartRecover
  <2>1. <<>> \in Seq(AnyRecord)
    OBVIOUS
  <2>2. ProcTypeOK'
    BY <1>0, <1>3, <2>1 DEF StartRecover, ProcTypeOK, CoreTypeOK
  <2> QED  BY <1>3, <2>2, ProcOnlyType DEF StartRecover
<1>4. CASE RecoverOne
  <2>1. RecoverOneStep(cur) \in Steps
    BY DEF RecoverOneStep, CompleteSteps, RollbackSteps
  <2>2. ProcTypeOK'
    BY <1>0, <1>4, <2>1, GotoType, LeaveType DEF RecoverOne
  <2>3. CoreTypeOK' /\ ApplyTypeOK'
    BY <1>0, <1>4 DEF RecoverOne, Spend, CoreTypeOK, ApplyTypeOK, haVars, applyVars
  <2> QED  BY <2>2, <2>3, TypePartsNext
<1>5. CASE HelperSteps
  <2>1. CoreTypeOK' /\ ProcTypeOK'
    BY <1>0, <1>5 DEF HelperSteps, CoreTypeOK, ProcTypeOK, coreVars, procVars
  <2>2. ApplyTypeOK'
    BY <1>0, <1>5, HelperType DEF HelperSteps
  <2> QED  BY <2>1, <2>2, TypePartsNext
<1>6. CASE OrphanExits
  <2>1. CoreTypeOK' /\ ProcTypeOK'
    BY <1>0, <1>6 DEF OrphanExits, CoreTypeOK, ProcTypeOK, coreVars, procVars
  <2>2. ApplyTypeOK'
    BY <1>0, <1>6, ReapType DEF OrphanExits
  <2> QED  BY <2>1, <2>2, TypePartsNext
<1>7. CASE Crash
  <2>1. ProcTypeOK'
    BY <1>0, <1>7, LeaveType DEF Crash
  <2>2. CoreTypeOK' /\ ApplyTypeOK'
    BY <1>0, <1>7 DEF Crash, Spend, CoreTypeOK, ApplyTypeOK, haVars, applyVars
  <2> QED  BY <2>1, <2>2, TypePartsNext
<1>8. CASE OutsideEdit
  <2>1. ProcTypeOK'
    BY <1>0, <1>8 DEF OutsideEdit, ProcTypeOK, procVars
  <2>s. faults' \in Nat
    BY <1>0, <1>8 DEF OutsideEdit, Spend, CoreTypeOK
  <2>2. CoreTypeOK'
    BY <1>0, <1>8, <2>s DEF OutsideEdit, CoreTypeOK, haVars
  <2>3. ApplyTypeOK'
    BY <1>0, <1>8 DEF OutsideEdit, EditorWrite, ApplyTypeOK
  <2> QED  BY <2>1, <2>2, <2>3, TypePartsNext
<1>9. CASE HomeAssistantReloads
  <2>1. loaded' \in Bytes
    BY <1>0, <1>9, LoadsType DEF HomeAssistantReloads, ApplyTypeOK
  <2>2. CoreTypeOK' /\ ApplyTypeOK' /\ ProcTypeOK'
    BY <1>0, <1>9, <2>1
       DEF HomeAssistantReloads, CoreTypeOK, ApplyTypeOK, ProcTypeOK, procVars, applyVars
  <2> QED  BY <2>2, TypePartsNext
<1> QED
  BY <1>1, <1>2, <1>3, <1>4, <1>5, <1>6, <1>7, <1>8, <1>9

-----------------------------------------------------------------------------
(* The type theorem *)

LEMMA ReloadHasCallerStep ==
  ASSUME TypeOK, ReloadHasCaller, [Next]_vars
  PROVE  ReloadHasCaller'
<1>0. frames \in Seq(AnyRecord) /\ cur \in AnyRecord
  BY DEF TypeOK
<1>1. <<cur>> \o frames # <<>>
  BY <1>0
<1>2. ValidationStep(cur) \notin {"rollback_reload", "rollback_reload_settle"}
  BY DEF ValidationStep
<1>3. \A r : ValidationStep(r) \notin {"rollback_reload", "rollback_reload_settle"}
  BY DEF ValidationStep
<1>4. CASE UNCHANGED vars
  BY <1>4 DEF vars, ReloadHasCaller
<1>5. CASE Apply
  BY <1>5 DEF Apply, ConsumeApplyGrant, CreateCheckpoint, CreateIntent,
       ApplyCandidate, ApplyReturns, ClassifyApply, CommitApply,
       UnknownRollbackIntent, Settle, Carry, Goto, Leave, ReloadHasCaller
<1>6. CASE FinishPostCommit
  BY <1>6 DEF FinishPostCommit, PostValidate, ReloadIntent, ReloadNotDispatched,
       ReloadDomain, ReloadSettle, Verify, VerifyLoaded, VerifyFinal, VerifySettle,
       RollbackIntentAfter, FailTo, Answers, Settle, Carry, Goto, Leave, Catch,
       ReloadHasCaller
<1>7. CASE RollbackAfterCommit
  BY <1>7 DEF RollbackAfterCommit, RollbackIntent, RestoreCheckpoint, RestoreReturns,
       ClassifyRestore, RestoreCommit, RollbackIntentAfter, InnerManual, Carry, Goto,
       Leave, Catch, ReloadHasCaller
<1>8. CASE CompleteRollback
  <2>1. CASE RollbackReloadIntent
    BY <1>1, <2>1 DEF RollbackReloadIntent, CatchIn, Catch, Goto, ReloadHasCaller
  <2>2. CASE RollbackReload
    BY <2>2 DEF RollbackReload, Catch, Goto, ReloadHasCaller
  <2>3. CASE RollbackReloadSettle
    BY <2>3 DEF RollbackReloadSettle, Propagate, Leave, ReloadHasCaller
  <2>4. CASE CompleteIntent \/ CompleteCommit \/ CompleteLoad \/ RollbackValidate
    BY <1>2, <1>3, <2>4 DEF CompleteIntent, CompleteCommit, CompleteLoad,
         RollbackValidate, CatchIn, Answers, Settle, Carry, Goto, Catch, ReloadHasCaller
  <2>5. CASE \/ RollbackVerify \/ RollbackVerifyLoaded \/ RollbackVerifyFinal
             \/ RollbackVerifySettle
    BY <2>5 DEF RollbackVerify, RollbackVerifyLoaded, RollbackVerifyFinal,
         RollbackVerifySettle, CatchIn, Answers, Goto, Leave, Catch, ReloadHasCaller
  <2> QED  BY <1>8, <2>1, <2>2, <2>3, <2>4, <2>5 DEF CompleteRollback
<1>9. CASE Manual
  BY <1>9 DEF Manual, ManualReturnsTerminal, ManualSettles, ManualReconciles,
       ManualRethrows, Propagate, Leave, ReloadHasCaller
<1>10. CASE RecoverOne
  <2>1. RecoverOneStep(cur) \notin {"rollback_reload", "rollback_reload_settle"}
    BY DEF RecoverOneStep
  <2> QED  BY <1>10, <2>1 DEF RecoverOne, Goto, Leave, ReloadHasCaller
<1>11. CASE \/ Approve \/ StartApply \/ StartRecover \/ HelperSteps \/ OrphanExits
            \/ Crash \/ OutsideEdit \/ HomeAssistantReloads
  BY <1>11 DEF Approve, StartApply, StartRecover, HelperSteps, OrphanExits, Crash,
       OutsideEdit, HomeAssistantReloads, procVars, Goto, Leave, ReloadHasCaller
<1> QED
  BY <1>4, <1>5, <1>6, <1>7, <1>8, <1>9, <1>10, <1>11 DEF Next, Coordinate

LEMMA TypeStep ==
  ASSUME TypeOK, ReloadHasCaller, [Next]_vars
  PROVE  TypeOK'
<1>1. CASE UNCHANGED vars
  BY <1>1 DEF vars, TypeOK, ApplyTypeOK
<1>2. CASE Next
  BY <1>2, ApplyStepType, PostCommitType, RollbackType, CompleteType, ManualType,
     EnvironmentType DEF Next, Coordinate
<1> QED
  BY <1>1, <1>2

LEMMA TypeInit == Init => TypeOK /\ ReloadHasCaller
<1>1. <<>> \in Seq(AnyRecord)
  OBVIOUS
<1>2. Init => ApplyTypeOK
  <2>1. NoHelper \in [stage : Running \union CommitStatuses \union {"none"},
                      content : {"checkpoint", "candidate"},
                      displaced : LiveBytes]
    BY DEF NoHelper, LiveBytes
  <2>2. "checkpoint" \in LiveBytes
    BY DEF LiveBytes, Bytes
  <2>3. SUFFICES ASSUME Init PROVE ApplyTypeOK
    OBVIOUS
  <2>4. live = "checkpoint" /\ pending = FALSE /\ helper = NoHelper /\ landed = 0
    BY <2>3 DEF Init, ApplyInit
  <2>5. live \in LiveBytes /\ pending \in BOOLEAN /\ landed \in Nat
    BY <2>2, <2>4
  <2> QED  BY <2>1, <2>4, <2>5 DEF ApplyTypeOK
<1>3. Init => ProcTypeOK
  BY <1>1, NoRecordType DEF Init, ProcTypeOK, Steps
<1>4. Init => CoreTypeOK
  BY NoRecordType, FaultsAssumption DEF Init, CoreTypeOK, Bytes
<1>5. Init => ReloadHasCaller
  BY DEF Init, ReloadHasCaller
<1> QED
  BY <1>2, <1>3, <1>4, <1>5, TypeParts

\* Every variable keeps its type through every failure, crash and recovery; in
\* particular the stack of caught records never underflows.
THEOREM TypeCorrect == Spec => []TypeOK
<1>1. TypeOK /\ ReloadHasCaller /\ [Next]_vars => (TypeOK /\ ReloadHasCaller)'
  BY TypeStep, ReloadHasCallerStep
<1> QED
  BY TypeInit, <1>1, PTL DEF Spec

-----------------------------------------------------------------------------
(* The ledger: what the journal holds, and what memory holds of it         *)
(*                                                                         *)
(* Every record the journal accepts is a legal one; the record a block     *)
(* holds is the latest, or an earlier and unsettled one, and then it only  *)
(* leads to a catch; and each step of the program is reached with the      *)
(* record it is about.                                                     *)

\* Where no intent has been written, or no call runs.
BeforeIntent == {"idle", "consume", "checkpoint", "intent"}

\* Where memory may be behind, or is not about a record.
Unsynced == {"idle", "consume", "checkpoint", "intent", "rollback_intent", "manual"}

ForwardStates ==
  {"intent_prepared", "apply_committed", "post_validation_succeeded",
   "reload_intent", "reload_succeeded"}
RollbackStates ==
  {"rollback_intent", "rollback_committed", "rollback_validation_succeeded",
   "rollback_reload_intent", "rollback_reload_succeeded",
   "rollback_verification_succeeded"}

\* What the chain of accepted transitions makes true of its latest record.
LegalRecord(r) ==
  /\ r \in Record
  /\ RecordReloadContextIsLegal(r)
  /\ r.rollbackReloadRequired =>
       r.state \in RollbackStates \union {"manual_recovery_required"}
  /\ r.state = "reload_succeeded" =>
       r.priorState = IF r.reloadTarget = "none" THEN "post_validation_succeeded"
                      ELSE "reload_intent"
  /\ r.state = "rollback_validation_succeeded" => r.priorState = "rollback_committed"
  /\ r.state = "rollback_reload_succeeded" => r.priorState = "rollback_reload_intent"

\* The record a step is about.
DueAt(step, r) ==
  /\ step \in {"apply_replace", "apply_await", "apply_classify", "apply_commit",
               "unknown_rollback_intent"} => r.state = "intent_prepared"
  /\ step = "post_validate" => r.state = "apply_committed"
  /\ step = "reload_intent" =>
       r.state = "post_validation_succeeded" /\ r.reloadTarget # "none"
  /\ step = "reload" => r.state = "reload_intent"
  /\ step = "reload_settle" =>
       \/ r.state = "post_validation_succeeded" /\ r.reloadTarget = "none"
       \/ r.state = "reload_intent"
  /\ step \in {"verify", "verify_loaded", "verify_final", "verify_settle"} =>
       r.state = "reload_succeeded"
  /\ step \in {"rollback_intent", "complete_intent"} => r.state \in ForwardStates
  /\ step \in {"restore", "restore_await", "restore_classify", "restore_commit",
               "complete_commit"} => r.state = "rollback_intent"
  /\ step = "complete_load" => r.state \in RestoredStates
  /\ step = "rollback_validate" => r.state = "rollback_committed"
  /\ step = "rollback_reload_intent" =>
       r.state = "rollback_validation_succeeded" /\ r.rollbackReloadRequired
  /\ step \in {"rollback_reload", "rollback_reload_settle"} =>
       r.state = "rollback_reload_intent"
  /\ step \in {"rollback_verify", "rollback_verify_loaded", "rollback_verify_final",
               "rollback_verify_settle"} => VerificationStateIsLegal(r, "checkpoint")

\* A record in memory against the latest in the journal.
Held(r, latest) ==
  \/ r = latest
  \/ r.version < latest.version /\ r.state \in States \ TerminalStates

JournalIsLegal == record = NoRecord \/ LegalRecord(record)
IntentIsFirst == pc \in BeforeIntent \ {"idle"} => record = NoRecord
CurIsHeld == pc \notin BeforeIntent => record # NoRecord /\ Held(cur, record)
FramesAreHeld == \A i \in 1..Len(frames) : Held(frames[i], record)
CurIsLatest == pc \notin Unsynced => cur = record

\* Once the candidate may have been loaded, the records that follow the reload
\* say so until a rollback has been verified.
ReloadIsRemembered ==
  reloadStarted =>
    /\ pc # "reload"
    /\ record.reloadTarget # "none"
    /\ record.state \in RollbackStates \union TerminalStates
                          \union {"reload_intent", "reload_succeeded"}
    /\ record.state \in RollbackStates => record.rollbackReloadRequired

Ledger ==
  /\ JournalIsLegal
  /\ IntentIsFirst
  /\ CurIsHeld
  /\ FramesAreHeld
  /\ CurIsLatest
  /\ DueAt(pc, cur)
  /\ ReloadIsRemembered

\* The contract's chain: a legal transition from a legal record leads to one.
LEMMA LegalSuccessor ==
  ASSUME NEW r, LegalRecord(r), NEW state \in States, NEW flag \in BOOLEAN,
         CanRecordTransition(r, Successor(r, state, flag))
  PROVE  /\ LegalRecord(Successor(r, state, flag))
         /\ r.state \in States \ TerminalStates
<1> DEFINE s == Successor(r, state, flag)
<1>1. /\ s.state = state /\ s.priorState = r.state /\ s.version = r.version + 1
      /\ s.reloadTarget = r.reloadTarget
      /\ s.rollbackReloadRequired = (r.rollbackReloadRequired \/ flag)
  BY DEF Successor
<1>2. r.state \in States \ TerminalStates
  BY DEF CanRecordTransition, LegalTransitions, LegalRecord, Record
<1>3. s \in Record
  BY <1>2 DEF Successor, LegalRecord, Record
<1>4. state \in Onward[r.state] \union {"manual_recovery_required"}
  BY <1>1, <1>2 DEF CanRecordTransition, LegalTransitions
<1>5. s.rollbackReloadRequired => state \in RollbackStates \union {"manual_recovery_required"}
  BY <1>1, <1>2, <1>4 DEF CanRecordTransition, LegalRecord, Onward, RollbackStates, States, TerminalStates
<1>6. /\ state = "reload_succeeded" =>
           r.state \in {"post_validation_succeeded", "reload_intent"}
      /\ state = "rollback_validation_succeeded" => r.state = "rollback_committed"
      /\ state = "rollback_reload_succeeded" => r.state = "rollback_reload_intent"
  BY <1>2, <1>4 DEF Onward, States
<1>7. RecordReloadContextIsLegal(s)
  BY DEF CanRecordTransition
<1>8. state = "reload_succeeded" =>
        r.state = IF r.reloadTarget = "none" THEN "post_validation_succeeded"
                  ELSE "reload_intent"
  BY <1>1, <1>6, <1>7 DEF RecordReloadContextIsLegal, LegalRecord
<1> HIDE DEF s
<1> QED
  BY <1>1, <1>2, <1>3, <1>5, <1>6, <1>7, <1>8 DEF LegalRecord, s

LEMMA LegalIntent ==
  ASSUME NEW target \in Targets PROVE LegalRecord(IntentRecord(target))
  BY TargetsAssumption
     DEF IntentRecord, LegalRecord, Record, RecordReloadContextIsLegal, States

\* What memory holds stays held when the journal moves on.
LEMMA HeldOn ==
  ASSUME NEW r \in AnyRecord, NEW latest, LegalRecord(latest), Held(r, latest),
         NEW state \in States, NEW flag \in BOOLEAN,
         CanRecordTransition(latest, Successor(latest, state, flag))
  PROVE  Held(r, Successor(latest, state, flag))
<1>1. latest.version \in Nat /\ r.version \in Nat
  BY DEF LegalRecord, Record, AnyRecord
<1>2. Successor(latest, state, flag).version = latest.version + 1
  BY DEF Successor
<1>3. latest.state \in States \ TerminalStates
  BY LegalSuccessor
<1> QED
  BY <1>1, <1>2, <1>3 DEF Held

-----------------------------------------------------------------------------
(* Kinds of steps *)

LEMMA HeldFrames ==
  ASSUME TypeOK, FramesAreHeld, Held(cur, record) \/ frames' # <<cur>> \o frames,
         frames' \in {frames, <<>>, <<cur>> \o frames}
                       \union (IF frames = <<>> THEN {} ELSE {Tail(frames)})
  PROVE  \A i \in 1..Len(frames') : frames'[i] \in AnyRecord /\ Held(frames'[i], record)
<1>0. frames \in Seq(AnyRecord) /\ cur \in AnyRecord
  BY DEF TypeOK
<1>1. CASE frames' = frames
  BY <1>0, <1>1 DEF FramesAreHeld
<1>2. CASE frames' = <<>>
  BY <1>2
<1>3. CASE frames' = <<cur>> \o frames /\ Held(cur, record)
  <2>1. /\ Len(<<cur>> \o frames) = 1 + Len(frames)
        /\ (<<cur>> \o frames)[1] = cur
        /\ \A i \in 2..(1 + Len(frames)) : (<<cur>> \o frames)[i] = frames[i - 1]
    BY <1>0
  <2>2. \A i \in 1..Len(frames') : i = 1 \/ i - 1 \in 1..Len(frames)
    BY <1>0, <1>3, <2>1
  <2> QED
    BY <1>0, <1>3, <2>1, <2>2 DEF FramesAreHeld
<1>4. CASE frames # <<>> /\ frames' = Tail(frames)
  BY <1>0, <1>4 DEF FramesAreHeld
<1> QED
  BY <1>1, <1>2, <1>3, <1>4

\* The call ends, or goes on without a journal write.
LEMMA LedgerMoves ==
  ASSUME TypeOK, Ledger, UNCHANGED <<record, reloadStarted>>,
         \/ Leave
         \/ /\ pc \notin BeforeIntent /\ Propagate
         \/ /\ pc \notin BeforeIntent /\ pc' \notin BeforeIntent \union {"reload"}
            /\ cur' = cur /\ frames' \in {frames, <<cur>> \o frames}
            /\ pc \in Unsynced => pc' \in Unsynced
            /\ DueAt(pc', cur)
  PROVE  Ledger'
<1>1. JournalIsLegal' /\ ReloadIsRemembered'
  BY DEF Ledger, JournalIsLegal, ReloadIsRemembered, Leave, Propagate
<1>2. pc \notin BeforeIntent => Held(cur, record) /\ record # NoRecord
  BY DEF Ledger, CurIsHeld
<1>3. CASE Leave
  BY <1>1, <1>3 DEF Leave, Ledger, IntentIsFirst, CurIsHeld, FramesAreHeld, CurIsLatest,
     DueAt, BeforeIntent, Unsynced
<1>4. CASE pc \notin BeforeIntent /\ frames # <<>> /\ Propagate
  <2>1. Held(frames[1], record) /\ cur' = frames[1] /\ pc' = "manual"
        /\ frames' = Tail(frames)
    BY <1>4 DEF Ledger, FramesAreHeld, Propagate, TypeOK
  <2>2. FramesAreHeld'
    BY <1>4, <2>1, HeldFrames DEF Ledger, FramesAreHeld
  <2> QED
    BY <1>1, <1>2, <1>4, <2>1, <2>2 DEF Ledger, IntentIsFirst, CurIsHeld, CurIsLatest,
       DueAt, BeforeIntent, Unsynced
<1>5. CASE /\ pc \notin BeforeIntent /\ pc' \notin BeforeIntent \union {"reload"}
           /\ cur' = cur /\ frames' \in {frames, <<cur>> \o frames}
           /\ pc \in Unsynced => pc' \in Unsynced
           /\ DueAt(pc', cur)
  <2>1. FramesAreHeld'
    BY <1>2, <1>5, HeldFrames DEF Ledger, FramesAreHeld
  <2>2. IntentIsFirst' /\ CurIsHeld' /\ CurIsLatest' /\ DueAt(pc', cur')
    BY <1>2, <1>5 DEF Ledger, IntentIsFirst, CurIsHeld, CurIsLatest, Unsynced
  <2> QED
    BY <1>1, <2>1, <2>2 DEF Ledger
<1> QED
  BY <1>3, <1>4, <1>5 DEF Propagate

\* The journal takes the transition a block asks for: every record memory holds
\* stays held, and a rollback of a reload under way is flagged.
LEMMA LedgerRecords ==
  ASSUME TypeOK, Ledger, pc \notin BeforeIntent,
         NEW state \in States, NEW flag \in BOOLEAN, Accepts(state, flag),
         record' = Successor(record, state, flag), reloadStarted' = reloadStarted,
         reloadStarted /\ state = "rollback_intent" /\ cur.state = "reload_intent" => flag
  PROVE  /\ JournalIsLegal' /\ record' # NoRecord
         /\ \A r \in AnyRecord : Held(r, record) => Held(r, record')
         /\ pc' # "reload" => ReloadIsRemembered'
         /\ cur = record /\ record.state \in States \ TerminalStates
<1>1. LegalRecord(record) /\ record \in AnyRecord /\ cur \in AnyRecord
  BY DEF Ledger, JournalIsLegal, CurIsHeld, TypeOK
<1>2. /\ CanRecordTransition(record, Successor(record, state, flag))
      /\ cur.version = record.version
  BY DEF Accepts
<1>3. LegalRecord(record') /\ record.state \in States \ TerminalStates
  BY <1>1, <1>2, LegalSuccessor
<1>4. JournalIsLegal' /\ record' # NoRecord
  BY <1>3 DEF JournalIsLegal, LegalRecord, Record, NoRecord, States
<1>5. \A r \in AnyRecord : Held(r, record) => Held(r, record')
  BY <1>1, <1>2, HeldOn
<1>6. cur = record
  BY <1>1, <1>2 DEF Ledger, CurIsHeld, Held, AnyRecord
<1>7. ASSUME pc' # "reload", reloadStarted PROVE ReloadIsRemembered'
  <2>1. /\ record'.state = state /\ record'.reloadTarget = record.reloadTarget
        /\ record'.rollbackReloadRequired = (record.rollbackReloadRequired \/ flag)
    BY DEF Successor
  <2>2. /\ record.reloadTarget # "none"
        /\ record.state \in RollbackStates \union {"reload_intent", "reload_succeeded"}
        /\ record.state \in RollbackStates => record.rollbackReloadRequired
    BY <1>3, <1>7 DEF Ledger, ReloadIsRemembered
  <2>3. state \in Onward[record.state] \union {"manual_recovery_required"}
    BY <1>2, <1>3, <2>1 DEF CanRecordTransition, LegalTransitions
  <2>4. /\ state \in RollbackStates \union TerminalStates \union {"reload_succeeded"}
        /\ state \in RollbackStates => record.state \in RollbackStates \/ state = "rollback_intent"
    BY <1>3, <2>2, <2>3 DEF Onward, RollbackStates, TerminalStates, States
  <2>5. state = "rollback_intent" => record'.rollbackReloadRequired
    <3>1. CASE record.state = "reload_intent"
      BY <1>6, <1>7, <2>1, <3>1 DEF TypeOK
    <3>2. CASE record.state = "reload_succeeded"
      BY <1>2, <2>1, <2>2, <3>2 DEF CanRecordTransition, RollbackFlagIsLegal
    <3> QED
      BY <2>1, <2>2, <3>1, <3>2
  <2> QED
    BY <1>7, <2>1, <2>2, <2>4, <2>5 DEF ReloadIsRemembered
<1>8. ASSUME pc' # "reload", ~reloadStarted PROVE ReloadIsRemembered'
  BY <1>8 DEF ReloadIsRemembered
<1> QED
  BY <1>3, <1>4, <1>5, <1>6, <1>7, <1>8

\* It succeeds, and the block goes on from the new record, or the call returns.
LEMMA LedgerSucceeds ==
  ASSUME TypeOK, Ledger, pc \notin BeforeIntent,
         NEW state \in States, NEW flag \in BOOLEAN, Transitions(state, flag),
         reloadStarted /\ state = "rollback_intent" /\ cur.state = "reload_intent" => flag,
         \/ Leave
         \/ /\ pc' \notin BeforeIntent /\ cur' = record'
            /\ \/ frames' \in {frames, <<cur>> \o frames}
               \/ frames # <<>> /\ frames' = Tail(frames)
            /\ DueAt(pc', Successor(cur, state, flag))
            /\ pc' = "reload" => cur.state = "post_validation_succeeded"
  PROVE  Ledger'
<1>1. /\ record' = Successor(record, state, flag) /\ reloadStarted' = reloadStarted
      /\ Accepts(state, flag)
  BY DEF Transitions, haVars
<1>2. /\ JournalIsLegal' /\ record' # NoRecord
      /\ \A r \in AnyRecord : Held(r, record) => Held(r, record')
      /\ pc' # "reload" => ReloadIsRemembered'
      /\ cur = record
  BY <1>1, LedgerRecords
<1>3. CASE Leave
  BY <1>2, <1>3 DEF Leave, Ledger, IntentIsFirst, CurIsHeld, FramesAreHeld, CurIsLatest,
     DueAt, BeforeIntent, Unsynced
<1>4. CASE /\ pc' \notin BeforeIntent /\ cur' = record'
           /\ \/ frames' \in {frames, <<cur>> \o frames}
              \/ frames # <<>> /\ frames' = Tail(frames)
           /\ DueAt(pc', Successor(cur, state, flag))
           /\ pc' = "reload" => cur.state = "post_validation_succeeded"
  <2>1. Held(cur, record) /\ FramesAreHeld
    BY DEF Ledger, CurIsHeld
  <2>2. \A i \in 1..Len(frames') : frames'[i] \in AnyRecord /\ Held(frames'[i], record)
    BY <1>4, <2>1, HeldFrames
  <2>3. FramesAreHeld'
    BY <1>2, <2>2 DEF FramesAreHeld
  <2>4. ReloadIsRemembered'
    <3>1. ASSUME pc' = "reload" PROVE ~reloadStarted
      BY <1>2, <1>4, <3>1 DEF Ledger, ReloadIsRemembered, RollbackStates, TerminalStates
    <3> QED  BY <1>1, <1>2, <3>1 DEF ReloadIsRemembered
  <2>5. DueAt(pc', cur')
    BY <1>1, <1>2, <1>4
  <2>6. IntentIsFirst' /\ CurIsHeld' /\ CurIsLatest'
    BY <1>2, <1>4 DEF IntentIsFirst, CurIsHeld, CurIsLatest, Held
  <2> QED
    BY <1>2, <2>3, <2>4, <2>5, <2>6 DEF Ledger
<1> QED
  BY <1>3, <1>4

\* It fails, before the link or after it, and the error is caught somewhere.
LEMMA LedgerFails ==
  ASSUME TypeOK, Ledger, pc \notin BeforeIntent,
         NEW state \in States, NEW flag \in BOOLEAN, TransitionFails(state, flag),
         reloadStarted /\ state = "rollback_intent" /\ cur.state = "reload_intent" => flag,
         \/ Leave \/ Catch \/ Propagate
         \/ Goto("rollback_intent") /\ cur.state \in ForwardStates
  PROVE  Ledger'
<1>1. CASE record' = record
  <2>1. reloadStarted' = reloadStarted
    BY DEF TransitionFails, haVars
  <2>2. Catch => DueAt(pc', cur) /\ pc' \in Unsynced \ BeforeIntent
    BY DEF Catch, Goto, DueAt, Unsynced, BeforeIntent
  <2>3. Goto("rollback_intent") /\ cur.state \in ForwardStates =>
          DueAt(pc', cur) /\ pc' \in Unsynced \ BeforeIntent
    BY DEF Goto, DueAt, Unsynced, BeforeIntent
  <2> QED  BY <1>1, <2>1, <2>2, <2>3, LedgerMoves DEF Catch, Goto, Unsynced
<1>2. CASE Accepts(state, flag) /\ record' = Successor(record, state, flag)
  <2>1. reloadStarted' = reloadStarted
    BY DEF TransitionFails, haVars
  <2>2. /\ JournalIsLegal' /\ record' # NoRecord
        /\ \A r \in AnyRecord : Held(r, record) => Held(r, record')
        /\ pc' # "reload" => ReloadIsRemembered'
    BY <1>2, <2>1, LedgerRecords
  <2>3. pc' # "reload" /\ ReloadIsRemembered'
    BY <2>2 DEF Leave, Catch, Propagate, Goto
  <2>4. \A i \in 1..Len(frames') : frames'[i] \in AnyRecord /\ Held(frames'[i], record)
    BY HeldFrames DEF Ledger, Leave, Catch, Propagate, Goto, CurIsHeld
  <2>5. FramesAreHeld'
    BY <2>2, <2>4 DEF FramesAreHeld
  <2>6. pc' = "idle" \/ (cur' \in AnyRecord /\ Held(cur', record))
    BY DEF Ledger, CurIsHeld, FramesAreHeld, TypeOK, Leave, Catch, Propagate, Goto
  <2>7. \/ pc' \in {"idle", "manual"}
        \/ pc' = "rollback_intent" /\ cur' = cur /\ cur.state \in ForwardStates
    BY DEF Leave, Catch, Propagate, Goto
  <2>8. DueAt(pc', cur')
    BY <2>7 DEF DueAt
  <2>9. IntentIsFirst' /\ CurIsHeld' /\ CurIsLatest'
    BY <2>2, <2>6, <2>7 DEF IntentIsFirst, CurIsHeld, CurIsLatest, BeforeIntent, Unsynced
  <2> QED
    BY <2>2, <2>3, <2>5, <2>8, <2>9 DEF Ledger
<1> QED
  BY <1>1, <1>2 DEF TransitionFails

\* A port answers.
LEMMA LedgerAnswers ==
  ASSUME TypeOK, Ledger, NEW step, NEW next, Answers(step, next),
         step \notin Unsynced, next \notin BeforeIntent \union {"reload"},
         DueAt(next, cur)
  PROVE  Ledger'
  BY LedgerMoves DEF Answers, Goto, coreVars, haVars, Unsynced, BeforeIntent

-----------------------------------------------------------------------------
(* The parts of the program *)

LEMMA ApplyLedger == ASSUME TypeOK, Ledger, Apply PROVE Ledger'
<1> USE DEF BeforeIntent, Unsynced
<1>1. CASE ConsumeApplyGrant \/ CreateCheckpoint
  <2>1. /\ UNCHANGED <<record, reloadStarted>> /\ pc \in {"consume", "checkpoint"}
        /\ Leave \/ (UNCHANGED <<cur, frames>> /\ pc' \in {"checkpoint", "intent"})
    BY <1>1 DEF ConsumeApplyGrant, CreateCheckpoint, Goto, haVars, coreVars
  <2>2. CASE Leave
    BY <2>1, <2>2, LedgerMoves
  <2>3. CASE UNCHANGED <<cur, frames>> /\ pc' \in {"checkpoint", "intent"}
    BY <2>1, <2>3 DEF Ledger, JournalIsLegal, IntentIsFirst, CurIsHeld, FramesAreHeld,
       CurIsLatest, DueAt, ReloadIsRemembered
  <2> QED  BY <2>1, <2>2, <2>3
<1>3. CASE CreateIntent
  <2>1. pc = "intent" /\ record = NoRecord /\ reloadStarted' = reloadStarted
    BY <1>3 DEF CreateIntent, haVars, Ledger, IntentIsFirst
  <2>2. ~reloadStarted
    BY <2>1 DEF Ledger, ReloadIsRemembered, NoRecord
  <2>3. CASE record' = record /\ Leave
    BY <2>1, <2>3, LedgerMoves
  <2>4. ASSUME NEW target \in Targets, record' = IntentRecord(target),
               \/ Leave
               \/ cur' = record' /\ pc' = "apply_replace" /\ frames' = <<>>
        PROVE  Ledger'
    <3>1. LegalRecord(record') /\ record'.state = "intent_prepared" /\ record' # NoRecord
      BY <2>4, LegalIntent DEF IntentRecord, NoRecord
    <3>2. JournalIsLegal' /\ ReloadIsRemembered'
      BY <2>1, <2>2, <3>1 DEF JournalIsLegal, ReloadIsRemembered
    <3> QED
      BY <2>4, <3>1, <3>2 DEF Ledger, IntentIsFirst, CurIsHeld, FramesAreHeld,
         CurIsLatest, DueAt, Held, Leave
  <2> QED  BY <1>3, <2>3, <2>4 DEF CreateIntent
<1>4. CASE ApplyCandidate \/ ApplyReturns \/ ClassifyApply
  <2>1. /\ UNCHANGED <<record, reloadStarted>>
        /\ pc \in {"apply_replace", "apply_await", "apply_classify"}
        /\ \/ Leave
           \/ /\ UNCHANGED <<cur, frames>>
              /\ pc' \in {"apply_await", "apply_commit", "apply_classify",
                          "unknown_rollback_intent", "manual"}
    BY <1>4 DEF ApplyCandidate, ApplyReturns, ClassifyApply, Goto, haVars, coreVars
  <2>2. cur.state = "intent_prepared"
    BY <2>1 DEF Ledger, DueAt
  <2>3. pc' # "idle" => DueAt(pc', cur)
    BY <2>1, <2>2 DEF DueAt, Leave
  <2> QED  BY <2>1, <2>3, LedgerMoves DEF Leave
<1>7. CASE CommitApply
  <2>1. CASE Settle("apply_commit", "apply_committed", "post_validate")
    <3>1. DueAt("post_validate", Successor(cur, "apply_committed", FALSE))
      BY DEF DueAt, Successor
    <3> QED  BY <2>1, <3>1, LedgerSucceeds DEF Settle, Carry, States
  <2> QED  BY <1>7, <2>1, LedgerFails DEF CommitApply, States
<1>8. CASE UnknownRollbackIntent
  <2>0. pc = "unknown_rollback_intent" /\ cur.state = "intent_prepared"
    BY <1>8 DEF UnknownRollbackIntent, Settle, Ledger, DueAt
  <2>1. CASE Settle("unknown_rollback_intent", "rollback_intent", "complete_commit")
    <3>1. DueAt("complete_commit", Successor(cur, "rollback_intent", FALSE))
      BY DEF DueAt, Successor
    <3> QED  BY <2>0, <2>1, <3>1, LedgerSucceeds DEF Settle, Carry, States
  <2> QED  BY <1>8, <2>0, <2>1, LedgerFails DEF UnknownRollbackIntent, States
<1> QED
  BY <1>1, <1>3, <1>4, <1>7, <1>8 DEF Apply

\* The reload flag of a catch block, against a reload that was never dispatched.
LEMMA RollbackIntentAfterLedger ==
  ASSUME TypeOK, Ledger, NEW b \in BOOLEAN, RollbackIntentAfter(b),
         b /\ cur.state = "reload_intent" => ~reloadStarted,
         pc \notin BeforeIntent
  PROVE  Ledger'
<1> DEFINE flag == ShouldRequireRollbackReload(cur, b)
<1>0. cur \in AnyRecord
  BY DEF TypeOK
<1>1. flag \in BOOLEAN /\ "rollback_intent" \in States
  BY <1>0, FlagType DEF States
<1>2. ASSUME Accepts("rollback_intent", flag), reloadStarted, cur.state = "reload_intent"
      PROVE  flag
  <2>1. cur = record
    BY <1>2 DEF Ledger, CurIsHeld, Held, Accepts, TypeOK, AnyRecord
  <2>2. cur.reloadTarget # "none" /\ ~b
    BY <1>2, <2>1 DEF Ledger, ReloadIsRemembered
  <2> QED  BY <1>2, <2>2 DEF ShouldRequireRollbackReload
<1>3. CASE Transitions("rollback_intent", flag) /\ Carry("restore")
  <2>1. DueAt("restore", Successor(cur, "rollback_intent", flag))
    BY DEF DueAt, Successor
  <2>2. Accepts("rollback_intent", flag)
    BY <1>3 DEF Transitions
  <2> HIDE DEF flag
  <2> QED  BY <1>1, <1>2, <1>3, <2>1, <2>2, LedgerSucceeds DEF Carry, BeforeIntent
<1>4. CASE TransitionFails("rollback_intent", flag) /\ Catch
  <2> HIDE DEF flag
  <2>1. CASE Accepts("rollback_intent", flag)
    BY <1>1, <1>2, <1>4, <2>1, LedgerFails
  <2>2. CASE ~Accepts("rollback_intent", flag)
    <3>1. UNCHANGED <<record, reloadStarted>>
      BY <1>4, <2>2 DEF TransitionFails, haVars
    <3>2. DueAt(pc', cur)
      BY <1>4 DEF Catch, Goto, DueAt
    <3> QED  BY <1>4, <3>1, <3>2, LedgerMoves DEF Catch, Goto, BeforeIntent, Unsynced
  <2> QED  BY <2>1, <2>2
<1> QED
  BY <1>3, <1>4 DEF RollbackIntentAfter

LEMMA PostCommitLedger == ASSUME TypeOK, Ledger, FinishPostCommit PROVE Ledger'
<1> USE DEF BeforeIntent, Unsynced
<1>0. /\ pc \in PostCommitSteps /\ cur.state \in ForwardStates
      /\ DueAt("rollback_intent", cur)
  BY DEF FinishPostCommit, PostValidate, ReloadIntent, ReloadNotDispatched, ReloadDomain,
     ReloadSettle, Verify, VerifyLoaded, VerifyFinal, VerifySettle, Settle, FailTo, Answers,
     Ledger, DueAt, PostCommitSteps, ForwardStates
<1>1. CASE PostValidate
  <2> DEFINE next == IF cur.reloadTarget = "none" THEN "reload_settle" ELSE "reload_intent"
  <2>1. CASE Settle("post_validate", "post_validation_succeeded", next)
    <3>1. DueAt(next, Successor(cur, "post_validation_succeeded", FALSE))
      BY DEF DueAt, Successor
    <3>2. next \notin {"reload", "idle", "consume", "checkpoint", "intent"}
      OBVIOUS
    <3> HIDE DEF next
    <3> QED  BY <2>1, <3>1, <3>2, LedgerSucceeds DEF Settle, Carry, States
  <2> QED  BY <1>0, <1>1, <2>1, LedgerFails, LedgerAnswers DEF PostValidate, FailTo, States
<1>2. CASE ReloadIntent
  <2>1. CASE Settle("reload_intent", "reload_intent", "reload")
    <3>1. /\ DueAt("reload", Successor(cur, "reload_intent", FALSE))
          /\ cur.state = "post_validation_succeeded"
      BY <2>1 DEF DueAt, Successor, Settle, Ledger
    <3> QED  BY <2>1, <3>1, LedgerSucceeds DEF Settle, Carry, States
  <2> QED  BY <1>0, <1>2, <2>1, LedgerFails DEF ReloadIntent, FailTo, States
<1>3. CASE ReloadNotDispatched
  <2>1. pc = "reload" /\ ~reloadStarted
    BY <1>3 DEF ReloadNotDispatched, Ledger, ReloadIsRemembered
  <2> QED  BY <1>3, <2>1, RollbackIntentAfterLedger DEF ReloadNotDispatched
<1>4. CASE ReloadDomain
  <2>1. /\ pc = "reload" /\ pc' \in {"reload_settle", "rollback_intent"}
        /\ UNCHANGED <<cur, frames, record>>
    BY <1>4 DEF ReloadDomain, Goto
  <2>2. cur = record /\ record.state = "reload_intent" /\ LegalRecord(record)
    BY <2>1 DEF Ledger, CurIsLatest, CurIsHeld, DueAt, JournalIsLegal
  <2>3. ReloadIsRemembered'
    BY <2>1, <2>2 DEF ReloadIsRemembered, LegalRecord, RecordReloadContextIsLegal, RollbackStates
  <2>4. DueAt(pc', cur)
    BY <2>1, <2>2 DEF DueAt, ForwardStates
  <2> QED
    BY <2>1, <2>2, <2>3, <2>4 DEF Ledger, JournalIsLegal, IntentIsFirst, CurIsHeld,
       FramesAreHeld, CurIsLatest
<1>5. CASE ReloadSettle
  <2>1. CASE Settle("reload_settle", "reload_succeeded", "verify")
    <3>1. DueAt("verify", Successor(cur, "reload_succeeded", FALSE))
      BY DEF DueAt, Successor
    <3> QED  BY <2>1, <3>1, LedgerSucceeds DEF Settle, Carry, States
  <2> QED  BY <1>0, <1>5, <2>1, LedgerFails DEF ReloadSettle, FailTo, States
<1>6. CASE Verify \/ VerifyLoaded \/ VerifyFinal
  <2>1. /\ UNCHANGED <<record, reloadStarted, cur, frames>>
        /\ pc \in {"verify", "verify_loaded", "verify_final"}
        /\ pc' \in {"verify_loaded", "verify_final", "verify_settle", "rollback_intent"}
    BY <1>6 DEF Verify, VerifyLoaded, VerifyFinal, ReadsBefore, Answers, Goto, haVars, coreVars
  <2>2. DueAt(pc', cur)
    BY <2>1, <1>0 DEF Ledger, DueAt
  <2> QED  BY <2>1, <2>2, LedgerMoves
<1>9. CASE VerifySettle
  <2>1. CASE Transitions("verification_succeeded", FALSE) /\ Leave
    BY <1>9, <2>1, LedgerSucceeds DEF VerifySettle, FailTo, States
  <2> QED  BY <1>0, <1>9, <2>1, LedgerFails DEF VerifySettle, FailTo, States
<1> QED
  BY <1>1, <1>2, <1>3, <1>4, <1>5, <1>6, <1>9 DEF FinishPostCommit

LEMMA RollbackLedger == ASSUME TypeOK, Ledger, RollbackAfterCommit PROVE Ledger'
<1> USE DEF BeforeIntent, Unsynced
<1>1. CASE RollbackIntent
  BY <1>1, RollbackIntentAfterLedger DEF RollbackIntent
<1>2. CASE RestoreCheckpoint \/ RestoreReturns \/ ClassifyRestore
  <2>1. /\ UNCHANGED <<record, reloadStarted>> /\ cur' = cur
        /\ pc \in {"restore", "restore_await", "restore_classify"}
        /\ pc' \in {"restore_await", "restore_classify", "restore_commit", "manual"}
        /\ frames' \in {frames, <<cur>> \o frames}
    BY <1>2 DEF RestoreCheckpoint, RestoreReturns, ClassifyRestore, InnerManual, Catch, Goto,
       haVars, coreVars
  <2>2. DueAt(pc', cur)
    BY <2>1 DEF Ledger, DueAt
  <2> QED  BY <2>1, <2>2, LedgerMoves
<1>5. CASE RestoreCommit
  <2>1. CASE /\ Transitions("rollback_committed", FALSE)
             /\ pc' = "rollback_validate" /\ cur' = record' /\ frames' = <<cur>> \o frames
    <3>1. DueAt("rollback_validate", Successor(cur, "rollback_committed", FALSE))
      BY DEF DueAt, Successor
    <3> QED  BY <1>5, <2>1, <3>1, LedgerSucceeds DEF RestoreCommit, States
  <2> QED  BY <1>5, <2>1, LedgerFails DEF RestoreCommit, States
<1> QED
  BY <1>1, <1>2, <1>5 DEF RollbackAfterCommit

\* Rollback validation picks up a restored record where that record stands.
LEMMA ValidationStepDue ==
  ASSUME NEW r, LegalRecord(r), r.state \in RestoredStates
  PROVE  /\ DueAt(ValidationStep(r), r)
         /\ ValidationStep(r) \notin Unsynced \union {"reload"}
<1>1. CASE r.state = "rollback_committed"
  BY <1>1 DEF ValidationStep, DueAt, Unsynced, BeforeIntent
<1>2. CASE r.state = "rollback_validation_succeeded" /\ r.rollbackReloadRequired
  <2>1. ValidationStep(r) = "rollback_reload_intent"
    BY <1>2 DEF ValidationStep, LegalRecord, RecordReloadContextIsLegal
  <2> QED  BY <1>2, <2>1 DEF DueAt, Unsynced, BeforeIntent
<1>3. CASE /\ r.state # "rollback_committed"
           /\ r.state = "rollback_validation_succeeded" => ~r.rollbackReloadRequired
  <2>1. ValidationStep(r) = "rollback_verify"
    BY <1>3 DEF ValidationStep
  <2>2. VerificationStateIsLegal(r, "checkpoint")
    BY <1>3 DEF VerificationStateIsLegal, LegalRecord, RecordReloadContextIsLegal, RestoredStates
  <2> QED  BY <2>1, <2>2 DEF DueAt, Unsynced, BeforeIntent
<1> QED
  BY <1>1, <1>2, <1>3

LEMMA CompleteLedger ==
  ASSUME TypeOK, Ledger, ReloadHasCaller, CompleteRollback PROVE Ledger'
<1> USE DEF BeforeIntent, Unsynced
<1>0. DueAt("manual", cur) /\ cur \in AnyRecord
  BY DEF DueAt, TypeOK
<1>1. CASE CompleteIntent
  <2> DEFINE flag == ShouldRequireRollbackReload(cur, FALSE)
  <2>1. "rollback_intent" \in States /\ flag \in BOOLEAN /\ pc = "complete_intent"
    BY <1>0, <1>1, FlagType DEF States, CompleteIntent
  <2>2. cur = record
    BY <2>1 DEF Ledger, CurIsLatest
  <2>3. reloadStarted /\ cur.state = "reload_intent" => flag
    BY <2>2 DEF Ledger, ReloadIsRemembered, ShouldRequireRollbackReload
  <2>4. DueAt("complete_commit", Successor(cur, "rollback_intent", flag))
    BY DEF DueAt, Successor
  <2>5. \/ Transitions("rollback_intent", flag) /\ Carry("complete_commit")
        \/ TransitionFails("rollback_intent", flag) /\ Catch
    BY <1>1 DEF CompleteIntent
  <2> HIDE DEF flag
  <2> QED  BY <2>1, <2>3, <2>4, <2>5, LedgerSucceeds, LedgerFails DEF Carry
<1>2. CASE CompleteCommit
  <2>1. CASE Settle("complete_commit", "rollback_committed", "complete_load")
    <3>1. DueAt("complete_load", Successor(cur, "rollback_committed", FALSE))
      BY DEF DueAt, Successor, RestoredStates
    <3> QED  BY <2>1, <3>1, LedgerSucceeds DEF Settle, Carry, States
  <2> QED  BY <1>2, <2>1, LedgerFails DEF CompleteCommit, CatchIn, States
<1>3. CASE CompleteLoad
  <2>1. /\ UNCHANGED <<record, reloadStarted>> /\ cur' = cur /\ pc = "complete_load"
        /\ \/ pc' = ValidationStep(cur) /\ frames' = <<cur>> \o frames
           \/ pc' = "manual" /\ frames' = frames
    BY <1>3 DEF CompleteLoad, Catch, Goto, coreVars
  <2>2. LegalRecord(cur) /\ cur.state \in RestoredStates
    BY <2>1 DEF Ledger, CurIsLatest, CurIsHeld, JournalIsLegal, DueAt
  <2> QED  BY <1>0, <2>1, <2>2, ValidationStepDue, LedgerMoves
<1>4. CASE RollbackValidate
  <2> DEFINE next == Successor(cur, "rollback_validation_succeeded", FALSE)
  <2>1. CASE Settle("rollback_validate", "rollback_validation_succeeded", ValidationStep(next))
    <3>1. /\ CanRecordTransition(record, Successor(record, "rollback_validation_succeeded", FALSE))
          /\ cur = record /\ record # NoRecord
      BY <2>1 DEF Settle, Transitions, Accepts, Ledger, CurIsLatest, CurIsHeld
    <3>2. LegalRecord(next)
      BY <3>1, LegalSuccessor DEF Ledger, JournalIsLegal, States
    <3>3. next.state \in RestoredStates
      BY DEF Successor, RestoredStates
    <3>4. DueAt(ValidationStep(next), next) /\ ValidationStep(next) \notin Unsynced \union {"reload"}
      BY <3>2, <3>3, ValidationStepDue
    <3> QED  BY <2>1, <3>4, LedgerSucceeds DEF Settle, Carry, States
  <2> QED  BY <1>0, <1>4, <2>1, LedgerFails, LedgerAnswers DEF RollbackValidate, CatchIn, States
<1>5. CASE RollbackReloadIntent
  <2>1. CASE /\ Transitions("rollback_reload_intent", FALSE)
             /\ pc' = "rollback_reload" /\ cur' = record' /\ frames' = <<cur>> \o frames
    <3>1. DueAt("rollback_reload", Successor(cur, "rollback_reload_intent", FALSE))
      BY DEF DueAt, Successor
    <3> QED  BY <1>5, <2>1, <3>1, LedgerSucceeds DEF RollbackReloadIntent, CatchIn, States
  <2> QED  BY <1>5, <2>1, LedgerFails DEF RollbackReloadIntent, CatchIn, States
<1>6. CASE RollbackReload
  <2>1. /\ pc = "rollback_reload" /\ pc' \in {"rollback_reload_settle", "manual"}
        /\ UNCHANGED <<cur, frames, record, reloadStarted>>
    BY <1>6 DEF RollbackReload, Catch, Goto
  <2>2. DueAt(pc', cur)
    BY <2>1 DEF Ledger, DueAt
  <2> QED  BY <2>1, <2>2, LedgerMoves
<1>7. CASE RollbackReloadSettle
  <2>1. CASE /\ Transitions("rollback_reload_succeeded", FALSE)
             /\ pc' = "rollback_verify" /\ cur' = record' /\ frames' = Tail(frames)
    <3>1. VerificationStateIsLegal(Successor(cur, "rollback_reload_succeeded", FALSE), "checkpoint")
      <4>1. /\ LegalRecord(cur) /\ cur.state = "rollback_reload_intent"
        BY <1>7 DEF RollbackReloadSettle, Ledger, CurIsLatest, CurIsHeld, JournalIsLegal, DueAt
      <4> QED  BY <4>1 DEF LegalRecord, RecordReloadContextIsLegal, Successor,
                 VerificationStateIsLegal
    <3>2. DueAt("rollback_verify", Successor(cur, "rollback_reload_succeeded", FALSE))
      BY <3>1 DEF DueAt
    <3>3. frames # <<>>
      BY <1>7 DEF RollbackReloadSettle, ReloadHasCaller
    <3> QED  BY <1>7, <2>1, <3>2, <3>3, LedgerSucceeds DEF RollbackReloadSettle, States
  <2> QED  BY <1>7, <2>1, LedgerFails DEF RollbackReloadSettle, States
<1>8. CASE RollbackVerify \/ RollbackVerifyLoaded \/ RollbackVerifyFinal
  <2>1. /\ UNCHANGED <<record, reloadStarted, cur, frames>>
        /\ pc \in {"rollback_verify", "rollback_verify_loaded", "rollback_verify_final"}
        /\ pc' \in {"rollback_verify_loaded", "rollback_verify_final",
                    "rollback_verify_settle", "manual"}
    BY <1>8 DEF RollbackVerify, RollbackVerifyLoaded, RollbackVerifyFinal, ReadsBefore,
       Answers, Goto, haVars, coreVars
  <2>2. DueAt(pc', cur)
    BY <2>1 DEF Ledger, DueAt
  <2> QED  BY <2>1, <2>2, LedgerMoves
<1>11. CASE RollbackVerifySettle
  <2>1. CASE Transitions("rollback_verification_succeeded", FALSE) /\ Leave
    BY <1>11, <2>1, LedgerSucceeds DEF RollbackVerifySettle, CatchIn, States
  <2> QED  BY <1>11, <2>1, LedgerFails DEF RollbackVerifySettle, CatchIn, States
<1> QED
  BY <1>1, <1>2, <1>3, <1>4, <1>5, <1>6, <1>7, <1>8, <1>11 DEF CompleteRollback

LEMMA ManualLedger == ASSUME TypeOK, Ledger, Manual PROVE Ledger'
<1> USE DEF BeforeIntent, Unsynced
<1>0. pc = "manual"
  BY DEF Manual, ManualReturnsTerminal, ManualSettles, ManualReconciles, ManualRethrows
<1>1. CASE ManualReturnsTerminal
  BY <1>1, LedgerMoves DEF ManualReturnsTerminal, coreVars
<1>2. CASE ManualSettles
  BY <1>0, <1>2, LedgerSucceeds DEF ManualSettles, States
<1>3. CASE ManualReconciles
  <2>1. pc' = "manual" /\ cur' = record /\ UNCHANGED <<frames, record, reloadStarted>>
    BY <1>3 DEF ManualReconciles, coreVars
  <2> QED
    BY <1>0, <2>1 DEF Ledger, JournalIsLegal, IntentIsFirst, CurIsHeld, FramesAreHeld,
       CurIsLatest, DueAt, ReloadIsRemembered, Held
<1>4. CASE ManualRethrows
  <2>1. CASE TransitionFails("manual_recovery_required", FALSE)
    BY <1>0, <1>4, <2>1, LedgerFails DEF ManualRethrows, States
  <2>2. CASE UNCHANGED <<record, grant, haVars, quiet, applyVars>>
    <3>1. Propagate /\ UNCHANGED <<record, reloadStarted>>
      BY <1>4, <2>2 DEF ManualRethrows, haVars
    <3> QED  BY <1>0, <3>1, LedgerMoves
  <2> QED  BY <1>4, <2>1, <2>2 DEF ManualRethrows
<1> QED
  BY <1>1, <1>2, <1>3, <1>4 DEF Manual

\* Recovery routes a record to a step that record is due at.
LEMMA RecoverLedger == ASSUME TypeOK, Ledger, RecoverOne PROVE Ledger'
<1> USE DEF BeforeIntent, Unsynced
<1>1. /\ pc = "recover_read" /\ UNCHANGED <<record, reloadStarted>>
      /\ \/ Leave
         \/ /\ cur.state \notin TerminalStates
            /\ pc' = RecoverOneStep(cur) /\ UNCHANGED <<cur, frames>>
  BY DEF RecoverOne, Goto, haVars
<1>2. CASE Leave
  BY <1>1, <1>2, LedgerMoves
<1>3. CASE /\ cur.state \notin TerminalStates
           /\ pc' = RecoverOneStep(cur) /\ UNCHANGED <<cur, frames>>
  <2>1. cur = record /\ record # NoRecord
    BY <1>1 DEF Ledger, CurIsLatest, CurIsHeld
  <2>2. LegalRecord(cur)
    BY <2>1 DEF Ledger, JournalIsLegal
  <2>3. cur.state \in States \ TerminalStates
    BY <1>3, <2>2 DEF LegalRecord, Record
  <2>4. pc' \in {"manual", "complete_load", "complete_commit", "complete_intent",
                 "restore", "rollback_intent"}
    BY <1>3 DEF RecoverOneStep
  <2>5. DueAt(pc', cur)
    <3>1. CASE NeedsManual(cur)
      BY <1>3, <3>1 DEF RecoverOneStep, DueAt
    <3>2. CASE cur.state \in RestoredStates /\ ~NeedsManual(cur)
      <4>1. pc' = "complete_load"
        BY <1>3, <3>2 DEF RecoverOneStep, NeedsManual
      <4> QED  BY <3>2, <4>1 DEF DueAt
    <3>3. CASE cur.state = "rollback_intent" /\ ~NeedsManual(cur)
      <4>1. pc' \in {"complete_commit", "restore"}
        BY <1>3, <3>3 DEF RecoverOneStep, RestoredStates
      <4> QED  BY <3>3, <4>1 DEF DueAt
    <3>4. CASE /\ cur.state \notin RestoredStates \union {"rollback_intent"}
               /\ ~NeedsManual(cur)
      <4>1. pc' \in {"complete_intent", "rollback_intent"}
        BY <1>3, <3>4 DEF RecoverOneStep
      <4>2. cur.state \in ForwardStates
        BY <2>3, <3>4 DEF States, TerminalStates, RestoredStates, ForwardStates, NeedsManual
      <4> QED  BY <4>1, <4>2 DEF DueAt
    <3> QED  BY <3>1, <3>2, <3>3, <3>4
  <2> QED  BY <1>1, <1>3, <2>4, <2>5, LedgerMoves
<1> QED
  BY <1>1, <1>2, <1>3

LEMMA EnvironmentLedger ==
  ASSUME TypeOK, Ledger,
         \/ Approve \/ StartApply \/ StartRecover \/ HelperSteps \/ OrphanExits
         \/ Crash \/ OutsideEdit \/ HomeAssistantReloads
  PROVE  Ledger'
<1> USE DEF BeforeIntent, Unsynced
<1>1. CASE Approve \/ HelperSteps \/ OrphanExits \/ OutsideEdit \/ HomeAssistantReloads
  <2>1. UNCHANGED <<pc, cur, frames, record, reloadStarted>>
    BY <1>1 DEF Approve, HelperSteps, OrphanExits, OutsideEdit, HomeAssistantReloads,
       procVars, haVars, coreVars
  <2> QED
    BY <2>1 DEF Ledger, JournalIsLegal, IntentIsFirst, CurIsHeld, FramesAreHeld,
       CurIsLatest, ReloadIsRemembered
<1>2. CASE StartApply
  <2>1. /\ UNCHANGED <<cur, frames, record, reloadStarted>> /\ record = NoRecord
        /\ pc' = "consume"
    BY <1>2 DEF StartApply, Goto, coreVars, haVars
  <2> QED
    BY <2>1 DEF Ledger, JournalIsLegal, IntentIsFirst, CurIsHeld, FramesAreHeld,
       CurIsLatest, DueAt, ReloadIsRemembered
<1>3. CASE StartRecover
  <2>1. /\ UNCHANGED <<record, reloadStarted>> /\ record # NoRecord
        /\ pc' = "recover_read" /\ cur' = record /\ frames' = <<>>
    BY <1>3 DEF StartRecover, coreVars, haVars
  <2> QED
    BY <2>1 DEF Ledger, JournalIsLegal, IntentIsFirst, CurIsHeld, FramesAreHeld,
       CurIsLatest, DueAt, ReloadIsRemembered, Held
<1>4. CASE Crash
  BY <1>4, LedgerMoves DEF Crash, haVars
<1> QED
  BY <1>1, <1>2, <1>3, <1>4

LEMMA LedgerStep ==
  ASSUME TypeOK, Ledger, ReloadHasCaller, [Next]_vars PROVE Ledger'
<1>1. CASE UNCHANGED vars
  BY <1>1 DEF vars, Ledger, JournalIsLegal, IntentIsFirst, CurIsHeld, FramesAreHeld,
     CurIsLatest, ReloadIsRemembered
<1>2. CASE Next
  BY <1>2, ApplyLedger, PostCommitLedger, RollbackLedger, CompleteLedger, ManualLedger,
     RecoverLedger, EnvironmentLedger DEF Next, Coordinate
<1> QED
  BY <1>1, <1>2

LEMMA LedgerInit == Init => Ledger
  BY DEF Init, Ledger, JournalIsLegal, IntentIsFirst, CurIsHeld, FramesAreHeld,
     CurIsLatest, DueAt, ReloadIsRemembered, BeforeIntent, Unsynced

LEMMA LedgerCorrect == Spec => [](TypeOK /\ ReloadHasCaller /\ Ledger)
<1>1. TypeOK /\ ReloadHasCaller /\ Ledger /\ [Next]_vars
        => (TypeOK /\ ReloadHasCaller /\ Ledger)'
  BY TypeStep, ReloadHasCallerStep, LedgerStep
<1> QED
  BY TypeInit, LedgerInit, <1>1, PTL DEF Spec

-----------------------------------------------------------------------------
(* What the ledger says of the requests, the verifications and the flag *)

\* From the journal's own version, a step's request is legal.
LEMMA DueIsLegal ==
  ASSUME NEW step \in Steps, NEW r, LegalRecord(r), DueAt(step, r),
         Asks[step] # "none", r.state \notin TerminalStates, NEW flag \in BOOLEAN,
         flag = (/\ step \in {"rollback_intent", "complete_intent"}
                 /\ ShouldRequireRollbackReload(r, FALSE))
  PROVE  CanRecordTransition(r, Successor(r, Asks[step], flag))
<1> DEFINE s == Successor(r, Asks[step], flag)
<1>1. /\ s.state = Asks[step] /\ s.priorState = r.state
      /\ s.reloadTarget = r.reloadTarget
      /\ s.rollbackReloadRequired = (r.rollbackReloadRequired \/ flag)
  BY DEF Successor
<1>2. /\ r.state \in States /\ r.rollbackReloadRequired \in BOOLEAN
      /\ r.rollbackReloadRequired => r.reloadTarget # "none"
  BY DEF LegalRecord, Record, RecordReloadContextIsLegal
<1>3. flag => step \in {"rollback_intent", "complete_intent"} /\ r.reloadTarget # "none"
  BY DEF ShouldRequireRollbackReload
<1>a. LegalTransitions[r.state] = Onward[r.state] \union {"manual_recovery_required"}
  BY <1>2 DEF LegalTransitions
<1> HIDE DEF s
<1>q. SUFFICES /\ s.state \in Onward[r.state] \union {"manual_recovery_required"}
               /\ s.state = "rollback_intent" => RollbackFlagIsLegal(r, s)
               /\ s.rollbackReloadRequired /\ ~r.rollbackReloadRequired =>
                    s.state = "rollback_intent"
               /\ RecordReloadContextIsLegal(s)
  BY <1>1, <1>a DEF CanRecordTransition, s
<1>4. CASE step = "manual"
  <2>1. s.state = "manual_recovery_required"
    BY <1>1, <1>4 DEF Asks
  <2> QED  BY <1>1, <1>2, <1>3, <1>4, <2>1 DEF RecordReloadContextIsLegal
<1>5. CASE step \in {"rollback_intent", "complete_intent"}
  <2>1. s.state = "rollback_intent" /\ r.state \in ForwardStates
    BY <1>1, <1>5 DEF Asks, DueAt
  <2>2. ~r.rollbackReloadRequired
    BY <2>1 DEF LegalRecord, ForwardStates, RollbackStates
  <2>3. s.state \in Onward[r.state]
    BY <1>2, <2>1 DEF Onward, ForwardStates
  <2>4. RollbackFlagIsLegal(r, s)
    BY <1>1, <1>5, <2>1, <2>2 DEF RollbackFlagIsLegal, ShouldRequireRollbackReload
  <2> QED  BY <1>1, <1>2, <1>3, <2>1, <2>3, <2>4 DEF RecordReloadContextIsLegal
<1>6. CASE step \notin {"manual", "rollback_intent", "complete_intent"}
  <2>1. s.rollbackReloadRequired = r.rollbackReloadRequired
    BY <1>1, <1>2, <1>3, <1>6
  <2>2. CASE step = "unknown_rollback_intent"
    <3>1. /\ s.state = "rollback_intent" /\ r.state = "intent_prepared"
          /\ ~r.rollbackReloadRequired
      BY <1>1, <2>2 DEF Asks, DueAt, LegalRecord, RollbackStates
    <3> QED
      BY <1>1, <1>2, <2>1, <3>1 DEF Onward, RollbackFlagIsLegal, RecordReloadContextIsLegal
  <2>3. CASE step \in {"apply_commit", "post_validate"}
    <3>1. \/ s.state = "apply_committed" /\ r.state = "intent_prepared"
          \/ s.state = "post_validation_succeeded" /\ r.state = "apply_committed"
      BY <1>1, <2>3 DEF Asks, DueAt
    <3> QED
      BY <1>1, <1>2, <2>1, <3>1 DEF Onward, RecordReloadContextIsLegal
  <2>4. CASE step \in {"reload_intent", "reload_settle"}
    <3>1. \/ /\ s.state = "reload_intent" /\ r.state = "post_validation_succeeded"
             /\ r.reloadTarget # "none"
          \/ /\ s.state = "reload_succeeded" /\ r.state = "post_validation_succeeded"
             /\ r.reloadTarget = "none"
          \/ s.state = "reload_succeeded" /\ r.state = "reload_intent"
      BY <1>1, <2>4 DEF Asks, DueAt
    <3> QED
      BY <1>1, <1>2, <2>1, <3>1 DEF Onward, RecordReloadContextIsLegal
  <2>5. CASE step \in {"verify_settle", "restore_commit", "complete_commit", "rollback_validate"}
    <3>1. \/ s.state = "verification_succeeded" /\ r.state = "reload_succeeded"
          \/ s.state = "rollback_committed" /\ r.state = "rollback_intent"
          \/ s.state = "rollback_validation_succeeded" /\ r.state = "rollback_committed"
      BY <1>1, <2>5 DEF Asks, DueAt
    <3> QED
      BY <1>1, <1>2, <2>1, <3>1 DEF Onward, RecordReloadContextIsLegal
  <2>6. CASE step \in {"rollback_reload_intent", "rollback_reload_settle"}
    <3>1. /\ \/ s.state = "rollback_reload_intent" /\ r.state = "rollback_validation_succeeded"
             \/ s.state = "rollback_reload_succeeded" /\ r.state = "rollback_reload_intent"
          /\ r.rollbackReloadRequired
      BY <1>1, <2>6 DEF Asks, DueAt, LegalRecord, RecordReloadContextIsLegal
    <3> QED
      BY <1>1, <1>2, <2>1, <3>1 DEF Onward, RecordReloadContextIsLegal
  <2>7. CASE step = "rollback_verify_settle"
    <3>1. /\ s.state = "rollback_verification_succeeded"
          /\ \/ r.state = "rollback_validation_succeeded" /\ ~r.rollbackReloadRequired
             \/ r.state = "rollback_reload_succeeded"
      BY <1>1, <2>7 DEF Asks, DueAt, VerificationStateIsLegal
    <3> QED
      BY <1>1, <1>2, <2>1, <3>1 DEF Onward, RecordReloadContextIsLegal
  <2> QED
    BY <1>6, <2>2, <2>3, <2>4, <2>5, <2>6, <2>7 DEF Asks
<1> QED
  BY <1>4, <1>5, <1>6

LEMMA RequestsDue ==
  ASSUME TypeOK, Ledger, Asks[pc] # "none", cur.version = record.version,
         cur.state \notin TerminalStates
  PROVE  /\ cur = record /\ record # NoRecord
         /\ CanRecordTransition(record, Successor(record, Asks[pc],
              /\ pc \in {"rollback_intent", "complete_intent"}
              /\ ShouldRequireRollbackReload(cur, FALSE)))
<1> DEFINE flag == /\ pc \in {"rollback_intent", "complete_intent"}
                   /\ ShouldRequireRollbackReload(cur, FALSE)
<1>1. pc \in Steps /\ cur \in AnyRecord
  BY DEF TypeOK
<1>2. pc \notin BeforeIntent
  BY <1>1 DEF Asks, BeforeIntent
<1>3. cur = record /\ record # NoRecord /\ LegalRecord(record)
  BY <1>1, <1>2 DEF Ledger, CurIsHeld, Held, AnyRecord, JournalIsLegal
<1>4. flag \in BOOLEAN /\ DueAt(pc, record)
  BY <1>1, <1>3, FlagType DEF Ledger
<1>5. CanRecordTransition(record, Successor(record, Asks[pc], flag))
  BY <1>1, <1>3, <1>4, DueIsLegal
<1> QED
  BY <1>3, <1>5

\* The coordinator and the journal never disagree on what comes next: a
\* transition asked for from the journal's own version is legal, flag included,
\* after any sequence of failed writes, reconciled conflicts and recoveries.
THEOREM RequestsLegal == Spec => []RequestsAreLegal
<1>1. TypeOK /\ Ledger => RequestsAreLegal
  BY RequestsDue DEF RequestsAreLegal
<1> QED
  BY LedgerCorrect, <1>1, PTL

\* verify() is never called with a record it refuses as illegal, neither after
\* the apply nor after any rollback or recovery.
THEOREM VerificationAdmitted == Spec => []VerificationIsAdmitted
<1>1. ASSUME TypeOK, Ledger PROVE VerificationIsAdmitted
  <2>1. ASSUME pc = "verify" PROVE VerificationStateIsLegal(cur, "candidate")
    <3>1. LegalRecord(cur) /\ cur.state = "reload_succeeded"
      BY <1>1, <2>1 DEF Ledger, CurIsHeld, CurIsLatest, JournalIsLegal, DueAt, Unsynced,
         BeforeIntent
    <3> QED
      BY <3>1 DEF LegalRecord, RollbackStates, VerificationStateIsLegal
  <2> QED
    BY <1>1, <2>1 DEF Ledger, DueAt, VerificationIsAdmitted
<1> QED
  BY LedgerCorrect, <1>1, PTL

\* A reload that may have loaded the candidate is never forgotten: every record
\* of the rollback that follows demands a rollback reload, though the process
\* that started the reload may have died at any step since.
THEOREM ReloadFlagSound == Spec => []RollbackReloadFlagSound
<1>1. Ledger => RollbackReloadFlagSound
  BY DEF Ledger, ReloadIsRemembered, RollbackReloadFlagSound, RollbackStates
<1> QED
  BY LedgerCorrect, <1>1, PTL

-----------------------------------------------------------------------------
(* How calls end *)

\* A request from the journal's own version fails only by a fault.
LEMMA FailureIsFault ==
  ASSUME TypeOK, Ledger, NEW state, state # "none", Asks[pc] = state,
         cur.version = record.version, cur.state \notin TerminalStates,
         pc \notin {"rollback_intent", "complete_intent"},
         TransitionFails(state, FALSE)
  PROVE  faults' # faults
<1>1. record # NoRecord /\ CanRecordTransition(record, Successor(record, state, FALSE))
  BY RequestsDue
<1>2. Accepts(state, FALSE)
  BY <1>1 DEF Accepts
<1>3. Spend
  BY <1>2, Zenon DEF TransitionFails
<1> QED
  BY <1>3 DEF Spend, TypeOK

\* A step's record is not settled before the step settles it.
LEMMA DueIsOpen ==
  ASSUME NEW step \in {"apply_commit", "unknown_rollback_intent", "rollback_reload_settle"},
         NEW r, DueAt(step, r)
  PROVE  r.state \notin TerminalStates
  BY DEF DueAt, TerminalStates

LEMMA WritesSettle ==
  ASSUME NEW state \in TerminalStates, Transitions(state, FALSE)
  PROVE  record'.state \in TerminalStates
  BY DEF Transitions, Successor

LEMMA LastSteps ==
  ASSUME TypeOK, Next, pc # "idle", pc' = "idle"
  PROVE  \/ ConsumeApplyGrant \/ CreateCheckpoint \/ CreateIntent
         \/ ApplyCandidate \/ ApplyReturns \/ ClassifyApply
         \/ pc = "apply_commit" /\ TransitionFails("apply_committed", FALSE)
         \/ pc = "unknown_rollback_intent" /\ TransitionFails("rollback_intent", FALSE)
         \/ Transitions("verification_succeeded", FALSE)
         \/ /\ pc = "rollback_reload_settle"
            /\ TransitionFails("rollback_reload_succeeded", FALSE)
         \/ Transitions("rollback_verification_succeeded", FALSE)
         \/ Manual \/ RecoverOne \/ Crash
<1>1. ASSUME Apply
      PROVE  \/ ConsumeApplyGrant \/ CreateCheckpoint \/ CreateIntent
             \/ ApplyCandidate \/ ApplyReturns \/ ClassifyApply
             \/ pc = "apply_commit" /\ TransitionFails("apply_committed", FALSE)
             \/ pc = "unknown_rollback_intent" /\ TransitionFails("rollback_intent", FALSE)
  BY <1>1 DEF Apply, CommitApply, UnknownRollbackIntent, Settle, Carry
<1>2. ASSUME FinishPostCommit PROVE Transitions("verification_succeeded", FALSE)
  BY <1>2 DEF FinishPostCommit, PostValidate, ReloadIntent, ReloadNotDispatched,
     ReloadDomain, ReloadSettle, Verify, VerifyLoaded, VerifyFinal, VerifySettle,
     RollbackIntentAfter, Settle, FailTo, Answers, Carry, Goto, Catch
<1>3. ~RollbackAfterCommit
  BY DEF RollbackAfterCommit, RollbackIntent, RestoreCheckpoint, RestoreReturns,
     ClassifyRestore, RestoreCommit, RollbackIntentAfter, InnerManual, Carry, Goto, Catch
<1>4. ASSUME CompleteRollback
      PROVE  \/ /\ pc = "rollback_reload_settle"
                /\ TransitionFails("rollback_reload_succeeded", FALSE)
             \/ Transitions("rollback_verification_succeeded", FALSE)
  <2>1. \A r : ValidationStep(r) # "idle"
    BY DEF ValidationStep
  <2> QED
    BY <1>4, <2>1 DEF CompleteRollback, CompleteIntent, CompleteCommit, CompleteLoad,
       RollbackValidate, RollbackReloadIntent, RollbackReload, RollbackReloadSettle,
       RollbackVerify, RollbackVerifyLoaded, RollbackVerifyFinal, RollbackVerifySettle,
       Settle, CatchIn, Answers, Carry, Goto, Catch
<1>5. ~(Approve \/ StartApply \/ StartRecover \/ HelperSteps \/ OrphanExits
         \/ OutsideEdit \/ HomeAssistantReloads)
  BY DEF Approve, StartApply, StartRecover, HelperSteps, OrphanExits, OutsideEdit,
     HomeAssistantReloads, procVars, Goto
<1> QED
  BY <1>1, <1>2, <1>3, <1>4, <1>5 DEF Next, Coordinate

LEMMA CallSettles ==
  ASSUME TypeOK, Ledger, ReloadHasCaller, CoordinatorErrors, Next,
         pc # "idle", pc' = "idle", faults' = faults, live = "candidate",
         pc \notin {"apply_replace", "apply_await"}, record # NoRecord
  PROVE  record'.state \in TerminalStates
<1>0. Spend => FALSE
  BY DEF Spend, TypeOK
<1>1. CASE ConsumeApplyGrant \/ CreateCheckpoint \/ CreateIntent
  BY <1>1 DEF ConsumeApplyGrant, CreateCheckpoint, CreateIntent, Ledger, IntentIsFirst,
     BeforeIntent
<1>2. CASE ApplyCandidate \/ ApplyReturns \/ ClassifyApply
  BY <1>0, <1>2 DEF ApplyCandidate, ApplyReturns, ClassifyApply, Goto
<1>3. ASSUME NEW state,
             \/ pc = "apply_commit" /\ state = "apply_committed"
             \/ pc = "unknown_rollback_intent" /\ state = "rollback_intent"
             \/ pc = "rollback_reload_settle" /\ state = "rollback_reload_succeeded",
             TransitionFails(state, FALSE)
      PROVE  FALSE
  <2>1. cur = record /\ cur.state \notin TerminalStates
    BY <1>3, DueIsOpen DEF Ledger, CurIsLatest, Unsynced, BeforeIntent
  <2>2. Asks[pc] = state /\ state # "none"
    BY <1>3 DEF Asks, TypeOK
  <2> QED  BY <1>3, <2>1, <2>2, FailureIsFault
<1>4. CASE \/ Transitions("verification_succeeded", FALSE)
           \/ Transitions("rollback_verification_succeeded", FALSE)
  BY <1>4, WritesSettle DEF TerminalStates
<1>5. CASE Manual
  <2>0. pc = "manual" /\ Asks[pc] = "manual_recovery_required"
    BY <1>5 DEF Manual, ManualReturnsTerminal, ManualSettles, ManualReconciles,
       ManualRethrows, Asks, TypeOK
  <2>1. CASE ManualReturnsTerminal
    <3>1. cur = record
      BY <2>0, <2>1 DEF Ledger, CurIsHeld, Held, BeforeIntent, ManualReturnsTerminal
    <3> QED  BY <2>1, <3>1 DEF ManualReturnsTerminal, coreVars
  <2>2. CASE ManualSettles
    BY <2>2, WritesSettle DEF ManualSettles, TerminalStates
  <2>3. ~ManualReconciles
    BY DEF ManualReconciles
  <2>4. ~ManualRethrows
    BY <1>0, <2>0, FailureIsFault DEF ManualRethrows
  <2> QED  BY <1>5, <2>1, <2>2, <2>3, <2>4 DEF Manual
<1>6. CASE RecoverOne
  <2>1. pc = "recover_read" /\ record' = record
    BY <1>6 DEF RecoverOne
  <2>2. cur.state \in TerminalStates \/ pc' = RecoverOneStep(cur)
    BY <1>0, <1>6 DEF RecoverOne, Goto
  <2>3. RecoverOneStep(cur) # "idle"
    BY DEF RecoverOneStep
  <2> QED  BY <2>1, <2>2, <2>3 DEF Ledger, CurIsLatest, Unsynced, BeforeIntent
<1>7. ~Crash
  BY <1>0 DEF Crash
<1> QED
  BY <1>1, <1>2, <1>3, <1>4, <1>5, <1>6, <1>7, LastSteps

\* With a journal whose conflicts the coordinator recognises, a call that ends
\* without a fault in its last step never leaves a candidate live under an
\* unsettled record, however stale the record its catch block held.
THEOREM CallsSettleCorrect == ASSUME CoordinatorErrors PROVE Spec => CallsSettle
<1>1. TypeOK /\ ReloadHasCaller /\ Ledger /\ [Next]_vars =>
        [pc # "idle" /\ pc' = "idle" /\ faults' = faults /\ live = "candidate"
           /\ pc \notin {"apply_replace", "apply_await"} /\ record # NoRecord
         => record'.state \in TerminalStates]_vars
  BY CallSettles
<1> QED
  BY LedgerCorrect, <1>1, PTL DEF Spec, CallsSettle

-----------------------------------------------------------------------------
(* A settled record tells the truth *)

Awaiting == {"apply_await", "restore_await"}
EffectSteps == Awaiting \union {"apply_replace", "restore"}
InspectedSteps ==
  {"verify_loaded", "verify_final", "verify_settle", "rollback_verify_loaded",
   "rollback_verify_final", "rollback_verify_settle"}
SettledStates == {"verification_succeeded", "rollback_verification_succeeded"}
AnnouncedStates == {"intent_prepared", "rollback_intent"}

HelperHasParent == pc \notin Awaiting \union {"idle"} => helper = NoHelper
HelperIsAnnounced == helper # NoHelper => record.state \in AnnouncedStates
EffectsHaveIntent == pc \in EffectSteps => record.state \in AnnouncedStates
Inspected ==
  quiet =>
    /\ pc = "verify_loaded" => live = "candidate"
    /\ pc \in {"verify_final", "verify_settle"} => InPlace("candidate")
    /\ pc = "rollback_verify_loaded" => live = "checkpoint"
    /\ pc \in {"rollback_verify_final", "rollback_verify_settle"} => InPlace("checkpoint")

Safe ==
  /\ CurIsLatest
  /\ HelperHasParent
  /\ HelperIsAnnounced
  /\ EffectsHaveIntent
  /\ Inspected
  /\ SettledMeansReal

-----------------------------------------------------------------------------
(* Kinds of steps, and what they leave true of settled records *)

\* The call ends or falls into a catch, and nothing outside memory changes.
LEMMA Aside ==
  ASSUME Safe, pc' \in Unsynced,
         helper' = NoHelper \/ (pc' = "idle" /\ helper' = helper),
         UNCHANGED <<record, live, loaded, quiet>>
  PROVE  Safe'
<1> USE DEF Unsynced, Awaiting, EffectSteps
<1>1. CurIsLatest' /\ HelperHasParent' /\ EffectsHaveIntent'
  BY DEF CurIsLatest, HelperHasParent, EffectsHaveIntent
<1>2. HelperIsAnnounced'
  BY DEF Safe, HelperIsAnnounced
<1>3. Inspected'
  BY DEF Inspected
<1>4. SettledMeansReal'
  BY DEF Safe, SettledMeansReal, InPlace
<1> QED  BY <1>1, <1>2, <1>3, <1>4 DEF Safe

\* A journal write that is not a settlement fails, or lands and reports failure.
LEMMA Fails ==
  ASSUME Safe, NEW state \in States \ SettledStates, NEW flag,
         TransitionFails(state, flag),
         pc \notin Awaiting \union {"idle"}, pc' \in Unsynced
  PROVE  Safe'
<1> USE DEF Unsynced, Awaiting, EffectSteps
<1>0. helper' = NoHelper /\ UNCHANGED <<live, loaded, quiet>>
  BY DEF Safe, HelperHasParent, TransitionFails, applyVars, haVars
<1>1. CASE record' = record
  BY <1>0, <1>1, Aside
<1>2. CASE record' = Successor(record, state, flag)
  <2>1. record'.state \notin SettledStates
    BY <1>2 DEF Successor
  <2>2. SettledMeansReal'
    BY <2>1 DEF SettledMeansReal, SettledStates
  <2>3. CurIsLatest' /\ HelperHasParent' /\ EffectsHaveIntent' /\ HelperIsAnnounced'
    BY <1>0 DEF CurIsLatest, HelperHasParent, EffectsHaveIntent, HelperIsAnnounced
  <2>4. Inspected'
    BY DEF Inspected
  <2> QED  BY <2>2, <2>3, <2>4 DEF Safe
<1> QED
  BY <1>1, <1>2 DEF TransitionFails

\* It succeeds, and the block goes on from the new record or the call returns.
LEMMA Succeeds ==
  ASSUME Safe, NEW state \in States \ SettledStates, NEW flag,
         Transitions(state, flag),
         pc \notin Awaiting \union {"idle"},
         cur' = record' \/ pc' = "idle",
         pc' \notin InspectedSteps,
         pc' \in EffectSteps => state \in AnnouncedStates
  PROVE  Safe'
<1>0. helper' = NoHelper /\ record'.state = state
  BY DEF Safe, HelperHasParent, Transitions, applyVars, Successor
<1>1. CurIsLatest'
  BY DEF CurIsLatest, Unsynced
<1>2. HelperHasParent' /\ HelperIsAnnounced'
  BY <1>0 DEF HelperHasParent, HelperIsAnnounced
<1>3. EffectsHaveIntent'
  BY <1>0 DEF EffectsHaveIntent
<1>4. Inspected'
  BY DEF Inspected, InspectedSteps
<1>5. SettledMeansReal'
  BY <1>0 DEF SettledMeansReal, SettledStates
<1> QED  BY <1>1, <1>2, <1>3, <1>4, <1>5 DEF Safe

\* The block goes on with the record it has.
LEMMA Moves ==
  ASSUME Safe, pc \notin Unsynced \union Awaiting,
         UNCHANGED <<cur, record, helper, live, quiet>>,
         loaded' = loaded \/ record.state \notin SettledStates,
         pc' \notin InspectedSteps, pc' \notin EffectSteps
  PROVE  Safe'
<1>1. CurIsLatest' /\ helper' = NoHelper
  BY DEF Safe, CurIsLatest, HelperHasParent, Unsynced
<1>2. HelperHasParent' /\ HelperIsAnnounced' /\ EffectsHaveIntent'
  BY <1>1 DEF HelperHasParent, HelperIsAnnounced, EffectsHaveIntent
<1>3. Inspected'
  BY DEF Inspected, InspectedSteps
<1>4. SettledMeansReal'
  BY DEF Safe, SettledMeansReal, InPlace, SettledStates
<1> QED  BY <1>1, <1>2, <1>3, <1>4 DEF Safe

\* A settlement: what the inspection saw still holds.
LEMMA SettlesTo ==
  ASSUME Safe, NEW bytes,
         \/ /\ pc = "verify_settle" /\ bytes = "candidate"
            /\ record'.state = "verification_succeeded"
         \/ /\ pc = "rollback_verify_settle" /\ bytes = "checkpoint"
            /\ record'.state = "rollback_verification_succeeded",
         record'.reloadTarget = record.reloadTarget,
         UNCHANGED <<helper, live, loaded, quiet>>,
         pc' \in Unsynced
  PROVE  Safe'
<1>1. helper' = NoHelper
  BY DEF Safe, HelperHasParent, Awaiting
<1>2. CurIsLatest' /\ HelperHasParent' /\ EffectsHaveIntent' /\ HelperIsAnnounced'
  BY <1>1 DEF CurIsLatest, HelperHasParent, EffectsHaveIntent, HelperIsAnnounced,
     Unsynced, EffectSteps, Awaiting
<1>3. Inspected'
  BY DEF Inspected, Unsynced
<1>4. quiet => InPlace(bytes)
  BY DEF Safe, Inspected
<1>5. SettledMeansReal'
  BY <1>4 DEF SettledMeansReal, InPlace
<1> QED  BY <1>2, <1>3, <1>5 DEF Safe

\* A step of verification: the record is the latest, it is not settled yet, and
\* the inspection so far is carried to the next step.
LEMMA Inspects ==
  ASSUME Safe, pc \notin Unsynced \union Awaiting,
         UNCHANGED <<cur, record, helper, live, loaded>>,
         record.state \notin SettledStates,
         pc' \in InspectedSteps, Inspected'
  PROVE  Safe'
<1>1. CurIsLatest' /\ helper' = NoHelper
  BY DEF Safe, CurIsLatest, HelperHasParent, Unsynced
<1>2. HelperHasParent' /\ HelperIsAnnounced' /\ EffectsHaveIntent'
  BY <1>1 DEF HelperHasParent, HelperIsAnnounced, EffectsHaveIntent, EffectSteps,
     Awaiting, InspectedSteps
<1>3. SettledMeansReal'
  BY DEF SettledMeansReal, SettledStates
<1> QED  BY <1>1, <1>2, <1>3 DEF Safe

-----------------------------------------------------------------------------
(* The parts of the program keep settled records true *)

LEMMA ApplySafe == ASSUME Safe, Apply PROVE Safe'
<1> USE DEF Unsynced, Awaiting
<1>1. CASE ConsumeApplyGrant
  <2>1. pc' \in Unsynced /\ UNCHANGED <<record, live, loaded, quiet, helper>>
    BY <1>1 DEF ConsumeApplyGrant, Goto, Leave, haVars, applyVars
  <2>2. helper = NoHelper
    BY <1>1 DEF Safe, HelperHasParent, ConsumeApplyGrant
  <2> QED  BY <2>1, <2>2, Aside
<1>2. CASE CreateCheckpoint
  <2>1. pc' \in Unsynced /\ UNCHANGED <<record, live, loaded, quiet, helper>>
    BY <1>2 DEF CreateCheckpoint, Goto, Leave, coreVars, applyVars
  <2>2. helper = NoHelper
    BY <1>2 DEF Safe, HelperHasParent, CreateCheckpoint
  <2> QED  BY <2>1, <2>2, Aside
<1>3. CASE CreateIntent
  <2>1. helper' = NoHelper /\ UNCHANGED <<live, loaded, quiet>>
    BY <1>3 DEF Safe, HelperHasParent, CreateIntent, haVars, applyVars
  <2>2. CASE record' = record /\ Leave
    BY <2>1, <2>2, Aside DEF Leave
  <2>3. ASSUME NEW target \in Targets, record' = IntentRecord(target),
               Leave \/ (cur' = record' /\ pc' = "apply_replace")
        PROVE  Safe'
    <3>1. record'.state = "intent_prepared"
      BY <2>3 DEF IntentRecord
    <3>2. CurIsLatest' /\ HelperHasParent' /\ HelperIsAnnounced' /\ EffectsHaveIntent'
      BY <2>1, <2>3, <3>1 DEF CurIsLatest, HelperHasParent, HelperIsAnnounced,
         EffectsHaveIntent, AnnouncedStates, Leave
    <3>3. Inspected'
      BY <2>3 DEF Inspected, Leave
    <3>4. SettledMeansReal'
      BY <3>1 DEF SettledMeansReal
    <3> QED  BY <3>2, <3>3, <3>4 DEF Safe
  <2> QED  BY <1>3, <2>2, <2>3 DEF CreateIntent
<1>4. CASE ApplyCandidate
  <2>1. UNCHANGED <<record, live, loaded, quiet>> /\ pc = "apply_replace"
    BY <1>4 DEF ApplyCandidate, Spawn, coreVars, applyVars
  <2>2. CASE Leave /\ UNCHANGED applyVars
    <3>1. helper' = NoHelper
      BY <2>1, <2>2 DEF Safe, HelperHasParent, applyVars
    <3> QED  BY <2>1, <2>2, <3>1, Aside DEF Leave
  <2>3. CASE Spawn("candidate") /\ Goto("apply_await")
    <3>1. record.state \in AnnouncedStates
      BY <2>1 DEF Safe, EffectsHaveIntent, EffectSteps
    <3>2. CurIsLatest' /\ HelperHasParent' /\ HelperIsAnnounced' /\ EffectsHaveIntent'
      BY <2>1, <2>3, <3>1 DEF Safe, CurIsLatest, HelperHasParent, HelperIsAnnounced,
         EffectsHaveIntent, Goto
    <3>3. Inspected' /\ SettledMeansReal'
      BY <2>1, <2>3 DEF Safe, Inspected, SettledMeansReal, InPlace, Goto
    <3> QED  BY <3>2, <3>3 DEF Safe
  <2> QED  BY <1>4, <2>2, <2>3 DEF ApplyCandidate
<1>5. CASE ApplyReturns
  <2>1. /\ UNCHANGED <<record, live, loaded, quiet>> /\ helper' = NoHelper
        /\ pc = "apply_await"
        /\ pc' \in {"idle", "apply_commit", "apply_classify"}
        /\ pc' # "idle" => cur' = cur
    BY <1>5 DEF ApplyReturns, Reap, Goto, Leave, coreVars
  <2>2. CurIsLatest' /\ HelperHasParent' /\ HelperIsAnnounced' /\ EffectsHaveIntent'
    BY <2>1 DEF Safe, CurIsLatest, HelperHasParent, HelperIsAnnounced,
       EffectsHaveIntent, EffectSteps
  <2>3. Inspected' /\ SettledMeansReal'
    BY <2>1 DEF Safe, Inspected, SettledMeansReal, InPlace
  <2> QED  BY <2>2, <2>3 DEF Safe
<1>6. CASE ClassifyApply
  <2>1. /\ UNCHANGED <<record, live, loaded, quiet, helper>>
        /\ pc = "apply_classify"
        /\ \/ pc' \in Unsynced
           \/ pc' \in {"unknown_rollback_intent", "apply_commit"} /\ cur' = cur
    BY <1>6 DEF ClassifyApply, Goto, Leave, haVars, applyVars
  <2>2. helper = NoHelper
    BY <2>1 DEF Safe, HelperHasParent
  <2> QED  BY <2>1, <2>2, Aside, Moves DEF InspectedSteps, EffectSteps
<1>7. CASE CommitApply
  BY <1>7, Succeeds, Fails DEF CommitApply, Settle, Carry, Leave, States,
     SettledStates, InspectedSteps, EffectSteps
<1>8. CASE UnknownRollbackIntent
  BY <1>8, Succeeds, Fails DEF UnknownRollbackIntent, Settle, Carry, Leave, States,
     SettledStates, InspectedSteps, EffectSteps
<1> QED
  BY <1>1, <1>2, <1>3, <1>4, <1>5, <1>6, <1>7, <1>8 DEF Apply

\* rollback_intent after a failure, with or without the reload flag.
LEMMA RollbackIntentAfterSafe ==
  ASSUME Safe, NEW b, RollbackIntentAfter(b), pc \notin Awaiting \union {"idle"}
  PROVE  Safe'
<1> DEFINE flag == ShouldRequireRollbackReload(cur, b)
<1>1. "rollback_intent" \in States \ SettledStates
  BY DEF States, SettledStates
<1>2. CASE Transitions("rollback_intent", flag) /\ Carry("restore")
  <2>1. cur' = record' /\ pc' = "restore"
    BY <1>2 DEF Carry
  <2>2. Transitions("rollback_intent", flag)
    BY <1>2
  <2> HIDE DEF flag
  <2> QED  BY <1>1, <2>1, <2>2, Succeeds DEF InspectedSteps, AnnouncedStates
<1>3. CASE TransitionFails("rollback_intent", flag) /\ Catch
  <2>1. pc' \in Unsynced
    BY <1>3 DEF Catch, Goto, Unsynced
  <2>2. TransitionFails("rollback_intent", flag)
    BY <1>3
  <2> HIDE DEF flag
  <2> QED  BY <1>1, <2>1, <2>2, Fails
<1> QED
  BY <1>2, <1>3 DEF RollbackIntentAfter

\* A port answers and the step that follows is neither an effect nor part of an
\* inspection, or is a catch.
LEMMA AnswersSafe ==
  ASSUME Safe, NEW step, NEW next, Answers(step, next),
         step \notin Unsynced \union Awaiting,
         next \in Unsynced \/ next \notin InspectedSteps \union EffectSteps
  PROVE  Safe'
<1>1. /\ pc = step /\ pc' = next
      /\ UNCHANGED <<cur, record, helper, live, loaded, quiet>>
  BY DEF Answers, Goto, coreVars, applyVars
<1>2. helper = NoHelper
  BY <1>1 DEF Safe, HelperHasParent, Unsynced
<1> QED  BY <1>1, <1>2, Aside, Moves

LEMMA PostCommitSafe == ASSUME Safe, FinishPostCommit PROVE Safe'
<1> USE DEF Unsynced, Awaiting, EffectSteps, InspectedSteps
<1>1. CASE PostValidate
  BY <1>1, Succeeds, Fails, AnswersSafe
     DEF PostValidate, FailTo, Settle, Carry, Goto, States, SettledStates
<1>2. CASE ReloadIntent
  BY <1>2, Succeeds, Fails
     DEF ReloadIntent, FailTo, Settle, Carry, Goto, States, SettledStates
<1>3. CASE ReloadNotDispatched
  BY <1>3, RollbackIntentAfterSafe DEF ReloadNotDispatched
<1>4. CASE ReloadDomain
  <2>1. /\ pc = "reload" /\ pc' \in {"reload_settle", "rollback_intent"}
        /\ UNCHANGED <<cur, record, helper, live, quiet>>
    BY <1>4 DEF ReloadDomain, Goto, applyVars
  <2>2. loaded' = loaded \/ loaded' = Loads
    BY <1>4 DEF ReloadDomain
  <2>3. CurIsLatest' /\ HelperHasParent' /\ HelperIsAnnounced' /\ EffectsHaveIntent'
    BY <2>1 DEF Safe, CurIsLatest, HelperHasParent, HelperIsAnnounced, EffectsHaveIntent
  <2>4. Inspected' /\ SettledMeansReal'
    BY <2>1, <2>2 DEF Safe, Inspected, SettledMeansReal, InPlace, Loads
  <2> QED  BY <2>3, <2>4 DEF Safe
<1>5. CASE ReloadSettle
  BY <1>5, Succeeds, Fails
     DEF ReloadSettle, FailTo, Settle, Carry, Goto, States, SettledStates
<1>6. CASE Verify
  <2>1. CASE pc = "verify" /\ ReadsBefore("candidate") /\ Goto("verify_loaded")
    <3>1. cur = record /\ cur.state = "reload_succeeded"
      BY <2>1 DEF Safe, CurIsLatest, ReadsBefore, VerificationStateIsLegal
    <3>2. /\ UNCHANGED <<cur, record, helper, live, loaded>>
          /\ pc' = "verify_loaded" /\ live = "candidate"
      BY <2>1 DEF ReadsBefore, Goto, haVars, applyVars
    <3> QED  BY <2>1, <3>1, <3>2, Inspects DEF SettledStates, Inspected
  <2> QED  BY <1>6, <2>1, AnswersSafe DEF Verify
<1>7. CASE VerifyLoaded
  <2>1. CASE LoadedIs("candidate") /\ Answers("verify_loaded", "verify_final")
    <3>1. /\ UNCHANGED <<cur, record, helper, live, loaded, quiet>>
          /\ pc = "verify_loaded" /\ pc' = "verify_final"
      BY <2>1 DEF Answers, Goto, coreVars, applyVars
    <3>2. cur = record /\ helper = NoHelper
      BY <3>1 DEF Safe, CurIsLatest, HelperHasParent
    <3>3. Inspected' /\ SettledMeansReal'
      BY <2>1, <3>1, <3>2
         DEF Safe, Inspected, InPlace, LoadedIs, SettledMeansReal
    <3>4. CurIsLatest' /\ HelperHasParent' /\ HelperIsAnnounced' /\ EffectsHaveIntent'
      BY <3>1, <3>2 DEF CurIsLatest, HelperHasParent, HelperIsAnnounced, EffectsHaveIntent
    <3> QED  BY <3>3, <3>4 DEF Safe
  <2> QED  BY <1>7, <2>1, AnswersSafe DEF VerifyLoaded
<1>8. CASE VerifyFinal
  <2>1. CASE Answers("verify_final", "verify_settle")
    <3>1. /\ UNCHANGED <<cur, record, helper, live, loaded, quiet>>
          /\ pc = "verify_final" /\ pc' = "verify_settle"
      BY <2>1 DEF Answers, Goto, coreVars, applyVars
    <3>2. cur = record /\ helper = NoHelper
      BY <3>1 DEF Safe, CurIsLatest, HelperHasParent
    <3>3. Inspected' /\ SettledMeansReal'
      BY <3>1 DEF Safe, Inspected, InPlace, SettledMeansReal
    <3>4. CurIsLatest' /\ HelperHasParent' /\ HelperIsAnnounced' /\ EffectsHaveIntent'
      BY <3>1, <3>2 DEF CurIsLatest, HelperHasParent, HelperIsAnnounced, EffectsHaveIntent
    <3> QED  BY <3>3, <3>4 DEF Safe
  <2> QED  BY <1>8, <2>1, AnswersSafe DEF VerifyFinal
<1>9. CASE VerifySettle
  <2>1. CASE record' = record
    <3>1. /\ pc' \in Unsynced /\ UNCHANGED <<live, loaded, quiet, helper>>
          /\ pc = "verify_settle"
      BY <1>9 DEF VerifySettle, FailTo, Transitions, TransitionFails, Leave, Goto,
         haVars, applyVars
    <3>2. helper' = NoHelper
      BY <3>1 DEF Safe, HelperHasParent
    <3> QED  BY <2>1, <3>1, <3>2, Aside
  <2>2. CASE record' = Successor(record, "verification_succeeded", FALSE)
    <3>1. /\ pc' \in Unsynced /\ UNCHANGED <<live, loaded, quiet, helper>>
          /\ pc = "verify_settle"
      BY <1>9 DEF VerifySettle, FailTo, Transitions, TransitionFails, Leave, Goto,
         haVars, applyVars
    <3> QED  BY <2>2, <3>1, SettlesTo DEF Successor
  <2> QED
    BY <1>9, <2>1, <2>2 DEF VerifySettle, FailTo, Transitions, TransitionFails
<1> QED
  BY <1>1, <1>2, <1>3, <1>4, <1>5, <1>6, <1>7, <1>8, <1>9 DEF FinishPostCommit

LEMMA RollbackSafe == ASSUME Safe, RollbackAfterCommit PROVE Safe'
<1> USE DEF Unsynced, Awaiting, EffectSteps, InspectedSteps
<1>1. CASE RollbackIntent
  BY <1>1, RollbackIntentAfterSafe DEF RollbackIntent
<1>2. CASE RestoreCheckpoint
  <2>1. UNCHANGED <<record, live, loaded, quiet>> /\ pc = "restore"
    BY <1>2 DEF RestoreCheckpoint, Spawn, coreVars, applyVars
  <2>2. CASE (Catch \/ InnerManual) /\ UNCHANGED applyVars
    <3>1. helper' = NoHelper
      BY <2>1, <2>2 DEF Safe, HelperHasParent, applyVars
    <3> QED  BY <2>1, <2>2, <3>1, Aside DEF Catch, InnerManual, Goto
  <2>3. CASE Spawn("checkpoint") /\ Goto("restore_await")
    <3>1. record.state \in AnnouncedStates
      BY <2>1 DEF Safe, EffectsHaveIntent
    <3>2. CurIsLatest' /\ HelperHasParent' /\ HelperIsAnnounced' /\ EffectsHaveIntent'
      BY <2>1, <2>3, <3>1 DEF Safe, CurIsLatest, HelperHasParent, HelperIsAnnounced,
         EffectsHaveIntent, Goto
    <3>3. Inspected' /\ SettledMeansReal'
      BY <2>1, <2>3 DEF Safe, Inspected, SettledMeansReal, InPlace, Goto
    <3> QED  BY <3>2, <3>3 DEF Safe
  <2> QED  BY <1>2, <2>2, <2>3 DEF RestoreCheckpoint
<1>3. CASE RestoreReturns
  <2>1. /\ UNCHANGED <<record, live, loaded, quiet>> /\ helper' = NoHelper
        /\ pc = "restore_await"
        /\ pc' \in {"manual", "restore_commit", "restore_classify"}
        /\ cur' = cur
    BY <1>3 DEF RestoreReturns, Reap, InnerManual, Goto, coreVars
  <2>2. CurIsLatest' /\ HelperHasParent' /\ HelperIsAnnounced' /\ EffectsHaveIntent'
    BY <2>1 DEF Safe, CurIsLatest, HelperHasParent, HelperIsAnnounced, EffectsHaveIntent
  <2>3. Inspected' /\ SettledMeansReal'
    BY <2>1 DEF Safe, Inspected, SettledMeansReal, InPlace
  <2> QED  BY <2>2, <2>3 DEF Safe
<1>4. CASE ClassifyRestore
  <2>1. /\ UNCHANGED <<record, live, loaded, quiet, helper, cur>>
        /\ pc = "restore_classify"
        /\ pc' \in {"manual", "restore_commit"}
    BY <1>4 DEF ClassifyRestore, Catch, InnerManual, Goto, haVars, applyVars
  <2>2. helper = NoHelper
    BY <2>1 DEF Safe, HelperHasParent
  <2> QED  BY <2>1, <2>2, Aside, Moves
<1>5. CASE RestoreCommit
  BY <1>5, Succeeds, Fails DEF RestoreCommit, Catch, Goto, States, SettledStates
<1> QED
  BY <1>1, <1>2, <1>3, <1>4, <1>5 DEF RollbackAfterCommit

\* Rollback validation picks a record up at a step that neither writes the file
\* nor relies on an inspection.
LEMMA ValidationStepSafe ==
  ASSUME NEW r PROVE ValidationStep(r) \notin InspectedSteps \union EffectSteps
  BY DEF ValidationStep, InspectedSteps, EffectSteps, Awaiting

LEMMA CompleteSafe == ASSUME Safe, CompleteRollback PROVE Safe'
<1> USE DEF Unsynced, Awaiting, EffectSteps, InspectedSteps
<1>1. CASE CompleteIntent
  <2> DEFINE flag == ShouldRequireRollbackReload(cur, FALSE)
  <2>1. "rollback_intent" \in States \ SettledStates
    BY DEF States, SettledStates
  <2>2. /\ pc = "complete_intent"
        /\ \/ Transitions("rollback_intent", flag) /\ Carry("complete_commit")
           \/ TransitionFails("rollback_intent", flag) /\ Catch
    BY <1>1 DEF CompleteIntent
  <2> HIDE DEF flag
  <2> QED  BY <2>1, <2>2, Succeeds, Fails DEF Carry, Catch, Goto
<1>2. CASE CompleteCommit
  BY <1>2, Succeeds, Fails
     DEF CompleteCommit, CatchIn, Catch, Settle, Carry, Goto, States, SettledStates
<1>3. CASE CompleteLoad
  <2>1. /\ UNCHANGED <<cur, record, helper, live, loaded, quiet>>
        /\ pc = "complete_load"
        /\ pc' \in {ValidationStep(cur), "manual"}
    BY <1>3 DEF CompleteLoad, Catch, Goto, coreVars, applyVars
  <2>2. helper = NoHelper
    BY <2>1 DEF Safe, HelperHasParent
  <2> QED  BY <2>1, <2>2, ValidationStepSafe, Aside, Moves
<1>4. CASE RollbackValidate
  <2> DEFINE next == ValidationStep(Successor(cur, "rollback_validation_succeeded", FALSE))
  <2>1. /\ next \notin InspectedSteps \union EffectSteps
        /\ "rollback_validation_succeeded" \in States \ SettledStates
    BY ValidationStepSafe DEF States, SettledStates
  <2>2. CASE Settle("rollback_validate", "rollback_validation_succeeded", next)
    <3> HIDE DEF next
    <3> QED  BY <2>1, <2>2, Succeeds DEF Settle, Carry
  <2> QED
    BY <1>4, <2>1, <2>2, Fails, AnswersSafe DEF RollbackValidate, CatchIn, Catch, Goto
<1>5. CASE RollbackReloadIntent
  BY <1>5, Succeeds, Fails
     DEF RollbackReloadIntent, CatchIn, Catch, Goto, States, SettledStates
<1>6. CASE RollbackReload
  <2>1. /\ pc = "rollback_reload" /\ pc' \in {"rollback_reload_settle", "manual"}
        /\ UNCHANGED <<cur, record, helper, live, quiet>>
    BY <1>6 DEF RollbackReload, Catch, Goto, applyVars
  <2>2. loaded' = loaded \/ loaded' = Loads
    BY <1>6 DEF RollbackReload
  <2>3. CurIsLatest' /\ HelperHasParent' /\ HelperIsAnnounced' /\ EffectsHaveIntent'
    BY <2>1 DEF Safe, CurIsLatest, HelperHasParent, HelperIsAnnounced, EffectsHaveIntent
  <2>4. Inspected' /\ SettledMeansReal'
    BY <2>1, <2>2 DEF Safe, Inspected, SettledMeansReal, InPlace, Loads
  <2> QED  BY <2>3, <2>4 DEF Safe
<1>7. CASE RollbackReloadSettle
  <2>1. "rollback_reload_succeeded" \in States \ SettledStates
    BY DEF States, SettledStates
  <2>2. CASE TransitionFails("rollback_reload_succeeded", FALSE) /\ Propagate
    BY <1>7, <2>1, <2>2, Fails DEF RollbackReloadSettle, Propagate, Leave
  <2> QED  BY <1>7, <2>1, <2>2, Succeeds DEF RollbackReloadSettle
<1>8. CASE RollbackVerify
  <2>1. CASE /\ pc = "rollback_verify" /\ ReadsBefore("checkpoint")
             /\ Goto("rollback_verify_loaded")
    <3>1. cur = record /\ cur.state \notin SettledStates
      BY <2>1 DEF Safe, CurIsLatest, ReadsBefore, VerificationStateIsLegal, SettledStates
    <3>2. /\ UNCHANGED <<cur, record, helper, live, loaded>>
          /\ pc' = "rollback_verify_loaded" /\ live = "checkpoint"
      BY <2>1 DEF ReadsBefore, Goto, haVars, applyVars
    <3> QED  BY <2>1, <3>1, <3>2, Inspects DEF Inspected
  <2> QED  BY <1>8, <2>1, AnswersSafe DEF RollbackVerify
<1>9. CASE RollbackVerifyLoaded
  <2>1. CASE /\ LoadedIs("checkpoint")
             /\ Answers("rollback_verify_loaded", "rollback_verify_final")
    <3>1. /\ UNCHANGED <<cur, record, helper, live, loaded, quiet>>
          /\ pc = "rollback_verify_loaded" /\ pc' = "rollback_verify_final"
      BY <2>1 DEF Answers, Goto, coreVars, applyVars
    <3>2. cur = record /\ helper = NoHelper
      BY <3>1 DEF Safe, CurIsLatest, HelperHasParent
    <3>3. Inspected' /\ SettledMeansReal'
      BY <2>1, <3>1, <3>2
         DEF Safe, Inspected, InPlace, LoadedIs, SettledMeansReal
    <3>4. CurIsLatest' /\ HelperHasParent' /\ HelperIsAnnounced' /\ EffectsHaveIntent'
      BY <3>1, <3>2 DEF CurIsLatest, HelperHasParent, HelperIsAnnounced, EffectsHaveIntent
    <3> QED  BY <3>3, <3>4 DEF Safe
  <2> QED  BY <1>9, <2>1, AnswersSafe DEF RollbackVerifyLoaded
<1>10. CASE RollbackVerifyFinal
  <2>1. CASE Answers("rollback_verify_final", "rollback_verify_settle")
    <3>1. /\ UNCHANGED <<cur, record, helper, live, loaded, quiet>>
          /\ pc = "rollback_verify_final" /\ pc' = "rollback_verify_settle"
      BY <2>1 DEF Answers, Goto, coreVars, applyVars
    <3>2. cur = record /\ helper = NoHelper
      BY <3>1 DEF Safe, CurIsLatest, HelperHasParent
    <3>3. Inspected' /\ SettledMeansReal'
      BY <3>1 DEF Safe, Inspected, InPlace, SettledMeansReal
    <3>4. CurIsLatest' /\ HelperHasParent' /\ HelperIsAnnounced' /\ EffectsHaveIntent'
      BY <3>1, <3>2 DEF CurIsLatest, HelperHasParent, HelperIsAnnounced, EffectsHaveIntent
    <3> QED  BY <3>3, <3>4 DEF Safe
  <2> QED  BY <1>10, <2>1, AnswersSafe DEF RollbackVerifyFinal
<1>11. CASE RollbackVerifySettle
  <2>0. /\ pc' \in Unsynced /\ UNCHANGED <<live, loaded, quiet, helper>>
        /\ pc = "rollback_verify_settle"
        /\ record' \in {record, Successor(record, "rollback_verification_succeeded", FALSE)}
    BY <1>11 DEF RollbackVerifySettle, CatchIn, Catch, Transitions, TransitionFails,
       Leave, Goto, haVars, applyVars
  <2>1. CASE record' = record
    <3>1. helper' = NoHelper
      BY <2>0 DEF Safe, HelperHasParent
    <3> QED  BY <2>0, <2>1, <3>1, Aside
  <2>2. CASE record' = Successor(record, "rollback_verification_succeeded", FALSE)
    BY <2>0, <2>2, SettlesTo DEF Successor
  <2> QED  BY <2>0, <2>1, <2>2
<1> QED
  BY <1>1, <1>2, <1>3, <1>4, <1>5, <1>6, <1>7, <1>8, <1>9, <1>10, <1>11
     DEF CompleteRollback

LEMMA ManualSafe == ASSUME Safe, Manual PROVE Safe'
<1> USE DEF Unsynced, Awaiting
<1>1. pc = "manual" /\ pc' \in {"manual", "idle"}
  BY DEF Manual, ManualReturnsTerminal, ManualSettles, ManualReconciles,
     ManualRethrows, Propagate, Leave
<1>2. helper = NoHelper /\ "manual_recovery_required" \in States \ SettledStates
  BY <1>1 DEF Safe, HelperHasParent, States, SettledStates
<1>3. CASE ManualReturnsTerminal \/ ManualReconciles
  <2>1. UNCHANGED <<record, live, loaded, quiet, helper>>
    BY <1>3 DEF ManualReturnsTerminal, ManualReconciles, coreVars, applyVars
  <2> QED  BY <1>1, <1>2, <2>1, Aside
<1>4. CASE ManualSettles
  BY <1>1, <1>2, <1>4, Succeeds DEF ManualSettles, Leave, InspectedSteps, EffectSteps
<1>5. CASE ManualRethrows
  <2>1. CASE TransitionFails("manual_recovery_required", FALSE)
    BY <1>1, <1>2, <2>1, Fails
  <2>2. CASE UNCHANGED <<record, grant, haVars, quiet, applyVars>>
    <3>1. UNCHANGED <<record, live, loaded, quiet, helper>>
      BY <2>2 DEF haVars, applyVars
    <3> QED  BY <1>1, <1>2, <3>1, Aside
  <2> QED  BY <1>5, <2>1, <2>2 DEF ManualRethrows
<1> QED
  BY <1>3, <1>4, <1>5 DEF Manual

\* Recovery restores bytes only from a record that already says rollback_intent.
LEMMA RecoverSafe == ASSUME Safe, RecoverOne PROVE Safe'
<1> USE DEF Unsynced, Awaiting
<1>1. /\ pc = "recover_read" /\ UNCHANGED <<record, live, loaded, quiet, helper>>
      /\ pc' = "idle" \/ (pc' = RecoverOneStep(cur) /\ cur' = cur)
  BY DEF RecoverOne, Goto, Leave, haVars, applyVars
<1>2. cur = record /\ helper = NoHelper
  BY <1>1 DEF Safe, CurIsLatest, HelperHasParent
<1>3. CASE pc' \in {"idle", "manual", "rollback_intent"}
  BY <1>1, <1>2, <1>3, Aside
<1>4. CASE pc' \in {"complete_load", "complete_commit", "complete_intent"}
  BY <1>1, <1>2, <1>4, Moves DEF InspectedSteps, EffectSteps
<1>5. CASE pc' = "restore" /\ cur.state = "rollback_intent"
  <2>1. CurIsLatest' /\ HelperHasParent' /\ HelperIsAnnounced' /\ EffectsHaveIntent'
    BY <1>1, <1>2, <1>5 DEF CurIsLatest, HelperHasParent, HelperIsAnnounced,
       EffectsHaveIntent, AnnouncedStates
  <2>2. Inspected' /\ SettledMeansReal'
    BY <1>1, <1>2, <1>5 DEF Safe, Inspected, SettledMeansReal, InPlace
  <2> QED  BY <2>1, <2>2 DEF Safe
<1> QED
  BY <1>1, <1>3, <1>4, <1>5 DEF RecoverOneStep

\* A helper that moves is alive.
LEMMA HelperAlive == ASSUME HelperNext PROVE helper # NoHelper
  BY DEF HelperNext, HelperStage, HelperRefuse, HelperArm, HelperBackOut,
     HelperExchange, HelperExchangeFails, HelperFinish, HelperUncertain, HelperKilled,
     Running, NoHelper

LEMMA EnvironmentSafe ==
  ASSUME Safe, ~OrphanOverlaps,
         \/ Approve \/ StartApply \/ StartRecover \/ HelperSteps \/ OrphanExits
         \/ Crash \/ OutsideEdit \/ HomeAssistantReloads
  PROVE  Safe'
<1> USE DEF Unsynced, Awaiting, EffectSteps, InspectedSteps
<1>1. CASE Approve
  <2>1. UNCHANGED <<pc, cur, record, helper, live, loaded, quiet>>
    BY <1>1 DEF Approve, procVars, haVars, applyVars
  <2>2. CurIsLatest' /\ HelperHasParent' /\ HelperIsAnnounced' /\ EffectsHaveIntent'
    BY <2>1 DEF Safe, CurIsLatest, HelperHasParent, HelperIsAnnounced, EffectsHaveIntent
  <2>3. Inspected' /\ SettledMeansReal'
    BY <2>1 DEF Safe, Inspected, SettledMeansReal, InPlace
  <2> QED  BY <2>2, <2>3 DEF Safe
<1>2. CASE StartApply
  <2>1. /\ UNCHANGED <<record, helper, live, loaded, quiet>>
        /\ pc' = "consume" /\ helper = NoHelper
    BY <1>2 DEF StartApply, Goto, coreVars, applyVars
  <2> QED  BY <2>1, Aside
<1>3. CASE StartRecover
  <2>1. /\ UNCHANGED <<record, helper, live, loaded, quiet>>
        /\ pc = "idle" /\ pc' = "recover_read" /\ cur' = record /\ helper = NoHelper
    BY <1>3 DEF StartRecover, coreVars, applyVars
  <2>2. CurIsLatest' /\ HelperHasParent' /\ HelperIsAnnounced' /\ EffectsHaveIntent'
    BY <2>1 DEF CurIsLatest, HelperHasParent, HelperIsAnnounced, EffectsHaveIntent
  <2>3. Inspected' /\ SettledMeansReal'
    BY <2>1 DEF Safe, Inspected, SettledMeansReal, InPlace
  <2> QED  BY <2>2, <2>3 DEF Safe
<1>4. CASE HelperSteps
  <2>1. UNCHANGED <<pc, cur, record, loaded, quiet>>
    BY <1>4 DEF HelperSteps, procVars, coreVars
  <2>2. helper # NoHelper /\ pc \in Awaiting \union {"idle"}
    BY <1>4, HelperAlive DEF Safe, HelperHasParent, HelperSteps
  <2>3. record.state \in AnnouncedStates
    BY <2>2 DEF Safe, HelperIsAnnounced
  <2>4. CurIsLatest' /\ HelperHasParent' /\ HelperIsAnnounced' /\ EffectsHaveIntent'
    BY <2>1, <2>2, <2>3 DEF Safe, CurIsLatest, HelperHasParent, HelperIsAnnounced,
       EffectsHaveIntent
  <2>5. Inspected'
    BY <2>1, <2>2 DEF Inspected
  <2>6. SettledMeansReal'
    BY <2>1, <2>3 DEF SettledMeansReal, AnnouncedStates
  <2> QED  BY <2>4, <2>5, <2>6 DEF Safe
<1>5. CASE OrphanExits
  <2>1. UNCHANGED <<pc, cur, record, live, loaded, quiet>> /\ helper' = NoHelper
    BY <1>5 DEF OrphanExits, Reap, procVars, coreVars
  <2>2. CurIsLatest' /\ HelperHasParent' /\ HelperIsAnnounced' /\ EffectsHaveIntent'
    BY <2>1 DEF Safe, CurIsLatest, HelperHasParent, HelperIsAnnounced, EffectsHaveIntent
  <2>3. Inspected' /\ SettledMeansReal'
    BY <2>1 DEF Safe, Inspected, SettledMeansReal, InPlace
  <2> QED  BY <2>2, <2>3 DEF Safe
<1>6. CASE Crash
  <2>1. UNCHANGED <<record, helper, live, loaded, quiet>> /\ pc' = "idle"
    BY <1>6 DEF Crash, Leave, haVars, applyVars
  <2> QED  BY <2>1, Aside
<1>7. CASE OutsideEdit
  <2>1. UNCHANGED <<pc, cur, record, helper>> /\ quiet' = FALSE
    BY <1>7 DEF OutsideEdit, EditorWrite, procVars
  <2>2. CurIsLatest' /\ HelperHasParent' /\ HelperIsAnnounced' /\ EffectsHaveIntent'
    BY <2>1 DEF Safe, CurIsLatest, HelperHasParent, HelperIsAnnounced, EffectsHaveIntent
  <2> QED  BY <2>1, <2>2 DEF Safe, Inspected, SettledMeansReal
<1>8. CASE HomeAssistantReloads
  <2>1. UNCHANGED <<pc, cur, record, helper, live, quiet>> /\ loaded' = Loads
    BY <1>8 DEF HomeAssistantReloads, procVars, applyVars
  <2>2. CurIsLatest' /\ HelperHasParent' /\ HelperIsAnnounced' /\ EffectsHaveIntent'
    BY <2>1 DEF Safe, CurIsLatest, HelperHasParent, HelperIsAnnounced, EffectsHaveIntent
  <2>3. Inspected' /\ SettledMeansReal'
    BY <2>1 DEF Safe, Inspected, SettledMeansReal, InPlace, Loads
  <2> QED  BY <2>2, <2>3 DEF Safe
<1> QED
  BY <1>1, <1>2, <1>3, <1>4, <1>5, <1>6, <1>7, <1>8

-----------------------------------------------------------------------------
LEMMA SafeInit == Init => Safe
  BY DEF Init, ApplyInit, NoRecord, Safe, CurIsLatest, HelperHasParent,
     HelperIsAnnounced, EffectsHaveIntent, Inspected, SettledMeansReal, Unsynced,
     EffectSteps, Awaiting

LEMMA SafeStep == ASSUME Safe, ~OrphanOverlaps, [Next]_vars PROVE Safe'
<1>1. CASE UNCHANGED vars
  <2>1. UNCHANGED <<pc, cur, record, helper, live, loaded, quiet>>
    BY <1>1 DEF vars
  <2>2. CurIsLatest' /\ HelperHasParent' /\ HelperIsAnnounced' /\ EffectsHaveIntent'
    BY <2>1 DEF Safe, CurIsLatest, HelperHasParent, HelperIsAnnounced, EffectsHaveIntent
  <2>3. Inspected' /\ SettledMeansReal'
    BY <2>1 DEF Safe, Inspected, SettledMeansReal, InPlace
  <2> QED  BY <2>2, <2>3 DEF Safe
<1>2. CASE Next
  BY <1>2, ApplySafe, PostCommitSafe, RollbackSafe, CompleteSafe, ManualSafe,
     RecoverSafe, EnvironmentSafe DEF Next, Coordinate
<1> QED
  BY <1>1, <1>2

\* When no command starts before an orphaned helper has ended, a settled record
\* always tells the truth: whatever failed, crashed or was reloaded on the way,
\* verification_succeeded means the candidate is in the file and in Home
\* Assistant, rollback_verification_succeeded that the checkpoint is.
THEOREM SettledCorrect ==
  ASSUME ~OrphanOverlaps PROVE Spec => []SettledMeansReal
<1>1. Safe /\ [Next]_vars => Safe'
  BY SafeStep
<1>2. Safe => SettledMeansReal
  BY DEF Safe
<1> QED
  BY SafeInit, <1>1, <1>2, PTL DEF Spec

-----------------------------------------------------------------------------
(* Effects under their intents, and the promise to the caller *)

Announces(content) ==
  IF content = "candidate" THEN "intent_prepared" ELSE "rollback_intent"

\* A helper works under the record that announced its content, on a grant that
\* is used up, and the candidate is put in place by at most one of them.
HelperHasIntent == helper # NoHelper => record.state = Announces(helper.content)
GrantIsSpent ==
  record # NoRecord \/ pc \in {"checkpoint", "intent"} => grant = "consumed"
LandsOnce ==
  /\ record = NoRecord \/ pc = "apply_replace" => landed = 0
  /\ helper.stage \in {"running", "staged", "armed"} /\ helper.content = "candidate"
       => landed = 0

Announced == HelperHasIntent /\ GrantIsSpent /\ LandsOnce

\* The kinds of a call's steps that leave the helper and its file alone.
Records ==
  /\ \E state \in States, flag \in BOOLEAN :
       /\ Accepts(state, flag) /\ record' = Successor(record, state, flag)
       /\ state = "verification_succeeded" => pc = "verify_settle"
       /\ state = "rollback_verification_succeeded" => pc = "rollback_verify_settle"
  /\ UNCHANGED <<grant, loaded, quiet, applyVars>>
Waits == UNCHANGED <<record, grant, loaded, quiet, applyVars>>
Reloads == loaded' = Loads /\ UNCHANGED <<record, grant, quiet, applyVars>>
Probes ==
  /\ live \in {"candidate", "checkpoint"} /\ quiet' = TRUE
  /\ record \in Record /\ record.state \notin TerminalStates
  /\ UNCHANGED <<record, grant, loaded, applyVars>>

InnerStep ==
  /\ pc \notin Awaiting \union BeforeIntent
  /\ pc' \notin {"checkpoint", "intent", "apply_replace"}
  /\ Waits \/ Records \/ Reloads \/ Probes

\* A journal write, whether it succeeds, fails, or lands and reports failure.
LEMMA WriteKind ==
  ASSUME NEW state \in States, NEW flag \in BOOLEAN,
         Transitions(state, flag) \/ TransitionFails(state, flag),
         state = "verification_succeeded" => pc = "verify_settle",
         state = "rollback_verification_succeeded" => pc = "rollback_verify_settle"
  PROVE  Waits \/ Records
<1>1. /\ UNCHANGED <<grant, loaded, quiet, applyVars>>
      /\ \/ record' = record
         \/ Accepts(state, flag) /\ record' = Successor(record, state, flag)
  BY DEF Transitions, TransitionFails, haVars
<1> QED
  BY <1>1 DEF Waits, Records

LEMMA RollbackIntentKind ==
  ASSUME TypeOK, NEW b \in BOOLEAN, RollbackIntentAfter(b)
  PROVE  /\ Waits \/ Records
         /\ pc' \in {"restore", "manual"}
<1> DEFINE flag == ShouldRequireRollbackReload(cur, b)
<1>1. flag \in BOOLEAN /\ "rollback_intent" \in States
  BY FlagType DEF TypeOK, States
<1>2. \/ Transitions("rollback_intent", flag) /\ Carry("restore")
      \/ TransitionFails("rollback_intent", flag) /\ Catch
  BY DEF RollbackIntentAfter
<1> HIDE DEF flag
<1> QED
  BY <1>1, <1>2, WriteKind DEF Carry, Catch, Goto

LEMMA ProbeKind ==
  ASSUME Ledger, pc \in {"verify", "rollback_verify"},
         NEW bytes \in {"candidate", "checkpoint"}, ReadsBefore(bytes)
  PROVE  Probes
<1>1. cur = record /\ record # NoRecord
  BY DEF Ledger, CurIsLatest, CurIsHeld, Unsynced, BeforeIntent
<1>2. record \in Record /\ record.state \notin TerminalStates
  BY <1>1 DEF Ledger, JournalIsLegal, LegalRecord, ReadsBefore, VerificationStateIsLegal,
     TerminalStates
<1> QED
  BY <1>2 DEF Probes, ReadsBefore, haVars

LEMMA ApplyInner ==
  ASSUME ClassifyApply \/ CommitApply \/ UnknownRollbackIntent PROVE InnerStep
<1> USE DEF Awaiting, BeforeIntent
<1>1. CASE ClassifyApply
  BY <1>1 DEF ClassifyApply, Goto, Leave, haVars, InnerStep, Waits
<1>2. CASE CommitApply
  BY <1>2, WriteKind DEF CommitApply, Settle, Carry, Leave, InnerStep, States
<1>3. CASE UnknownRollbackIntent
  BY <1>3, WriteKind DEF UnknownRollbackIntent, Settle, Carry, Leave, InnerStep, States
<1> QED
  BY <1>1, <1>2, <1>3

LEMMA PostCommitInner == ASSUME TypeOK, Ledger, FinishPostCommit PROVE InnerStep
<1> USE DEF Awaiting, BeforeIntent, InnerStep
<1>1. CASE PostValidate
  BY <1>1, WriteKind DEF PostValidate, Settle, FailTo, Answers, Carry, Goto, States,
     Waits, coreVars
<1>2. CASE ReloadIntent
  BY <1>2, WriteKind DEF ReloadIntent, Settle, FailTo, Carry, Goto, States
<1>3. CASE ReloadNotDispatched
  BY <1>3, RollbackIntentKind DEF ReloadNotDispatched
<1>4. CASE ReloadDomain
  BY <1>4 DEF ReloadDomain, Goto, Waits, Reloads
<1>5. CASE ReloadSettle
  BY <1>5, WriteKind DEF ReloadSettle, Settle, FailTo, Carry, Goto, States
<1>6. CASE Verify
  BY <1>6, ProbeKind DEF Verify, Answers, Goto, Waits, coreVars
<1>7. CASE VerifyLoaded \/ VerifyFinal
  BY <1>7 DEF VerifyLoaded, VerifyFinal, Answers, Goto, Waits, coreVars
<1>8. CASE VerifySettle
  BY <1>8, WriteKind DEF VerifySettle, FailTo, Leave, Goto, States
<1> QED
  BY <1>1, <1>2, <1>3, <1>4, <1>5, <1>6, <1>7, <1>8 DEF FinishPostCommit

LEMMA RollbackInner ==
  ASSUME TypeOK, Ledger, RollbackIntent \/ ClassifyRestore \/ RestoreCommit PROVE InnerStep
<1> USE DEF Awaiting, BeforeIntent, InnerStep
<1>1. CASE RollbackIntent
  BY <1>1, RollbackIntentKind DEF RollbackIntent
<1>2. CASE ClassifyRestore
  BY <1>2 DEF ClassifyRestore, Goto, InnerManual, Catch, Waits, haVars
<1>3. CASE RestoreCommit
  BY <1>3, WriteKind DEF RestoreCommit, Catch, Goto, States
<1> QED
  BY <1>1, <1>2, <1>3

LEMMA CompleteInner == ASSUME TypeOK, Ledger, CompleteRollback PROVE InnerStep
<1> USE DEF Awaiting, BeforeIntent, InnerStep
<1>0. \A r : ValidationStep(r) \notin {"checkpoint", "intent", "apply_replace"}
  BY DEF ValidationStep
<1>1. CASE CompleteIntent
  <2> DEFINE flag == ShouldRequireRollbackReload(cur, FALSE)
  <2>1. flag \in BOOLEAN /\ "rollback_intent" \in States
    BY FlagType DEF TypeOK, States
  <2>2. /\ pc = "complete_intent"
        /\ \/ Transitions("rollback_intent", flag) /\ Carry("complete_commit")
           \/ TransitionFails("rollback_intent", flag) /\ Catch
    BY <1>1 DEF CompleteIntent
  <2> HIDE DEF flag
  <2> QED  BY <2>1, <2>2, WriteKind DEF Carry, Catch, Goto
<1>2. CASE CompleteCommit
  BY <1>2, WriteKind DEF CompleteCommit, Settle, CatchIn, Catch, Carry, Goto, States
<1>3. CASE CompleteLoad
  BY <1>0, <1>3 DEF CompleteLoad, Catch, Goto, Waits, coreVars
<1>4. CASE RollbackValidate
  BY <1>0, <1>4, WriteKind DEF RollbackValidate, Settle, CatchIn, Answers, Catch, Carry,
     Goto, States, Waits, coreVars
<1>5. CASE RollbackReloadIntent
  BY <1>5, WriteKind DEF RollbackReloadIntent, CatchIn, Catch, Goto, States
<1>6. CASE RollbackReload
  BY <1>6 DEF RollbackReload, Catch, Goto, Waits, Reloads
<1>7. CASE RollbackReloadSettle
  BY <1>7, WriteKind DEF RollbackReloadSettle, Propagate, Leave, States
<1>8. CASE RollbackVerify
  BY <1>8, ProbeKind DEF RollbackVerify, Answers, Goto, Waits, coreVars
<1>9. CASE RollbackVerifyLoaded \/ RollbackVerifyFinal
  BY <1>9 DEF RollbackVerifyLoaded, RollbackVerifyFinal, Answers, Goto, Waits, coreVars
<1>10. CASE RollbackVerifySettle
  BY <1>10, WriteKind DEF RollbackVerifySettle, CatchIn, Catch, Leave, Goto, States
<1> QED
  BY <1>1, <1>2, <1>3, <1>4, <1>5, <1>6, <1>7, <1>8, <1>9, <1>10 DEF CompleteRollback

LEMMA ManualInner == ASSUME Manual PROVE InnerStep
<1> USE DEF Awaiting, BeforeIntent, InnerStep
<1>1. CASE ManualReturnsTerminal \/ ManualReconciles
  BY <1>1 DEF ManualReturnsTerminal, ManualReconciles, Leave, Waits, coreVars
<1>2. CASE ManualSettles
  BY <1>2, WriteKind DEF ManualSettles, Leave, States
<1>3. CASE ManualRethrows
  <2>1. pc = "manual" /\ pc' \in {"manual", "idle"}
    BY <1>3 DEF ManualRethrows, Propagate, Leave
  <2>2. \/ TransitionFails("manual_recovery_required", FALSE)
        \/ UNCHANGED <<record, grant, haVars, quiet, applyVars>>
    BY <1>3 DEF ManualRethrows
  <2> QED  BY <2>1, <2>2, WriteKind DEF States, Waits, haVars
<1> QED
  BY <1>1, <1>2, <1>3 DEF Manual

LEMMA RecoverInner == ASSUME RecoverOne PROVE InnerStep
<1>1. RecoverOneStep(cur) \notin {"checkpoint", "intent", "apply_replace"}
  BY DEF RecoverOneStep
<1> QED
  BY <1>1 DEF RecoverOne, Goto, Leave, Awaiting, BeforeIntent, InnerStep, Waits, haVars

-----------------------------------------------------------------------------
(* Announced is kept *)

LEMMA InnerAnnounced ==
  ASSUME TypeOK, Ledger, Safe, Announced, InnerStep PROVE Announced'
<1>1. helper = NoHelper /\ record # NoRecord
  BY DEF InnerStep, Safe, HelperHasParent, Awaiting, BeforeIntent, Ledger, CurIsHeld
<1>2. UNCHANGED <<helper, landed, grant>>
  BY DEF InnerStep, Waits, Records, Reloads, Probes, applyVars
<1>3. record' # NoRecord
  BY <1>1 DEF InnerStep, Waits, Records, Reloads, Probes, Successor, NoRecord, States
<1>4. HelperHasIntent'
  BY <1>1, <1>2 DEF HelperHasIntent
<1>5. GrantIsSpent'
  BY <1>1, <1>2 DEF Announced, GrantIsSpent
<1>6. LandsOnce'
  BY <1>1, <1>2, <1>3 DEF LandsOnce, NoHelper, InnerStep
<1> QED
  BY <1>4, <1>5, <1>6 DEF Announced

\* The steps that start and end a call or a helper, and the environment's.
LEMMA OuterAnnounced ==
  ASSUME TypeOK, Ledger, Safe, Announced, ~OrphanOverlaps,
         \/ ConsumeApplyGrant \/ CreateCheckpoint \/ CreateIntent
         \/ ApplyCandidate \/ ApplyReturns \/ RestoreCheckpoint \/ RestoreReturns
         \/ Approve \/ StartApply \/ StartRecover \/ HelperSteps \/ OrphanExits
         \/ Crash \/ OutsideEdit \/ HomeAssistantReloads
  PROVE  Announced'
<1> USE DEF Announced, HelperHasIntent, GrantIsSpent, LandsOnce
<1>1. CASE ConsumeApplyGrant
  <2>1. /\ UNCHANGED <<record, helper, landed>> /\ record = NoRecord
        /\ pc' = "checkpoint" => grant' = "consumed"
        /\ pc' \in {"checkpoint", "idle"}
    BY <1>1 DEF ConsumeApplyGrant, applyVars, Goto, Leave, Ledger, IntentIsFirst, BeforeIntent
  <2> QED  BY <2>1
<1>2. CASE CreateCheckpoint
  BY <1>2 DEF CreateCheckpoint, applyVars, coreVars, Goto, Leave
<1>3. CASE CreateIntent
  <2>1. /\ UNCHANGED <<grant, helper, landed>> /\ pc = "intent" /\ record = NoRecord
        /\ pc' \in {"apply_replace", "idle"}
    BY <1>3 DEF CreateIntent, applyVars, Leave, Ledger, IntentIsFirst, BeforeIntent
  <2>2. helper = NoHelper
    BY <2>1 DEF Safe, HelperHasParent, Awaiting
  <2> QED  BY <2>1, <2>2 DEF NoHelper
<1>4. CASE ApplyCandidate
  <2>1. /\ UNCHANGED <<record, grant, landed>> /\ pc = "apply_replace"
        /\ pc' \in {"apply_await", "idle"}
        /\ helper' = helper \/ helper'.content = "candidate"
    BY <1>4 DEF ApplyCandidate, Spawn, applyVars, coreVars, Goto, Leave
  <2>2. record.state = "intent_prepared" /\ record # NoRecord
    BY <2>1 DEF Ledger, CurIsLatest, CurIsHeld, DueAt, Unsynced, BeforeIntent
  <2> QED  BY <2>1, <2>2 DEF Announces
<1>5. CASE ApplyReturns \/ RestoreReturns
  <2>1. /\ UNCHANGED <<record, grant, landed>> /\ helper' = NoHelper
        /\ pc \in Awaiting
        /\ pc' \notin {"checkpoint", "intent", "apply_replace"}
    BY <1>5 DEF ApplyReturns, RestoreReturns, Reap, coreVars, Goto, Leave, InnerManual, Awaiting
  <2>2. record # NoRecord
    BY <2>1 DEF Ledger, CurIsHeld, Awaiting, BeforeIntent
  <2> QED  BY <2>1, <2>2 DEF NoHelper
<1>6. CASE RestoreCheckpoint
  <2>1. /\ UNCHANGED <<record, grant, landed>> /\ pc = "restore"
        /\ pc' \in {"restore_await", "manual"}
        /\ helper' = helper \/ helper'.content = "checkpoint"
    BY <1>6 DEF RestoreCheckpoint, Spawn, applyVars, coreVars, Goto, Catch, InnerManual
  <2>2. record.state = "rollback_intent" /\ record # NoRecord
    BY <2>1 DEF Ledger, CurIsLatest, CurIsHeld, DueAt, Unsynced, BeforeIntent
  <2> QED  BY <2>1, <2>2 DEF Announces
<1>7. CASE Approve
  <2>1. record = NoRecord /\ pc = "idle" /\ UNCHANGED <<record, pc, helper, landed>>
    BY <1>7 DEF Approve, applyVars, procVars
  <2> QED  BY <2>1
<1>8. CASE StartApply \/ StartRecover \/ Crash
  BY <1>8 DEF StartApply, StartRecover, Crash, Goto, Leave, applyVars, coreVars
<1>9. CASE HelperSteps
  <2>1. UNCHANGED <<pc, record, grant>> /\ helper # NoHelper /\ HelperNext
    BY <1>9, HelperAlive DEF HelperSteps, procVars, coreVars
  <2>2. record.state = Announces(helper.content)
    BY <2>1
  <2>3. record # NoRecord /\ pc # "apply_replace"
    BY <2>1, <2>2 DEF Announces, NoRecord, Safe, HelperHasParent, Awaiting
  <2>4. /\ helper'.content = helper.content
        /\ \/ helper'.stage = "exchanged"
           \/ landed' = landed /\ (helper'.stage \in {"running", "staged", "armed"} =>
                                     helper.stage \in {"running", "staged", "armed"})
    <3>1. ASSUME NEW s, Stage(s)
          PROVE  helper'.content = helper.content /\ helper'.stage = s
      BY <3>1 DEF Stage, TypeOK, ApplyTypeOK
    <3> QED
      BY <2>1, <3>1 DEF HelperNext, HelperStage, HelperRefuse, HelperArm, HelperBackOut,
         HelperExchange, HelperExchangeFails, HelperFinish, HelperUncertain, HelperKilled
  <2> QED  BY <2>1, <2>2, <2>3, <2>4
<1>10. CASE OrphanExits
  BY <1>10 DEF OrphanExits, Reap, procVars, coreVars, NoHelper
<1>11. CASE OutsideEdit \/ HomeAssistantReloads
  BY <1>11 DEF OutsideEdit, EditorWrite, HomeAssistantReloads, procVars, haVars, applyVars
<1> QED
  BY <1>1, <1>2, <1>3, <1>4, <1>5, <1>6, <1>7, <1>8, <1>9, <1>10, <1>11

LEMMA StepKinds ==
  ASSUME TypeOK, Ledger, Next
  PROVE  \/ InnerStep
         \/ ConsumeApplyGrant \/ CreateCheckpoint \/ CreateIntent
         \/ ApplyCandidate \/ ApplyReturns \/ RestoreCheckpoint \/ RestoreReturns
         \/ Approve \/ StartApply \/ StartRecover \/ HelperSteps \/ OrphanExits
         \/ Crash \/ OutsideEdit \/ HomeAssistantReloads
  BY ApplyInner, PostCommitInner, RollbackInner, CompleteInner, ManualInner, RecoverInner
     DEF Next, Coordinate, Apply, RollbackAfterCommit

LEMMA AnnouncedStep ==
  ASSUME TypeOK, Ledger, Safe, Announced, ~OrphanOverlaps, [Next]_vars PROVE Announced'
<1>1. CASE UNCHANGED vars
  BY <1>1 DEF vars, Announced, HelperHasIntent, GrantIsSpent, LandsOnce
<1>2. CASE Next
  BY <1>2, StepKinds, InnerAnnounced, OuterAnnounced
<1> QED
  BY <1>1, <1>2

LEMMA AnnouncedInit == Init => Announced
  BY DEF Init, ApplyInit, NoHelper, NoRecord, Announced, HelperHasIntent, GrantIsSpent,
     LandsOnce

Coordinated == TypeOK /\ ReloadHasCaller /\ Ledger /\ Safe /\ Announced

LEMMA CoordinatedCorrect == ASSUME ~OrphanOverlaps PROVE Spec => []Coordinated
<1>1. Init => Coordinated
  BY TypeInit, LedgerInit, SafeInit, AnnouncedInit DEF Coordinated
<1>2. Coordinated /\ [Next]_vars => Coordinated'
  BY TypeStep, ReloadHasCallerStep, LedgerStep, SafeStep, AnnouncedStep DEF Coordinated
<1> QED
  BY <1>1, <1>2, PTL DEF Spec

\* Only the exchange puts a helper into its stage `exchanged'.
LEMMA OnlyExchange ==
  ASSUME TypeOK, Ledger, Next, helper'.stage = "exchanged", helper.stage # "exchanged"
  PROVE  HelperExchange
<1>1. ASSUME InnerStep PROVE FALSE
  BY <1>1 DEF InnerStep, Waits, Records, Reloads, Probes, applyVars
<1>2. ASSUME HelperSteps PROVE HelperExchange
  <2>1. ASSUME NEW s, Stage(s) PROVE helper'.stage = s
    BY <2>1 DEF Stage, TypeOK, ApplyTypeOK
  <2> QED
    BY <1>2, <2>1 DEF HelperSteps, HelperNext, HelperStage, HelperRefuse, HelperArm,
       HelperBackOut, HelperExchangeFails, HelperFinish, HelperUncertain, HelperKilled
<1>3. ASSUME \/ ConsumeApplyGrant \/ CreateCheckpoint \/ CreateIntent
             \/ ApplyCandidate \/ ApplyReturns \/ RestoreCheckpoint \/ RestoreReturns
             \/ Approve \/ StartApply \/ StartRecover \/ OrphanExits
             \/ Crash \/ OutsideEdit \/ HomeAssistantReloads
      PROVE  FALSE
  BY <1>3 DEF ConsumeApplyGrant, CreateCheckpoint, CreateIntent, ApplyCandidate,
     ApplyReturns, RestoreCheckpoint, RestoreReturns, Approve, StartApply, StartRecover,
     OrphanExits, Crash, OutsideEdit, EditorWrite, HomeAssistantReloads, Spawn, Reap,
     NoHelper, coreVars, applyVars
<1> QED
  BY <1>1, <1>2, <1>3, StepKinds

\* Write-ahead, for the helper process and not only for the call that spawned
\* it: the live file changes hands only under a used-up grant and a durable
\* record announcing the very content put in place, even when the parent died.
THEOREM EffectsAnnounced == ASSUME ~OrphanOverlaps PROVE Spec => EffectsAreAnnounced
<1>1. ASSUME Coordinated, Next, helper'.stage = "exchanged", helper.stage # "exchanged"
      PROVE  /\ grant = "consumed"
             /\ record.state = IF helper.content = "candidate" THEN "intent_prepared"
                               ELSE "rollback_intent"
  <2>1. HelperExchange
    BY <1>1, OnlyExchange DEF Coordinated
  <2>2. helper # NoHelper
    BY <2>1 DEF HelperExchange, NoHelper
  <2>3. record.state = Announces(helper.content)
    BY <1>1, <2>2 DEF Coordinated, Announced, HelperHasIntent
  <2>4. record # NoRecord
    BY <2>3 DEF Announces, NoRecord
  <2> QED
    BY <1>1, <2>3, <2>4 DEF Coordinated, Announced, GrantIsSpent, Announces
<1>2. Coordinated /\ [Next]_vars =>
        [helper'.stage = "exchanged" /\ helper.stage # "exchanged" =>
           /\ grant = "consumed"
           /\ record.state = IF helper.content = "candidate" THEN "intent_prepared"
                             ELSE "rollback_intent"]_vars
  BY <1>1
<1> QED
  BY CoordinatedCorrect, <1>2, PTL DEF Spec, EffectsAreAnnounced

-----------------------------------------------------------------------------
(* Every step keeps the promise, or is invisible to the caller *)

PromiseStep == Promise!Next \/ UNCHANGED Promise!outcomeVars

OpenStates == States \ TerminalStates

LEMMA Outcomes ==
  /\ record = NoRecord => Outcome = "none"
  /\ record # NoRecord /\ record.state \in OpenStates => Outcome = "open"
  BY DEF Outcome, OpenStates, TerminalStates, NoRecord, States

LEMMA OutcomesNext ==
  /\ record' = NoRecord => Outcome' = "none"
  /\ record' # NoRecord =>
       /\ record'.state \in OpenStates => Outcome' = "open"
       /\ record'.state = "verification_succeeded" => Outcome' = "verified"
       /\ record'.state = "rollback_verification_succeeded" => Outcome' = "rolled_back"
       /\ record'.state = "manual_recovery_required" => Outcome' = "blocked"
  BY DEF Outcome, OpenStates, TerminalStates, NoRecord, States

LEMMA InvisibleStep ==
  ASSUME UNCHANGED <<record, live, loaded, landed, quiet>> PROVE PromiseStep
  BY DEF PromiseStep, Promise!outcomeVars, Outcome

LEMMA LoadStep ==
  ASSUME loaded' = Loads, UNCHANGED <<record, live, landed, quiet>> PROVE PromiseStep
<1>1. Promise!Load
  BY DEF Promise!Load, Outcome, Loads
<1> QED
  BY <1>1 DEF PromiseStep, Promise!Next

LEMMA RecordStep ==
  ASSUME TypeOK, Ledger, Safe, pc \notin BeforeIntent, Records PROVE PromiseStep
<1>1. PICK state \in States, flag \in BOOLEAN :
        /\ Accepts(state, flag) /\ record' = Successor(record, state, flag)
        /\ state = "verification_succeeded" => pc = "verify_settle"
        /\ state = "rollback_verification_succeeded" => pc = "rollback_verify_settle"
  BY DEF Records
<1>2. UNCHANGED <<live, loaded, landed, quiet>>
  BY DEF Records, applyVars
<1>3. record # NoRecord /\ record.state \in OpenStates
  <2>1. record # NoRecord /\ LegalRecord(record)
    BY DEF Ledger, JournalIsLegal, CurIsHeld
  <2> QED  BY <1>1, <2>1, LegalSuccessor DEF Accepts, OpenStates
<1>4. record' # NoRecord /\ record'.state = state
      /\ (record'.reloadTarget # "none") = (record.reloadTarget # "none")
  BY <1>1 DEF Successor, NoRecord, States
<1>5. Outcome = "open"
  BY <1>3, Outcomes
<1>6. CASE state \in OpenStates
  <2>1. Outcome' = Outcome
    BY <1>4, <1>5, <1>6, OutcomesNext
  <2> QED  BY <1>2, <1>4, <2>1 DEF PromiseStep, Promise!outcomeVars
<1>7. CASE state = "manual_recovery_required"
  <2>1. Outcome' = "blocked"
    BY <1>4, <1>7, OutcomesNext
  <2>2. Promise!Block
    BY <1>2, <1>4, <1>5, <2>1 DEF Promise!Block
  <2> QED  BY <2>2 DEF PromiseStep, Promise!Next
<1>8. CASE state = "verification_succeeded"
  <2>1. Outcome' = "verified"
    BY <1>4, <1>8, OutcomesNext
  <2>2. quiet => InPlace("candidate")
    BY <1>1, <1>8 DEF Safe, Inspected
  <2>3. Promise!SettleAs("verified", "candidate")
    BY <1>2, <1>4, <1>5, <2>1, <2>2 DEF Promise!SettleAs, Promise!InPlace, InPlace
  <2> QED  BY <2>3 DEF PromiseStep, Promise!Next
<1>9. CASE state = "rollback_verification_succeeded"
  <2>1. Outcome' = "rolled_back"
    BY <1>4, <1>9, OutcomesNext
  <2>2. quiet => InPlace("checkpoint")
    BY <1>1, <1>9 DEF Safe, Inspected
  <2>3. Promise!SettleAs("rolled_back", "checkpoint")
    BY <1>2, <1>4, <1>5, <2>1, <2>2 DEF Promise!SettleAs, Promise!InPlace, InPlace
  <2> QED  BY <2>3 DEF PromiseStep, Promise!Next
<1> QED
  BY <1>1, <1>6, <1>7, <1>8, <1>9 DEF OpenStates, TerminalStates

LEMMA InnerPromise == ASSUME TypeOK, Ledger, Safe, InnerStep PROVE PromiseStep
<1>1. CASE Waits
  BY <1>1, InvisibleStep DEF Waits, applyVars
<1>2. CASE Records
  BY <1>2, RecordStep DEF InnerStep
<1>3. CASE Reloads
  BY <1>3, LoadStep DEF Reloads, applyVars
<1>4. CASE Probes
  <2>1. Outcome = "open" /\ Outcome' = Outcome
    <3>1. record # NoRecord /\ record.state \in OpenStates /\ record' = record
      BY <1>4 DEF Probes, Record, NoRecord, States, OpenStates
    <3> QED  BY <3>1, Outcomes, OutcomesNext
  <2>2. Promise!Inspect
    BY <1>4, <2>1 DEF Promise!Inspect, Probes, applyVars
  <2> QED  BY <2>2 DEF PromiseStep, Promise!Next
<1> QED
  BY <1>1, <1>2, <1>3, <1>4 DEF InnerStep

LEMMA OpenPromise == ASSUME TypeOK, Ledger, CreateIntent PROVE PromiseStep
<1>1. /\ record = NoRecord /\ UNCHANGED <<live, loaded, landed, quiet>>
      /\ \/ record' = record
         \/ \E target \in Targets : record' = IntentRecord(target)
  BY DEF CreateIntent, haVars, applyVars, Ledger, IntentIsFirst, BeforeIntent
<1>2. CASE record' = record
  BY <1>1, <1>2, InvisibleStep
<1>3. CASE \E target \in Targets : record' = IntentRecord(target)
  <2>1. record' # NoRecord /\ record'.state \in OpenStates
    BY <1>3 DEF IntentRecord, NoRecord, OpenStates, States, TerminalStates
  <2>2. Outcome = "none" /\ Outcome' = "open"
    BY <1>1, <2>1, Outcomes, OutcomesNext
  <2>3. (record'.reloadTarget # "none") \in BOOLEAN
    OBVIOUS
  <2>4. Promise!Open
    BY <1>1, <2>2, <2>3 DEF Promise!Open
  <2> QED  BY <2>4 DEF PromiseStep, Promise!Next
<1> QED
  BY <1>1, <1>2, <1>3

\* The exchange: the candidate lands at most once, and both contents only while
\* the transaction is open.
LEMMA HelperPromise ==
  ASSUME TypeOK, Ledger, Safe, Announced, HelperSteps PROVE PromiseStep
<1>1. UNCHANGED <<record, loaded, quiet>> /\ HelperNext
  BY DEF HelperSteps, coreVars
<1>2. CASE HelperExchange
  <2>1. helper # NoHelper /\ helper.stage = "armed" /\ live' = helper.content
        /\ landed' = landed + (IF helper.content = "candidate" THEN 1 ELSE 0)
    BY <1>2 DEF HelperExchange, NoHelper
  <2>2. record # NoRecord /\ record.state \in OpenStates
    BY <2>1 DEF Announced, HelperHasIntent, Announces, NoRecord, OpenStates, States,
       TerminalStates
  <2>3. Outcome = "open" /\ Outcome' = Outcome
    BY <1>1, <2>2, Outcomes, OutcomesNext
  <2>4. CASE helper.content = "candidate"
    <3>1. landed = 0
      BY <2>1, <2>4 DEF Announced, LandsOnce
    <3>2. Promise!Put
      BY <1>1, <2>1, <2>3, <2>4, <3>1 DEF Promise!Put
    <3> QED  BY <3>2 DEF PromiseStep, Promise!Next
  <2>5. CASE helper.content = "checkpoint"
    <3>1. landed' = landed
      BY <2>1, <2>5 DEF TypeOK, ApplyTypeOK
    <3>2. Promise!Restore
      BY <1>1, <2>1, <2>3, <2>5, <3>1 DEF Promise!Restore
    <3> QED  BY <3>2 DEF PromiseStep, Promise!Next
  <2> QED  BY <2>4, <2>5 DEF TypeOK, ApplyTypeOK
<1>3. CASE ~HelperExchange
  <2>1. UNCHANGED <<live, landed>>
    BY <1>1, <1>3 DEF HelperNext, HelperStage, HelperRefuse, HelperArm, HelperBackOut,
       HelperExchangeFails, HelperFinish, HelperUncertain, HelperKilled
  <2> QED  BY <1>1, <2>1, InvisibleStep
<1> QED
  BY <1>2, <1>3

LEMMA OuterPromise ==
  ASSUME TypeOK, Ledger, Safe, Announced,
         \/ ConsumeApplyGrant \/ CreateCheckpoint \/ CreateIntent
         \/ ApplyCandidate \/ ApplyReturns \/ RestoreCheckpoint \/ RestoreReturns
         \/ Approve \/ StartApply \/ StartRecover \/ HelperSteps \/ OrphanExits
         \/ Crash \/ OutsideEdit \/ HomeAssistantReloads
  PROVE  PromiseStep
<1>1. CASE \/ ConsumeApplyGrant \/ CreateCheckpoint \/ Approve \/ StartApply
           \/ StartRecover \/ Crash
  <2>1. UNCHANGED <<record, live, loaded, landed, quiet>>
    BY <1>1 DEF ConsumeApplyGrant, CreateCheckpoint, Approve, StartApply, StartRecover,
       Crash, coreVars, haVars, applyVars
  <2> QED  BY <2>1, InvisibleStep
<1>2. CASE \/ ApplyCandidate \/ ApplyReturns \/ RestoreCheckpoint \/ RestoreReturns
           \/ OrphanExits
  <2>1. UNCHANGED <<record, live, loaded, landed, quiet>>
    BY <1>2 DEF ApplyCandidate, ApplyReturns, RestoreCheckpoint, RestoreReturns,
       OrphanExits, Spawn, Reap, coreVars, applyVars
  <2> QED  BY <2>1, InvisibleStep
<1>3. CASE CreateIntent
  BY <1>3, OpenPromise
<1>4. CASE HelperSteps
  BY <1>4, HelperPromise
<1>5. CASE OutsideEdit
  <2>1. PICK bytes \in LiveBytes : EditorWrite(bytes)
    BY <1>5 DEF OutsideEdit
  <2>2. /\ live' \in {"checkpoint", "candidate", "other", "missing"}
        /\ UNCHANGED <<record, loaded, landed>> /\ quiet' = FALSE
    BY <1>5, <2>1 DEF OutsideEdit, EditorWrite, haVars, LiveBytes, Bytes
  <2>3. Outcome' = Outcome
    BY <2>2 DEF Outcome
  <2>4. Promise!Edit
    BY <2>2, <2>3 DEF Promise!Edit
  <2> QED  BY <2>4 DEF PromiseStep, Promise!Next
<1>6. CASE HomeAssistantReloads
  BY <1>6, LoadStep DEF HomeAssistantReloads, applyVars
<1> QED
  BY <1>1, <1>2, <1>3, <1>4, <1>5, <1>6

\* The coordinator with its journal, helper, crashes and recoveries implements
\* the outcome a caller is promised (Phase3Outcome): the candidate lands at most
\* once and only while the transaction is open, a settled outcome is final, and
\* it is true of the file and of Home Assistant when it is given.
THEOREM PromiseKept == ASSUME ~OrphanOverlaps PROVE Spec => KeepsPromise
<1>1. Init => Promise!Init
  BY DEF Init, ApplyInit, Promise!Init, Outcome, NoRecord
<1>2. Coordinated /\ [Next]_vars => [Promise!Next]_Promise!outcomeVars
  <2>1. ASSUME Coordinated, Next PROVE PromiseStep
    BY <2>1, StepKinds, InnerPromise, OuterPromise DEF Coordinated
  <2>2. ASSUME UNCHANGED vars PROVE PromiseStep
    BY <2>2, InvisibleStep DEF vars
  <2> QED  BY <2>1, <2>2 DEF PromiseStep
<1> QED
  BY CoordinatedCorrect, <1>1, <1>2, PTL DEF Spec, KeepsPromise, Promise!Spec

-----------------------------------------------------------------------------
(* How long a transaction's history grows *)

\* The most records that can come before one of each state.
Depth ==
  [state \in States |->
     CASE state = "intent_prepared" -> 0
       [] state = "apply_committed" -> 1
       [] state = "post_validation_succeeded" -> 2
       [] state = "reload_intent" -> 3
       [] state = "reload_succeeded" -> 4
       [] state = "rollback_intent" -> 5
       [] state = "rollback_committed" -> 6
       [] state = "rollback_validation_succeeded" -> 7
       [] state = "rollback_reload_intent" -> 8
       [] state = "rollback_reload_succeeded" -> 9
       [] OTHER -> 10]

DepthBounds == record # NoRecord => record.version <= Depth[record.state]
HistoryIsShort == record.version <= 10

LEMMA Deeper ==
  ASSUME NEW before \in States, NEW after \in LegalTransitions[before]
  PROVE  /\ after \in States
         /\ Depth[before] \in 0..10 /\ Depth[after] \in 0..10
         /\ Depth[before] + 1 <= Depth[after]
<1> USE DEF LegalTransitions, Onward, TerminalStates, States
<1>1. after \in States
  OBVIOUS
<1> QED
  BY <1>1 DEF Depth

LEMMA DepthStep ==
  ASSUME TypeOK, Ledger, DepthBounds, [Next]_vars PROVE DepthBounds'
<1>1. CASE record' = record
  BY <1>1 DEF DepthBounds
<1>2. CASE CreateIntent
  <2>1. record' = record \/ \E target \in Targets : record' = IntentRecord(target)
    BY <1>2 DEF CreateIntent
  <2>2. Depth["intent_prepared"] = 0
    BY DEF Depth, States
  <2> QED  BY <1>1, <2>1, <2>2 DEF IntentRecord, DepthBounds
<1>3. CASE Records
  <2>1. PICK state \in States, flag \in BOOLEAN :
          Accepts(state, flag) /\ record' = Successor(record, state, flag)
    BY <1>3 DEF Records
  <2>2. record # NoRecord /\ record \in Record
    BY <2>1 DEF Accepts, Ledger, JournalIsLegal, LegalRecord
  <2>3. /\ record.state \in States /\ record.version \in Nat
        /\ state \in LegalTransitions[record.state]
    BY <2>1, <2>2 DEF Record, Accepts, CanRecordTransition, Successor
  <2>4. record'.state = state /\ record'.version = record.version + 1
    BY <2>1 DEF Successor
  <2> QED  BY <2>2, <2>3, <2>4, Deeper DEF DepthBounds
<1>4. ASSUME \/ Waits \/ Reloads \/ Probes
             \/ ConsumeApplyGrant \/ CreateCheckpoint
             \/ ApplyCandidate \/ ApplyReturns \/ RestoreCheckpoint \/ RestoreReturns
             \/ Approve \/ StartApply \/ StartRecover \/ HelperSteps \/ OrphanExits
             \/ Crash \/ OutsideEdit \/ HomeAssistantReloads \/ UNCHANGED vars
      PROVE  record' = record
  BY <1>4 DEF Waits, Reloads, Probes, ConsumeApplyGrant, CreateCheckpoint, ApplyCandidate,
     ApplyReturns, RestoreCheckpoint, RestoreReturns, Approve, StartApply, StartRecover,
     HelperSteps, OrphanExits, Crash, OutsideEdit, EditorWrite, HomeAssistantReloads,
     coreVars, vars
<1> QED
  BY <1>1, <1>2, <1>3, <1>4, StepKinds DEF InnerStep

\* However often the process dies, recovers and tries again, a transaction
\* never writes more than eleven records: the reader's bound on a history
\* (journal.ts:36, 511) is out of the coordinator's reach, which is why the
\* model has none.
THEOREM HistoriesStayShort == Spec => []HistoryIsShort
<1>1. Init => DepthBounds
  BY DEF Init, DepthBounds
<1>2. TypeOK /\ Ledger /\ DepthBounds /\ [Next]_vars => DepthBounds'
  BY DepthStep
<1>3. Ledger /\ DepthBounds => HistoryIsShort
  <2>1. \A state \in States : Depth[state] \in 0..10
    BY DEF Depth, States
  <2>2. 10 \in Nat /\ NoRecord.version = 0
    BY DEF NoRecord
  <2> QED
    BY <2>1, <2>2 DEF Ledger, JournalIsLegal, LegalRecord, DepthBounds, HistoryIsShort,
       Record
<1> QED
  BY LedgerCorrect, <1>1, <1>2, <1>3, PTL DEF Spec
===============================================================================
