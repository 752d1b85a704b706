-------------------------- MODULE Phase3Coordinator --------------------------
(***************************************************************************)
(* Phase3ApplyCoordinator: one guarded change of one file, from the apply  *)
(* that consumes its grant to the terminal record, through failures of     *)
(* every port, deaths of the process, and the recoveries that follow.      *)
(*                                                                         *)
(* The coordinator is a sequential program (pc) over a compare-and-swap    *)
(* journal (record), the replace helper and its file (Phase3AtomicApply),  *)
(* and Home Assistant, which runs the configuration it loaded last         *)
(* (loaded).  Reads of the file, effects, and journal writes are separate  *)
(* steps; a check that only looks at memory belongs to the step after it.  *)
(*                                                                         *)
(* `cur' is the record the innermost try block holds in memory, `frames'   *)
(* the records the enclosing try blocks hold: a catch block writes         *)
(* manual_recovery_required from its own block's record, which may be      *)
(* behind the journal.                                                     *)
(***************************************************************************)
EXTENDS Phase3Contracts, Phase3AtomicApply, Sequences

CONSTANTS
  Targets,            \* the reload targets proposals may carry
  CoordinatorErrors,  \* the journal's conflicts are Phase3CoordinatorErrors
  OrphanOverlaps,     \* a command may start while an orphaned helper runs
  MaxFaults           \* crashes, journal and read errors, and outside edits

ASSUME TargetsAssumption == Targets \subseteq ReloadTargets
ASSUME SwitchAssumption == CoordinatorErrors \in BOOLEAN /\ OrphanOverlaps \in BOOLEAN
ASSUME FaultsAssumption == MaxFaults \in Nat

VARIABLES
  pc, cur, frames,  \* the coordinator's control state, lost in a crash
  record,           \* the latest record in the journal
  grant,            \* the apply grant of the epoch
  loaded,           \* the configuration Home Assistant runs
  faults,           \* faults still to come
  reloadStarted,    \* history: a candidate reload may have taken effect
  quiet             \* history: no outside edit since the last probe began

procVars == <<pc, cur, frames>>
haVars == <<loaded, reloadStarted>>
coreVars == <<record, grant, loaded, faults, reloadStarted, quiet>>
vars == <<pc, cur, frames, record, grant, loaded, faults, reloadStarted, quiet,
          live, pending, helper, landed>>

ApplySteps ==
  {"consume", "checkpoint", "intent", "apply_replace", "apply_await",
   "apply_classify", "apply_commit", "unknown_rollback_intent"}
PostCommitSteps ==
  {"post_validate", "reload_intent", "reload", "reload_settle", "verify",
   "verify_loaded", "verify_final", "verify_settle"}
RollbackSteps ==
  {"rollback_intent", "restore", "restore_await", "restore_classify",
   "restore_commit"}
CompleteSteps ==
  {"complete_intent", "complete_commit", "complete_load", "rollback_validate",
   "rollback_reload_intent", "rollback_reload", "rollback_reload_settle",
   "rollback_verify", "rollback_verify_loaded", "rollback_verify_final",
   "rollback_verify_settle"}
Steps ==
  ApplySteps \union PostCommitSteps \union RollbackSteps \union CompleteSteps
    \union {"idle", "recover_read", "manual"}

AnyRecord ==
  [state : States \union {"none"}, priorState : States \union {"none"},
   version : Nat, reloadTarget : ReloadTargets, rollbackReloadRequired : BOOLEAN]

TypeOK ==
  /\ ApplyTypeOK
  /\ pc \in Steps
  /\ cur \in AnyRecord
  /\ frames \in Seq(AnyRecord)
  /\ record \in AnyRecord
  /\ grant \in {"none", "issued", "consumed"}
  /\ loaded \in Bytes
  /\ faults \in Nat
  /\ reloadStarted \in BOOLEAN
  /\ quiet \in BOOLEAN

Init ==
  /\ ApplyInit
  /\ pc = "idle" /\ cur = NoRecord /\ frames = <<>>
  /\ record = NoRecord
  /\ grant = "none"
  /\ loaded = "checkpoint"
  /\ faults = MaxFaults
  /\ reloadStarted = FALSE
  /\ quiet = TRUE

-----------------------------------------------------------------------------
(* Control flow *)

Goto(step) == pc' = step /\ UNCHANGED <<cur, frames>>

\* The call returns or throws: nothing of it stays in memory.
Leave == pc' = "idle" /\ cur' = NoRecord /\ frames' = <<>>

\* An error inside the block that holds cur: its catch asks for manual recovery.
Catch == Goto("manual")

\* An error that leaves the innermost block: the next block out catches it, and
\* writes from the record it holds; outside all blocks the call throws.
Propagate ==
  IF frames = <<>> THEN Leave
  ELSE /\ pc' = "manual" /\ cur' = Head(frames) /\ frames' = Tail(frames)

Spend == faults > 0 /\ faults' = faults - 1

\* journal.transition from cur: compare-and-swap on the version, legality from
\* the durable record.
Accepts(state, flag) ==
  /\ record # NoRecord
  /\ cur.version = record.version
  /\ CanRecordTransition(record, Successor(record, state, flag))

Transitions(state, flag) ==
  /\ Accepts(state, flag)
  /\ record' = Successor(record, state, flag)
  /\ UNCHANGED <<grant, faults, haVars, quiet, applyVars>>

\* It fails: a conflict or an illegal request always, and after a fault either
\* before the link (nothing durable) or after it (journal_commit_unknown).
TransitionFails(state, flag) ==
  /\ \/ ~Accepts(state, flag) /\ UNCHANGED <<record, faults>>
     \/ Accepts(state, flag) /\ Spend
          /\ record' \in {record, Successor(record, state, flag)}
  /\ UNCHANGED <<grant, haVars, quiet, applyVars>>

\* The block carries the new record forward.
Carry(step) == pc' = step /\ cur' = record' /\ UNCHANGED frames

Settle(step, state, next) ==
  /\ pc = step
  /\ Transitions(state, FALSE)
  /\ Carry(next)

-----------------------------------------------------------------------------
(* apply(): everything before the commit point *)

\* A person approves the proposal, for the terminal or the MCP form.
Approve ==
  /\ pc = "idle" /\ record = NoRecord /\ grant # "issued"
  /\ grant' = "issued"
  /\ UNCHANGED <<procVars, record, haVars, faults, quiet, applyVars>>

\* Proposal and policy, the lock, proposal and policy again, the source digest,
\* the candidate and both validations.  A refusal throws and changes nothing.
StartApply ==
  /\ pc = "idle" /\ record = NoRecord /\ grant = "issued"
  /\ helper = NoHelper \/ OrphanOverlaps
  /\ live = "checkpoint"
  /\ Goto("consume")
  /\ UNCHANGED <<coreVars, applyVars>>

\* The single-use grant.  Expiry, a replay, or a store that fails before or
\* after the grant is durably used all throw.
ConsumeApplyGrant ==
  /\ pc = "consume"
  /\ \/ grant' = "consumed" /\ Goto("checkpoint")
     \/ grant' \in {grant, "consumed"} /\ Leave
  /\ UNCHANGED <<record, haVars, faults, quiet, applyVars>>

CreateCheckpoint ==
  /\ pc = "checkpoint"
  /\ Goto("intent") \/ Leave
  /\ UNCHANGED <<coreVars, applyVars>>

CreateIntent ==
  /\ pc = "intent"
  /\ \E target \in Targets :
       \/ /\ record' = IntentRecord(target)
          /\ cur' = record' /\ pc' = "apply_replace" /\ frames' = <<>>
          /\ UNCHANGED faults
       \/ Spend /\ record' \in {record, IntentRecord(target)} /\ Leave
  /\ UNCHANGED <<grant, haVars, quiet, applyVars>>

\* A queue, deadline or spawn error is before_commit: apply() throws and the
\* record stays intent_prepared.
ApplyCandidate ==
  /\ pc = "apply_replace"
  /\ \/ Spawn("candidate") /\ Goto("apply_await")
     \/ Leave /\ UNCHANGED applyVars
  /\ UNCHANGED coreVars

ApplyReturns ==
  /\ pc = "apply_await"
  /\ \/ Reap("before_commit") /\ Leave
     \/ Reap("committed") /\ Goto("apply_commit")
     \/ Reap("commit_unknown") /\ Goto("apply_classify")
  /\ UNCHANGED coreVars

\* commit_unknown: the live digest decides.
ClassifyApply ==
  /\ pc = "apply_classify"
  /\ \/ live = "checkpoint" /\ Goto("unknown_rollback_intent") /\ UNCHANGED faults
     \/ live = "candidate" /\ Goto("apply_commit") /\ UNCHANGED faults
     \/ live \in {"other", "missing"} /\ Goto("manual") /\ UNCHANGED faults
     \/ Spend /\ Leave
  /\ UNCHANGED <<record, grant, haVars, quiet, applyVars>>

CommitApply ==
  \/ Settle("apply_commit", "apply_committed", "post_validate")
  \/ pc = "apply_commit" /\ TransitionFails("apply_committed", FALSE) /\ Leave

\* The checkpoint is live: complete the rollback without restoring any bytes.
UnknownRollbackIntent ==
  \/ Settle("unknown_rollback_intent", "rollback_intent", "complete_commit")
  \/ /\ pc = "unknown_rollback_intent"
     /\ TransitionFails("rollback_intent", FALSE)
     /\ Leave

-----------------------------------------------------------------------------
(* finishPostCommit(): its catch is rollbackAfterCommit(current) *)

FailTo(step, state) ==
  /\ pc = step
  /\ TransitionFails(state, FALSE)
  /\ Goto("rollback_intent")

\* A port answers, well or not, and nothing else changes.
Answers(step, next) ==
  /\ pc = step
  /\ Goto(next)
  /\ UNCHANGED <<coreVars, applyVars>>

PostValidate ==
  \/ Settle("post_validate", "post_validation_succeeded",
            IF cur.reloadTarget = "none" THEN "reload_settle" ELSE "reload_intent")
  \/ FailTo("post_validate", "post_validation_succeeded")
  \/ Answers("post_validate", "rollback_intent")

ReloadIntent ==
  \/ Settle("reload_intent", "reload_intent", "reload")
  \/ FailTo("reload_intent", "reload_intent")

\* Home Assistant reads the file when it reloads.
Loads == IF live = "missing" THEN "other" ELSE live

\* Mutant: a recorded reload is forgotten.
ForgetsReloadSucceeded(r, notDispatched) ==
  /\ r.reloadTarget # "none"
  /\ r.rollbackReloadRequired \/ (r.state = "reload_intent" /\ ~notDispatched)

\* Mutant: a reload of unknown outcome counts as one that did not happen.
ForgetsUnknownReload(r, notDispatched) ==
  /\ r.reloadTarget # "none"
  /\ r.rollbackReloadRequired \/ r.state = "reload_succeeded"

\* The catch block's question: may the candidate reload have started?  Only
\* evidence of a reload that was never dispatched says no.
ShouldRequireRollbackReload(r, notDispatched) ==
  /\ r.reloadTarget # "none"
  /\ \/ r.rollbackReloadRequired
     \/ r.state = "reload_succeeded"
     \/ r.state = "reload_intent" /\ ~notDispatched

\* The rollback_intent of a catch block whose cause is in hand.
RollbackIntentAfter(notDispatched) ==
  LET flag == ShouldRequireRollbackReload(cur, notDispatched)
  IN  \/ Transitions("rollback_intent", flag) /\ Carry("restore")
      \/ TransitionFails("rollback_intent", flag) /\ Catch

\* Resolution refused, or the client was inactive: not dispatched, and the
\* rollback intent that follows in the same catch carries no reload flag.
ReloadNotDispatched == pc = "reload" /\ RollbackIntentAfter(TRUE)

ReloadDomain ==
  /\ pc = "reload"
  /\ \/ loaded' = Loads /\ Goto("reload_settle")
     \/ loaded' \in {loaded, Loads} /\ Goto("rollback_intent")
  /\ reloadStarted' = TRUE
  /\ UNCHANGED <<record, grant, faults, quiet, applyVars>>

ReloadSettle ==
  \/ Settle("reload_settle", "reload_succeeded", "verify")
  \/ FailTo("reload_settle", "reload_succeeded")

VerificationStateIsLegal(r, outcome) ==
  IF outcome = "candidate"
  THEN /\ r.state = "reload_succeeded"
       /\ ~r.rollbackReloadRequired
       /\ r.priorState =
            IF r.reloadTarget = "none" THEN "post_validation_succeeded"
            ELSE "reload_intent"
  ELSE \/ /\ r.state = "rollback_validation_succeeded"
          /\ r.priorState = "rollback_committed"
          /\ ~r.rollbackReloadRequired
       \/ /\ r.state = "rollback_reload_succeeded"
          /\ r.priorState = "rollback_reload_intent"
          /\ r.rollbackReloadRequired
          /\ r.reloadTarget # "none"

\* verify() opens with a digest of the file, which the probe reads again.
ReadsBefore(outcome) ==
  /\ VerificationStateIsLegal(cur, outcome)
  /\ live = outcome
  /\ quiet' = TRUE
  /\ UNCHANGED <<record, grant, faults, haVars, applyVars>>

\* Mutant: a reload that was acknowledged is taken for a probe that matched.
LoadedIsAssumed(outcome) == TRUE

\* The probe: Home Assistant runs exactly the automations the file defines.  A
\* change without a reload target makes no claim about the running system.
LoadedIs(outcome) == cur.reloadTarget # "none" => loaded = outcome

Verify ==
  \/ pc = "verify" /\ ReadsBefore("candidate") /\ Goto("verify_loaded")
  \/ Answers("verify", "rollback_intent")

VerifyLoaded ==
  \/ LoadedIs("candidate") /\ Answers("verify_loaded", "verify_final")
  \/ Answers("verify_loaded", "rollback_intent")

VerifyFinal ==
  \/ live = "candidate" /\ Answers("verify_final", "verify_settle")
  \/ Answers("verify_final", "rollback_intent")

VerifySettle ==
  \/ /\ pc = "verify_settle"
     /\ Transitions("verification_succeeded", FALSE)
     /\ Leave
  \/ FailTo("verify_settle", "verification_succeeded")

FinishPostCommit ==
  \/ PostValidate \/ ReloadIntent \/ ReloadNotDispatched \/ ReloadDomain
  \/ ReloadSettle \/ Verify \/ VerifyLoaded \/ VerifyFinal \/ VerifySettle

-----------------------------------------------------------------------------
(* rollbackAfterCommit() and restoreCheckpointAfterRollbackIntent() *)

RollbackIntent ==
  /\ pc = "rollback_intent"
  /\ cur.state # "rollback_intent"
  /\ RollbackIntentAfter(FALSE)

\* The restore has a manual() of its own inside the block that holds cur.
InnerManual == pc' = "manual" /\ cur' = cur /\ frames' = <<cur>> \o frames

RestoreCheckpoint ==
  /\ pc = "restore"
  /\ \/ Spawn("checkpoint") /\ Goto("restore_await")
     \/ (Catch \/ InnerManual) /\ UNCHANGED applyVars
  /\ UNCHANGED coreVars

\* Mutant: a refused restore is left for the next recovery to retry.
RestoreReturnsRetryable ==
  /\ pc = "restore_await"
  /\ \/ Reap("before_commit") /\ Leave
     \/ Reap("committed") /\ Goto("restore_commit")
     \/ Reap("commit_unknown") /\ Goto("restore_classify")
  /\ UNCHANGED coreVars

RestoreReturns ==
  /\ pc = "restore_await"
  /\ \/ Reap("before_commit") /\ InnerManual
     \/ Reap("committed") /\ Goto("restore_commit")
     \/ Reap("commit_unknown") /\ Goto("restore_classify")
  /\ UNCHANGED coreVars

ClassifyRestore ==
  /\ pc = "restore_classify"
  /\ \/ live = "checkpoint" /\ Goto("restore_commit") /\ UNCHANGED faults
     \/ live # "checkpoint" /\ InnerManual /\ UNCHANGED faults
     \/ Spend /\ Catch
  /\ UNCHANGED <<record, grant, haVars, quiet, applyVars>>

\* Rollback validation runs in a block of its own, under this one.
RestoreCommit ==
  /\ pc = "restore_commit"
  /\ \/ /\ Transitions("rollback_committed", FALSE)
        /\ pc' = "rollback_validate" /\ cur' = record' /\ frames' = <<cur>> \o frames
     \/ TransitionFails("rollback_committed", FALSE) /\ Catch

RollbackAfterCommit ==
  \/ RollbackIntent \/ RestoreCheckpoint \/ RestoreReturns
  \/ ClassifyRestore \/ RestoreCommit

-----------------------------------------------------------------------------
(* completeRollbackValidation() and what it shares with the restore *)

CatchIn(step, state) ==
  /\ pc = step
  /\ TransitionFails(state, FALSE)
  /\ Catch

CompleteIntent ==
  /\ pc = "complete_intent"
  /\ LET flag == ShouldRequireRollbackReload(cur, FALSE)
     IN  \/ Transitions("rollback_intent", flag) /\ Carry("complete_commit")
         \/ TransitionFails("rollback_intent", flag) /\ Catch

CompleteCommit ==
  \/ Settle("complete_commit", "rollback_committed", "complete_load")
  \/ CatchIn("complete_commit", "rollback_committed")

\* Mutant: recovery resumes after validation without the rollback reload.
ValidationStepSkipsReload(r) ==
  IF r.state = "rollback_committed" THEN "rollback_validate" ELSE "rollback_verify"

\* Where rollback validation picks up a record.
ValidationStep(r) ==
  CASE r.state = "rollback_committed" -> "rollback_validate"
    [] /\ r.state = "rollback_validation_succeeded"
       /\ r.rollbackReloadRequired
       /\ r.reloadTarget # "none" -> "rollback_reload_intent"
    [] OTHER -> "rollback_verify"

\* The checkpoint loads and has the recorded digest, or the catch runs.
CompleteLoad ==
  /\ pc = "complete_load"
  /\ \/ pc' = ValidationStep(cur) /\ cur' = cur /\ frames' = <<cur>> \o frames
     \/ Catch
  /\ UNCHANGED <<coreVars, applyVars>>

RollbackValidate ==
  \/ Settle("rollback_validate", "rollback_validation_succeeded",
            ValidationStep(Successor(cur, "rollback_validation_succeeded", FALSE)))
  \/ CatchIn("rollback_validate", "rollback_validation_succeeded")
  \/ Answers("rollback_validate", "manual")

RollbackReloadIntent ==
  \/ /\ pc = "rollback_reload_intent"
     /\ Transitions("rollback_reload_intent", FALSE)
     /\ pc' = "rollback_reload" /\ cur' = record' /\ frames' = <<cur>> \o frames
  \/ CatchIn("rollback_reload_intent", "rollback_reload_intent")

RollbackReload ==
  /\ pc = "rollback_reload"
  /\ \/ loaded' = Loads /\ Goto("rollback_reload_settle")
     \/ loaded' \in {loaded, Loads} /\ Catch
  /\ UNCHANGED <<record, grant, faults, reloadStarted, quiet, applyVars>>

\* The reload is done but not yet recorded: an error here is caught one block
\* out, where the record in hand is the one from before the reload.
RollbackReloadSettle ==
  /\ pc = "rollback_reload_settle"
  /\ \/ /\ Transitions("rollback_reload_succeeded", FALSE)
        /\ pc' = "rollback_verify" /\ cur' = record' /\ frames' = Tail(frames)
     \/ TransitionFails("rollback_reload_succeeded", FALSE) /\ Propagate

RollbackVerify ==
  \/ /\ pc = "rollback_verify"
     /\ ReadsBefore("checkpoint")
     /\ Goto("rollback_verify_loaded")
  \/ Answers("rollback_verify", "manual")

RollbackVerifyLoaded ==
  \/ LoadedIs("checkpoint") /\ Answers("rollback_verify_loaded", "rollback_verify_final")
  \/ Answers("rollback_verify_loaded", "manual")

RollbackVerifyFinal ==
  \/ live = "checkpoint" /\ Answers("rollback_verify_final", "rollback_verify_settle")
  \/ Answers("rollback_verify_final", "manual")

RollbackVerifySettle ==
  \/ /\ pc = "rollback_verify_settle"
     /\ Transitions("rollback_verification_succeeded", FALSE)
     /\ Leave
  \/ CatchIn("rollback_verify_settle", "rollback_verification_succeeded")

CompleteRollback ==
  \/ CompleteIntent \/ CompleteCommit \/ CompleteLoad \/ RollbackValidate
  \/ RollbackReloadIntent \/ RollbackReload \/ RollbackReloadSettle
  \/ RollbackVerify \/ RollbackVerifyLoaded \/ RollbackVerifyFinal
  \/ RollbackVerifySettle

-----------------------------------------------------------------------------
(* manual(): one compare-and-swap attempt per step *)

ManualReturnsTerminal ==
  /\ pc = "manual" /\ cur.state \in TerminalStates
  /\ Leave
  /\ UNCHANGED <<coreVars, applyVars>>

ManualSettles ==
  /\ pc = "manual" /\ cur.state \notin TerminalStates
  /\ Transitions("manual_recovery_required", FALSE)
  /\ Leave

\* A conflict is reconciled from the journal, when its error carries the code
\* that errorCode() can see; any other error is rethrown.
ManualReconciles ==
  /\ pc = "manual" /\ cur.state \notin TerminalStates
  /\ CoordinatorErrors
  /\ cur.version # record.version
  /\ pc' = "manual" /\ cur' = record /\ UNCHANGED frames
  /\ UNCHANGED <<coreVars, applyVars>>

\* Mutant: the conflict's code is never recognised, as with a foreign error class.
ManualRethrowsConflicts ==
  /\ pc = "manual" /\ cur.state \notin TerminalStates
  /\ TransitionFails("manual_recovery_required", FALSE)
  /\ Propagate

ManualRethrows ==
  /\ pc = "manual" /\ cur.state \notin TerminalStates
  /\ \/ /\ cur.version = record.version \/ ~CoordinatorErrors
        /\ TransitionFails("manual_recovery_required", FALSE)
     \/ /\ CoordinatorErrors /\ cur.version # record.version
        /\ Spend
        /\ UNCHANGED <<record, grant, haVars, quiet, applyVars>>
  /\ Propagate

Manual ==
  ManualReturnsTerminal \/ ManualSettles \/ ManualReconciles \/ ManualRethrows

-----------------------------------------------------------------------------
(* recover(): the record the journal lists, one at a time *)

StartRecover ==
  /\ pc = "idle" /\ record # NoRecord
  /\ helper = NoHelper \/ OrphanOverlaps
  /\ pc' = "recover_read" /\ cur' = record /\ frames' = <<>>
  /\ UNCHANGED <<coreVars, applyVars>>

\* A live candidate is never accepted once the record says it was replaced.
RestoredStates ==
  {"rollback_committed", "rollback_validation_succeeded",
   "rollback_reload_succeeded"}

NeedsManual(r) ==
  \/ live \in {"other", "missing"}
  \/ r.state = "rollback_reload_intent"
  \/ r.state \in RestoredStates /\ live # "checkpoint"

\* Mutant: a live candidate is restored before its rollback is announced.
RestoresUnannounced(r) ==
  CASE NeedsManual(r) -> "manual"
    [] ~NeedsManual(r) /\ live = "checkpoint" ->
         IF r.state \in RestoredStates THEN "complete_load"
         ELSE IF r.state = "rollback_intent" THEN "complete_commit"
         ELSE "complete_intent"
    [] OTHER -> "restore"

\* Mutant: an apply that seems not to have replaced anything is resumed.
ResumesIntent(r) ==
  CASE NeedsManual(r) -> "manual"
    [] ~NeedsManual(r) /\ live = "checkpoint" ->
         IF r.state \in RestoredStates THEN "complete_load"
         ELSE IF r.state = "rollback_intent" THEN "complete_commit"
         ELSE IF r.state = "intent_prepared" THEN "apply_replace"
         ELSE "complete_intent"
    [] OTHER -> IF r.state = "rollback_intent" THEN "restore" ELSE "rollback_intent"

RecoverOneStep(r) ==
  CASE NeedsManual(r) -> "manual"
    [] ~NeedsManual(r) /\ live = "checkpoint" ->
         IF r.state \in RestoredStates THEN "complete_load"
         ELSE IF r.state = "rollback_intent" THEN "complete_commit"
         ELSE "complete_intent"
    [] OTHER -> IF r.state = "rollback_intent" THEN "restore" ELSE "rollback_intent"

RecoverOne ==
  /\ pc = "recover_read"
  /\ \/ cur.state \in TerminalStates /\ Leave /\ UNCHANGED faults
     \/ cur.state \notin TerminalStates /\ Goto(RecoverOneStep(cur)) /\ UNCHANGED faults
     \/ Spend /\ Leave
  /\ UNCHANGED <<record, grant, haVars, quiet, applyVars>>

-----------------------------------------------------------------------------
(* The environment *)

\* The process dies: memory and the operator lock are gone, the journal, the
\* file and the detached helper are not.
Crash ==
  /\ pc # "idle"
  /\ Spend
  /\ Leave
  /\ UNCHANGED <<record, grant, haVars, quiet, applyVars>>

\* A helper nobody waits for ends.
OrphanExits ==
  /\ pc \notin {"apply_await", "restore_await"}
  /\ \E status \in CommitStatuses : Reap(status)
  /\ UNCHANGED <<procVars, coreVars>>

HelperSteps == HelperNext /\ UNCHANGED <<procVars, coreVars>>

OutsideEdit ==
  /\ Spend
  /\ \E bytes \in LiveBytes : EditorWrite(bytes)
  /\ quiet' = FALSE
  /\ UNCHANGED <<procVars, record, grant, haVars>>

\* A user reloads automations, or a reload whose answer was lost runs late.
HomeAssistantReloads ==
  /\ loaded' = Loads
  /\ UNCHANGED <<procVars, record, grant, faults, reloadStarted, quiet, applyVars>>

-----------------------------------------------------------------------------
Apply ==
  \/ ConsumeApplyGrant \/ CreateCheckpoint \/ CreateIntent
  \/ ApplyCandidate \/ ApplyReturns \/ ClassifyApply
  \/ CommitApply \/ UnknownRollbackIntent

\* The steps of a call that has started.
Coordinate ==
  \/ Apply \/ FinishPostCommit \/ RollbackAfterCommit
  \/ CompleteRollback \/ Manual \/ RecoverOne

Next ==
  \/ Approve \/ StartApply \/ StartRecover \/ Coordinate
  \/ HelperSteps \/ OrphanExits
  \/ Crash \/ OutsideEdit \/ HomeAssistantReloads

Spec == Init /\ [][Next]_vars

\* A started call runs on, the helper runs on, and the operator recovers as
\* long as a record is there to recover.
Fairness ==
  /\ WF_vars(Coordinate)
  /\ WF_vars(HelperSteps)
  /\ WF_vars(OrphanExits)
  /\ WF_vars(StartRecover)

FairSpec == Spec /\ Fairness

-----------------------------------------------------------------------------
(* Properties *)

\* The journal write each step asks for next, and whether it raises the flag.
Asks ==
  [p \in Steps |->
     CASE p = "apply_commit" -> "apply_committed"
       [] p \in {"unknown_rollback_intent", "rollback_intent", "complete_intent"}
            -> "rollback_intent"
       [] p = "post_validate" -> "post_validation_succeeded"
       [] p = "reload_intent" -> "reload_intent"
       [] p = "reload_settle" -> "reload_succeeded"
       [] p = "verify_settle" -> "verification_succeeded"
       [] p \in {"restore_commit", "complete_commit"} -> "rollback_committed"
       [] p = "rollback_validate" -> "rollback_validation_succeeded"
       [] p = "rollback_reload_intent" -> "rollback_reload_intent"
       [] p = "rollback_reload_settle" -> "rollback_reload_succeeded"
       [] p = "rollback_verify_settle" -> "rollback_verification_succeeded"
       [] p = "manual" -> "manual_recovery_required"
       [] OTHER -> "none"]

\* The coordinator and the journal agree: whatever path led here, a transition
\* the coordinator is about to ask for from the journal's own version is one the
\* journal's legality check accepts (the reload flag included), so that no
\* rollback ever stops on journal_illegal_transition.
RequestsAreLegal ==
  Asks[pc] # "none" /\ cur.version = record.version
    /\ cur.state \notin TerminalStates =>
    LET flag == /\ pc \in {"rollback_intent", "complete_intent"}
                /\ ShouldRequireRollbackReload(cur, FALSE)
    IN  CanRecordTransition(record, Successor(record, Asks[pc], flag))

\* Verification is never entered with a record verify() refuses as
\* illegal_verification_state, in the apply or on any recovery path.
VerificationIsAdmitted ==
  /\ pc = "verify" => VerificationStateIsLegal(cur, "candidate")
  /\ pc = "rollback_verify" => VerificationStateIsLegal(cur, "checkpoint")

InPlace(bytes) ==
  live = bytes /\ (record.reloadTarget # "none" => loaded = bytes)

\* A settled record tells the truth: verification_succeeded means the candidate
\* is in the file and in Home Assistant, rollback_verification_succeeded the
\* checkpoint in both, unless somebody edited the file after the probe began.
\* Neither a crash, a late reload nor a leftover helper may break it.
SettledMeansReal ==
  quiet =>
    /\ record.state = "verification_succeeded" => InPlace("candidate")
    /\ record.state = "rollback_verification_succeeded" => InPlace("checkpoint")

\* If a reload may have made Home Assistant run the candidate, then every record
\* of the rollback demands the rollback reload, in the journal and not only in
\* the memory of the process that knew it.
RollbackReloadFlagSound ==
  /\ reloadStarted
  /\ record.state \in {"rollback_intent", "rollback_committed",
       "rollback_validation_succeeded", "rollback_reload_intent",
       "rollback_reload_succeeded", "rollback_verification_succeeded"}
  => record.rollbackReloadRequired

\* Write-ahead: the helper changes the live file only under a durable intent,
\* the candidate under intent_prepared and the checkpoint under rollback_intent,
\* whatever its parent has done or died of since it was spawned.
EffectsAreAnnounced ==
  [][helper'.stage = "exchanged" /\ helper.stage # "exchanged" =>
       /\ grant = "consumed"
       /\ record.state = IF helper.content = "candidate" THEN "intent_prepared"
                         ELSE "rollback_intent"]_vars

\* A call that ends without a fault in its last step, on a record the journal
\* would still accept, leaves no candidate live under an unsettled record: a
\* version conflict met while asking for manual recovery is reconciled.
CallsSettle ==
  [][pc # "idle" /\ pc' = "idle" /\ faults' = faults /\ live = "candidate"
       /\ pc \notin {"apply_replace", "apply_await"} /\ record # NoRecord
     => record'.state \in TerminalStates]_vars

\* Recovery converges: once an intent is durable, finitely many faults and a
\* willing operator lead to a terminal record.
EventuallySettled ==
  record # NoRecord ~> record.state \in TerminalStates

Outcome ==
  CASE record = NoRecord -> "none"
    [] record.state = "verification_succeeded" -> "verified"
    [] record.state = "rollback_verification_succeeded" -> "rolled_back"
    [] record.state = "manual_recovery_required" -> "blocked"
    [] OTHER -> "open"

Promise == INSTANCE Phase3Outcome
             WITH outcome <- Outcome, reloads <- record.reloadTarget # "none"

\* The coordinator with its journal, helper and recoveries implements the
\* outcome a caller is promised.
KeepsPromise == Promise!Spec
=============================================================================
