---------------------------- MODULE OperatorEpoch -----------------------------
(***************************************************************************)
(* The operator commands on the protected state under /data/phase3-runtime:  *)
(* init, apply-proposal, recover, rotate, resume (phase3/operatorRuntime.ts, *)
(* operatorApproval.ts, operatorRecovery.ts, retention.ts).  An epoch is the *)
(* directory `active' with journal, checkpoints, grants and audit; rotation  *)
(* renames it to an archive under the protection of a marker file.           *)
(*                                                                         *)
(* The lease lets one command run at a time.  An epoch is named by its inode. *)
(* Its journal holds one transaction, abstracted to the state the coordinator *)
(* leaves it in (Phase3Coordinator has the detail); the live file is named by *)
(* the epoch whose candidate it is.  What the journal, grants and audit write *)
(* inside an epoch is synced before they answer; what changes in the parent  *)
(* directory may be lost with the power until the parent is synced.          *)
(***************************************************************************)
EXTENDS Naturals, FiniteSets

CONSTANTS
  MaxArchives,    \* the archive budget
  Versions,       \* versions of the proposal
  MaxLiveGrants,  \* grants of an epoch issued and neither spent nor expired
  MaxEdits,       \* bound on edits of the live file by somebody else
  MaxEpochFaults  \* bound on failed appends, process deaths and power failures

ASSUME EpochAssumption ==
  /\ {MaxArchives, MaxLiveGrants} \subseteq Nat \ {0}
  /\ MaxEdits \in Nat /\ MaxEpochFaults \in Nat

Epochs == 1..(MaxArchives + 1)
NoEpoch == 0
NoMarker == 0
EmptyMarker == MaxArchives + 2
Original == 0
Foreign == MaxArchives + 2

VARIABLES
  parent,    \* the parent directory: active, archives and marker
  since,     \* what a power failure may leave of it
  epoch,     \* what is inside each epoch
  live,      \* whose candidate automations.yaml holds
  version,   \* the version of the proposal in the store
  command,   \* the command that has the lease, and where it is
  answer,    \* how the last command ended
  gaps,      \* the gaps between the syncs that have been met (ghost)
  edits,
  epochFaults

epochVars == <<parent, since, epoch, live, version, command, answer, gaps, edits, epochFaults>>

Kinds == {"init", "apply", "recover", "rotate", "resume"}
Transactions == {"none", "open", "verified", "rolled_back", "manual"}
ArchivableTransactions == {"none", "verified", "rolled_back"}
CommandPlaces ==
  {"idle", "start", "review", "confirm", "grant", "load", "lock", "candidate", "consume",
   "intent", "effect", "settle", "dispatch", "report", "failed", "marker", "fill", "sync_marker", "rename", "sync_rename",
   "fresh", "sync_active", "directories", "stage", "link", "unstage", "unlink", "sync_unlink"}
\* A marker that was removed came back with a power failure; a rotation went on
\* with an active directory whose making had not been synced.
Gaps == {"undone", "unsynced"}
NewEpoch == [dirs |-> FALSE, header |-> "none", audited |-> FALSE, confirmed |-> {},
             transactions |-> 0, tx |-> "none", applied |-> {}, base |-> Original, grants |-> 0]
\* What a command was shown, what the grant was issued for, the proposal and the
\* candidate loaded under the lock, and the live file read there.
NoCommand == [kind |-> "init", pc |-> "idle", shown |-> {}, granted |-> {}, loaded |-> {},
              bytes |-> {}, source |-> Original, settled |-> FALSE, dispatched |-> FALSE]
NoAnswer == [how |-> "none", kind |-> "init", settled |-> FALSE, dispatched |-> FALSE]
FreshParent == [active |-> NoEpoch, archives |-> {}, marker |-> NoMarker]

\* The types of the variables; one transaction per epoch, and no more archives
\* than the budget.
EpochTypeOK ==
  /\ parent \in since
  /\ since \subseteq [active : Epochs \cup {NoEpoch}, archives : SUBSET Epochs,
                      marker : Epochs \cup {NoMarker, EmptyMarker}]
  /\ \A p \in since : Cardinality(p.archives) <= MaxArchives
  /\ epoch \in [Epochs -> [dirs : BOOLEAN, header : {"none", "staged", "linked", "there"},
                           audited : BOOLEAN, confirmed : SUBSET Versions,
                           transactions : 0..1, tx : Transactions, applied : SUBSET Versions,
                           base : Epochs \cup {Original, Foreign}, grants : 0..MaxLiveGrants]]
  /\ live \in Epochs \cup {Original, Foreign}
  /\ version \in Versions
  /\ command \in [kind : Kinds, pc : CommandPlaces, shown : SUBSET (Versions \cup Transactions),
                  granted : SUBSET Versions, loaded : SUBSET Versions, bytes : SUBSET Versions,
                  source : Epochs \cup {Original, Foreign},
                  settled : BOOLEAN, dispatched : BOOLEAN]
  /\ answer \in [how : {"none", "done", "refused", "uncertain"}, kind : Kinds,
                 settled : BOOLEAN, dispatched : BOOLEAN]
  /\ gaps \subseteq Gaps
  /\ edits \in 0..MaxEdits /\ epochFaults \in 0..MaxEpochFaults

EpochInit ==
  /\ parent = FreshParent
  /\ since = {FreshParent}
  /\ epoch = [e \in Epochs |-> NewEpoch]
  /\ live = Original
  /\ version \in Versions
  /\ command = NoCommand
  /\ answer = NoAnswer
  /\ gaps = {}
  /\ edits = 0
  /\ epochFaults = 0

-------------------------------------------------------------------------------
Active == parent.active
Rotating == parent.marker

EpochFault == epochFaults < MaxEpochFaults /\ epochFaults' = epochFaults + 1
NoEpochFault == UNCHANGED epochFaults

GoOn(pc) == command' = [command EXCEPT !.pc = pc] /\ UNCHANGED answer
Answer(how) ==
  /\ command' = NoCommand
  /\ answer' = [how |-> how, kind |-> command.kind,
                settled |-> command.settled, dispatched |-> command.dispatched]

\* A change of the parent directory, and its sync.
Relink(p) == parent' = p /\ since' = since \cup {p}
SyncParent == since' = {parent} /\ UNCHANGED parent

Inside(e, change) == epoch' = [epoch EXCEPT ![e] = change]

\* validateEpoch, which wants a header with one link, and what a fresh active
\* directory may hold.
Valid(e) == epoch[e].dirs /\ epoch[e].header = "there"
Fresh(e) ==
  /\ epoch[e].header \in {"none", "there"}
  /\ ~epoch[e].audited /\ epoch[e].transactions = 0

\* The digest the transaction's state asks of the live file.
LiveProven(e) ==
  /\ epoch[e].tx = "verified" => live = e
  /\ epoch[e].tx = "rolled_back" => live = epoch[e].base

\* Mutant: a live unused grant does not hold the epoch back.
EligibleWithGrants(e) ==
  Valid(e) /\ epoch[e].tx \in ArchivableTransactions /\ LiveProven(e)

\* eligible: settled, no live unused grant, and the live file as it should be.
Eligible(e) ==
  /\ Valid(e)
  /\ epoch[e].tx \in ArchivableTransactions
  /\ epoch[e].grants = 0
  /\ LiveProven(e)

WithinBudget == Cardinality(parent.archives) < MaxArchives

-------------------------------------------------------------------------------
(* The commands begin: the lease is taken, the parent directory read *)

StartCommand(kind) ==
  /\ command.pc = "idle"
  /\ command' = [NoCommand EXCEPT !.kind = kind, !.pc = "start"]
  /\ UNCHANGED <<parent, since, epoch, live, version, answer, gaps, edits, epochFaults>>

\* initialize and createActive: nothing may be there yet.
Initialize ==
  /\ command.kind = "init" /\ command.pc = "start"
  /\ IF parent = FreshParent
     THEN /\ Relink([parent EXCEPT !.active = 1])
          /\ GoOn("directories")
     ELSE Answer("refused") /\ UNCHANGED <<parent, since>>
  /\ UNCHANGED <<epoch, live, version, gaps, edits, epochFaults>>

\* Mutant: the marker is not looked for.
OpensAnyway == Active # NoEpoch /\ Valid(Active)

\* open: no marker and a valid active epoch.
Opens == Rotating = NoMarker /\ Active # NoEpoch /\ Valid(Active)

\* Mutant: a used epoch is opened again.
OpenUsedEpoch ==
  /\ command.kind \in {"apply", "recover"} /\ command.pc = "start"
  /\ IF Opens THEN GoOn("review") ELSE Answer("refused")
  /\ UNCHANGED <<parent, since, epoch, live, version, gaps, edits, epochFaults>>

\* apply wants it unused.
OpenEpoch ==
  /\ command.kind \in {"apply", "recover"} /\ command.pc = "start"
  /\ IF Opens /\ (command.kind = "apply" => epoch[Active].transactions = 0)
     THEN GoOn("review")
     ELSE Answer("refused")
  /\ UNCHANGED <<parent, since, epoch, live, version, gaps, edits, epochFaults>>

\* rotate: eligible and within the budget; or resume: a marker that can be read.
StartRotation ==
  /\ command.kind = "rotate" /\ command.pc = "start"
  /\ IF Opens /\ Eligible(Active) /\ WithinBudget THEN GoOn("marker") ELSE Answer("refused")
  /\ UNCHANGED <<parent, since, epoch, live, version, gaps, edits, epochFaults>>

StartResume ==
  /\ command.kind = "resume" /\ command.pc = "start"
  /\ IF Rotating \notin Epochs THEN Answer("refused")
     ELSE IF Rotating \in parent.archives
     THEN IF Eligible(Rotating) THEN GoOn("fresh") ELSE Answer("refused")
     ELSE IF Active = Rotating /\ WithinBudget THEN GoOn("rename") ELSE Answer("refused")
  /\ UNCHANGED <<parent, since, epoch, live, version, gaps, edits, epochFaults>>

-------------------------------------------------------------------------------
(* apply-proposal and recover *)

\* What is shown: the stored proposal, or the transaction's record.
Snapshot == IF command.kind = "apply" THEN {version} ELSE {epoch[Active].tx}

\* The attempt is logged, the snapshot shown, and that is logged.
Review ==
  /\ command.pc = "review"
  /\ Inside(Active, [epoch[Active] EXCEPT !.audited = TRUE])
  /\ command' = [command EXCEPT !.pc = "confirm", !.shown = Snapshot]
  /\ UNCHANGED <<parent, since, live, version, answer, gaps, edits, epochFaults>>

\* What was shown goes to the log as confirmed; the grant is for what is there now.
ConfirmedAs(now) ==
  /\ Inside(Active, [epoch[Active] EXCEPT !.confirmed = @ \cup (command.shown \cap Versions)])
  /\ command' = [command EXCEPT !.pc = IF command.kind = "apply" THEN "grant" ELSE "dispatch",
                                !.granted = now \cap Versions]

\* Mutant: what was shown is not compared with what there is now.
ConfirmUnseen ==
  /\ command.pc = "confirm"
  /\ \/ GoOn("failed") /\ UNCHANGED epoch
     \/ ConfirmedAs(Snapshot) /\ UNCHANGED answer
  /\ UNCHANGED <<parent, since, live, version, gaps, edits, epochFaults>>

\* Rejected, or typed exactly; then looked at once more, and logged.
Confirm ==
  /\ command.pc = "confirm"
  /\ \/ GoOn("failed") /\ UNCHANGED epoch
     \/ Snapshot = command.shown /\ ConfirmedAs(Snapshot) /\ UNCHANGED answer
  /\ UNCHANGED <<parent, since, live, version, gaps, edits, epochFaults>>

\* issueApplyGrant for the second snapshot; its row may fail to be written.
IssueGrant ==
  /\ command.pc = "grant"
  /\ \/ /\ epoch[Active].grants < MaxLiveGrants
        /\ Inside(Active, [epoch[Active] EXCEPT !.grants = @ + 1])
        /\ \/ GoOn("load") /\ NoEpochFault
           \/ GoOn("failed") /\ EpochFault
     \/ /\ epoch[Active].grants = MaxLiveGrants
        /\ GoOn("failed") /\ NoEpochFault /\ UNCHANGED epoch
  /\ UNCHANGED <<parent, since, live, version, gaps, edits>>

\* coordinator.apply loads what is stored now, whatever was granted: the
\* proposal, again under the resource lock, where it has to be the same.
LoadProposal ==
  /\ \/ command.pc \in {"load", "lock"} /\ GoOn("failed")
     \/ /\ \/ command.pc = "load"
           \/ command.pc = "lock" /\ command.loaded = {version}
        /\ command' = [command EXCEPT !.pc = IF @ = "load" THEN "lock" ELSE "candidate",
                                      !.loaded = {version}]
        /\ UNCHANGED answer
  /\ UNCHANGED <<parent, since, epoch, live, version, gaps, edits, epochFaults>>

\* Mutant: the candidate is not compared with the proposal.
LoadAnyCandidate ==
  /\ command.pc = "candidate"
  /\ \/ GoOn("failed")
     \/ /\ command' = [command EXCEPT !.pc = "consume", !.bytes = {version}, !.source = live]
        /\ UNCHANGED answer
  /\ UNCHANGED <<parent, since, epoch, live, version, gaps, edits, epochFaults>>

\* The live file is read, and the candidate, which has to be the proposal's.
LoadCandidate ==
  /\ command.pc = "candidate"
  /\ \/ GoOn("failed")
     \/ /\ {version} = command.loaded
        /\ command' = [command EXCEPT !.pc = "consume", !.bytes = {version}, !.source = live]
        /\ UNCHANGED answer
  /\ UNCHANGED <<parent, since, epoch, live, version, gaps, edits, epochFaults>>

\* Mutant: the grant is spent whatever proposal it was issued for.
ConsumeAnyGrant ==
  /\ command.pc = "consume"
  /\ \/ GoOn("failed") /\ UNCHANGED epoch
     \/ /\ epoch[Active].grants > 0
        /\ Inside(Active, [epoch[Active] EXCEPT !.grants = @ - 1])
        /\ GoOn("intent")
  /\ UNCHANGED <<parent, since, live, version, gaps, edits, epochFaults>>

\* consumeApplyGrant: refused, or spent for the proposal that was loaded, which
\* has to be the one the grant names.
ConsumeGrant ==
  /\ command.pc = "consume"
  /\ \/ GoOn("failed") /\ UNCHANGED epoch
     \/ /\ command.granted = command.loaded
        /\ epoch[Active].grants > 0
        /\ Inside(Active, [epoch[Active] EXCEPT !.grants = @ - 1])
        /\ GoOn("intent")
  /\ UNCHANGED <<parent, since, live, version, gaps, edits, epochFaults>>

\* The checkpoint of what was read and the first record, which stands for the
\* proposal and the candidate loaded; then the exchange, and how it settles.
RecordIntent ==
  /\ command.pc = "intent"
  /\ \/ GoOn("failed") /\ UNCHANGED epoch
     \/ /\ Inside(Active, [epoch[Active] EXCEPT !.transactions = @ + 1, !.tx = "open",
                           !.applied = command.loaded \cup command.bytes,
                           !.base = command.source])
        /\ GoOn("effect")
  /\ UNCHANGED <<parent, since, live, version, gaps, edits, epochFaults>>

\* The record's last state is written, or an open record stays behind an error.
Settled(tx) ==
  /\ Inside(Active, [epoch[Active] EXCEPT !.tx = tx])
  /\ command' = [command EXCEPT !.pc = "report", !.settled = TRUE]
  /\ UNCHANGED answer

\* Exchanged; or not, which the coordinator settles itself when the answer left
\* it open: rolled back where the live file is the checkpoint, else a human's.
ExchangeFile ==
  /\ command.pc = "effect"
  /\ \/ GoOn("failed") /\ UNCHANGED <<live, epoch>>
     \/ live = epoch[Active].base /\ Settled("rolled_back") /\ UNCHANGED live
     \/ Settled("manual") /\ UNCHANGED live
     \/ /\ live = epoch[Active].base
        /\ live' = Active
        /\ GoOn("settle") /\ UNCHANGED epoch
  /\ UNCHANGED <<parent, since, version, gaps, edits, epochFaults>>

\* Verified, rolled back, or left to a human.
SettleApply ==
  /\ command.pc = "settle"
  /\ \/ live = Active /\ Settled("verified") /\ UNCHANGED live
     \/ live = Active /\ Settled("rolled_back") /\ live' = epoch[Active].base
     \/ Settled("manual") /\ UNCHANGED live
     \/ GoOn("failed") /\ UNCHANGED <<live, epoch>>
  /\ UNCHANGED <<parent, since, version, gaps, edits, epochFaults>>

\* coordinator.recover: an open transaction is brought to an end.
DispatchRecovery ==
  /\ command.pc = "dispatch"
  /\ \/ epoch[Active].tx # "open" /\ UNCHANGED <<live, epoch>>
     \/ /\ epoch[Active].tx = "open"
        /\ \/ live = Active /\ Inside(Active, [epoch[Active] EXCEPT !.tx = "verified"]) /\ UNCHANGED live
           \/ /\ live \in {Active, epoch[Active].base}
              /\ Inside(Active, [epoch[Active] EXCEPT !.tx = "rolled_back"])
              /\ live' = epoch[Active].base
           \/ Inside(Active, [epoch[Active] EXCEPT !.tx = "manual"]) /\ UNCHANGED live
           \/ UNCHANGED <<live, epoch>>
  /\ \E pc \in {"report", "failed"} :
       command' = [command EXCEPT !.pc = pc, !.settled = (pc = "report"), !.dispatched = TRUE]
  /\ UNCHANGED <<parent, since, version, answer, gaps, edits, epochFaults>>

\* The outcome is logged and the command cleans up after itself.
Report ==
  /\ command.pc = "report"
  /\ \/ Answer("done") /\ NoEpochFault
     \/ Answer("uncertain") /\ EpochFault
     \/ GoOn("failed") /\ EpochFault
  /\ UNCHANGED <<parent, since, epoch, live, version, gaps, edits>>

\* Mutant: an error is an error.
FailurePlain ==
  /\ command.pc = "failed"
  /\ Answer("refused")
  /\ UNCHANGED <<parent, since, epoch, live, version, gaps, edits, epochFaults>>

\* The catch blocks: after a settled apply, or once recovery was dispatched,
\* the outcome is uncertain and never a failure.
Failure ==
  /\ command.pc = "failed"
  /\ Answer(IF command.settled \/ command.dispatched THEN "uncertain" ELSE "refused")
  /\ UNCHANGED <<parent, since, epoch, live, version, gaps, edits, epochFaults>>

-------------------------------------------------------------------------------
(* rotate, resume and the fresh epoch *)

\* rotation.json is created, then written and synced, then its entry is.
CreateMarker ==
  /\ command.pc = "marker"
  /\ Relink([parent EXCEPT !.marker = EmptyMarker])
  /\ GoOn("fill")
  /\ UNCHANGED <<epoch, live, version, gaps, edits, epochFaults>>

FillMarker ==
  /\ command.pc = "fill"
  /\ parent' = [parent EXCEPT !.marker = Active]
  /\ since' = {IF p.marker = EmptyMarker THEN [p EXCEPT !.marker = Active] ELSE p : p \in since}
  /\ GoOn("sync_marker")
  /\ UNCHANGED <<epoch, live, version, gaps, edits, epochFaults>>

SyncMarker ==
  /\ command.pc = "sync_marker"
  /\ SyncParent
  /\ GoOn("rename")
  /\ UNCHANGED <<epoch, live, version, gaps, edits, epochFaults>>

\* Proved again, and renamed.
RenameActive ==
  /\ command.pc = "rename"
  /\ IF Eligible(Active)
     THEN /\ Relink([parent EXCEPT !.active = NoEpoch, !.archives = @ \cup {Active}])
          /\ GoOn("sync_rename")
     ELSE Answer("refused") /\ UNCHANGED <<parent, since>>
  /\ UNCHANGED <<epoch, live, version, gaps, edits, epochFaults>>

SyncRename ==
  /\ command.pc = "sync_rename"
  /\ SyncParent
  /\ GoOn("fresh")
  /\ UNCHANGED <<epoch, live, version, gaps, edits, epochFaults>>

\* The next active directory: made, or found and still fresh.
MakeActive ==
  /\ command.pc = "fresh"
  /\ IF Active = NoEpoch
     THEN /\ \E e \in Epochs :
               /\ e \notin parent.archives /\ epoch[e] = NewEpoch
               /\ Relink([parent EXCEPT !.active = e])
          /\ GoOn("sync_active") /\ UNCHANGED gaps
     ELSE /\ IF Fresh(Active) THEN GoOn("directories") ELSE Answer("refused")
          /\ gaps' = gaps \cup IF \A p \in since : p.active = Active THEN {} ELSE {"unsynced"}
          /\ UNCHANGED <<parent, since>>
  /\ UNCHANGED <<epoch, live, version, edits, epochFaults>>

SyncActive ==
  /\ command.pc = "sync_active"
  /\ SyncParent
  /\ GoOn("directories")
  /\ UNCHANGED <<epoch, live, version, gaps, edits, epochFaults>>

\* The store directories, and the parent once more for init.
MakeDirectories ==
  /\ command.pc = "directories"
  /\ Inside(Active, [epoch[Active] EXCEPT !.dirs = TRUE])
  /\ IF command.kind = "init" THEN SyncParent ELSE UNCHANGED <<parent, since>>
  /\ GoOn(IF epoch[Active].header # "none" THEN "unlink" ELSE "stage")
  /\ UNCHANGED <<live, version, gaps, edits, epochFaults>>

\* approvals.initialize makes the header by way of a stage file; that the stage
\* could not be removed is not reported.
MakeHeader ==
  /\ \/ /\ command.pc = "stage"
        /\ Inside(Active, [epoch[Active] EXCEPT !.header = "staged"])
        /\ GoOn("link") /\ NoEpochFault
     \/ /\ command.pc = "link"
        /\ Inside(Active, [epoch[Active] EXCEPT !.header = "linked"])
        /\ GoOn("unstage") /\ NoEpochFault
     \/ /\ command.pc = "unstage"
        /\ \/ Inside(Active, [epoch[Active] EXCEPT !.header = "there"]) /\ NoEpochFault
           \/ UNCHANGED epoch /\ EpochFault
        /\ IF command.kind = "init" THEN Answer("done") ELSE GoOn("unlink")
  /\ UNCHANGED <<parent, since, live, version, gaps, edits>>

UnlinkMarker ==
  /\ command.pc = "unlink"
  /\ Relink([parent EXCEPT !.marker = NoMarker])
  /\ GoOn("sync_unlink")
  /\ UNCHANGED <<epoch, live, version, gaps, edits, epochFaults>>

SyncUnlink ==
  /\ command.pc = "sync_unlink"
  /\ SyncParent
  /\ Answer("done")
  /\ UNCHANGED <<epoch, live, version, gaps, edits, epochFaults>>

-------------------------------------------------------------------------------
(* Faults and the world *)

\* A call of the command fails before it does anything.
CallFails ==
  /\ command.pc \notin {"idle", "failed", "report", "grant"}
  /\ EpochFault
  /\ IF command.kind \in {"apply", "recover"} /\ command.pc # "start"
     THEN command' = [command EXCEPT !.pc = "failed", !.dispatched = @ \/ command.pc = "dispatch"]
          /\ UNCHANGED answer
     ELSE Answer("refused")
  /\ UNCHANGED <<parent, since, epoch, live, version, gaps, edits>>

\* The process dies and the lease with it; a power failure may take the last
\* changes of the parent too, and what was in a directory that goes with them.
OperatorDies ==
  /\ command.pc # "idle"
  /\ EpochFault
  /\ command' = NoCommand /\ answer' = NoAnswer
  /\ UNCHANGED <<parent, since, epoch, live, version, gaps, edits>>

PowerIsLost ==
  /\ EpochFault
  /\ command' = NoCommand /\ answer' = NoAnswer
  /\ parent' \in since
  /\ since' = {parent'}
  /\ gaps' = gaps \cup IF parent'.marker \in {NoMarker, Rotating} THEN {} ELSE {"undone"}
  /\ epoch' = [e \in Epochs |-> IF e \in parent'.archives \cup {parent'.active}
                               THEN epoch[e] ELSE NewEpoch]
  /\ UNCHANGED <<live, version, edits>>

\* A grant nobody spent expires.
GrantExpires(e) ==
  /\ epoch[e].grants > 0
  /\ Inside(e, [epoch[e] EXCEPT !.grants = @ - 1])
  /\ UNCHANGED <<parent, since, live, version, command, answer, gaps, edits, epochFaults>>

\* A client replaces the proposal; somebody edits the live file.
ProposalChanges ==
  /\ edits < MaxEdits /\ edits' = edits + 1
  /\ version' \in Versions \ {version}
  /\ UNCHANGED <<parent, since, epoch, live, command, answer, gaps, epochFaults>>

LiveFileEdited ==
  /\ edits < MaxEdits /\ edits' = edits + 1
  /\ live' = Foreign
  /\ UNCHANGED <<parent, since, epoch, version, command, answer, gaps, epochFaults>>

-------------------------------------------------------------------------------
EpochNext ==
  \/ \E kind \in Kinds : StartCommand(kind)
  \/ Initialize \/ OpenEpoch \/ StartRotation \/ StartResume
  \/ Review \/ Confirm \/ IssueGrant \/ LoadProposal \/ LoadCandidate \/ ConsumeGrant
  \/ RecordIntent \/ ExchangeFile \/ SettleApply \/ DispatchRecovery \/ Report \/ Failure
  \/ CreateMarker \/ FillMarker \/ SyncMarker \/ RenameActive \/ SyncRename
  \/ MakeActive \/ SyncActive \/ MakeDirectories \/ MakeHeader \/ UnlinkMarker \/ SyncUnlink
  \/ CallFails \/ OperatorDies \/ PowerIsLost
  \/ (\E e \in Epochs : GrantExpires(e)) \/ ProposalChanges \/ LiveFileEdited

EpochSpec == EpochInit /\ [][EpochNext]_epochVars

-------------------------------------------------------------------------------
\* Whatever a crash or a power failure leaves of the parent directory: no epoch
\* with a transaction is lost, and an archive holds nothing unsettled and no
\* grant that could still be spent.  Except that a resumed rotation never syncs
\* the making of the active directory it finds, which may go with the power.
EpochsAreKept ==
  \A p \in since :
    /\ "unsynced" \notin gaps =>
         \A e \in Epochs : epoch[e].transactions > 0 => e \in p.archives \cup {p.active}
    /\ \A e \in p.archives : epoch[e].tx \in ArchivableTransactions /\ epoch[e].grants = 0

\* An interrupted rotation can be resumed from wherever it stopped, once the
\* live file is as it was: the marker names the active epoch, or its archive and
\* a directory that is fresh or not yet there.  Except where it stopped with a
\* stage file of the new header left behind, or a power failure brought back the
\* marker of a rotation that was over.
RotationIsResumable ==
  command.pc = "idle" /\ Rotating \in Epochs /\ "undone" \notin gaps =>
    \/ /\ Active = Rotating /\ Valid(Active)
       /\ epoch[Active].tx \in ArchivableTransactions
       /\ WithinBudget
    \/ /\ Rotating \in parent.archives
       /\ \/ Active = NoEpoch
          \/ Fresh(Active)
          \/ epoch[Active].header \in {"staged", "linked"} /\ ~epoch[Active].audited

\* What a transaction applied - the proposal the coordinator loaded and the
\* candidate it loaded for it, each after the operator had answered - is a version
\* that was shown and confirmed, in the log of the transaction's own epoch.
OnlyShownIsApplied ==
  \A e \in Epochs : epoch[e].transactions > 0 =>
    epoch[e].applied # {} /\ epoch[e].applied \subseteq epoch[e].confirmed

\* A command that settled a transaction, or dispatched recovery, is never
\* answered as a plain failure, and a rotation answered as done stays done.
AnswersAreHonest ==
  /\ answer.how = "refused" => ~answer.settled /\ ~answer.dispatched
  /\ answer.how = "done" /\ answer.kind \in {"rotate", "resume"} /\ command.pc = "idle" =>
       since = {parent} /\ parent.marker = NoMarker
===============================================================================
