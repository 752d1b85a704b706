# A verification development for HA-MCP

HA-MCP lets an MCP client read a Home Assistant configuration and propose
changes to it. Most of the program answers bounded read requests; the part where
something can go badly wrong is the *guarded apply* (`src/src/phase3`), which
replaces one configuration file under a human approval, reloads Home Assistant,
verifies the result and otherwise puts the old bytes back, through crashes and
lost answers. The development starts there, and goes on to what it stands on
(the transaction journal, the approval grants, the operator's epochs) and to the
other parts that write: proposals, guarded actions, and the bridge.

## The system

Paths are relative to `src/src`.

| Component | State it keeps | Operations | Interacts with | What makes it hard, and what must hold |
|---|---|---|---|---|
| Transaction contract (`phase3/contracts.ts`) | none | legality of a record and of a step between records | coordinator asks, journals refuse | both sides must agree on every route into rollback |
| Apply coordinator (`phase3/applyCoordinator.ts`) | the record in hand, nested try blocks | `apply`, `recover`, rollback, `manual` | all ports below | crash between any two steps; catch blocks with stale records; a settled record must be true and a started one must settle |
| Native atomic apply (`phase3/atomicApply.ts`, `phase3/native/openat2-replace.c`) | the helper process, its pending entry | `replace` | the file system; editors that take no lock | unknown commit, signals at any point, a helper that outlives its parent |
| Journal (`phase3/journal.ts`) | numbered record files, pending directories | `initialize`, `createIntent`, `transition`, `load`, `listRecoverable` | coordinator, retention | a link that lands and is reported as failed; doubly linked records after a crash; scans beside a writer; limits its own scan enforces |
| Checkpoints (`phase3/checkpoints.ts`) | checkpoint files | `create`, `load` | coordinator | as the journal; a checkpoint must survive until its transaction settles |
| Mutation queue (`phase3/resourceLocks.ts`) | holder, waiters | `acquire`, `acquireRecovery`, release | coordinator | abort, deadline and release meet on one waiter; exclusion, no lost hand-over |
| Apply grants (`phase3/approval.ts`, `durableApproval.ts`) | header, slots, grants, receipts | issue, consume, remediate | operator approval, coordinator | single use across processes and crashes, expiry around the commit point |
| Approval key and custody (`phase3/approvalKey.ts`, `approvalCustody.ts`) | a key file, a lock helper | provision, load, sync, acquire | grants | half-written keys; a helper that dies under a lease, exit, close and errors in any order; custody is not composed in the program |
| Retention (`phase3/retention.ts`) | active epoch, archives, a rotation file | `rotate`, resume, `budget` | operator runtime | a crash inside a rotation; nothing unsettled may be archived |
| Operator runtime (`phase3/operatorRuntime.ts`, `operatorLease.ts`) | the lock, the epoch | the terminal and MCP commands | everything above | one command at a time, one transaction per epoch |
| Operator approval, recovery, audit (`phase3/operator*.ts`) | an append-only log | show, confirm, act, record | runtime, coordinator | what was confirmed is what is acted on; the log fails after the act |
| Reload and Home Assistant ports (`phase3/reloadAdapter.ts`, `homeAssistantAdapter.ts`, `automationHaBoundary.ts`) | none | `reloadDomain`, `probe`, `checkInstalledConfiguration` | Home Assistant | was the reload dispatched? did it take effect? |
| Verification, source, proposal, validation ports | none | `verify`, `readDigest`, `load`, `validate` | coordinator | time of check and time of use |
| Proposal service and store (`proposals/`) | proposal files, journals, quarantine | create, discard, expire, recover | phase 2 tools, operator runtime | interrupted writes, scans that meet a write at work |
| Guarded actions (`guardedChanges.ts`, `dashboardTools.ts`) | one log file per action | propose, approve, apply, archive | Home Assistant | unknown outcomes, a target blocked for ever |
| Setup (`setup/`) | an installation session | the steps of the wizard | add-on API | concurrent requests |
| Bridge and sessions (`bridge.ts`, `bridgeLifecycle.ts`, `remoteSession.ts`, `http.ts`, `ingress.ts`) | connections, sessions | connect, replace, reconnect, shut down | MCP client and server | shutdown during start-up, replaced sessions; sessions entered after a revocation |
| Phase 2 activation and tools | the composed services | start, stop, tool calls | proposals, repository | start-up order and failure |
| Repository, git and YAML reads | none across calls | bounded reads | file system | limits, not interleavings |
| Shell (`application.ts`, `cli.ts`, `config.ts`, ...) | none | wiring | all | |

`src/addon/app/src` is a byte-identical copy of `src/src` for the add-on image.

## Modules

| Module | Models |
|---|---|
| `Phase3Contracts` | `contracts.ts`: states, adjacency, reload-flag rules, `Successor` |
| `Phase3AtomicApply` | the helper process and the target file |
| `Phase3Coordinator` | the coordinator over its journal, helper, grant and Home Assistant; the properties |
| `Phase3Outcome` | what an apply promises its caller; abstract |
| `Phase3Journal` | `journal.ts`: scans and every stage of an append, several instances on one directory |
| `Phase3JournalPort` | what the journal promises; abstract, implemented by `Phase3Journal` |
| `WaiterQueue` | the queue of `resourceLocks.ts`, and the slot queue of `atomicApply.ts` |
| `ApprovalGrants` | `durableApproval.ts`: several store objects on one root, step by step |
| `OneUseGrants` | what that store promises; abstract, implemented by `ApprovalGrants` |
| `ProposalService` | `proposalService.ts`, `storage.ts` and the log of `phase2Audit.ts`: calls, atomic writes, restart |
| `OperatorEpoch` | `operatorRuntime.ts`, `retention.ts`, `operatorApproval.ts`, `operatorRecovery.ts`: the commands over rotating epochs |
| `GuardedActions` | `guardedChanges.ts`: proposals, records, archive |
| `RemoteBridge` | `bridge.ts`, `bridgeLifecycle.ts`, `remoteSession.ts` |
| `ApprovalCustody` | `approvalCustody.ts`, `native/approval-custody.c`: the controller and the helper that holds the lock |
| `HttpSessions` | the sessions of `http.ts`, with `authenticate` and `revoke` of `security/pairing.ts` |
| `MCPhase3Coordinator`, `MCPhase3Journal`, `MCWaiterQueue` | constants for TLC |
| `MCStores` | `ApprovalGrants` or `ProposalService`, with constants |
| `MCOperations` | `OperatorEpoch`, `ApprovalCustody`, `GuardedActions`, `RemoteBridge` or `HttpSessions`, with constants |
| `Phase3Coordinator_proofs` | types, the ledger of journal and memory, truth of settled records, announced effects, the promise of `Phase3Outcome`, the length of a history |
| `Phase3Journal_proofs` | the truth of the journal's reports, the refinement, scans and the pending limit |
| `WaiterQueue_proofs` | types, exclusion, no stranded waiter, order of leases |
| `ApprovalGrants_proofs` | types, held stages, durable answers, the refinement to one use, ids apart |
| `ProposalService_proofs` | types, one proposal per key, the truth of the log, what a restart can decide |
| `OperatorEpoch_proofs` | types, epochs kept, rotations resumable, what is applied was shown, honest answers |
| `Operations_proofs` | guarded actions: true outcomes, one uncertain change per target; custody: what a release vouches for, the limit of helpers; the bridge's connections; the sessions' books; the types of all |
| `Stores_proofs` | the types of the two stores together |

### From the code to the model

The coordinator is sequential, so its position is one variable, `pc`, whose
values name the await the program is at. Every await that reads the file, has an
effect or writes the journal is a step; in-memory checks are guards of the step
that follows. `cur` is the `current` of the innermost `try`, `frames` the
records of the enclosing ones, because each `catch` calls `manual()` with its
*own* record. `record` is the newest record in the journal. A failed journal
write either changed nothing or linked the record (`journal_commit_unknown`);
`TransitionFails` offers both.

The helper has four running stages. Its last digest check (`HelperArm`) and the
exchange (`HelperExchange`) are separate steps, and an outside edit fits in
between. A staged or displaced file left in the directory is `pending`; it blocks
the next replace. SIGTERM, SIGKILL and lost frames are `HelperKilled`. When the
process dies the helper keeps running without a parent.

Digests are the bytes they identify: `checkpoint`, `candidate`, `other`, or
`missing`. `loaded` is what Home Assistant runs. It changes with our reloads and
at any other time (`HomeAssistantReloads`), which also covers a reload that runs
after its answer was given up. A reload takes whatever the file holds; an absent
file loads as content of some other kind. Validation answers either way. The
probe answers yes only if Home Assistant runs what the file defines, and a change
without a reload target makes no claim about Home Assistant. The contract
has three targets, of which production admits only `automation.reload`; no code tells
them apart once one is there, and the coordinator takes `null` too, so that one and none
are in the runs' `Targets`.

`reloadStarted` and `quiet` are history variables: a candidate reload may have
taken effect; nobody else has edited the file since the digest that opens the
current or last verification.

Left out of the step structure: formatting of failures and results, secrets
zeroing, the deadline arithmetic (a deadline is one more way a port fails), and
the loading of the proposal twice, which never changes there
(`OperatorEpoch` changes it).

`Phase3Journal` models instances of the journal in processes of their own (under
`operator.lock` there is one; the class promises more, and its tests open
several) on a directory that holds one transaction. Every operation scans first,
in the code's three passes: the names, the pending entries, the records. The
listing is one step (`readdir`); between the passes the other instances go on.
Within a pass the entries are read in one step, because whether an entry
is accepted depends on that entry and its hard link alone. An append is a step
per system call that others can see: capacity, `mkdir`, the two looks at the final
name, the record (written, synced and compared; nobody else opens it before the
link), `link`, the sync of the root, and the removal in its two halves with the
second sync. Every one of them can fail, and the failure takes the branch of
the code's `catch` that it takes there. A record is its inode (`id`) and its
predecessor; whether a step between states is legal is `Phase3Contracts`'
business. `held` is what the caller last read or wrote; `expected` in a record
remembers it for the refinement. A crash stops one process between any two
steps. A power failure stops all of them and takes back any number of the
newest links that no sync of the root has covered; the pending entries survive
as they are, and entries are taken to reach the disk in order. Left out: I/O
errors inside a scan (they latch the instance, as a limit does) and a hook of the
tests that retains a pending directory.

`WaiterQueue` is one algorithm the source holds twice: `Phase3ResourceLocks` with
its `held` flag (`Capacity = 1`) and the slots of `NativePhase3AtomicApply`
(`Capacity = maxConcurrent`). Node runs one callback at a time, so an `acquire`
up to its promise, a `release` with its whole loop over the queue, an abort
event and a timer are one action each. A waiter's deadline passes (`Deadline`)
before its timer runs (`TimerFires`), and a release in between finds it in the
queue and refuses it. The coordinator's module takes the result of this one for
granted: its `pc` is the one holder of the lock.

`ApprovalGrants` has store objects in processes of their own on one root, and
operations on them that interleave at every awaited system call another
operation can tell apart. A grant lives in a slot: staged in a directory, renamed
into the first slot that is free, and answered after the root is synced and
scanned. It is spent by linking `used.json` into the slot; success belongs to
the call whose inode is found there. Stage directories and files have no names,
only counts against their limits (`grantStages`, `headerStages`, `usedStages`).
`view` is the map of grants a store object holds between scans, shared by the
operations on it. Every failure latches the store where the code latches it
(`sick`), and not where it does not. `remediateStaleStages` runs under the
custody of the root, which is the condition `Custody`; where that cannot be had, the
store is latched. `unsynced` are the directory
entries a power failure may take. Expiry is a refusal, allowed wherever the code
looks. HMACs, modes and identities are left out: nobody else writes the root.

`ProposalService` gives every call its own operation, and at most `MaxOpen` of
them overlap. `serialized` is `inside`; a mutation inside it writes a journal, its
effect, and the journal again, each write in its steps (temporary file,
reservation, rename), each of which can fail before or after the rename. After its
turn it reads all the journals, appends its outcome, and removes its journal. A
scan refuses and quarantines whatever it finds half made, and latches the store.
A write that fails before its rename may leave its temporary file or, if the sync of its
reservation failed, the name it reserved (`WriteFails`; `littered` remembers it). The
attempt of a discard is appended under the call's context, and a discard cancelled
before that latches the log (`Begin`).
`initialize` does the same and then reconciles every journal and settles every
attempt. The ghost `overlapped` remembers that two calls were ever under way at
once, `refused` that a healthy log was offered a record it cannot take. Power failures are left out: an atomic write that failed after its rename is
the same to the caller (`RenamedUnconfirmed`).

`OperatorEpoch` is one command at a time: the lease excludes the rest. An epoch is
a directory, named by its inode; `parent` is the parent directory, and `since` the
forms of it that a power failure may leave, reset by each sync of it. `rotate`
writes the marker in three steps (created, filled, synced), renames, makes the next
directory, its stores and its header, and unlinks the marker; `resume` enters where
it must. A transaction is reduced to the state the coordinator leaves it in and to
what it made of the live file: `Phase3Coordinator` has the detail, and what it
proves is what this module assumes (a verified record stands for the candidate in
place, a rolled-back one for the bytes of before). `shown` is what the operator
was shown, `confirmed` the versions whose typed confirmation is in the epoch's log.
The proposal may change at any time, and is read five times between the display and the
effect: for the display, after the confirmation (that snapshot is what the grant is
issued for, `granted`), by the coordinator before and under its lock (`loaded`), and
once more for its candidate (`bytes`). What is applied is what was loaded last; each
comparison on the way is a guard of its own step.
The ghost `gaps` remembers two gaps between the syncs; see below.

`GuardedActions` has proposals in the process, records on disk, a place for each
apply, and the lease. `inspect`, `execute` and `verify` belong to the handlers: a
plan is made from its target as it is then, and each later change of the target may make
it stale or, going back, fresh again (`Resettles`); an execute takes effect or not
whatever it reports; an archive takes settled records only (`Archivable`); archiving moves records one by one and may stop anywhere. A record is
its last line, or `empty`, or `torn`; the last two make every reader throw.

`RemoteBridge` has main, the requests, the session's promise chain (`tail`, its head
running) and the shutdown. A connection that connects or closes may take forever.

`ApprovalCustody` gives each call its controller and its helper. `caller` is where the
call's promises are (acquire, lease, release), `child` what the controller has heard of
the helper (`ChildState`), `helper` what is true of it: its lock is there from `locked`
until it ends. The failure flags are one set, `failed`, since a release only asks
whether any is up; `holderLost` and `pendingReleaseError` are `lost` and `unproved`.
A signal may fail, output may come at any time, exit and close are heard late, and
`OnUpset` is every error the controller listens to. The ghost `shared` remembers the
leases during which another helper had the lock. Frame parsing and the comparison of
metadata are one outcome, that the ready frame is good or is not.

`HttpSessions` names a session after the request that opened it. A handler has three
stages, cut where it awaits something others can change: the secret's comparison
(`authenticate` has looked at the revocation before it) and `handleRequest` (the limits
have been looked at before it). `expiry` and `overdue` are the sessions with times and
those past them. `handleRequest` is the transport's: it fails, opens or keeps a session,
or ends one. A request whose connection is gone before its listeners are attached never
gives back its place (`holding`). The rate window and header checks are refusals,
allowed anywhere a refusal is.

## What is checked

Each property is commented in `Phase3Coordinator`. The runs:

- **phase3_production**: the composition of `operatorRuntime.ts`, both kinds of
  targets, three faults (crashes, failed or unacknowledged journal writes, failed
  reads, outside edits, in any mixture). About 88,000 states. The type
  invariant; the coordinator never asks its journal for an illegal record
  (`RequestsAreLegal`) nor its verifier for an inadmissible one
  (`VerificationIsAdmitted`); settled records are true (`SettledMeansReal`); the
  rollback reload is demanded whenever the candidate may have been loaded
  (`RollbackReloadFlagSound`); the file changes only under a durable intent
  (`EffectsAreAnnounced`); the whole implements `Phase3Outcome` (`KeepsPromise`);
  and recovery converges (`EventuallySettled`).
- **phase3_in_memory**: the same with the in-memory journal's errors. A call that
  ends by itself never leaves the candidate live under an unsettled record
  (`CallsSettle`).
- **journal_writers**: two instances, three appends, two versions, a pending
  limit out of reach. About 2.4 million states under symmetry. What `append`
  reports is true and stays true through power failures (`ReportsAreTrue`);
  a scan never takes crash remains or a writer at work for tampering
  (`NoFalseAlarm`); and link, sync, cleanup and their failures together are the
  one-step compare-and-swap that the coordinator's module assumes
  (`ImplementsPort`).
- **journal_limits**: one instance and six appends against a pending limit of two
  and two versions. It stops writing before its own scan would fail
  (`PendingIsBounded`).
- **journal_overshoot** (a violation): `PendingIsBounded` with two instances.
  `assertCapacity` counts in one await and `mkdir` comes in a later one; both
  pass, the limit is exceeded, and the scans that follow latch every instance.
  The operator lock keeps the composed program out of it.
- **journal_reads** (a violation): `ReadsAreDurable`, that what a refresh answers
  is there to stay. A link whose sync failed or never came is read back as the
  newest record, without a sync, and acted on; a power failure takes it back.
- **waiter_queue**: the queue with two leases, two places and five callers that
  call again and again. Leases are counted and bounded (`LeasesAreCounted`), the
  queue is exactly the set of waiting calls and empty while a lease is free
  (`NobodyIsStranded`), nobody is overtaken and nobody is served past its
  deadline (`LeasesInOrder`), and every wait ends (`EveryWaitEnds`).
- **stores**: `MCStores` is a sum, not a product: a behaviour runs one of its two
  modules and leaves the other at its start, since no code calls across. About
  1.2 million states under symmetry. *Grants*: two stores, an operation each that starts
  again and again, two slots, two UUIDs, two stages of a kind and one of the header,
  one fault. A grant answered as issued is answered as spent at most once
  (`SingleUse`, the refinement of `OneUseGrants`); what was answered survives a loss
  of power (`AnswersAreDurable`); no two slots hold one id, which would condemn every
  store for good (`GrantIdsUnique`); remediation takes no stage from under an
  operation (`HeldStagesExist`). *Proposals*: three calls, two at a time, two keys,
  one fault. The log tells the truth (`AuditTellsTheTruth`): a
  failure outcome means no effect, if calls never overlapped and no failed write left a
  file of its own behind, and any other outcome
  means the effect or the stored state it asks for; a key has one proposal
  (`OneProposalPerKey`); a healthy log is never offered an outcome without its attempt
  or a second one, by a call, its catch blocks or a restart
  (`NoRecordIsRefused`); a restart can decide what became of every call without an
  outcome (`UnsettledIsDecidable`).
- **operations**: `MCOperations`, a sum of five. About 1.7 million states.
  `ResourcesAreKept` is one property of three of them: the bridge runs one operation
  at a time (`OneOperationRuns`), has no connection but its current one and those being
  opened or closed for a caller, and an orderly end closes them all
  (`NoConnectionIsLeaked`, `OrderlyEndIsClean`); the custody
  controllers spawn no more helpers than the limit (`HelpersAreLimited`); a client's
  counts are its sessions, each session has its time, and no unrevoked client holds
  more places than are counted (`SessionBooks`). *Epochs*:
  one archive besides the active epoch, two versions of the proposal, one live grant,
  one edit, two faults (failed calls, deaths, power failures). No transaction is
  lost and nothing unsettled or still spendable is archived (`EpochsAreKept`); an
  interrupted rotation can be resumed (`RotationIsResumable`); what the coordinator
  loaded and applied was shown and confirmed in that version, although the proposal may
  change between any two of its readings (`OnlyShownIsApplied`); a command that settled
  or dispatched is never answered as a failure (`AnswersAreHonest`). *Guarded
  actions*: two plans for one target, the archive plan, a limit of two records, one
  fault (`OneUncertainPerTarget`, `OutcomesAreTrue`). The second plan may be made after
  the first took effect, and is then held back by the first one's record and by nothing
  else. *Bridge*: three requests, three
  connections: every shutdown ends, by force or with every connection closed
  (`ShutdownEnds`). *Custody*: two calls. A release reported as done vouches for its
  whole lease (`CustodyWasExclusive`); every acquire and every release is answered
  (`EveryCustodyCallEnds`). *Sessions*: three requests of one client. A revoked client
  ends without a session and without a place counted for one, for good, whatever
  handlers were under way (`RevokedClientsLeave`).
- **proposal_race** (a violation): `FailureMeansNoEffect` with two overlapping calls
  and no fault. `finishMutation` reads the journals outside its turn; the temporary
  file of the call that has the turn is taken for debris, quarantined, and the store
  latched. The first call's proposal is stored, and it is answered, and logged, as
  failed.
  The quarantine does not need the overlap. When the sync of a journal's reservation
  fails, `reservationCreated` is not yet set and the empty name stays
  (`storage.ts:240`); the next call, alone, stores its proposal, meets the name in
  `finishMutation`, latches the store and is answered, and logged, as failed. With
  `MaxOpen = 1` and one fault TLC finds that trace for `FailureMeansNoEffect`. This is
  why `AuditTellsTheTruth` says what it says of failures only of directories that
  nothing has littered (`FailuresAreTrueAlone`).
- **phase3_conflict** (a violation): `CallsSettle` over the durable journal.
  `errorCode()` does not see the code of a `Phase3JournalError`, so `manual()`
  rethrows the conflict it is meant to reconcile. The candidate stays live and
  the record open until a later `recover`.
- **phase3_orphan** (a violation): `SettledMeansReal` when a recovery may start
  while the helper of a dead apply still runs. The recovery settles as rolled
  back and the candidate goes live afterwards.

The other runs, and the theorems on settled records, announced effects and the
promise, assume the opposite of the last one (`OrphanOverlaps = FALSE`): the window
is the helper's remaining lifetime, and the run shows that the assumption is needed.

**Bounds.** One transaction, because an epoch holds one
(`operatorRuntime.ts:301`). `MaxFaults = 3`: the longest story a fault tells here
has three parts (a write whose acknowledgement is lost, an edit, and a crash in
the recovery that follows), and reloads, validations, the helper's failures and
refusals need no fault and are unbounded. The proofs do not depend on the bound.
The journal's three appends are a winner, a loser and a remain of a crash;
two versions give a record with a predecessor and a full directory; the single
writer's six appends fill the pending limit twice over.
Two approval stores with two slots have a race for one slot and one receipt, a full
root, a collision of UUIDs (two for as many issues as one likes) and a slot that a
power failure frees again; one fault is one loss or one latched store, and the proofs
of that module hold for any number. Three proposal calls are a proposal, its discard
or a second proposal under its key, and a third that meets what they left; the proofs are for any
number of calls. One archive makes two epochs: the one that is rotated out and the one
that comes in, with the budget then spent; two faults are a crash inside a rotation and one inside its
resumption; the proofs hold for every budget and any number of faults. The same runs
with three faults, and with two archives, were checked once and hold too, but take
longer. Two plans for one target are what `OneUncertainPerTarget` is about; their proofs
hold for any number. Three connections
are the first and two replacements, one of which may fail. Two calls for custody are a
holder and one who waits for its lock; three of them were checked once and hold too
(2.4 million states), and the proof is for any number. Three requests are one that
opens a session and two that meet it, or two that open one each past the limit of one;
two clients were checked once and hold too (855,000 states).
The queue's run has the smallest numbers with every lease out, a full queue and
one caller more; two leases distinguish a lease handed over from one freed.

**What the checks found** beyond the violations above. These are ends the code really
reaches; the properties are stated so that they except them by name.

- *Rotation.* A crash between the creation of `rotation.json` and its writing leaves
  an empty marker: open, rotate and resume all refuse from then on. A crash while the
  new epoch's header has its stage file leaves a directory `validateFreshActive`
  refuses, and the rotation cannot be resumed; a stage file whose removal failed
  silently leaves the header with two links, and the epoch never opens. An unlink of
  the marker that was not synced can be undone by a power failure after the new epoch
  was used, and the resume refuses it (`"undone"` in `gaps`). A resumed rotation that
  finds the active directory does not sync the parent again (`retention.ts:218`): if
  the first sync and the last one are both missed, a power failure can take the
  directory with the transaction applied in it (`"unsynced"` in `gaps`).
  `docs/phase3-contracts.md:112` calls the whole sequence recoverable. A crash of the
  first `init` after `mkdir active` needs a human, as documented.
- *Approval.* `approveProposal` logs `failed` when `coordinator.apply` throws, though
  an open record may remain; the record is what recovery goes by.
- *Grants.* With two issues at once on **one** store object, three slots and an equal
  UUID, `GrantIdsUnique` fails: the look-up passes over a slot that is already in the
  shared view (`durableApproval.ts:2840`), and the second issue takes a free slot
  further on. With two slots it takes one more store to get there.
  `docs/phase3-contracts.md:338` says that an id already committed never makes another
  slot, and `:356` that issues with colliding UUIDs give two unique grants. Callers in
  `src` issue one grant per store object at a time, and so does the run; the theorem
  assumes it (`OneOperationPerStore`).
- *Proposals.* A discard that is cancelled or late before its attempt is appended latches
  the audit log although no write failed: `append` asserts the context inside the `try`
  whose `catch` sets `unhealthy` (`proposalService.ts:388`, `phase2Audit.ts:182`, `:201`),
  and every later call is refused until a restart. A discard cancelled between its journal and its effect leaves a prepared
  journal; when the proposal then expires, every later start finds it ambiguous and
  refuses.
- *Guarded actions.* A record that is empty or torn makes `readRecord` throw, and with
  it every later apply on every target and the archive.
- *Sessions.* A session can be entered after its client's revocation, or come back
  after a reset, and then stays until it is idle (`http.ts:224`); the limits of
  `http.ts:197` are read before two awaits, so requests that open sessions at once pass
  them together; a session entered after the server's close is swept by nobody
  (`RevokedClientsLeave` speaks of a server that serves). A connection that ends while
  its secret is compared keeps its place among the client's requests (`http.ts:164`).
- *Bridge.* A first connection that failed is kept in `remotePromise`; no later request
  of that process can succeed.

**Fairness** (`Fairness`): a started call keeps running (an await on a port is
bounded by a deadline); the helper keeps running (it only makes system calls, and
is killed at the deadline); a dead apply's helper ends; and the operator runs
`recover` while the record is there. Nothing is assumed about approvals, crashes,
edits, or Home Assistant. The number of faults is finite, which is what makes
convergence a fair question.

For the queue, every holder releases: both callers do so in a `finally` around
work that is bounded by a deadline. Deadlines, timers and aborts are not assumed
to come.

For the bridge the shutdown timer fires if nothing clears it (`WF` of `TimerFires`, a
timer of Node); nothing is assumed of the network, the local transport or the rest of
the program. For custody the two timers of each controller fire (`WF` of
`CustodyTimers`), and nothing is assumed of the helper or its events. For the sessions
time passes and the server's interval fires while it is set (`WF` of `TimePasses` and
`Sweep`); no handler has to go on. `stores` claims no liveness.

**Deadlock** is checked in the runs of the coordinator, the queue and the journal:
Home Assistant can always reload, so it says little of the first, and progress is the
business of `EventuallySettled`. The runs of `MCStores` and `MCOperations` may stop:
calls are used up, a service may stay down, a bridge exits, a server closes.

`Mutant:` definitions are plausible mistakes in the code next to them; each
property is known to fail under one, and the two that several guards keep together
(`OnlyShownIsApplied`, `OneUncertainPerTarget`) under the loss of any of them.
`ResourcesAreKept` fails under one of `SessionBooks`; its other parts are not limits the
runs press on, and the number of sessions of a client is no part of it.

## What is proved

Every safety property and every action property of the passing runs is a theorem for
all values of the constants, and so are the three refinements (`KeepsPromise`,
`ImplementsPort`, `SingleUse`); what remains to TLC is named at the end.

**The coordinator**, for every set of reload targets, any number of faults and both
journals:

- `TypeCorrect`: `Spec => []TypeOK`. The invariant needs one strengthening,
  `ReloadHasCaller`: the rollback reload runs inside another block, so the pop in
  `RollbackReloadSettle` and `Propagate` never meets an empty stack.
- `RequestsLegal` (`RequestsAreLegal`), `VerificationAdmitted`
  (`VerificationIsAdmitted`), `ReloadFlagSound` (`RollbackReloadFlagSound`) and
  `CallsSettleCorrect` (`CallsSettle`, for a journal whose conflicts the coordinator
  recognises). They follow from the `Ledger` of what the journal and the memory hold:
  the newest record is a legal one; the record in hand and those of the enclosing
  blocks are records that were written; where the program is about to write, `cur` is
  in a state from which that step is legal (`DueAt`); and a reload that has started is
  remembered in the flag or in the state. `RequestsAreLegal` speaks of `cur` only, and
  a `catch` block may hold an old one: that is why the ledger knows the whole stack.
- `SettledCorrect` (`SettledMeansReal`), if no command overlaps an orphaned helper.
  `SettledMeansReal` is not inductive: it says
  nothing of a state about to settle. `Safe` adds that the record in hand is the
  newest one wherever the program acts on it (`CurIsLatest`), that a helper is
  awaited or orphaned (`HelperHasParent`) and is only ever alive under
  `intent_prepared` or `rollback_intent` (`HelperIsAnnounced`,
  `EffectsHaveIntent`), and that what the steps of a verification have seen still
  holds while the file is quiet (`Inspected`). The proof first shows what each
  kind of step does to `Safe` (a failed write, a successful one, a move inside a
  block, an inspection, a settlement) and then sorts the actions into kinds.
- `EffectsAnnounced` (`EffectsAreAnnounced`) and `PromiseKept` (`KeepsPromise`, the
  refinement of `Phase3Outcome`), under the same assumption: a helper works under the
  record that announced its content, with the grant spent, and lands once. Every step
  is then one of the abstract specification or a stutter; a settlement needs `Safe` in
  the state before it, since the abstract step says what the file holds.
- `HistoriesStayShort`: a transaction has at most eleven records, whatever crashes,
  conflicts and recoveries do to it, since every legal step leads further down a
  chain without cycles (`Depth`). The reader's limit of 128 records
  (`journal.ts:36`) is therefore out of reach, and the module has none.

**The queue**, for every set of callers, every capacity and every waiter limit:
`QueueTypes`, `Exclusion` (`LeasesAreCounted`), `NoStrandedWaiter`
(`NobodyIsStranded`) and `OrderedLeases` (`LeasesInOrder`). The first three are
inductive only together: a lease can be handed on without changing the count only
because the waiter in the queue holds none, which is `Queued = Waiting`; and a waiter
is passed by nobody because the queue holds it once.

**The journal**, for every set of instances, every limit and every number of appends:

- `JournalTypes`, `ReportsCorrect` (`ReportsAreTrue`) and `JournalImplementsPort`
  (`ImplementsPort`). `JournalInv` adds to the reports who owns which record:
  an append's record is its own (`HoldsItsOwn`), is not in the directory until its
  link (`UnlinkedIsAbsent`) and stays after its predecessor from then on, never to
  be refused (`LinkedIsThere`); and what a caller knows and a scan has listed is
  a part of the history (`ReadsAreHistory`), which is why the link that finds its
  name free also finds the expected predecessor. All steps but two kinds are
  `Quiet`: one instance moves, the finals stay. The proof shows that a quiet step,
  a link and a power failure keep the invariant, and then sorts the actions.
- `PendingStaysBounded` (`PendingIsBounded`) and `NoAlarmIsFalse` (`NoFalseAlarm`),
  if `LimitIsSafe`: there is one instance, as under the operator lock, or all appends
  together stay below the pending limit. `journal_overshoot` shows that the condition
  is needed. `ScansInv` says what a scan between its passes may still meet (`Listed`)
  and how far each append's entry is built (`Builds`).

**The approval store**, for every set of stores and operations, every limit and any
number of faults:

- `GrantsTyped`, `HeldStagesStay` (`HeldStagesExist`), `AnswersStayDurable`
  (`AnswersAreDurable`), and `OneUseOfAGrant` (`SingleUse`), the refinement of
  `OneUseGrants`. `HeldStagesExist` needs `Exclusion`: while a store remediates, no
  other is open and none of its own operations run. The stages
  are then counted against their holders, and a step moves both by the same number
  (`MovesHold`), which also bounds the counts from below. `Durable` adds, for every
  operation on its way, what its answer will rest on: a link found in place is a
  receipt already there, a receipt past its sync is synced, and one call at most reads
  its own inode back. Steps of one operation take nothing from the others (gentle
  steps, `OthersRest`); power failures take only what is unsynced.
- `GrantIdsStayUnique` (`GrantIdsUnique`), if every store object has one operation at
  a time (`OneOperationPerStore`), which is how `src` uses them and without which it
  fails (see *Grants* above). The slots an issue has passed over hold other ids, and
  if its own id is in a slot, every slot up to that one is taken (`IdsApart`); stores
  race for the slots as they like.

**The proposal service**, for any number of calls, keys, calls under way and faults:
`ProposalsTypesCorrect`, `OneProposalCorrect` (`OneProposalPerKey`), `AuditTrue`
(`AuditTellsTheTruth`), `NoRecordRefused` (`NoRecordIsRefused`) and
`UnsettledDecidable` (`UnsettledIsDecidable`). The invariant tells how far each call
has come three times: from its effect (`Effected`), from its journal (`Filed`) and
from the log (`Answered`). `serialized` has one call in its turn (`OneTurn`), so what a
mutation was decided against still holds when it is put in place (`Due`); that much is
true however calls overlap. What a failure in the log says, and that only the log was
wanting when a journal stays behind, is kept in a part of its own (`AloneHolds`) for
as long as calls never overlapped, because the journals are read outside the turn. Its
first half, `NoFalseFailure`, is also given up once a failed write has left a file of
its own behind (`littered`). `proposal_race` is what happens otherwise.

**The operator's epochs**, for every budget of archives, every set of versions and any
number of grants, edits and faults: `EpochTypes`, `EpochsKept` (`EpochsAreKept`),
`RotationResumable` (`RotationIsResumable`), `OnlyShownApplied`
(`OnlyShownIsApplied`) and `HonestAnswers` (`AnswersAreHonest`), from `EpochInv`. The
forms of the directory that a power failure may leave are only older than it is
(`FormsAreOlder`), their markers are that of the rotation under way or name an epoch
rotated out since (`MarkersAreOlder`), and an epoch in neither place was never touched
(`OthersAreNew`). The epoch that opens is therefore the active one in every form
(`OpenIsThere`), and no transaction starts in one that the power could take, but for
the two gaps that the properties except (see *Rotation* above). Where a
command is says what it has found, and it stays true because the command has the lease
(`RotationHolds`, `RotatesInOrder`, `RefreshesInside`, `AppliesInside`). What is applied
was shown because what was granted was confirmed, what the candidate was compared with is
what the grant was compared with (`AppliesInside`), and the first record is written only
after both comparisons.

**Guarded actions**, for every set of plans and targets and any number of faults:
`GuardedTyped`, `OutcomesStayTrue` (`OutcomesAreTrue`) and `AtMostOneUncertain`
(`OneUncertainPerTarget`), from one invariant, `GuardedInv`: where an apply is says
what its proposal and record are (`Courses`); it has the lease from the check to its
end (`Leases`); what the check found settled on the target stays so until the send,
because nobody else can send (`Checked`); so a second uncertain change is never made
(`Pairs`).

**Custody**, for any number of calls: `ExclusiveToTheEnd` (`CustodyWasExclusive`). A
lease's helper has had the lock and ends cleanly only after a release told it to, so a
lease that was shared has a dead helper, and stays so (`CustodyInv`). Each step is first
reduced to the few moves of one call that matter (`CustodyMoves`), and the invariant is
proved of those. `CustodyTypes` and `LimitedHelpers` (`HelpersAreLimited`): a slot is
charged from the spawn to the close of a child (`CustodySlots`), a helper that lives has
a child that runs, and so the slots bound the helpers.

**The bridge**, for every set of requests and any number of connections: `BridgeTypes`,
`OneAtATime` (`OneOperationRuns`), `NothingIsLeaked` (`NoConnectionIsLeaked`) and
`OrderlyEnds` (`OrderlyEndIsClean`), from `BridgeInv`. The promise chain holds each
queued request once and then the close, whose place is the last (`TailIsTheQueue`), so
at its turn no request has the session any more; the shutdown and the session keep step
(`SessionFollowsShutdown`); before there is a session there is no connection but the
first (`FirstIsAlone`); and from then on the current one is connected until its own
close (`CurrentIsConnected`). A connection that is none of these belongs to the one
request that runs (`OnItsConnection`).

**The sessions**, for every set of requests and clients, finite or not, and every limit:
`HttpTypes` and `BooksAreRight` (`SessionBooks`), from `HttpInv`. A session is the
session of the client that opened it, also for a handler that found it before an await
(`Handlers`), which is why the clean-up at the end of a handler takes the count from the
client that has it; entering and cleaning up move the count by one exactly when they
move the session (`Books`). A client's places are counted from below only, and only
until it is revoked (`Flights`): a revocation forgets the count while handlers go on.

**Sums.** `OperationsTyped` (`OperationsTypeOK`), `ResourcesKept` (`ResourcesAreKept`)
and `StoresTyped` (`StoresTypeOK`): a behaviour of `MCOperations` or `MCStores` is one of
each of its modules (`EachRuns`, `BothRun`), so that what is proved of the modules holds
of the sums.

*Assumptions.* The constants' own, which TLC evaluates in every run: `Targets` are
contract targets and the switches Boolean; callers and operations are finitely many;
limits, budgets and attempts are natural numbers, positive where a zero would leave
nothing to do; names of different kinds differ. Four theorems about the coordinator
assume one of its switches, `~OrphanOverlaps` or `CoordinatorErrors`; three assume
`LimitIsSafe` or `OneOperationPerStore`. `phase3_orphan`, `phase3_conflict`,
`journal_overshoot` and the entry *Grants* above show what happens without each of
them.

*Only model-checked.* Liveness, out of the prover's reach: `EventuallySettled`,
`EveryWaitEnds`, `ShutdownEnds`, `EveryCustodyCallEnds`, `RevokedClientsLeave`. The
violations are runs by nature. The other way round, `HistoriesStayShort` is a theorem
that no run repeats.

## What is not modelled, and the plan

Next, in this order:

1. The limits of `Phase3Journal` for several instances whose appends the operator
   lock keeps apart, which `LimitIsSafe` leaves out.
2. `Checkpoints`: the checkpoint store stages and links as the journal does; what
   it adds is that a checkpoint outlives its transaction.
3. Start-up and shutdown of the phase 2 activation, and the pairing window and the
   retention of revoked records (`ingress.ts`, `security/pairing.ts`).

Not modelled:

- Repository, git and YAML reads: functions of a file tree with limits; nothing is
  kept from one call to the next, so there is no state to check.
- TLS: the making of certificates.
- The approval key: provisioned once, before anything else. Custody is not composed in
  the running program; `ApprovalCustody` models it by itself, and what it promises is
  the guard `Custody` of `ApprovalGrants`.
- Home Assistant's clients and the setup handlers: requests and their formatting. The
  one thing other parts depend on, that a sent request may or may not have taken
  effect, is in `GuardedActions` and `Phase3Coordinator`.
- The tools, schemas, redaction, configuration and the shell: wiring and formatting.
- `src/addon/app/src`, the copy of `src/src` for the add-on image: the modules name the
  lines of `src/src` only. `src/scripts` are harnesses around the built image.
