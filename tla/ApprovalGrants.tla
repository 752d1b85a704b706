--------------------------- MODULE ApprovalGrants ----------------------------
(***************************************************************************)
(* The durable approval store (durableApproval.ts): one-use grants in a     *)
(* fixed number of slot directories, shared by every store object opened on *)
(* the same root.  A grant is staged and renamed into a slot; it is spent by *)
(* linking a receipt, used.json, into its slot.                             *)
(*                                                                         *)
(* One step of an operation is what lies between two awaited file system     *)
(* calls other operations can tell apart.  A scan is one step: slots and     *)
(* receipts only appear, so a scan that reads them one by one sees what some *)
(* instant of its own held; that it gives up under interference is one of    *)
(* the faults.  A stage directory has no name here, only a count against its *)
(* limit.  HMACs, modes and identity checks are not modelled: nobody else    *)
(* writes the root.                                                        *)
(***************************************************************************)
EXTENDS Naturals, FiniteSets

CONSTANTS
  Stores,          \* store objects, each in a process of its own
  GrantTasks,      \* operations in progress at once
  Home,            \* the store each of them is called on
  NSlots,          \* slots of the root
  Uuids,           \* what randomUUID can return
  GrantStages,     \* .grant-stage-NN directories
  HeaderStages,    \* .header-stage-N files
  UsedStages,      \* .used-stage-N files of a slot
  UuidAttempts,    \* UUIDs tried per issue
  MaxGrantFaults,  \* bound on failed calls, process deaths and power failures
  None

Slots == 0..(NSlots - 1)

ASSUME GrantsAssumption ==
  /\ IsFiniteSet(GrantTasks) /\ Home \in [GrantTasks -> Stores]
  /\ NSlots \in Nat \ {0}
  /\ {GrantStages, HeaderStages, UsedStages, UuidAttempts} \subseteq Nat \ {0}
  /\ MaxGrantFaults \in Nat
  /\ None \notin Uuids \cup GrantTasks

VARIABLES
  slot,          \* the grant id in each slot, or None
  used,          \* who linked the receipt of each slot, or None
  header,        \* header.json is there
  grantStages,   \* stage directories in the root
  headerStages,  \* stage files of the header
  usedStages,    \* stage files of each slot
  unsynced,      \* entries a power failure may take away
  life,          \* the lifecycle of each store object
  ready,         \* its `initialized'
  sick,          \* its `unhealthy'
  view,          \* the slots its last scan found, shared by its operations
  remediating,   \* its `remediationReserved'
  op,            \* what each operation is at
  granted,       \* the slots whose issue was answered
  spends,        \* how often each slot's consumption was answered
  grantFaults    \* the failures, deaths and power failures so far

diskVars == <<slot, used, header, grantStages, headerStages, usedStages, unsynced>>
storeVars == <<life, ready, sick, view, remediating>>
answerVars == <<granted, spends>>
grantVars == <<diskVars, storeVars, op, answerVars, grantFaults>>

Lives == {"open", "closing", "closed", "dead"}
Stages ==
  {"idle", "header_claim", "header_link", "header_sync", "header_rescan",
   "issue_claim", "issue_staged", "issue_rename", "issue_contend",
   "issue_sync", "issue_scan",
   "use_claim", "use_link", "use_sync", "use_read"}
AtASlot == {"issue_rename", "issue_contend", "issue_sync", "issue_scan",
            "use_claim", "use_link", "use_sync", "use_read"}
Idle == [pc |-> "idle", id |-> None, at |-> None, tries |-> 0]

\* An issue with a UUID just drawn, its n-th.
Drawing(u, n) == [pc |-> "issue_claim", id |-> u, at |-> None, tries |-> n]

\* The entries whose directory has not been synced since they were made.
HeaderEntry == <<"header", 0>>
SlotEntry(s) == <<"slot", s>>
UsedEntry(s) == <<"used", s>>
Entries == {HeaderEntry} \cup {SlotEntry(s) : s \in Slots} \cup {UsedEntry(s) : s \in Slots}
RootEntries == {HeaderEntry} \cup {SlotEntry(s) : s \in Slots}

\* The types of the variables and the ranges the limits leave.
GrantsTypeOK ==
  /\ slot \in [Slots -> Uuids \cup {None}]
  /\ used \in [Slots -> GrantTasks \cup {None}]
  /\ header \in BOOLEAN
  /\ grantStages \in 0..GrantStages /\ headerStages \in 0..HeaderStages
  /\ usedStages \in [Slots -> 0..UsedStages]
  /\ unsynced \subseteq Entries
  /\ life \in [Stores -> Lives]
  /\ ready \in [Stores -> BOOLEAN] /\ sick \in [Stores -> BOOLEAN]
  /\ view \in [Stores -> SUBSET Slots]
  /\ remediating \in [Stores -> BOOLEAN]
  /\ op \in [GrantTasks -> [pc : Stages, id : Uuids \cup {None},
                            at : Slots \cup {None}, tries : 0..UuidAttempts]]
  /\ \A t \in GrantTasks : op[t].pc \in AtASlot => op[t].at \in Slots
  /\ granted \subseteq Slots
  /\ spends \in [Slots -> Nat]
  /\ grantFaults \in 0..MaxGrantFaults

GrantsInit ==
  /\ slot = [s \in Slots |-> None]
  /\ used = [s \in Slots |-> None]
  /\ header = FALSE
  /\ grantStages = 0 /\ headerStages = 0
  /\ usedStages = [s \in Slots |-> 0]
  /\ unsynced = {}
  /\ life = [st \in Stores |-> "open"]
  /\ ready = [st \in Stores |-> FALSE]
  /\ sick = [st \in Stores |-> FALSE]
  /\ view = [st \in Stores |-> {}]
  /\ remediating = [st \in Stores |-> FALSE]
  /\ op = [t \in GrantTasks |-> Idle]
  /\ granted = {}
  /\ spends = [s \in Slots |-> 0]
  /\ grantFaults = 0

-------------------------------------------------------------------------------
Occupied == {s \in Slots : slot[s] # None}

\* Two slots with one id make every scan throw.
ScanIsSound == \A s, r \in Occupied : slot[s] = slot[r] => s = r

\* A refresh or a rescan that is answered: the header and the slots, in view.
ScanFinds(st) ==
  /\ header /\ ScanIsSound
  /\ view' = [view EXCEPT ![st] = Occupied]

Fault == grantFaults < MaxGrantFaults /\ grantFaults' = grantFaults + 1
NoFault == UNCHANGED grantFaults

\* Why a scan fails, and what each failure costs.
ScanFails ==
  \/ ~(header /\ ScanIsSound) /\ NoFault
  \/ header /\ ScanIsSound /\ Fault

Latch(st) == sick' = [sick EXCEPT ![st] = TRUE]
At(t, pc) == op' = [op EXCEPT ![t].pc = pc]
End(t) == op' = [op EXCEPT ![t] = Idle]

\* run: the lifecycle admits the call, and assertHealthy does.
Admitted(t) ==
  /\ op[t].pc = "idle"
  /\ life[Home[t]] = "open"
  /\ ~remediating[Home[t]]
Healthy(t) == ready[Home[t]] /\ ~sick[Home[t]]

-------------------------------------------------------------------------------
(* initialize *)

\* The first scan decides: a header is there, it has to be made, or slots
\* without a header condemn the store.
StartInitialize(t) ==
  /\ Admitted(t)
  /\ ~sick[Home[t]]
  /\ \/ /\ ScanFinds(Home[t])
        /\ ready' = [ready EXCEPT ![Home[t]] = TRUE]
        /\ NoFault /\ UNCHANGED <<op, sick>>
     \/ /\ ~header /\ Occupied = {}
        /\ At(t, "header_claim")
        /\ NoFault /\ UNCHANGED <<ready, sick, view>>
     \/ /\ \/ ~header /\ Occupied # {} /\ NoFault
           \/ ~header /\ Occupied = {} /\ Fault
           \/ header /\ ScanFails
        /\ Latch(Home[t])
        /\ UNCHANGED <<op, ready, view>>
  /\ UNCHANGED <<diskVars, life, remediating, answerVars>>

\* claimFileStage: the stage is written and synced, or none of them is free;
\* a write that fails leaves its stage behind.
HeaderClaim(t) ==
  /\ op[t].pc = "header_claim"
  /\ \/ headerStages < HeaderStages /\ NoFault
        /\ headerStages' = headerStages + 1
        /\ At(t, "header_link") /\ UNCHANGED sick
     \/ headerStages < HeaderStages /\ Fault
        /\ headerStages' = headerStages + 1
        /\ End(t) /\ Latch(Home[t])
     \/ headerStages = HeaderStages /\ NoFault
        /\ End(t) /\ UNCHANGED <<headerStages, sick>>
  /\ UNCHANGED <<slot, used, header, grantStages, usedStages, unsynced,
                 life, ready, view, remediating, answerVars>>

\* commitHeader: the link of whoever comes first stays; the others go on too.
HeaderLink(t) ==
  /\ op[t].pc = "header_link"
  /\ \/ /\ header' = TRUE
        /\ unsynced' = IF header THEN unsynced ELSE unsynced \cup {HeaderEntry}
        /\ At(t, "header_sync")
        /\ NoFault /\ UNCHANGED sick
     \/ /\ ~header /\ Fault
        /\ End(t) /\ Latch(Home[t])
        /\ UNCHANGED <<header, unsynced>>
  /\ UNCHANGED <<slot, used, grantStages, headerStages, usedStages,
                 life, ready, view, remediating, answerVars>>

\* The root is synced and the winner read; then the stage is removed.
HeaderSync(t) ==
  /\ op[t].pc = "header_sync"
  /\ \/ /\ unsynced' = unsynced \ RootEntries
        /\ headerStages' = headerStages - 1
        /\ At(t, "header_rescan")
        /\ NoFault /\ UNCHANGED sick
     \/ /\ Fault /\ End(t) /\ Latch(Home[t])
        /\ UNCHANGED <<unsynced, headerStages>>
  /\ UNCHANGED <<slot, used, header, grantStages, usedStages,
                 life, ready, view, remediating, answerVars>>

HeaderRescan(t) ==
  /\ op[t].pc = "header_rescan"
  /\ End(t)
  /\ \/ /\ ScanFinds(Home[t]) /\ NoFault
        /\ ready' = [ready EXCEPT ![Home[t]] = TRUE]
        /\ UNCHANGED sick
     \/ /\ ScanFails /\ Latch(Home[t])
        /\ UNCHANGED <<ready, view>>
  /\ UNCHANGED <<diskVars, life, remediating, answerVars>>

-------------------------------------------------------------------------------
(* issueApplyGrant *)

\* The proposal and the context are refused without effect, the refresh fails,
\* the root is full, or a UUID is drawn.
StartIssue(t) ==
  /\ Admitted(t) /\ Healthy(t)
  /\ \/ /\ ScanFinds(Home[t])
        /\ Cardinality(Occupied) < NSlots
        /\ \E u \in Uuids :
             op' = [op EXCEPT ![t] = Drawing(u, 1)]
        /\ NoFault /\ UNCHANGED sick
     \/ /\ ScanFinds(Home[t])
        /\ Cardinality(Occupied) >= NSlots
        /\ NoFault /\ UNCHANGED <<op, sick>>
     \/ /\ ScanFails /\ Latch(Home[t])
        /\ UNCHANGED <<op, view>>
  /\ UNCHANGED <<diskVars, life, ready, remediating, answerVars>>

\* claimGrantStage and the synced grant.json in it.
ClaimGrantStage(t) ==
  /\ op[t].pc = "issue_claim"
  /\ \/ grantStages < GrantStages /\ NoFault
        /\ grantStages' = grantStages + 1
        /\ At(t, "issue_staged") /\ UNCHANGED sick
     \/ grantStages < GrantStages /\ Fault
        /\ grantStages' = grantStages + 1
        /\ End(t) /\ Latch(Home[t])
     \/ grantStages = GrantStages /\ NoFault
        /\ End(t) /\ UNCHANGED <<grantStages, sick>>
  /\ UNCHANGED <<slot, used, header, headerStages, usedStages, unsynced,
                 life, ready, view, remediating, answerVars>>

\* cleanupDirectoryBeforeCommit, and the operation is over.
GiveUpStage(t) ==
  /\ grantStages' = grantStages - 1
  /\ End(t)

\* Mutant: the attempts are not counted.
RetriesUncounted(t) ==
  /\ grantStages' = grantStages - 1
  /\ \E u \in Uuids :
       op' = [op EXCEPT ![t] = Drawing(u, op[t].tries + 1)]

\* A collision: the stage goes, and another UUID is drawn while attempts last.
RetryUuid(t) ==
  /\ grantStages' = grantStages - 1
  /\ IF op[t].tries < UuidAttempts
     THEN \E u \in Uuids :
            op' = [op EXCEPT ![t] = Drawing(u, op[t].tries + 1)]
     ELSE End(t)

\* The slots still to be tried, and the probe of the first of them: those in
\* the store's view are passed over unread.
Untried(from, seen) == {s \in Slots : s >= from /\ s \notin seen}
Probe(t, from, seen) ==
  \/ /\ Untried(from, seen) = {}
     /\ GiveUpStage(t)
  \/ \E s \in Untried(from, seen) :
       /\ \A r \in Untried(from, seen) : s <= r
       /\ op' = [op EXCEPT ![t].pc = "issue_rename", ![t].at = s]
       /\ UNCHANGED grantStages

\* Mutant: only the slots the store knew before the refresh are looked at.
CollidesInView(t) == \E s \in view[Home[t]] : slot[s] = op[t].id

\* The id is taken by a grant on disk.
Collides(t) == \E s \in Occupied : slot[s] = op[t].id

\* After staging: validated again, refreshed, and the id looked up.
StagedGrant(t) ==
  /\ op[t].pc = "issue_staged"
  /\ \/ /\ GiveUpStage(t)
        /\ NoFault /\ UNCHANGED <<view, sick>>
     \/ /\ ScanFails /\ GiveUpStage(t) /\ Latch(Home[t])
        /\ UNCHANGED view
     \/ /\ ScanFinds(Home[t])
        /\ IF Collides(t)
           THEN RetryUuid(t)
           ELSE Probe(t, 0, Occupied)
        /\ NoFault /\ UNCHANGED sick
  /\ UNCHANGED <<slot, used, header, headerStages, usedStages, unsynced,
                 life, ready, remediating, answerVars>>

\* commitGrantToSlot up to the look at source and target: refused, renamed
\* (whatever the call reported), found occupied, or failed without effect.
\* An error that is not contention, with the target there, is indeterminate.
RenameGrant(t) ==
  LET s == op[t].at IN
  /\ op[t].pc = "issue_rename"
  /\ \/ /\ GiveUpStage(t)
        /\ NoFault /\ UNCHANGED <<slot, unsynced, sick>>
     \/ /\ slot[s] = None
        /\ slot' = [slot EXCEPT ![s] = op[t].id]
        /\ unsynced' = unsynced \cup {SlotEntry(s)}
        /\ grantStages' = grantStages - 1
        /\ At(t, "issue_sync")
        /\ NoFault /\ UNCHANGED sick
     \/ /\ slot[s] # None
        /\ At(t, "issue_contend")
        /\ NoFault /\ UNCHANGED <<slot, unsynced, grantStages, sick>>
     \/ /\ slot[s] = None /\ Fault
        /\ GiveUpStage(t) /\ Latch(Home[t])
        /\ UNCHANGED <<slot, unsynced>>
     \/ /\ slot[s] # None /\ Fault
        /\ End(t) /\ Latch(Home[t])
        /\ UNCHANGED <<slot, unsynced, grantStages>>
  /\ UNCHANGED <<used, header, headerStages, usedStages,
                 life, ready, view, remediating, answerVars>>

\* A slot taken by another: synced for it, then the collision or the next slot.
ContendForSlot(t) ==
  /\ op[t].pc = "issue_contend"
  /\ \/ /\ Fault /\ End(t) /\ Latch(Home[t])
        /\ UNCHANGED <<unsynced, grantStages, view>>
     \/ /\ unsynced' = unsynced \ RootEntries
        /\ \/ /\ slot[op[t].at] # op[t].id
              /\ Probe(t, op[t].at + 1, view[Home[t]])
              /\ NoFault /\ UNCHANGED <<view, sick>>
           \/ /\ slot[op[t].at] = op[t].id
              /\ ScanFinds(Home[t]) /\ RetryUuid(t)
              /\ NoFault /\ UNCHANGED sick
           \/ /\ slot[op[t].at] = op[t].id
              /\ ScanFails /\ GiveUpStage(t) /\ Latch(Home[t])
              /\ UNCHANGED view
  /\ UNCHANGED <<slot, used, header, headerStages, usedStages,
                 life, ready, remediating, answerVars>>

\* The root is synced: from here the grant is durable, if the caller hears so.
SyncGrant(t) ==
  /\ op[t].pc = "issue_sync"
  /\ \/ /\ unsynced' = unsynced \ RootEntries
        /\ At(t, "issue_scan")
        /\ NoFault /\ UNCHANGED sick
     \/ /\ Fault /\ End(t) /\ Latch(Home[t])
        /\ UNCHANGED unsynced
  /\ UNCHANGED <<slot, used, header, grantStages, headerStages, usedStages,
                 life, ready, view, remediating, answerVars>>

\* The reconciling scan, then housekeeping and a last refresh whose failures
\* condemn the store and not the answer.
AnswerIssue(t) ==
  /\ op[t].pc = "issue_scan"
  /\ End(t)
  /\ \/ /\ ScanFinds(Home[t])
        /\ granted' = granted \cup {op[t].at}
        /\ \/ NoFault /\ UNCHANGED sick
           \/ Fault /\ Latch(Home[t])
     \/ /\ ScanFails /\ Latch(Home[t])
        /\ UNCHANGED <<granted, view>>
  /\ UNCHANGED <<diskVars, life, ready, remediating, spends>>

-------------------------------------------------------------------------------
(* consumeApplyGrant *)

\* Refused as replayed, expired, cancelled or bound to another proposal, or on.
StartConsume(t, s) ==
  /\ Admitted(t) /\ Healthy(t)
  /\ s \in granted
  /\ \/ /\ ScanFinds(Home[t])
        /\ used[s] = None
        /\ op' = [op EXCEPT ![t] = [pc |-> "use_claim", id |-> None, at |-> s, tries |-> 0]]
        /\ NoFault /\ UNCHANGED sick
     \/ /\ ScanFinds(Home[t])
        /\ NoFault /\ UNCHANGED <<op, sick>>
     \/ /\ ScanFails /\ Latch(Home[t])
        /\ UNCHANGED <<op, view>>
  /\ UNCHANGED <<diskVars, life, ready, remediating, answerVars>>

\* claimFileStage in the slot.
ClaimUsedStage(t) ==
  LET s == op[t].at IN
  /\ op[t].pc = "use_claim"
  /\ \/ usedStages[s] < UsedStages /\ NoFault
        /\ usedStages' = [usedStages EXCEPT ![s] = @ + 1]
        /\ At(t, "use_link") /\ UNCHANGED sick
     \/ usedStages[s] < UsedStages /\ Fault
        /\ usedStages' = [usedStages EXCEPT ![s] = @ + 1]
        /\ End(t) /\ Latch(Home[t])
     \/ usedStages[s] = UsedStages /\ NoFault
        /\ End(t) /\ UNCHANGED <<usedStages, sick>>
  /\ UNCHANGED <<slot, used, header, grantStages, headerStages, unsynced,
                 life, ready, view, remediating, answerVars>>

\* commitReceipt up to the link.  A refusal here leaves the stage where it is.
LinkReceipt(t) ==
  LET s == op[t].at IN
  /\ op[t].pc = "use_link"
  /\ \/ /\ End(t)
        /\ NoFault /\ UNCHANGED <<used, unsynced, sick>>
     \/ /\ used[s] = None
        /\ used' = [used EXCEPT ![s] = t]
        /\ unsynced' = unsynced \cup {UsedEntry(s)}
        /\ At(t, "use_sync")
        /\ NoFault /\ UNCHANGED sick
     \/ /\ used[s] # None
        /\ At(t, "use_sync")
        /\ NoFault /\ UNCHANGED <<used, unsynced, sick>>
     \/ /\ used[s] = None /\ Fault
        /\ End(t) /\ Latch(Home[t])
        /\ UNCHANGED <<used, unsynced>>
  /\ UNCHANGED <<slot, header, grantStages, headerStages, usedStages,
                 life, ready, view, remediating, answerVars>>

\* Mutant: the receipt is read back and the slot's directory never synced.
SkipsReceiptSync(t) ==
  /\ op[t].pc = "use_sync"
  /\ At(t, "use_read")
  /\ NoFault
  /\ UNCHANGED <<diskVars, storeVars, answerVars>>

SyncReceipt(t) ==
  /\ op[t].pc = "use_sync"
  /\ \/ /\ unsynced' = unsynced \ {UsedEntry(op[t].at)}
        /\ At(t, "use_read")
        /\ NoFault /\ UNCHANGED sick
     \/ /\ Fault /\ End(t) /\ Latch(Home[t])
        /\ UNCHANGED unsynced
  /\ UNCHANGED <<slot, used, header, grantStages, headerStages, usedStages,
                 life, ready, view, remediating, answerVars>>

\* Mutant: any receipt will do.
AnyReceipt(t, s) == used[s] # None

\* The receipt in the slot is the inode this call linked.
OwnReceipt(t, s) == used[s] = t

\* The receipt is read back: success belongs to whoever's inode it is.  The
\* stage is removed as far as that works, and the view refreshed.
AnswerConsume(t) ==
  LET s == op[t].at IN
  /\ op[t].pc = "use_read"
  /\ End(t)
  /\ \/ /\ usedStages' = [usedStages EXCEPT ![s] = @ - 1]
        /\ spends' = IF OwnReceipt(t, s) THEN [spends EXCEPT ![s] = @ + 1] ELSE spends
        /\ \/ ScanFinds(Home[t]) /\ NoFault /\ UNCHANGED sick
           \/ ScanFails /\ Latch(Home[t]) /\ UNCHANGED view
     \/ /\ Fault /\ UNCHANGED <<usedStages, view, sick>>
        /\ spends' = IF OwnReceipt(t, s) THEN [spends EXCEPT ![s] = @ + 1] ELSE spends
     \/ /\ Fault /\ Latch(Home[t])
        /\ UNCHANGED <<usedStages, spends, view>>
  /\ UNCHANGED <<slot, used, header, grantStages, headerStages, unsynced,
                 life, ready, remediating, granted>>

-------------------------------------------------------------------------------
(* remediateStaleStages, under exclusive custody of the root *)

InFlight(st) == {t \in GrantTasks : Home[t] = st /\ op[t].pc # "idle"}

\* Mutant: the other stores only have to be idle at that moment.
OthersIdle(st) == \A other \in Stores \ {st} : InFlight(other) = {}

Custody(st) == \A other \in Stores \ {st} : life[other] \in {"closed", "dead"}

\* Custody is acquired, or it is refused or fails, which latches the store.
StartRemediation(st) ==
  /\ life[st] = "open"
  /\ ~ready[st] /\ ~sick[st] /\ ~remediating[st]
  /\ InFlight(st) = {}
  /\ \/ /\ Custody(st)
        /\ remediating' = [remediating EXCEPT ![st] = TRUE]
        /\ NoFault /\ UNCHANGED sick
     \/ /\ \/ ~Custody(st) /\ NoFault
           \/ Custody(st) /\ Fault
        /\ Latch(st) /\ UNCHANGED remediating
  /\ UNCHANGED <<diskVars, life, ready, view, op, answerVars>>

\* One stage removed and its directory synced.
RemoveStage(st) ==
  /\ remediating[st]
  /\ \/ /\ headerStages > 0
        /\ headerStages' = headerStages - 1
        /\ UNCHANGED <<grantStages, usedStages>>
     \/ /\ headerStages = 0 /\ grantStages > 0
        /\ grantStages' = grantStages - 1
        /\ UNCHANGED <<headerStages, usedStages>>
     \/ /\ headerStages = 0 /\ grantStages = 0
        /\ \E s \in Slots :
             /\ usedStages[s] > 0
             /\ usedStages' = [usedStages EXCEPT ![s] = @ - 1]
        /\ UNCHANGED <<headerStages, grantStages>>
  /\ UNCHANGED <<slot, used, header, unsynced, storeVars, op, answerVars, grantFaults>>

\* Every directory is synced and scanned once more; without a header it fails.
FinishRemediation(st) ==
  /\ remediating[st]
  /\ \/ /\ headerStages = 0 /\ grantStages = 0 /\ \A s \in Slots : usedStages[s] = 0
        /\ header /\ ScanIsSound
        /\ unsynced' = {} /\ NoFault /\ UNCHANGED sick
     \/ /\ ScanFails /\ Latch(st)
        /\ UNCHANGED unsynced
  /\ remediating' = [remediating EXCEPT ![st] = FALSE]
  /\ UNCHANGED <<slot, used, header, grantStages, headerStages, usedStages,
                 life, ready, view, op, answerVars>>

-------------------------------------------------------------------------------
(* close, crashes and restarts *)

StartClose(st) ==
  /\ life[st] = "open"
  /\ life' = [life EXCEPT ![st] = "closing"]
  /\ UNCHANGED <<diskVars, ready, sick, view, remediating, op, answerVars, grantFaults>>

FinishClose(st) ==
  /\ life[st] = "closing"
  /\ InFlight(st) = {} /\ ~remediating[st]
  /\ life' = [life EXCEPT ![st] = "closed"]
  /\ ready' = [ready EXCEPT ![st] = FALSE]
  /\ sick' = [sick EXCEPT ![st] = FALSE]
  /\ view' = [view EXCEPT ![st] = {}]
  /\ UNCHANGED <<diskVars, remediating, op, answerVars, grantFaults>>

\* What the death of the stores in `gone' ends.
Die(gone) ==
  /\ Fault
  /\ life' = [st \in Stores |-> IF st \in gone THEN "dead" ELSE life[st]]
  /\ ready' = [st \in Stores |-> st \notin gone /\ ready[st]]
  /\ sick' = [st \in Stores |-> st \notin gone /\ sick[st]]
  /\ view' = [st \in Stores |-> IF st \in gone THEN {} ELSE view[st]]
  /\ remediating' = [st \in Stores |-> st \notin gone /\ remediating[st]]
  /\ op' = [t \in GrantTasks |-> IF Home[t] \in gone THEN Idle ELSE op[t]]
  /\ UNCHANGED answerVars

ProcessDies(st) ==
  /\ life[st] \in {"open", "closing"}
  /\ Die({st})
  /\ UNCHANGED diskVars

\* Every process dies, and any of the entries not yet synced are gone, a slot
\* with everything in it.
PowerFails ==
  \E lost \in SUBSET unsynced :
    LET gone == {s \in Slots : SlotEntry(s) \in lost} IN
    /\ Die(Stores)
    /\ slot' = [s \in Slots |-> IF s \in gone THEN None ELSE slot[s]]
    /\ used' = [s \in Slots |-> IF s \in gone \/ UsedEntry(s) \in lost THEN None ELSE used[s]]
    /\ usedStages' = [s \in Slots |-> IF s \in gone THEN 0 ELSE usedStages[s]]
    /\ header' = (header /\ HeaderEntry \notin lost)
    /\ unsynced' = {}
    /\ UNCHANGED <<grantStages, headerStages>>

\* A new store object on the same root; nobody is let in beside a custodian.
Reopen(st) ==
  /\ life[st] \in {"closed", "dead"}
  /\ \A other \in Stores : ~remediating[other]
  /\ life' = [life EXCEPT ![st] = "open"]
  /\ UNCHANGED <<diskVars, ready, sick, view, remediating, op, answerVars, grantFaults>>

-------------------------------------------------------------------------------
Initialize(t) ==
  StartInitialize(t) \/ HeaderClaim(t) \/ HeaderLink(t) \/ HeaderSync(t) \/ HeaderRescan(t)

IssueSteps(t) ==
  \/ ClaimGrantStage(t) \/ StagedGrant(t) \/ RenameGrant(t)
  \/ ContendForSlot(t) \/ SyncGrant(t) \/ AnswerIssue(t)

ConsumeSteps(t) == ClaimUsedStage(t) \/ LinkReceipt(t) \/ SyncReceipt(t) \/ AnswerConsume(t)

GrantsNext ==
  \/ \E t \in GrantTasks :
       \/ Initialize(t)
       \/ StartIssue(t) \/ IssueSteps(t)
       \/ (\E s \in Slots : StartConsume(t, s)) \/ ConsumeSteps(t)
  \/ \E st \in Stores :
       \/ StartRemediation(st) \/ RemoveStage(st) \/ FinishRemediation(st)
       \/ StartClose(st) \/ FinishClose(st) \/ Reopen(st) \/ ProcessDies(st)
  \/ PowerFails

GrantsSpec == GrantsInit /\ [][GrantsNext]_grantVars

-------------------------------------------------------------------------------
\* The store keeps the promise of one use per issued grant.
OneUse == INSTANCE OneUseGrants WITH Grants <- Slots, issued <- granted, spent <- spends

\* Whatever races, fails, crashes or restarts: a grant answered as issued is
\* spent at most once.
SingleUse == OneUse!OneUseSpec

\* What was answered survives the loss of power: an issued grant is in its
\* slot, a spent one keeps its receipt, and both have been synced.
AnswersAreDurable ==
  /\ \A s \in granted : slot[s] # None /\ SlotEntry(s) \notin unsynced
  /\ \A s \in Slots : spends[s] > 0 => used[s] # None /\ UsedEntry(s) \notin unsynced

\* No two slots hold the same grant id, which would make every scan of every
\* store fail from then on.
GrantIdsUnique == ScanIsSound

\* A stage is never removed under an operation that is going to commit it.
HeldStagesExist ==
  /\ Cardinality({t \in GrantTasks : op[t].pc \in {"issue_staged", "issue_rename", "issue_contend"}})
       <= grantStages
  /\ Cardinality({t \in GrantTasks : op[t].pc \in {"header_link", "header_sync"}}) <= headerStages
  /\ \A s \in Slots :
       Cardinality({t \in GrantTasks : op[t].at = s /\ op[t].pc \in {"use_link", "use_sync", "use_read"}})
         <= usedStages[s]
===============================================================================
