---------------------------- MODULE GuardedActions ----------------------------
(***************************************************************************)
(* The guarded action service (guardedChanges.ts): a proposed change of Home *)
(* Assistant, or of the service's own history, is approved, checkpointed in  *)
(* a file of its own, sent once, verified, and its outcome appended.         *)
(*                                                                         *)
(* Proposals live in the process, their records on disk.  A record is what   *)
(* its last line says, or `empty' before the first is written, or `torn'     *)
(* when a crash cut a line short; both make every reader of the record throw. *)
(* The lease is the operators' (OperatorEpoch): whoever else has it refuses   *)
(* the call.  inspect and verify are the handlers': they compare the target  *)
(* with what the plan was made from and with what it asks for.               *)
(***************************************************************************)
EXTENDS Naturals, FiniteSets

CONSTANTS
  Plans,            \* change proposals, by their id
  Targets,          \* what can be changed
  ArchivePlan,      \* a proposal to archive the history: its target is itself
  RecordLimit,      \* records in the directory before a change is refused
  MaxGuardedFaults  \* bound on failed calls, process deaths and power failures

ASSUME GuardedAssumption ==
  /\ ArchivePlan \notin Plans \cup Targets
  /\ "operator" \notin Plans \cup {ArchivePlan}
  /\ RecordLimit \in Nat \ {0}
  /\ MaxGuardedFaults \in Nat

VARIABLES
  item,      \* each proposal in the process
  target,    \* its target
  payload,   \* the records an archive proposal names
  stale,     \* proposals made from another state of the target than it is in
  expired,   \* proposals past their time
  busy,      \* targets with an apply under way
  holder,    \* the lease
  record,    \* each record on disk
  archived,  \* the records in archive/
  loose,     \* records and moves whose directory is not synced
  place,     \* where each apply is
  sends,     \* how often each change was sent
  took,      \* the changes that took effect
  told,      \* how each apply was answered
  guardedFaults

itemVars == <<item, target, payload, stale, expired>>
recordVars == <<record, archived, loose>>
effectVars == <<sends, took>>
guardedVars == <<itemVars, busy, holder, recordVars, place, effectVars, told, guardedFaults>>

Changes == Plans \cup {ArchivePlan}
Statuses == {"none", "empty", "torn", "prepared", "verified", "not_sent"}
Settling == {"verified", "not_sent"}
GuardedPlaces == {"idle", "lease", "check", "approve", "create", "write", "send",
                  "verify", "append", "catch_sent", "catch_unsent", "catch"}

\* The types of the variables.
GuardedTypeOK ==
  /\ item \in [Changes -> {"absent", "pending", "applying", "settled"}]
  /\ target \in [Changes -> Targets \cup {ArchivePlan}]
  /\ payload \subseteq Plans
  /\ stale \subseteq Changes /\ expired \subseteq Changes
  /\ busy \subseteq Targets \cup {ArchivePlan}
  /\ holder \subseteq Changes \cup {"operator"} /\ Cardinality(holder) <= 1
  /\ record \in [Changes -> Statuses]
  /\ archived \subseteq Changes /\ loose \subseteq Changes
  /\ place \in [Changes -> GuardedPlaces]
  /\ sends \in [Changes -> 0..1]
  /\ took \subseteq Changes
  /\ told \in [Changes -> {"none", "verified", "refused", "uncertain"}]
  /\ guardedFaults \in 0..MaxGuardedFaults

GuardedInit ==
  /\ item = [c \in Changes |-> "absent"]
  /\ target \in [Changes -> Targets \cup {ArchivePlan}]
  /\ \A c \in Changes : target[c] = ArchivePlan <=> c = ArchivePlan
  /\ payload = {} /\ stale = {} /\ expired = {}
  /\ busy = {} /\ holder = {}
  /\ record = [c \in Changes |-> "none"]
  /\ archived = {} /\ loose = {}
  /\ place = [c \in Changes |-> "idle"]
  /\ sends = [c \in Changes |-> 0]
  /\ took = {}
  /\ told = [c \in Changes |-> "none"]
  /\ guardedFaults = 0

-------------------------------------------------------------------------------
GuardedFault == guardedFaults < MaxGuardedFaults /\ guardedFaults' = guardedFaults + 1
NoGuardedFault == UNCHANGED guardedFaults
MoveTo(c, where) == place' = [place EXCEPT ![c] = where]

Recorded == {c \in Changes : record[c] # "none" /\ c \notin archived}
Unreadable(c) == record[c] \in {"empty", "torn"}

\* The target of these proposals is changed: it is no longer what they were made
\* from, or is so again.
Resettles(t) ==
  LET made == {c \in Plans : target[c] = t /\ item[c] # "absent"} IN
  \E s \in SUBSET made : stale' = (stale \ made) \cup s

\* Mutant: whatever can be read may be archived.
ReadableRecord(d) == d \in Recorded /\ ~Unreadable(d)

\* What an archive may take, when it is proposed and when it is inspected.
Archivable(d) == d \in Recorded /\ record[d] \in Settling

\* propose, from the target as it is now and with its own time to live, and
\* proposeArchive, which names the settled records, if there are any and every
\* record can be read.
ProposeChange(c) ==
  /\ item[c] = "absent" /\ record[c] = "none" /\ sends[c] = 0
  /\ c = ArchivePlan =>
       /\ \E d \in Changes : Archivable(d)
       /\ ~\E d \in Recorded : Unreadable(d)
  /\ item' = [item EXCEPT ![c] = "pending"]
  /\ payload' = IF c = ArchivePlan THEN {d \in Changes : Archivable(d)} ELSE payload
  /\ stale' = stale \ {c} /\ expired' = expired \ {c}
  /\ UNCHANGED <<target, busy, holder, recordVars, place, effectVars, told, guardedFaults>>

Expires(c) ==
  /\ item[c] \in {"pending", "applying"}
  /\ expired' = expired \cup {c}
  /\ UNCHANGED <<item, target, payload, stale, busy, holder, recordVars, place, effectVars, told, guardedFaults>>

\* Somebody else changes a target.
TargetChanges(t) ==
  /\ GuardedFault
  /\ Resettles(t)
  /\ UNCHANGED <<item, target, payload, expired, busy, holder, recordVars, place, effectVars, told>>

\* inspect: the target is as it was, or the records can still be archived.
Inspected(c) ==
  IF c = ArchivePlan
  THEN \A d \in payload : Archivable(d)
  ELSE c \notin stale

\* Mutant: a record that says nothing of its outcome is passed over.
TargetSettledSoFar(c) ==
  \A d \in Recorded : ~Unreadable(d) /\ (target[d] = target[c] => record[d] # "torn")

\* assertTargetSettled: every record is read; none on the target is uncertain.
TargetSettled(c) ==
  /\ c # ArchivePlan => Cardinality(Recorded) < RecordLimit
  /\ \A d \in Recorded : ~Unreadable(d) /\ (target[d] = target[c] => record[d] \in Settling)

-------------------------------------------------------------------------------
(* apply *)

StartApply(c) ==
  /\ item[c] = "pending" /\ c \notin expired
  /\ target[c] \notin busy
  /\ item' = [item EXCEPT ![c] = "applying"]
  /\ busy' = busy \cup {target[c]}
  /\ told' = [told EXCEPT ![c] = "none"]
  /\ MoveTo(c, "lease")
  /\ UNCHANGED <<target, payload, stale, expired, holder, recordVars, effectVars, guardedFaults>>

\* The attempt is logged and the lease taken, unless somebody has it.
TakeLease(c) ==
  /\ place[c] = "lease"
  /\ \/ holder = {} /\ holder' = {c} /\ MoveTo(c, "check")
     \/ holder # {} /\ MoveTo(c, "catch") /\ UNCHANGED holder
  /\ NoGuardedFault
  /\ UNCHANGED <<itemVars, busy, recordVars, effectVars, told>>

CheckTarget(c) ==
  /\ place[c] = "check"
  /\ MoveTo(c, IF TargetSettled(c) /\ Inspected(c) /\ c \notin expired THEN "approve" ELSE "catch")
  /\ UNCHANGED <<itemVars, busy, holder, recordVars, effectVars, told, guardedFaults>>

\* The human answers, in time and exactly, and the target is inspected again.
ApproveChange(c) ==
  /\ place[c] = "approve"
  /\ \/ c \notin expired /\ Inspected(c) /\ MoveTo(c, "create")
     \/ MoveTo(c, "catch")
  /\ UNCHANGED <<itemVars, busy, holder, recordVars, effectVars, told, guardedFaults>>

CreateRecord(c) ==
  /\ place[c] = "create"
  /\ record' = [record EXCEPT ![c] = "empty"]
  /\ loose' = loose \cup {c}
  /\ MoveTo(c, "write")
  /\ UNCHANGED <<itemVars, busy, holder, archived, effectVars, told, guardedFaults>>

\* The plan is written and synced, then the directory.
WriteRecord(c) ==
  /\ place[c] = "write"
  /\ record' = [record EXCEPT ![c] = "prepared"]
  /\ loose' = loose \ {c}
  /\ MoveTo(c, "send")
  /\ UNCHANGED <<itemVars, busy, holder, archived, effectVars, told, guardedFaults>>

\* execute: the target takes the change or not, whatever the call reports; the
\* records are moved one by one, as far as that works.
Execute(c) ==
  \/ /\ c \in Plans
     /\ took' = took \cup {c}
     /\ Resettles(target[c])
     /\ UNCHANGED <<archived, loose>>
  \/ /\ c \in Plans
     /\ UNCHANGED <<took, stale, archived, loose>>
  \/ /\ c = ArchivePlan
     /\ \E moved \in SUBSET payload :
          /\ archived' = archived \cup moved
          /\ loose' = loose \cup moved
          /\ took' = IF moved = payload THEN took \cup {c} ELSE took
     /\ UNCHANGED stale

\* Checked once more and sent: from here the outcome is the target's.
SendChange(c) ==
  /\ place[c] = "send"
  /\ \/ /\ c \notin expired /\ Inspected(c)
        /\ sends' = [sends EXCEPT ![c] = @ + 1]
        /\ Execute(c)
        /\ MoveTo(c, "verify")
     \/ /\ c \in expired \/ ~Inspected(c)
        /\ MoveTo(c, "catch_unsent")
        /\ UNCHANGED <<effectVars, stale, archived, loose>>
  /\ UNCHANGED <<item, target, payload, expired, busy, holder, record, told, guardedFaults>>

\* verify: what was asked for is there; an execute that threw, or a change that
\* did not take, goes to the catch block.
VerifyChange(c) ==
  /\ place[c] = "verify"
  /\ \/ c \in took /\ MoveTo(c, "append")
        /\ loose' = IF c = ArchivePlan THEN loose \ payload ELSE loose
     \/ MoveTo(c, "catch_sent") /\ UNCHANGED loose
  /\ UNCHANGED <<itemVars, busy, holder, record, archived, effectVars, told, guardedFaults>>

\* The outcome is appended and synced; the audit may then still fail.
AppendVerified(c) ==
  /\ place[c] = "append"
  /\ record' = [record EXCEPT ![c] = "verified"]
  /\ \/ MoveTo(c, "idle") /\ NoGuardedFault
        /\ item' = [item EXCEPT ![c] = "settled"]
        /\ told' = [told EXCEPT ![c] = "verified"]
        /\ busy' = busy \ {target[c]} /\ holder' = holder \ {c}
     \/ MoveTo(c, "catch_sent") /\ GuardedFault
        /\ UNCHANGED <<item, told, busy, holder>>
  /\ UNCHANGED <<target, payload, stale, expired, archived, loose, effectVars>>

\* What every apply does last.
LetGo(c, becomes, how) ==
  /\ item' = [item EXCEPT ![c] = becomes]
  /\ told' = [told EXCEPT ![c] = how]
  /\ busy' = busy \ {target[c]} /\ holder' = holder \ {c}
  /\ MoveTo(c, "idle")

\* Mutant: a change that was sent may be tried again.
CatchAnything(c) ==
  /\ place[c] \in {"catch", "catch_sent"}
  /\ LetGo(c, "pending", "refused")
  /\ UNCHANGED <<target, payload, stale, expired, recordVars, effectVars, guardedFaults>>

\* The catch block: after the send the outcome is uncertain and the proposal
\* spent; before the record it is pending again.
Catch(c) ==
  /\ place[c] \in {"catch", "catch_sent"}
  /\ IF place[c] = "catch_sent" THEN LetGo(c, "settled", "uncertain") ELSE LetGo(c, "pending", "refused")
  /\ UNCHANGED <<target, payload, stale, expired, recordVars, effectVars, guardedFaults>>

\* Between the two, the record is closed as not sent, if that works: the line
\* goes after whatever part of the first was written.
CatchUnsent(c) ==
  /\ place[c] = "catch_unsent"
  /\ \/ /\ record' = [record EXCEPT ![c] = IF @ = "prepared" THEN "not_sent" ELSE "torn"]
        /\ NoGuardedFault
     \/ /\ GuardedFault
        /\ record' \in {[record EXCEPT ![c] = r] : r \in {record[c], "torn"}}
  /\ LetGo(c, "settled", "refused")
  /\ UNCHANGED <<target, payload, stale, expired, archived, loose, effectVars>>

-------------------------------------------------------------------------------
(* Faults *)

\* A call fails where it is; what it was writing may be there in part.
GuardedCallFails(c) ==
  /\ GuardedFault
  /\ \/ place[c] \in {"lease", "check", "approve", "create"} /\ MoveTo(c, "catch") /\ UNCHANGED record
     \/ place[c] = "write" /\ MoveTo(c, "catch_unsent")
        /\ record' \in {[record EXCEPT ![c] = r] : r \in {"empty", "torn", "prepared"}}
     \/ place[c] = "send" /\ MoveTo(c, "catch_unsent") /\ UNCHANGED record
     \/ place[c] = "append" /\ MoveTo(c, "catch_sent")
        /\ record' \in {[record EXCEPT ![c] = r] : r \in {"prepared", "torn", "verified"}}
  /\ UNCHANGED <<itemVars, busy, holder, archived, loose, effectVars, told>>

\* What a line under way may come to when the process dies.
CutShort(c) ==
  CASE place[c] = "write" -> {"empty", "torn", "prepared"}
    [] place[c] = "append" -> {"prepared", "torn", "verified"}
    [] place[c] = "catch_unsent" -> {record[c], "torn"} \cup (IF record[c] = "prepared" THEN {"not_sent"} ELSE {})
    [] OTHER -> {record[c]}

\* The process ends: its proposals are gone, and of the records what is not lost stays.
Perish(lost) ==
  /\ GuardedFault
  /\ record' \in {r \in [Changes -> Statuses] :
       \A c \in Changes : IF c \in lost \ archived THEN r[c] = "none" ELSE r[c] \in CutShort(c)}
  /\ archived' = archived \ lost
  /\ item' = [c \in Changes |-> "absent"]
  /\ place' = [c \in Changes |-> "idle"]
  /\ told' = [c \in Changes |-> IF place[c] = "idle" THEN told[c] ELSE "uncertain"]
  /\ busy' = {}
  /\ UNCHANGED <<target, payload, stale, expired, effectVars>>

ServiceDies == Perish({}) /\ holder' = holder \ Changes /\ UNCHANGED loose

\* The power fails: so do the entries and moves not synced.
GuardedPowerFails == (\E lost \in SUBSET loose : Perish(lost)) /\ holder' = {} /\ loose' = {}

\* An operator command takes the lease, or gives it back.
OperatorHolds ==
  /\ \/ holder = {} /\ holder' = {"operator"}
     \/ holder = {"operator"} /\ holder' = {}
  /\ UNCHANGED <<itemVars, busy, recordVars, place, effectVars, told, guardedFaults>>

-------------------------------------------------------------------------------
GuardedNext ==
  \/ \E c \in Changes :
       \/ ProposeChange(c) \/ Expires(c)
       \/ StartApply(c) \/ TakeLease(c) \/ CheckTarget(c) \/ ApproveChange(c)
       \/ CreateRecord(c) \/ WriteRecord(c) \/ SendChange(c) \/ VerifyChange(c) \/ AppendVerified(c)
       \/ Catch(c) \/ CatchUnsent(c) \/ GuardedCallFails(c)
  \/ \E t \in Targets : TargetChanges(t)
  \/ ServiceDies \/ GuardedPowerFails \/ OperatorHolds

GuardedSpec == GuardedInit /\ [][GuardedNext]_guardedVars

-------------------------------------------------------------------------------
\* At most one change of a target was ever sent without its outcome on disk,
\* through crashes, power failures, failed appends and the archiving of the
\* history: an uncertain change keeps every later one from its target.
OneUncertainPerTarget ==
  \A t \in Targets :
    Cardinality({c \in Plans : target[c] = t /\ sends[c] > 0 /\ record[c] \notin Settling}) <= 1

\* What the record and the answers say is so: verified took effect; not_sent,
\* refused and pending again were never sent; and what was sent has its record.
OutcomesAreTrue ==
  \A c \in Changes :
    /\ record[c] = "verified" => c \in took
    /\ record[c] = "not_sent" \/ item[c] = "pending" \/ told[c] = "refused" => sends[c] = 0
    /\ sends[c] > 0 => record[c] # "none"
===============================================================================
