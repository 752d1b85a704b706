--------------------------- MODULE ProposalService ---------------------------
(***************************************************************************)
(* The proposal service on its protected store and its audit log            *)
(* (proposals/proposalService.ts, storage.ts, phase2Audit.ts).  A mutation   *)
(* writes a journal, its effect, and the journal again, one call at a time;  *)
(* then, outside that turn, it reads the journals, records its outcome and   *)
(* removes its journal.  A restart settles what a crash left behind.        *)
(*                                                                         *)
(* An atomic write is its steps: the temporary file, the reservation of a    *)
(* new name, the rename.  A scan is one instant and meets whatever is in the *)
(* directory at it.  A proposal is named by the call that made it; content,  *)
(* digests and cursors are its state and its key.  Files once written are    *)
(* readable, and no power failure is modelled, only the death of the process. *)
(***************************************************************************)
EXTENDS Naturals, FiniteSets

CONSTANTS
  Calls,             \* operation ids, each used once
  Keys,              \* idempotency keys
  MaxOpen,           \* calls under way at once
  MaxProposalFaults  \* bound on failed writes, failed appends and crashes

ASSUME ProposalsAssumption == MaxOpen \in Nat \ {0} /\ MaxProposalFaults \in Nat

VARIABLES
  proposals,   \* each proposal's file
  journals,    \* each operation's journal file
  temporaries, \* temporary files, as <<directory, operation>>
  service,     \* down, reconciling, settling or up
  storeSick,   \* ProtectedProposalStore.unhealthy
  auditSick,   \* Phase2AuditAdapter.unhealthy
  attempted,   \* operations with an attempt in the log
  outcome,     \* the outcome of each in the log
  refused,     \* the log was offered a record it must refuse
  inside,      \* the operation whose turn of `serialized' it is
  call,        \* what each operation is at
  effected,    \* operations whose effect was renamed into place
  overlapped,  \* two calls have been under way at once
  littered,    \* a failed write has left a file of its own behind
  proposalFaults

fileVars == <<proposals, journals, temporaries>>
auditVars == <<auditSick, attempted, outcome, refused>>
proposalVars == <<fileVars, service, storeSick, auditVars, inside, call, effected, overlapped, littered, proposalFaults>>

FileStates == {"none", "reserved", "pending", "discarded", "expired"}
Phases == {"none", "reserved", "prepared", "effect_committed", "outcome_committed"}
Results == {"none", "success", "failure", "unconfirmed", "reconciled"}
Writes == {"expire", "journal", "effect", "mark", "done"}
Places == Writes \cup {"new", "waiting", "load", "read", "settle", "remove",
                       "unconfirmed", "fail", "over"}
NoJournal(o) == [phase |-> "none", target |-> o, before |-> "none", after |-> "none"]
NoCall(o) == [pc |-> "new", step |-> "temp", tool |-> "read", key |-> {}, target |-> o, late |-> o]

\* The types of the variables.
ProposalsTypeOK ==
  /\ proposals \in [Calls -> FileStates]
  /\ journals \in [Calls -> [phase : Phases, target : Calls, before : FileStates, after : FileStates]]
  /\ temporaries \subseteq ({"proposals", "journals"} \X Calls)
  /\ service \in {"down", "reconciling", "settling", "up"}
  /\ storeSick \in BOOLEAN /\ auditSick \in BOOLEAN
  /\ attempted \subseteq Calls
  /\ outcome \in [Calls -> Results]
  /\ inside \subseteq Calls /\ Cardinality(inside) <= 1
  /\ call \in [Calls -> [pc : Places, step : {"temp", "reserve", "rename"},
                         tool : {"read", "propose", "discard"}, key : SUBSET Keys, target : Calls, late : Calls]]
  /\ effected \subseteq Calls
  /\ refused \in BOOLEAN /\ overlapped \in BOOLEAN /\ littered \in BOOLEAN
  /\ proposalFaults \in 0..MaxProposalFaults

ProposalsInit ==
  /\ proposals = [o \in Calls |-> "none"]
  /\ journals = [o \in Calls |-> NoJournal(o)]
  /\ temporaries = {}
  /\ service = "down"
  /\ storeSick = FALSE /\ auditSick = FALSE
  /\ attempted = {}
  /\ outcome = [o \in Calls |-> "none"]
  /\ inside = {}
  /\ call = [o \in Calls |-> NoCall(o)]
  /\ effected = {}
  /\ refused = FALSE /\ overlapped = FALSE /\ littered = FALSE
  /\ proposalFaults = 0

-------------------------------------------------------------------------------
Open == {o \in Calls : call[o].pc \notin {"new", "over"}}
Stored == {o \in Calls : proposals[o] \in {"pending", "discarded", "expired"}}

WriteFault == proposalFaults < MaxProposalFaults /\ proposalFaults' = proposalFaults + 1
Sound == UNCHANGED proposalFaults

Goto(o, pc) == call' = [call EXCEPT ![o].pc = pc, ![o].step = "temp"]

\* assertCanAcceptRecord: an outcome follows its attempt, and is the only one.
Acceptable(o) == o \in attempted /\ outcome[o] = "none"

\* append of an outcome, serialized in the log.  A latched log takes nothing; a
\* record it cannot accept latches it, and so does a failed write, which may
\* have reached the file.
Append(o, result) ==
  \/ /\ auditSick \/ ~Acceptable(o)
     /\ auditSick' = TRUE
     /\ refused' = (refused \/ ~auditSick)
     /\ Sound /\ UNCHANGED outcome
  \/ /\ ~auditSick /\ Acceptable(o)
     /\ outcome' = [outcome EXCEPT ![o] = result]
     /\ Sound /\ UNCHANGED <<auditSick, refused>>
  \/ /\ ~auditSick /\ Acceptable(o)
     /\ WriteFault /\ auditSick' = TRUE
     /\ outcome' \in {outcome, [outcome EXCEPT ![o] = result]}
     /\ UNCHANGED refused

\* What a scan of a directory refuses: it quarantines the first such entry,
\* latches the store and throws.
Scraps ==
  temporaries
    \cup {<<"proposals", o>> : o \in {p \in Calls : proposals[p] = "reserved"}}
    \cup {<<"journals", o>> : o \in {p \in Calls : journals[p].phase = "reserved"}}
ScrapsIn(directory) == {s \in Scraps : s[1] = directory}

Quarantine(s) ==
  IF s \in temporaries
  THEN temporaries' = temporaries \ {s} /\ UNCHANGED <<proposals, journals>>
  ELSE /\ proposals' = IF s[1] = "proposals" THEN [proposals EXCEPT ![s[2]] = "none"] ELSE proposals
       /\ journals' = IF s[1] = "journals" THEN [journals EXCEPT ![s[2]] = NoJournal(s[2])] ELSE journals
       /\ UNCHANGED temporaries

-------------------------------------------------------------------------------
(* The calls *)

\* The call is accepted and its attempt logged, or the log refuses it.  A discard
\* hands its context to the log: one cancelled or expired by then is turned down
\* inside the append, which latches the log though no write has failed.
Begin(o, tool, key, named) ==
  /\ service = "up"
  /\ call[o].pc = "new"
  /\ Cardinality(Open) < MaxOpen
  /\ \/ /\ ~auditSick
        /\ attempted' = attempted \cup {o}
        /\ call' = [call EXCEPT ![o] = [NoCall(o) EXCEPT !.pc = "waiting", !.tool = tool,
                                                        !.key = key, !.target = named]]
        /\ Sound /\ UNCHANGED auditSick
     \/ /\ ~auditSick /\ WriteFault
        /\ auditSick' = TRUE
        /\ attempted' \in {attempted, attempted \cup {o}}
        /\ call' = [call EXCEPT ![o].pc = "over"]
     \/ /\ ~auditSick /\ tool = "discard"
        /\ auditSick' = TRUE
        /\ call' = [call EXCEPT ![o].pc = "over"]
        /\ Sound /\ UNCHANGED attempted
     \/ /\ auditSick
        /\ call' = [call EXCEPT ![o].pc = "over"]
        /\ Sound /\ UNCHANGED <<auditSick, attempted>>
  /\ overlapped' = (overlapped \/ Open # {})
  /\ UNCHANGED <<fileVars, service, storeSick, outcome, refused, inside, effected, littered>>

\* serialized: one task at a time.  It and readAll want a healthy store, and
\* readAll scans the proposals.
Enter(o) ==
  /\ call[o].pc = "waiting"
  /\ \/ /\ ~storeSick /\ inside = {} /\ ScrapsIn("proposals") = {}
        /\ inside' = {o} /\ Goto(o, "load") /\ UNCHANGED <<fileVars, storeSick>>
     \/ /\ ~storeSick /\ inside = {}
        /\ \E s \in ScrapsIn("proposals") : Quarantine(s)
        /\ storeSick' = TRUE /\ Goto(o, "fail") /\ UNCHANGED inside
     \/ /\ storeSick /\ Goto(o, "fail") /\ UNCHANGED <<fileVars, storeSick, inside>>
  /\ UNCHANGED <<service, auditVars, effected, overlapped, littered, proposalFaults>>

\* Mutant: only pending proposals hold their key.
SameKeyPending(o) == {p \in Stored : proposals[p] = "pending" /\ call[p].key = call[o].key}

\* The proposals that hold the call's idempotency key.
SameKey(o) == {p \in Stored : call[p].key = call[o].key}

\* loadAndExpire finds a proposal past its date and replaces it first.
FindExpired(o) ==
  /\ call[o].pc = "load"
  /\ \E p \in Stored :
       /\ proposals[p] = "pending"
       /\ call' = [call EXCEPT ![o].pc = "expire", ![o].late = p]
  /\ UNCHANGED <<fileVars, service, storeSick, auditVars, inside, effected, overlapped, littered, proposalFaults>>

\* With the proposals loaded: refused (bad input, a missing or expired
\* proposal, a stale source, a conflicting key, a cancelled call), answered
\* from what is stored, or a mutation to make.
Decide(o) ==
  /\ call[o].pc = "load"
  /\ \/ inside' = {} /\ Goto(o, "fail")
     \/ call[o].tool = "read" /\ inside' = {} /\ Goto(o, "settle")
     \/ call[o].tool = "propose" /\ SameKey(o) # {} /\ inside' = {} /\ Goto(o, "read")
     \/ call[o].tool = "discard" /\ proposals[call[o].target] = "discarded"
        /\ inside' = {} /\ Goto(o, "read")
     \/ /\ \/ call[o].tool = "propose" /\ SameKey(o) = {}
           \/ call[o].tool = "discard" /\ proposals[call[o].target] = "pending"
        /\ Goto(o, "journal") /\ UNCHANGED inside
  /\ UNCHANGED <<fileVars, service, storeSick, auditVars, effected, overlapped, littered, proposalFaults>>

-------------------------------------------------------------------------------
(* atomicProtectedWrite, for each of the five writes *)

Directory(w) == IF w \in {"expire", "effect"} THEN "proposals" ELSE "journals"
Temporary(o) == <<Directory(call[o].pc), o>>
Creates(o) == call[o].pc = "journal" \/ (call[o].pc = "effect" /\ call[o].tool = "propose")

WriteTemporary(o) ==
  /\ call[o].pc \in Writes /\ call[o].step = "temp"
  /\ ~storeSick
  /\ temporaries' = temporaries \cup {Temporary(o)}
  /\ call' = [call EXCEPT ![o].step = IF Creates(o) THEN "reserve" ELSE "rename"]
  /\ UNCHANGED <<proposals, journals, service, storeSick, auditVars, inside, effected, overlapped, littered, proposalFaults>>

ReserveName(o) ==
  /\ call[o].pc \in Writes /\ call[o].step = "reserve"
  /\ call' = [call EXCEPT ![o].step = "rename"]
  /\ IF call[o].pc = "journal"
     THEN journals' = [journals EXCEPT ![o].phase = "reserved"] /\ UNCHANGED proposals
     ELSE proposals' = [proposals EXCEPT ![o] = "reserved"] /\ UNCHANGED journals
  /\ UNCHANGED <<temporaries, service, storeSick, auditVars, inside, effected, overlapped, littered, proposalFaults>>

\* What the rename puts in place.
Place(o) ==
  LET c == call[o]  t == call[o].target IN
  /\ temporaries' = temporaries \ {Temporary(o)}
  /\ effected' = IF c.pc = "effect" THEN effected \cup {o} ELSE effected
  /\ CASE c.pc = "expire" ->
            proposals' = [proposals EXCEPT ![c.late] = "expired"] /\ UNCHANGED journals
       [] c.pc = "effect" ->
            /\ proposals' = [proposals EXCEPT ![t] = IF c.tool = "propose" THEN "pending" ELSE "discarded"]
            /\ UNCHANGED journals
       [] c.pc = "journal" ->
            /\ journals' = [journals EXCEPT ![o] =
                 [phase |-> "prepared", target |-> t, before |-> proposals[t],
                  after |-> IF c.tool = "propose" THEN "pending" ELSE "discarded"]]
            /\ UNCHANGED proposals
       [] c.pc = "mark" -> journals' = [journals EXCEPT ![o].phase = "effect_committed"] /\ UNCHANGED proposals
       [] c.pc = "done" -> journals' = [journals EXCEPT ![o].phase = "outcome_committed"] /\ UNCHANGED proposals

\* Mutant: the journal is marked before the effect is written.
AfterMarkedFirst(w) ==
  CASE w = "expire" -> "load" [] w = "journal" -> "mark" [] w = "mark" -> "effect"
    [] w = "effect" -> "read" [] w = "done" -> "remove"

\* What follows each write.
After(w) ==
  CASE w = "expire" -> "load" [] w = "journal" -> "effect" [] w = "effect" -> "mark"
    [] w = "mark" -> "read" [] w = "done" -> "remove"

\* After the rename and the directory's sync.
Renamed(o) ==
  /\ call[o].pc \in Writes /\ call[o].step = "rename"
  /\ Temporary(o) \in temporaries
  /\ Place(o)
  /\ Goto(o, After(call[o].pc))
  /\ inside' = IF After(call[o].pc) = "read" THEN {} ELSE inside
  /\ UNCHANGED <<service, storeSick, auditVars, overlapped, littered, proposalFaults>>

\* Mutant: every failed write goes straight to the caller.
CaughtByCaller(o, unsure) == Goto(o, "fail") /\ inside' = inside \ {o}

\* Who hears of a failed write: commitMutation, if the effect is in place, or
\* the caller's catch block.
Caught(o, unsure) ==
  IF unsure
  THEN Goto(o, "unconfirmed") /\ UNCHANGED inside
  ELSE Goto(o, "fail") /\ inside' = inside \ {o}

\* The rename is done, and the sync of the directory or the check after it fails.
RenamedUnconfirmed(o) ==
  /\ call[o].pc \in Writes /\ call[o].step = "rename"
  /\ Temporary(o) \in temporaries
  /\ WriteFault
  /\ Place(o)
  /\ Caught(o, call[o].pc \in {"effect", "mark"})
  /\ UNCHANGED <<service, storeSick, auditVars, overlapped, littered>>

\* Whether the name a write is to create is reserved.
NameHeld(o) == IF call[o].pc = "journal" THEN journals[o].phase = "reserved" ELSE proposals[o] = "reserved"

\* Nothing is renamed: the store is latched, the temporary is gone, the call
\* was cancelled (the writes of the journal's later phases do not look), or a
\* system call failed.  The temporary and the reservation are removed, unless
\* the sync of the reservation or a removal is what fails: a temporary that
\* cannot be removed keeps the reservation too.
WriteFails(o) ==
  LET step == call[o].step IN
  /\ call[o].pc \in Writes
  /\ \E temporary, name \in BOOLEAN :
       /\ \/ /\ ~temporary /\ ~name /\ Sound
             /\ \/ step = "temp" /\ storeSick
                \/ step = "rename" /\ Temporary(o) \notin temporaries
                \/ call[o].pc \notin {"mark", "done"}
          \/ /\ WriteFault
             /\ temporary => step = "temp" \/ Temporary(o) \in temporaries
             /\ name => Creates(o) /\ (step = "reserve" \/ (step = "rename" /\ NameHeld(o)))
             /\ temporary /\ step = "rename" /\ Creates(o) => name = NameHeld(o)
       /\ temporaries' = IF temporary THEN temporaries \cup {Temporary(o)} ELSE temporaries \ {Temporary(o)}
       /\ IF Creates(o) /\ step # "temp"
          THEN IF call[o].pc = "journal"
               THEN /\ journals' = [journals EXCEPT ![o] = [NoJournal(o) EXCEPT !.phase = IF name THEN "reserved" ELSE "none"]]
                    /\ UNCHANGED proposals
               ELSE /\ proposals' = [proposals EXCEPT ![o] = IF name THEN "reserved" ELSE "none"]
                    /\ UNCHANGED journals
          ELSE UNCHANGED <<proposals, journals>>
       /\ littered' = (littered \/ temporary \/ name)
  /\ Caught(o, call[o].pc = "mark")
  /\ UNCHANGED <<service, storeSick, auditVars, effected, overlapped>>

-------------------------------------------------------------------------------
(* finishMutation and the catch blocks *)

\* commitMutation's own outcome, before its error goes up.
AppendUnconfirmed(o) ==
  /\ call[o].pc = "unconfirmed"
  /\ Append(o, "unconfirmed")
  /\ Goto(o, "fail") /\ inside' = inside \ {o}
  /\ UNCHANGED <<fileVars, service, storeSick, attempted, effected, overlapped, littered>>

\* finishMutation reads every journal, outside the turn.
ReadJournals(o) ==
  /\ call[o].pc = "read"
  /\ \/ /\ storeSick
        /\ Goto(o, "fail") /\ UNCHANGED <<fileVars, storeSick>>
     \/ /\ ~storeSick /\ ScrapsIn("journals") = {}
        /\ Goto(o, "settle") /\ UNCHANGED <<fileVars, storeSick>>
     \/ /\ ~storeSick
        /\ \E s \in ScrapsIn("journals") : Quarantine(s)
        /\ storeSick' = TRUE
        /\ Goto(o, "fail")
  /\ UNCHANGED <<service, auditVars, inside, effected, overlapped, littered, proposalFaults>>

\* The outcome: with a journal of its own, a cancelled call is unconfirmed.
AppendOutcome(o) ==
  /\ call[o].pc = "settle"
  /\ \E result \in IF journals[o].phase = "none" THEN {"success"} ELSE {"success", "unconfirmed"} :
       Append(o, result)
  /\ IF auditSick' THEN Goto(o, "fail")
     ELSE IF journals[o].phase = "none" THEN Goto(o, "over") ELSE Goto(o, "done")
  /\ UNCHANGED <<fileVars, service, storeSick, attempted, inside, effected, overlapped, littered>>

RemoveJournal(o) ==
  /\ call[o].pc = "remove"
  /\ IF storeSick
     THEN Goto(o, "fail") /\ UNCHANGED journals
     ELSE Goto(o, "over") /\ journals' = [journals EXCEPT ![o] = NoJournal(o)]
  /\ UNCHANGED <<proposals, temporaries, service, storeSick, auditVars, inside, effected, overlapped, littered, proposalFaults>>

\* Mutant: the failure is logged whatever the log already says.
FailureLoggedTwice(o) ==
  /\ call[o].pc = "fail"
  /\ Append(o, "failure")
  /\ Goto(o, "over")
  /\ UNCHANGED <<fileVars, service, storeSick, attempted, inside, effected, overlapped, littered>>

\* auditFailure: a failure is logged unless the call has its outcome.
AuditFailure(o) ==
  /\ call[o].pc = "fail"
  /\ IF outcome[o] = "none"
     THEN Append(o, "failure")
     ELSE Sound /\ UNCHANGED <<auditSick, outcome, refused>>
  /\ Goto(o, "over")
  /\ UNCHANGED <<fileVars, service, storeSick, attempted, inside, effected, overlapped, littered>>

-------------------------------------------------------------------------------
(* Crash and restart *)

\* The process ends: at any moment as one of the faults, else between calls.
Stop ==
  /\ service # "down"
  /\ IF Open = {} THEN Sound ELSE WriteFault
  /\ service' = "down"
  /\ storeSick' = FALSE /\ auditSick' = FALSE
  /\ inside' = {}
  /\ call' = [o \in Calls |-> IF o \in Open THEN [call[o] EXCEPT !.pc = "over"] ELSE call[o]]
  /\ UNCHANGED <<fileVars, attempted, outcome, refused, effected, overlapped, littered>>

\* initialize: the log is recovered and both directories scanned.  A scrap is
\* quarantined and the start fails; the next one comes further.
StartService ==
  /\ service = "down"
  /\ IF Scraps = {}
     THEN service' = "reconciling" /\ UNCHANGED fileVars
     ELSE (\E s \in Scraps : Quarantine(s)) /\ UNCHANGED service
  /\ UNCHANGED <<storeSick, auditVars, inside, call, effected, overlapped, littered, proposalFaults>>

\* What initialize asks of each journal.
Committed(j) == proposals[j.target] = j.after
Unchanged(j) == proposals[j.target] = j.before
Ambiguous(j) == ~Committed(j) /\ (~Unchanged(j) \/ j.phase # "prepared")
Journaled == {o \in Calls : journals[o].phase # "none"}

\* reconcile settles a journal whose operation has no outcome.
ReconcileOutcome(o) ==
  /\ service = "reconciling"
  /\ o \in Journaled /\ ~Ambiguous(journals[o]) /\ outcome[o] = "none"
  /\ outcome' = [outcome EXCEPT ![o] = IF Committed(journals[o]) THEN "reconciled" ELSE "failure"]
  /\ UNCHANGED <<fileVars, service, storeSick, auditSick, attempted, refused, inside, call, effected, overlapped, littered, proposalFaults>>

\* Then the journal is marked, if it has to be, by way of a temporary ...
ReconcileMark(o) ==
  /\ service = "reconciling"
  /\ o \in Journaled /\ ~Ambiguous(journals[o]) /\ outcome[o] # "none"
  /\ Committed(journals[o]) /\ journals[o].phase # "outcome_committed"
  /\ IF <<"journals", o>> \in temporaries
     THEN /\ journals' = [journals EXCEPT ![o].phase = "outcome_committed"]
          /\ temporaries' = temporaries \ {<<"journals", o>>}
     ELSE /\ temporaries' = temporaries \cup {<<"journals", o>>}
          /\ UNCHANGED journals
  /\ UNCHANGED <<proposals, service, storeSick, auditVars, inside, call, effected, overlapped, littered, proposalFaults>>

\* ... and removed.
ReconcileRemove(o) ==
  /\ service = "reconciling"
  /\ o \in Journaled /\ ~Ambiguous(journals[o]) /\ outcome[o] # "none"
  /\ ~Committed(journals[o]) \/ journals[o].phase = "outcome_committed"
  /\ journals' = [journals EXCEPT ![o] = NoJournal(o)]
  /\ UNCHANGED <<proposals, temporaries, service, storeSick, auditVars, inside, call, effected, overlapped, littered, proposalFaults>>

\* A journal whose effect cannot be told stops the start, and every later one.
ReconcileRefuses ==
  /\ service = "reconciling"
  /\ \E o \in Journaled : Ambiguous(journals[o])
  /\ service' = "down"
  /\ UNCHANGED <<fileVars, storeSick, auditVars, inside, call, effected, overlapped, littered, proposalFaults>>

\* settlePendingAuditAttempts, and the service is up.
SettleAttempt(o) ==
  /\ service \in {"reconciling", "settling"} /\ Journaled = {}
  /\ o \in attempted /\ outcome[o] = "none"
  /\ outcome' = [outcome EXCEPT ![o] = "failure"]
  /\ service' = "settling"
  /\ UNCHANGED <<fileVars, storeSick, auditSick, attempted, refused, inside, call, effected, overlapped, littered, proposalFaults>>

ServiceUp ==
  /\ service \in {"reconciling", "settling"} /\ Journaled = {}
  /\ \A o \in attempted : outcome[o] # "none"
  /\ service' = "up"
  /\ UNCHANGED <<fileVars, storeSick, auditVars, inside, call, effected, overlapped, littered, proposalFaults>>

-------------------------------------------------------------------------------
ProposalsNext ==
  \/ \E o \in Calls :
       \/ Begin(o, "read", {}, o)
       \/ \E key \in Keys : Begin(o, "propose", {key}, o)
       \/ \E named \in Calls : Begin(o, "discard", {}, named)
       \/ Enter(o) \/ FindExpired(o) \/ Decide(o)
       \/ WriteTemporary(o) \/ ReserveName(o) \/ Renamed(o) \/ RenamedUnconfirmed(o) \/ WriteFails(o)
       \/ AppendUnconfirmed(o) \/ ReadJournals(o) \/ AppendOutcome(o)
       \/ RemoveJournal(o) \/ AuditFailure(o)
       \/ ReconcileOutcome(o) \/ ReconcileMark(o) \/ ReconcileRemove(o) \/ SettleAttempt(o)
  \/ Stop \/ StartService \/ ReconcileRefuses \/ ServiceUp

ProposalsSpec == ProposalsInit /\ [][ProposalsNext]_proposalVars

-------------------------------------------------------------------------------
\* An outcome tells the truth about the effect: a failure means the call's
\* own effect was not put in place.
FailureMeansNoEffect == \A o \in Calls : outcome[o] = "failure" => o \notin effected

\* One call at a time, on directories that no failed write has littered, every
\* failure outcome tells that truth.
FailuresAreTrueAlone == overlapped \/ littered \/ FailureMeansNoEffect

\* And any other outcome means it was, or that what it asked for was stored.
CommittedMeansEffect ==
  \A o \in Calls :
    outcome[o] \in {"success", "unconfirmed", "reconciled"} /\ call[o].tool # "read" =>
      \/ o \in effected
      \/ call[o].tool = "propose" /\ \E p \in Stored : call[p].key = call[o].key
      \/ call[o].tool = "discard" /\ proposals[call[o].target] = "discarded"

\* The log tells the truth of every effect, one way and the other, whatever
\* write fails and wherever the process dies.
AuditTellsTheTruth == FailuresAreTrueAlone /\ CommittedMeansEffect

\* One idempotency key never has two proposals, across retries and restarts.
OneProposalPerKey ==
  \A p, q \in Stored : call[p].key = call[q].key => p = q

\* The log is never offered a record it must refuse, a second outcome or one
\* without its attempt, which would latch it for every later call.
NoRecordIsRefused == ~refused

\* If calls came one at a time, a restart can decide what became of each that
\* has no outcome yet (a reservation it meets is quarantined first, and counts as no file).
UnsettledIsDecidable ==
  overlapped \/ \A o \in Journaled :
    /\ outcome[o] = "none"
    /\ journals[o].phase # "reserved" /\ proposals[journals[o].target] # "reserved"
    => ~Ambiguous(journals[o])
===============================================================================
