------------------------ MODULE ProposalService_proofs ------------------------
(***************************************************************************)
(* Theorems about the proposal service, for any number of calls, keys,     *)
(* calls under way and faults: the types, one proposal for a key, the      *)
(* truth of the audit log, that it is never offered a record it refuses,   *)
(* and that a restart can decide what became of every call without an      *)
(* outcome.                                                                *)
(*                                                                         *)
(* The argument: how far a call has come can be told three times, from its *)
(* effect, from its journal and from the log, and `serialized' lets only   *)
(* the call that has its turn advance the first two; so what a mutation    *)
(* was decided against still holds when it is put in place.  That much     *)
(* holds however calls overlap.  A call reads the journals and answers     *)
(* outside its turn, and there a second call can be in the way: what a     *)
(* failure in the log says, and that nothing but the log was wanting when  *)
(* a journal stays behind, is shown for as long as calls never overlapped; *)
(* the first also needs directories that no failed write has littered, for *)
(* a scan refuses what it finds there.                                     *)
(*                                                                         *)
(* The actions are first read field by field, and reduced to the kinds of  *)
(* move that matter (`ServiceMoves').  Each conjunct of the invariant then *)
(* has one lemma, with a step per kind.                                    *)
(***************************************************************************)
EXTENDS ProposalService, FiniteSetTheorems, TLAPS

\* Before the turn's mutation, inside the turn, and before an outcome is due.
Fresh == {"new", "waiting", "load", "expire"}
Turn == {"load", "expire", "journal", "effect", "mark", "unconfirmed"}
Unanswered == Turn \cup {"new", "waiting", "read", "settle"}
Committing == {"prepared", "effect_committed"}

\* What a call asked for is in the store.
IsStored(o) ==
  \/ o \in effected
  \/ call[o].tool = "propose" /\ \E p \in Stored : call[p].key = call[o].key
  \/ call[o].tool = "discard" /\ proposals[call[o].target] = "discarded"

\* `serialized' runs one call at a time, and calls live while the service does.
OneTurn ==
  /\ \A o \in Calls : o \in inside <=> call[o].pc \in Turn
  /\ \A p, q \in inside : p = q
  /\ service # "up" => \A o \in Calls : call[o].pc \in {"new", "over"}

\* Each call's own fields: only a write in progress has steps, and only a
\* write that creates its file reserves a name.
Shaped(o) ==
  /\ call[o].tool = "propose" => call[o].target = o
  /\ call[o].pc \notin Writes \cup {"over"} => call[o].step = "temp"
  /\ call[o].pc \in Writes /\ call[o].step = "reserve" => Creates(o)
  /\ call[o].pc = "new" => o \notin attempted
  /\ call[o].pc \notin {"new", "over"} => o \in attempted

\* A mutation was decided against the proposals as they still are.
Due(o) ==
  /\ call[o].pc \in {"journal", "effect"} =>
       \/ call[o].tool = "propose" /\ SameKey(o) = {}
       \/ call[o].tool = "discard" /\ proposals[call[o].target] = "pending"
  /\ call[o].pc = "expire" => proposals[call[o].late] = "pending"

\* How far the call has come, told from its effect.
Effected(o) ==
  /\ o \in effected => call[o].pc \notin Fresh \cup {"journal", "effect"}
  /\ call[o].pc \in {"mark", "unconfirmed"} => o \in effected
  /\ call[o].pc \in {"read", "settle", "done", "remove"} /\ call[o].tool # "read" => IsStored(o)
  /\ proposals[o] # "none" => call[o].pc \notin Fresh \cup {"journal"}
  /\ proposals[o] = "reserved" =>
       /\ service \in {"down", "up"}
       /\ service = "up" =>
            \/ call[o].pc = "effect" /\ call[o].tool = "propose" /\ call[o].step = "rename"
            \/ littered /\ call[o].pc \in {"fail", "over"}

\* ... from its journal ...
Filed(o) ==
  LET j == journals[o] IN
  /\ call[o].pc \in Fresh => j.phase = "none"
  /\ call[o].pc = "journal" => j.phase \in {"none", "reserved"}
  /\ call[o].pc \in {"effect", "mark"} => j.phase = "prepared"
  /\ call[o].pc = "done" => j.phase \notin {"none", "reserved"}
  /\ j.phase = "reserved" =>
       /\ o \notin effected
       /\ service = "up" =>
            \/ call[o].pc = "journal" /\ call[o].step = "rename"
            \/ littered /\ call[o].pc \in {"fail", "over"}
       /\ service \in {"down", "up"}
  /\ j.phase \notin {"none", "reserved"} =>
       /\ j.target = call[o].target
       /\ \/ call[o].tool = "propose" /\ j.before = "none" /\ j.after = "pending"
          \/ call[o].tool = "discard" /\ j.before = "pending" /\ j.after = "discarded"
  /\ j.phase = "effect_committed" => o \in effected
  /\ o \in effected /\ outcome[o] = "none" => j.phase \in Committing

\* ... and from the log.
Answered(o) ==
  /\ call[o].pc \in Unanswered => outcome[o] = "none"
  /\ call[o].pc \in {"done", "remove"} => outcome[o] # "none"
  /\ journals[o].phase = "outcome_committed" => outcome[o] # "none"
  /\ outcome[o] = "failure" => call[o].pc = "over"

\* A temporary file has its writer, or reconcile's mark, unless it was left over.
TemporariesHaveWriters == \A t \in temporaries :
  /\ service = "up" =>
       \/ littered
       \/ call[t[2]].pc \in Writes /\ call[t[2]].step # "temp" /\ t = Temporary(t[2])
  /\ service \in {"reconciling", "settling"} =>
       /\ t[1] = "journals" /\ journals[t[2]].phase \in Committing
       /\ Committed(journals[t[2]])

\* One call at a time: a scan meets no file but one left over ...
OneOpen == (\A p, q \in Open : p = q) /\ (littered \/ ~storeSick)

\* ... a call that failed after its effect has its outcome, or could not log it ...
NoFalseFailure(o) == littered \/
  /\ outcome[o] = "failure" => o \notin effected
  /\ call[o].pc = "fail" /\ o \in effected => outcome[o] # "none" \/ auditSick

\* ... and what has no outcome is as its journal says, until the restart.
Settleable(o) ==
  outcome[o] = "none" /\ journals[o].phase \in Committing =>
    /\ o \in effected => Committed(journals[o])
    /\ o \notin effected =>
         \/ Unchanged(journals[o])
         \/ call[o].tool = "propose" /\ proposals[o] = "reserved"
    /\ service = "up" /\ call[o].pc = "over" => auditSick /\ Open = {}

\* ... all of it as long as no two calls were ever under way at once.
AloneHolds == ~overlapped => OneOpen /\ \A o \in Calls : NoFalseFailure(o) /\ Settleable(o)

\* The whole inductive invariant.
Inv ==
  /\ ProposalsTypeOK /\ OneTurn /\ TemporariesHaveWriters
  /\ \A o \in Calls : Shaped(o) /\ Due(o) /\ Effected(o) /\ Filed(o) /\ Answered(o)
  /\ OneProposalPerKey /\ CommittedMeansEffect /\ NoRecordIsRefused
  /\ AloneHolds

\* The types of a journal and of a call.
Journals == [phase : Phases, target : Calls, before : FileStates, after : FileStates]
Records == [pc : Places, step : {"temp", "reserve", "rename"},
            tool : {"read", "propose", "discard"}, key : SUBSET Keys, target : Calls, late : Calls]

\* Every other call is where it was, and this one asks for what it asked.
Alters(o) ==
  /\ call' \in [Calls -> Records]
  /\ \A p \in Calls \ {o} : call'[p] = call[p]
  /\ call'[o].tool = call[o].tool /\ call'[o].key = call[o].key
  /\ call'[o].target = call[o].target

\* What the steps of the calls change, field by field.
LEMMA GotoFields ==
  ASSUME ProposalsTypeOK, NEW o \in Calls, NEW pc \in Places, Goto(o, pc)
  PROVE Alters(o) /\ call'[o].late = call[o].late /\ call'[o].pc = pc /\ call'[o].step = "temp"
  <1> DEFINE was == call[o]
             now == [was EXCEPT !.pc = pc, !.step = "temp"]
  <1>1. was \in Records /\ call \in [Calls -> Records]
    BY DEF ProposalsTypeOK, Records
  <1>2. call' = [call EXCEPT ![o] = now]
    BY <1>1 DEF Goto
  <1>3. now \in Records
    BY <1>1 DEF Records
  <1> QED
    BY <1>1, <1>2, <1>3 DEF Alters

\* A write goes on to its next step.
LEMMA StepFields ==
  ASSUME ProposalsTypeOK, NEW o \in Calls, NEW step \in {"temp", "reserve", "rename"},
         call' = [call EXCEPT ![o].step = step]
  PROVE /\ Alters(o) /\ call'[o].late = call[o].late
        /\ call'[o].pc = call[o].pc /\ call'[o].step = step
BY DEF Alters, ProposalsTypeOK, Records

\* A call remembers the expired proposal it is to settle.
LEMMA LateFields ==
  ASSUME ProposalsTypeOK, NEW o \in Calls, NEW p \in Calls,
         call' = [call EXCEPT ![o].pc = "expire", ![o].late = p]
  PROVE Alters(o) /\ call'[o].late = p /\ call'[o].pc = "expire" /\ call'[o].step = call[o].step
  <1> DEFINE was == call[o]
             now == [was EXCEPT !.pc = "expire", !.late = p]
  <1>1. was \in Records /\ call \in [Calls -> Records]
    BY DEF ProposalsTypeOK, Records
  <1>2. call' = [call EXCEPT ![o] = now]
    BY <1>1
  <1>3. now \in Records
    BY <1>1 DEF Records, Places, Writes
  <1> QED
    BY <1>1, <1>3 DEF Alters

\* A call in its turn comes upon an expired proposal.
FindsExpired(o) ==
  /\ Alters(o) /\ call'[o].pc = "expire" /\ call'[o].step = call[o].step
  /\ call'[o].late \in Stored /\ proposals[call'[o].late] = "pending"
  /\ call[o].pc = "load"
  /\ UNCHANGED <<proposals, journals, temporaries, service, storeSick, auditSick, attempted,
                 outcome, refused, inside, effected, overlapped, littered, proposalFaults>>

\* `FindExpired', field by field.
LEMMA ExpiredFields ==
  ASSUME ProposalsTypeOK, NEW o \in Calls, FindExpired(o)
  PROVE FindsExpired(o)
  <1>1. PICK p \in Stored :
          proposals[p] = "pending" /\ call' = [call EXCEPT ![o].pc = "expire", ![o].late = p]
    BY DEF FindExpired
  <1> QED
    BY <1>1, LateFields DEF Stored, FindExpired, fileVars, auditVars, FindsExpired

\* The service goes down, and with it every call under way.
Stops ==
  /\ service # "down" /\ service' = "down" /\ storeSick' = FALSE /\ auditSick' = FALSE
  /\ inside' = {}
  /\ UNCHANGED <<proposals, journals, temporaries, attempted, outcome, refused, effected,
                 overlapped, littered>>
  /\ proposalFaults' \in 0..MaxProposalFaults /\ proposalFaults' >= proposalFaults
  /\ call' \in [Calls -> Records]
  /\ \A o \in Calls :
       /\ call'[o].pc = IF call[o].pc \in {"new", "over"} THEN call[o].pc ELSE "over"
       /\ call'[o].step = call[o].step /\ call'[o].late = call[o].late
       /\ call'[o].tool = call[o].tool /\ call'[o].key = call[o].key
       /\ call'[o].target = call[o].target

\* `Stop', field by field.
LEMMA StopFields ==
  ASSUME ProposalsTypeOK, Stop
  PROVE Stops
  <1> DEFINE Ended(o) == [call[o] EXCEPT !.pc = "over"]
  <1>1. call \in [Calls -> Records]
    BY DEF ProposalsTypeOK, Records
  <1>2. \A o \in Calls : Ended(o) \in Records /\ Ended(o).pc = "over"
    BY <1>1 DEF Records, Places
  <1>3. call' = [o \in Calls |-> IF call[o].pc \notin {"new", "over"} THEN Ended(o) ELSE call[o]]
    BY DEF Stop, Open
  <1>4. proposalFaults' \in 0..MaxProposalFaults /\ proposalFaults' >= proposalFaults
    BY ProposalsAssumption DEF ProposalsTypeOK, Stop, WriteFault, Sound
  <1> QED
    BY <1>1, <1>2, <1>3, <1>4 DEF Records, Stop, fileVars, Stops

\* A call starts, and is over at once if its attempt is not logged.
Begins(o) ==
  /\ call' \in [Calls -> Records]
  /\ \A p \in Calls \ {o} : call'[p] = call[p]
  /\ \/ /\ call'[o].pc = "waiting" /\ call'[o].step = "temp" /\ ~auditSick /\ auditSick' = FALSE
        /\ call'[o].tool = "propose" => call'[o].target = o
        /\ attempted' = attempted \cup {o}
     \/ /\ call'[o].pc = "over" /\ auditSick' = TRUE /\ Alters(o) /\ call'[o].step = call[o].step
        /\ attempted' \in {attempted, attempted \cup {o}}
  /\ service = "up" /\ call[o].pc = "new"
  /\ overlapped' = (overlapped \/ Open # {})
  /\ proposalFaults' \in 0..MaxProposalFaults /\ proposalFaults' >= proposalFaults
  /\ UNCHANGED <<proposals, journals, temporaries, service, storeSick, outcome, refused, inside,
                 effected, littered>>

\* `Begin', field by field.
LEMMA BeginFields ==
  ASSUME ProposalsTypeOK, NEW o \in Calls, NEW tool \in {"read", "propose", "discard"},
         NEW key \in SUBSET Keys, NEW named \in Calls, tool = "propose" => named = o,
         Begin(o, tool, key, named)
  PROVE Begins(o)
  <1>0. call \in [Calls -> Records] /\ call[o] \in Records
    BY DEF ProposalsTypeOK, Records
  <1>1. ASSUME call' = [call EXCEPT ![o].pc = "over"]
        PROVE Alters(o) /\ call'[o].pc = "over" /\ call'[o].step = call[o].step
    <2> DEFINE now == [call[o] EXCEPT !.pc = "over"]
    <2>1. now \in Records /\ call' = [call EXCEPT ![o] = now]
      BY <1>0, <1>1 DEF Records, Places
    <2> QED
      BY <1>0, <2>1 DEF Alters
  <1>2. ASSUME call' = [call EXCEPT ![o] = [NoCall(o) EXCEPT !.pc = "waiting", !.tool = tool,
                                                        !.key = key, !.target = named]]
        PROVE /\ call' \in [Calls -> Records]
              /\ \A p \in Calls \ {o} : call'[p] = call[p]
              /\ call'[o].pc = "waiting" /\ call'[o].step = "temp"
              /\ call'[o].tool = tool /\ call'[o].key = key /\ call'[o].target = named
    BY <1>0, <1>2 DEF Records, NoCall, Places, Writes
  <1>3. proposalFaults' \in 0..MaxProposalFaults /\ proposalFaults' >= proposalFaults
    BY ProposalsAssumption DEF ProposalsTypeOK, Begin, Sound, WriteFault
  <1> QED
    BY <1>1, <1>2, <1>3 DEF Begin, Alters, fileVars, Begins

\* What a write in place leaves, whether or not its sync was confirmed.
Puts(o) ==
  /\ Alters(o) /\ call'[o].late = call[o].late /\ call'[o].step = "temp"
  /\ call[o].pc \in Writes /\ call[o].step = "rename" /\ Temporary(o) \in temporaries
  /\ temporaries' = temporaries \ {Temporary(o)}
  /\ UNCHANGED <<service, storeSick, auditSick, attempted, outcome, refused, overlapped, littered>>
  /\ proposalFaults' \in 0..MaxProposalFaults /\ proposalFaults' >= proposalFaults
  /\ \/ /\ call[o].pc = "expire" /\ call'[o].pc \in {"load", "fail"}
        /\ proposals' = [proposals EXCEPT ![call[o].late] = "expired"]
        /\ inside' = IF call'[o].pc = "fail" THEN inside \ {o} ELSE inside
        /\ UNCHANGED <<journals, effected>>
     \/ /\ call[o].pc = "journal" /\ call'[o].pc \in {"effect", "fail"}
        /\ journals' = [journals EXCEPT ![o] =
             [phase |-> "prepared", target |-> call[o].target, before |-> proposals[call[o].target],
              after |-> IF call[o].tool = "propose" THEN "pending" ELSE "discarded"]]
        /\ inside' = IF call'[o].pc = "fail" THEN inside \ {o} ELSE inside
        /\ UNCHANGED <<proposals, effected>>
     \/ /\ call[o].pc = "effect" /\ call'[o].pc \in {"mark", "unconfirmed"}
        /\ proposals' = [proposals EXCEPT ![call[o].target] =
                            IF call[o].tool = "propose" THEN "pending" ELSE "discarded"]
        /\ effected' = effected \cup {o}
        /\ UNCHANGED <<journals, inside>>
     \/ /\ call[o].pc = "mark" /\ call'[o].pc \in {"read", "unconfirmed"}
        /\ journals' = [journals EXCEPT ![o].phase = "effect_committed"]
        /\ inside' = IF call'[o].pc = "read" THEN {} ELSE inside
        /\ UNCHANGED <<proposals, effected>>
     \/ /\ call[o].pc = "done" /\ call'[o].pc \in {"remove", "fail"}
        /\ journals' = [journals EXCEPT ![o].phase = "outcome_committed"]
        /\ inside' = IF call'[o].pc = "fail" THEN inside \ {o} ELSE inside
        /\ UNCHANGED <<proposals, effected>>

\* A rename, confirmed or not, field by field.
LEMMA PlaceFields ==
  ASSUME ProposalsTypeOK, NEW o \in Calls, Renamed(o) \/ RenamedUnconfirmed(o)
  PROVE Puts(o)
  <1>0. call[o].pc \in Writes /\ call[o].step = "rename" /\ Temporary(o) \in temporaries
    BY DEF Renamed, RenamedUnconfirmed
  <1>3. proposalFaults' \in 0..MaxProposalFaults /\ proposalFaults' >= proposalFaults
    BY ProposalsAssumption DEF ProposalsTypeOK, Renamed, RenamedUnconfirmed, WriteFault
  <1>1. CASE Renamed(o)
    <2>1. After(call[o].pc) \in Places /\ Goto(o, After(call[o].pc))
      BY <1>1 DEF Renamed, After, Writes, Places
    <2>2. /\ Alters(o) /\ call'[o].late = call[o].late /\ call'[o].step = "temp"
          /\ call'[o].pc = After(call[o].pc)
      BY <2>1, GotoFields
    <2> QED
      BY <1>0, <1>1, <1>3, <2>2 DEF Renamed, Place, After, Writes, auditVars, Puts
  <1>2. CASE RenamedUnconfirmed(o)
    <2>1. \/ call[o].pc \in {"effect", "mark"} /\ Goto(o, "unconfirmed") /\ inside' = inside
          \/ call[o].pc \notin {"effect", "mark"} /\ Goto(o, "fail") /\ inside' = inside \ {o}
      BY <1>2 DEF RenamedUnconfirmed, Caught
    <2>2. /\ Alters(o) /\ call'[o].late = call[o].late /\ call'[o].step = "temp"
          /\ call'[o].pc = IF call[o].pc \in {"effect", "mark"} THEN "unconfirmed" ELSE "fail"
      BY <2>1, GotoFields DEF Places
    <2> QED
      BY <1>0, <1>2, <1>3, <2>1, <2>2 DEF RenamedUnconfirmed, Place, Writes, auditVars, Puts
  <1> QED
    BY <1>1, <1>2

\* A write fails: nothing of it is left, or the directory is littered.
Fails(o) ==
  /\ Alters(o) /\ call'[o].late = call[o].late /\ call'[o].step = "temp"
  /\ call[o].pc \in Writes
  /\ call'[o].pc = IF call[o].pc = "mark" THEN "unconfirmed" ELSE "fail"
  /\ inside' = IF call[o].pc = "mark" THEN inside ELSE inside \ {o}
  /\ littered' \in BOOLEAN /\ (littered => littered')
  /\ \/ temporaries' = temporaries \ {Temporary(o)}
     \/ littered' /\ temporaries' = temporaries \cup {Temporary(o)}
  /\ proposals' \in [Calls -> FileStates] /\ journals' \in [Calls -> Journals]
  /\ \A p \in Calls \ {o} : proposals'[p] = proposals[p] /\ journals'[p] = journals[p]
  /\ \/ /\ proposals'[o] = proposals[o]
        /\ ~(call[o].pc = "effect" /\ call[o].tool = "propose" /\ call[o].step = "rename")
     \/ /\ call[o].pc = "effect" /\ call[o].tool = "propose"
        /\ proposals'[o] = "none" \/ (proposals'[o] = "reserved" /\ littered')
  /\ \/ /\ journals'[o] = journals[o]
        /\ ~(call[o].pc = "journal" /\ call[o].step = "rename")
     \/ /\ call[o].pc = "journal"
        /\ \/ journals'[o].phase = "none"
           \/ journals'[o].phase = "reserved" /\ littered'
  /\ UNCHANGED <<service, storeSick, auditSick, attempted, outcome, refused, effected, overlapped>>
  /\ proposalFaults' \in 0..MaxProposalFaults /\ proposalFaults' >= proposalFaults

\* A failed write, field by field.
LEMMA FailedFields ==
  ASSUME ProposalsTypeOK, NEW o \in Calls, WriteFails(o)
  PROVE Fails(o)
  <1>1. \/ call[o].pc = "mark" /\ Goto(o, "unconfirmed") /\ inside' = inside
        \/ call[o].pc # "mark" /\ Goto(o, "fail") /\ inside' = inside \ {o}
    BY DEF WriteFails, Caught
  <1>2. /\ Alters(o) /\ call'[o].late = call[o].late /\ call'[o].step = "temp"
        /\ call'[o].pc = IF call[o].pc = "mark" THEN "unconfirmed" ELSE "fail"
    BY <1>1, GotoFields DEF Places
  <1>3. proposalFaults' \in 0..MaxProposalFaults /\ proposalFaults' >= proposalFaults
    BY ProposalsAssumption DEF ProposalsTypeOK, WriteFails, WriteFault, Sound
  <1>4. PICK temporary \in BOOLEAN, name \in BOOLEAN :
          /\ temporaries' = IF temporary THEN temporaries \cup {Temporary(o)}
                            ELSE temporaries \ {Temporary(o)}
          /\ littered' = (littered \/ temporary \/ name)
          /\ IF Creates(o) /\ call[o].step # "temp"
             THEN IF call[o].pc = "journal"
                  THEN /\ journals' = [journals EXCEPT ![o] =
                              [NoJournal(o) EXCEPT !.phase = IF name THEN "reserved" ELSE "none"]]
                       /\ UNCHANGED proposals
                  ELSE /\ proposals' = [proposals EXCEPT ![o] = IF name THEN "reserved" ELSE "none"]
                       /\ UNCHANGED journals
             ELSE UNCHANGED <<proposals, journals>>
    BY DEF WriteFails
  <1>5. littered' \in BOOLEAN /\ (littered => littered')
    BY <1>4 DEF ProposalsTypeOK
  <1>6. /\ proposals \in [Calls -> FileStates] /\ journals \in [Calls -> Journals]
        /\ NoJournal(o) \in Journals /\ [NoJournal(o) EXCEPT !.phase = "reserved"] \in Journals
    BY DEF ProposalsTypeOK, NoJournal, Journals, Phases, FileStates
  <1>7. CASE ~(Creates(o) /\ call[o].step # "temp")
    <2>1. proposals' = proposals /\ journals' = journals
      BY <1>4, <1>7
    <2> QED
      BY <1>1, <1>2, <1>3, <1>4, <1>5, <1>6, <1>7, <2>1 DEF WriteFails, Creates, auditVars, Fails
  <1>8. CASE Creates(o) /\ call[o].step # "temp" /\ call[o].pc = "journal"
    <2>1. proposals' = proposals
      BY <1>4, <1>8
    <2>2. journals' = [journals EXCEPT ![o] =
                          [NoJournal(o) EXCEPT !.phase = IF name THEN "reserved" ELSE "none"]]
      BY <1>4, <1>8
    <2>3. /\ journals' \in [Calls -> Journals]
          /\ \A p \in Calls \ {o} : journals'[p] = journals[p]
          /\ journals'[o].phase = "none" \/ (journals'[o].phase = "reserved" /\ name)
      BY <1>6, <2>2 DEF NoJournal, Journals, Phases
    <2> QED
      BY <1>1, <1>2, <1>3, <1>4, <1>5, <1>6, <1>8, <2>1, <2>3 DEF WriteFails, auditVars, Fails
  <1>9. CASE Creates(o) /\ call[o].step # "temp" /\ call[o].pc # "journal"
    <2>1. journals' = journals
      BY <1>4, <1>9
    <2>2. proposals' = [proposals EXCEPT ![o] = IF name THEN "reserved" ELSE "none"]
      BY <1>4, <1>9
    <2>3. /\ proposals' \in [Calls -> FileStates]
          /\ \A p \in Calls \ {o} : proposals'[p] = proposals[p]
          /\ proposals'[o] = "none" \/ (proposals'[o] = "reserved" /\ name)
      BY <1>6, <2>2 DEF FileStates
    <2> QED
      BY <1>1, <1>2, <1>3, <1>4, <1>5, <1>6, <1>9, <2>1, <2>3 DEF WriteFails, Creates, auditVars, Fails
  <1> QED
    BY <1>7, <1>8, <1>9

\* What a scan may do to the files it meets.
JournalsSwept ==
  /\ journals' \in [Calls -> Journals]
  /\ \A p \in Calls :
       \/ journals'[p] = journals[p]
       \/ (journals[p].phase = "reserved" /\ journals'[p] = NoJournal(p))
\* ... and of proposals.
ProposalsSwept ==
  /\ proposals' \in [Calls -> FileStates]
  /\ \A p \in Calls :
       proposals'[p] = proposals[p] \/ (proposals[p] = "reserved" /\ proposals'[p] = "none")

\* A scan outside the turn takes at most one journal's reservation or temporary.
Scans(o) ==
  /\ Alters(o) /\ call'[o].late = call[o].late /\ call'[o].step = "temp" /\ call[o].pc = "read"
  /\ temporaries' \subseteq temporaries
  /\ call'[o].pc \in {"settle", "fail"} /\ storeSick' \in BOOLEAN
  /\ ~storeSick /\ ScrapsIn("journals") = {} =>
       call'[o].pc = "settle" /\ UNCHANGED <<journals, storeSick>>
  /\ JournalsSwept
  /\ UNCHANGED <<proposals, service, auditSick, attempted, outcome, refused, inside, effected,
                 overlapped, littered, proposalFaults>>

\* A scan of the journals outside the turn, field by field.
LEMMA ScanFields ==
  ASSUME ProposalsTypeOK, NEW o \in Calls, ReadJournals(o)
  PROVE Scans(o)
  <1>1. \/ Goto(o, "settle") /\ UNCHANGED <<fileVars, storeSick>>
        \/ Goto(o, "fail") /\ storeSick /\ UNCHANGED <<fileVars, storeSick>>
        \/ Goto(o, "fail") /\ \E s \in ScrapsIn("journals") : Quarantine(s)
    BY DEF ReadJournals
  <1>2. /\ Alters(o) /\ call'[o].late = call[o].late /\ call'[o].step = "temp"
        /\ \/ call'[o].pc = "settle" /\ UNCHANGED <<fileVars, storeSick>>
           \/ call'[o].pc = "fail" /\ storeSick /\ UNCHANGED <<fileVars, storeSick>>
           \/ call'[o].pc = "fail" /\ \E s \in ScrapsIn("journals") : Quarantine(s)
    BY <1>1, GotoFields DEF Places
  <1>3. ASSUME NEW s \in ScrapsIn("journals"), Quarantine(s)
        PROVE /\ proposals' = proposals /\ temporaries' \subseteq temporaries
              /\ JournalsSwept
    BY <1>3 DEF Quarantine, ScrapsIn, Scraps, JournalsSwept, Journals, NoJournal, Phases,
       FileStates, ProposalsTypeOK
  <1>4. UNCHANGED journals => JournalsSwept
    BY DEF JournalsSwept, ProposalsTypeOK, Journals
  <1> QED
    BY <1>2, <1>3, <1>4 DEF ReadJournals, fileVars, auditVars, Scans, ProposalsTypeOK

\* A call takes its turn, or its scan takes a left-over file and it fails.
Enters(o) ==
  /\ Alters(o) /\ call'[o].late = call[o].late /\ call'[o].step = "temp"
  /\ call[o].pc = "waiting" /\ storeSick' \in BOOLEAN
  /\ \/ call'[o].pc = "load" /\ inside = {} /\ inside' = {o}
     \/ call'[o].pc = "fail" /\ inside' = inside
  /\ \/ UNCHANGED <<proposals, temporaries, storeSick>>
     \/ inside = {} /\ ScrapsIn("proposals") # {}
  /\ temporaries' \subseteq temporaries /\ ProposalsSwept
  /\ UNCHANGED <<journals, service, auditSick, attempted, outcome, refused, effected, overlapped,
                 littered, proposalFaults>>

\* `Enter', field by field.
LEMMA EnterFields ==
  ASSUME ProposalsTypeOK, NEW o \in Calls, Enter(o)
  PROVE Enters(o)
  <1>1. ASSUME NEW s \in ScrapsIn("proposals"), Quarantine(s)
        PROVE /\ journals' = journals /\ temporaries' \subseteq temporaries
              /\ ProposalsSwept
    BY <1>1 DEF Quarantine, ScrapsIn, Scraps, ProposalsSwept, FileStates, ProposalsTypeOK
  <1>2. UNCHANGED proposals => ProposalsSwept
    BY DEF ProposalsSwept, ProposalsTypeOK
  <1>3. CASE /\ ~storeSick /\ inside = {} /\ inside' = {o} /\ Goto(o, "load")
             /\ UNCHANGED <<fileVars, storeSick>>
    <2>1. /\ Alters(o) /\ call'[o].late = call[o].late /\ call'[o].step = "temp"
          /\ call'[o].pc = "load"
      BY <1>3, GotoFields DEF Places
    <2> QED
      BY <1>2, <1>3, <2>1 DEF Enter, Enters, fileVars, auditVars, ProposalsTypeOK
  <1>4. CASE Goto(o, "fail") /\ UNCHANGED inside
    <2>1. /\ Alters(o) /\ call'[o].late = call[o].late /\ call'[o].step = "temp"
          /\ call'[o].pc = "fail"
      BY <1>4, GotoFields DEF Places
    <2>2. CASE UNCHANGED <<fileVars, storeSick>>
      BY <1>2, <1>4, <2>1, <2>2 DEF Enter, Enters, fileVars, auditVars, ProposalsTypeOK
    <2>3. CASE /\ inside = {} /\ storeSick' = TRUE
               /\ \E s \in ScrapsIn("proposals") : Quarantine(s)
      BY <1>1, <1>4, <2>1, <2>3 DEF Enter, Enters, auditVars
    <2>4. \/ UNCHANGED <<fileVars, storeSick>>
          \/ /\ inside = {} /\ storeSick' = TRUE
             /\ \E s \in ScrapsIn("proposals") : Quarantine(s)
      BY DEF Enter
    <2> QED
      BY <2>2, <2>3, <2>4
  <1>5. \/ /\ ~storeSick /\ inside = {} /\ inside' = {o} /\ Goto(o, "load")
           /\ UNCHANGED <<fileVars, storeSick>>
        \/ Goto(o, "fail") /\ UNCHANGED inside
    BY DEF Enter
  <1> QED
    BY <1>3, <1>4, <1>5

\* The service starts, on files that are whole, or refuses to.
Starts ==
  /\ service = "down" /\ temporaries' \subseteq temporaries
  /\ JournalsSwept /\ ProposalsSwept
  /\ \/ /\ service' = "reconciling" /\ temporaries = {}
        /\ \A p \in Calls : proposals[p] # "reserved" /\ journals[p].phase # "reserved"
        /\ UNCHANGED <<proposals, journals, temporaries>>
     \/ service' = "down"
  /\ UNCHANGED <<storeSick, auditSick, attempted, outcome, refused, inside, call, effected,
                 overlapped, littered, proposalFaults>>

\* `StartService', field by field.
LEMMA StartFields ==
  ASSUME ProposalsTypeOK, StartService
  PROVE Starts
  <1>1. ASSUME NEW s \in Scraps, Quarantine(s)
        PROVE temporaries' \subseteq temporaries /\ JournalsSwept /\ ProposalsSwept
    BY <1>1 DEF Quarantine, Scraps, JournalsSwept, ProposalsSwept, Journals, NoJournal, Phases,
       FileStates, ProposalsTypeOK
  <1>2. UNCHANGED fileVars => JournalsSwept /\ ProposalsSwept
    BY DEF fileVars, JournalsSwept, ProposalsSwept, ProposalsTypeOK, Journals
  <1>3. ASSUME Scraps = {}
        PROVE /\ temporaries = {}
              /\ \A p \in Calls : proposals[p] # "reserved" /\ journals[p].phase # "reserved"
    <2>1. \A p \in Calls : /\ proposals[p] = "reserved" => <<"proposals", p>> \in Scraps
                          /\ journals[p].phase = "reserved" => <<"journals", p>> \in Scraps
      BY DEF Scraps
    <2> QED
      BY <1>3, <2>1 DEF Scraps
  <1> QED
    BY <1>1, <1>2, <1>3 DEF StartService, fileVars, auditVars, Starts

\* Every step is one of these.
LEMMA ServiceMoves ==
  ASSUME ProposalsTypeOK, ProposalsNext
  PROVE \/ \E o \in Calls :
             \/ Begins(o)
             \/ Enters(o)
             \/ FindsExpired(o)
             \/ Decide(o)
             \/ WriteTemporary(o)
             \/ ReserveName(o)
             \/ Puts(o)
             \/ Fails(o)
             \/ AppendUnconfirmed(o)
             \/ Scans(o)
             \/ AppendOutcome(o)
             \/ RemoveJournal(o)
             \/ AuditFailure(o)
             \/ ReconcileOutcome(o)
             \/ ReconcileMark(o)
             \/ ReconcileRemove(o)
             \/ SettleAttempt(o)
        \/ Stops \/ Starts \/ ReconcileRefuses \/ ServiceUp
  <1>1. ASSUME NEW o \in Calls, Begin(o, "read", {}, o) PROVE Begins(o)
    BY <1>1, BeginFields
  <1>2. ASSUME NEW o \in Calls, NEW key \in Keys, Begin(o, "propose", {key}, o) PROVE Begins(o)
    BY <1>2, BeginFields
  <1>3. ASSUME NEW o \in Calls, NEW named \in Calls, Begin(o, "discard", {}, named)
        PROVE Begins(o)
    BY <1>3, BeginFields
  <1> QED
    BY <1>1, <1>2, <1>3, EnterFields, ExpiredFields, PlaceFields, FailedFields, ScanFields, StopFields,
       StartFields
       DEF ProposalsNext

\* The types of the variables that the proofs look into.
LEMMA Domains ==
  ASSUME ProposalsTypeOK
  PROVE /\ inside \subseteq Calls /\ effected \subseteq Calls /\ attempted \subseteq Calls
        /\ call \in [Calls -> Records] /\ proposals \in [Calls -> FileStates]
        /\ journals \in [Calls -> Journals] /\ outcome \in [Calls -> Results]
        /\ temporaries \subseteq ({"proposals", "journals"} \X Calls)
        /\ proposalFaults \in Nat
BY DEF ProposalsTypeOK, Records, Journals

\* The types, once at most one call holds the turn.
LEMMA AppendTypes ==
  ASSUME ProposalsTypeOK, NEW o \in Calls, NEW result \in Results, Append(o, result)
  PROVE /\ outcome' \in [Calls -> Results] /\ auditSick' \in BOOLEAN /\ refused' \in BOOLEAN
        /\ proposalFaults' \in 0..MaxProposalFaults
  <1>1. proposalFaults' \in 0..MaxProposalFaults
    BY ProposalsAssumption DEF ProposalsTypeOK, Append, WriteFault, Sound
  <1> QED
    BY <1>1 DEF ProposalsTypeOK, Append

\* The types.
LEMMA TypesKept ==
  ASSUME ProposalsTypeOK, Cardinality(inside') <= 1, ProposalsNext
  PROVE ProposalsTypeOK'
  <1>1. ASSUME NEW o \in Calls, Begins(o) PROVE ProposalsTypeOK'
    BY <1>1 DEF Begins, ProposalsTypeOK, Alters, FileStates, Phases, Results, Places, Writes,
       Records, Journals
  <1>2. ASSUME NEW o \in Calls, Enters(o) PROVE ProposalsTypeOK'
    BY <1>2 DEF Enters, ProposalsSwept, ProposalsTypeOK, Alters, Records
  <1>3. ASSUME NEW o \in Calls, FindsExpired(o) PROVE ProposalsTypeOK'
    BY <1>3 DEF FindsExpired, ProposalsTypeOK, Alters, Records
  <1>4. ASSUME NEW o \in Calls, Decide(o) PROVE ProposalsTypeOK'
    BY <1>4, GotoFields DEF Decide, fileVars, auditVars, ProposalsTypeOK, Alters, Places, Writes,
       Records
  <1>5. ASSUME NEW o \in Calls, WriteTemporary(o) PROVE ProposalsTypeOK'
    <2>1. call' \in [Calls -> Records]
      BY <1>5, StepFields DEF WriteTemporary, Alters
    <2>2. temporaries' \subseteq {"proposals", "journals"} \X Calls
      BY Domains, <1>5 DEF WriteTemporary, Temporary, Directory
    <2> QED
      BY <1>5, <2>1, <2>2 DEF WriteTemporary, auditVars, ProposalsTypeOK, Records, Journals
  <1>6. ASSUME NEW o \in Calls, ReserveName(o) PROVE ProposalsTypeOK'
    <2>1. call' \in [Calls -> Records]
      BY <1>6, StepFields DEF ReserveName, Alters
    <2>2. proposals' \in [Calls -> FileStates] /\ journals' \in [Calls -> Journals]
      BY Domains, <1>6 DEF ReserveName, FileStates, Journals, Phases
    <2> QED
      BY <1>6, <2>1, <2>2 DEF ReserveName, auditVars, ProposalsTypeOK, Records, Journals
  <1>7. ASSUME NEW o \in Calls, Puts(o) PROVE ProposalsTypeOK'
    BY Domains, <1>7, AppendTypes DEF Puts, ProposalsTypeOK, Alters, FileStates, Phases, Results,
       Places, Records, Journals
  <1>8. ASSUME NEW o \in Calls, Fails(o) PROVE ProposalsTypeOK'
    <2>1. /\ call' \in [Calls -> Records]
          /\ proposals' \in [Calls -> FileStates]
          /\ journals' \in [Calls -> Journals]
      BY <1>8 DEF Fails, Alters
    <2>2. temporaries' \subseteq {"proposals", "journals"} \X Calls
      BY Domains, <1>8 DEF Fails, Temporary, Directory
    <2> QED
      BY <1>8, <2>1, <2>2 DEF Fails, ProposalsTypeOK, Records, Journals
  <1>9. ASSUME NEW o \in Calls, AppendUnconfirmed(o) PROVE ProposalsTypeOK'
    BY <1>9, GotoFields, AppendTypes DEF AppendUnconfirmed, fileVars, ProposalsTypeOK, Alters,
       FileStates, Phases, Results, Places, Writes, Records, Journals
  <1>10. ASSUME NEW o \in Calls, Scans(o) PROVE ProposalsTypeOK'
    BY <1>10 DEF Scans, JournalsSwept, ProposalsTypeOK, Alters, Records, Journals
  <1>11. ASSUME NEW o \in Calls, AppendOutcome(o) PROVE ProposalsTypeOK'
    <2>1. call' \in [Calls -> Records]
      BY <1>11, GotoFields DEF AppendOutcome, Alters, Places, Writes
    <2>2. PICK result \in Results : Append(o, result)
      BY <1>11 DEF AppendOutcome, Results
    <2> QED
      BY <1>11, <2>1, <2>2, AppendTypes DEF AppendOutcome, fileVars, ProposalsTypeOK, Records
  <1>12. ASSUME NEW o \in Calls, RemoveJournal(o) PROVE ProposalsTypeOK'
    <2>1. call' \in [Calls -> Records]
      BY <1>12, GotoFields DEF RemoveJournal, Alters, Places
    <2>2. journals' \in [Calls -> Journals]
      BY Domains, <1>12 DEF RemoveJournal, NoJournal, Journals, FileStates, Phases
    <2> QED
      BY <1>12, <2>1, <2>2 DEF RemoveJournal, auditVars, ProposalsTypeOK, Records, Journals
  <1>13. ASSUME NEW o \in Calls, AuditFailure(o) PROVE ProposalsTypeOK'
    BY <1>13, GotoFields, AppendTypes DEF AuditFailure, fileVars, ProposalsTypeOK, Alters,
       FileStates, Phases, Results, Places, Writes, Records, Journals, Sound
  <1>14. ASSUME NEW o \in Calls, ReconcileOutcome(o) PROVE ProposalsTypeOK'
    BY <1>14 DEF ReconcileOutcome, fileVars, ProposalsTypeOK, Results
  <1>15. ASSUME NEW o \in Calls, ReconcileMark(o) PROVE ProposalsTypeOK'
    BY <1>15 DEF ReconcileMark, auditVars, ProposalsTypeOK, Phases, Results
  <1>16. ASSUME NEW o \in Calls, ReconcileRemove(o) PROVE ProposalsTypeOK'
    BY <1>16 DEF ReconcileRemove, NoJournal, auditVars, ProposalsTypeOK, FileStates, Phases
  <1>17. ASSUME NEW o \in Calls, SettleAttempt(o) PROVE ProposalsTypeOK'
    BY <1>17 DEF SettleAttempt, fileVars, ProposalsTypeOK, Results
  <1>18. ASSUME Stops PROVE ProposalsTypeOK'
    BY <1>18 DEF Stops, ProposalsTypeOK, Alters, FileStates, Phases, Results, Places, Writes,
       Records, Journals
  <1>19. ASSUME Starts PROVE ProposalsTypeOK'
    BY <1>19 DEF Starts, ProposalsSwept, JournalsSwept, ProposalsTypeOK, Journals
  <1>20. ASSUME ReconcileRefuses PROVE ProposalsTypeOK'
    BY <1>20 DEF ReconcileRefuses, fileVars, auditVars, ProposalsTypeOK
  <1>21. ASSUME ServiceUp PROVE ProposalsTypeOK'
    BY <1>21 DEF ServiceUp, fileVars, auditVars, ProposalsTypeOK
  <1> QED
    BY ServiceMoves, <1>1, <1>2, <1>3, <1>4, <1>5, <1>6, <1>7, <1>8, <1>9, <1>10, <1>11, <1>12, <1>13,
       <1>14, <1>15, <1>16, <1>17, <1>18, <1>19, <1>20, <1>21

\* The turn passes from one call to the next.
LEMMA OneTurnKept ==
  ASSUME ProposalsTypeOK, OneTurn, ProposalsNext
  PROVE OneTurn'
  <1>1. ASSUME NEW o \in Calls, Begins(o) PROVE OneTurn'
    BY <1>1 DEF Begins, OneTurn, Turn
  <1>2. ASSUME NEW o \in Calls, Enters(o) PROVE OneTurn'
    BY <1>2 DEF Enters, OneTurn, Turn, Alters
  <1>3. ASSUME NEW o \in Calls, FindsExpired(o) PROVE OneTurn'
    BY <1>3 DEF FindsExpired, OneTurn, Turn, Alters
  <1>4. ASSUME NEW o \in Calls, Decide(o) PROVE OneTurn'
    BY <1>4, GotoFields DEF Decide, OneTurn, Places, Writes, Turn, Alters
  <1>5. ASSUME NEW o \in Calls, WriteTemporary(o) PROVE OneTurn'
    BY <1>5 DEF WriteTemporary, OneTurn
  <1>6. ASSUME NEW o \in Calls, ReserveName(o) PROVE OneTurn'
    BY <1>6 DEF ReserveName, OneTurn
  <1>7. ASSUME NEW o \in Calls, Puts(o) PROVE OneTurn'
    BY <1>7 DEF Puts, OneTurn, Turn, Alters
  <1>8. ASSUME NEW o \in Calls, Fails(o) PROVE OneTurn'
    BY <1>8 DEF Fails, OneTurn, Writes, Turn, Alters
  <1>9. ASSUME NEW o \in Calls, AppendUnconfirmed(o) PROVE OneTurn'
    BY <1>9, GotoFields DEF AppendUnconfirmed, OneTurn, Places, Turn, Alters
  <1>10. ASSUME NEW o \in Calls, Scans(o) PROVE OneTurn'
    BY <1>10 DEF Scans, OneTurn, Turn, Alters
  <1>11. ASSUME NEW o \in Calls, AppendOutcome(o) PROVE OneTurn'
    BY <1>11, GotoFields DEF AppendOutcome, OneTurn, Places, Writes, Turn, Alters
  <1>12. ASSUME NEW o \in Calls, RemoveJournal(o) PROVE OneTurn'
    BY <1>12, GotoFields DEF RemoveJournal, OneTurn, Places, Turn, Alters
  <1>13. ASSUME NEW o \in Calls, AuditFailure(o) PROVE OneTurn'
    BY <1>13, GotoFields DEF AuditFailure, OneTurn, Places, Turn, Alters
  <1>14. ASSUME NEW o \in Calls, ReconcileOutcome(o) PROVE OneTurn'
    BY <1>14 DEF ReconcileOutcome, OneTurn
  <1>15. ASSUME NEW o \in Calls, ReconcileMark(o) PROVE OneTurn'
    BY <1>15 DEF ReconcileMark, OneTurn
  <1>16. ASSUME NEW o \in Calls, ReconcileRemove(o) PROVE OneTurn'
    BY <1>16 DEF ReconcileRemove, OneTurn
  <1>17. ASSUME NEW o \in Calls, SettleAttempt(o) PROVE OneTurn'
    BY <1>17 DEF SettleAttempt, OneTurn
  <1>18. ASSUME Stops PROVE OneTurn'
    BY <1>18 DEF Stops, OneTurn, Turn
  <1>19. ASSUME Starts PROVE OneTurn'
    BY <1>19 DEF Starts, OneTurn
  <1>20. ASSUME ReconcileRefuses PROVE OneTurn'
    BY <1>20 DEF ReconcileRefuses, OneTurn
  <1>21. ASSUME ServiceUp PROVE OneTurn'
    BY <1>21 DEF ServiceUp, OneTurn
  <1> QED
    BY ServiceMoves, <1>1, <1>2, <1>3, <1>4, <1>5, <1>6, <1>7, <1>8, <1>9, <1>10, <1>11, <1>12, <1>13,
       <1>14, <1>15, <1>16, <1>17, <1>18, <1>19, <1>20, <1>21

\* Each call keeps its fields.
LEMMA ShapedKept ==
  ASSUME ProposalsTypeOK, OneTurn, \A p \in Calls : Shaped(p), ProposalsNext
  PROVE (\A p \in Calls : Shaped(p))'
  <1>1. ASSUME NEW o \in Calls, Begins(o) PROVE (\A p \in Calls : Shaped(p))'
    BY <1>1 DEF Begins, Shaped, Creates, Alters
  <1>2. ASSUME NEW o \in Calls, Enters(o) PROVE (\A p \in Calls : Shaped(p))'
    BY <1>2 DEF Enters, Shaped, Creates, Alters
  <1>3. ASSUME NEW o \in Calls, FindsExpired(o) PROVE (\A p \in Calls : Shaped(p))'
    BY <1>3 DEF FindsExpired, Shaped, Creates, Writes, Alters
  <1>4. ASSUME NEW o \in Calls, Decide(o) PROVE (\A p \in Calls : Shaped(p))'
    BY <1>4, GotoFields DEF Decide, auditVars, Shaped, Creates, Places, Writes, Alters
  <1>5. ASSUME NEW o \in Calls, WriteTemporary(o) PROVE (\A p \in Calls : Shaped(p))'
    BY <1>5 DEF WriteTemporary, auditVars, Shaped, Creates
  <1>6. ASSUME NEW o \in Calls, ReserveName(o) PROVE (\A p \in Calls : Shaped(p))'
    BY <1>6 DEF ReserveName, auditVars, Shaped, Creates
  <1>7. ASSUME NEW o \in Calls, Puts(o) PROVE (\A p \in Calls : Shaped(p))'
    BY <1>7 DEF Puts, Shaped, Creates, Alters
  <1>8. ASSUME NEW o \in Calls, Fails(o) PROVE (\A p \in Calls : Shaped(p))'
    BY <1>8 DEF Fails, Shaped, Creates, Alters, Writes
  <1>9. ASSUME NEW o \in Calls, AppendUnconfirmed(o) PROVE (\A p \in Calls : Shaped(p))'
    BY <1>9, GotoFields DEF AppendUnconfirmed, Shaped, Creates, Places, Alters
  <1>10. ASSUME NEW o \in Calls, Scans(o) PROVE (\A p \in Calls : Shaped(p))'
    BY <1>10 DEF Scans, Shaped, Creates, Alters
  <1>11. ASSUME NEW o \in Calls, AppendOutcome(o) PROVE (\A p \in Calls : Shaped(p))'
    BY <1>11, GotoFields DEF AppendOutcome, Shaped, Creates, Places, Writes, Alters
  <1>12. ASSUME NEW o \in Calls, RemoveJournal(o) PROVE (\A p \in Calls : Shaped(p))'
    BY <1>12, GotoFields DEF RemoveJournal, auditVars, Shaped, Creates, Places, Alters
  <1>13. ASSUME NEW o \in Calls, AuditFailure(o) PROVE (\A p \in Calls : Shaped(p))'
    BY <1>13, GotoFields DEF AuditFailure, Shaped, Creates, Places, Alters
  <1>14. ASSUME NEW o \in Calls, ReconcileOutcome(o) PROVE (\A p \in Calls : Shaped(p))'
    BY <1>14 DEF ReconcileOutcome, Shaped, Creates
  <1>15. ASSUME NEW o \in Calls, ReconcileMark(o) PROVE (\A p \in Calls : Shaped(p))'
    BY <1>15 DEF ReconcileMark, auditVars, Shaped, Creates
  <1>16. ASSUME NEW o \in Calls, ReconcileRemove(o) PROVE (\A p \in Calls : Shaped(p))'
    BY <1>16 DEF ReconcileRemove, auditVars, Shaped, Creates
  <1>17. ASSUME NEW o \in Calls, SettleAttempt(o) PROVE (\A p \in Calls : Shaped(p))'
    BY <1>17 DEF SettleAttempt, Shaped, Creates
  <1>18. ASSUME Stops PROVE (\A p \in Calls : Shaped(p))'
    BY <1>18 DEF Stops, Shaped, Writes
  <1>19. ASSUME Starts PROVE (\A p \in Calls : Shaped(p))'
    BY <1>19 DEF Starts, Shaped, Creates
  <1>20. ASSUME ReconcileRefuses PROVE (\A p \in Calls : Shaped(p))'
    BY <1>20 DEF ReconcileRefuses, auditVars, Shaped, Creates
  <1>21. ASSUME ServiceUp PROVE (\A p \in Calls : Shaped(p))'
    BY <1>21 DEF ServiceUp, auditVars, Shaped, Creates
  <1> QED
    BY ServiceMoves, <1>1, <1>2, <1>3, <1>4, <1>5, <1>6, <1>7, <1>8, <1>9, <1>10, <1>11, <1>12, <1>13,
       <1>14, <1>15, <1>16, <1>17, <1>18, <1>19, <1>20, <1>21

\* No other step changes what a mutation was decided against.
LEMMA DueKept ==
  ASSUME ProposalsTypeOK, OneTurn, \A p \in Calls : Shaped(p) /\ Due(p) /\ Effected(p),
         ProposalsNext
  PROVE (\A p \in Calls : Due(p))'
  <1>1. ASSUME NEW o \in Calls, Begins(o) PROVE (\A p \in Calls : Due(p))'
    BY <1>1 DEF Begins, Due, Effected, Stored, SameKey, Fresh
  <1>2. ASSUME NEW o \in Calls, Enters(o) PROVE (\A p \in Calls : Due(p))'
    BY <1>2 DEF Enters, ProposalsSwept, Due, Stored, SameKey, OneTurn, Turn, Alters
  <1>3. ASSUME NEW o \in Calls, FindsExpired(o) PROVE (\A p \in Calls : Due(p))'
    BY <1>3 DEF FindsExpired, Due, Stored, SameKey, Alters
  <1>4. ASSUME NEW o \in Calls, Decide(o) PROVE (\A p \in Calls : Due(p))'
    BY <1>4, GotoFields DEF Decide, fileVars, auditVars, Due, Stored, SameKey, Places, Writes,
       Alters
  <1>5. ASSUME NEW o \in Calls, WriteTemporary(o) PROVE (\A p \in Calls : Due(p))'
    BY <1>5 DEF WriteTemporary, Due, Stored, SameKey
  <1>6. ASSUME NEW o \in Calls, ReserveName(o) PROVE (\A p \in Calls : Due(p))'
    BY Domains, <1>6 DEF ReserveName, auditVars, Shaped, Due, Stored, SameKey, Creates, OneTurn,
       Turn
  <1>7. ASSUME NEW o \in Calls, Puts(o) PROVE (\A p \in Calls : Due(p))'
    BY <1>7 DEF Puts, Due, Stored, SameKey, OneTurn, Turn, Alters
  <1>8. ASSUME NEW o \in Calls, Fails(o) PROVE (\A p \in Calls : Due(p))'
    <2>1. o \in Stored => proposals'[o] = proposals[o]
      BY <1>8 DEF Fails, Due, Stored, SameKey
    <2>2. Stored' \subseteq Stored /\ \A p \in Stored : proposals'[p] = proposals[p]
      BY <1>8, <2>1 DEF Fails, Stored
    <2>3. /\ call'[o].pc \in {"fail", "unconfirmed"}
          /\ \A p \in Calls : call'[p].key = call[p].key /\ call'[p].tool = call[p].tool
          /\ \A p \in Calls \ {o} : call'[p] = call[p]
      BY <1>8 DEF Fails, Alters
    <2>4. \A p \in Calls : proposals[p] = "pending" => proposals'[p] = "pending"
      BY <2>2 DEF Stored
    <2>5. \A p \in Calls : call[p].target \in Calls /\ call[p].late \in Calls
      BY Domains DEF Records
    <2> QED
      BY <2>2, <2>3, <2>4, <2>5 DEF Due, Stored, SameKey
  <1>9. ASSUME NEW o \in Calls, AppendUnconfirmed(o) PROVE (\A p \in Calls : Due(p))'
    BY <1>9, GotoFields DEF AppendUnconfirmed, Append, fileVars, Due, Stored, SameKey, Places,
       Alters
  <1>10. ASSUME NEW o \in Calls, Scans(o) PROVE (\A p \in Calls : Due(p))'
    BY <1>10 DEF Scans, Due, Stored, SameKey, Alters
  <1>11. ASSUME NEW o \in Calls, AppendOutcome(o) PROVE (\A p \in Calls : Due(p))'
    BY <1>11, GotoFields DEF AppendOutcome, Append, fileVars, Due, Stored, SameKey, Places,
       Writes, Alters
  <1>12. ASSUME NEW o \in Calls, RemoveJournal(o) PROVE (\A p \in Calls : Due(p))'
    BY <1>12, GotoFields DEF RemoveJournal, Due, Stored, SameKey, Places, Alters
  <1>13. ASSUME NEW o \in Calls, AuditFailure(o) PROVE (\A p \in Calls : Due(p))'
    BY <1>13, GotoFields DEF AuditFailure, Append, fileVars, Due, Stored, SameKey, Places, Alters
  <1>14. ASSUME NEW o \in Calls, ReconcileOutcome(o) PROVE (\A p \in Calls : Due(p))'
    BY <1>14 DEF ReconcileOutcome, fileVars, Due, Stored, SameKey
  <1>15. ASSUME NEW o \in Calls, ReconcileMark(o) PROVE (\A p \in Calls : Due(p))'
    BY <1>15 DEF ReconcileMark, Due, Stored, SameKey
  <1>16. ASSUME NEW o \in Calls, ReconcileRemove(o) PROVE (\A p \in Calls : Due(p))'
    BY <1>16 DEF ReconcileRemove, Due, Stored, SameKey
  <1>17. ASSUME NEW o \in Calls, SettleAttempt(o) PROVE (\A p \in Calls : Due(p))'
    BY <1>17 DEF SettleAttempt, fileVars, Due, Stored, SameKey
  <1>18. ASSUME Stops PROVE (\A p \in Calls : Due(p))'
    BY <1>18 DEF Stops, Due
  <1>19. ASSUME Starts PROVE (\A p \in Calls : Due(p))'
    BY <1>19 DEF Starts, Due, OneTurn
  <1>20. ASSUME ReconcileRefuses PROVE (\A p \in Calls : Due(p))'
    BY <1>20 DEF ReconcileRefuses, fileVars, Due, Stored, SameKey
  <1>21. ASSUME ServiceUp PROVE (\A p \in Calls : Due(p))'
    BY <1>21 DEF ServiceUp, fileVars, Due, Stored, SameKey
  <1> QED
    BY ServiceMoves, <1>1, <1>2, <1>3, <1>4, <1>5, <1>6, <1>7, <1>8, <1>9, <1>10, <1>11, <1>12, <1>13,
       <1>14, <1>15, <1>16, <1>17, <1>18, <1>19, <1>20, <1>21

\* A call asks for the same thing to its end.
LEMMA AsksTheSame ==
  ASSUME ProposalsTypeOK, ProposalsNext
  PROVE \A p \in Calls : call[p].pc # "new" =>
          /\ call'[p].pc # "new" /\ call'[p].tool = call[p].tool
          /\ call'[p].key = call[p].key /\ call'[p].target = call[p].target
  <1> DEFINE Kept == \A p \in Calls : call[p].pc # "new" =>
                       /\ call'[p].pc # "new" /\ call'[p].tool = call[p].tool
                       /\ call'[p].key = call[p].key /\ call'[p].target = call[p].target
  <1>1. ASSUME NEW o \in Calls, Begins(o) PROVE Kept
    BY <1>1 DEF Begins
  <1>2. ASSUME NEW o \in Calls, Enters(o) PROVE Kept
    BY <1>2 DEF Enters, Alters
  <1>3. ASSUME NEW o \in Calls, FindsExpired(o) PROVE Kept
    BY <1>3 DEF FindsExpired, Alters
  <1>4. ASSUME NEW o \in Calls, Decide(o) PROVE Kept
    BY <1>4, GotoFields DEF Decide, Alters, Places, Writes
  <1>5. ASSUME NEW o \in Calls, WriteTemporary(o) PROVE Kept
    BY <1>5 DEF WriteTemporary
  <1>6. ASSUME NEW o \in Calls, ReserveName(o) PROVE Kept
    BY <1>6 DEF ReserveName
  <1>7. ASSUME NEW o \in Calls, Puts(o) PROVE Kept
    BY <1>7 DEF Puts, Alters
  <1>8. ASSUME NEW o \in Calls, Fails(o) PROVE Kept
    BY <1>8 DEF Fails, Alters
  <1>9. ASSUME NEW o \in Calls, AppendUnconfirmed(o) PROVE Kept
    BY <1>9, GotoFields DEF AppendUnconfirmed, Alters, Places
  <1>10. ASSUME NEW o \in Calls, Scans(o) PROVE Kept
    BY <1>10 DEF Scans, Alters
  <1>11. ASSUME NEW o \in Calls, AppendOutcome(o) PROVE Kept
    BY <1>11, GotoFields DEF AppendOutcome, Alters, Places, Writes
  <1>12. ASSUME NEW o \in Calls, RemoveJournal(o) PROVE Kept
    BY <1>12, GotoFields DEF RemoveJournal, Alters, Places
  <1>13. ASSUME NEW o \in Calls, AuditFailure(o) PROVE Kept
    BY <1>13, GotoFields DEF AuditFailure, Alters, Places
  <1>14. ASSUME NEW o \in Calls, ReconcileOutcome(o) PROVE Kept
    BY <1>14 DEF ReconcileOutcome
  <1>15. ASSUME NEW o \in Calls, ReconcileMark(o) PROVE Kept
    BY <1>15 DEF ReconcileMark
  <1>16. ASSUME NEW o \in Calls, ReconcileRemove(o) PROVE Kept
    BY <1>16 DEF ReconcileRemove
  <1>17. ASSUME NEW o \in Calls, SettleAttempt(o) PROVE Kept
    BY <1>17 DEF SettleAttempt
  <1>18. ASSUME Stops PROVE Kept
    BY <1>18 DEF Stops
  <1>19. ASSUME Starts PROVE Kept
    BY <1>19 DEF Starts
  <1>20. ASSUME ReconcileRefuses PROVE Kept
    BY <1>20 DEF ReconcileRefuses
  <1>21. ASSUME ServiceUp PROVE Kept
    BY <1>21 DEF ServiceUp
  <1> QED
    BY ServiceMoves, <1>1, <1>2, <1>3, <1>4, <1>5, <1>6, <1>7, <1>8, <1>9, <1>10, <1>11, <1>12, <1>13,
       <1>14, <1>15, <1>16, <1>17, <1>18, <1>19, <1>20, <1>21

\* A stored proposal stays, and so does its discarding.
LEMMA StoredGrows ==
  ASSUME ProposalsTypeOK, OneTurn, \A p \in Calls : Shaped(p) /\ Due(p) /\ Effected(p),
         ProposalsNext
  PROVE /\ effected \subseteq effected'
        /\ \A p \in Stored :
             /\ p \in Stored' /\ call'[p].key = call[p].key
             /\ proposals[p] = "discarded" => proposals'[p] = "discarded"
  <1> DEFINE Kept == /\ effected \subseteq effected'
                     /\ \A p \in Stored :
                          /\ p \in Stored' /\ call'[p].key = call[p].key
                          /\ proposals[p] = "discarded" => proposals'[p] = "discarded"
  <1>1. ASSUME NEW o \in Calls, Begins(o) PROVE Kept
    BY <1>1 DEF Begins, Effected, Stored, Fresh
  <1>2. ASSUME NEW o \in Calls, Enters(o) PROVE Kept
    BY <1>2 DEF Enters, ProposalsSwept, Stored, Alters
  <1>3. ASSUME NEW o \in Calls, FindsExpired(o) PROVE Kept
    BY <1>3 DEF FindsExpired, Stored, Alters
  <1>4. ASSUME NEW o \in Calls, Decide(o) PROVE Kept
    BY <1>4, GotoFields DEF Decide, fileVars, Stored, Places, Writes, Alters
  <1>5. ASSUME NEW o \in Calls, WriteTemporary(o) PROVE Kept
    BY <1>5 DEF WriteTemporary, Stored
  <1>6. ASSUME NEW o \in Calls, ReserveName(o) PROVE Kept
    BY Domains, <1>6 DEF ReserveName, Shaped, Due, Stored, SameKey, Creates
  <1>7. ASSUME NEW o \in Calls, Puts(o) PROVE Kept
    BY Domains, <1>7 DEF Puts, Shaped, Due, Stored, SameKey, Alters
  <1>8. ASSUME NEW o \in Calls, Fails(o) PROVE Kept
    BY <1>8 DEF Fails, Due, Stored, SameKey, Alters
  <1>9. ASSUME NEW o \in Calls, AppendUnconfirmed(o) PROVE Kept
    BY <1>9, GotoFields DEF AppendUnconfirmed, fileVars, Stored, Places, Alters
  <1>10. ASSUME NEW o \in Calls, Scans(o) PROVE Kept
    BY <1>10 DEF Scans, Stored, Alters
  <1>11. ASSUME NEW o \in Calls, AppendOutcome(o) PROVE Kept
    BY <1>11, GotoFields DEF AppendOutcome, fileVars, Stored, Places, Writes, Alters
  <1>12. ASSUME NEW o \in Calls, RemoveJournal(o) PROVE Kept
    BY <1>12, GotoFields DEF RemoveJournal, Stored, Places, Alters
  <1>13. ASSUME NEW o \in Calls, AuditFailure(o) PROVE Kept
    BY <1>13, GotoFields DEF AuditFailure, fileVars, Stored, Places, Alters
  <1>14. ASSUME NEW o \in Calls, ReconcileOutcome(o) PROVE Kept
    BY <1>14 DEF ReconcileOutcome, fileVars, Stored
  <1>15. ASSUME NEW o \in Calls, ReconcileMark(o) PROVE Kept
    BY <1>15 DEF ReconcileMark, Stored
  <1>16. ASSUME NEW o \in Calls, ReconcileRemove(o) PROVE Kept
    BY <1>16 DEF ReconcileRemove, Stored
  <1>17. ASSUME NEW o \in Calls, SettleAttempt(o) PROVE Kept
    BY <1>17 DEF SettleAttempt, fileVars, Stored
  <1>18. ASSUME Stops PROVE Kept
    BY <1>18 DEF Stops, Stored
  <1>19. ASSUME Starts PROVE Kept
    BY <1>19 DEF Starts, ProposalsSwept, Stored
  <1>20. ASSUME ReconcileRefuses PROVE Kept
    BY <1>20 DEF ReconcileRefuses, fileVars, Stored
  <1>21. ASSUME ServiceUp PROVE Kept
    BY <1>21 DEF ServiceUp, fileVars, Stored
  <1> QED
    BY ServiceMoves, <1>1, <1>2, <1>3, <1>4, <1>5, <1>6, <1>7, <1>8, <1>9, <1>10, <1>11, <1>12, <1>13,
       <1>14, <1>15, <1>16, <1>17, <1>18, <1>19, <1>20, <1>21

\* What a call asked for, once stored, stays stored.
LEMMA StoredKept ==
  ASSUME ProposalsTypeOK, OneTurn, \A p \in Calls : Shaped(p) /\ Due(p) /\ Effected(p),
         ProposalsNext
  PROVE \A c \in Calls : call[c].pc # "new" /\ IsStored(c) => IsStored(c)'
  <1> SUFFICES ASSUME NEW c \in Calls, call[c].pc # "new", IsStored(c) PROVE IsStored(c)'
    OBVIOUS
  <1>7. /\ call[c] \in Records /\ Stored \subseteq Calls /\ call[c].target \in Calls
        /\ proposals[call[c].target] = "discarded" => call[c].target \in Stored
    BY DEF ProposalsTypeOK, Records, Stored
  <1>1. /\ call'[c].tool = call[c].tool /\ call'[c].key = call[c].key
        /\ call'[c].target = call[c].target
    BY AsksTheSame
  <1>2. /\ effected \subseteq effected'
        /\ \A p \in Stored :
             /\ p \in Stored' /\ call'[p].key = call[p].key
             /\ proposals[p] = "discarded" => proposals'[p] = "discarded"
    BY StoredGrows
  <1>3. CASE c \in effected
    BY <1>2, <1>3 DEF IsStored
  <1>4. CASE call[c].tool = "propose" /\ \E p \in Stored : call[p].key = call[c].key
    BY <1>1, <1>2, <1>4 DEF IsStored
  <1>5. CASE call[c].tool = "discard" /\ proposals[call[c].target] = "discarded"
    BY <1>1, <1>2, <1>7 DEF IsStored
  <1> QED
    BY <1>3, <1>4, <1>5 DEF IsStored

\* How far each call has come.
LEMMA EffectedKept ==
  ASSUME ProposalsTypeOK, OneTurn,
         \A p \in Calls : Shaped(p) /\ Due(p) /\ Effected(p) /\ Filed(p), ProposalsNext
  PROVE (\A p \in Calls : Effected(p))'
  <1>s. \A c \in Calls : call[c].pc # "new" /\ IsStored(c) => IsStored(c)'
    BY StoredKept
  <1>1. ASSUME NEW o \in Calls, Begins(o) PROVE (\A p \in Calls : Effected(p))'
    BY <1>1, <1>s DEF Begins, Effected, Fresh
  <1>2. ASSUME NEW o \in Calls, Enters(o) PROVE (\A p \in Calls : Effected(p))'
    BY <1>2, <1>s DEF Enters, ProposalsSwept, Effected, Fresh, Alters
  <1>3. ASSUME NEW o \in Calls, FindsExpired(o) PROVE (\A p \in Calls : Effected(p))'
    BY <1>3, <1>s DEF FindsExpired, Effected, Fresh, Alters
  <1>4. ASSUME NEW o \in Calls, Decide(o) PROVE (\A p \in Calls : Effected(p))'
    BY <1>4, GotoFields, <1>s DEF Decide, fileVars, Effected, Fresh, Places, Writes, Alters,
       IsStored, SameKey
  <1>5. ASSUME NEW o \in Calls, WriteTemporary(o) PROVE (\A p \in Calls : Effected(p))'
    BY <1>5, <1>s DEF WriteTemporary, Effected
  <1>6. ASSUME NEW o \in Calls, ReserveName(o) PROVE (\A p \in Calls : Effected(p))'
    BY Domains, <1>6, <1>s DEF ReserveName, Shaped, Effected, Creates, Fresh, OneTurn
  <1>7. ASSUME NEW o \in Calls, Puts(o) PROVE (\A p \in Calls : Effected(p))'
    BY Domains, <1>7, <1>s DEF Puts, Shaped, Due, Effected, Fresh, Alters, IsStored
  <1>8. ASSUME NEW o \in Calls, Fails(o) PROVE (\A p \in Calls : Effected(p))'
    <2>1. /\ call'[o].pc \in {"fail", "unconfirmed"} /\ call[o].pc \in Writes
          /\ call'[o].pc = "unconfirmed" => call[o].pc = "mark"
          /\ \A p \in Calls \ {o} : call'[p] = call[p] /\ proposals'[p] = proposals[p]
          /\ effected' = effected /\ service' = service /\ (littered => littered')
      BY <1>8 DEF Fails, Alters
    <2>2. \A p \in Calls \ {o} : Effected(p)'
      BY <2>1, <1>s DEF Effected, Fresh
    <2>3. service = "up"
      BY <2>1 DEF OneTurn, Writes
    <2>4. proposals'[o] = "reserved" => littered' /\ call'[o].pc = "fail"
      BY <1>8, <2>1, <2>3 DEF Fails, Effected, Writes
    <2> QED
      BY <2>1, <2>2, <2>3, <2>4 DEF Effected, Fresh, Writes
  <1>9. ASSUME NEW o \in Calls, AppendUnconfirmed(o) PROVE (\A p \in Calls : Effected(p))'
    BY <1>9, GotoFields, <1>s DEF AppendUnconfirmed, fileVars, Effected, Fresh, Places, Alters
  <1>10. ASSUME NEW o \in Calls, Scans(o) PROVE (\A p \in Calls : Effected(p))'
    BY <1>10, <1>s DEF Scans, Effected, Fresh, Alters
  <1>11. ASSUME NEW o \in Calls, AppendOutcome(o) PROVE (\A p \in Calls : Effected(p))'
    BY <1>11, GotoFields, <1>s DEF AppendOutcome, fileVars, Effected, Fresh, Places, Writes,
       Alters
  <1>12. ASSUME NEW o \in Calls, RemoveJournal(o) PROVE (\A p \in Calls : Effected(p))'
    BY <1>12, GotoFields, <1>s DEF RemoveJournal, Effected, Fresh, Places, Alters
  <1>13. ASSUME NEW o \in Calls, AuditFailure(o) PROVE (\A p \in Calls : Effected(p))'
    BY <1>13, GotoFields, <1>s DEF AuditFailure, fileVars, Effected, Fresh, Places, Alters
  <1>14. ASSUME NEW o \in Calls, ReconcileOutcome(o) PROVE (\A p \in Calls : Effected(p))'
    BY <1>14, <1>s DEF ReconcileOutcome, fileVars, Effected
  <1>15. ASSUME NEW o \in Calls, ReconcileMark(o) PROVE (\A p \in Calls : Effected(p))'
    BY <1>15, <1>s DEF ReconcileMark, Effected
  <1>16. ASSUME NEW o \in Calls, ReconcileRemove(o) PROVE (\A p \in Calls : Effected(p))'
    BY <1>16, <1>s DEF ReconcileRemove, Effected
  <1>17. ASSUME NEW o \in Calls, SettleAttempt(o) PROVE (\A p \in Calls : Effected(p))'
    BY <1>17, <1>s DEF SettleAttempt, fileVars, Effected
  <1>18. ASSUME Stops PROVE (\A p \in Calls : Effected(p))'
    BY <1>18 DEF Stops, Effected, Fresh
  <1>19. ASSUME Starts PROVE (\A p \in Calls : Effected(p))'
    BY <1>19, <1>s DEF Starts, ProposalsSwept, Effected
  <1>20. ASSUME ReconcileRefuses PROVE (\A p \in Calls : Effected(p))'
    BY <1>20, <1>s DEF ReconcileRefuses, fileVars, Effected
  <1>21. ASSUME ServiceUp PROVE (\A p \in Calls : Effected(p))'
    BY <1>21, <1>s DEF ServiceUp, fileVars, Effected
  <1> QED
    BY ServiceMoves, <1>1, <1>2, <1>3, <1>4, <1>5, <1>6, <1>7, <1>8, <1>9, <1>10, <1>11, <1>12, <1>13,
       <1>14, <1>15, <1>16, <1>17, <1>18, <1>19, <1>20, <1>21

\* Each call's journal.
LEMMA FiledKept ==
  ASSUME ProposalsTypeOK, OneTurn,
         \A p \in Calls : Shaped(p) /\ Due(p) /\ Effected(p) /\ Filed(p) /\ Answered(p),
         ProposalsNext
  PROVE (\A p \in Calls : Filed(p))'
  <1>1. ASSUME NEW o \in Calls, Begins(o) PROVE (\A p \in Calls : Filed(p))'
    BY <1>1 DEF Begins, Filed, Fresh
  <1>2. ASSUME NEW o \in Calls, Enters(o) PROVE (\A p \in Calls : Filed(p))'
    BY <1>2 DEF Enters, Shaped, Filed, Fresh, Alters
  <1>3. ASSUME NEW o \in Calls, FindsExpired(o) PROVE (\A p \in Calls : Filed(p))'
    BY <1>3 DEF FindsExpired, Filed, Fresh, Alters
  <1>4. ASSUME NEW o \in Calls, Decide(o) PROVE (\A p \in Calls : Filed(p))'
    BY <1>4, GotoFields DEF Decide, fileVars, auditVars, Shaped, Filed, Fresh, Places, Writes,
       Alters
  <1>5. ASSUME NEW o \in Calls, WriteTemporary(o) PROVE (\A p \in Calls : Filed(p))'
    BY <1>5 DEF WriteTemporary, auditVars, Filed
  <1>6. ASSUME NEW o \in Calls, ReserveName(o) PROVE (\A p \in Calls : Filed(p))'
    BY Domains, <1>6 DEF ReserveName, auditVars, Shaped, Due, Effected, Filed, Fresh, Journals,
       OneTurn
  <1>7. ASSUME NEW o \in Calls, Puts(o) PROVE (\A p \in Calls : Filed(p))'
    BY Domains, <1>7 DEF Puts, Shaped, Due, Effected, Filed, Answered, Committing, Fresh,
       Journals, Alters
  <1>8. ASSUME NEW o \in Calls, Fails(o) PROVE (\A p \in Calls : Filed(p))'
    <2>1. /\ call'[o].pc \in {"fail", "unconfirmed"} /\ call[o].pc \in Writes
          /\ call'[o].pc = "unconfirmed" => call[o].pc = "mark"
          /\ call'[o].tool = call[o].tool /\ call'[o].target = call[o].target
          /\ \A p \in Calls \ {o} : call'[p] = call[p] /\ journals'[p] = journals[p]
          /\ effected' = effected /\ service' = service /\ (littered => littered')
          /\ outcome' = outcome
      BY <1>8 DEF Fails, Alters
    <2>2. \A p \in Calls \ {o} : Filed(p)'
      BY <2>1 DEF Filed
    <2>3. service = "up"
      BY <2>1 DEF OneTurn, Writes
    <2>4. CASE journals'[o] = journals[o] /\ ~(call[o].pc = "journal" /\ call[o].step = "rename")
      BY <2>1, <2>2, <2>3, <2>4 DEF Filed, Fresh, Writes
    <2>5. CASE /\ call[o].pc = "journal"
               /\ \/ journals'[o].phase = "none"
                  \/ journals'[o].phase = "reserved" /\ littered'
      <3>1. o \notin effected /\ call'[o].pc = "fail"
        BY <1>8, <2>5 DEF Effected, Fails
      <3> QED
        BY <2>1, <2>2, <2>3, <2>5, <3>1 DEF Filed, Fresh, Committing
    <2> QED
      BY <1>8, <2>4, <2>5 DEF Fails
  <1>9. ASSUME NEW o \in Calls, AppendUnconfirmed(o) PROVE (\A p \in Calls : Filed(p))'
    BY Domains, <1>9, GotoFields DEF AppendUnconfirmed, Append, fileVars, Filed, Fresh, Places,
       Alters
  <1>10. ASSUME NEW o \in Calls, Scans(o) PROVE (\A p \in Calls : Filed(p))'
    <2> SUFFICES ASSUME NEW p \in Calls PROVE Filed(p)'
      OBVIOUS
    <2>1. Alters(o) /\ call[o].pc = "read" /\ call'[o].pc \in {"settle", "fail"}
      BY <1>10 DEF Scans
    <2>2. UNCHANGED <<service, outcome, effected, littered>>
      BY <1>10 DEF Scans
    <2>3. CASE journals'[p] = journals[p]
      BY <2>1, <2>2, <2>3 DEF Filed, Alters, Fresh
    <2>4. CASE journals[p].phase = "reserved" /\ journals'[p] = NoJournal(p)
      BY <2>1, <2>2, <2>4 DEF Filed, Alters, NoJournal
    <2> QED
      BY <1>10, <2>3, <2>4 DEF Scans, JournalsSwept
  <1>11. ASSUME NEW o \in Calls, AppendOutcome(o) PROVE (\A p \in Calls : Filed(p))'
    BY Domains, <1>11, GotoFields DEF AppendOutcome, Append, fileVars, Shaped, Due, Effected,
       Filed, Answered, Fresh, OneTurn, Places, Writes, Turn, Alters
  <1>12. ASSUME NEW o \in Calls, RemoveJournal(o) PROVE (\A p \in Calls : Filed(p))'
    BY Domains, <1>12, GotoFields DEF RemoveJournal, NoJournal, auditVars, Shaped, Due, Effected,
       Filed, Answered, Fresh, OneTurn, Places, Turn, Alters
  <1>13. ASSUME NEW o \in Calls, AuditFailure(o) PROVE (\A p \in Calls : Filed(p))'
    BY Domains, <1>13, GotoFields DEF AuditFailure, Append, fileVars, Filed, Fresh, Places, Alters
  <1>14. ASSUME NEW o \in Calls, ReconcileOutcome(o) PROVE (\A p \in Calls : Filed(p))'
    BY <1>14 DEF ReconcileOutcome, fileVars, Filed
  <1>15. ASSUME NEW o \in Calls, ReconcileMark(o) PROVE (\A p \in Calls : Filed(p))'
    <2>1. /\ journals[o].phase \notin {"none", "reserved"} /\ outcome[o] # "none"
          /\ call[o].pc \in {"new", "over"}
      BY <1>15 DEF ReconcileMark, Journaled, Filed, OneTurn
    <2>2. UNCHANGED <<call, service, effected, outcome, littered>>
      BY <1>15 DEF ReconcileMark, auditVars
    <2>3. CASE journals' = journals
      BY <2>2, <2>3 DEF Filed
    <2>4. CASE journals' = [journals EXCEPT ![o].phase = "outcome_committed"]
      BY <2>1, <2>2, <2>4 DEF Filed
    <2> QED
      BY <1>15, <2>3, <2>4 DEF ReconcileMark
  <1>16. ASSUME NEW o \in Calls, ReconcileRemove(o) PROVE (\A p \in Calls : Filed(p))'
    BY <1>16 DEF ReconcileRemove, NoJournal, auditVars, Filed, OneTurn
  <1>17. ASSUME NEW o \in Calls, SettleAttempt(o) PROVE (\A p \in Calls : Filed(p))'
    BY <1>17 DEF SettleAttempt, fileVars, Filed
  <1>18. ASSUME Stops PROVE (\A p \in Calls : Filed(p))'
    BY <1>18 DEF Stops, Filed, Fresh
  <1>19. ASSUME Starts PROVE (\A p \in Calls : Filed(p))'
    BY <1>19 DEF Starts, ProposalsSwept, JournalsSwept, Filed, NoJournal
  <1>20. ASSUME ReconcileRefuses PROVE (\A p \in Calls : Filed(p))'
    BY <1>20 DEF ReconcileRefuses, fileVars, auditVars, Filed
  <1>21. ASSUME ServiceUp PROVE (\A p \in Calls : Filed(p))'
    BY <1>21 DEF ServiceUp, fileVars, auditVars, Filed
  <1> QED
    BY ServiceMoves, <1>1, <1>2, <1>3, <1>4, <1>5, <1>6, <1>7, <1>8, <1>9, <1>10, <1>11, <1>12, <1>13,
       <1>14, <1>15, <1>16, <1>17, <1>18, <1>19, <1>20, <1>21

\* Each call's outcome.
LEMMA AnsweredKept ==
  ASSUME ProposalsTypeOK, OneTurn,
         \A p \in Calls : Shaped(p) /\ Due(p) /\ Effected(p) /\ Filed(p) /\ Answered(p),
         ProposalsNext
  PROVE (\A p \in Calls : Answered(p))'
  <1>1. ASSUME NEW o \in Calls, Begins(o) PROVE (\A p \in Calls : Answered(p))'
    BY <1>1 DEF Begins, Answered, Unanswered
  <1>2. ASSUME NEW o \in Calls, Enters(o) PROVE (\A p \in Calls : Answered(p))'
    BY <1>2 DEF Enters, Answered, Unanswered, Alters
  <1>3. ASSUME NEW o \in Calls, FindsExpired(o) PROVE (\A p \in Calls : Answered(p))'
    BY <1>3 DEF FindsExpired, Answered, Unanswered, Turn, Alters
  <1>4. ASSUME NEW o \in Calls, Decide(o) PROVE (\A p \in Calls : Answered(p))'
    BY <1>4, GotoFields DEF Decide, fileVars, auditVars, Answered, Unanswered, Places, Writes,
       Turn, Alters
  <1>5. ASSUME NEW o \in Calls, WriteTemporary(o) PROVE (\A p \in Calls : Answered(p))'
    BY <1>5 DEF WriteTemporary, auditVars, Answered
  <1>6. ASSUME NEW o \in Calls, ReserveName(o) PROVE (\A p \in Calls : Answered(p))'
    BY Domains, <1>6 DEF ReserveName, auditVars, Answered, Journals
  <1>7. ASSUME NEW o \in Calls, Puts(o) PROVE (\A p \in Calls : Answered(p))'
    <2>1. \A p \in Calls : journals'[p].phase = "outcome_committed" =>
            journals[p].phase = "outcome_committed" \/ (p = o /\ call[o].pc = "done")
      BY Domains, <1>7 DEF Puts, Journals
    <2>2. /\ call[o].pc \in Writes /\ outcome' = outcome /\ Alters(o)
          /\ call'[o].pc \in {"load", "fail", "effect", "mark", "unconfirmed", "read", "remove"}
          /\ call'[o].pc = "remove" => call[o].pc = "done"
          /\ call'[o].pc \in Unanswered => call[o].pc \in Unanswered
      BY <1>7 DEF Puts, Unanswered, Turn
    <2> QED
      BY <2>1, <2>2 DEF Answered, Writes, Alters
  <1>8. ASSUME NEW o \in Calls, Fails(o) PROVE (\A p \in Calls : Answered(p))'
    BY <1>8 DEF Fails, Answered, Unanswered, NoJournal, Writes, Turn, Alters
  <1>9. ASSUME NEW o \in Calls, AppendUnconfirmed(o) PROVE (\A p \in Calls : Answered(p))'
    BY Domains, <1>9, GotoFields DEF AppendUnconfirmed, Append, fileVars, Answered, Unanswered,
       Places, Turn, Alters
  <1>10. ASSUME NEW o \in Calls, Scans(o) PROVE (\A p \in Calls : Answered(p))'
    <2>1. \A p \in Calls :
            journals'[p].phase = "outcome_committed" => journals[p].phase = "outcome_committed"
      BY <1>10 DEF Scans, JournalsSwept, NoJournal
    <2> QED
      BY <1>10, <2>1 DEF Scans, Answered, Unanswered, Alters
  <1>11. ASSUME NEW o \in Calls, AppendOutcome(o) PROVE (\A p \in Calls : Answered(p))'
    BY Domains, <1>11, GotoFields DEF AppendOutcome, Append, fileVars, Answered, Unanswered,
       Places, Writes, Turn, Alters
  <1>12. ASSUME NEW o \in Calls, RemoveJournal(o) PROVE (\A p \in Calls : Answered(p))'
    BY Domains, <1>12, GotoFields DEF RemoveJournal, auditVars, Answered, Unanswered, Places,
       Turn, Alters
  <1>13. ASSUME NEW o \in Calls, AuditFailure(o) PROVE (\A p \in Calls : Answered(p))'
    BY Domains, <1>13, GotoFields DEF AuditFailure, Append, fileVars, Answered, Unanswered,
       Places, Turn, Alters
  <1>14. ASSUME NEW o \in Calls, ReconcileOutcome(o) PROVE (\A p \in Calls : Answered(p))'
    BY <1>14 DEF ReconcileOutcome, fileVars, Answered, Unanswered, OneTurn, Turn, Filed, Fresh,
       Journaled
  <1>15. ASSUME NEW o \in Calls, ReconcileMark(o) PROVE (\A p \in Calls : Answered(p))'
    BY Domains, <1>15 DEF ReconcileMark, auditVars, Answered
  <1>16. ASSUME NEW o \in Calls, ReconcileRemove(o) PROVE (\A p \in Calls : Answered(p))'
    BY <1>16 DEF ReconcileRemove, auditVars, Answered
  <1>17. ASSUME NEW o \in Calls, SettleAttempt(o) PROVE (\A p \in Calls : Answered(p))'
    BY <1>17 DEF SettleAttempt, fileVars, Answered, Unanswered, OneTurn, Turn, Shaped
  <1>18. ASSUME Stops PROVE (\A p \in Calls : Answered(p))'
    BY <1>18 DEF Stops, Answered, Unanswered, Turn
  <1>19. ASSUME Starts PROVE (\A p \in Calls : Answered(p))'
    BY <1>19 DEF Starts, JournalsSwept, Answered, NoJournal
  <1>20. ASSUME ReconcileRefuses PROVE (\A p \in Calls : Answered(p))'
    BY <1>20 DEF ReconcileRefuses, fileVars, auditVars, Answered
  <1>21. ASSUME ServiceUp PROVE (\A p \in Calls : Answered(p))'
    BY <1>21 DEF ServiceUp, fileVars, auditVars, Answered
  <1> QED
    BY ServiceMoves, <1>1, <1>2, <1>3, <1>4, <1>5, <1>6, <1>7, <1>8, <1>9, <1>10, <1>11, <1>12, <1>13,
       <1>14, <1>15, <1>16, <1>17, <1>18, <1>19, <1>20, <1>21

\* Temporary files.
LEMMA WritersKept ==
  ASSUME ProposalsTypeOK, OneTurn,
         \A p \in Calls : Shaped(p) /\ Due(p) /\ Effected(p) /\ Filed(p) /\ Answered(p),
         TemporariesHaveWriters, ProposalsNext
  PROVE TemporariesHaveWriters'
  <1>1. ASSUME NEW o \in Calls, Begins(o) PROVE TemporariesHaveWriters'
    BY Domains, <1>1 DEF Begins, TemporariesHaveWriters, Temporary, Writes
  <1>2. ASSUME NEW o \in Calls, Enters(o) PROVE TemporariesHaveWriters'
    BY Domains, <1>2 DEF Enters, TemporariesHaveWriters, Temporary, OneTurn, Writes, Alters
  <1>3. ASSUME NEW o \in Calls, FindsExpired(o) PROVE TemporariesHaveWriters'
    BY Domains, <1>3 DEF FindsExpired, TemporariesHaveWriters, Temporary, Committed, Writes,
       Alters
  <1>4. ASSUME NEW o \in Calls, Decide(o) PROVE TemporariesHaveWriters'
    BY Domains, <1>4, GotoFields DEF Decide, fileVars, TemporariesHaveWriters, Temporary,
       Committed, Places, Writes, Alters
  <1>5. ASSUME NEW o \in Calls, WriteTemporary(o) PROVE TemporariesHaveWriters'
    BY Domains, <1>5 DEF WriteTemporary, TemporariesHaveWriters, Temporary, OneTurn, Writes
  <1>6. ASSUME NEW o \in Calls, ReserveName(o) PROVE TemporariesHaveWriters'
    BY <1>6 DEF ReserveName, TemporariesHaveWriters, Temporary, OneTurn, Writes
  <1>7. ASSUME NEW o \in Calls, Puts(o) PROVE TemporariesHaveWriters'
    BY Domains, <1>7 DEF Puts, TemporariesHaveWriters, Temporary, Directory, Committed, Alters
  <1>8. ASSUME NEW o \in Calls, Fails(o) PROVE TemporariesHaveWriters'
    <2>1. /\ \A p \in Calls \ {o} : call'[p] = call[p] /\ Temporary(p)' = Temporary(p)
          /\ service' = service /\ (littered => littered') /\ littered' \in BOOLEAN
      BY <1>8 DEF Fails, Alters, Temporary
    <2>2. service = "up"
      BY <1>8 DEF Fails, OneTurn, Writes
    <2>3. CASE littered'
      BY <2>1, <2>2, <2>3 DEF TemporariesHaveWriters
    <2>4. CASE ~littered'
      <3>1. temporaries' = temporaries \ {Temporary(o)}
        BY <1>8, <2>4 DEF Fails
      <3>2. \A t \in temporaries' : t[2] \in Calls \ {o} /\ t \in temporaries
        BY Domains, <2>1, <2>2, <2>4, <3>1 DEF TemporariesHaveWriters
      <3> QED
        BY <2>1, <2>2, <2>4, <3>2 DEF TemporariesHaveWriters
    <2> QED
      BY <2>1, <2>3, <2>4
  <1>9. ASSUME NEW o \in Calls, AppendUnconfirmed(o) PROVE TemporariesHaveWriters'
    BY Domains, <1>9, GotoFields DEF AppendUnconfirmed, fileVars, TemporariesHaveWriters,
       Temporary, Committed, Places, Writes, Alters
  <1>10. ASSUME NEW o \in Calls, Scans(o) PROVE TemporariesHaveWriters'
    BY Domains, <1>10 DEF Scans, JournalsSwept, TemporariesHaveWriters, Temporary, Committing,
       Committed, Writes, Alters
  <1>11. ASSUME NEW o \in Calls, AppendOutcome(o) PROVE TemporariesHaveWriters'
    BY Domains, <1>11, GotoFields DEF AppendOutcome, fileVars, TemporariesHaveWriters, Temporary,
       Committed, Places, Writes, Alters
  <1>12. ASSUME NEW o \in Calls, RemoveJournal(o) PROVE TemporariesHaveWriters'
    BY Domains, <1>12, GotoFields DEF RemoveJournal, TemporariesHaveWriters, Temporary, OneTurn,
       Places, Writes, Alters
  <1>13. ASSUME NEW o \in Calls, AuditFailure(o) PROVE TemporariesHaveWriters'
    BY Domains, <1>13, GotoFields DEF AuditFailure, fileVars, TemporariesHaveWriters, Temporary,
       Committed, Places, Writes, Alters
  <1>14. ASSUME NEW o \in Calls, ReconcileOutcome(o) PROVE TemporariesHaveWriters'
    BY <1>14 DEF ReconcileOutcome, fileVars, TemporariesHaveWriters, Committed
  <1>15. ASSUME NEW o \in Calls, ReconcileMark(o) PROVE TemporariesHaveWriters'
    <2>1. /\ o \in Calls /\ journals[o].phase \in Committing /\ Committed(journals[o])
          /\ \A p \in Calls \ {o} : journals'[p] = journals[p]
      BY Domains, <1>15 DEF ReconcileMark, Journaled, Filed, Journals, Committing, Phases
    <2>2. CASE <<"journals", o>> \in temporaries
      BY Domains, <1>15, <2>1 DEF ReconcileMark, TemporariesHaveWriters, Committed
    <2>3. CASE <<"journals", o>> \notin temporaries
      BY <1>15, <2>1, <2>3 DEF ReconcileMark, TemporariesHaveWriters, Committed
    <2> QED
      BY <2>2, <2>3
  <1>16. ASSUME NEW o \in Calls, ReconcileRemove(o) PROVE TemporariesHaveWriters'
    BY <1>16 DEF ReconcileRemove, TemporariesHaveWriters, Committing, Committed
  <1>17. ASSUME NEW o \in Calls, SettleAttempt(o) PROVE TemporariesHaveWriters'
    BY <1>17 DEF SettleAttempt, fileVars, TemporariesHaveWriters, Committed
  <1>18. ASSUME Stops PROVE TemporariesHaveWriters'
    BY <1>18 DEF Stops, TemporariesHaveWriters
  <1>19. ASSUME Starts PROVE TemporariesHaveWriters'
    BY <1>19 DEF Starts, TemporariesHaveWriters
  <1>20. ASSUME ReconcileRefuses PROVE TemporariesHaveWriters'
    BY <1>20 DEF ReconcileRefuses, TemporariesHaveWriters
  <1>21. ASSUME ServiceUp PROVE TemporariesHaveWriters'
    BY Domains, <1>21 DEF ServiceUp, fileVars, TemporariesHaveWriters, Committing, Journaled
  <1> QED
    BY ServiceMoves, <1>1, <1>2, <1>3, <1>4, <1>5, <1>6, <1>7, <1>8, <1>9, <1>10, <1>11, <1>12, <1>13,
       <1>14, <1>15, <1>16, <1>17, <1>18, <1>19, <1>20, <1>21

\* A proposal is only made when no other holds its key.
LEMMA OneKeyKept ==
  ASSUME ProposalsTypeOK, OneTurn, \A p \in Calls : Shaped(p) /\ Due(p) /\ Effected(p),
         OneProposalPerKey, ProposalsNext
  PROVE OneProposalPerKey'
  <1>1. ASSUME NEW o \in Calls, Begins(o) PROVE OneProposalPerKey'
    BY <1>1 DEF Begins, OneProposalPerKey, Effected, Stored, Fresh
  <1>2. ASSUME NEW o \in Calls, Enters(o) PROVE OneProposalPerKey'
    BY <1>2 DEF Enters, ProposalsSwept, OneProposalPerKey, Stored, Alters
  <1>3. ASSUME NEW o \in Calls, FindsExpired(o) PROVE OneProposalPerKey'
    BY <1>3 DEF FindsExpired, OneProposalPerKey, Stored, Alters
  <1>4. ASSUME NEW o \in Calls, Decide(o) PROVE OneProposalPerKey'
    BY <1>4, GotoFields DEF Decide, fileVars, auditVars, OneProposalPerKey, Stored, Places,
       Writes, Alters
  <1>5. ASSUME NEW o \in Calls, WriteTemporary(o) PROVE OneProposalPerKey'
    BY <1>5 DEF WriteTemporary, OneProposalPerKey, Stored
  <1>6. ASSUME NEW o \in Calls, ReserveName(o) PROVE OneProposalPerKey'
    BY Domains, <1>6 DEF ReserveName, OneProposalPerKey, Stored
  <1>7. ASSUME NEW o \in Calls, Puts(o) PROVE OneProposalPerKey'
    BY Domains, <1>7 DEF Puts, OneProposalPerKey, Shaped, Due, Stored, SameKey, Alters
  <1>8. ASSUME NEW o \in Calls, Fails(o) PROVE OneProposalPerKey'
    BY <1>8 DEF Fails, OneProposalPerKey, Stored, Alters
  <1>9. ASSUME NEW o \in Calls, AppendUnconfirmed(o) PROVE OneProposalPerKey'
    BY <1>9, GotoFields DEF AppendUnconfirmed, Append, fileVars, OneProposalPerKey, Stored,
       Places, Alters
  <1>10. ASSUME NEW o \in Calls, Scans(o) PROVE OneProposalPerKey'
    BY <1>10 DEF Scans, OneProposalPerKey, Stored, Alters
  <1>11. ASSUME NEW o \in Calls, AppendOutcome(o) PROVE OneProposalPerKey'
    BY <1>11, GotoFields DEF AppendOutcome, Append, fileVars, OneProposalPerKey, Stored, Places,
       Writes, Alters
  <1>12. ASSUME NEW o \in Calls, RemoveJournal(o) PROVE OneProposalPerKey'
    BY <1>12, GotoFields DEF RemoveJournal, OneProposalPerKey, Stored, Places, Alters
  <1>13. ASSUME NEW o \in Calls, AuditFailure(o) PROVE OneProposalPerKey'
    BY <1>13, GotoFields DEF AuditFailure, Append, fileVars, OneProposalPerKey, Stored, Places,
       Alters
  <1>14. ASSUME NEW o \in Calls, ReconcileOutcome(o) PROVE OneProposalPerKey'
    BY <1>14 DEF ReconcileOutcome, fileVars, OneProposalPerKey, Stored
  <1>15. ASSUME NEW o \in Calls, ReconcileMark(o) PROVE OneProposalPerKey'
    BY <1>15 DEF ReconcileMark, OneProposalPerKey, Stored
  <1>16. ASSUME NEW o \in Calls, ReconcileRemove(o) PROVE OneProposalPerKey'
    BY <1>16 DEF ReconcileRemove, OneProposalPerKey, Stored
  <1>17. ASSUME NEW o \in Calls, SettleAttempt(o) PROVE OneProposalPerKey'
    BY <1>17 DEF SettleAttempt, fileVars, OneProposalPerKey, Stored
  <1>18. ASSUME Stops PROVE OneProposalPerKey'
    BY <1>18 DEF Stops, OneProposalPerKey, Stored
  <1>19. ASSUME Starts PROVE OneProposalPerKey'
    BY <1>19 DEF Starts, ProposalsSwept, OneProposalPerKey, Stored
  <1>20. ASSUME ReconcileRefuses PROVE OneProposalPerKey'
    BY <1>20 DEF ReconcileRefuses, fileVars, OneProposalPerKey, Stored
  <1>21. ASSUME ServiceUp PROVE OneProposalPerKey'
    BY <1>21 DEF ServiceUp, fileVars, OneProposalPerKey, Stored
  <1> QED
    BY ServiceMoves, <1>1, <1>2, <1>3, <1>4, <1>5, <1>6, <1>7, <1>8, <1>9, <1>10, <1>11, <1>12, <1>13,
       <1>14, <1>15, <1>16, <1>17, <1>18, <1>19, <1>20, <1>21

\* The first outcome of a call whose attempt is logged is not refused.
LEMMA AppendAccepted ==
  ASSUME NEW o \in Calls, NEW result, outcome[o] = "none", o \in attempted, Append(o, result),
         NoRecordIsRefused
  PROVE NoRecordIsRefused'
BY DEF Append, Acceptable, NoRecordIsRefused

\* Every record a step offers is acceptable.
LEMMA NoneRefused ==
  ASSUME ProposalsTypeOK, OneTurn,
         \A p \in Calls : Shaped(p) /\ Due(p) /\ Effected(p) /\ Filed(p) /\ Answered(p),
         NoRecordIsRefused, ProposalsNext
  PROVE NoRecordIsRefused'
  <1>1. ASSUME NEW o \in Calls, Begins(o) PROVE NoRecordIsRefused'
    BY Domains, <1>1 DEF Begins, NoRecordIsRefused
  <1>2. ASSUME NEW o \in Calls, Enters(o) PROVE NoRecordIsRefused'
    BY <1>2 DEF Enters, NoRecordIsRefused
  <1>3. ASSUME NEW o \in Calls, FindsExpired(o) PROVE NoRecordIsRefused'
    BY <1>3 DEF FindsExpired, NoRecordIsRefused
  <1>4. ASSUME NEW o \in Calls, Decide(o) PROVE NoRecordIsRefused'
    BY <1>4 DEF Decide, auditVars, NoRecordIsRefused
  <1>5. ASSUME NEW o \in Calls, WriteTemporary(o) PROVE NoRecordIsRefused'
    BY <1>5 DEF WriteTemporary, auditVars, NoRecordIsRefused
  <1>6. ASSUME NEW o \in Calls, ReserveName(o) PROVE NoRecordIsRefused'
    BY <1>6 DEF ReserveName, auditVars, NoRecordIsRefused
  <1>7. ASSUME NEW o \in Calls, Puts(o) PROVE NoRecordIsRefused'
    BY Domains, <1>7 DEF Puts, NoRecordIsRefused
  <1>8. ASSUME NEW o \in Calls, Fails(o) PROVE NoRecordIsRefused'
    BY Domains, <1>8 DEF Fails, NoRecordIsRefused
  <1>9. ASSUME NEW o \in Calls, AppendUnconfirmed(o) PROVE NoRecordIsRefused'
    <2>1. PICK result : Append(o, result)
      BY <1>9 DEF AppendUnconfirmed
    <2> QED
      BY <1>9, <2>1, AppendAccepted DEF AppendUnconfirmed, Answered, Unanswered, Turn, Shaped
  <1>10. ASSUME NEW o \in Calls, Scans(o) PROVE NoRecordIsRefused'
    BY <1>10 DEF Scans, NoRecordIsRefused
  <1>11. ASSUME NEW o \in Calls, AppendOutcome(o) PROVE NoRecordIsRefused'
    <2>1. PICK result : Append(o, result)
      BY <1>11 DEF AppendOutcome
    <2> QED
      BY <1>11, <2>1, AppendAccepted DEF AppendOutcome, Answered, Unanswered, Shaped
  <1>12. ASSUME NEW o \in Calls, RemoveJournal(o) PROVE NoRecordIsRefused'
    BY <1>12 DEF RemoveJournal, auditVars, NoRecordIsRefused
  <1>13. ASSUME NEW o \in Calls, AuditFailure(o) PROVE NoRecordIsRefused'
    <2>1. CASE outcome[o] = "none"
      BY <1>13, <2>1, AppendAccepted DEF AuditFailure, Shaped
    <2>2. CASE outcome[o] # "none"
      BY <1>13, <2>2 DEF AuditFailure, Sound, NoRecordIsRefused
    <2> QED
      BY <2>1, <2>2
  <1>14. ASSUME NEW o \in Calls, ReconcileOutcome(o) PROVE NoRecordIsRefused'
    BY <1>14 DEF ReconcileOutcome, NoRecordIsRefused
  <1>15. ASSUME NEW o \in Calls, ReconcileMark(o) PROVE NoRecordIsRefused'
    BY <1>15 DEF ReconcileMark, auditVars, NoRecordIsRefused
  <1>16. ASSUME NEW o \in Calls, ReconcileRemove(o) PROVE NoRecordIsRefused'
    BY <1>16 DEF ReconcileRemove, auditVars, NoRecordIsRefused
  <1>17. ASSUME NEW o \in Calls, SettleAttempt(o) PROVE NoRecordIsRefused'
    BY <1>17 DEF SettleAttempt, NoRecordIsRefused
  <1>18. ASSUME Stops PROVE NoRecordIsRefused'
    BY <1>18 DEF Stops, NoRecordIsRefused
  <1>19. ASSUME Starts PROVE NoRecordIsRefused'
    BY <1>19 DEF Starts, NoRecordIsRefused
  <1>20. ASSUME ReconcileRefuses PROVE NoRecordIsRefused'
    BY <1>20 DEF ReconcileRefuses, auditVars, NoRecordIsRefused
  <1>21. ASSUME ServiceUp PROVE NoRecordIsRefused'
    BY <1>21 DEF ServiceUp, auditVars, NoRecordIsRefused
  <1> QED
    BY ServiceMoves, <1>1, <1>2, <1>3, <1>4, <1>5, <1>6, <1>7, <1>8, <1>9, <1>10, <1>11, <1>12, <1>13,
       <1>14, <1>15, <1>16, <1>17, <1>18, <1>19, <1>20, <1>21

\* An outcome other than a failure is only logged for what is stored.
LEMMA NewOutcomesHold ==
  ASSUME ProposalsTypeOK, OneTurn,
         \A p \in Calls : Shaped(p) /\ Due(p) /\ Effected(p) /\ Filed(p) /\ Answered(p),
         ProposalsNext
  PROVE \A c \in Calls : outcome'[c] \in {"success", "unconfirmed", "reconciled"} =>
          \/ outcome'[c] = outcome[c]
          \/ call[c].pc # "new" /\ (call[c].tool # "read" => IsStored(c))
  <1> DEFINE Kept == \A c \in Calls : outcome'[c] \in {"success", "unconfirmed", "reconciled"} =>
                       \/ outcome'[c] = outcome[c]
                       \/ call[c].pc # "new" /\ (call[c].tool # "read" => IsStored(c))
  <1>1. ASSUME NEW o \in Calls, Begins(o) PROVE Kept
    BY <1>1 DEF Begins
  <1>2. ASSUME NEW o \in Calls, Enters(o) PROVE Kept
    BY <1>2 DEF Enters
  <1>3. ASSUME NEW o \in Calls, FindsExpired(o) PROVE Kept
    BY <1>3 DEF FindsExpired
  <1>4. ASSUME NEW o \in Calls, Decide(o) PROVE Kept
    BY <1>4 DEF Decide, auditVars
  <1>5. ASSUME NEW o \in Calls, WriteTemporary(o) PROVE Kept
    BY <1>5 DEF WriteTemporary, auditVars
  <1>6. ASSUME NEW o \in Calls, ReserveName(o) PROVE Kept
    BY <1>6 DEF ReserveName, auditVars
  <1>7. ASSUME NEW o \in Calls, Puts(o) PROVE Kept
    BY <1>7 DEF Puts
  <1>8. ASSUME NEW o \in Calls, Fails(o) PROVE Kept
    BY <1>8 DEF Fails
  <1>9. ASSUME NEW o \in Calls, AppendUnconfirmed(o) PROVE Kept
    BY Domains, <1>9 DEF AppendUnconfirmed, Append, Effected, IsStored
  <1>10. ASSUME NEW o \in Calls, Scans(o) PROVE Kept
    BY <1>10 DEF Scans
  <1>11. ASSUME NEW o \in Calls, AppendOutcome(o) PROVE Kept
    BY Domains, <1>11 DEF AppendOutcome, Append, Effected
  <1>12. ASSUME NEW o \in Calls, RemoveJournal(o) PROVE Kept
    BY <1>12 DEF RemoveJournal, auditVars
  <1>13. ASSUME NEW o \in Calls, AuditFailure(o) PROVE Kept
    BY Domains, <1>13 DEF AuditFailure, Append
  <1>14. ASSUME NEW o \in Calls, ReconcileOutcome(o) PROVE Kept
    <2>1. /\ o \in Calls /\ call[o].pc # "new" /\ outcome' = [outcome EXCEPT ![o] =
               IF Committed(journals[o]) THEN "reconciled" ELSE "failure"]
          /\ journals[o].phase \notin {"none", "reserved"}
      BY <1>14 DEF ReconcileOutcome, Journaled, Filed, Fresh
    <2>2. call[o].tool # "read" /\ Committed(journals[o]) => IsStored(o)
      BY <2>1 DEF Filed, Shaped, Committed, IsStored, Stored
    <2> QED
      BY <2>1, <2>2
  <1>15. ASSUME NEW o \in Calls, ReconcileMark(o) PROVE Kept
    BY <1>15 DEF ReconcileMark, auditVars
  <1>16. ASSUME NEW o \in Calls, ReconcileRemove(o) PROVE Kept
    BY <1>16 DEF ReconcileRemove, auditVars
  <1>17. ASSUME NEW o \in Calls, SettleAttempt(o) PROVE Kept
    BY <1>17 DEF SettleAttempt
  <1>18. ASSUME Stops PROVE Kept
    BY <1>18 DEF Stops
  <1>19. ASSUME Starts PROVE Kept
    BY <1>19 DEF Starts
  <1>20. ASSUME ReconcileRefuses PROVE Kept
    BY <1>20 DEF ReconcileRefuses, auditVars
  <1>21. ASSUME ServiceUp PROVE Kept
    BY <1>21 DEF ServiceUp, auditVars
  <1> QED
    BY ServiceMoves, <1>1, <1>2, <1>3, <1>4, <1>5, <1>6, <1>7, <1>8, <1>9, <1>10, <1>11, <1>12, <1>13,
       <1>14, <1>15, <1>16, <1>17, <1>18, <1>19, <1>20, <1>21

\* An outcome that claims an effect stays with what is stored.
LEMMA CommittedKept ==
  ASSUME ProposalsTypeOK, OneTurn,
         \A p \in Calls : Shaped(p) /\ Due(p) /\ Effected(p) /\ Filed(p) /\ Answered(p),
         ProposalsNext, CommittedMeansEffect
  PROVE CommittedMeansEffect'
  <1> SUFFICES ASSUME NEW c \in Calls, outcome'[c] \in {"success", "unconfirmed", "reconciled"},
                      call'[c].tool # "read"
               PROVE IsStored(c)'
    BY DEF CommittedMeansEffect, IsStored
  <1>1. CASE call[c].pc = "new"
    BY <1>1, NewOutcomesHold DEF Answered, Unanswered
  <1>2. CASE call[c].pc # "new"
    <2>1. call[c].tool # "read"
      BY <1>2, AsksTheSame
    <2>2. IsStored(c)
      BY <2>1, NewOutcomesHold DEF CommittedMeansEffect, IsStored
    <2> QED
      BY <1>2, <2>2, StoredKept
  <1> QED
    BY <1>1, <1>2

\* One call at a time, a scan meets no scrap.
LEMMA OneOpenKept ==
  ASSUME ProposalsTypeOK, OneTurn,
         \A p \in Calls : Shaped(p) /\ Due(p) /\ Effected(p) /\ Filed(p) /\ Answered(p),
         TemporariesHaveWriters, AloneHolds, ~overlapped', ProposalsNext
  PROVE ~overlapped /\ OneOpen'
  <1>1. ASSUME NEW o \in Calls, Begins(o) PROVE ~overlapped /\ OneOpen'
    <2>1. /\ call[o].pc = "new" /\ Open = {} /\ ~overlapped
          /\ storeSick' = storeSick /\ littered' = littered
      BY <1>1 DEF Begins
    <2>2. Open' \subseteq {o}
      BY <1>1, <2>1 DEF Begins, Open
    <2> QED
      BY <2>1, <2>2 DEF AloneHolds, OneOpen
  <1>2. ASSUME NEW o \in Calls, Enters(o) PROVE ~overlapped /\ OneOpen'
    <2>1. service = "up" /\ ~overlapped
      BY <1>2 DEF Enters, OneTurn
    <2>2. ASSUME ~littered, inside = {} PROVE ScrapsIn("proposals") = {}
      <3>1. \A p \in Calls : proposals[p] # "reserved"
        BY <2>1, <2>2 DEF Effected, OneTurn, Turn
      <3>2. \A t \in temporaries : t[1] # "proposals"
        BY Domains, <2>1, <2>2 DEF TemporariesHaveWriters, Temporary, Directory, OneTurn, Turn
      <3> QED
        BY <3>1, <3>2 DEF ScrapsIn, Scraps
    <2>3. littered' \/ ~storeSick'
      BY <1>2, <2>1, <2>2 DEF Enters, AloneHolds, OneOpen
    <2>4. Open' \subseteq Open
      BY <1>2 DEF Enters, Open, Alters
    <2> QED
      BY <1>2, <2>1, <2>3, <2>4 DEF Enters, AloneHolds, OneOpen
  <1>3. ASSUME NEW o \in Calls, FindsExpired(o) PROVE ~overlapped /\ OneOpen'
    BY <1>3 DEF FindsExpired, AloneHolds, OneOpen, Open, Alters
  <1>4. ASSUME NEW o \in Calls, Decide(o) PROVE ~overlapped /\ OneOpen'
    BY <1>4, GotoFields DEF Decide, AloneHolds, OneOpen, Open, Places, Writes, Alters
  <1>5. ASSUME NEW o \in Calls, WriteTemporary(o) PROVE ~overlapped /\ OneOpen'
    BY <1>5 DEF WriteTemporary, AloneHolds, OneOpen, Open
  <1>6. ASSUME NEW o \in Calls, ReserveName(o) PROVE ~overlapped /\ OneOpen'
    BY <1>6 DEF ReserveName, AloneHolds, OneOpen, Open
  <1>7. ASSUME NEW o \in Calls, Puts(o) PROVE ~overlapped /\ OneOpen'
    BY <1>7 DEF Puts, AloneHolds, OneOpen, Open, Alters
  <1>8. ASSUME NEW o \in Calls, Fails(o) PROVE ~overlapped /\ OneOpen'
    BY <1>8 DEF Fails, AloneHolds, OneOpen, Open, Writes, Alters
  <1>9. ASSUME NEW o \in Calls, AppendUnconfirmed(o) PROVE ~overlapped /\ OneOpen'
    BY <1>9, GotoFields DEF AppendUnconfirmed, AloneHolds, OneOpen, Open, Places, Alters
  <1>10. ASSUME NEW o \in Calls, Scans(o) PROVE ~overlapped /\ OneOpen'
    BY Domains, <1>10 DEF Scans, JournalsSwept, AloneHolds, OneOpen, Open, OneTurn, Writes,
       Alters, ScrapsIn, Scraps, TemporariesHaveWriters, Filed
  <1>11. ASSUME NEW o \in Calls, AppendOutcome(o) PROVE ~overlapped /\ OneOpen'
    BY <1>11, GotoFields DEF AppendOutcome, AloneHolds, OneOpen, Open, Places, Writes, Alters
  <1>12. ASSUME NEW o \in Calls, RemoveJournal(o) PROVE ~overlapped /\ OneOpen'
    BY <1>12, GotoFields DEF RemoveJournal, AloneHolds, OneOpen, Open, Places, Alters
  <1>13. ASSUME NEW o \in Calls, AuditFailure(o) PROVE ~overlapped /\ OneOpen'
    BY <1>13, GotoFields DEF AuditFailure, AloneHolds, OneOpen, Open, Places, Alters
  <1>14. ASSUME NEW o \in Calls, ReconcileOutcome(o) PROVE ~overlapped /\ OneOpen'
    BY <1>14 DEF ReconcileOutcome, AloneHolds, OneOpen, Open
  <1>15. ASSUME NEW o \in Calls, ReconcileMark(o) PROVE ~overlapped /\ OneOpen'
    BY <1>15 DEF ReconcileMark, AloneHolds, OneOpen, Open
  <1>16. ASSUME NEW o \in Calls, ReconcileRemove(o) PROVE ~overlapped /\ OneOpen'
    BY <1>16 DEF ReconcileRemove, AloneHolds, OneOpen, Open
  <1>17. ASSUME NEW o \in Calls, SettleAttempt(o) PROVE ~overlapped /\ OneOpen'
    BY <1>17 DEF SettleAttempt, AloneHolds, OneOpen, Open
  <1>18. ASSUME Stops PROVE ~overlapped /\ OneOpen'
    BY <1>18 DEF Stops, OneOpen, Open
  <1>19. ASSUME Starts PROVE ~overlapped /\ OneOpen'
    BY <1>19 DEF Starts, AloneHolds, OneOpen, Open
  <1>20. ASSUME ReconcileRefuses PROVE ~overlapped /\ OneOpen'
    BY <1>20 DEF ReconcileRefuses, AloneHolds, OneOpen, Open
  <1>21. ASSUME ServiceUp PROVE ~overlapped /\ OneOpen'
    BY <1>21 DEF ServiceUp, AloneHolds, OneOpen, Open
  <1> QED
    BY ServiceMoves, <1>1, <1>2, <1>3, <1>4, <1>5, <1>6, <1>7, <1>8, <1>9, <1>10, <1>11, <1>12, <1>13,
       <1>14, <1>15, <1>16, <1>17, <1>18, <1>19, <1>20, <1>21

\* One call at a time, a failure is never logged for an effect.
LEMMA NoFalseFailureKept ==
  ASSUME ProposalsTypeOK, OneTurn,
         \A p \in Calls : Shaped(p) /\ Due(p) /\ Effected(p) /\ Filed(p) /\ Answered(p),
         TemporariesHaveWriters, AloneHolds, ~overlapped, ProposalsNext
  PROVE (\A p \in Calls : NoFalseFailure(p))'
  <1>1. ASSUME NEW o \in Calls, Begins(o) PROVE (\A p \in Calls : NoFalseFailure(p))'
    BY <1>1 DEF Begins, AloneHolds, NoFalseFailure
  <1>2. ASSUME NEW o \in Calls, Enters(o) PROVE (\A p \in Calls : NoFalseFailure(p))'
    BY <1>2 DEF Enters, AloneHolds, NoFalseFailure, Effected, Fresh, Alters
  <1>3. ASSUME NEW o \in Calls, FindsExpired(o) PROVE (\A p \in Calls : NoFalseFailure(p))'
    BY <1>3 DEF FindsExpired, AloneHolds, NoFalseFailure, Alters
  <1>4. ASSUME NEW o \in Calls, Decide(o) PROVE (\A p \in Calls : NoFalseFailure(p))'
    BY <1>4, GotoFields DEF Decide, fileVars, auditVars, AloneHolds, NoFalseFailure, OneOpen,
       Effected, Fresh, Places, Writes, Alters
  <1>5. ASSUME NEW o \in Calls, WriteTemporary(o) PROVE (\A p \in Calls : NoFalseFailure(p))'
    BY <1>5 DEF WriteTemporary, auditVars, AloneHolds, NoFalseFailure
  <1>6. ASSUME NEW o \in Calls, ReserveName(o) PROVE (\A p \in Calls : NoFalseFailure(p))'
    BY <1>6 DEF ReserveName, auditVars, AloneHolds, NoFalseFailure
  <1>7. ASSUME NEW o \in Calls, Puts(o) PROVE (\A p \in Calls : NoFalseFailure(p))'
    BY <1>7 DEF Puts, AloneHolds, NoFalseFailure, OneOpen, Effected, Answered, Fresh, Alters
  <1>8. ASSUME NEW o \in Calls, Fails(o) PROVE (\A p \in Calls : NoFalseFailure(p))'
    BY <1>8 DEF Fails, AloneHolds, NoFalseFailure, OneOpen, Effected, Answered, Fresh, Writes,
       Alters
  <1>9. ASSUME NEW o \in Calls, AppendUnconfirmed(o) PROVE (\A p \in Calls : NoFalseFailure(p))'
    BY Domains, <1>9, GotoFields DEF AppendUnconfirmed, Append, AloneHolds, NoFalseFailure,
       Places, Alters
  <1>10. ASSUME NEW o \in Calls, Scans(o) PROVE (\A p \in Calls : NoFalseFailure(p))'
    <2>1. CASE littered
      BY <1>10, <2>1 DEF Scans, NoFalseFailure
    <2>2. CASE ~littered
      <3>1. call[o].pc = "read" /\ ~storeSick /\ \A p \in Calls : call[p].pc \notin Writes
        BY <1>10, <2>2 DEF Scans, AloneHolds, OneOpen, Open, Writes
      <3>2. service = "up"
        BY <3>1 DEF OneTurn
      <3>3. \A p \in Calls : journals[p].phase # "reserved"
        BY <2>2, <3>1, <3>2 DEF Filed, Writes
      <3>4. ScrapsIn("journals") = {}
        BY Domains, <2>2, <3>1, <3>2, <3>3 DEF ScrapsIn, Scraps, TemporariesHaveWriters
      <3> QED
        BY <1>10, <2>2, <3>1, <3>4 DEF Scans, AloneHolds, NoFalseFailure, Alters
    <2> QED
      BY <2>1, <2>2
  <1>11. ASSUME NEW o \in Calls, AppendOutcome(o) PROVE (\A p \in Calls : NoFalseFailure(p))'
    BY Domains, <1>11, GotoFields DEF AppendOutcome, Append, AloneHolds, NoFalseFailure, Places,
       Writes, Alters
  <1>12. ASSUME NEW o \in Calls, RemoveJournal(o) PROVE (\A p \in Calls : NoFalseFailure(p))'
    BY <1>12, GotoFields DEF RemoveJournal, NoJournal, auditVars, AloneHolds, NoFalseFailure,
       OneOpen, Places, Alters
  <1>13. ASSUME NEW o \in Calls, AuditFailure(o) PROVE (\A p \in Calls : NoFalseFailure(p))'
    BY Domains, <1>13, GotoFields DEF AuditFailure, Append, AloneHolds, NoFalseFailure, Places,
       Alters
  <1>14. ASSUME NEW o \in Calls, ReconcileOutcome(o) PROVE (\A p \in Calls : NoFalseFailure(p))'
    BY <1>14 DEF ReconcileOutcome, AloneHolds, NoFalseFailure, Filed, Settleable
  <1>15. ASSUME NEW o \in Calls, ReconcileMark(o) PROVE (\A p \in Calls : NoFalseFailure(p))'
    BY <1>15 DEF ReconcileMark, auditVars, AloneHolds, NoFalseFailure
  <1>16. ASSUME NEW o \in Calls, ReconcileRemove(o) PROVE (\A p \in Calls : NoFalseFailure(p))'
    BY <1>16 DEF ReconcileRemove, auditVars, AloneHolds, NoFalseFailure
  <1>17. ASSUME NEW o \in Calls, SettleAttempt(o) PROVE (\A p \in Calls : NoFalseFailure(p))'
    BY <1>17 DEF SettleAttempt, AloneHolds, NoFalseFailure, Filed, Journaled, Committing
  <1>18. ASSUME Stops PROVE (\A p \in Calls : NoFalseFailure(p))'
    BY <1>18 DEF Stops, AloneHolds, NoFalseFailure
  <1>19. ASSUME Starts PROVE (\A p \in Calls : NoFalseFailure(p))'
    BY <1>19 DEF Starts, AloneHolds, NoFalseFailure
  <1>20. ASSUME ReconcileRefuses PROVE (\A p \in Calls : NoFalseFailure(p))'
    BY <1>20 DEF ReconcileRefuses, auditVars, AloneHolds, NoFalseFailure
  <1>21. ASSUME ServiceUp PROVE (\A p \in Calls : NoFalseFailure(p))'
    BY <1>21 DEF ServiceUp, auditVars, AloneHolds, NoFalseFailure
  <1> QED
    BY ServiceMoves, <1>1, <1>2, <1>3, <1>4, <1>5, <1>6, <1>7, <1>8, <1>9, <1>10, <1>11, <1>12, <1>13,
       <1>14, <1>15, <1>16, <1>17, <1>18, <1>19, <1>20, <1>21

\* One call at a time, nothing changes what an unsettled journal tells of.
LEMMA SettleableKept ==
  ASSUME ProposalsTypeOK, OneTurn,
         \A p \in Calls : Shaped(p) /\ Due(p) /\ Effected(p) /\ Filed(p) /\ Answered(p),
         TemporariesHaveWriters, AloneHolds, ~overlapped, ProposalsNext
  PROVE (\A p \in Calls : Settleable(p))'
  <1>1. ASSUME NEW o \in Calls, Begins(o) PROVE (\A p \in Calls : Settleable(p))'
    BY <1>1 DEF Begins, AloneHolds, Settleable, Open, Committed, Unchanged, Committing, Filed,
       Fresh
  <1>2. ASSUME NEW o \in Calls, Enters(o) PROVE (\A p \in Calls : Settleable(p))'
    <2>1. \A p \in Calls : outcome[p] = "none" => journals[p].phase \notin Committing
      BY <1>2 DEF Enters, AloneHolds, Settleable, OneOpen, Open, Committing, Filed, Fresh, OneTurn
    <2> QED
      BY <1>2, <2>1 DEF Enters, Settleable
  <1>3. ASSUME NEW o \in Calls, FindsExpired(o) PROVE (\A p \in Calls : Settleable(p))'
    BY <1>3 DEF FindsExpired, AloneHolds, Settleable, OneOpen, Open, Committing, Filed, Fresh,
       OneTurn
  <1>4. ASSUME NEW o \in Calls, Decide(o) PROVE (\A p \in Calls : Settleable(p))'
    BY <1>4 DEF Decide, fileVars, auditVars, AloneHolds, Settleable, OneOpen, Open, Committed,
       Unchanged, Committing, Filed, Fresh, OneTurn
  <1>5. ASSUME NEW o \in Calls, WriteTemporary(o) PROVE (\A p \in Calls : Settleable(p))'
    BY <1>5 DEF WriteTemporary, auditVars, AloneHolds, Settleable, Open, Committed, Unchanged
  <1>6. ASSUME NEW o \in Calls, ReserveName(o) PROVE (\A p \in Calls : Settleable(p))'
    <2>1. \A p \in Calls \ {o} : outcome[p] = "none" => journals[p].phase \notin Committing
      BY <1>6 DEF ReserveName, AloneHolds, OneOpen, Open, Settleable, Filed, Fresh, Committing,
         OneTurn, Writes
    <2>2. Alters(o) /\ call'[o].pc = call[o].pc
      BY <1>6, StepFields DEF ReserveName
    <2>3. \A p \in Calls \ {o} : Settleable(p)'
      BY Domains, <1>6, <2>1 DEF ReserveName, Settleable, auditVars
    <2>4. ASSUME call[o].pc = "journal" PROVE Settleable(o)'
      BY Domains, <1>6, <2>4 DEF ReserveName, Settleable, Committing, Journals
    <2>5. ASSUME call[o].pc = "effect" PROVE Settleable(o)'
      <3>1. o \notin effected /\ call[o].tool = "propose" /\ service = "up"
        BY <1>6, <2>5 DEF ReserveName, Effected, Shaped, Creates, OneTurn
      <3> QED
        BY Domains, <1>6, <2>5, <3>1 DEF ReserveName, Settleable
    <2> QED
      BY <1>6, <2>3, <2>4, <2>5 DEF ReserveName, Shaped, Creates
  <1>7. ASSUME NEW o \in Calls, Puts(o) PROVE (\A p \in Calls : Settleable(p))'
    BY Domains, <1>7 DEF Puts, AloneHolds, Settleable, OneOpen, Open, Committed, Unchanged,
       Committing, Effected, Filed, Fresh, Journals, OneTurn
  <1>8. ASSUME NEW o \in Calls, Fails(o) PROVE (\A p \in Calls : Settleable(p))'
    <2>1. \A p \in Calls \ {o} : outcome[p] = "none" => journals[p].phase \notin Committing
      BY <1>8 DEF Fails, AloneHolds, OneOpen, Open, Settleable, Filed, Fresh, Committing, OneTurn,
         Writes
    <2>2. \A p \in Calls \ {o} : Settleable(p)'
      BY <1>8, <2>1 DEF Fails, Settleable
    <2>3. ASSUME call[o].pc = "effect" PROVE Settleable(o)'
      <3>1. /\ o \notin effected /\ outcome[o] = "none" /\ journals[o].phase = "prepared"
            /\ Unchanged(journals[o]) \/ (call[o].tool = "propose" /\ proposals[o] = "reserved")
            /\ journals[o].target \in Calls
            /\ call[o].tool = "propose" => journals[o].target = o /\ journals[o].before = "none"
        BY Domains, <2>3 DEF AloneHolds, Settleable, Effected, Answered, Unanswered, Turn, Filed,
           Committing, Shaped, Journals
      <3>2. /\ journals'[o] = journals[o] /\ effected' = effected /\ outcome' = outcome
            /\ call'[o].pc = "fail" /\ call'[o].tool = call[o].tool
            /\ \A p \in Calls \ {o} : proposals'[p] = proposals[p]
            /\ \/ proposals'[o] = proposals[o]
               \/ call[o].tool = "propose" /\ proposals'[o] \in {"none", "reserved"}
        BY <1>8, <2>3 DEF Fails, Alters
      <3> QED
        BY <3>1, <3>2 DEF Settleable, Unchanged
    <2>4. ASSUME call[o].pc # "effect" PROVE Settleable(o)'
      <3>1. /\ \A p \in Calls : proposals'[p] = proposals[p]
            /\ effected' = effected /\ outcome' = outcome
            /\ call'[o].pc \in {"fail", "unconfirmed"} /\ call'[o].tool = call[o].tool
        BY <1>8, <2>4 DEF Fails, Alters
      <3>2. CASE journals'[o] = journals[o]
        <4>1. journals[o].target \in Calls
          BY Domains DEF Journals
        <4> QED
          BY <3>1, <3>2, <4>1 DEF AloneHolds, Settleable, Committed, Unchanged
      <3>3. CASE journals'[o].phase \in {"none", "reserved"}
        BY <3>3 DEF Settleable, Committing
      <3> QED
        BY <1>8, <3>2, <3>3 DEF Fails
    <2> QED
      BY <2>2, <2>3, <2>4
  <1>9. ASSUME NEW o \in Calls, AppendUnconfirmed(o) PROVE (\A p \in Calls : Settleable(p))'
    BY Domains, <1>9, GotoFields DEF AppendUnconfirmed, Append, fileVars, AloneHolds, Settleable,
       OneOpen, Open, Committed, Unchanged, Committing, Effected, Filed, Fresh, OneTurn, Places
  <1>10. ASSUME NEW o \in Calls, Scans(o) PROVE (\A p \in Calls : Settleable(p))'
    <2>1. \A p \in Calls :
            outcome[p] = "none" /\ journals[p].phase \in Committing => call[p].pc # "over" \/ service # "up"
      BY <1>10 DEF Scans, AloneHolds, Settleable, Open
    <2>2. \A p \in Calls : journals'[p] = journals[p] \/ journals'[p].phase = "none"
      BY <1>10 DEF Scans, JournalsSwept, NoJournal
    <2>3. /\ proposals' = proposals /\ effected' = effected /\ outcome' = outcome /\ service' = service
          /\ \A p \in Calls \ {o} : call'[p] = call[p]
          /\ call'[o].tool = call[o].tool
          /\ call'[o].pc # "over"
      BY <1>10 DEF Scans, Alters
    <2> QED
      BY <2>1, <2>2, <2>3 DEF AloneHolds, Settleable, Committed, Unchanged, Committing
  <1>11. ASSUME NEW o \in Calls, AppendOutcome(o) PROVE (\A p \in Calls : Settleable(p))'
    BY Domains, <1>11, GotoFields DEF AppendOutcome, Append, fileVars, AloneHolds, Settleable,
       OneOpen, Open, Committed, Unchanged, Committing, Effected, Filed, Fresh, OneTurn, Places
  <1>12. ASSUME NEW o \in Calls, RemoveJournal(o) PROVE (\A p \in Calls : Settleable(p))'
    <2>1. \A p \in Calls :
            outcome[p] = "none" /\ journals[p].phase \in Committing => call[p].pc # "over" \/ service # "up"
      BY <1>12 DEF RemoveJournal, AloneHolds, Settleable, Open
    <2>2. \A p \in Calls : journals'[p] = journals[p] \/ journals'[p].phase = "none"
      BY Domains, <1>12 DEF RemoveJournal, NoJournal
    <2>3. /\ proposals' = proposals /\ effected' = effected /\ outcome' = outcome /\ service' = service
          /\ \A p \in Calls \ {o} : call'[p] = call[p]
          /\ call'[o].tool = call[o].tool
          /\ outcome[o] # "none"
      BY <1>12, GotoFields DEF RemoveJournal, Alters, Places, auditVars, Answered
    <2> QED
      BY <2>1, <2>2, <2>3 DEF AloneHolds, Settleable, Committed, Unchanged, Committing
  <1>13. ASSUME NEW o \in Calls, AuditFailure(o) PROVE (\A p \in Calls : Settleable(p))'
    BY Domains, <1>13, GotoFields DEF AuditFailure, Append, fileVars, AloneHolds, Settleable,
       OneOpen, Open, Committed, Unchanged, Places, Alters
  <1>14. ASSUME NEW o \in Calls, ReconcileOutcome(o) PROVE (\A p \in Calls : Settleable(p))'
    BY <1>14 DEF ReconcileOutcome, fileVars, AloneHolds, Settleable, Committed, Unchanged
  <1>15. ASSUME NEW o \in Calls, ReconcileMark(o) PROVE (\A p \in Calls : Settleable(p))'
    BY Domains, <1>15 DEF ReconcileMark, auditVars, AloneHolds, Settleable, Committed, Unchanged
  <1>16. ASSUME NEW o \in Calls, ReconcileRemove(o) PROVE (\A p \in Calls : Settleable(p))'
    BY <1>16 DEF ReconcileRemove, auditVars, AloneHolds, Settleable, Committed, Unchanged
  <1>17. ASSUME NEW o \in Calls, SettleAttempt(o) PROVE (\A p \in Calls : Settleable(p))'
    BY <1>17 DEF SettleAttempt, fileVars, AloneHolds, Settleable, Committed, Unchanged
  <1>18. ASSUME Stops PROVE (\A p \in Calls : Settleable(p))'
    BY <1>18 DEF Stops, AloneHolds, Settleable, Committed, Unchanged
  <1>19. ASSUME Starts PROVE (\A p \in Calls : Settleable(p))'
    <2> SUFFICES ASSUME NEW p \in Calls, outcome[p] = "none", journals'[p].phase \in Committing
                 PROVE /\ p \in effected => Committed(journals[p])'
                       /\ p \notin effected =>
                            \/ Unchanged(journals[p])'
                            \/ call[p].tool = "propose" /\ proposals'[p] = "reserved"
      BY <1>19 DEF Starts, Settleable
    <2>1. journals'[p] = journals[p] /\ journals[p].target \in Calls
      BY <1>19 DEF Starts, JournalsSwept, NoJournal, Committing, Journals
    <2>2. /\ p \in effected => Committed(journals[p])
          /\ p \notin effected =>
               \/ Unchanged(journals[p])
               \/ call[p].tool = "propose" /\ proposals[p] = "reserved"
      BY <2>1 DEF AloneHolds, Settleable
    <2>3. /\ journals[p].after \in {"pending", "discarded"}
          /\ journals[p].before \in {"none", "pending"}
          /\ call[p].tool = "propose" => journals[p].target = p /\ journals[p].before = "none"
      BY <2>1 DEF Filed, Shaped, Committing
    <2>4. \A q \in Calls :
            proposals'[q] = proposals[q] \/ (proposals[q] = "reserved" /\ proposals'[q] = "none")
      BY <1>19 DEF Starts, ProposalsSwept
    <2> QED
      BY <2>1, <2>2, <2>3, <2>4 DEF Committed, Unchanged
  <1>20. ASSUME ReconcileRefuses PROVE (\A p \in Calls : Settleable(p))'
    BY <1>20 DEF ReconcileRefuses, fileVars, auditVars, AloneHolds, Settleable, Committed,
       Unchanged
  <1>21. ASSUME ServiceUp PROVE (\A p \in Calls : Settleable(p))'
    BY <1>21 DEF ServiceUp, fileVars, auditVars, Settleable, Committing, Journaled
  <1> QED
    BY ServiceMoves, <1>1, <1>2, <1>3, <1>4, <1>5, <1>6, <1>7, <1>8, <1>9, <1>10, <1>11, <1>12, <1>13,
       <1>14, <1>15, <1>16, <1>17, <1>18, <1>19, <1>20, <1>21

(***************************************************************************)
(* The invariant.                                                          *)
(***************************************************************************)
\* A set whose elements are all equal has at most one.
LEMMA AtMostOne ==
  ASSUME NEW S, \A p, q \in S : p = q
  PROVE Cardinality(S) <= 1
  <1>1. CASE S = {}
    BY <1>1, FS_EmptySet
  <1>2. CASE S # {}
    <2>1. PICK p : p \in S
      BY <1>2
    <2>2. S = {p}
      BY <2>1
    <2>3. Cardinality(S) = 1
      BY <2>2, FS_Singleton, Zenon
    <2> QED
      BY <2>3
  <1> QED
    BY <1>1, <1>2

\* The invariant holds at the start, after every step, and so always.
LEMMA InvInit ==
  ASSUME ProposalsInit
  PROVE Inv
  <1>1. Cardinality(inside) <= 1
    BY AtMostOne DEF ProposalsInit
  <1>2. ProposalsTypeOK
    <2>1. \A o \in Calls : NoCall(o) \in Records /\ NoJournal(o) \in Journals
      BY DEF NoCall, Records, Places, NoJournal, Journals, Phases, FileStates
    <2>2. call \in [Calls -> Records] /\ journals \in [Calls -> Journals]
      BY <2>1 DEF ProposalsInit
    <2>3. proposals \in [Calls -> FileStates] /\ outcome \in [Calls -> Results] /\ temporaries = {}
      BY DEF ProposalsInit, FileStates, Results
    <2>4. proposalFaults \in 0..MaxProposalFaults
      BY ProposalsAssumption DEF ProposalsInit
    <2> QED
      BY <1>1, <2>2, <2>3, <2>4 DEF ProposalsInit, ProposalsTypeOK, Records, Journals
  <1>3. OneTurn /\ TemporariesHaveWriters /\ OneProposalPerKey
    BY DEF ProposalsInit, OneTurn, Turn, TemporariesHaveWriters, OneProposalPerKey, Stored, NoCall
  <1>4. \A o \in Calls : Shaped(o) /\ Due(o) /\ Effected(o) /\ Filed(o) /\ Answered(o)
    BY DEF ProposalsInit, NoCall, NoJournal, Shaped, Due, Effected, Filed, Answered
  <1>5. CommittedMeansEffect /\ NoRecordIsRefused
    BY DEF ProposalsInit, CommittedMeansEffect, NoRecordIsRefused
  <1>6. AloneHolds
    BY DEF ProposalsInit, AloneHolds, OneOpen, Open, NoFalseFailure, Settleable, Committing,
       NoCall, NoJournal
  <1> QED
    BY <1>2, <1>3, <1>4, <1>5, <1>6 DEF Inv

\* The part about calls that never overlapped.
LEMMA AloneKept ==
  ASSUME Inv, ProposalsNext
  PROVE AloneHolds'
  <1> SUFFICES ASSUME ~overlapped'
               PROVE OneOpen' /\ (\A p \in Calls : NoFalseFailure(p) /\ Settleable(p))'
    BY DEF AloneHolds
  <1>1. ~overlapped /\ OneOpen'
    BY OneOpenKept DEF Inv
  <1>2. (\A p \in Calls : NoFalseFailure(p))'
    BY <1>1, NoFalseFailureKept DEF Inv
  <1>3. (\A p \in Calls : Settleable(p))'
    BY <1>1, SettleableKept DEF Inv
  <1> QED
    BY <1>1, <1>2, <1>3

\* The invariant is kept by every step,
LEMMA InvNext ==
  ASSUME Inv, ProposalsNext
  PROVE Inv'
  <1>1. OneTurn'
    BY OneTurnKept DEF Inv
  <1>2. ProposalsTypeOK'
    <2>1. Cardinality(inside') <= 1
      BY <1>1, AtMostOne DEF OneTurn
    <2> QED
      BY <2>1, TypesKept DEF Inv
  <1>3. /\ (\A o \in Calls : Shaped(o))' /\ (\A o \in Calls : Due(o))'
        /\ (\A o \in Calls : Effected(o))'
    BY ShapedKept, DueKept, EffectedKept DEF Inv
  <1>4. (\A o \in Calls : Filed(o))' /\ (\A o \in Calls : Answered(o))' /\ TemporariesHaveWriters'
    BY FiledKept, AnsweredKept, WritersKept DEF Inv
  <1>5. OneProposalPerKey' /\ CommittedMeansEffect' /\ NoRecordIsRefused'
    BY OneKeyKept, CommittedKept, NoneRefused DEF Inv
  <1> QED
    BY <1>1, <1>2, <1>3, <1>4, <1>5, AloneKept DEF Inv

\* and by every stutter,
LEMMA InvStutter ==
  ASSUME Inv, UNCHANGED proposalVars
  PROVE Inv'
BY DEF Inv, proposalVars, fileVars, auditVars, ProposalsTypeOK, OneTurn, TemporariesHaveWriters,
   Temporary, Committed, Unchanged, Shaped, Creates, Due, SameKey, Stored, Effected, IsStored,
   Filed, Answered, OneProposalPerKey, CommittedMeansEffect, NoRecordIsRefused, AloneHolds,
   OneOpen, Open, NoFalseFailure, Settleable

\* so it always holds.
LEMMA InvCorrect == ProposalsSpec => []Inv
  <1>1. Inv /\ [ProposalsNext]_proposalVars => Inv'
    BY InvNext, InvStutter
  <1> QED
    BY InvInit, <1>1, PTL DEF ProposalsSpec

(***************************************************************************)
(* What the proposal service keeps.                                        *)
(***************************************************************************)
\* The variables of the proposal service keep their types, and `serialized'
\* never has two calls in its turn.
THEOREM ProposalsTypesCorrect == ProposalsSpec => []ProposalsTypeOK
  <1>1. Inv => ProposalsTypeOK
    BY DEF Inv
  <1> QED
    BY <1>1, InvCorrect, PTL

\* One idempotency key never has two proposals: propose looks for the key and
\* writes the proposal in one turn, and no quarantine, crash or restart takes
\* a stored proposal away.
THEOREM OneProposalCorrect == ProposalsSpec => []OneProposalPerKey
  <1>1. Inv => OneProposalPerKey
    BY DEF Inv
  <1> QED
    BY <1>1, InvCorrect, PTL

\* The audit log tells the truth of every effect: an outcome that claims one is
\* only written when what the call asked for is stored, and, one call at a
\* time and on directories no failed write has littered, a failure only when the
\* call's effect was not put in place.
THEOREM AuditTrue == ProposalsSpec => []AuditTellsTheTruth
  <1>1. Inv => AuditTellsTheTruth
    BY DEF Inv, AuditTellsTheTruth, FailuresAreTrueAlone, FailureMeansNoEffect, AloneHolds,
       NoFalseFailure
  <1> QED
    BY <1>1, InvCorrect, PTL

\* The audit log is never offered a record it must refuse: every outcome finds
\* its attempt in the log and no other outcome, whatever fails, races or dies.
THEOREM NoRecordRefused == ProposalsSpec => []NoRecordIsRefused
  <1>1. Inv => NoRecordIsRefused
    BY DEF Inv
  <1> QED
    BY <1>1, InvCorrect, PTL

\* One call at a time, whatever write fails and wherever the process dies, the
\* next initialize can tell from the journal and the proposal what became of
\* every operation without an outcome.
THEOREM UnsettledDecidable == ProposalsSpec => []UnsettledIsDecidable
  <1>1. ASSUME Inv, ~overlapped, NEW o \in Journaled, outcome[o] = "none",
               journals[o].phase # "reserved", proposals[journals[o].target] # "reserved"
        PROVE ~Ambiguous(journals[o])
    <2>1. o \in Calls /\ journals[o].phase \in Phases
      BY <1>1, Domains DEF Inv, Journaled, Journals
    <2>2. journals[o].phase \in Committing
      BY <1>1, <2>1 DEF Inv, Answered, Journaled, Phases, Committing
    <2>3. CASE o \in effected
      BY <1>1, <2>1, <2>2, <2>3 DEF Inv, AloneHolds, Settleable, Ambiguous
    <2>4. CASE o \notin effected
      <3>1. journals[o].phase = "prepared"
        BY <1>1, <2>1, <2>2, <2>4 DEF Inv, Filed, Committing
      <3>2. call[o].tool = "propose" => journals[o].target = o
        BY <1>1, <2>1, <3>1 DEF Inv, Filed, Shaped
      <3> QED
        BY <1>1, <2>1, <2>2, <3>1, <3>2 DEF Inv, AloneHolds, Settleable, Ambiguous
    <2> QED
      BY <2>3, <2>4
  <1>2. Inv => UnsettledIsDecidable
    BY <1>1 DEF UnsettledIsDecidable
  <1> QED
    BY <1>2, InvCorrect, PTL
===============================================================================
