----------------------------- MODULE Phase3Journal -----------------------------
(***************************************************************************)
(* DurablePhase3Journal: instances of it, in processes of their own, share *)
(* one directory that holds one transaction.  A record is written into a   *)
(* pending directory and committed by an exclusive hard link to its         *)
(* version's name.  Every operation first scans the directory, and a scan   *)
(* that finds what it does not expect latches the instance unhealthy.       *)
(*                                                                         *)
(* A record's inode is its id.  What a record says is reduced to the id of  *)
(* its predecessor; legality between states is Phase3Contracts' business.   *)
(***************************************************************************)
EXTENDS Naturals, FiniteSets, SequencesExt

CONSTANTS
  Writers,        \* instances of the journal
  PendingLimit,   \* PHASE3_JOURNAL_LIMITS.pendingEntries
  FinalLimit,     \* PHASE3_JOURNAL_LIMITS.finalEntries
  MaxAppends      \* bound: pending directories ever made

ASSUME LimitsAssumption ==
  PendingLimit \in Nat /\ FinalLimit \in Nat /\ MaxAppends \in Nat

VARIABLES
  dir,         \* the directory: finals, pending dirs, those with record.json
  durable,     \* how many finals a sync of the root has covered
  made,        \* pending directories made so far
  at,          \* what each instance is at
  unhealthy,   \* the instances a scan has latched
  op,          \* the operation it scans for
  list,        \* the listing it works from
  job,         \* its append: the record's id, its predecessor, why it cleans up
  held,        \* the newest record its caller knows: [version, id]
  acked,       \* ids reported as committed
  refused      \* ids reported as not written

vars == <<dir, durable, made, at, unhealthy, op, list, job, held, acked, refused>>
disk == <<dir, durable>>
reports == <<acked, refused>>

RecordIds == 1..MaxAppends
NoId == 0
Nothing == [version |-> 0, id |-> NoId]
NoJob == [id |-> NoId, after |-> Nothing, why |-> "commit"]
EmptyDirectory == [finals |-> <<>>, dirs |-> {}, records |-> {}]

Ids(s) == {s[i].id : i \in DOMAIN s}
NewestId(s) == IF s = <<>> THEN NoId ELSE s[Len(s)].id
Newest(s) == [version |-> Len(s), id |-> NewestId(s)]

FinalRecord == [id : RecordIds, parent : RecordIds \union {NoId},
                expected : RecordIds \union {NoId}]
Known == [version : Nat, id : RecordIds \union {NoId}]
Directory == [finals : Seq(FinalRecord), dirs : SUBSET RecordIds,
              records : SUBSET RecordIds]
Places == {"down", "idle", "names", "pendings", "finals", "capacity", "mkdir",
  "absent", "write", "link", "sync", "unlink", "rmdir", "resync", "exists"}

\* The types of the variables.
TypeOK ==
  /\ dir \in Directory
  /\ durable \in 0..Len(dir.finals)
  /\ made \in 0..MaxAppends
  /\ at \in [Writers -> Places]
  /\ unhealthy \subseteq Writers
  /\ op \in [Writers -> {"none", "initialize", "load", "transition", "conflict"}]
  /\ list \in [Writers -> Directory]
  /\ job \in [Writers -> [id : RecordIds \union {NoId},
                          after : Known,
                          why : {"commit", "conflict", "failed"}]]
  /\ held \in [Writers -> Known]
  /\ acked \subseteq RecordIds
  /\ refused \subseteq RecordIds

Init ==
  /\ dir = EmptyDirectory
  /\ durable = 0
  /\ made = 0
  /\ at = [w \in Writers |-> "down"]
  /\ unhealthy = {}
  /\ op = [w \in Writers |-> "none"]
  /\ list = [w \in Writers |-> EmptyDirectory]
  /\ job = [w \in Writers |-> NoJob]
  /\ held = [w \in Writers |-> Nothing]
  /\ acked = {} /\ refused = {}

Goto(w, place) == at' = [at EXCEPT ![w] = place]
Change(d) == dir' = d /\ UNCHANGED durable
\* syncDirectory(root): the finals that are there now survive.
SyncRoot == durable' = Len(dir.finals) /\ UNCHANGED dir

-------------------------------------------------------------------------------
\* Operations begin with a scan (refresh, initialize), and need a healthy
\* instance, which initialize can restore.
Begin(w, operation) ==
  /\ Goto(w, "names")
  /\ op' = [op EXCEPT ![w] = operation]
  /\ UNCHANGED <<disk, made, unhealthy, list, job, held, reports>>

Initialize(w) ==
  /\ at[w] = "down" \/ (at[w] = "idle" /\ w \in unhealthy)
  /\ Begin(w, "initialize")
Load(w) == at[w] = "idle" /\ w \notin unhealthy /\ Begin(w, "load")
Transition(w) == at[w] = "idle" /\ w \notin unhealthy /\ Begin(w, "transition")

\* The operation is over.
Return(w) == Goto(w, "idle") /\ job' = [job EXCEPT ![w] = NoJob]
\* Its caller is told that its record, if it has one, was not written.
Refuse(w) == refused' = refused \union ({job[w].id} \ {NoId})

\* An append that has met a conflict removes its pending directory, unless that
\* is done already.
Abandon(w) ==
  IF job[w].why = "commit"
    THEN /\ job' = [job EXCEPT ![w].why = "conflict"]
         /\ Goto(w, "unlink") /\ UNCHANGED refused
    ELSE Refuse(w) /\ Return(w)

\* Mutant: the expected version is not compared with the newest one.
ContinuesUnchecked(w, sound) ==
  LET newest == Newest(list[w].finals) IN
  /\ unhealthy' = IF sound THEN unhealthy \ {w} ELSE unhealthy \union {w}
  /\ held' = IF sound /\ op[w] = "load" THEN [held EXCEPT ![w] = newest] ELSE held
  /\ \/ op[w] = "conflict" /\ Abandon(w)
     \/ /\ op[w] = "transition" /\ sound
        /\ Goto(w, "capacity")
        /\ job' = [job EXCEPT ![w].after = newest]
        /\ UNCHANGED refused
     \/ /\ op[w] = "transition" => ~sound
        /\ op[w] # "conflict"
        /\ Return(w) /\ UNCHANGED refused
  /\ list' = [list EXCEPT ![w] = EmptyDirectory]
  /\ op' = [op EXCEPT ![w] = "none"]

\* What the scan was for, once it has succeeded or latched the instance: a
\* transition goes on only if the caller knows the newest version.
Continue(w, sound) ==
  LET newest == Newest(list[w].finals) IN
  /\ unhealthy' = IF sound THEN unhealthy \ {w} ELSE unhealthy \union {w}
  /\ held' = IF sound /\ op[w] = "load" THEN [held EXCEPT ![w] = newest] ELSE held
  /\ \/ op[w] = "conflict" /\ Abandon(w)
     \/ /\ op[w] = "transition" /\ sound
        /\ newest.version = held[w].version
        /\ Goto(w, "capacity")
        /\ job' = [job EXCEPT ![w].after = newest]
        /\ UNCHANGED refused
     \/ /\ op[w] = "transition" => ~sound \/ newest.version # held[w].version
        /\ op[w] # "conflict"
        /\ Return(w) /\ UNCHANGED refused
  /\ list' = [list EXCEPT ![w] = EmptyDirectory]
  /\ op' = [op EXCEPT ![w] = "none"]

\* readdir of the root, with the limit on pending entries.
ScanNames(w) ==
  /\ at[w] = "names"
  /\ IF Cardinality(dir.dirs) > PendingLimit
       THEN Continue(w, FALSE)
       ELSE /\ Goto(w, "pendings")
            /\ list' = [list EXCEPT ![w] = [dir EXCEPT !.records = {}]]
            /\ UNCHANGED <<unhealthy, op, held, job, refused>>
  /\ UNCHANGED <<disk, made, acked>>

\* Mutant: the finals are listed after the pending entries were.
FinalsListedLate(w) ==
  /\ at[w] = "pendings"
  /\ list' = [list EXCEPT ![w].records = list[w].dirs \intersect dir.records,
                          ![w].finals = dir.finals]
  /\ Goto(w, "finals")
  /\ UNCHANGED <<disk, made, unhealthy, op, job, held, reports>>

\* validatePending: an entry that is gone, or empty, has no record.
ScanPendings(w) ==
  /\ at[w] = "pendings"
  /\ list' = [list EXCEPT ![w].records = list[w].dirs \intersect dir.records]
  /\ Goto(w, "finals")
  /\ UNCHANGED <<disk, made, unhealthy, op, job, held, reports>>

\* readFinal and buildHistories: a doubly linked record needs its pending
\* record, and records follow each other.
Sound(listing) ==
  /\ Len(listing.finals) <= FinalLimit
  /\ Ids(listing.finals) \intersect dir.records \subseteq listing.records
  /\ \A i \in DOMAIN listing.finals :
       listing.finals[i].parent = NewestId(SubSeq(listing.finals, 1, i - 1))

ScanFinals(w) ==
  /\ at[w] = "finals"
  /\ Continue(w, Sound(list[w]))
  /\ UNCHANGED <<disk, made, acked>>

-------------------------------------------------------------------------------
\* append.
Working(w, place) == at[w] = place /\ UNCHANGED <<unhealthy, op, list, held>>

\* Mutant: one pending directory too many.
CapacityOffByOne(w) ==
  /\ Working(w, "capacity")
  /\ IF job[w].after.version < FinalLimit /\ Cardinality(dir.dirs) <= PendingLimit
       THEN Goto(w, "mkdir") /\ UNCHANGED job
       ELSE Return(w)
  /\ UNCHANGED <<disk, made, reports>>

AssertCapacity(w) ==
  /\ Working(w, "capacity")
  /\ IF job[w].after.version < FinalLimit /\ Cardinality(dir.dirs) < PendingLimit
       THEN Goto(w, "mkdir") /\ UNCHANGED job
       ELSE Return(w)
  /\ UNCHANGED <<disk, made, reports>>

ReservePendingDirectory(w) ==
  /\ Working(w, "mkdir")
  /\ made < MaxAppends
  /\ made' = made + 1
  /\ Change([dir EXCEPT !.dirs = @ \union {made'}])
  /\ job' = [job EXCEPT ![w].id = made']
  /\ Goto(w, "absent")
  /\ UNCHANGED reports

ReserveFails(w) ==
  /\ Working(w, "mkdir")
  /\ Return(w)
  /\ UNCHANGED <<disk, made, reports>>

\* The name the record will be linked to is taken.
FinalExists(w) == Len(dir.finals) > job[w].after.version

\* assertFinalAbsent, before the record is written and before it is linked.
AssertFinalAbsent(w) ==
  /\ at[w] = "absent"
  /\ IF FinalExists(w)
       THEN Goto(w, "names") /\ op' = [op EXCEPT ![w] = "conflict"]
       ELSE /\ Goto(w, IF job[w].id \in dir.records THEN "link" ELSE "write")
            /\ UNCHANGED op
  /\ UNCHANGED <<disk, made, unhealthy, list, job, held, reports>>

\* record.json is created, written, synced, closed and compared.
WriteRecord(w) ==
  /\ Working(w, "write")
  /\ Change([dir EXCEPT !.records = @ \union {job[w].id}])
  /\ Goto(w, "absent")
  /\ UNCHANGED <<made, job, reports>>

\* Before the link, an error has the pending directory removed.
GivesUp(w) ==
  /\ job' = [job EXCEPT ![w].why = "failed"]
  /\ Goto(w, "unlink")
  /\ UNCHANGED <<made, reports>>

WriteFails(w) ==
  /\ Working(w, "write")
  /\ UNCHANGED disk \/ Change([dir EXCEPT !.records = @ \union {job[w].id}])
  /\ GivesUp(w)

\* Mutant: rename(2) takes the place of link(2).
LinkReplaces(w) ==
  /\ Working(w, "link")
  /\ Change([dir EXCEPT !.finals = Append(SubSeq(@, 1, job[w].after.version),
       [id |-> job[w].id, parent |-> job[w].after.id, expected |-> held[w].id])])
  /\ Goto(w, "sync")
  /\ UNCHANGED <<made, job, reports>>

\* The commit point.
Link(w) ==
  /\ Working(w, "link")
  /\ ~FinalExists(w)
  /\ Change([dir EXCEPT !.finals = Append(@,
       [id |-> job[w].id, parent |-> job[w].after.id, expected |-> held[w].id])])
  /\ Goto(w, "sync")
  /\ UNCHANGED <<made, job, reports>>

\* EEXIST, or another error of link(2).
LinkFails(w) == Working(w, "link") /\ UNCHANGED disk /\ GivesUp(w)

SyncCommit(w) ==
  /\ Working(w, "sync")
  /\ SyncRoot
  /\ Goto(w, "unlink")
  /\ UNCHANGED <<made, job, reports>>

\* removeOwnPending removes record.json and then its directory.
Unlink(w) ==
  /\ Working(w, "unlink")
  /\ Change([dir EXCEPT !.records = @ \ {job[w].id}])
  /\ Goto(w, "rmdir")
  /\ UNCHANGED <<made, job, reports>>

Rmdir(w) ==
  /\ Working(w, "rmdir")
  /\ Change([dir EXCEPT !.dirs = @ \ {job[w].id}])
  /\ IF job[w].why = "conflict"
       THEN Refuse(w) /\ Return(w)
       ELSE /\ Goto(w, IF job[w].why = "commit" THEN "resync" ELSE "exists")
            /\ UNCHANGED <<job, refused>>
  /\ UNCHANGED <<made, acked>>

SyncCleanup(w) ==
  /\ at[w] = "resync"
  /\ SyncRoot
  /\ acked' = acked \union {job[w].id}
  /\ held' = [held EXCEPT ![w] = [version |-> job[w].after.version + 1, id |-> job[w].id]]
  /\ Return(w)
  /\ UNCHANGED <<made, unhealthy, op, list, refused>>

\* Mutant: an error after the link is reported as any other.
CommitUnknownAsFailure(w) ==
  /\ at[w] \in {"sync", "unlink", "rmdir", "resync"}
  /\ UNCHANGED <<unhealthy, op, list, held>>
  /\ job[w].why = "commit"
  /\ Refuse(w) /\ Return(w)
  /\ UNCHANGED <<disk, made, acked>>

\* journal_commit_unknown: any error after the link.
CommitUnknown(w) ==
  /\ at[w] \in {"sync", "unlink", "rmdir", "resync"}
  /\ UNCHANGED <<unhealthy, op, list, held>>
  /\ job[w].why = "commit"
  /\ Return(w)
  /\ UNCHANGED <<disk, made, reports>>

\* The removal fails after an error before the link; its own error is raised.
RemovalFails(w) ==
  /\ at[w] \in {"unlink", "rmdir"}
  /\ UNCHANGED <<unhealthy, op, list, held>>
  /\ job[w].why # "commit"
  /\ Refuse(w)
  /\ Return(w)
  /\ UNCHANGED <<disk, made, acked>>

\* finalPathExists after a failure tells a conflict from an error.
ClassifyFailure(w) ==
  /\ at[w] = "exists"
  /\ IF FinalExists(w)
       THEN /\ Goto(w, "names") /\ op' = [op EXCEPT ![w] = "conflict"]
            /\ UNCHANGED <<job, refused>>
       ELSE Refuse(w) /\ Return(w) /\ UNCHANGED op
  /\ UNCHANGED <<disk, made, unhealthy, list, held, acked>>

-------------------------------------------------------------------------------
Stop(ws) ==
  /\ at' = [w \in Writers |-> IF w \in ws THEN "down" ELSE at[w]]
  /\ job' = [w \in Writers |-> IF w \in ws THEN NoJob ELSE job[w]]
  /\ held' = [w \in Writers |-> IF w \in ws THEN Nothing ELSE held[w]]
  /\ list' = [w \in Writers |-> IF w \in ws THEN EmptyDirectory ELSE list[w]]
  /\ op' = [w \in Writers |-> IF w \in ws THEN "none" ELSE op[w]]
  /\ unhealthy' = unhealthy \ ws
  /\ UNCHANGED <<made, reports>>

\* A process dies; the directory is as it left it.
Crash(w) == at[w] # "down" /\ Stop({w}) /\ UNCHANGED disk

\* Every process dies, and the newest finals that were not synced may be gone.
\* A directory's entries are taken to reach the disk in the order they were made.
PowerFailure ==
  /\ Stop(Writers)
  /\ \E n \in durable..Len(dir.finals) :
       dir' = [dir EXCEPT !.finals = SubSeq(@, 1, n)] /\ durable' = n

Scan(w) == ScanNames(w) \/ ScanPendings(w) \/ ScanFinals(w)
Step(w) ==
  \/ Scan(w) \/ AssertCapacity(w) \/ ReservePendingDirectory(w) \/ ReserveFails(w)
  \/ AssertFinalAbsent(w) \/ WriteRecord(w) \/ WriteFails(w) \/ Link(w) \/ LinkFails(w)
  \/ SyncCommit(w) \/ Unlink(w) \/ Rmdir(w) \/ SyncCleanup(w) \/ CommitUnknown(w)
  \/ RemovalFails(w) \/ ClassifyFailure(w)

Next ==
  \/ \E w \in Writers :
       Initialize(w) \/ Load(w) \/ Transition(w) \/ Step(w) \/ Crash(w)
  \/ PowerFailure

Spec == Init /\ [][Next]_vars

-------------------------------------------------------------------------------
\* What was reported as committed is on disk whatever a power failure leaves,
\* and what was reported as not written never is (append).
Durable == SubSeq(dir.finals, 1, durable)
ReportsAreTrue == acked \subseteq Ids(Durable) /\ refused \intersect Ids(dir.finals) = {}

\* Crashes and writers at work never look like tampering: a scan that runs
\* between their steps latches nobody (scan, validatePending, readFinal).
NoFalseAlarm == unhealthy = {}

\* Pending directories stay within their limit (assertCapacity).
PendingIsBounded == Cardinality(dir.dirs) <= PendingLimit

\* A record that a load has answered is there to stay (load, refresh).
ReadsAreDurable ==
  \A w \in Writers : at[w] = "idle" /\ held[w].id # NoId => held[w].id \in Ids(Durable)

\* The steps of the append implement the one-step journal.
Port == INSTANCE Phase3JournalPort WITH chain <- dir.finals
ImplementsPort == Port!PortSpec
===============================================================================
