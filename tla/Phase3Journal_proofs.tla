------------------------- MODULE Phase3Journal_proofs -------------------------
(***************************************************************************)
(* What the journal reports is true, and its steps implement the one-step  *)
(* journal, for any instances, limits and number of appends; the pending   *)
(* directories stay within their limit, and no scan takes an append, a     *)
(* crash or a loss of power for tampering, for any number of appends of    *)
(* one instance, or of any instances that stay below the limit together.   *)
(***************************************************************************)
EXTENDS Phase3Journal, SequenceTheorems, FiniteSetTheorems, TLAPS

\* The record is linked, and its writer knows.
Linked(w) ==
  \/ at[w] \in {"sync", "resync"}
  \/ at[w] \in {"unlink", "rmdir"} /\ job[w].why = "commit"

\* The append holds its pending directory.
Holds(w) ==
  \/ at[w] \in {"absent", "write", "link", "sync", "unlink", "rmdir", "resync", "exists"}
  \/ at[w] \in {"names", "pendings", "finals"} /\ op[w] = "conflict"

\* The append removes its pending directory after an error, or reports one.
Cleans(w) ==
  \/ at[w] \in {"unlink", "rmdir", "exists"}
  \/ at[w] \in {"names", "pendings", "finals"} /\ op[w] = "conflict"

\* The append works on the version after the one its caller knows.
Expecting(w) == at[w] \in {"capacity", "mkdir", "absent", "write", "link"}

\* What was read is the history up to there.
IsHistory(known) ==
  /\ known.version <= Len(dir.finals)
  /\ known.id = NewestId(SubSeq(dir.finals, 1, known.version))

\* What an instance knows is part of the history.
WriterReads(w) ==
  /\ IsHistory(held[w])
  /\ IsPrefix(list[w].finals, dir.finals)
  /\ Expecting(w) => job[w].after.version = held[w].version

\* Every id was made.
IdsAreMade ==
  /\ Ids(dir.finals) \subseteq 1..made
  /\ refused \subseteq 1..made
  /\ \A w \in Writers : job[w].id \in 0..made

\* An append's record is its own, and only an append that cleans up has failed.
HoldsItsOwn ==
  /\ \A w \in Writers : Holds(w) => job[w].id # NoId
  /\ \A w \in Writers : job[w].why # "commit" => Cleans(w)
  /\ \A w, v \in Writers : w # v /\ job[w].id # NoId => job[w].id # job[v].id

\* A record that is not linked is not in the directory, and not refused yet.
UnlinkedIsAbsent == \A w \in Writers :
  job[w].id # NoId /\ ~Linked(w) => job[w].id \notin Ids(dir.finals) \union refused

\* A linked record stays after its predecessor, and is not refused.
LinkedIsThere == \A w \in Writers : Linked(w) =>
  /\ job[w].after.version < Len(dir.finals)
  /\ dir.finals[job[w].after.version + 1].id = job[w].id
  /\ job[w].id \notin refused

ReadsAreHistory == \A w \in Writers : WriterReads(w)

\* The inductive invariant.
JournalInv ==
  /\ TypeOK /\ IdsAreMade /\ HoldsItsOwn /\ UnlinkedIsAbsent
  /\ LinkedIsThere /\ ReadsAreHistory /\ ReportsAreTrue

(***************************************************************************)
(* Types.                                                                  *)
(***************************************************************************)
Jobs == [id : RecordIds \union {NoId}, after : Known, why : {"commit", "conflict", "failed"}]

\* An instance that moves keeps the types.
LEMMA ReturnTypes ==
  ASSUME TypeOK, NEW w \in Writers, Return(w)
  PROVE at' \in [Writers -> Places] /\ job' \in [Writers -> Jobs]
BY DEF TypeOK, Return, Goto, Places, NoJob, Nothing, NoId, Known, Jobs

\* A refusal keeps the types.
LEMMA RefuseTypes ==
  ASSUME TypeOK, NEW w \in Writers, Refuse(w)
  PROVE refused' \subseteq RecordIds
BY DEF TypeOK, Refuse, NoId

\* The directory keeps its type, and its finals, when a pending directory changes.
LEMMA PendingTypes ==
  ASSUME TypeOK, NEW ids \in SUBSET RecordIds,
         \/ Change([dir EXCEPT !.dirs = ids])
         \/ Change([dir EXCEPT !.records = ids])
  PROVE dir' \in Directory /\ dir'.finals = dir.finals /\ durable' = durable
<1>1. dir \in Directory
  BY DEF TypeOK
<1>2. CASE Change([dir EXCEPT !.dirs = ids])
  BY <1>1, <1>2 DEF Directory, Change
<1>3. CASE Change([dir EXCEPT !.records = ids])
  BY <1>1, <1>3 DEF Directory, Change
<1> QED BY <1>2, <1>3

\* The directory's parts have their types.
LEMMA DirectoryTypes ==
  ASSUME TypeOK
  PROVE /\ dir.finals \in Seq(FinalRecord) /\ Len(dir.finals) \in Nat
        /\ dir.dirs \subseteq RecordIds /\ dir.records \subseteq RecordIds
        /\ durable \in 0..Len(dir.finals)
BY DEF TypeOK, Directory

\* The newest record of a history is known by its version and id.
LEMMA NewestTypes ==
  ASSUME NEW s \in Seq(FinalRecord)
  PROVE Newest(s) \in Known
<1>1. CASE s = <<>>
  BY <1>1 DEF Newest, NewestId, Known, NoId
<1>2. CASE s # <<>>
  <2>1. Len(s) \in Nat /\ s[Len(s)] \in FinalRecord
    BY <1>2
  <2>2. s[Len(s)].id \in RecordIds
    BY <2>1 DEF FinalRecord
  <2> QED BY <1>2, <2>1, <2>2 DEF Newest, NewestId, Known
<1> QED BY <1>1, <1>2

\* What follows a scan keeps the types.
LEMMA ContinueTypes ==
  ASSUME TypeOK, NEW w \in Writers, NEW sound \in BOOLEAN, Continue(w, sound)
  PROVE /\ at' \in [Writers -> Places] /\ job' \in [Writers -> Jobs]
        /\ unhealthy' \subseteq Writers
        /\ op' \in [Writers -> {"none", "initialize", "load", "transition", "conflict"}]
        /\ list' \in [Writers -> Directory]
        /\ held' \in [Writers -> Known]
        /\ refused' \subseteq RecordIds
<1> DEFINE newest == Newest(list[w].finals)
<1>1. newest \in Known
  <2>1. list[w].finals \in Seq(FinalRecord)
    BY DEF TypeOK, Directory
  <2> QED BY <2>1, NewestTypes
<1>2. unhealthy' \subseteq Writers /\ list' \in [Writers -> Directory]
      /\ op' \in [Writers -> {"none", "initialize", "load", "transition", "conflict"}]
  BY DEF TypeOK, Continue, EmptyDirectory, Directory
<1>3. held' \in [Writers -> Known]
  <2>1. held' = held \/ held' = [held EXCEPT ![w] = newest]
    BY DEF Continue
  <2> HIDE DEF newest
  <2> QED BY <1>1, <2>1 DEF TypeOK
<1>4. CASE Abandon(w)
  <2>1. CASE Refuse(w) /\ Return(w)
    BY <1>2, <1>3, <2>1, ReturnTypes, RefuseTypes
  <2>2. CASE job' = [job EXCEPT ![w].why = "conflict"] /\ Goto(w, "unlink")
             /\ UNCHANGED refused
    BY <1>2, <1>3, <2>2 DEF TypeOK, Goto, Places, Jobs
  <2> QED BY <1>4, <2>1, <2>2 DEF Abandon
<1>5. CASE Goto(w, "capacity") /\ job' = [job EXCEPT ![w].after = newest]
           /\ UNCHANGED refused
  <2> HIDE DEF newest
  <2> QED BY <1>1, <1>2, <1>3, <1>5 DEF TypeOK, Goto, Places, Jobs
<1>6. CASE Return(w) /\ UNCHANGED refused
  BY <1>2, <1>3, <1>6, ReturnTypes DEF TypeOK
<1> QED BY <1>4, <1>5, <1>6 DEF Continue

\* The link keeps the types.
LEMMA LinkTypes ==
  ASSUME TypeOK, HoldsItsOwn, NEW w \in Writers, Link(w)
  PROVE TypeOK'
<1> DEFINE r == [id |-> job[w].id, parent |-> job[w].after.id, expected |-> held[w].id]
           longer == Append(dir.finals, r)
<1>1. r \in FinalRecord
  <2>1. job[w] \in Jobs /\ held[w] \in Known
    BY DEF TypeOK, Jobs
  <2>2. job[w].id # NoId
    BY DEF HoldsItsOwn, Holds, Link, Working
  <2>3. job[w].id \in RecordIds /\ job[w].after \in Known
    BY <2>1, <2>2 DEF Jobs
  <2>4. job[w].after.id \in RecordIds \union {NoId} /\ held[w].id \in RecordIds \union {NoId}
    BY <2>1, <2>3 DEF Known
  <2> QED BY <2>3, <2>4 DEF FinalRecord
<1> HIDE DEF r
<1>2. longer \in Seq(FinalRecord) /\ Len(longer) = Len(dir.finals) + 1
  BY <1>1, DirectoryTypes
<1>3. dir' = [dir EXCEPT !.finals = longer] /\ durable' = durable
  BY DEF Link, Change, r
<1> HIDE DEF longer
<1>4. dir' \in Directory /\ durable' \in 0..Len(dir'.finals)
  <2>1. dir' \in Directory /\ dir'.finals = longer
    BY <1>2, <1>3, DirectoryTypes DEF TypeOK, Directory
  <2> QED BY <1>2, <1>3, <2>1, DirectoryTypes
<1> QED BY <1>4 DEF TypeOK, Link, Working, Goto, Places, reports

\* Processes that stop keep the types.
LEMMA StopTypes ==
  ASSUME TypeOK, NEW ws \in SUBSET Writers, Stop(ws)
  PROVE /\ at' \in [Writers -> Places] /\ job' \in [Writers -> Jobs]
        /\ unhealthy' \subseteq Writers
        /\ op' \in [Writers -> {"none", "initialize", "load", "transition", "conflict"}]
        /\ list' \in [Writers -> Directory]
        /\ held' \in [Writers -> Known]
<1>1. EmptyDirectory \in Directory
  BY DEF EmptyDirectory, Directory
<1>2. Nothing \in Known /\ NoJob \in Jobs
  BY DEF NoJob, Nothing, NoId, Known, Jobs
<1> QED BY <1>1, <1>2 DEF TypeOK, Stop, Places, Jobs

\* A power failure keeps the types.
LEMMA PowerFailureTypes ==
  ASSUME TypeOK, PowerFailure
  PROVE TypeOK'
<1>1. PICK n \in durable..Len(dir.finals) :
        dir' = [dir EXCEPT !.finals = SubSeq(dir.finals, 1, n)] /\ durable' = n
  BY DEF PowerFailure
<1> DEFINE kept == SubSeq(dir.finals, 1, n)
<1>2. n \in Nat /\ n <= Len(dir.finals)
  BY DirectoryTypes
<1>3. kept \in Seq(FinalRecord) /\ Len(kept) = n
  BY <1>2, DirectoryTypes
<1> HIDE DEF kept
<1>4. dir' = [dir EXCEPT !.finals = kept] /\ durable' = n
  BY <1>1 DEF kept
<1>5. dir' \in Directory /\ durable' \in 0..Len(dir'.finals)
  <2>1. dir' \in Directory /\ dir'.finals = kept
    BY <1>3, <1>4 DEF TypeOK, Directory
  <2> QED BY <1>2, <1>3, <1>4, <2>1
<1>6. Stop(Writers)
  BY DEF PowerFailure
<1> QED BY <1>5, <1>6, StopTypes DEF TypeOK, Stop, reports, Jobs

\* Every step keeps the types.
LEMMA TypeStep == JournalInv /\ [Next]_vars => TypeOK'
<1> SUFFICES ASSUME JournalInv, [Next]_vars PROVE TypeOK'
  OBVIOUS
<1>0. TypeOK /\ HoldsItsOwn
  BY DEF JournalInv
<1> USE <1>0, LimitsAssumption DEF TypeOK
<1>1. ASSUME NEW w \in Writers, Initialize(w) PROVE TypeOK'
  BY <1>1 DEF Initialize, Begin, Goto, Places, disk, reports
<1>2. ASSUME NEW w \in Writers, Load(w) PROVE TypeOK'
  BY <1>2 DEF Load, Begin, Goto, Places, disk, reports
<1>3. ASSUME NEW w \in Writers, Transition(w) PROVE TypeOK'
  BY <1>3 DEF Transition, Begin, Goto, Places, disk, reports
<1>4. ASSUME NEW w \in Writers, ScanNames(w) PROVE TypeOK'
  <2>1. CASE Continue(w, FALSE)
    BY <1>4, <2>1, ContinueTypes DEF ScanNames, disk, Jobs
  <2>2. CASE Goto(w, "pendings") /\ list' = [list EXCEPT ![w] = [dir EXCEPT !.records = {}]]
             /\ UNCHANGED <<unhealthy, op, held, job, refused>>
    <3>1. [dir EXCEPT !.records = {}] \in Directory
      BY DEF Directory
    <3> QED BY <1>4, <2>2, <3>1 DEF ScanNames, disk, Goto, Places
  <2> QED BY <1>4, <2>1, <2>2 DEF ScanNames
<1>5. ASSUME NEW w \in Writers, ScanPendings(w) PROVE TypeOK'
  BY <1>5 DEF ScanPendings, Goto, Places, disk, reports, Directory
<1>6. ASSUME NEW w \in Writers, ScanFinals(w) PROVE TypeOK'
  <2>1. Sound(list[w]) \in BOOLEAN
    BY DEF Sound
  <2> QED BY <1>6, <2>1, ContinueTypes DEF ScanFinals, disk, Jobs
<1>7. ASSUME NEW w \in Writers, AssertCapacity(w) PROVE TypeOK'
  <2>1. CASE Return(w)
    BY <1>7, <2>1, ReturnTypes DEF AssertCapacity, Working, disk, reports, Jobs
  <2>2. CASE Goto(w, "mkdir") /\ UNCHANGED job
    BY <1>7, <2>2 DEF AssertCapacity, Working, disk, reports, Goto, Places
  <2> QED BY <1>7, <2>1, <2>2 DEF AssertCapacity
<1>8. ASSUME NEW w \in Writers, ReservePendingDirectory(w) PROVE TypeOK'
  <2>1. made' \in RecordIds /\ made' \in 0..MaxAppends
    BY <1>8 DEF ReservePendingDirectory, RecordIds
  <2> DEFINE ids == dir.dirs \union {made'}
  <2>2. ids \subseteq RecordIds /\ Change([dir EXCEPT !.dirs = ids])
    BY <1>8, <2>1, DirectoryTypes DEF ReservePendingDirectory
  <2> HIDE DEF ids
  <2>3. dir' \in Directory /\ dir'.finals = dir.finals /\ durable' = durable
    BY <2>2, PendingTypes
  <2>4. at' \in [Writers -> Places] /\ job' \in [Writers -> Jobs]
    BY <1>8, <2>1 DEF ReservePendingDirectory, Goto, Places, Jobs
  <2> QED BY <1>8, <2>1, <2>3, <2>4 DEF ReservePendingDirectory, Working, reports, Jobs
<1>9. ASSUME NEW w \in Writers, ReserveFails(w) PROVE TypeOK'
  BY <1>9, ReturnTypes DEF ReserveFails, Working, disk, reports, Jobs
<1>10. ASSUME NEW w \in Writers, AssertFinalAbsent(w) PROVE TypeOK'
  BY <1>10 DEF AssertFinalAbsent, Goto, Places, disk, reports
<1>11. ASSUME NEW w \in Writers, WriteRecord(w) PROVE TypeOK'
  <2>1. job[w].id \in RecordIds
    BY <1>11 DEF HoldsItsOwn, Holds, WriteRecord, Working
  <2> DEFINE ids == dir.records \union {job[w].id}
  <2>2. ids \subseteq RecordIds /\ Change([dir EXCEPT !.records = ids])
    BY <1>11, <2>1, DirectoryTypes DEF WriteRecord
  <2> HIDE DEF ids
  <2>3. dir' \in Directory /\ dir'.finals = dir.finals /\ durable' = durable
    BY <2>2, PendingTypes
  <2> QED BY <1>11, <2>3 DEF WriteRecord, Working, Goto, Places, reports
<1>12. ASSUME NEW w \in Writers, WriteFails(w) PROVE TypeOK'
  <2>1. job[w].id \in RecordIds
    BY <1>12 DEF HoldsItsOwn, Holds, WriteFails, Working
  <2> DEFINE ids == dir.records \union {job[w].id}
  <2>2. ids \subseteq RecordIds /\ (UNCHANGED disk \/ Change([dir EXCEPT !.records = ids]))
    BY <1>12, <2>1, DirectoryTypes DEF WriteFails
  <2> HIDE DEF ids
  <2>3. dir' \in Directory /\ dir'.finals = dir.finals /\ durable' = durable
    BY <2>2, PendingTypes DEF disk
  <2> QED BY <1>12, <2>3 DEF WriteFails, GivesUp, Working, Goto, Places, reports
<1>13. ASSUME NEW w \in Writers, Link(w) PROVE TypeOK'
  BY <1>13, LinkTypes
<1>14. ASSUME NEW w \in Writers, LinkFails(w) PROVE TypeOK'
  BY <1>14 DEF LinkFails, GivesUp, Working, Goto, Places, disk, reports
<1>15. ASSUME NEW w \in Writers, SyncCommit(w) PROVE TypeOK'
  BY <1>15, DirectoryTypes DEF SyncCommit, SyncRoot, Working, Goto, Places, reports
<1>16. ASSUME NEW w \in Writers, Unlink(w) PROVE TypeOK'
  <2> DEFINE ids == dir.records \ {job[w].id}
  <2>1. ids \subseteq RecordIds /\ Change([dir EXCEPT !.records = ids])
    BY <1>16, DirectoryTypes DEF Unlink
  <2> HIDE DEF ids
  <2>2. dir' \in Directory /\ dir'.finals = dir.finals /\ durable' = durable
    BY <2>1, PendingTypes
  <2> QED BY <1>16, <2>2 DEF Unlink, Working, Goto, Places, reports
<1>17. ASSUME NEW w \in Writers, Rmdir(w) PROVE TypeOK'
  <2> DEFINE ids == dir.dirs \ {job[w].id}
  <2>1. ids \subseteq RecordIds /\ Change([dir EXCEPT !.dirs = ids])
    BY <1>17, DirectoryTypes DEF Rmdir
  <2> HIDE DEF ids
  <2>2. dir' \in Directory /\ dir'.finals = dir.finals /\ durable' = durable
    BY <2>1, PendingTypes
  <2>3. CASE Refuse(w) /\ Return(w)
    BY <1>17, <2>2, <2>3, RefuseTypes, ReturnTypes DEF Rmdir, Working, Jobs
  <2>4. CASE Goto(w, IF job[w].why = "commit" THEN "resync" ELSE "exists")
             /\ UNCHANGED <<job, refused>>
    BY <1>17, <2>2, <2>4 DEF Rmdir, Working, Goto, Places
  <2> QED BY <1>17, <2>3, <2>4 DEF Rmdir
<1>18. ASSUME NEW w \in Writers, SyncCleanup(w) PROVE TypeOK'
  <2>1. job[w].id \in RecordIds /\ job[w].after.version + 1 \in Nat
    BY <1>18 DEF HoldsItsOwn, Holds, SyncCleanup, Known
  <2>2. [version |-> job[w].after.version + 1, id |-> job[w].id] \in Known
    BY <2>1 DEF Known
  <2>3. held' \in [Writers -> Known] /\ acked' \subseteq RecordIds
    BY <1>18, <2>1, <2>2 DEF SyncCleanup
  <2>4. dir' = dir /\ durable' \in 0..Len(dir.finals)
    BY <1>18, DirectoryTypes DEF SyncCleanup, SyncRoot
  <2> QED BY <1>18, <2>3, <2>4, ReturnTypes DEF SyncCleanup, Jobs
<1>19. ASSUME NEW w \in Writers, CommitUnknown(w) PROVE TypeOK'
  BY <1>19, ReturnTypes DEF CommitUnknown, disk, reports, Jobs
<1>20. ASSUME NEW w \in Writers, RemovalFails(w) PROVE TypeOK'
  BY <1>20, ReturnTypes, RefuseTypes DEF RemovalFails, disk, Jobs
<1>21. ASSUME NEW w \in Writers, ClassifyFailure(w) PROVE TypeOK'
  <2>1. CASE Refuse(w) /\ Return(w) /\ UNCHANGED op
    BY <1>21, <2>1, ReturnTypes, RefuseTypes DEF ClassifyFailure, disk, Jobs
  <2>2. CASE Goto(w, "names") /\ op' = [op EXCEPT ![w] = "conflict"]
             /\ UNCHANGED <<job, refused>>
    BY <1>21, <2>2 DEF ClassifyFailure, disk, Goto, Places
  <2> QED BY <1>21, <2>1, <2>2 DEF ClassifyFailure
<1>22. ASSUME NEW w \in Writers, Crash(w) PROVE TypeOK'
  BY <1>22 DEF Crash, Stop, disk, reports, Places, NoJob, Nothing, NoId, Known,
     EmptyDirectory, Directory
<1>23. CASE PowerFailure
  BY <1>23, PowerFailureTypes
<1>24. CASE UNCHANGED vars
  BY <1>24 DEF vars
<1> QED BY <1>1, <1>2, <1>3, <1>4, <1>5, <1>6, <1>7, <1>8, <1>9, <1>10, <1>11, <1>12,
     <1>13, <1>14, <1>15, <1>16, <1>17, <1>18, <1>19, <1>20, <1>21, <1>22, <1>23, <1>24
  DEF Next, Step, Scan

(***************************************************************************)
(* Histories.                                                              *)
(***************************************************************************)
\* A shorter prefix has fewer ids.
LEMMA PrefixIds ==
  ASSUME NEW s \in Seq(FinalRecord), NEW m \in Nat, NEW n \in Nat, m <= n, n <= Len(s)
  PROVE /\ Ids(SubSeq(s, 1, m)) \subseteq Ids(SubSeq(s, 1, n))
        /\ Ids(SubSeq(s, 1, n)) \subseteq Ids(s)
<1>1. /\ Len(SubSeq(s, 1, m)) = m /\ \A i \in 1..m : SubSeq(s, 1, m)[i] = s[i]
      /\ Len(SubSeq(s, 1, n)) = n /\ \A i \in 1..n : SubSeq(s, 1, n)[i] = s[i]
  OBVIOUS
<1>2. /\ DOMAIN SubSeq(s, 1, m) = 1..m /\ DOMAIN SubSeq(s, 1, n) = 1..n
      /\ DOMAIN s = 1..Len(s)
  BY <1>1
<1>3. Ids(SubSeq(s, 1, m)) = {s[i].id : i \in 1..m}
  BY <1>1, <1>2 DEF Ids
<1>4. Ids(SubSeq(s, 1, n)) = {s[i].id : i \in 1..n}
  BY <1>1, <1>2 DEF Ids
<1> QED BY <1>2, <1>3, <1>4 DEF Ids

\* The whole is its longest prefix.
LEMMA WholePrefix ==
  ASSUME NEW s \in Seq(FinalRecord)
  PROVE SubSeq(s, 1, Len(s)) = s
OBVIOUS

\* A prefix of a prefix is a prefix.
LEMMA PrefixOfPrefix ==
  ASSUME NEW s \in Seq(FinalRecord), NEW m \in Nat, NEW n \in Nat, m <= n, n <= Len(s)
  PROVE SubSeq(SubSeq(s, 1, n), 1, m) = SubSeq(s, 1, m)
OBVIOUS

\* One record more has one id more, and the history is what it was.
LEMMA LongerHistory ==
  ASSUME NEW s \in Seq(FinalRecord), NEW r \in FinalRecord
  PROVE /\ Ids(Append(s, r)) = Ids(s) \union {r.id}
        /\ Len(Append(s, r)) = Len(s) + 1
        /\ Append(s, r)[Len(s) + 1] = r
        /\ \A i \in 1..Len(s) : Append(s, r)[i] = s[i]
        /\ \A n \in 0..Len(s) : SubSeq(Append(s, r), 1, n) = SubSeq(s, 1, n)
<1>1. /\ Len(Append(s, r)) = Len(s) + 1
      /\ Append(s, r)[Len(s) + 1] = r
      /\ \A i \in 1..Len(s) : Append(s, r)[i] = s[i]
      /\ DOMAIN Append(s, r) = 1..(Len(s) + 1)
      /\ DOMAIN s = 1..Len(s)
  OBVIOUS
<1>2. 1..(Len(s) + 1) = 1..Len(s) \union {Len(s) + 1}
  OBVIOUS
<1>3. Ids(Append(s, r)) = Ids(s) \union {r.id}
  BY <1>1, <1>2 DEF Ids
<1>4. \A n \in 0..Len(s) : SubSeq(Append(s, r), 1, n) = SubSeq(s, 1, n)
  OBVIOUS
<1> QED BY <1>1, <1>3, <1>4

\* A prefix's newest id is the id of its last record.
LEMMA IdOfPrefix ==
  ASSUME NEW s \in Seq(FinalRecord), NEW n \in Nat, n < Len(s)
  PROVE n + 1 <= Len(s) /\ NewestId(SubSeq(s, 1, n + 1)) = s[n + 1].id
<1> DEFINE p == SubSeq(s, 1, n + 1)
<1>1. n + 1 <= Len(s) /\ Len(p) = n + 1 /\ p[n + 1] = s[n + 1]
  OBVIOUS
<1>2. p # <<>>
  BY <1>1
<1> QED BY <1>1, <1>2 DEF NewestId

\* A final's id is one of the ids.
LEMMA IdAt ==
  ASSUME NEW s \in Seq(FinalRecord), NEW i \in 1..Len(s)
  PROVE s[i].id \in Ids(s)
BY DEF Ids

(***************************************************************************)
(* The kinds of steps.  All but the link and a power failure are quiet: one *)
(* writer moves and the finals stay.                                       *)
(***************************************************************************)
Only(w) == \A v \in Writers \ {w} :
  /\ at'[v] = at[v] /\ op'[v] = op[v] /\ list'[v] = list[v]
  /\ job'[v] = job[v] /\ held'[v] = held[v]

Quiet(w) ==
  /\ Only(w)
  /\ dir'.finals = dir.finals
  /\ made <= made'
  /\ job'[w].id \in {NoId, job[w].id} \union (made + 1)..made'
  /\ acked' \subseteq Ids(Durable')
  /\ \/ refused' = refused
     \/ /\ refused' = refused \union ({job[w].id} \ {NoId})
        /\ ~Linked(w) /\ job'[w].id = NoId
  /\ Holds(w)' => job'[w].id # NoId
  /\ job'[w].why # "commit" => Cleans(w)'
  /\ Linked(w)' => /\ Linked(w) /\ job'[w].id = job[w].id
                   /\ job'[w].after.version = job[w].after.version
  /\ job'[w].id # NoId /\ ~Linked(w)' => ~Linked(w)
  /\ WriterReads(w)'

\* A quiet step keeps the invariant.
LEMMA QuietStep ==
  ASSUME JournalInv, TypeOK', NEW w \in Writers, Quiet(w)
  PROVE JournalInv'
<1>0. /\ TypeOK /\ IdsAreMade /\ HoldsItsOwn /\ UnlinkedIsAbsent
      /\ LinkedIsThere /\ ReadsAreHistory /\ ReportsAreTrue
  BY DEF JournalInv
<1>1. \A v \in Writers \ {w} :
        /\ job'[v] = job[v]
        /\ Holds(v)' <=> Holds(v)
        /\ Linked(v)' <=> Linked(v)
        /\ Cleans(v)' <=> Cleans(v)
        /\ WriterReads(v)' <=> WriterReads(v)
  BY DEF Quiet, Only, Holds, Linked, Cleans, WriterReads, Expecting, IsHistory
<1>2. made \in Nat /\ made' \in Nat /\ made <= made' /\ dir'.finals = dir.finals
  BY <1>0, LimitsAssumption DEF TypeOK, Quiet
<1>3. \A v \in Writers : job[v].id \in 0..made
  BY <1>0 DEF IdsAreMade
<1>4. \A v \in Writers \ {w} : job[v].id # NoId => job[v].id # job[w].id
  BY <1>0 DEF HoldsItsOwn
<1>5. IdsAreMade'
  <2>1. refused' \subseteq 1..made'
    <3>1. 1..made \subseteq 1..made'
      BY <1>2
    <3>2. refused \subseteq 1..made /\ {job[w].id} \ {NoId} \subseteq 1..made
      BY <1>0, <1>2, <1>3 DEF IdsAreMade, NoId
    <3> QED BY <3>1, <3>2 DEF Quiet
  <2>2. Ids(dir'.finals) \subseteq 1..made'
    BY <1>0, <1>2 DEF IdsAreMade
  <2>3. \A v \in Writers : job'[v].id \in 0..made'
    BY <1>1, <1>2, <1>3 DEF Quiet, NoId
  <2> QED BY <2>1, <2>2, <2>3 DEF IdsAreMade
<1>6. HoldsItsOwn'
  <2>1. \A v \in Writers : /\ Holds(v)' => job'[v].id # NoId
                           /\ job'[v].why # "commit" => Cleans(v)'
    BY <1>0, <1>1 DEF HoldsItsOwn, Quiet
  <2>2. \A v \in Writers \ {w} : job'[w].id # NoId => job'[w].id # job'[v].id
    BY <1>1, <1>2, <1>3, <1>4 DEF Quiet, NoId
  <2>3. \A u, v \in Writers : u # v /\ job'[u].id # NoId => job'[u].id # job'[v].id
    BY <1>0, <1>1, <2>2 DEF HoldsItsOwn
  <2> QED BY <2>1, <2>3 DEF HoldsItsOwn
<1>7. UnlinkedIsAbsent'
  <2>1. ASSUME NEW v \in Writers \ {w}, job'[v].id # NoId, ~Linked(v)'
        PROVE job'[v].id \notin Ids(dir'.finals) \union refused'
    BY <1>0, <1>1, <1>2, <1>4, <2>1 DEF UnlinkedIsAbsent, Quiet
  <2>2. ASSUME job'[w].id # NoId, ~Linked(w)'
        PROVE job'[w].id \notin Ids(dir'.finals) \union refused'
    <3>1. ~Linked(w) /\ refused' = refused
      BY <2>2 DEF Quiet
    <3>2. CASE job'[w].id = job[w].id
      BY <1>0, <1>2, <2>2, <3>1, <3>2 DEF UnlinkedIsAbsent
    <3>3. CASE job'[w].id \in (made + 1)..made'
      BY <1>0, <1>2, <3>1, <3>3 DEF IdsAreMade
    <3> QED BY <2>2, <3>2, <3>3 DEF Quiet
  <2> QED BY <2>1, <2>2 DEF UnlinkedIsAbsent
<1>8. LinkedIsThere'
  <2>1. ASSUME NEW v \in Writers \ {w}, Linked(v)'
        PROVE /\ job'[v].after.version < Len(dir'.finals)
              /\ dir'.finals[job'[v].after.version + 1].id = job'[v].id
              /\ job'[v].id \notin refused'
    BY <1>0, <1>1, <1>2, <1>4, <2>1 DEF LinkedIsThere, Quiet
  <2>2. ASSUME Linked(w)'
        PROVE /\ job'[w].after.version < Len(dir'.finals)
              /\ dir'.finals[job'[w].after.version + 1].id = job'[w].id
              /\ job'[w].id \notin refused'
    BY <1>0, <1>2, <2>2 DEF LinkedIsThere, Quiet
  <2> QED BY <2>1, <2>2 DEF LinkedIsThere
<1>9. ReadsAreHistory'
  BY <1>0, <1>1 DEF ReadsAreHistory, Quiet
<1>10. ReportsAreTrue'
  <2>1. refused' \intersect Ids(dir'.finals) = {}
    BY <1>0, <1>2 DEF ReportsAreTrue, UnlinkedIsAbsent, Quiet
  <2> QED BY <2>1 DEF ReportsAreTrue, Quiet
<1> QED BY <1>5, <1>6, <1>7, <1>8, <1>9, <1>10 DEF JournalInv

\* The link keeps the invariant.
LEMMA LinkStep ==
  ASSUME JournalInv, TypeOK', NEW w \in Writers, Link(w)
  PROVE JournalInv'
<1> DEFINE f == dir.finals
           r == [id |-> job[w].id, parent |-> job[w].after.id, expected |-> held[w].id]
<1>0. /\ TypeOK /\ IdsAreMade /\ HoldsItsOwn /\ UnlinkedIsAbsent
      /\ LinkedIsThere /\ ReadsAreHistory /\ ReportsAreTrue
  BY DEF JournalInv
<1>1. /\ at[w] = "link" /\ at' = [at EXCEPT ![w] = "sync"]
      /\ UNCHANGED <<made, job, acked, refused, op, list, held, durable>>
      /\ Len(f) <= job[w].after.version
  <2>1. at[w] = "link" /\ at' = [at EXCEPT ![w] = "sync"]
        /\ UNCHANGED <<made, job, acked, refused, op, list, held, durable>>
    BY DEF Link, Working, Goto, Change, reports
  <2>2. ~(Len(f) > job[w].after.version)
    BY DEF Link, FinalExists
  <2>3. job[w].after.version \in Nat
    BY <1>0 DEF TypeOK, Known
  <2> QED BY <1>0, <2>1, <2>2, <2>3, DirectoryTypes
<1>2. f \in Seq(FinalRecord) /\ Len(f) \in Nat /\ r \in FinalRecord /\ r.id = job[w].id
  <2>1. f \in Seq(FinalRecord) /\ Len(f) \in Nat
    BY <1>0, DirectoryTypes
  <2>2. job[w] \in Jobs /\ held[w] \in Known /\ job[w].id # NoId
    BY <1>0, <1>1 DEF TypeOK, Jobs, HoldsItsOwn, Holds
  <2>3. job[w].id \in RecordIds /\ job[w].after.id \in RecordIds \union {NoId}
        /\ held[w].id \in RecordIds \union {NoId}
    BY <2>2 DEF Jobs, Known
  <2> QED BY <2>1, <2>3 DEF FinalRecord
<1>3. dir'.finals = Append(f, r)
  <2> DEFINE longer == Append(f, r)
  <2>1. dir' = [dir EXCEPT !.finals = longer]
    BY DEF Link, Change
  <2> HIDE DEF longer
  <2>2. dir'.finals = longer
    BY <1>0, <2>1 DEF TypeOK, Directory
  <2> QED BY <2>2 DEF longer
<1> HIDE DEF r, f
<1>4. /\ Ids(dir'.finals) = Ids(f) \union {job[w].id}
      /\ Len(dir'.finals) = Len(f) + 1
      /\ dir'.finals[Len(f) + 1] = r
      /\ \A i \in 1..Len(f) : dir'.finals[i] = f[i]
      /\ \A n \in 0..Len(f) : SubSeq(dir'.finals, 1, n) = SubSeq(f, 1, n)
  BY <1>2, <1>3, LongerHistory
<1>5. \A v \in Writers : v # w => at'[v] = at[v]
  BY <1>0, <1>1 DEF TypeOK
<1>6. at'[w] = "sync"
  BY <1>0, <1>1 DEF TypeOK
<1>7. ~Linked(w) /\ job[w].id # NoId
  BY <1>0, <1>1 DEF Linked, HoldsItsOwn, Holds
<1>8. held[w].version = Len(f) /\ job[w].after.version = Len(f)
  <2>1. job[w].after.version = held[w].version /\ held[w].version <= Len(f)
    BY <1>0, <1>1 DEF ReadsAreHistory, WriterReads, Expecting, IsHistory, f
  <2>2. held[w].version \in Nat
    BY <1>0 DEF TypeOK, Known
  <2> QED BY <1>1, <1>2, <2>1, <2>2
<1>9. IdsAreMade'
  <2>1. job[w].id \in 1..made
    BY <1>0, <1>7, LimitsAssumption DEF IdsAreMade, NoId, TypeOK
  <2> QED BY <1>0, <1>1, <1>4, <2>1 DEF IdsAreMade, f
<1>10. HoldsItsOwn'
  BY <1>0, <1>1, <1>5, <1>7 DEF HoldsItsOwn, Holds, Cleans
<1>11. UnlinkedIsAbsent'
  <2> SUFFICES ASSUME NEW v \in Writers, job[v].id # NoId, ~Linked(v)'
               PROVE job[v].id \notin Ids(dir'.finals) \union refused
    BY <1>1 DEF UnlinkedIsAbsent
  <2>1. v # w
    BY <1>6 DEF Linked
  <2>2. ~Linked(v)
    BY <1>1, <1>5, <2>1 DEF Linked
  <2>3. job[v].id # job[w].id
    BY <1>0, <2>1 DEF HoldsItsOwn
  <2> QED BY <1>0, <1>4, <2>2, <2>3 DEF UnlinkedIsAbsent, f
<1>12. LinkedIsThere'
  <2> SUFFICES ASSUME NEW v \in Writers, Linked(v)'
               PROVE /\ job[v].after.version < Len(dir'.finals)
                     /\ dir'.finals[job[v].after.version + 1].id = job[v].id
                     /\ job[v].id \notin refused
    BY <1>1 DEF LinkedIsThere
  <2>1. CASE v = w
    <3>1. job[w].id \notin refused
      BY <1>0, <1>7 DEF UnlinkedIsAbsent
    <3> QED BY <1>2, <1>4, <1>8, <2>1, <3>1
  <2>2. CASE v # w
    <3>1. Linked(v)
      BY <1>1, <1>5, <2>2 DEF Linked
    <3>2. /\ job[v].after.version < Len(f)
          /\ f[job[v].after.version + 1].id = job[v].id
          /\ job[v].id \notin refused
      BY <1>0, <3>1 DEF LinkedIsThere, f
    <3>3. job[v].after.version \in Nat
      BY <1>0 DEF TypeOK, Known
    <3>4. job[v].after.version + 1 \in 1..Len(f)
      BY <1>2, <3>2, <3>3
    <3> QED BY <1>2, <1>4, <3>2, <3>3, <3>4
  <2> QED BY <2>1, <2>2
<1>13. ReadsAreHistory'
  <2> SUFFICES ASSUME NEW v \in Writers PROVE WriterReads(v)'
    BY DEF ReadsAreHistory
  <2>1. WriterReads(v)
    BY <1>0 DEF ReadsAreHistory
  <2>2. IsHistory(held[v])'
    <3>1. held[v].version \in 0..Len(f)
      BY <1>0, <1>2, <2>1 DEF TypeOK, Known, WriterReads, IsHistory, f
    <3>2. SubSeq(dir'.finals, 1, held[v].version) = SubSeq(f, 1, held[v].version)
      BY <1>4, <3>1
    <3>3. held[v].id = NewestId(SubSeq(f, 1, held[v].version))
      BY <2>1 DEF WriterReads, IsHistory, f
    <3>4. held[v].version <= Len(dir'.finals)
      BY <1>2, <1>4, <3>1
    <3>5. held' = held
      BY <1>1
    <3> QED BY <3>2, <3>3, <3>4, <3>5 DEF IsHistory
  <2>3. IsPrefix(list[v].finals, dir.finals)'
    <3>1. list[v].finals \in Seq(FinalRecord)
      BY <1>0 DEF TypeOK, Directory
    <3>2. Len(list[v].finals) \in 0..Len(f)
      BY <1>2, <2>1, <3>1 DEF WriterReads, IsPrefix, f
    <3> QED BY <1>1, <1>2, <1>4, <2>1, <3>2 DEF WriterReads, IsPrefix, f
  <2>4. Expecting(v)' => Expecting(v)
    BY <1>5, <1>6 DEF Expecting
  <2> QED BY <1>1, <2>1, <2>2, <2>3, <2>4 DEF WriterReads
<1>14. ReportsAreTrue'
  <2>1. durable \in 0..Len(f)
    BY <1>0, DirectoryTypes DEF f
  <2>2. Durable' = Durable
    BY <1>1, <1>4, <2>1 DEF Durable, f
  <2>3. job[w].id \notin refused
    BY <1>0, <1>7 DEF UnlinkedIsAbsent
  <2> QED BY <1>0, <1>1, <1>4, <2>2, <2>3 DEF ReportsAreTrue, f
<1> QED BY <1>9, <1>10, <1>11, <1>12, <1>13, <1>14 DEF JournalInv

\* No history is a history, and an empty listing is a prefix.
LEMMA NothingRead ==
  ASSUME TypeOK
  PROVE IsHistory(Nothing) /\ IsPrefix(<<>>, dir.finals)
<1>1. dir.finals \in Seq(FinalRecord) /\ Len(dir.finals) \in Nat
  BY DirectoryTypes
<1>2. SubSeq(dir.finals, 1, 0) = <<>> /\ SubSeq(<<>>, 1, 0) = <<>> /\ Len(<<>>) = 0
  BY <1>1
<1> QED BY <1>1, <1>2 DEF IsHistory, Nothing, NewestId, NoId, IsPrefix

\* A power failure keeps the invariant.
LEMMA PowerFailureStep ==
  ASSUME JournalInv, TypeOK', PowerFailure
  PROVE JournalInv'
<1>0. /\ TypeOK /\ IdsAreMade /\ ReportsAreTrue
  BY DEF JournalInv
<1>1. PICK n \in durable..Len(dir.finals) :
        dir' = [dir EXCEPT !.finals = SubSeq(dir.finals, 1, n)] /\ durable' = n
  BY DEF PowerFailure
<1> DEFINE f == dir.finals
           kept == SubSeq(f, 1, n)
<1>2. /\ f \in Seq(FinalRecord) /\ Len(f) \in Nat
      /\ durable \in Nat /\ n \in Nat /\ durable <= n /\ n <= Len(f)
  BY <1>0, DirectoryTypes
<1>3. /\ Ids(SubSeq(f, 1, durable)) \subseteq Ids(kept) /\ Ids(kept) \subseteq Ids(f)
      /\ kept \in Seq(FinalRecord) /\ Len(kept) = n /\ SubSeq(kept, 1, n) = kept
  BY <1>2, PrefixIds, WholePrefix
<1> HIDE DEF kept
<1>4. dir'.finals = kept /\ durable' = n
  <2>1. dir' = [dir EXCEPT !.finals = kept]
    BY <1>1 DEF kept
  <2> QED BY <1>0, <1>1, <2>1 DEF TypeOK, Directory
<1>5. \A w \in Writers : /\ at'[w] = "down" /\ op'[w] = "none" /\ job'[w] = NoJob
                         /\ held'[w] = Nothing /\ list'[w] = EmptyDirectory
  BY DEF PowerFailure, Stop
<1>6. made' = made /\ acked' = acked /\ refused' = refused
  BY DEF PowerFailure, Stop, reports
<1>7. \A w \in Writers : ~Holds(w)' /\ ~Linked(w)' /\ ~Expecting(w)'
  BY <1>5 DEF Holds, Linked, Expecting
<1>8. IdsAreMade'
  <2>1. made \in Nat
    BY <1>0, LimitsAssumption DEF TypeOK
  <2> QED BY <1>0, <1>3, <1>4, <1>5, <1>6, <2>1 DEF IdsAreMade, NoJob, NoId
<1>9. HoldsItsOwn'
  BY <1>5, <1>7 DEF HoldsItsOwn, NoJob
<1>10. UnlinkedIsAbsent' /\ LinkedIsThere'
  BY <1>5, <1>7 DEF UnlinkedIsAbsent, LinkedIsThere, NoJob
<1>11. ReadsAreHistory'
  <2>1. IsHistory(Nothing)' /\ IsPrefix(<<>>, dir.finals)'
    BY NothingRead, PTL
  <2> QED BY <1>5, <1>7, <2>1 DEF ReadsAreHistory, WriterReads, IsHistory, EmptyDirectory
<1>12. ReportsAreTrue'
  <2>1. acked \subseteq Ids(kept)
    BY <1>0, <1>3 DEF ReportsAreTrue, Durable
  <2>2. Durable' = kept
    BY <1>3, <1>4 DEF Durable
  <2> QED BY <1>0, <1>3, <1>4, <1>6, <2>1, <2>2 DEF ReportsAreTrue
<1> QED BY <1>8, <1>9, <1>10, <1>11, <1>12 DEF JournalInv

\* What the caller knows and the listing stay true while the finals stay.
LEMMA ReadsKept ==
  ASSUME JournalInv, NEW w \in Writers, dir'.finals = dir.finals,
         held'[w] \in {held[w], Nothing},
         list'[w].finals \in {list[w].finals, dir.finals, <<>>},
         Expecting(w)' => /\ Expecting(w) /\ held'[w] = held[w]
                          /\ job'[w].after.version = job[w].after.version
  PROVE WriterReads(w)'
<1>0. TypeOK /\ WriterReads(w)
  BY DEF JournalInv, ReadsAreHistory
<1>1. IsPrefix(dir.finals, dir.finals)
  BY <1>0, DirectoryTypes, WholePrefix DEF IsPrefix
<1>2. IsHistory(held'[w]) /\ IsPrefix(list'[w].finals, dir.finals)
  BY <1>0, <1>1, NothingRead DEF WriterReads
<1>3. IsHistory(held[w])' /\ IsPrefix(list[w].finals, dir.finals)'
  BY <1>2 DEF IsHistory
<1>4. Expecting(w)' => job'[w].after.version = held'[w].version
  BY <1>0 DEF WriterReads
<1> QED BY <1>3, <1>4 DEF WriterReads

\* What was reported as committed stays on disk while the finals stay.
LEMMA AckedKept ==
  ASSUME JournalInv, dir'.finals = dir.finals,
         durable' \in {durable, Len(dir.finals)},
         acked' \subseteq acked \union (IF durable' = durable THEN {} ELSE Ids(dir.finals))
  PROVE acked' \subseteq Ids(Durable')
<1>1. TypeOK /\ acked \subseteq Ids(Durable)
  BY DEF JournalInv, ReportsAreTrue
<1>2. dir.finals \in Seq(FinalRecord) /\ Len(dir.finals) \in Nat
      /\ durable \in Nat /\ durable <= Len(dir.finals)
  BY <1>1, DirectoryTypes
<1>3. Ids(SubSeq(dir.finals, 1, durable)) \subseteq Ids(SubSeq(dir.finals, 1, Len(dir.finals)))
  BY <1>2, PrefixIds
<1>4. SubSeq(dir.finals, 1, Len(dir.finals)) = dir.finals
  BY <1>2, WholePrefix
<1>5. CASE durable' = durable
  BY <1>1, <1>5 DEF Durable
<1>6. CASE durable' # durable
  BY <1>1, <1>3, <1>4, <1>6 DEF Durable
<1> QED BY <1>5, <1>6

\* A writer that only moves on takes a quiet step.
LEMMA MovesOn ==
  ASSUME JournalInv, NEW w \in Writers, Only(w),
         dir'.finals = dir.finals, durable' = durable, made' = made,
         acked' = acked, refused' = refused,
         held'[w] \in {held[w], Nothing},
         list'[w].finals \in {list[w].finals, dir.finals, <<>>},
         job'[w].id \in {NoId, job[w].id},
         Expecting(w)' => /\ Expecting(w) /\ held'[w] = held[w]
                          /\ job'[w].after.version = job[w].after.version,
         Holds(w)' => job'[w].id # NoId,
         job'[w].why # "commit" => Cleans(w)',
         Linked(w)' => /\ Linked(w) /\ job'[w].id = job[w].id
                       /\ job'[w].after.version = job[w].after.version,
         job'[w].id # NoId /\ ~Linked(w)' => ~Linked(w)
  PROVE Quiet(w)
<1>1. WriterReads(w)'
  BY ReadsKept
<1>2. acked' \subseteq Ids(Durable')
  BY AckedKept
<1>3. made \in Nat
  BY LimitsAssumption DEF JournalInv, TypeOK
<1> QED BY <1>1, <1>2, <1>3 DEF Quiet

\* An instance that starts an operation takes a quiet step.
LEMMA BeginIsQuiet ==
  ASSUME JournalInv, NEW w \in Writers, Initialize(w) \/ Load(w) \/ Transition(w)
  PROVE Quiet(w)
<1>1. TypeOK
  BY DEF JournalInv
<1>2. /\ at[w] \in {"down", "idle"} /\ at' = [at EXCEPT ![w] = "names"]
      /\ op' = [op EXCEPT ![w] = op'[w]] /\ op'[w] # "conflict"
      /\ UNCHANGED <<dir, durable, made, list, job, held, acked, refused>>
  BY <1>1 DEF Initialize, Load, Transition, Begin, Goto, TypeOK, disk, reports
<1>3. Only(w) /\ ~Linked(w) /\ ~Holds(w)' /\ ~Linked(w)' /\ ~Expecting(w)'
  BY <1>1, <1>2 DEF Only, Holds, Linked, Expecting, TypeOK
<1>4. job[w].why = "commit"
  BY <1>2 DEF JournalInv, HoldsItsOwn, Cleans
<1> QED BY <1>2, <1>3, <1>4, MovesOn

\* Pending directories are no finals.
LEMMA FinalsKept ==
  ASSUME TypeOK, NEW ids,
         \/ Change([dir EXCEPT !.dirs = ids])
         \/ Change([dir EXCEPT !.records = ids])
  PROVE dir'.finals = dir.finals /\ durable' = durable
BY DEF TypeOK, Directory, Change

\* An append that is refused and over takes a quiet step.
LEMMA RefusalIsQuiet ==
  ASSUME JournalInv, NEW w \in Writers, Only(w), Refuse(w), Return(w), ~Linked(w),
         dir'.finals = dir.finals, durable' = durable, made' = made, acked' = acked,
         held'[w] = held[w], list'[w].finals \in {list[w].finals, dir.finals, <<>>}
  PROVE Quiet(w)
<1>1. TypeOK /\ made \in Nat
  BY LimitsAssumption DEF JournalInv, TypeOK
<1>2. at'[w] = "idle" /\ job'[w] = NoJob
  BY <1>1 DEF Return, Goto, TypeOK
<1>3. ~Holds(w)' /\ ~Linked(w)' /\ ~Expecting(w)' /\ job'[w].id = NoId
      /\ job'[w].why = "commit"
  BY <1>2 DEF Holds, Linked, Expecting, NoJob
<1>4. WriterReads(w)'
  BY <1>3, ReadsKept
<1>5. acked' \subseteq Ids(Durable')
  BY AckedKept
<1> QED BY <1>1, <1>3, <1>4, <1>5 DEF Quiet, Refuse

\* A listing's newest record is a history of the directory.
LEMMA NewestIsHistory ==
  ASSUME TypeOK, NEW w \in Writers, IsPrefix(list[w].finals, dir.finals)
  PROVE IsHistory(Newest(list[w].finals))
<1>1. list[w].finals \in Seq(FinalRecord)
  BY DEF TypeOK, Directory
<1>2. SubSeq(list[w].finals, 1, Len(list[w].finals)) = list[w].finals
  BY <1>1, WholePrefix
<1> QED BY <1>2 DEF IsHistory, Newest, IsPrefix

\* What follows a scan is a quiet step.
LEMMA ContinueIsQuiet ==
  ASSUME JournalInv, NEW w \in Writers, NEW sound \in BOOLEAN,
         at[w] \in {"names", "finals"}, Continue(w, sound),
         UNCHANGED <<dir, durable, made, acked>>
  PROVE Quiet(w)
<1> DEFINE newest == Newest(list[w].finals)
<1>1. TypeOK /\ WriterReads(w) /\ made \in Nat /\ ~Linked(w)
  BY LimitsAssumption DEF JournalInv, ReadsAreHistory, TypeOK, Linked
<1>2. IsHistory(newest)
  BY <1>1, NewestIsHistory DEF WriterReads
<1> HIDE DEF newest
<1>3. /\ \A v \in Writers \ {w} : list'[v] = list[v] /\ op'[v] = op[v] /\ held'[v] = held[v]
      /\ list'[w].finals = <<>> /\ op'[w] = "none"
      /\ held'[w] \in {held[w], newest}
      /\ held'[w] = held[w] \/ op[w] = "load"
  BY <1>1 DEF Continue, EmptyDirectory, TypeOK, newest
<1>4. acked' \subseteq Ids(Durable')
  BY AckedKept
<1>5. IsHistory(held'[w]) /\ IsPrefix(<<>>, dir.finals)
  BY <1>1, <1>2, <1>3, NothingRead DEF WriterReads
<1>6. IsHistory(held[w])' /\ IsPrefix(list[w].finals, dir.finals)'
  BY <1>3, <1>5 DEF IsHistory
<1>7. CASE op[w] = "conflict" /\ Abandon(w)
  <2>1. held'[w] = held[w]
    BY <1>3, <1>7
  <2>2. CASE job[w].why = "commit"
    <3>1. /\ at' = [at EXCEPT ![w] = "unlink"] /\ refused' = refused
          /\ job' = [job EXCEPT ![w].why = "conflict"]
      BY <1>7, <2>2 DEF Abandon, Goto
    <3>2. job[w] \in Jobs /\ job[w].id # NoId
      BY <1>1, <1>7 DEF TypeOK, Jobs, JournalInv, HoldsItsOwn, Holds
    <3>3. at'[w] = "unlink" /\ job'[w].why = "conflict" /\ job'[w].id = job[w].id
      BY <1>1, <3>1, <3>2 DEF TypeOK, Jobs
    <3>4. Only(w)
      BY <1>1, <1>3, <3>1 DEF Only, TypeOK
    <3>5. ~Linked(w)' /\ ~Expecting(w)' /\ Cleans(w)'
      BY <3>3 DEF Linked, Expecting, Cleans
    <3> QED BY <1>1, <1>4, <1>6, <3>1, <3>2, <3>3, <3>4, <3>5 DEF Quiet, WriterReads
  <2>3. CASE Refuse(w) /\ Return(w)
    <3>1. Only(w)
      BY <1>1, <1>3, <2>3 DEF Only, Return, Goto, TypeOK
    <3> QED BY <1>1, <1>3, <2>1, <2>3, <3>1, RefusalIsQuiet
  <2> QED BY <1>7, <2>2, <2>3 DEF Abandon
<1>8. CASE /\ op[w] = "transition" /\ newest.version = held[w].version
           /\ Goto(w, "capacity") /\ job' = [job EXCEPT ![w].after = newest]
           /\ UNCHANGED refused
  <2>1. job[w] \in Jobs /\ job[w].why = "commit"
    BY <1>1, <1>8 DEF TypeOK, Jobs, JournalInv, HoldsItsOwn, Cleans
  <2>2. /\ at'[w] = "capacity" /\ job'[w].id = job[w].id /\ job'[w].why = "commit"
        /\ job'[w].after.version = held'[w].version
    BY <1>1, <1>3, <1>8, <2>1 DEF Goto, TypeOK, Jobs
  <2>3. Only(w)
    BY <1>1, <1>3, <1>8 DEF Only, Goto, TypeOK
  <2>4. ~Linked(w)' /\ ~Holds(w)'
    BY <2>2 DEF Linked, Holds
  <2> QED BY <1>1, <1>4, <1>6, <1>8, <2>2, <2>3, <2>4 DEF Quiet, WriterReads
<1>9. CASE Return(w) /\ UNCHANGED refused
  <2>1. at'[w] = "idle" /\ job'[w] = NoJob
    BY <1>1, <1>9 DEF Return, Goto, TypeOK
  <2>2. ~Linked(w)' /\ ~Holds(w)' /\ ~Expecting(w)' /\ job'[w].id = NoId
        /\ job'[w].why = "commit"
    BY <2>1 DEF Linked, Holds, Expecting, NoJob
  <2>3. Only(w)
    BY <1>1, <1>3, <1>9 DEF Only, Return, Goto, TypeOK
  <2> QED BY <1>1, <1>4, <1>6, <1>9, <2>2, <2>3 DEF Quiet, WriterReads
<1> QED BY <1>7, <1>8, <1>9 DEF Continue, newest

\* A scan is quiet.
LEMMA ScanIsQuiet ==
  ASSUME JournalInv, NEW w \in Writers, Scan(w)
  PROVE Quiet(w)
<1>1. TypeOK
  BY DEF JournalInv
<1>2. CASE ScanNames(w)
  <2>1. CASE Continue(w, FALSE)
    BY <1>2, <2>1, ContinueIsQuiet DEF ScanNames, disk
  <2>2. CASE Goto(w, "pendings") /\ list' = [list EXCEPT ![w] = [dir EXCEPT !.records = {}]]
             /\ UNCHANGED <<unhealthy, op, held, job, refused>>
    <3>1. /\ at[w] = "names" /\ at'[w] = "pendings"
          /\ UNCHANGED <<dir, durable, made, acked>>
      BY <1>1, <1>2, <2>2 DEF ScanNames, Goto, TypeOK, disk
    <3>2. list'[w].finals = dir.finals
      BY <1>1, <2>2 DEF TypeOK, Directory
    <3>3. Only(w)
      BY <1>1, <2>2 DEF Only, Goto, TypeOK
    <3>4. /\ ~Linked(w) /\ ~Linked(w)' /\ ~Expecting(w)'
          /\ (Holds(w)' <=> Holds(w)) /\ (Cleans(w)' <=> Cleans(w))
      BY <2>2, <3>1 DEF Linked, Expecting, Holds, Cleans
    <3>5. (Holds(w) => job[w].id # NoId) /\ (job[w].why # "commit" => Cleans(w))
      BY DEF JournalInv, HoldsItsOwn
    <3> QED BY <2>2, <3>1, <3>2, <3>3, <3>4, <3>5, MovesOn
  <2> QED BY <1>2, <2>1, <2>2 DEF ScanNames
<1>3. CASE ScanPendings(w)
  <2>1. /\ at[w] = "pendings" /\ at'[w] = "finals"
        /\ UNCHANGED <<dir, durable, made, op, job, held, acked, refused>>
    BY <1>1, <1>3 DEF ScanPendings, Goto, TypeOK, disk, reports
  <2>2. list'[w].finals = list[w].finals
    BY <1>1, <1>3 DEF ScanPendings, TypeOK, Directory
  <2>3. Only(w)
    BY <1>1, <1>3 DEF ScanPendings, Only, Goto, TypeOK
  <2>4. /\ ~Linked(w) /\ ~Linked(w)' /\ ~Expecting(w)'
        /\ (Holds(w)' <=> Holds(w)) /\ (Cleans(w)' <=> Cleans(w))
    BY <2>1 DEF Linked, Expecting, Holds, Cleans
  <2>5. (Holds(w) => job[w].id # NoId) /\ (job[w].why # "commit" => Cleans(w))
    BY DEF JournalInv, HoldsItsOwn
  <2> QED BY <2>1, <2>2, <2>3, <2>4, <2>5, MovesOn
<1>4. CASE ScanFinals(w)
  <2>1. Sound(list[w]) \in BOOLEAN
    BY DEF Sound
  <2> QED BY <1>4, <2>1, ContinueIsQuiet DEF ScanFinals, disk
<1> QED BY <1>2, <1>3, <1>4 DEF Scan

\* A step of the append before the link is quiet.
LEMMA PrepareIsQuiet ==
  ASSUME JournalInv, NEW w \in Writers,
         \/ AssertCapacity(w) \/ ReservePendingDirectory(w) \/ ReserveFails(w)
         \/ AssertFinalAbsent(w) \/ WriteRecord(w) \/ WriteFails(w) \/ LinkFails(w)
  PROVE Quiet(w)
<1>0. TypeOK /\ job[w] \in Jobs /\ made \in Nat
      /\ (Holds(w) => job[w].id # NoId) /\ (job[w].why # "commit" => Cleans(w))
  BY LimitsAssumption DEF JournalInv, HoldsItsOwn, TypeOK, Jobs
<1>1. CASE Return(w) /\ (AssertCapacity(w) \/ ReserveFails(w))
  <2>1. /\ at'[w] = "idle" /\ job'[w] = NoJob
        /\ UNCHANGED <<dir, durable, made, op, list, held, acked, refused>>
    BY <1>0, <1>1 DEF AssertCapacity, ReserveFails, Working, Return, Goto, TypeOK, disk, reports
  <2>2. Only(w)
    BY <1>0, <1>1, <2>1 DEF Only, Return, Goto, TypeOK
  <2>3. ~Linked(w)' /\ ~Holds(w)' /\ ~Expecting(w)'
        /\ job'[w].id = NoId /\ job'[w].why = "commit"
    BY <2>1 DEF Linked, Holds, Expecting, NoJob
  <2> QED BY <2>1, <2>2, <2>3, MovesOn
<1>2. CASE AssertCapacity(w) /\ Goto(w, "mkdir") /\ UNCHANGED job
  <2>1. /\ at[w] = "capacity" /\ at'[w] = "mkdir"
        /\ UNCHANGED <<dir, durable, made, op, list, job, held, acked, refused>>
    BY <1>0, <1>2 DEF AssertCapacity, Working, Goto, TypeOK, disk, reports
  <2>2. Only(w)
    BY <1>0, <1>2, <2>1 DEF Only, Goto, TypeOK
  <2>3. ~Linked(w) /\ ~Linked(w)' /\ ~Holds(w)' /\ Expecting(w) /\ job[w].why = "commit"
    BY <1>0, <2>1 DEF Linked, Holds, Expecting, Cleans
  <2> QED BY <2>1, <2>2, <2>3, MovesOn
<1>3. CASE ReservePendingDirectory(w)
  <2>1. /\ at[w] = "mkdir" /\ at'[w] = "absent" /\ made' = made + 1
        /\ UNCHANGED <<op, list, held, acked, refused>>
        /\ job' = [job EXCEPT ![w].id = made']
    BY <1>0, <1>3 DEF ReservePendingDirectory, Working, Goto, TypeOK, reports
  <2>2. dir'.finals = dir.finals /\ durable' = durable
    <3> DEFINE ids == dir.dirs \union {made'}
    <3>1. Change([dir EXCEPT !.dirs = ids])
      BY <1>3 DEF ReservePendingDirectory
    <3> HIDE DEF ids
    <3> QED BY <1>0, <3>1, FinalsKept
  <2>3. job'[w].id = made' /\ job'[w].after = job[w].after /\ job'[w].why = "commit"
    BY <1>0, <2>1 DEF TypeOK, Jobs, Cleans
  <2>4. Only(w)
    BY <1>0, <1>3, <2>1 DEF ReservePendingDirectory, Only, Goto, TypeOK
  <2>5. ~Linked(w) /\ ~Linked(w)' /\ Expecting(w)
    BY <2>1 DEF Linked, Expecting
  <2>6. WriterReads(w)'
    BY <2>1, <2>2, <2>3, <2>5, ReadsKept
  <2>7. acked' \subseteq Ids(Durable')
    BY <2>1, <2>2, AckedKept
  <2> QED BY <1>0, <2>1, <2>2, <2>3, <2>4, <2>5, <2>6, <2>7 DEF Quiet, NoId
<1>4. CASE AssertFinalAbsent(w)
  <2>1. /\ at[w] = "absent" /\ at'[w] \in {"names", "link", "write"}
        /\ at' = [at EXCEPT ![w] = at'[w]] /\ op' = [op EXCEPT ![w] = op'[w]]
        /\ UNCHANGED <<dir, durable, made, list, job, held, acked, refused>>
    BY <1>0, <1>4 DEF AssertFinalAbsent, Goto, TypeOK, disk, reports
  <2>2. Only(w)
    BY <1>0, <2>1 DEF Only, TypeOK
  <2>3. ~Linked(w) /\ ~Linked(w)' /\ Expecting(w) /\ Holds(w) /\ job[w].why = "commit"
    BY <1>0, <2>1 DEF Linked, Expecting, Holds, Cleans
  <2> QED BY <1>0, <2>1, <2>2, <2>3, MovesOn
<1>5. CASE WriteRecord(w) \/ WriteFails(w) \/ LinkFails(w)
  <2>1. /\ at[w] \in {"write", "link"} /\ at'[w] \in {"absent", "unlink"}
        /\ at' = [at EXCEPT ![w] = at'[w]]
        /\ UNCHANGED <<made, op, list, held, acked, refused>>
    BY <1>0, <1>5 DEF WriteRecord, WriteFails, LinkFails, GivesUp, Working, Goto, TypeOK, reports
  <2>2. \/ at'[w] = "absent" /\ job' = job
        \/ at'[w] = "unlink" /\ job' = [job EXCEPT ![w].why = "failed"]
    BY <1>0, <1>5 DEF WriteRecord, WriteFails, LinkFails, GivesUp, Goto, TypeOK
  <2>3. dir'.finals = dir.finals /\ durable' = durable
    <3> DEFINE ids == dir.records \union {job[w].id}
    <3>1. UNCHANGED disk \/ Change([dir EXCEPT !.records = ids])
      BY <1>5 DEF WriteRecord, WriteFails, LinkFails
    <3> HIDE DEF ids
    <3> QED BY <1>0, <3>1, FinalsKept DEF disk
  <2>4. /\ job'[w].id = job[w].id /\ job'[w].after = job[w].after
        /\ \/ at'[w] = "absent" /\ job'[w].why = "commit"
           \/ at'[w] = "unlink" /\ job'[w].why = "failed"
    BY <1>0, <2>1, <2>2 DEF TypeOK, Jobs, Cleans
  <2>5. Only(w)
    BY <1>0, <2>1, <2>2 DEF Only, TypeOK
  <2>6. /\ ~Linked(w) /\ ~Linked(w)' /\ Expecting(w) /\ Holds(w)
        /\ job'[w].why # "commit" => Cleans(w)'
    BY <2>1, <2>4 DEF Linked, Expecting, Holds, Cleans
  <2> QED BY <1>0, <2>1, <2>3, <2>4, <2>5, <2>6, MovesOn
<1> QED BY <1>1, <1>2, <1>3, <1>4, <1>5 DEF AssertCapacity, ReserveFails

\* A step of the append after the link, or after a failure, is quiet.
LEMMA FinishIsQuiet ==
  ASSUME JournalInv, NEW w \in Writers,
         \/ SyncCommit(w) \/ Unlink(w) \/ Rmdir(w) \/ SyncCleanup(w)
         \/ CommitUnknown(w) \/ RemovalFails(w) \/ ClassifyFailure(w)
  PROVE Quiet(w)
<1>0. TypeOK /\ job[w] \in Jobs /\ made \in Nat /\ WriterReads(w)
      /\ (Holds(w) => job[w].id # NoId) /\ (job[w].why # "commit" => Cleans(w))
  BY LimitsAssumption DEF JournalInv, HoldsItsOwn, TypeOK, Jobs, ReadsAreHistory
<1>1. CASE SyncCommit(w)
  <2>1. /\ at[w] = "sync" /\ at'[w] = "unlink" /\ durable' = Len(dir.finals)
        /\ UNCHANGED <<dir, made, op, list, job, held, acked, refused>>
    BY <1>0, <1>1 DEF SyncCommit, SyncRoot, Working, Goto, TypeOK, reports
  <2>2. Only(w)
    BY <1>0, <1>1, <2>1 DEF SyncCommit, Only, Goto, TypeOK
  <2>3. Linked(w) /\ Holds(w) /\ ~Expecting(w)' /\ Linked(w)' /\ job[w].why = "commit"
    BY <1>0, <2>1 DEF Linked, Holds, Expecting, Cleans
  <2>4. WriterReads(w)'
    BY <2>1, <2>3, ReadsKept
  <2>5. acked' \subseteq Ids(Durable')
    BY <2>1, AckedKept
  <2> QED BY <1>0, <2>1, <2>2, <2>3, <2>4, <2>5 DEF Quiet
<1>2. CASE Unlink(w)
  <2>1. /\ at[w] = "unlink" /\ at'[w] = "rmdir"
        /\ UNCHANGED <<made, op, list, job, held, acked, refused>>
    BY <1>0, <1>2 DEF Unlink, Working, Goto, TypeOK, reports
  <2>2. dir'.finals = dir.finals /\ durable' = durable
    <3> DEFINE ids == dir.records \ {job[w].id}
    <3>1. Change([dir EXCEPT !.records = ids])
      BY <1>2 DEF Unlink
    <3> HIDE DEF ids
    <3> QED BY <1>0, <3>1, FinalsKept
  <2>3. Only(w)
    BY <1>0, <1>2, <2>1 DEF Unlink, Only, Goto, TypeOK
  <2>4. (Linked(w)' <=> Linked(w)) /\ Holds(w) /\ ~Expecting(w)' /\ Cleans(w)'
    BY <2>1 DEF Linked, Holds, Expecting, Cleans
  <2> QED BY <1>0, <2>1, <2>2, <2>3, <2>4, MovesOn
<1>3. CASE Rmdir(w)
  <2>1. at[w] = "rmdir" /\ UNCHANGED <<made, op, list, held, acked>>
    BY <1>3 DEF Rmdir, Working
  <2>2. dir'.finals = dir.finals /\ durable' = durable
    <3> DEFINE ids == dir.dirs \ {job[w].id}
    <3>1. Change([dir EXCEPT !.dirs = ids])
      BY <1>3 DEF Rmdir
    <3> HIDE DEF ids
    <3> QED BY <1>0, <3>1, FinalsKept
  <2>3. CASE job[w].why = "conflict"
    <3>1. Refuse(w) /\ Return(w) /\ ~Linked(w)
      BY <1>3, <2>1, <2>3 DEF Rmdir, Linked
    <3>2. Only(w)
      BY <1>0, <2>1, <3>1 DEF Only, Return, Goto, TypeOK
    <3> QED BY <2>1, <2>2, <3>1, <3>2, RefusalIsQuiet
  <2>4. CASE job[w].why # "conflict"
    <3>1. /\ Goto(w, IF job[w].why = "commit" THEN "resync" ELSE "exists")
          /\ UNCHANGED <<job, refused>>
      BY <1>3, <2>4 DEF Rmdir
    <3>2. at'[w] = IF job[w].why = "commit" THEN "resync" ELSE "exists"
      BY <1>0, <3>1 DEF Goto, TypeOK
    <3>3. Only(w)
      BY <1>0, <2>1, <3>1 DEF Only, Goto, TypeOK
    <3>4. /\ (Linked(w)' <=> Linked(w)) /\ Holds(w) /\ ~Expecting(w)'
          /\ job[w].why # "commit" => Cleans(w)'
      BY <2>1, <3>2 DEF Linked, Holds, Expecting, Cleans
    <3> QED BY <1>0, <2>1, <2>2, <3>1, <3>3, <3>4, MovesOn
  <2> QED BY <2>3, <2>4
<1>4. CASE SyncCleanup(w)
  <2>1. /\ at[w] = "resync" /\ durable' = Len(dir.finals)
        /\ UNCHANGED <<dir, made, op, list, refused>>
        /\ acked' = acked \union {job[w].id}
        /\ at'[w] = "idle" /\ job'[w] = NoJob
        /\ held'[w] = [version |-> job[w].after.version + 1, id |-> job[w].id]
    BY <1>0, <1>4 DEF SyncCleanup, SyncRoot, Return, Goto, TypeOK
  <2>2. Only(w)
    BY <1>0, <1>4, <2>1 DEF SyncCleanup, Return, Only, Goto, TypeOK
  <2>3. /\ ~Holds(w)' /\ ~Linked(w)' /\ ~Expecting(w)'
        /\ job'[w].id = NoId /\ job'[w].why = "commit"
    BY <2>1 DEF Linked, Holds, Expecting, NoJob
  <2>4. /\ dir.finals \in Seq(FinalRecord) /\ Len(dir.finals) \in Nat
        /\ job[w].after.version \in Nat
        /\ job[w].after.version < Len(dir.finals)
        /\ dir.finals[job[w].after.version + 1].id = job[w].id
    BY <1>0, <2>1, DirectoryTypes DEF JournalInv, LinkedIsThere, Linked, Jobs, Known
  <2>5. job[w].id \in Ids(dir.finals)
    BY <2>4, IdAt
  <2>6. IsHistory(held'[w])
    BY <2>1, <2>4, IdOfPrefix DEF IsHistory
  <2>7. WriterReads(w)'
    BY <1>0, <2>1, <2>3, <2>6 DEF WriterReads, IsHistory
  <2>8. acked' \subseteq Ids(Durable')
    <3>1. CASE durable' = durable
      BY <1>0, <2>1, <2>4, <2>5, <3>1, WholePrefix DEF JournalInv, ReportsAreTrue, Durable
    <3>2. CASE durable' # durable
      BY <2>1, <2>5, <3>2, AckedKept
    <3> QED BY <3>1, <3>2
  <2> QED BY <1>0, <2>1, <2>2, <2>3, <2>7, <2>8 DEF Quiet
<1>5. CASE CommitUnknown(w)
  <2>1. /\ at'[w] = "idle" /\ job'[w] = NoJob
        /\ UNCHANGED <<dir, durable, made, op, list, held, acked, refused>>
    BY <1>0, <1>5 DEF CommitUnknown, Return, Goto, TypeOK, disk, reports
  <2>2. Only(w)
    BY <1>0, <1>5, <2>1 DEF CommitUnknown, Only, Return, Goto, TypeOK
  <2>3. /\ ~Linked(w)' /\ ~Holds(w)' /\ ~Expecting(w)'
        /\ job'[w].id = NoId /\ job'[w].why = "commit"
    BY <2>1 DEF Linked, Holds, Expecting, NoJob
  <2> QED BY <2>1, <2>2, <2>3, MovesOn
<1>6. CASE RemovalFails(w) \/ (ClassifyFailure(w) /\ Refuse(w) /\ Return(w) /\ UNCHANGED op)
  <2>1. /\ Refuse(w) /\ Return(w) /\ ~Linked(w)
        /\ UNCHANGED <<dir, durable, made, op, list, held, acked>>
    BY <1>6 DEF RemovalFails, ClassifyFailure, Linked, disk
  <2>2. Only(w)
    BY <1>0, <2>1 DEF Only, Return, Goto, TypeOK
  <2> QED BY <2>1, <2>2, RefusalIsQuiet
<1>7. CASE /\ ClassifyFailure(w) /\ Goto(w, "names") /\ op' = [op EXCEPT ![w] = "conflict"]
           /\ UNCHANGED <<job, refused>>
  <2>1. /\ at[w] = "exists" /\ at'[w] = "names" /\ op'[w] = "conflict"
        /\ UNCHANGED <<dir, durable, made, list, job, held, acked, refused>>
    BY <1>0, <1>7 DEF ClassifyFailure, Goto, TypeOK, disk
  <2>2. Only(w)
    BY <1>0, <1>7, <2>1 DEF Only, Goto, TypeOK
  <2>3. ~Linked(w) /\ ~Linked(w)' /\ Holds(w) /\ ~Expecting(w)' /\ Cleans(w)'
    BY <2>1 DEF Linked, Holds, Expecting, Cleans
  <2> QED BY <1>0, <2>1, <2>2, <2>3, MovesOn
<1> QED BY <1>1, <1>2, <1>3, <1>4, <1>5, <1>6, <1>7 DEF ClassifyFailure

\* A process that dies takes a quiet step.
LEMMA CrashIsQuiet ==
  ASSUME JournalInv, NEW w \in Writers, Crash(w)
  PROVE Quiet(w)
<1>1. /\ at'[w] = "down" /\ op'[w] = "none" /\ job'[w] = NoJob
      /\ held'[w] = Nothing /\ list'[w] = EmptyDirectory
      /\ UNCHANGED <<dir, durable, made, acked, refused>>
  BY DEF Crash, Stop, disk, reports
<1>2. Only(w)
  BY DEF Crash, Stop, Only
<1>3. /\ ~Linked(w)' /\ ~Holds(w)' /\ ~Expecting(w)'
      /\ job'[w].id = NoId /\ job'[w].why = "commit" /\ list'[w].finals = <<>>
  BY <1>1 DEF Linked, Holds, Expecting, NoJob, EmptyDirectory
<1> QED BY <1>1, <1>2, <1>3, MovesOn

(***************************************************************************)
(* The theorems.                                                           *)
(***************************************************************************)
\* Every step is quiet, or a link, or a power failure.
LEMMA Kinds ==
  ASSUME JournalInv, Next
  PROVE \/ \E w \in Writers : Quiet(w) \/ Link(w)
        \/ PowerFailure
BY BeginIsQuiet, ScanIsQuiet, PrepareIsQuiet, FinishIsQuiet, CrashIsQuiet DEF Next, Step

\* The invariant holds at first.
LEMMA InvInit == Init => JournalInv
<1> SUFFICES ASSUME Init PROVE JournalInv
  OBVIOUS
<1>1. TypeOK
  BY LimitsAssumption DEF Init, TypeOK, Places, NoJob, Nothing, NoId, Known,
     EmptyDirectory, Directory
<1>2. Ids(<<>>) = {}
  BY DEF Ids
<1>3. \A w \in Writers : ~Linked(w) /\ ~Holds(w) /\ ~Expecting(w)
  BY DEF Init, Linked, Holds, Expecting
<1>4. IdsAreMade /\ HoldsItsOwn /\ UnlinkedIsAbsent /\ LinkedIsThere
  BY <1>2, <1>3 DEF Init, IdsAreMade, HoldsItsOwn, UnlinkedIsAbsent, LinkedIsThere,
     NoJob, NoId, EmptyDirectory
<1>5. ReadsAreHistory
  BY <1>1, <1>3, NothingRead DEF Init, ReadsAreHistory, WriterReads, EmptyDirectory
<1>6. ReportsAreTrue
  BY DEF Init, ReportsAreTrue
<1> QED BY <1>1, <1>4, <1>5, <1>6 DEF JournalInv

\* The invariant is inductive.
LEMMA InvStep == JournalInv /\ [Next]_vars => JournalInv'
<1> SUFFICES ASSUME JournalInv, [Next]_vars PROVE JournalInv'
  OBVIOUS
<1>1. TypeOK'
  BY TypeStep
<1>2. CASE Next
  BY <1>1, <1>2, Kinds, QuietStep, LinkStep, PowerFailureStep
<1>3. CASE UNCHANGED vars
  BY <1>3 DEF vars, JournalInv, TypeOK, IdsAreMade, HoldsItsOwn, UnlinkedIsAbsent,
     LinkedIsThere, ReadsAreHistory, ReportsAreTrue, Holds, Linked, Cleans, WriterReads,
     IsHistory, Expecting, Durable
<1> QED BY <1>2, <1>3

LEMMA Invariance == Spec => []JournalInv
BY InvInit, InvStep, PTL DEF Spec

\* Types: the directory is one the scan accepts, and nothing is linked or
\* reported that no append made (scan, readFinal, append).
THEOREM JournalTypes == Spec => []TypeOK
<1>1. JournalInv => TypeOK
  BY DEF JournalInv
<1> QED BY <1>1, Invariance, PTL

\* What append reports as committed is on disk whatever a power failure leaves,
\* and what it reports as not written never is, for any instances and limits.
THEOREM ReportsCorrect == Spec => []ReportsAreTrue
<1>1. JournalInv => ReportsAreTrue
  BY DEF JournalInv
<1> QED BY <1>1, Invariance, PTL

(***************************************************************************)
(* The one-step journal.                                                   *)
(***************************************************************************)
\* A link is a commit: the record goes after the one its caller expected.
LEMMA LinkCommits ==
  ASSUME JournalInv, NEW w \in Writers, Link(w)
  PROVE Port!Commit
<1> DEFINE f == dir.finals
           r == [id |-> job[w].id, parent |-> job[w].after.id, expected |-> held[w].id]
<1>0. TypeOK /\ UnlinkedIsAbsent /\ ReadsAreHistory
  BY DEF JournalInv
<1>1. at[w] = "link" /\ ~(Len(f) > job[w].after.version) /\ UNCHANGED <<acked, refused>>
  BY DEF Link, Working, FinalExists, reports
<1>2. job[w].id # NoId /\ ~Linked(w)
  BY <1>1 DEF JournalInv, HoldsItsOwn, Holds, Linked
<1>3. job[w].id \notin Ids(f) \union refused
  BY <1>0, <1>2 DEF UnlinkedIsAbsent
<1>4. f \in Seq(FinalRecord) /\ Len(f) \in Nat
  BY <1>0, DirectoryTypes
<1>5. held[w].id = NewestId(f)
  <2>1. /\ held[w].version \in Nat /\ job[w].after.version = held[w].version
        /\ held[w].version <= Len(f)
        /\ held[w].id = NewestId(SubSeq(f, 1, held[w].version))
    BY <1>0, <1>1 DEF ReadsAreHistory, WriterReads, Expecting, IsHistory, TypeOK, Known
  <2>2. held[w].version = Len(f)
    BY <1>1, <1>4, <2>1
  <2>3. SubSeq(f, 1, Len(f)) = f
    BY <1>4, WholePrefix
  <2> QED BY <2>1, <2>2, <2>3
<1>6. dir'.finals = Append(f, r)
  <2> DEFINE longer == Append(f, r)
  <2>1. dir' = [dir EXCEPT !.finals = longer]
    BY DEF Link, Change
  <2> HIDE DEF longer
  <2>2. dir'.finals = longer
    BY <1>0, <2>1 DEF TypeOK, Directory
  <2> QED BY <2>2 DEF longer
<1>7. r.id = job[w].id /\ r.expected = held[w].id
  OBVIOUS
<1> HIDE DEF r
<1>8. r \in {dir'.finals[i] : i \in DOMAIN dir'.finals}
  BY <1>4, <1>6
<1>9. Ids(f) = Port!Ids(f) /\ NewestId(f) = Port!NewestId(f)
  BY DEF Ids, Port!Ids, NewestId, Port!NewestId, NoId
<1> HIDE DEF f
<1>10. /\ dir'.finals = Append(f, r)
       /\ r.id \notin Port!Ids(f) \union refused
       /\ r.expected = Port!NewestId(f)
  BY <1>3, <1>5, <1>6, <1>7, <1>9
<1> QED BY <1>1, <1>8, <1>10 DEF Port!Commit, f

\* A power failure loses only what was reported neither way.
LEMMA PowerFailureLoses ==
  ASSUME JournalInv, JournalInv', PowerFailure
  PROVE Port!Lose
<1>1. PICK n \in durable..Len(dir.finals) :
        dir' = [dir EXCEPT !.finals = SubSeq(dir.finals, 1, n)] /\ durable' = n
  BY DEF PowerFailure
<1> DEFINE f == dir.finals
           kept == SubSeq(f, 1, n)
<1>2. TypeOK
  BY DEF JournalInv
<1>3. f \in Seq(FinalRecord) /\ Len(f) \in Nat /\ n \in Nat /\ n <= Len(f)
  BY <1>2, DirectoryTypes
<1>4. Len(kept) = n /\ SubSeq(kept, 1, n) = kept
  BY <1>3
<1>5. dir'.finals = kept /\ durable' = n
  <2> HIDE DEF kept
  <2>1. dir' = [dir EXCEPT !.finals = kept]
    BY <1>1 DEF kept
  <2> QED BY <1>1, <1>2, <2>1 DEF TypeOK, Directory
<1>6. acked' = acked /\ refused' = refused
  BY DEF PowerFailure, Stop, reports
<1>7. acked \subseteq Port!Ids(dir'.finals)
  <2>1. acked' \subseteq Ids(Durable')
    BY DEF JournalInv, ReportsAreTrue
  <2>2. Durable' = dir'.finals
    BY <1>4, <1>5 DEF Durable
  <2> QED BY <1>6, <2>1, <2>2 DEF Ids, Port!Ids
<1>8. Port!IsPrefix(dir'.finals, dir.finals)
  BY <1>3, <1>4, <1>5 DEF Port!IsPrefix
<1> QED BY <1>6, <1>7, <1>8 DEF Port!Lose

\* An acknowledgement is of a record that is there.
LEMMA CleanupAcknowledges ==
  ASSUME JournalInv, NEW w \in Writers, SyncCleanup(w)
  PROVE Port!Acknowledge
<1>1. /\ at[w] = "resync" /\ acked' = acked \union {job[w].id}
      /\ dir' = dir /\ refused' = refused
  BY DEF SyncCleanup, SyncRoot
<1>2. Linked(w) /\ TypeOK
  BY <1>1 DEF Linked, JournalInv
<1>3. /\ dir.finals \in Seq(FinalRecord) /\ Len(dir.finals) \in Nat
      /\ job[w].after.version \in Nat
  BY <1>2, DirectoryTypes DEF TypeOK, Known
<1>4. /\ job[w].after.version < Len(dir.finals)
      /\ dir.finals[job[w].after.version + 1].id = job[w].id
      /\ job[w].id \notin refused
  BY <1>2 DEF JournalInv, LinkedIsThere
<1>5. job[w].id \in Ids(dir.finals)
  BY <1>3, <1>4, IdAt
<1>6. job[w].id \in Port!Ids(dir.finals) \ refused
  BY <1>4, <1>5 DEF Ids, Port!Ids
<1> QED BY <1>1, <1>6 DEF Port!Acknowledge

\* A step that leaves the finals and the acknowledgements refuses at most.
LEMMA OthersDeny ==
  ASSUME JournalInv', dir'.finals = dir.finals, acked' = acked, refused \subseteq refused'
  PROVE Port!Deny
<1>1. refused' \intersect Ids(dir'.finals) = {}
  BY DEF JournalInv, ReportsAreTrue
<1> QED BY <1>1 DEF Port!Deny, Ids, Port!Ids

\* Every step of the journal is a step of the port, or none.
LEMMA PortStep == JournalInv /\ JournalInv' /\ [Next]_vars => [Port!PortNext]_(Port!portVars)
<1> SUFFICES ASSUME JournalInv, JournalInv', [Next]_vars
             PROVE [Port!PortNext]_(Port!portVars)
  OBVIOUS
<1>1. CASE \E w \in Writers : Link(w)
  BY <1>1, LinkCommits DEF Port!PortNext
<1>2. CASE PowerFailure
  BY <1>2, PowerFailureLoses DEF Port!PortNext
<1>3. CASE \E w \in Writers : SyncCleanup(w)
  BY <1>3, CleanupAcknowledges DEF Port!PortNext
<1>4. ASSUME NEW w \in Writers, Quiet(w), acked' = acked
      PROVE [Port!PortNext]_(Port!portVars)
  BY <1>4, OthersDeny DEF Quiet, Port!PortNext
<1>5. ASSUME NEW w \in Writers,
             Initialize(w) \/ Load(w) \/ Transition(w) \/ Scan(w) \/ Crash(w)
      PROVE acked' = acked
  BY <1>5 DEF Initialize, Load, Transition, Begin, Scan, ScanNames, ScanPendings, ScanFinals,
     Crash, Stop, reports
<1>6. ASSUME NEW w \in Writers,
             \/ AssertCapacity(w) \/ ReservePendingDirectory(w) \/ ReserveFails(w)
             \/ AssertFinalAbsent(w) \/ WriteRecord(w) \/ WriteFails(w) \/ LinkFails(w)
      PROVE acked' = acked
  BY <1>6 DEF AssertCapacity, ReservePendingDirectory, ReserveFails, AssertFinalAbsent,
     WriteRecord, WriteFails, LinkFails, GivesUp, reports
<1>7. ASSUME NEW w \in Writers,
             \/ SyncCommit(w) \/ Unlink(w) \/ Rmdir(w)
             \/ CommitUnknown(w) \/ RemovalFails(w) \/ ClassifyFailure(w)
      PROVE acked' = acked
  BY <1>7 DEF SyncCommit, Unlink, Rmdir, CommitUnknown, RemovalFails, ClassifyFailure, reports
<1>8. CASE UNCHANGED vars
  BY <1>8 DEF vars, Port!portVars
<1> QED
  BY <1>1, <1>2, <1>3, <1>4, <1>5, <1>6, <1>7, <1>8,
     BeginIsQuiet, ScanIsQuiet, PrepareIsQuiet, FinishIsQuiet, CrashIsQuiet DEF Next, Step

\* The journal, step by step, is the one-step compare-and-swap journal.
THEOREM JournalImplementsPort == Spec => ImplementsPort
<1>1. Init => Port!PortInit
  BY DEF Init, Port!PortInit, EmptyDirectory
<1>2. JournalInv /\ JournalInv' /\ [Next]_vars => [Port!PortNext]_(Port!portVars)
  BY PortStep
<1> QED BY <1>1, <1>2, Invariance, PTL DEF Spec, ImplementsPort, Port!PortSpec

(***************************************************************************)
(* Scans.  A directory that only the appends of this journal have changed, *)
(* stopped anywhere, is one a scan finds sound at any of its own steps.     *)
(***************************************************************************)
\* Each record follows the one before it.
IsChain(s) == \A i \in DOMAIN s : s[i].parent = NewestId(SubSeq(s, 1, i - 1))

\* What a scan has listed so far explains the doubly linked records there are.
Listed(w) ==
  /\ at[w] = "pendings" => Ids(list[w].finals) \intersect dir.records \subseteq list[w].dirs
  /\ at[w] = "finals" => Ids(list[w].finals) \intersect dir.records \subseteq list[w].records

\* An append goes after a record of the history, within the limit of the
\* finals, and removes its record before its directory.
Builds(w) ==
  /\ Expecting(w) => IsHistory(job[w].after)
  /\ Expecting(w) /\ at[w] # "capacity" => job[w].after.version < FinalLimit
  /\ at[w] \in {"absent", "write"} => job[w].id \in dir.dirs
  /\ at[w] = "rmdir" => job[w].id \notin dir.records

ScansInv ==
  /\ IsChain(dir.finals) /\ Len(dir.finals) <= FinalLimit
  /\ dir.records \subseteq dir.dirs
  /\ \A w \in Writers : Listed(w) /\ Builds(w)
  /\ unhealthy = {}

\* What a step of w does to the pending entries.
Files(w) ==
  /\ dir'.records \subseteq dir.records \union (IF at[w] = "write" THEN {job[w].id} ELSE {})
  /\ dir.dirs \subseteq dir'.dirs \union (IF at[w] = "rmdir" THEN {job[w].id} ELSE {})

\* The pending entries after a change of either kind.
LEMMA EntriesChanged ==
  ASSUME TypeOK, NEW ids
  PROVE /\ Change([dir EXCEPT !.dirs = ids]) =>
             dir'.dirs = ids /\ dir'.records = dir.records /\ dir'.finals = dir.finals
        /\ Change([dir EXCEPT !.records = ids]) =>
             dir'.records = ids /\ dir'.dirs = dir.dirs /\ dir'.finals = dir.finals
        /\ Change([dir EXCEPT !.finals = ids]) =>
             dir'.finals = ids /\ dir'.dirs = dir.dirs /\ dir'.records = dir.records
BY DEF TypeOK, Directory, Change

\* A place of which nothing is asked.
LEMMA NothingAsked ==
  ASSUME NEW w \in Writers,
         at'[w] \in {"down", "idle", "names", "sync", "unlink", "resync", "exists"}
  PROVE Listed(w)' /\ Builds(w)'
BY DEF Listed, Builds, Expecting

\* What was the history of a shorter directory is that of a longer one.
LEMMA HistoryGrows ==
  ASSUME TypeOK, NEW r \in FinalRecord, dir'.finals = Append(dir.finals, r),
         NEW known \in Known, IsHistory(known)
  PROVE /\ known.version <= Len(dir'.finals)
        /\ known.id = NewestId(SubSeq(dir'.finals, 1, known.version))
<1>1. dir.finals \in Seq(FinalRecord) /\ Len(dir.finals) \in Nat
  BY DirectoryTypes
<1>2. known.version \in 0..Len(dir.finals)
  BY <1>1 DEF IsHistory, Known
<1>3. Len(dir'.finals) = Len(dir.finals) + 1
      /\ SubSeq(dir'.finals, 1, known.version) = SubSeq(dir.finals, 1, known.version)
  BY <1>1, <1>2, LongerHistory
<1>4. known.id = NewestId(SubSeq(dir.finals, 1, known.version))
  BY DEF IsHistory
<1>5. known.version <= Len(dir'.finals)
  BY <1>1, <1>2, <1>3
<1> QED BY <1>3, <1>4, <1>5

\* The other instances keep what is asked of them.
LEMMA OthersKeep ==
  ASSUME JournalInv, ScansInv, NEW w \in Writers, Only(w), Files(w),
         \/ dir'.finals = dir.finals
         \/ \E r \in FinalRecord : dir'.finals = Append(dir.finals, r),
         NEW v \in Writers \ {w}
  PROVE Listed(v)' /\ Builds(v)'
<1>0. TypeOK /\ UnlinkedIsAbsent /\ HoldsItsOwn /\ WriterReads(v) /\ Listed(v) /\ Builds(v)
  BY DEF JournalInv, ReadsAreHistory, ScansInv
<1>1. at'[v] = at[v] /\ list'[v] = list[v] /\ job'[v] = job[v]
  BY DEF Only
<1>2. Ids(list[v].finals) \subseteq Ids(dir.finals)
  <2>1. dir.finals \in Seq(FinalRecord) /\ Len(dir.finals) \in Nat
        /\ list[v].finals \in Seq(FinalRecord) /\ IsPrefix(list[v].finals, dir.finals)
    BY <1>0, DirectoryTypes DEF TypeOK, Directory, WriterReads
  <2>2. Len(list[v].finals) \in Nat /\ Len(list[v].finals) <= Len(dir.finals)
        /\ list[v].finals = SubSeq(dir.finals, 1, Len(list[v].finals))
    BY <2>1, WholePrefix DEF IsPrefix
  <2> DEFINE n == Len(list[v].finals)
  <2>3. Ids(SubSeq(dir.finals, 1, n)) \subseteq Ids(dir.finals)
    BY <2>1, <2>2, PrefixIds
  <2> QED BY <2>2, <2>3
<1>3. at[w] = "write" => job[w].id \notin Ids(dir.finals)
  BY <1>0 DEF UnlinkedIsAbsent, Linked, HoldsItsOwn, Holds
<1>4. Listed(v)'
  BY <1>0, <1>1, <1>2, <1>3 DEF Listed, Files
<1>5. at[v] \in {"absent", "write", "rmdir"} => job[v].id # job[w].id
  BY <1>0 DEF HoldsItsOwn, Holds
<1>6. job[v].after \in Known
  BY <1>0 DEF TypeOK
<1>7. Expecting(v) => IsHistory(job[v].after)'
  BY <1>0, <1>1, <1>6, HistoryGrows DEF Builds, IsHistory
<1> QED BY <1>0, <1>1, <1>4, <1>5, <1>7 DEF Builds, Expecting, Files

\* A chain's beginnings are chains.
LEMMA ChainPrefix ==
  ASSUME NEW s \in Seq(FinalRecord), IsChain(s), NEW n \in 0..Len(s)
  PROVE IsChain(SubSeq(s, 1, n))
<1> DEFINE p == SubSeq(s, 1, n)
<1>1. Len(s) \in Nat /\ n \in Nat /\ n <= Len(s) /\ DOMAIN p = 1..n /\ DOMAIN s = 1..Len(s)
  OBVIOUS
<1>2. ASSUME NEW i \in 1..n
      PROVE p[i] = s[i] /\ SubSeq(p, 1, i - 1) = SubSeq(s, 1, i - 1) /\ i \in DOMAIN s
  <2>1. i - 1 \in Nat /\ i - 1 <= n
    BY <1>1
  <2> QED BY <1>1, <2>1, PrefixOfPrefix
<1> HIDE DEF p
<1> QED BY <1>1, <1>2 DEF IsChain, p

\* One record more after the newest makes a chain longer.
LEMMA ChainGrows ==
  ASSUME NEW s \in Seq(FinalRecord), IsChain(s), NEW r \in FinalRecord, r.parent = NewestId(s)
  PROVE IsChain(Append(s, r))
<1> DEFINE t == Append(s, r)
<1>1. /\ Len(s) \in Nat /\ DOMAIN t = 1..(Len(s) + 1) /\ DOMAIN s = 1..Len(s)
      /\ t[Len(s) + 1] = r /\ SubSeq(s, 1, Len(s)) = s
      /\ \A i \in 1..Len(s) : t[i] = s[i]
      /\ \A n \in 0..Len(s) : SubSeq(t, 1, n) = SubSeq(s, 1, n)
  BY LongerHistory, WholePrefix
<1> HIDE DEF t
<1>2. ASSUME NEW i \in 1..Len(s) PROVE t[i].parent = NewestId(SubSeq(t, 1, i - 1))
  <2>1. i - 1 \in 0..Len(s)
    BY <1>1
  <2> QED BY <1>1, <2>1 DEF IsChain
<1>3. t[Len(s) + 1].parent = NewestId(SubSeq(t, 1, Len(s) + 1 - 1))
  <2>1. Len(s) + 1 - 1 = Len(s) /\ Len(s) \in 0..Len(s)
    BY <1>1
  <2> QED BY <1>1, <2>1
<1>4. \A i \in 1..(Len(s) + 1) : i \in 1..Len(s) \/ i = Len(s) + 1
  BY <1>1
<1> QED BY <1>1, <1>2, <1>3, <1>4 DEF IsChain, t

\* A listing that is a beginning of the finals is sound.
LEMMA ListingIsSound ==
  ASSUME JournalInv, ScansInv, NEW w \in Writers, at[w] = "finals"
  PROVE Sound(list[w])
<1>0. TypeOK /\ WriterReads(w) /\ Listed(w)
  BY DEF JournalInv, ReadsAreHistory, ScansInv
<1>1. dir.finals \in Seq(FinalRecord) /\ Len(dir.finals) \in Nat
      /\ list[w].finals \in Seq(FinalRecord) /\ IsPrefix(list[w].finals, dir.finals)
  BY <1>0, DirectoryTypes DEF TypeOK, Directory, WriterReads
<1>2. Len(list[w].finals) \in 0..Len(dir.finals)
      /\ list[w].finals = SubSeq(dir.finals, 1, Len(list[w].finals))
  BY <1>1, WholePrefix DEF IsPrefix
<1>3. IsChain(list[w].finals)
  BY <1>1, <1>2, ChainPrefix DEF ScansInv
<1>4. Len(list[w].finals) <= FinalLimit
  BY <1>1, <1>2, LimitsAssumption DEF ScansInv
<1> QED BY <1>0, <1>3, <1>4 DEF Sound, Listed, IsChain

\* A sound scan leads on: the append goes after the newest record.
LEMMA ContinueKeeps ==
  ASSUME JournalInv, ScansInv, NEW w \in Writers, at[w] = "finals", Continue(w, TRUE),
         UNCHANGED dir
  PROVE Listed(w)' /\ Builds(w)' /\ unhealthy' = {}
<1>0. TypeOK /\ WriterReads(w)
  BY DEF JournalInv, ReadsAreHistory
<1>1. unhealthy' = {}
  BY DEF Continue, ScansInv
<1>2. CASE op[w] = "conflict" /\ Abandon(w)
  <2>1. at'[w] \in {"unlink", "idle"}
    BY <1>0, <1>2 DEF Abandon, Return, Goto, TypeOK
  <2> QED BY <1>1, <2>1, NothingAsked
<1>3. CASE Return(w)
  <2>1. at'[w] = "idle"
    BY <1>0, <1>3 DEF Return, Goto, TypeOK
  <2> QED BY <1>1, <2>1, NothingAsked
<1>4. CASE Goto(w, "capacity") /\ job' = [job EXCEPT ![w].after = Newest(list[w].finals)]
  <2>1. IsHistory(Newest(list[w].finals))
    BY <1>0, NewestIsHistory DEF WriterReads
  <2>2. job[w] \in Jobs
    BY <1>0 DEF TypeOK, Jobs
  <2>3. at'[w] = "capacity" /\ job'[w].after = Newest(list[w].finals)
    BY <1>0, <1>4, <2>2 DEF Goto, TypeOK, Jobs
  <2> QED BY <1>1, <2>1, <2>3 DEF Listed, Builds, IsHistory
<1> QED BY <1>2, <1>3, <1>4 DEF Continue

\* The pending directories are finitely many.
LEMMA FiniteDirs ==
  ASSUME NEW ids \in SUBSET RecordIds
  PROVE IsFiniteSet(ids) /\ Cardinality(ids) \in Nat /\ Cardinality(ids) <= MaxAppends
<1>1. IsFiniteSet(1..MaxAppends) /\ Cardinality(1..MaxAppends) = MaxAppends
  BY LimitsAssumption, FS_Interval
<1> QED BY <1>1, FS_Subset, FS_CardinalityType DEF RecordIds

\* The scan's own steps.
LEMMA ScanKeeps ==
  ASSUME JournalInv, ScansInv, PendingIsBounded, NEW w \in Writers, Scan(w)
  PROVE UNCHANGED dir /\ Listed(w)' /\ Builds(w)' /\ unhealthy' = {}
<1>0. TypeOK /\ Listed(w)
  BY DEF JournalInv, ScansInv
<1>1. CASE ScanNames(w)
  <2>1. ~(Cardinality(dir.dirs) > PendingLimit)
    <3>1. Cardinality(dir.dirs) \in Nat
      BY <1>0, DirectoryTypes, FiniteDirs
    <3> QED BY <3>1, LimitsAssumption DEF PendingIsBounded
  <2>2. /\ Goto(w, "pendings") /\ list' = [list EXCEPT ![w] = [dir EXCEPT !.records = {}]]
        /\ UNCHANGED <<unhealthy, dir>>
    BY <1>1, <2>1 DEF ScanNames, disk
  <2>3. at'[w] = "pendings" /\ list'[w].finals = dir.finals /\ list'[w].dirs = dir.dirs
    BY <1>0, <2>2 DEF Goto, TypeOK, Directory
  <2> QED BY <2>2, <2>3 DEF Listed, Builds, Expecting, ScansInv
<1>2. CASE ScanPendings(w)
  <2>1. at[w] = "pendings" /\ at'[w] = "finals" /\ UNCHANGED <<unhealthy, dir>>
    BY <1>0, <1>2 DEF ScanPendings, Goto, TypeOK, disk
  <2>2. list'[w].finals = list[w].finals /\ list'[w].records = list[w].dirs \intersect dir.records
    BY <1>0, <1>2 DEF ScanPendings, TypeOK, Directory
  <2> QED BY <1>0, <2>1, <2>2 DEF Listed, Builds, Expecting, ScansInv
<1>3. CASE ScanFinals(w)
  BY <1>3, ListingIsSound, ContinueKeeps DEF ScanFinals, disk
<1> QED BY <1>1, <1>2, <1>3 DEF Scan

\* The append's own steps before the link.
LEMMA PrepareKeeps ==
  ASSUME JournalInv, ScansInv, NEW w \in Writers,
         \/ AssertCapacity(w) \/ ReservePendingDirectory(w) \/ ReserveFails(w)
         \/ AssertFinalAbsent(w) \/ WriteRecord(w) \/ WriteFails(w) \/ LinkFails(w)
  PROVE /\ Files(w) /\ dir'.records \subseteq dir'.dirs
        /\ Listed(w)' /\ Builds(w)' /\ UNCHANGED unhealthy
<1>0. TypeOK /\ Builds(w) /\ dir.records \subseteq dir.dirs /\ job[w] \in Jobs
  BY DEF JournalInv, ScansInv, TypeOK, Jobs
<1>1. UNCHANGED unhealthy
  BY DEF AssertCapacity, ReservePendingDirectory, ReserveFails, AssertFinalAbsent, WriteRecord,
     WriteFails, LinkFails, Working
<1>2. UNCHANGED dir => Files(w) /\ dir'.records \subseteq dir'.dirs
  BY <1>0 DEF Files
<1>3. CASE AssertCapacity(w)
  <2>1. UNCHANGED dir /\ at[w] = "capacity"
    BY <1>3 DEF AssertCapacity, Working, disk
  <2>2. CASE Return(w)
    <3>1. at'[w] = "idle"
      BY <1>0, <2>2 DEF Return, Goto, TypeOK
    <3> QED BY <1>1, <1>2, <2>1, <3>1, NothingAsked
  <2>3. CASE job[w].after.version < FinalLimit /\ Goto(w, "mkdir") /\ UNCHANGED job
    <3>1. at'[w] = "mkdir"
      BY <1>0, <2>3 DEF Goto, TypeOK
    <3> QED BY <1>0, <1>1, <1>2, <2>1, <2>3, <3>1 DEF Listed, Builds, Expecting, IsHistory
  <2> QED BY <1>3, <2>2, <2>3 DEF AssertCapacity
<1>4. CASE ReserveFails(w)
  <2>1. at'[w] = "idle" /\ UNCHANGED dir
    BY <1>0, <1>4 DEF ReserveFails, Return, Goto, TypeOK, disk
  <2> QED BY <1>1, <1>2, <2>1, NothingAsked
<1>5. CASE ReservePendingDirectory(w)
  <2> DEFINE ids == dir.dirs \union {made'}
  <2>1. Change([dir EXCEPT !.dirs = ids]) /\ at[w] = "mkdir"
    BY <1>5 DEF ReservePendingDirectory, Working
  <2>2. at'[w] = "absent" /\ job'[w].id = made' /\ job'[w].after = job[w].after
    BY <1>0, <1>5 DEF ReservePendingDirectory, Goto, TypeOK, Jobs
  <2>3. made' \in ids /\ dir.dirs \subseteq ids
    OBVIOUS
  <2> HIDE DEF ids
  <2>4. dir'.dirs = ids /\ dir'.records = dir.records /\ dir'.finals = dir.finals
    BY <1>0, <2>1, EntriesChanged
  <2>5. Files(w) /\ dir'.records \subseteq dir'.dirs
    BY <1>0, <2>3, <2>4 DEF Files
  <2> QED BY <1>0, <1>1, <2>1, <2>2, <2>3, <2>4, <2>5 DEF Listed, Builds, Expecting, IsHistory
<1>6. CASE AssertFinalAbsent(w)
  <2>1. at[w] = "absent" /\ at'[w] \in {"names", "link", "write"} /\ UNCHANGED <<dir, job>>
    BY <1>0, <1>6 DEF AssertFinalAbsent, Goto, TypeOK, disk
  <2> QED BY <1>0, <1>1, <1>2, <2>1 DEF Listed, Builds, Expecting, IsHistory
<1>7. CASE WriteRecord(w) \/ WriteFails(w)
  <2> DEFINE ids == dir.records \union {job[w].id}
  <2>1. at[w] = "write" /\ (UNCHANGED dir \/ Change([dir EXCEPT !.records = ids]))
    BY <1>7 DEF WriteRecord, WriteFails, Working, disk
  <2>2. ids \subseteq dir.dirs
    BY <1>0, <2>1 DEF Builds
  <2>3. \/ at'[w] = "absent" /\ job' = job
        \/ at'[w] = "unlink"
    BY <1>0, <1>7 DEF WriteRecord, WriteFails, GivesUp, Goto, TypeOK
  <2>4. dir'.records \subseteq ids /\ dir'.dirs = dir.dirs /\ dir'.finals = dir.finals
    <3>1. dir.records \subseteq ids
      OBVIOUS
    <3> HIDE DEF ids
    <3> QED BY <1>0, <2>1, <3>1, EntriesChanged
  <2>5. Files(w) /\ dir'.records \subseteq dir'.dirs
    BY <2>1, <2>2, <2>4 DEF Files
  <2> QED BY <1>0, <1>1, <2>1, <2>3, <2>4, <2>5 DEF Listed, Builds, Expecting, IsHistory
<1>8. CASE LinkFails(w)
  <2>1. at'[w] = "unlink" /\ UNCHANGED dir
    BY <1>0, <1>8 DEF LinkFails, GivesUp, Goto, TypeOK, disk
  <2> QED BY <1>1, <1>2, <2>1, NothingAsked
<1> QED BY <1>3, <1>4, <1>5, <1>6, <1>7, <1>8

\* The append's own steps after the link, or after a failure.
LEMMA FinishKeeps ==
  ASSUME JournalInv, ScansInv, NEW w \in Writers,
         \/ SyncCommit(w) \/ Unlink(w) \/ Rmdir(w) \/ SyncCleanup(w)
         \/ CommitUnknown(w) \/ RemovalFails(w) \/ ClassifyFailure(w)
  PROVE /\ Files(w) /\ dir'.records \subseteq dir'.dirs
        /\ Listed(w)' /\ Builds(w)' /\ UNCHANGED unhealthy
<1>0. TypeOK /\ Builds(w) /\ dir.records \subseteq dir.dirs
  BY DEF JournalInv, ScansInv
<1>1. UNCHANGED unhealthy
  BY DEF SyncCommit, Unlink, Rmdir, SyncCleanup, CommitUnknown, RemovalFails, ClassifyFailure,
     Working
<1>2. UNCHANGED dir => Files(w) /\ dir'.records \subseteq dir'.dirs
  BY <1>0 DEF Files
<1>3. CASE SyncCommit(w) \/ SyncCleanup(w) \/ CommitUnknown(w) \/ RemovalFails(w)
           \/ ClassifyFailure(w)
  <2>1. UNCHANGED dir
    BY <1>3 DEF SyncCommit, SyncCleanup, SyncRoot, CommitUnknown, RemovalFails, ClassifyFailure,
       disk
  <2>2. at'[w] \in {"unlink", "idle", "names"}
    BY <1>0, <1>3 DEF SyncCommit, SyncCleanup, CommitUnknown, RemovalFails, ClassifyFailure,
       Return, Goto, TypeOK
  <2> QED BY <1>1, <1>2, <2>1, <2>2, NothingAsked
<1>4. CASE Unlink(w)
  <2> DEFINE ids == dir.records \ {job[w].id}
  <2>1. Change([dir EXCEPT !.records = ids]) /\ job' = job /\ at'[w] = "rmdir"
    BY <1>0, <1>4 DEF Unlink, Working, Goto, TypeOK
  <2>2. ids \subseteq dir.records /\ job[w].id \notin ids
    OBVIOUS
  <2> HIDE DEF ids
  <2>3. dir'.records = ids /\ dir'.dirs = dir.dirs
    BY <1>0, <2>1, EntriesChanged
  <2> QED BY <1>0, <1>1, <2>1, <2>2, <2>3 DEF Files, Listed, Builds, Expecting
<1>5. CASE Rmdir(w)
  <2> DEFINE ids == dir.dirs \ {job[w].id}
  <2>1. Change([dir EXCEPT !.dirs = ids]) /\ at[w] = "rmdir"
    BY <1>5 DEF Rmdir, Working
  <2>2. job[w].id \notin dir.records
    BY <1>0, <2>1 DEF Builds
  <2>3. dir.records \subseteq ids /\ dir.dirs \subseteq ids \union {job[w].id}
    BY <1>0, <2>2
  <2> HIDE DEF ids
  <2>4. dir'.dirs = ids /\ dir'.records = dir.records
    BY <1>0, <2>1, EntriesChanged
  <2>5. at'[w] \in {"idle", "resync", "exists"}
    BY <1>0, <1>5 DEF Rmdir, Return, Goto, TypeOK
  <2> QED BY <1>1, <2>1, <2>3, <2>4, <2>5, NothingAsked DEF Files
<1> QED BY <1>3, <1>4, <1>5

\* The link makes the chain longer, within its limit.
LEMMA LinkKeeps ==
  ASSUME JournalInv, ScansInv, NEW w \in Writers, Link(w)
  PROVE /\ Only(w) /\ Files(w) /\ dir'.records \subseteq dir'.dirs
        /\ \E r \in FinalRecord : dir'.finals = Append(dir.finals, r)
        /\ IsChain(dir'.finals) /\ Len(dir'.finals) <= FinalLimit
        /\ Listed(w)' /\ Builds(w)' /\ UNCHANGED unhealthy
<1> DEFINE f == dir.finals
           r == [id |-> job[w].id, parent |-> job[w].after.id, expected |-> held[w].id]
<1>0. TypeOK /\ Builds(w) /\ dir.records \subseteq dir.dirs /\ IsChain(f) /\ Len(f) <= FinalLimit
  BY DEF JournalInv, ScansInv
<1>1. at[w] = "link" /\ ~(Len(f) > job[w].after.version) /\ UNCHANGED unhealthy
  BY DEF Link, Working, FinalExists
<1>2. at'[w] = "sync" /\ Only(w)
  BY <1>0 DEF Link, Working, Goto, TypeOK, Only
<1>3. f \in Seq(FinalRecord) /\ Len(f) \in Nat
  BY <1>0, DirectoryTypes
<1>4. /\ job[w].after.version = Len(f) /\ job[w].after.version < FinalLimit
      /\ job[w].after.id = NewestId(f)
  <2>1. /\ job[w].after.version \in Nat /\ job[w].after.version <= Len(f)
        /\ job[w].after.id = NewestId(SubSeq(f, 1, job[w].after.version))
        /\ job[w].after.version < FinalLimit
    BY <1>0, <1>1 DEF Builds, Expecting, IsHistory, TypeOK, Known
  <2>2. job[w].after.version = Len(f)
    BY <1>1, <1>3, <2>1
  <2>3. SubSeq(f, 1, Len(f)) = f
    BY <1>3, WholePrefix
  <2> QED BY <2>1, <2>2, <2>3
<1>5. r \in FinalRecord
  <2>1. job[w].id # NoId
    BY <1>1 DEF JournalInv, HoldsItsOwn, Holds
  <2> QED BY <1>0, <2>1 DEF TypeOK, FinalRecord, Known
<1>6. dir'.finals = Append(f, r) /\ UNCHANGED <<dir.dirs, dir.records>>
  <2> DEFINE longer == Append(f, r)
  <2>1. Change([dir EXCEPT !.finals = longer])
    BY DEF Link
  <2> HIDE DEF longer
  <2>2. dir'.finals = longer /\ dir'.dirs = dir.dirs /\ dir'.records = dir.records
    BY <1>0, <2>1, EntriesChanged
  <2> QED BY <2>2 DEF longer
<1>7. r.parent = NewestId(f)
  BY <1>4
<1> HIDE DEF r
<1>8. IsChain(dir'.finals) /\ Len(dir'.finals) <= FinalLimit
  <2>1. Len(Append(f, r)) = Len(f) + 1
    BY <1>3, <1>5, LongerHistory
  <2> QED BY <1>0, <1>3, <1>4, <1>5, <1>6, <1>7, <2>1, ChainGrows, LimitsAssumption
<1>9. Files(w) /\ dir'.records \subseteq dir'.dirs
  BY <1>0, <1>6 DEF Files
<1> QED BY <1>1, <1>2, <1>5, <1>6, <1>8, <1>9, NothingAsked

\* Every step keeps the directory one that scans find sound, as long as the
\* pending entries stay within their limit.
LEMMA ScansStep ==
  ASSUME JournalInv, ScansInv, PendingIsBounded, [Next]_vars
  PROVE ScansInv'
<1>0. TypeOK
  BY DEF JournalInv
<1>1. ASSUME NEW w \in Writers, Only(w), Files(w), dir'.records \subseteq dir'.dirs,
             \/ dir'.finals = dir.finals
             \/ /\ \E r \in FinalRecord : dir'.finals = Append(dir.finals, r)
                /\ IsChain(dir'.finals) /\ Len(dir'.finals) <= FinalLimit,
             Listed(w)', Builds(w)', unhealthy' = {}
      PROVE ScansInv'
  <2>1. \A v \in Writers \ {w} : Listed(v)' /\ Builds(v)'
    BY <1>1, OthersKeep
  <2>2. IsChain(dir'.finals) /\ Len(dir'.finals) <= FinalLimit
    BY <1>1 DEF ScansInv
  <2> QED BY <1>1, <2>1, <2>2 DEF ScansInv, IsChain
<1>2. ASSUME NEW w \in Writers, UNCHANGED dir
      PROVE Files(w) /\ dir'.records \subseteq dir'.dirs /\ dir'.finals = dir.finals
  BY <1>2 DEF ScansInv, Files
<1>3. \A w \in Writers : Quiet(w) => Only(w) /\ dir'.finals = dir.finals
  BY DEF Quiet
<1>4. unhealthy = {}
  BY DEF ScansInv
<1>5. ASSUME NEW w \in Writers, Initialize(w) \/ Load(w) \/ Transition(w) PROVE ScansInv'
  <2>1. at'[w] = "names" /\ UNCHANGED <<dir, unhealthy>>
    BY <1>0, <1>5 DEF Initialize, Load, Transition, Begin, Goto, TypeOK, disk
  <2> QED BY <1>1, <1>2, <1>3, <1>4, <1>5, <2>1, BeginIsQuiet, NothingAsked
<1>6. ASSUME NEW w \in Writers, Scan(w) PROVE ScansInv'
  BY <1>1, <1>2, <1>3, <1>6, ScanIsQuiet, ScanKeeps
<1>7. ASSUME NEW w \in Writers,
             \/ AssertCapacity(w) \/ ReservePendingDirectory(w) \/ ReserveFails(w)
             \/ AssertFinalAbsent(w) \/ WriteRecord(w) \/ WriteFails(w) \/ LinkFails(w)
      PROVE ScansInv'
  BY <1>1, <1>3, <1>4, <1>7, PrepareIsQuiet, PrepareKeeps
<1>8. ASSUME NEW w \in Writers,
             \/ SyncCommit(w) \/ Unlink(w) \/ Rmdir(w) \/ SyncCleanup(w)
             \/ CommitUnknown(w) \/ RemovalFails(w) \/ ClassifyFailure(w)
      PROVE ScansInv'
  BY <1>1, <1>3, <1>4, <1>8, FinishIsQuiet, FinishKeeps
<1>9. ASSUME NEW w \in Writers, Link(w) PROVE ScansInv'
  BY <1>1, <1>4, <1>9, LinkKeeps
<1>10. ASSUME NEW w \in Writers, Crash(w) PROVE ScansInv'
  <2>1. at'[w] = "down" /\ UNCHANGED dir /\ unhealthy' = {}
    BY <1>4, <1>10 DEF Crash, Stop, disk
  <2> QED BY <1>1, <1>2, <1>3, <1>10, <2>1, CrashIsQuiet, NothingAsked
<1>11. CASE PowerFailure
  <2>1. PICK n \in durable..Len(dir.finals) : dir' = [dir EXCEPT !.finals = SubSeq(@, 1, n)]
    BY <1>11 DEF PowerFailure
  <2>2. /\ dir.finals \in Seq(FinalRecord) /\ Len(dir.finals) \in Nat
        /\ durable \in 0..Len(dir.finals) /\ n \in 0..Len(dir.finals)
    BY <1>0, DirectoryTypes
  <2>3. /\ dir'.finals = SubSeq(dir.finals, 1, n)
        /\ dir'.dirs = dir.dirs /\ dir'.records = dir.records
    <3> DEFINE kept == SubSeq(dir.finals, 1, n)
    <3>1. dir' = [dir EXCEPT !.finals = kept]
      BY <2>1
    <3> HIDE DEF kept
    <3>2. dir'.finals = kept /\ dir'.dirs = dir.dirs /\ dir'.records = dir.records
      BY <1>0, <3>1 DEF TypeOK, Directory
    <3> QED BY <3>2 DEF kept
  <2>4. IsChain(dir'.finals) /\ Len(dir'.finals) <= FinalLimit
    <3>1. Len(SubSeq(dir.finals, 1, n)) <= Len(dir.finals)
          /\ Len(SubSeq(dir.finals, 1, n)) \in Nat
      BY <2>2
    <3> QED BY <2>2, <2>3, <3>1, ChainPrefix, LimitsAssumption DEF ScansInv
  <2>5. \A w \in Writers : at'[w] = "down"
    BY <1>11 DEF PowerFailure, Stop
  <2>6. unhealthy' = {}
    BY <1>4, <1>11 DEF PowerFailure, Stop
  <2> QED BY <2>3, <2>4, <2>5, <2>6, NothingAsked DEF ScansInv, IsChain
<1>12. CASE UNCHANGED vars
  BY <1>12 DEF vars, ScansInv, Listed, Builds, Expecting, IsHistory, IsChain
<1> QED BY <1>5, <1>6, <1>7, <1>8, <1>9, <1>10, <1>11, <1>12 DEF Next, Step

(***************************************************************************)
(* The limit of the pending entries, for one instance, or out of reach.     *)
(***************************************************************************)
\* One instance at a time, as the operator lock has it, or fewer appends than
\* the limit: two instances can pass assertCapacity together and exceed it.
LimitIsSafe == (\A v, w \in Writers : v = w) \/ MaxAppends <= PendingLimit

PendingInv ==
  /\ PendingIsBounded
  /\ \A w \in Writers :
       at[w] = "mkdir" /\ ~(MaxAppends <= PendingLimit) => Cardinality(dir.dirs) < PendingLimit

\* Every step keeps the pending directories within their limit.
LEMMA PendingStep ==
  ASSUME LimitIsSafe, JournalInv, TypeOK', PendingInv, [Next]_vars
  PROVE PendingInv'
<1>0. TypeOK
  BY DEF JournalInv
<1>1. /\ Cardinality(dir'.dirs) \in Nat /\ Cardinality(dir'.dirs) <= MaxAppends
      /\ Cardinality(dir.dirs) \in Nat /\ IsFiniteSet(dir.dirs)
  <2>1. dir.dirs \subseteq RecordIds /\ dir'.dirs \subseteq RecordIds
    BY <1>0 DEF TypeOK, Directory
  <2> QED BY <2>1, FiniteDirs
<1>2. CASE MaxAppends <= PendingLimit
  BY <1>1, <1>2, LimitsAssumption DEF PendingInv, PendingIsBounded
<1>3. CASE \A v, w \in Writers : v = w
  <2>1. ASSUME dir'.dirs \subseteq dir.dirs, \A w \in Writers : at'[w] # "mkdir" PROVE PendingInv'
    <3>1. Cardinality(dir'.dirs) <= Cardinality(dir.dirs)
      BY <1>1, <2>1, FS_Subset
    <3> QED BY <1>1, <2>1, <3>1, LimitsAssumption DEF PendingInv, PendingIsBounded
  <2>2. ASSUME NEW w \in Writers, at'[w] # "mkdir" PROVE \A v \in Writers : at'[v] # "mkdir"
    BY <1>3, <2>2
  <2>3. ASSUME NEW w \in Writers, AssertCapacity(w) PROVE PendingInv'
    <3>1. UNCHANGED dir
      BY <2>3 DEF AssertCapacity, disk
    <3>2. at'[w] = "mkdir" => Cardinality(dir.dirs) < PendingLimit
      BY <1>0, <2>3 DEF AssertCapacity, Return, Goto, TypeOK
    <3> QED BY <1>3, <3>1, <3>2 DEF PendingInv, PendingIsBounded
  <2>4. ASSUME NEW w \in Writers, ReservePendingDirectory(w) PROVE PendingInv'
    <3> DEFINE ids == dir.dirs \union {made'}
    <3>1. Change([dir EXCEPT !.dirs = ids]) /\ at[w] = "mkdir" /\ at'[w] = "absent"
      BY <1>0, <2>4 DEF ReservePendingDirectory, Working, Goto, TypeOK
    <3>2. Cardinality(ids) <= Cardinality(dir.dirs) + 1 /\ Cardinality(ids) \in Nat
      <4>1. Cardinality(ids) = IF made' \in dir.dirs THEN Cardinality(dir.dirs)
                               ELSE Cardinality(dir.dirs) + 1
        BY <1>1, FS_AddElement, Zenon
      <4> QED BY <1>1, <4>1
    <3> HIDE DEF ids
    <3>3. dir'.dirs = ids
      BY <1>0, <3>1, EntriesChanged
    <3>4. Cardinality(dir'.dirs) <= PendingLimit
      <4>1. CASE MaxAppends <= PendingLimit
        BY <1>1, <4>1, LimitsAssumption
      <4>2. CASE ~(MaxAppends <= PendingLimit)
        BY <1>1, <3>1, <3>2, <3>3, <4>2, LimitsAssumption DEF PendingInv
      <4> QED BY <4>1, <4>2
    <3> QED BY <2>2, <3>1, <3>4 DEF PendingInv, PendingIsBounded
  <2>5. ASSUME NEW w \in Writers,
               \/ ReserveFails(w) \/ AssertFinalAbsent(w) \/ LinkFails(w) \/ SyncCommit(w)
               \/ SyncCleanup(w) \/ CommitUnknown(w) \/ RemovalFails(w) \/ ClassifyFailure(w)
               \/ Initialize(w) \/ Load(w) \/ Transition(w) \/ Scan(w) \/ Crash(w)
        PROVE PendingInv'
    <3>1. UNCHANGED dir
      BY <2>5 DEF ReserveFails, AssertFinalAbsent, LinkFails, SyncCommit, SyncCleanup, SyncRoot,
         CommitUnknown, RemovalFails, ClassifyFailure, Initialize, Load, Transition, Begin,
         Scan, ScanNames, ScanPendings, ScanFinals, Crash, disk
    <3>2. at'[w] # "mkdir"
      <4>1. CASE Scan(w)
        BY <1>0, <4>1 DEF Scan, ScanNames, ScanPendings, ScanFinals, Continue, Abandon, Return,
           Goto, TypeOK
      <4>2. CASE Initialize(w) \/ Load(w) \/ Transition(w) \/ Crash(w)
        BY <1>0, <4>2 DEF Initialize, Load, Transition, Begin, Crash, Stop, Goto, TypeOK
      <4>3. CASE \/ ReserveFails(w) \/ AssertFinalAbsent(w) \/ LinkFails(w) \/ SyncCommit(w)
                 \/ SyncCleanup(w) \/ CommitUnknown(w) \/ RemovalFails(w) \/ ClassifyFailure(w)
        BY <1>0, <4>3 DEF ReserveFails, AssertFinalAbsent, LinkFails, GivesUp, SyncCommit,
           SyncCleanup, CommitUnknown, RemovalFails, ClassifyFailure, Return, Goto, TypeOK
      <4> QED BY <2>5, <4>1, <4>2, <4>3
    <3> QED BY <2>1, <2>2, <3>1, <3>2
  <2>6. ASSUME NEW w \in Writers, WriteRecord(w) \/ WriteFails(w) \/ Unlink(w) PROVE PendingInv'
    <3>1. PICK ids : UNCHANGED dir \/ Change([dir EXCEPT !.records = ids])
      BY <2>6 DEF WriteRecord, WriteFails, Unlink, disk
    <3>2. dir'.dirs = dir.dirs
      BY <1>0, <3>1, EntriesChanged
    <3>3. at'[w] # "mkdir"
      BY <1>0, <2>6 DEF WriteRecord, WriteFails, GivesUp, Unlink, Goto, TypeOK
    <3> QED BY <2>1, <2>2, <3>2, <3>3
  <2>7. ASSUME NEW w \in Writers, Link(w) PROVE PendingInv'
    <3> DEFINE longer == Append(dir.finals, [id |-> job[w].id, parent |-> job[w].after.id,
                                             expected |-> held[w].id])
    <3>1. Change([dir EXCEPT !.finals = longer]) /\ at'[w] = "sync"
      BY <1>0, <2>7 DEF Link, Goto, TypeOK
    <3> HIDE DEF longer
    <3>2. dir'.dirs = dir.dirs
      BY <1>0, <3>1, EntriesChanged
    <3> QED BY <2>1, <2>2, <3>1, <3>2
  <2>8. ASSUME NEW w \in Writers, Rmdir(w) PROVE PendingInv'
    <3> DEFINE ids == dir.dirs \ {job[w].id}
    <3>1. Change([dir EXCEPT !.dirs = ids]) /\ at'[w] # "mkdir"
      BY <1>0, <2>8 DEF Rmdir, Return, Goto, TypeOK
    <3>2. ids \subseteq dir.dirs
      OBVIOUS
    <3> HIDE DEF ids
    <3> QED BY <1>0, <2>1, <2>2, <3>1, <3>2, EntriesChanged
  <2>9. CASE PowerFailure
    <3>1. PICK n \in durable..Len(dir.finals) : dir' = [dir EXCEPT !.finals = SubSeq(@, 1, n)]
      BY <2>9 DEF PowerFailure
    <3>2. dir'.dirs = dir.dirs
      BY <1>0, <3>1 DEF TypeOK, Directory
    <3>3. \A w \in Writers : at'[w] # "mkdir"
      BY <2>9 DEF PowerFailure, Stop
    <3> QED BY <2>1, <3>2, <3>3
  <2>10. CASE UNCHANGED vars
    BY <2>10 DEF vars, PendingInv, PendingIsBounded
  <2> QED BY <2>3, <2>4, <2>5, <2>6, <2>7, <2>8, <2>9, <2>10 DEF Next, Step
<1> QED BY <1>2, <1>3 DEF LimitIsSafe

\* Both hold together.
LEMMA ScansHold ==
  ASSUME LimitIsSafe
  PROVE Spec => [](ScansInv /\ PendingInv)
<1>1. Init => ScansInv /\ PendingInv
  <2> SUFFICES ASSUME Init PROVE ScansInv /\ PendingInv
    OBVIOUS
  <2>1. dir.finals = <<>> /\ dir.dirs = {} /\ dir.records = {}
    BY DEF Init, EmptyDirectory
  <2>2. \A w \in Writers : at[w] = "down"
    BY DEF Init
  <2>3. IsChain(dir.finals) /\ Len(dir.finals) <= FinalLimit
    BY <2>1, LimitsAssumption DEF IsChain
  <2>4. PendingInv
    BY <2>1, <2>2, FS_EmptySet, LimitsAssumption DEF PendingInv, PendingIsBounded
  <2> QED BY <2>1, <2>2, <2>3, <2>4 DEF Init, ScansInv, Listed, Builds, Expecting
<1>2. JournalInv /\ JournalInv' /\ ScansInv /\ PendingInv /\ [Next]_vars => ScansInv' /\ PendingInv'
  <2>1. JournalInv' => TypeOK'
    BY DEF JournalInv
  <2>2. PendingInv => PendingIsBounded
    BY DEF PendingInv
  <2> QED BY <2>1, <2>2, ScansStep, PendingStep
<1> QED BY <1>1, <1>2, Invariance, PTL DEF Spec

\* assertCapacity: the pending directories an append leaves behind, whatever
\* fails or dies, never exceed the limit that a scan enforces.
THEOREM PendingStaysBounded ==
  ASSUME LimitIsSafe
  PROVE Spec => []PendingIsBounded
<1>1. PendingInv => PendingIsBounded
  BY DEF PendingInv
<1> QED BY <1>1, ScansHold, PTL

\* scan, validatePending and readFinal: no step of an append, crash or loss of
\* power leaves anything that a scan, at any of its own steps, takes for
\* tampering: no instance is ever latched.
THEOREM NoAlarmIsFalse ==
  ASSUME LimitIsSafe
  PROVE Spec => []NoFalseAlarm
<1>1. ScansInv => NoFalseAlarm
  BY DEF ScansInv, NoFalseAlarm
<1> QED BY <1>1, ScansHold, PTL

===============================================================================
