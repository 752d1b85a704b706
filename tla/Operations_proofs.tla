--------------------------- MODULE Operations_proofs ---------------------------
(***************************************************************************)
(* Theorems about the operations beside the apply, for any plans, targets,   *)
(* calls, requests, clients, limits and faults: the guarded actions, the     *)
(* custody of the approval root, the stdio bridge and the server's sessions, *)
(* one after the other, and then the five modules of MCOperations together.  *)
(***************************************************************************)
EXTENDS MCOperations, OperatorEpoch_proofs, SequenceTheorems

-------------------------------------------------------------------------------
(* Guarded actions *)

\* The types, without the bound on what is sent and on who holds the lease.
Shape ==
  /\ item \in [Changes -> {"absent", "pending", "applying", "settled"}]
  /\ target \in [Changes -> Targets \cup {ArchivePlan}]
  /\ payload \subseteq Plans
  /\ stale \subseteq Changes /\ expired \subseteq Changes
  /\ busy \subseteq Targets \cup {ArchivePlan}
  /\ record \in [Changes -> Statuses]
  /\ archived \subseteq Changes /\ loose \subseteq Changes
  /\ place \in [Changes -> GuardedPlaces]
  /\ sends \in [Changes -> Nat]
  /\ took \subseteq Changes
  /\ told \in [Changes -> {"none", "verified", "refused", "uncertain"}]
  /\ guardedFaults \in 0..MaxGuardedFaults

\* A change of a target leaves a set of proposals stale.
LEMMA ResettledTypes ==
  ASSUME NEW t, stale \subseteq Changes, Resettles(t)
  PROVE  stale' \subseteq Changes
BY DEF Resettles, Changes

\* Every step keeps the types.
LEMMA ShapeSteps ==
  ASSUME Shape, [GuardedNext]_guardedVars
  PROVE  Shape'
<1>. USE GuardedAssumption DEF Shape
<1>1. ASSUME NEW c \in Changes, ProposeChange(c) PROVE Shape'
  <2>1. payload' \subseteq Plans
    BY <1>1 DEF ProposeChange, Archivable, Recorded, Changes, Settling
  <2>. QED
    BY <1>1, <2>1, SMTT(20) DEF ProposeChange, effectVars, recordVars, Changes, Statuses, GuardedPlaces
<1>2. ASSUME NEW c \in Changes, Expires(c) PROVE Shape'
  BY <1>2, SMTT(20) DEF Expires, effectVars, recordVars, Changes, Statuses, GuardedPlaces
<1>3. ASSUME NEW c \in Changes, StartApply(c) PROVE Shape'
  BY <1>3, SMTT(20)
  DEF StartApply, MoveTo, recordVars, effectVars, Changes, Statuses, GuardedPlaces
<1>4. ASSUME NEW c \in Changes, TakeLease(c) PROVE Shape'
  BY <1>4, SMTT(20)
  DEF TakeLease, MoveTo, NoGuardedFault, itemVars, recordVars, effectVars, Changes,
      Statuses, GuardedPlaces
<1>5. ASSUME NEW c \in Changes, CheckTarget(c) PROVE Shape'
  BY <1>5, SMTT(20)
  DEF CheckTarget, MoveTo, itemVars, recordVars, effectVars, Changes, Statuses,
      GuardedPlaces
<1>6. ASSUME NEW c \in Changes, ApproveChange(c) PROVE Shape'
  BY <1>6, SMTT(20)
  DEF ApproveChange, MoveTo, itemVars, recordVars, effectVars, Changes, Statuses,
      GuardedPlaces
<1>7. ASSUME NEW c \in Changes, CreateRecord(c) PROVE Shape'
  BY <1>7, SMTT(20)
  DEF CreateRecord, MoveTo, itemVars, effectVars, Changes, Statuses, GuardedPlaces
<1>8. ASSUME NEW c \in Changes, WriteRecord(c) PROVE Shape'
  BY <1>8, SMTT(20)
  DEF WriteRecord, MoveTo, itemVars, effectVars, Changes, Statuses, GuardedPlaces
<1>9. ASSUME NEW c \in Changes, SendChange(c) PROVE Shape'
  <2>1. /\ stale' \subseteq Changes /\ archived' \subseteq Changes /\ loose' \subseteq Changes
        /\ took' \subseteq Changes
    BY <1>9, ResettledTypes DEF SendChange, Execute, effectVars, Changes
  <2>. QED
    BY <1>9, <2>1, SMTT(20)
    DEF SendChange, MoveTo, effectVars, Changes, Statuses, GuardedPlaces
<1>10. ASSUME NEW c \in Changes, VerifyChange(c) PROVE Shape'
  BY <1>10, SMTT(20)
  DEF VerifyChange, MoveTo, itemVars, effectVars, Changes, Statuses, GuardedPlaces
<1>11. ASSUME NEW c \in Changes, AppendVerified(c) PROVE Shape'
  BY <1>11, SMTT(20)
  DEF AppendVerified, MoveTo, GuardedFault, NoGuardedFault, effectVars, Changes, Statuses,
      GuardedPlaces
<1>12. ASSUME NEW c \in Changes, Catch(c) PROVE Shape'
  BY <1>12, SMTT(20)
  DEF Catch, LetGo, MoveTo, recordVars, effectVars, Changes, Statuses, GuardedPlaces
<1>13. ASSUME NEW c \in Changes, CatchUnsent(c) PROVE Shape'
  BY <1>13, SMTT(20)
  DEF CatchUnsent, LetGo, MoveTo, GuardedFault, NoGuardedFault, effectVars, Changes,
      Statuses, GuardedPlaces
<1>14. ASSUME NEW c \in Changes, GuardedCallFails(c) PROVE Shape'
  BY <1>14, SMTT(20)
  DEF GuardedCallFails, MoveTo, GuardedFault, itemVars, effectVars, Changes, Statuses,
      GuardedPlaces
<1>15. ASSUME NEW t \in Targets, TargetChanges(t)
       PROVE  Shape'
  BY <1>15, ResettledTypes, SMTT(20)
  DEF TargetChanges, GuardedFault, recordVars, effectVars, Changes, Statuses, GuardedPlaces
<1>16. ASSUME NEW gone \in SUBSET loose, Perish(gone), (gone = {} /\ loose' = loose) \/ loose' = {}
       PROVE  Shape'
  BY <1>16, SMTT(20) DEF Perish, GuardedFault, effectVars, Changes, Statuses, GuardedPlaces
<1>17. ASSUME UNCHANGED <<itemVars, busy, recordVars, place, effectVars, told, guardedFaults>>
       PROVE  Shape'
  BY <1>17, SMTT(20) DEF itemVars, recordVars, effectVars, Changes, Statuses, GuardedPlaces
<1>. QED
  BY <1>1, <1>2, <1>3, <1>4, <1>5, <1>6, <1>7, <1>8, <1>9, <1>10, <1>11, <1>12, <1>13,
      <1>14, <1>15, <1>16, <1>17
  DEF GuardedNext, ServiceDies, GuardedPowerFails, guardedVars, OperatorHolds

\* What the place of an apply says of its proposal and its record.
Course(c) ==
  /\ place[c] # "idle" => told[c] = "none" /\ item[c] = "applying"
  /\ item[c] = "pending" => record[c] = "none" /\ sends[c] = 0
  /\ place[c] \in {"lease", "check", "approve", "create", "catch"} => record[c] = "none" /\ sends[c] = 0
  /\ place[c] = "write" => record[c] = "empty" /\ sends[c] = 0
  /\ place[c] = "send" => record[c] = "prepared" /\ sends[c] = 0 /\ c \notin loose
  /\ place[c] = "catch_unsent" => record[c] \notin Settling \cup {"none"} /\ sends[c] = 0
  /\ place[c] \in {"verify", "append"} => record[c] = "prepared"
  /\ place[c] = "append" => c \in took
  /\ record[c] = "verified" => c \in took /\ place[c] \in {"idle", "catch_sent"}
  /\ record[c] = "not_sent" => sends[c] = 0 /\ place[c] = "idle"
  /\ told[c] = "refused" => sends[c] = 0
  /\ sends[c] > 0 => record[c] # "none" /\ sends[c] = 1
  /\ c \in loose \ archived => sends[c] = 0
  /\ c \in archived => record[c] \in Settling
Courses == \A c \in Changes : Course(c)

\* Every step keeps the course of every apply.
LEMMA CourseSteps ==
  ASSUME Shape, Courses, [GuardedNext]_guardedVars
  PROVE  Courses'
<1>. USE GuardedAssumption DEF Shape, Courses, Course, Settling, Changes
<1>1. ASSUME NEW c \in Changes, ProposeChange(c) PROVE Courses'
  BY <1>1, SMTT(20) DEF ProposeChange, Recorded, effectVars, recordVars
<1>2. ASSUME NEW c \in Changes, Expires(c) PROVE Courses'
  BY <1>2, SMTT(20) DEF Expires, effectVars, recordVars
<1>3. ASSUME NEW c \in Changes, StartApply(c) PROVE Courses'
  BY <1>3, SMTT(20) DEF StartApply, MoveTo, recordVars, effectVars
<1>4. ASSUME NEW c \in Changes, TakeLease(c) PROVE Courses'
  BY <1>4, SMTT(20) DEF TakeLease, MoveTo, NoGuardedFault, itemVars, recordVars, effectVars
<1>5. ASSUME NEW c \in Changes, CheckTarget(c) PROVE Courses'
  BY <1>5, SMTT(20) DEF CheckTarget, MoveTo, itemVars, recordVars, effectVars
<1>6. ASSUME NEW c \in Changes, ApproveChange(c) PROVE Courses'
  BY <1>6, SMTT(20) DEF ApproveChange, MoveTo, itemVars, recordVars, effectVars
<1>7. ASSUME NEW c \in Changes, CreateRecord(c) PROVE Courses'
  BY <1>7, SMTT(20) DEF CreateRecord, MoveTo, itemVars, effectVars
<1>8. ASSUME NEW c \in Changes, WriteRecord(c) PROVE Courses'
  BY <1>8, SMTT(20) DEF WriteRecord, MoveTo, itemVars, effectVars
<1>9. ASSUME NEW c \in Changes, SendChange(c) PROVE Courses'
  <2>1. CASE place[c] = "send" /\ MoveTo(c, "catch_unsent") /\ UNCHANGED <<effectVars, stale, archived, loose>>
    BY <1>9, <2>1, SMTT(20) DEF SendChange, MoveTo, effectVars
  <2>2. CASE /\ place[c] = "send" /\ Inspected(c) /\ Execute(c) /\ MoveTo(c, "verify")
             /\ sends' = [sends EXCEPT ![c] = @ + 1]
    <3>1. UNCHANGED <<item, told, record>> BY <1>9 DEF SendChange
    <3>2. took \subseteq took' BY <2>2 DEF Execute
    <3>3. PICK moved \in SUBSET Changes :
            /\ archived' = archived \cup moved /\ loose' = loose \cup moved
            /\ \A d \in moved : record[d] \in Settling
      <4>1. CASE UNCHANGED <<archived, loose>>
        <5>1. {} \in SUBSET Changes /\ archived' = archived \cup {} /\ loose' = loose \cup {}
          BY <4>1
        <5>. QED BY <5>1
      <4>2. CASE c = ArchivePlan
        <5>1. PICK moved \in SUBSET payload : archived' = archived \cup moved /\ loose' = loose \cup moved
          BY <2>2, <4>2 DEF Execute
        <5>2. \A d \in payload : record[d] \in Settling BY <2>2, <4>2 DEF Inspected, Archivable
        <5>. QED BY <5>1, <5>2
      <4>. QED BY <2>2, <4>1, <4>2 DEF Execute
    <3>4. record[c] = "prepared" /\ c \notin moved BY <2>2, <3>3
    <3>5. Course(c)' BY <2>2, <3>1, <3>2, <3>3, <3>4 DEF MoveTo
    <3>6. ASSUME NEW d \in Changes \ {c} PROVE Course(d)'
      <4>1. place'[d] = place[d] /\ sends'[d] = sends[d] BY <2>2 DEF MoveTo
      <4>2. d \in moved => place[d] # "send" BY <3>3
      <4>. QED BY <3>1, <3>2, <3>3, <4>1, <4>2
    <3>. QED BY <3>5, <3>6
  <2>. QED BY <1>9, <2>1, <2>2 DEF SendChange
<1>10. ASSUME NEW c \in Changes, VerifyChange(c) PROVE Courses'
  BY <1>10, SMTT(20) DEF VerifyChange, MoveTo, itemVars, effectVars
<1>11. ASSUME NEW c \in Changes, AppendVerified(c) PROVE Courses'
  BY <1>11, SMTT(20) DEF AppendVerified, MoveTo, GuardedFault, NoGuardedFault, effectVars
<1>12. ASSUME NEW c \in Changes, Catch(c) PROVE Courses'
  BY <1>12, SMTT(20) DEF Catch, LetGo, MoveTo, recordVars, effectVars
<1>13. ASSUME NEW c \in Changes, CatchUnsent(c) PROVE Courses'
  BY <1>13, SMTT(20) DEF CatchUnsent, LetGo, MoveTo, GuardedFault, NoGuardedFault, effectVars
<1>14. ASSUME NEW c \in Changes, GuardedCallFails(c) PROVE Courses'
  BY <1>14, SMTT(20) DEF GuardedCallFails, MoveTo, GuardedFault, itemVars, effectVars
<1>15. ASSUME NEW t \in Targets, TargetChanges(t)
       PROVE  Courses'
  BY <1>15, SMTT(20) DEF TargetChanges, GuardedFault, recordVars, effectVars
<1>16. ASSUME NEW gone \in SUBSET loose, Perish(gone), (gone = {} /\ loose' = loose) \/ loose' = {}
       PROVE  Courses'
  <2>1. /\ record' \in [Changes -> Statuses]
        /\ \A c \in Changes : IF c \in gone \ archived THEN record'[c] = "none"
                              ELSE record'[c] \in CutShort(c)
    BY <1>16 DEF Perish
  <2>2. ASSUME NEW c \in Changes PROVE Course(c)'
    <3>1. place'[c] = "idle" /\ item'[c] = "absent" /\ UNCHANGED <<sends, took>>
          /\ archived' = archived \ gone /\ told'[c] = (IF place[c] = "idle" THEN told[c] ELSE "uncertain")
      BY <1>16 DEF Perish, effectVars
    <3>2. c \in gone \ archived => sends[c] = 0 OBVIOUS
    <3>3. CASE c \in gone \ archived BY <2>1, <3>1, <3>2, <3>3
    <3>4. CASE c \notin gone \ archived
      <4>1. record'[c] \in CutShort(c) BY <2>1, <3>4
      <4>2. CASE place[c] \in {"write", "catch_unsent"}
        <5>1. record'[c] # "none" /\ record'[c] # "verified" BY <4>1, <4>2 DEF CutShort
        <5>2. c \notin archived BY <4>2
        <5>. QED BY <3>1, <4>2, <5>1, <5>2
      <4>3. CASE place[c] = "append"
        <5>1. record'[c] \in {"prepared", "torn", "verified"} BY <4>1, <4>3 DEF CutShort
        <5>2. c \notin archived BY <4>3
        <5>. QED BY <1>16, <3>1, <4>3, <5>1, <5>2
      <4>4. CASE place[c] \notin {"write", "append", "catch_unsent"}
        <5>1. record'[c] = record[c] BY <4>1, <4>4 DEF CutShort
        <5>. QED BY <1>16, <3>1, <4>4, <5>1
      <4>. QED BY <4>2, <4>3, <4>4
    <3>. QED BY <3>3, <3>4
  <2>. QED BY <2>2
<1>17. ASSUME UNCHANGED <<itemVars, busy, recordVars, place, effectVars, told, guardedFaults>>
       PROVE  Courses'
  BY <1>17, SMTT(20) DEF itemVars, recordVars, effectVars
<1>. QED
  BY <1>1, <1>2, <1>3, <1>4, <1>5, <1>6, <1>7, <1>8, <1>9, <1>10, <1>11, <1>12, <1>13,
      <1>14, <1>15, <1>16, <1>17
  DEF GuardedNext, ServiceDies, GuardedPowerFails, guardedVars, OperatorHolds

\* Who is between the check and the end has the lease, and before the send no
\* other change of its target is uncertain.
Holding == {"check", "approve", "create", "write", "send", "verify", "append",
            "catch_sent", "catch_unsent"}
Unsent == {"approve", "create", "write", "send"}
Uncertain(c) == sends[c] > 0 /\ record[c] \notin Settling
Leases ==
  /\ holder = {} \/ \E x \in Changes \cup {"operator"} : holder = {x}
  /\ \A c \in Changes : place[c] \in Holding => holder = {c}
Checked == \A c \in Changes : place[c] \in Unsent =>
  \A d \in Changes : d # c /\ target[d] = target[c] => ~Uncertain(d)
Pairs == \A c, d \in Changes :
  c # d /\ target[c] = target[d] => ~Uncertain(c) \/ ~Uncertain(d)

\* Every step keeps the lease with who holds it.
LEMMA LeaseSteps ==
  ASSUME Shape, Leases, [GuardedNext]_guardedVars
  PROVE  Leases'
<1>. USE GuardedAssumption DEF Shape, Leases, Holding, Changes
<1>1. ASSUME NEW c \in Changes, ProposeChange(c) PROVE Leases'
  BY <1>1, SMTT(20) DEF ProposeChange, Recorded, effectVars, recordVars
<1>2. ASSUME NEW c \in Changes, Expires(c) PROVE Leases'
  BY <1>2, SMTT(20) DEF Expires, effectVars, recordVars
<1>3. ASSUME NEW c \in Changes, StartApply(c) PROVE Leases'
  BY <1>3, SMTT(20) DEF StartApply, MoveTo, recordVars, effectVars
<1>4. ASSUME NEW c \in Changes, TakeLease(c) PROVE Leases'
  BY <1>4, SMTT(20) DEF TakeLease, MoveTo, NoGuardedFault, itemVars, recordVars, effectVars
<1>5. ASSUME NEW c \in Changes, CheckTarget(c) PROVE Leases'
  BY <1>5, SMTT(20) DEF CheckTarget, MoveTo, itemVars, recordVars, effectVars
<1>6. ASSUME NEW c \in Changes, ApproveChange(c) PROVE Leases'
  BY <1>6, SMTT(20) DEF ApproveChange, MoveTo, itemVars, recordVars, effectVars
<1>7. ASSUME NEW c \in Changes, CreateRecord(c) PROVE Leases'
  BY <1>7, SMTT(20) DEF CreateRecord, MoveTo, itemVars, effectVars
<1>8. ASSUME NEW c \in Changes, WriteRecord(c) PROVE Leases'
  BY <1>8, SMTT(20) DEF WriteRecord, MoveTo, itemVars, effectVars
<1>9. ASSUME NEW c \in Changes, SendChange(c) PROVE Leases'
  BY <1>9, SMTT(20) DEF SendChange, Execute, MoveTo, effectVars
<1>10. ASSUME NEW c \in Changes, VerifyChange(c) PROVE Leases'
  BY <1>10, SMTT(20) DEF VerifyChange, MoveTo, itemVars, effectVars
<1>11. ASSUME NEW c \in Changes, AppendVerified(c) PROVE Leases'
  BY <1>11, SMTT(20) DEF AppendVerified, MoveTo, GuardedFault, NoGuardedFault, effectVars
<1>12. ASSUME NEW c \in Changes, Catch(c) PROVE Leases'
  BY <1>12, SMTT(20) DEF Catch, LetGo, MoveTo, recordVars, effectVars
<1>13. ASSUME NEW c \in Changes, CatchUnsent(c) PROVE Leases'
  BY <1>13, SMTT(20) DEF CatchUnsent, LetGo, MoveTo, GuardedFault, NoGuardedFault, effectVars
<1>14. ASSUME NEW c \in Changes, GuardedCallFails(c) PROVE Leases'
  BY <1>14, SMTT(20) DEF GuardedCallFails, MoveTo, GuardedFault, itemVars, effectVars
<1>15. ASSUME NEW t \in Targets, TargetChanges(t)
       PROVE  Leases'
  BY <1>15, SMTT(20) DEF TargetChanges, GuardedFault, recordVars, effectVars, OperatorHolds
<1>16. ASSUME NEW gone \in SUBSET loose, Perish(gone), (gone = {} /\ loose' = loose) \/ loose' = {},
              holder' \in {holder \ Changes, {}}
       PROVE  Leases'
  BY <1>16, SMTT(20) DEF Perish, GuardedFault, effectVars, OperatorHolds
<1>17. ASSUME OperatorHolds
       PROVE  Leases'
  <2>1. UNCHANGED place BY <1>17 DEF OperatorHolds
  <2>2. holder' = {} \/ holder' = {"operator"} BY <1>17 DEF OperatorHolds
  <2>3. \A c \in Changes : holder # {c} \/ holder' = holder BY <1>17 DEF OperatorHolds
  <2>. QED BY <2>1, <2>2, <2>3
<1>18. ASSUME UNCHANGED guardedVars
       PROVE  Leases'
  BY <1>18, SMTT(20) DEF guardedVars, itemVars, recordVars, effectVars, OperatorHolds
<1>. QED
  BY <1>1, <1>2, <1>3, <1>4, <1>5, <1>6, <1>7, <1>8, <1>9, <1>10, <1>11, <1>12, <1>13,
      <1>14, <1>15, <1>16, <1>17, <1>18
  DEF GuardedNext, ServiceDies, GuardedPowerFails, guardedVars, OperatorHolds

\* A step of a change that is not being sent, or does not hold the lease, makes
\* nothing uncertain.
LEMMA NothingBecomesUncertain ==
  ASSUME Shape, Courses, [GuardedNext]_guardedVars, NEW d \in Changes, ~Uncertain(d),
         place[d] # "send"
  PROVE  ~Uncertain(d)'
<1>. USE DEF Uncertain, Shape, Courses, Course, Settling, GuardedPlaces
<1>1. ASSUME NEW c \in Changes, ProposeChange(c) PROVE ~Uncertain(d)'
  BY <1>1, SMTT(20) DEF ProposeChange, Recorded, effectVars, recordVars
<1>2. ASSUME NEW c \in Changes, Expires(c) PROVE ~Uncertain(d)'
  BY <1>2, SMTT(20) DEF Expires, effectVars, recordVars
<1>3. ASSUME NEW c \in Changes, StartApply(c) PROVE ~Uncertain(d)'
  BY <1>3, SMTT(20) DEF StartApply, MoveTo, recordVars, effectVars
<1>4. ASSUME NEW c \in Changes, TakeLease(c) PROVE ~Uncertain(d)'
  BY <1>4, SMTT(20) DEF TakeLease, MoveTo, NoGuardedFault, itemVars, recordVars, effectVars
<1>5. ASSUME NEW c \in Changes, CheckTarget(c) PROVE ~Uncertain(d)'
  BY <1>5, SMTT(20) DEF CheckTarget, MoveTo, itemVars, recordVars, effectVars
<1>6. ASSUME NEW c \in Changes, ApproveChange(c) PROVE ~Uncertain(d)'
  BY <1>6, SMTT(20) DEF ApproveChange, MoveTo, itemVars, recordVars, effectVars
<1>7. ASSUME NEW c \in Changes, CreateRecord(c) PROVE ~Uncertain(d)'
  BY <1>7, SMTT(20) DEF CreateRecord, MoveTo, itemVars, effectVars
<1>8. ASSUME NEW c \in Changes, WriteRecord(c) PROVE ~Uncertain(d)'
  BY <1>8, SMTT(20) DEF WriteRecord, MoveTo, itemVars, effectVars
<1>9. ASSUME NEW c \in Changes, SendChange(c) PROVE ~Uncertain(d)'
  BY <1>9, SMTT(20) DEF SendChange, Execute, MoveTo, effectVars
<1>10. ASSUME NEW c \in Changes, VerifyChange(c) PROVE ~Uncertain(d)'
  BY <1>10, SMTT(20) DEF VerifyChange, MoveTo, itemVars, effectVars
<1>11. ASSUME NEW c \in Changes, AppendVerified(c) PROVE ~Uncertain(d)'
  BY <1>11, SMTT(20) DEF AppendVerified, MoveTo, GuardedFault, NoGuardedFault, effectVars
<1>12. ASSUME NEW c \in Changes, Catch(c) PROVE ~Uncertain(d)'
  BY <1>12, SMTT(20) DEF Catch, LetGo, MoveTo, recordVars, effectVars
<1>13. ASSUME NEW c \in Changes, CatchUnsent(c) PROVE ~Uncertain(d)'
  BY <1>13, SMTT(20) DEF CatchUnsent, LetGo, MoveTo, GuardedFault, NoGuardedFault, effectVars
<1>14. ASSUME NEW c \in Changes, GuardedCallFails(c) PROVE ~Uncertain(d)'
  BY <1>14, SMTT(20) DEF GuardedCallFails, MoveTo, GuardedFault, itemVars, effectVars
<1>15. ASSUME NEW t \in Targets, TargetChanges(t) PROVE ~Uncertain(d)'
  BY <1>15 DEF TargetChanges, recordVars, effectVars
<1>16. ASSUME NEW gone \in SUBSET loose, Perish(gone) PROVE ~Uncertain(d)'
  <2>1. /\ record' \in [Changes -> Statuses] /\ sends' = sends
        /\ IF d \in gone \ archived THEN record'[d] = "none" ELSE record'[d] \in CutShort(d)
    BY <1>16 DEF Perish, effectVars
  <2>2. CASE sends[d] = 0 BY <2>1, <2>2
  <2>3. CASE sends[d] # 0
    <3>1. record[d] \in Settling /\ d \notin gone \ archived BY <2>3
    <3>2. record'[d] = record[d] BY <2>1, <3>1 DEF CutShort
    <3>. QED BY <3>1, <3>2
  <2>. QED BY <2>2, <2>3
<1>17. ASSUME OperatorHolds PROVE ~Uncertain(d)'
  BY <1>17 DEF OperatorHolds, recordVars, effectVars
<1>18. CASE UNCHANGED guardedVars
  BY <1>18 DEF guardedVars, recordVars, effectVars
<1>. QED
  BY <1>1, <1>2, <1>3, <1>4, <1>5, <1>6, <1>7, <1>8, <1>9, <1>10, <1>11, <1>12, <1>13, <1>14,
     <1>15, <1>16, <1>17, <1>18
  DEF GuardedNext, ServiceDies, GuardedPowerFails

\* The target of a proposal never changes.
LEMMA TargetsStay ==
  ASSUME [GuardedNext]_guardedVars
  PROVE  target' = target
  BY
  DEF GuardedNext, guardedVars, itemVars, ProposeChange, Expires, StartApply, TakeLease,
      CheckTarget,
         ApproveChange, CreateRecord, WriteRecord, SendChange, VerifyChange, AppendVerified, Catch,
         CatchUnsent, GuardedCallFails, TargetChanges, ServiceDies, GuardedPowerFails, Perish, OperatorHolds

\* A change goes on to be sent from the place before, or from the check.
LEMMA EntersUnsent ==
  ASSUME Shape, [GuardedNext]_guardedVars, NEW c \in Changes, place'[c] \in Unsent
  PROVE  place[c] \in Unsent \/ (CheckTarget(c) /\ TargetSettled(c))
<1>. USE DEF Shape, Unsent, GuardedPlaces
<1>1. ASSUME NEW d \in Changes, ProposeChange(d)
      PROVE  place[c] \in Unsent \/ (CheckTarget(c) /\ TargetSettled(c))
  BY <1>1, SMTT(20) DEF ProposeChange, Recorded, effectVars, recordVars
<1>2. ASSUME NEW d \in Changes, Expires(d)
      PROVE  place[c] \in Unsent \/ (CheckTarget(c) /\ TargetSettled(c))
  BY <1>2, SMTT(20) DEF Expires, effectVars, recordVars
<1>3. ASSUME NEW d \in Changes, StartApply(d)
      PROVE  place[c] \in Unsent \/ (CheckTarget(c) /\ TargetSettled(c))
  BY <1>3, SMTT(20) DEF StartApply, MoveTo, recordVars, effectVars
<1>4. ASSUME NEW d \in Changes, TakeLease(d)
      PROVE  place[c] \in Unsent \/ (CheckTarget(c) /\ TargetSettled(c))
  BY <1>4, SMTT(20) DEF TakeLease, MoveTo, NoGuardedFault, itemVars, recordVars, effectVars
<1>5. ASSUME NEW d \in Changes, CheckTarget(d)
      PROVE  place[c] \in Unsent \/ (CheckTarget(c) /\ TargetSettled(c))
  <2>1. CASE d = c /\ ~TargetSettled(c)
    <3>1. place' = [place EXCEPT ![c] = "catch"] BY <1>5, <2>1 DEF CheckTarget, MoveTo
    <3>. QED BY <3>1
  <2>2. CASE d # c
    <3>1. place'[c] = place[c] BY <1>5, <2>2 DEF CheckTarget, MoveTo
    <3>. QED BY <3>1
  <2>. QED BY <1>5, <2>1, <2>2
<1>6. ASSUME NEW d \in Changes, ApproveChange(d)
      PROVE  place[c] \in Unsent \/ (CheckTarget(c) /\ TargetSettled(c))
  BY <1>6, SMTT(20) DEF ApproveChange, MoveTo, itemVars, recordVars, effectVars
<1>7. ASSUME NEW d \in Changes, CreateRecord(d)
      PROVE  place[c] \in Unsent \/ (CheckTarget(c) /\ TargetSettled(c))
  BY <1>7, SMTT(20) DEF CreateRecord, MoveTo, itemVars, effectVars
<1>8. ASSUME NEW d \in Changes, WriteRecord(d)
      PROVE  place[c] \in Unsent \/ (CheckTarget(c) /\ TargetSettled(c))
  BY <1>8, SMTT(20) DEF WriteRecord, MoveTo, itemVars, effectVars
<1>9. ASSUME NEW d \in Changes, SendChange(d)
      PROVE  place[c] \in Unsent \/ (CheckTarget(c) /\ TargetSettled(c))
  BY <1>9, SMTT(20) DEF SendChange, Execute, MoveTo, effectVars
<1>10. ASSUME NEW d \in Changes, VerifyChange(d)
      PROVE  place[c] \in Unsent \/ (CheckTarget(c) /\ TargetSettled(c))
  BY <1>10, SMTT(20) DEF VerifyChange, MoveTo, itemVars, effectVars
<1>11. ASSUME NEW d \in Changes, AppendVerified(d)
      PROVE  place[c] \in Unsent \/ (CheckTarget(c) /\ TargetSettled(c))
  BY <1>11, SMTT(20) DEF AppendVerified, MoveTo, GuardedFault, NoGuardedFault, effectVars
<1>12. ASSUME NEW d \in Changes, Catch(d)
      PROVE  place[c] \in Unsent \/ (CheckTarget(c) /\ TargetSettled(c))
  BY <1>12, SMTT(20) DEF Catch, LetGo, MoveTo, recordVars, effectVars
<1>13. ASSUME NEW d \in Changes, CatchUnsent(d)
      PROVE  place[c] \in Unsent \/ (CheckTarget(c) /\ TargetSettled(c))
  BY <1>13, SMTT(20) DEF CatchUnsent, LetGo, MoveTo, GuardedFault, NoGuardedFault, effectVars
<1>14. ASSUME NEW d \in Changes, GuardedCallFails(d)
      PROVE  place[c] \in Unsent \/ (CheckTarget(c) /\ TargetSettled(c))
  BY <1>14, SMTT(20) DEF GuardedCallFails, MoveTo, GuardedFault, itemVars, effectVars
<1>15. ASSUME NEW t \in Targets, TargetChanges(t) PROVE place[c] \in Unsent
  BY <1>15 DEF TargetChanges
<1>16. ASSUME NEW gone \in SUBSET loose, Perish(gone) PROVE FALSE
  BY <1>16 DEF Perish
<1>17. ASSUME OperatorHolds \/ UNCHANGED guardedVars PROVE place[c] \in Unsent
  BY <1>17 DEF OperatorHolds, guardedVars
<1>. QED
  BY <1>1, <1>2, <1>3, <1>4, <1>5, <1>6, <1>7, <1>8, <1>9, <1>10, <1>11, <1>12, <1>13, <1>14,
     <1>15, <1>16, <1>17
  DEF GuardedNext, ServiceDies, GuardedPowerFails

\* A change that becomes uncertain was being sent.
LEMMA BecomesUncertain ==
  ASSUME Shape, Courses, [GuardedNext]_guardedVars, NEW d \in Changes, Uncertain(d)'
  PROVE  Uncertain(d) \/ place[d] = "send"
  BY NothingBecomesUncertain

\* What was found settled under the lease stays so until the send.
LEMMA CheckedSteps ==
  ASSUME Shape, Courses, Leases, Checked, [GuardedNext]_guardedVars
  PROVE  Checked'
<1>. SUFFICES ASSUME NEW c \in Changes, place'[c] \in Unsent,
                     NEW d \in Changes, d # c, target[d] = target[c], Uncertain(d)'
              PROVE  FALSE
  BY TargetsStay DEF Checked
<1>1. CASE place[c] \in Unsent
  <2>1. ~Uncertain(d) BY <1>1 DEF Checked
  <2>2. place[d] = "send" BY <2>1, BecomesUncertain
  <2>. QED BY <1>1, <2>2 DEF Leases, Holding, Unsent
<1>2. CASE CheckTarget(c) /\ TargetSettled(c)
  <2>1. sends' = sends /\ record' = record BY <1>2 DEF CheckTarget, recordVars, effectVars
  <2>2. sends[d] > 0 /\ record[d] \notin Settling BY <2>1 DEF Uncertain
  <2>3. record[d] # "none" /\ d \notin archived BY <2>2 DEF Courses, Course
  <2>. QED BY <1>2, <2>2, <2>3 DEF TargetSettled, Recorded
<1>. QED BY <1>1, <1>2, EntersUnsent

\* No step makes a second change of a target uncertain.
LEMMA PairsSteps ==
  ASSUME Shape, Courses, Leases, Checked, Pairs, [GuardedNext]_guardedVars
  PROVE  Pairs'
<1>. SUFFICES ASSUME NEW c \in Changes, NEW d \in Changes, c # d, target[c] = target[d],
                     Uncertain(c)', Uncertain(d)'
              PROVE  FALSE
  BY TargetsStay DEF Pairs
<1>1. Uncertain(c) \/ place[c] = "send" BY BecomesUncertain
<1>2. Uncertain(d) \/ place[d] = "send" BY BecomesUncertain
<1>3. place[c] # "send" \/ place[d] # "send" BY DEF Leases, Holding
<1>4. place[c] = "send" => ~Uncertain(d) BY DEF Checked, Unsent
<1>5. place[d] = "send" => ~Uncertain(c) BY DEF Checked, Unsent
<1>. QED BY <1>1, <1>2, <1>3, <1>4, <1>5 DEF Pairs

\* The inductive invariant.
GuardedInv == Shape /\ Courses /\ Leases /\ Checked /\ Pairs

\* It holds in every state.
LEMMA GuardedInvHolds == GuardedSpec => []GuardedInv
<1>1. GuardedInit => GuardedInv
  <2>. SUFFICES ASSUME GuardedInit PROVE GuardedInv OBVIOUS
  <2>1. Shape
    BY GuardedAssumption DEF GuardedInit, Shape, Changes, Statuses, GuardedPlaces
  <2>2. Courses BY DEF GuardedInit, Courses, Course
  <2>3. Leases /\ Checked /\ Pairs
    BY DEF GuardedInit, Leases, Checked, Pairs, Holding, Unsent, Uncertain
  <2>. QED BY <2>1, <2>2, <2>3 DEF GuardedInv
<1>2. GuardedInv /\ [GuardedNext]_guardedVars => GuardedInv'
  BY ShapeSteps, CourseSteps, LeaseSteps, CheckedSteps, PairsSteps DEF GuardedInv
<1>. QED BY <1>1, <1>2, PTL DEF GuardedSpec

\* Types: one process has the lease at a time, and no change is sent twice.
THEOREM GuardedTyped == GuardedSpec => []GuardedTypeOK
<1>1. GuardedInv => GuardedTypeOK
  <2>. SUFFICES ASSUME GuardedInv PROVE GuardedTypeOK OBVIOUS
  <2>1. \A c \in Changes : sends[c] \in 0..1 BY DEF GuardedInv, Shape, Courses, Course
  <2>2. Cardinality(holder) <= 1 /\ holder \subseteq Changes \cup {"operator"}
    BY FS_EmptySet, FS_Singleton DEF GuardedInv, Leases
  <2>. QED BY <2>1, <2>2 DEF GuardedInv, Shape, GuardedTypeOK
<1>. QED BY <1>1, GuardedInvHolds, PTL

\* applyChange and its catch blocks: verified took effect; not_sent, refused and
\* pending again were never sent; what was sent has its record, after any crash.
THEOREM OutcomesStayTrue == GuardedSpec => []OutcomesAreTrue
<1>1. GuardedInv => OutcomesAreTrue
  BY DEF GuardedInv, Courses, Course, OutcomesAreTrue
<1>. QED BY <1>1, GuardedInvHolds, PTL

\* A set whose members are all the same.
LEMMA AtMostOne ==
  ASSUME NEW S, \A c, d \in S : c = d
  PROVE  Cardinality(S) <= 1
<1>1. CASE S = {}
  <2>1. Cardinality(S) = 0 BY <1>1, FS_EmptySet
  <2>. QED BY <2>1
<1>2. CASE S # {}
  <2>1. PICK c \in S : S = {c} BY <1>2
  <2>2. Cardinality(S) = 1 BY <2>1, FS_Singleton
  <2>. QED BY <2>2
<1>. QED BY <1>1, <1>2

\* assertTargetSettled under the lease: no second change of a target is sent
\* while the outcome of one is not on disk.
THEOREM AtMostOneUncertain == GuardedSpec => []OneUncertainPerTarget
<1>1. GuardedInv => OneUncertainPerTarget
  <2>. SUFFICES ASSUME GuardedInv, NEW t \in Targets
                PROVE  Cardinality({c \in Plans : target[c] = t /\ sends[c] > 0
                                                /\ record[c] \notin Settling}) <= 1
    BY DEF OneUncertainPerTarget
  <2>. DEFINE S == {c \in Plans : target[c] = t /\ sends[c] > 0 /\ record[c] \notin Settling}
  <2>1. \A c, d \in S : c = d BY DEF GuardedInv, Pairs, Uncertain, Changes
  <2>. QED BY <2>1, AtMostOne
<1>. QED BY <1>1, GuardedInvHolds, PTL

-------------------------------------------------------------------------------
(* Approval custody: a release reported as done vouches for its lease *)

\* What the proof needs of the types.
CallsAndHelpers ==
  /\ caller \in [Keepers -> {"idle", "preflight", "refused", "acquiring", "leased",
                             "releasing", "released", "rejected"}]
  /\ helper \in [Keepers -> {"none", "starting", "locked", "reported", "dead", "clean"}]

\* One helper has the lock.
LockIsExclusive == \A c, d \in Keepers : HasLock(c) /\ HasLock(d) => c = d

\* The helper of a frame, or of a lease, has had the lock.
HeldOnce(c) == helper[c] \in {"reported", "dead", "clean"}
FramesFollowLocks ==
  \A c \in Keepers :
    /\ frame[c] \in {"sent", "checking"} => HeldOnce(c)
    /\ caller[c] = "leased" => HeldOnce(c)

\* A helper ends cleanly only when told to, and is told by a release only.
ToldByRelease ==
  \A c \in Keepers :
    /\ c \in control => caller[c] \in {"releasing", "released", "rejected"}
    /\ helper[c] = "clean" => c \in control

\* A lease that was shared has lost its helper; a release that is done has not.
SharedIsDead ==
  /\ shared \subseteq Keepers
  /\ \A c \in shared : helper[c] = "dead"
  /\ \A c \in Keepers : caller[c] = "released" => helper[c] = "clean"

\* A call without a child has no helper.
Unspawned ==
  \A c \in Keepers : caller[c] \in {"idle", "preflight", "refused"} => helper[c] = "none"

CustodyInv ==
  CallsAndHelpers /\ Unspawned /\ LockIsExclusive /\ FramesFollowLocks /\ ToldByRelease /\ SharedIsDead

-------------------------------------------------------------------------------
\* What a step of one call is to the proof: which moves of its caller, its
\* helper and its frame there are, and that the other calls stay.
CallerMoves(c) ==
  /\ caller' \in [Keepers -> {"idle", "preflight", "refused", "acquiring", "leased",
                              "releasing", "released", "rejected"}]
  /\ \A d \in Keepers \ {c} : caller'[d] = caller[d]
  /\ \/ caller'[c] = caller[c]
     \/ caller[c] = "idle" /\ caller'[c] = "preflight"
     \/ caller[c] = "preflight" /\ caller'[c] \in {"refused", "acquiring"}
     \/ caller[c] = "acquiring" /\ caller'[c] = "leased" /\ frame[c] = "checking"
     \/ caller[c] = "leased" /\ caller'[c] = "releasing"
     \/ caller'[c] = "rejected"
     \/ caller[c] \in {"leased", "releasing"} /\ caller'[c] = "released" /\ helper[c] = "clean"

HelperMoves(c) ==
  /\ helper' \in [Keepers -> {"none", "starting", "locked", "reported", "dead", "clean"}]
  /\ \A d \in Keepers \ {c} : helper'[d] = helper[d]
  /\ \/ helper'[c] = helper[c]
     \/ caller'[c] = "acquiring" /\ helper[c] = "none" /\ helper'[c] = "starting"
     \/ helper[c] = "starting" /\ helper'[c] = "locked" /\ \A d \in Keepers : ~HasLock(d)
     \/ helper[c] = "locked" /\ helper'[c] = "reported"
     \/ helper[c] = "reported" /\ helper'[c] = "clean" /\ c \in control
     \/ helper[c] \in {"starting", "locked", "reported"} /\ helper'[c] = "dead"

OtherMoves(c) ==
  /\ \A d \in Keepers : frame'[d] \in {"sent", "checking"} =>
       frame[d] \in {"sent", "checking"} \/ (d = c /\ helper'[d] = "reported")
  /\ \/ control' = control
     \/ control' = control \cup {c} /\ caller'[c] = "releasing"

CustodyMoves(c) == CallerMoves(c) /\ HelperMoves(c) /\ OtherMoves(c)

LEMMA CallerStays ==
  ASSUME CustodyInv, NEW c \in Keepers, UNCHANGED caller PROVE CallerMoves(c)
BY DEF CustodyInv, CallsAndHelpers, CallerMoves

LEMMA HelperStays ==
  ASSUME CustodyInv, NEW c \in Keepers, UNCHANGED helper PROVE HelperMoves(c)
BY DEF CustodyInv, CallsAndHelpers, HelperMoves

LEMMA OthersStay ==
  ASSUME NEW c \in Keepers, UNCHANGED <<frame, control>> PROVE OtherMoves(c)
BY DEF OtherMoves

\* A call that is rejected, or ends with its helper's end.
LEMMA Rejects ==
  ASSUME CustodyInv, NEW c \in Keepers, CallGoes(c, "rejected") PROVE CallerMoves(c)
BY DEF CustodyInv, CallsAndHelpers, CallGoes, CallerMoves

LEMMA Finishes ==
  ASSUME CustodyInv, NEW c \in Keepers, FinishRelease(c), caller[c] \in {"leased", "releasing"}
  PROVE  CallerMoves(c)
BY DEF CustodyInv, CallsAndHelpers, FinishRelease, ReleasedWell, CallGoes, CallerMoves

LEMMA AcquireMoves ==
  ASSUME CustodyInv, NEW c \in Keepers,
         StartAcquire(c) \/ AcquireRefused(c) \/ SpawnHelper(c) \/ OnReady(c) \/ CompleteReady(c)
  PROVE  CustodyMoves(c)
<1>0. CallsAndHelpers /\ Unspawned
  BY DEF CustodyInv
<1>1. CASE StartAcquire(c)
  <2>1. CallerMoves(c)
    BY <1>0, <1>1 DEF StartAcquire, CallsAndHelpers, CallGoes, CallerMoves
  <2> QED BY <1>1, <2>1, HelperStays, OthersStay DEF StartAcquire, controllerVars, CustodyMoves
<1>2. CASE AcquireRefused(c)
  <2>1. CallerMoves(c)
    BY <1>0, <1>2 DEF AcquireRefused, CallsAndHelpers, CallGoes, CallerMoves
  <2> QED BY <1>2, <2>1, HelperStays, OthersStay DEF AcquireRefused, controllerVars, CustodyMoves
<1>3. CASE SpawnHelper(c)
  <2>1. CallerMoves(c)
    BY <1>0, <1>3 DEF SpawnHelper, CallsAndHelpers, CallGoes, CallerMoves
  <2>2. HelperMoves(c)
    <3>1. caller'[c] = "acquiring" /\ helper[c] = "none"
      BY <1>0, <1>3 DEF SpawnHelper, CallsAndHelpers, Unspawned, CallGoes
    <3> QED BY <1>0, <1>3, <3>1 DEF SpawnHelper, CallsAndHelpers, HelperMoves
  <2> QED BY <1>3, <2>1, <2>2, OthersStay DEF SpawnHelper, CustodyMoves
<1>4. CASE OnReady(c)
  <2>1. OtherMoves(c)
    BY <1>4 DEF OnReady, controllerVars, OtherMoves
  <2> QED BY <1>4, <2>1, CallerStays, HelperStays DEF OnReady, CustodyMoves
<1>5. CASE CompleteReady(c)
  <2>1. CallerMoves(c)
    <3>1. CASE UNCHANGED caller
      BY <3>1, CallerStays
    <3>2. CASE Acquirable(c) /\ CallGoes(c, "leased")
      BY <1>0, <1>5, <3>2 DEF CompleteReady, Acquirable, CallsAndHelpers, CallGoes, CallerMoves
    <3> QED BY <1>5, <3>1, <3>2 DEF CompleteReady
  <2>2. OtherMoves(c)
    BY <1>5 DEF CompleteReady, OtherMoves
  <2> QED BY <1>5, <2>1, <2>2, HelperStays DEF CompleteReady, CustodyMoves
<1> QED BY <1>1, <1>2, <1>3, <1>4, <1>5

LEMMA ReleaseMoves ==
  ASSUME CustodyInv, NEW c \in Keepers, ReleaseCustody(c)
  PROVE  CustodyMoves(c)
<1>0. CallsAndHelpers /\ caller[c] = "leased"
  BY DEF CustodyInv, ReleaseCustody
<1>1. ASSUME CallGoes(c, "releasing") PROVE CallerMoves(c)
  BY <1>0, <1>1 DEF CallsAndHelpers, CallGoes, CallerMoves
<1>2. HelperMoves(c) /\ UNCHANGED frame
  BY HelperStays DEF ReleaseCustody
<1>3. CASE ReleaseTerminated(c)
  <2>1. CallerMoves(c)
    BY <1>0, <1>1, <1>3, Finishes, Rejects DEF ReleaseTerminated
  <2> QED BY <1>2, <1>3, <2>1, OthersStay DEF ReleaseTerminated, CustodyMoves
<1>4. CASE ReleaseExited(c)
  <2>1. CallerMoves(c)
    BY <1>0, <1>1, <1>4, Finishes DEF ReleaseExited
  <2> QED BY <1>2, <1>4, <2>1, OthersStay DEF ReleaseExited, CustodyMoves
<1>5. CASE ReleaseRunning(c)
  <2>1. CallerMoves(c) /\ caller'[c] = "releasing"
    BY <1>0, <1>1, <1>5 DEF ReleaseRunning, CallGoes, CallsAndHelpers
  <2>2. OtherMoves(c)
    BY <1>2, <1>5, <2>1 DEF ReleaseRunning, OtherMoves
  <2> QED BY <1>2, <2>1, <2>2 DEF CustodyMoves
<1> QED BY <1>3, <1>4, <1>5 DEF ReleaseCustody

LEMMA EventMoves ==
  ASSUME CustodyInv, NEW c \in Keepers,
         OnUpset(c) \/ OnExit(c) \/ OnClose(c) \/ OperationTimer(c) \/ GraceTimer(c)
  PROVE  CustodyMoves(c)
<1>1. UNCHANGED <<helper, frame, control>>
  BY DEF OnUpset, OnExit, OnClose, OperationTimer, GraceTimer, controllerVars
<1>2. CallerMoves(c)
  <2>1. CASE UNCHANGED caller
    BY <2>1, CallerStays
  <2>2. CASE CallGoes(c, "rejected")
    BY <2>2, Rejects
  <2>3. CASE FinishRelease(c) /\ caller[c] = "releasing"
    BY <2>3, Finishes
  <2>4. UNCHANGED caller \/ CallGoes(c, "rejected") \/ (FinishRelease(c) /\ caller[c] = "releasing")
    BY DEF OnUpset, OnExit, OnClose, OperationTimer, GraceTimer
  <2> QED BY <2>1, <2>2, <2>3, <2>4
<1> QED BY <1>1, <1>2, HelperStays, OthersStay DEF CustodyMoves

LEMMA HelperStepMoves ==
  ASSUME CustodyInv, NEW c \in Keepers,
         LockRoot(c) \/ EmitReady(c) \/ ReadControl(c) \/ HelperEnds(c)
  PROVE  CustodyMoves(c)
<1>0. CallsAndHelpers /\ CallerMoves(c)
  BY CallerStays DEF CustodyInv, LockRoot, EmitReady, ReadControl, HelperEnds
<1>1. CASE EmitReady(c)
  <2>1. HelperMoves(c) /\ helper'[c] = "reported"
    BY <1>0, <1>1 DEF EmitReady, HelperGoes, CallsAndHelpers, HelperMoves
  <2>2. OtherMoves(c)
    BY <1>1, <2>1 DEF EmitReady, controllerVars, OtherMoves
  <2> QED BY <1>0, <2>1, <2>2 DEF CustodyMoves
<1>2. CASE LockRoot(c) \/ ReadControl(c) \/ HelperEnds(c)
  <2>1. HelperMoves(c)
    BY <1>0, <1>2 DEF LockRoot, ReadControl, HelperEnds, HelperGoes, CallsAndHelpers, HelperMoves
  <2>2. OtherMoves(c)
    BY <1>2, OthersStay DEF LockRoot, ReadControl, HelperEnds, controllerVars
  <2> QED BY <1>0, <2>1, <2>2 DEF CustodyMoves
<1> QED BY <1>1, <1>2

LEMMA EveryStepMoves ==
  ASSUME CustodyInv, NEW c \in Keepers, CustodyStep(c) PROVE CustodyMoves(c)
BY AcquireMoves, ReleaseMoves, EventMoves, HelperStepMoves DEF CustodyStep

-------------------------------------------------------------------------------
\* The moves keep each part of the invariant.
LEMMA MovesKeepInv ==
  ASSUME CustodyInv, NEW c \in Keepers, CustodyMoves(c),
         shared' = shared \cup {d \in Keepers :
                     caller'[d] = "leased" /\ \E e \in Keepers \ {d} : HasLock(e)'}
  PROVE  CustodyInv'
<1>0. CallerMoves(c) /\ HelperMoves(c) /\ OtherMoves(c)
  BY DEF CustodyMoves
<1>1. CallsAndHelpers'
  BY <1>0 DEF CallsAndHelpers, CallerMoves, HelperMoves
<1>2. Unspawned'
  BY <1>0 DEF CustodyInv, Unspawned, CallerMoves, HelperMoves
<1>3. LockIsExclusive'
  BY <1>0 DEF CustodyInv, LockIsExclusive, HasLock, HelperMoves
<1>4. ASSUME NEW d \in Keepers, HeldOnce(d) PROVE HeldOnce(d)'
  BY <1>0, <1>4 DEF HeldOnce, HelperMoves
<1>5. FramesFollowLocks'
  <2>1. ASSUME NEW d \in Keepers, frame'[d] \in {"sent", "checking"} PROVE HeldOnce(d)'
    BY <1>0, <1>4, <2>1 DEF CustodyInv, FramesFollowLocks, OtherMoves, HeldOnce
  <2>2. ASSUME NEW d \in Keepers, caller'[d] = "leased" PROVE HeldOnce(d)'
    BY <1>0, <1>4, <2>2 DEF CustodyInv, FramesFollowLocks, CallerMoves
  <2> QED BY <2>1, <2>2 DEF FramesFollowLocks, HeldOnce
<1>6. ToldByRelease'
  <2>1. ASSUME NEW d \in Keepers, d \in control'
        PROVE  caller'[d] \in {"releasing", "released", "rejected"}
    BY <1>0, <2>1 DEF CustodyInv, ToldByRelease, CallerMoves, OtherMoves
  <2>2. ASSUME NEW d \in Keepers, helper'[d] = "clean" PROVE d \in control'
    BY <1>0, <2>2 DEF CustodyInv, ToldByRelease, HelperMoves, OtherMoves
  <2> QED BY <2>1, <2>2 DEF ToldByRelease
<1>7. SharedIsDead'
  <2>1. ASSUME NEW d \in shared PROVE helper'[d] = "dead"
    BY <1>0, <2>1 DEF CustodyInv, SharedIsDead, HelperMoves
  <2>2. ASSUME NEW d \in Keepers, caller'[d] = "leased", NEW e \in Keepers \ {d}, HasLock(e)'
        PROVE  helper'[d] = "dead"
    <3>1. ~HasLock(d)'
      BY <1>3, <2>2 DEF LockIsExclusive, HasLock
    <3>2. HeldOnce(d)'
      BY <1>5, <2>2 DEF FramesFollowLocks, HeldOnce
    <3>3. helper'[d] # "clean"
      BY <1>6, <2>2 DEF ToldByRelease
    <3> QED BY <3>1, <3>2, <3>3 DEF HasLock, HeldOnce
  <2>3. ASSUME NEW d \in Keepers, caller'[d] = "released" PROVE helper'[d] = "clean"
    BY <1>0, <2>3 DEF CustodyInv, SharedIsDead, CallerMoves, HelperMoves
  <2> QED BY <2>1, <2>2, <2>3 DEF CustodyInv, SharedIsDead
<1> QED BY <1>1, <1>2, <1>3, <1>5, <1>6, <1>7 DEF CustodyInv

\* Whatever the helpers and their events do, a release is reported as done only
\* if nobody else could have had the root during its lease.
THEOREM ExclusiveToTheEnd == CustodySpec => []CustodyWasExclusive
<1>1. CustodyInit => CustodyInv
  BY DEF CustodyInit, CustodyInv, CallsAndHelpers, Unspawned, LockIsExclusive, HasLock,
         FramesFollowLocks, ToldByRelease, SharedIsDead
<1>2. CustodyInv /\ [CustodyNext]_custodyVars => CustodyInv'
  <2> SUFFICES ASSUME CustodyInv, [CustodyNext]_custodyVars PROVE CustodyInv'
    OBVIOUS
  <2>1. CASE CustodyNext
    BY <2>1, EveryStepMoves, MovesKeepInv DEF CustodyNext
  <2>2. CASE UNCHANGED custodyVars
    BY <2>2 DEF custodyVars, controllerVars, CustodyInv, CallsAndHelpers, Unspawned, LockIsExclusive,
                HasLock, FramesFollowLocks, HeldOnce, ToldByRelease, SharedIsDead
  <2> QED BY <2>1, <2>2
<1>3. CustodyInv => CustodyWasExclusive
  BY DEF CustodyInv, SharedIsDead, CustodyWasExclusive
<1> QED BY <1>1, <1>2, <1>3, PTL DEF CustodySpec

-------------------------------------------------------------------------------
(* Approval custody: types and slots *)

\* The types of the fields, and the sets.
CustodyFields ==
  /\ caller \in [Keepers -> {"idle", "preflight", "refused", "acquiring", "leased",
                             "releasing", "released", "rejected"}]
  /\ child \in [Keepers -> {"none", "running", "exited", "closed"}]
  /\ helper \in [Keepers -> {"none", "starting", "locked", "reported", "dead", "clean"}]
  /\ frame \in [Keepers -> {"none", "sent", "checking", "over"}]
  /\ timers \in [Keepers -> SUBSET {"operation", "grace"}]
  /\ terminating \subseteq Keepers /\ failed \subseteq Keepers /\ lost \subseteq Keepers
  /\ unproved \subseteq Keepers /\ control \subseteq Keepers

\* Who has a slot, and the child of a helper that lives.
Lives(c) == helper[c] \in {"starting", "locked", "reported"}
CustodySlots ==
  /\ charged = {c \in Keepers : child[c] \in {"running", "exited"}}
  /\ IsFiniteSet(charged) /\ Cardinality(charged) <= LiveLimit
  /\ \A c \in Keepers :
       /\ Lives(c) => child[c] = "running"
       /\ caller[c] \in {"idle", "preflight", "refused"} => child[c] = "none" /\ helper[c] = "none"

-------------------------------------------------------------------------------
\* Raising a flag and starting a termination change the same fields.
LEMMA TerminateFields ==
  ASSUME CustodyFields, NEW c \in Keepers,
         Fail(c) \/ Terminate(c, {c}) \/ Terminate(c, {})
         \/ Terminate(c, IF child[c] = "running" THEN {c} ELSE {})
  PROVE  /\ timers' \in [Keepers -> SUBSET {"operation", "grace"}]
         /\ terminating' \subseteq Keepers /\ failed' \subseteq Keepers
BY DEF CustodyFields, Fail, Terminate, SetTimers, Unkilled

LEMMA AcquireFields ==
  ASSUME CustodyFields, NEW c \in Keepers,
         StartAcquire(c) \/ AcquireRefused(c) \/ SpawnHelper(c) \/ OnReady(c) \/ CompleteReady(c)
  PROVE  CustodyFields'
<1>1. CASE StartAcquire(c) \/ AcquireRefused(c) \/ OnReady(c)
  BY <1>1 DEF StartAcquire, AcquireRefused, OnReady, CallGoes, controllerVars, CustodyFields
<1>2. CASE SpawnHelper(c)
  BY <1>2 DEF SpawnHelper, CallGoes, SetTimers, CustodyFields
<1>3. CASE CompleteReady(c)
  <2>1. /\ timers' \in [Keepers -> SUBSET {"operation", "grace"}]
        /\ terminating' \subseteq Keepers /\ failed' \subseteq Keepers
    <3>1. CASE SetTimers(c, {}) /\ UNCHANGED <<terminating, failed>>
      BY <3>1 DEF SetTimers, CustodyFields
    <3>2. CASE UNCHANGED <<caller, timers, terminating, failed>>
      BY <3>2 DEF CustodyFields
    <3> QED BY <1>3, <3>1, <3>2, TerminateFields DEF CompleteReady
  <2>2. UNCHANGED caller \/ CallGoes(c, "leased")
    BY <1>3 DEF CompleteReady
  <2> QED BY <1>3, <2>1, <2>2 DEF CompleteReady, CallGoes, CustodyFields
<1> QED BY <1>1, <1>2, <1>3

LEMMA ReleaseFields ==
  ASSUME CustodyFields, NEW c \in Keepers, ReleaseCustody(c)
  PROVE  CustodyFields'
<1>1. UNCHANGED <<child, helper, frame, lost, unproved>>
  BY DEF ReleaseCustody
<1>2. caller' \in [Keepers -> {"idle", "preflight", "refused", "acquiring", "leased",
                               "releasing", "released", "rejected"}]
  BY DEF ReleaseCustody, ReleaseTerminated, ReleaseExited, ReleaseRunning, FinishRelease, CallGoes,
         CustodyFields
<1>3. control' \subseteq Keepers
  BY DEF ReleaseCustody, ReleaseTerminated, ReleaseExited, ReleaseRunning, CustodyFields
<1>4. /\ timers' \in [Keepers -> SUBSET {"operation", "grace"}]
      /\ terminating' \subseteq Keepers /\ failed' \subseteq Keepers
  <2>1. CASE ReleaseTerminated(c) \/ ReleaseExited(c)
    BY <2>1 DEF ReleaseTerminated, ReleaseExited, FinishRelease, SetTimers, CustodyFields
  <2>2. CASE ReleaseRunning(c)
    <3>1. CASE SetTimers(c, {"operation"}) /\ UNCHANGED <<terminating, failed>>
      BY <3>1 DEF SetTimers, CustodyFields
    <3> QED BY <2>2, <3>1, TerminateFields DEF ReleaseRunning
  <2> QED BY <2>1, <2>2 DEF ReleaseCustody
<1> QED BY <1>1, <1>2, <1>3, <1>4 DEF CustodyFields

LEMMA EventFields ==
  ASSUME CustodyFields, NEW c \in Keepers,
         OnUpset(c) \/ OnExit(c) \/ OnClose(c) \/ OperationTimer(c) \/ GraceTimer(c)
  PROVE  CustodyFields'
<1>1. CASE OnUpset(c) \/ OperationTimer(c)
  <2>1. /\ timers' \in [Keepers -> SUBSET {"operation", "grace"}]
        /\ terminating' \subseteq Keepers /\ failed' \subseteq Keepers
    BY <1>1, TerminateFields DEF OnUpset, OperationTimer
  <2> QED BY <1>1, <2>1 DEF OnUpset, OperationTimer, CustodyFields
<1>2. CASE OnExit(c)
  BY <1>2 DEF OnExit, controllerVars, CustodyFields
<1>3. CASE OnClose(c)
  <2>1. timers' \in [Keepers -> SUBSET {"operation", "grace"}] /\ lost' \subseteq Keepers
    BY <1>3 DEF OnClose, FinishRelease, SetTimers, CustodyFields
  <2>2. caller' \in [Keepers -> {"idle", "preflight", "refused", "acquiring", "leased",
                                 "releasing", "released", "rejected"}]
    BY <1>3 DEF OnClose, FinishRelease, CallGoes, CustodyFields
  <2> QED BY <1>3, <2>1, <2>2 DEF OnClose, CustodyFields
<1>4. CASE GraceTimer(c)
  BY <1>4 DEF GraceTimer, SetTimers, CallGoes, Unkilled, CustodyFields
<1> QED BY <1>1, <1>2, <1>3, <1>4

LEMMA HelperStepFields ==
  ASSUME CustodyFields, NEW c \in Keepers,
         LockRoot(c) \/ EmitReady(c) \/ ReadControl(c) \/ HelperEnds(c)
  PROVE  CustodyFields'
BY DEF LockRoot, EmitReady, ReadControl, HelperEnds, HelperGoes, controllerVars, CustodyFields

-------------------------------------------------------------------------------
\* A step of a call that leaves the children alone does not change the slots.
LEMMA SlotsStay ==
  ASSUME CustodyFields, CustodySlots, NEW c \in Keepers, UNCHANGED <<child, charged>>,
         \A d \in Keepers : Lives(d)' => Lives(d),
         \A d \in Keepers : caller'[d] \in {"idle", "preflight", "refused"} =>
           caller[d] \in {"idle", "preflight", "refused"} /\ helper'[d] = helper[d]
  PROVE  CustodySlots'
BY DEF CustodySlots

LEMMA SlotSteps ==
  ASSUME CustodyFields, CustodySlots, NEW c \in Keepers, CustodyStep(c)
  PROVE  CustodySlots'
<1>. USE DEF CustodyFields
<1>1. CASE SpawnHelper(c)
  <2>1. /\ caller[c] = "preflight" /\ Cardinality(charged) < LiveLimit
        /\ charged' = charged \cup {c} /\ child' = [child EXCEPT ![c] = "running"]
        /\ caller' = [caller EXCEPT ![c] = "acquiring"]
        /\ \A d \in Keepers : d # c => helper'[d] = helper[d]
    BY <1>1 DEF SpawnHelper, CallGoes
  <2>2. c \notin charged
    BY <2>1 DEF CustodySlots
  <2>3. IsFiniteSet(charged') /\ Cardinality(charged') = Cardinality(charged) + 1
    BY <2>1, <2>2, FS_AddElement DEF CustodySlots
  <2>4. Cardinality(charged') <= LiveLimit
    <3>1. Cardinality(charged) \in Nat
      BY FS_CardinalityType DEF CustodySlots
    <3> QED BY <2>1, <2>3, <3>1, CustodyAssumption
  <2>5. charged' = {d \in Keepers : child'[d] \in {"running", "exited"}}
    BY <2>1 DEF CustodySlots
  <2>6. \A d \in Keepers :
          /\ Lives(d)' => child'[d] = "running"
          /\ caller'[d] \in {"idle", "preflight", "refused"} => child'[d] = "none" /\ helper'[d] = "none"
    BY <2>1 DEF CustodySlots, Lives
  <2> QED BY <2>3, <2>4, <2>5, <2>6 DEF CustodySlots
<1>2. CASE OnExit(c)
  <2>1. /\ UNCHANGED <<charged, helper, caller>> /\ helper[c] \in {"dead", "clean"}
        /\ child[c] = "running" /\ child' = [child EXCEPT ![c] = "exited"]
    BY <1>2 DEF OnExit, Ended
  <2>2. charged' = {d \in Keepers : child'[d] \in {"running", "exited"}}
    BY <2>1 DEF CustodySlots
  <2> QED BY <2>1, <2>2 DEF CustodySlots, Lives
<1>3. CASE OnClose(c)
  <2>1. /\ charged' = charged \ {c} /\ child' = [child EXCEPT ![c] = "closed"] /\ UNCHANGED helper
        /\ child[c] = "exited" \/ (child[c] = "running" /\ helper[c] = "none")
        /\ \A d \in Keepers : caller'[d] \in {"idle", "preflight", "refused"} =>
             caller[d] \in {"idle", "preflight", "refused"}
    BY <1>3 DEF OnClose, FinishRelease, CallGoes
  <2>2. IsFiniteSet(charged') /\ Cardinality(charged') <= Cardinality(charged)
    BY <2>1, FS_Subset DEF CustodySlots
  <2>3. Cardinality(charged') <= LiveLimit
    <3>1. Cardinality(charged) \in Nat /\ Cardinality(charged') \in Nat
      BY <2>2, FS_CardinalityType DEF CustodySlots
    <3> QED BY <2>2, <3>1, CustodyAssumption DEF CustodySlots
  <2>4. charged' = {d \in Keepers : child'[d] \in {"running", "exited"}}
    BY <2>1 DEF CustodySlots
  <2>5. \A d \in Keepers :
          /\ Lives(d)' => child'[d] = "running"
          /\ caller'[d] \in {"idle", "preflight", "refused"} => child'[d] = "none" /\ helper'[d] = "none"
    BY <2>1 DEF CustodySlots, Lives
  <2> QED BY <2>2, <2>3, <2>4, <2>5 DEF CustodySlots
<1>4. CASE StartAcquire(c) \/ AcquireRefused(c)
  BY <1>4, SlotsStay DEF StartAcquire, AcquireRefused, CallGoes, Lives
<1>5. CASE OnReady(c) \/ CompleteReady(c)
  <2>1. UNCHANGED <<child, charged, helper>> /\ (UNCHANGED caller \/ CallGoes(c, "leased"))
    BY <1>5 DEF OnReady, CompleteReady
  <2> QED BY <2>1, SlotsStay DEF CallGoes, Lives
<1>6. CASE ReleaseCustody(c)
  <2>1. UNCHANGED <<child, charged, helper>>
    BY <1>6 DEF ReleaseCustody
  <2>2. \A d \in Keepers : caller'[d] \in {"idle", "preflight", "refused"} =>
          caller[d] \in {"idle", "preflight", "refused"}
    BY <1>6
    DEF ReleaseCustody, ReleaseTerminated, ReleaseExited, ReleaseRunning, FinishRelease, CallGoes
  <2> QED BY <2>1, <2>2, SlotsStay DEF Lives
<1>7. CASE OnUpset(c) \/ OperationTimer(c) \/ GraceTimer(c)
  <2>1. UNCHANGED <<child, charged, helper>> /\ (UNCHANGED caller \/ CallGoes(c, "rejected"))
    BY <1>7 DEF OnUpset, OperationTimer, GraceTimer
  <2> QED BY <2>1, SlotsStay DEF CallGoes, Lives
<1>8. CASE LockRoot(c) \/ EmitReady(c) \/ ReadControl(c) \/ HelperEnds(c)
  <2>1. /\ UNCHANGED <<child, charged, caller>>
        /\ \A d \in Keepers : d # c => helper'[d] = helper[d]
        /\ Lives(c) /\ helper[c] # "none"
    BY <1>8 DEF LockRoot, EmitReady, ReadControl, HelperEnds, HelperGoes, Lives
  <2> QED BY <2>1, SlotsStay DEF Lives, CustodySlots
<1> QED BY <1>1, <1>2, <1>3, <1>4, <1>5, <1>6, <1>7, <1>8 DEF CustodyStep

LEMMA CustodyShapeHolds ==
  CustodyInit /\ [][CustodyNext]_custodyVars => [](CustodyFields /\ CustodySlots /\ shared \subseteq Keepers)
<1>1. CustodyInit => CustodyFields /\ CustodySlots /\ shared \subseteq Keepers
  <2> SUFFICES ASSUME CustodyInit PROVE CustodyFields /\ CustodySlots /\ shared \subseteq Keepers
    OBVIOUS
  <2>1. CustodyFields /\ shared \subseteq Keepers
    BY DEF CustodyInit, CustodyFields
  <2>2. CustodySlots
    BY FS_EmptySet, CustodyAssumption DEF CustodyInit, CustodySlots, Lives
  <2> QED BY <2>1, <2>2
<1>2. CustodyFields /\ CustodySlots /\ shared \subseteq Keepers /\ [CustodyNext]_custodyVars
        => (CustodyFields /\ CustodySlots /\ shared \subseteq Keepers)'
  <2> SUFFICES ASSUME CustodyFields, CustodySlots, shared \subseteq Keepers, [CustodyNext]_custodyVars
               PROVE  (CustodyFields /\ CustodySlots /\ shared \subseteq Keepers)'
    OBVIOUS
  <2>1. CASE UNCHANGED custodyVars
    BY <2>1 DEF custodyVars, controllerVars, CustodyFields, CustodySlots, Lives
  <2>2. CASE CustodyNext
    <3>1. PICK c \in Keepers : CustodyStep(c)
      BY <2>2 DEF CustodyNext
    <3>2. CustodyFields'
      BY <3>1, AcquireFields, ReleaseFields, EventFields, HelperStepFields DEF CustodyStep
    <3>3. shared' \subseteq Keepers
      BY <2>2 DEF CustodyNext
    <3> QED BY <3>1, <3>2, <3>3, SlotSteps
  <2> QED BY <2>1, <2>2
<1> QED BY <1>1, <1>2, PTL

LEMMA CustodyTypesFollow ==
  CustodyFields /\ CustodySlots /\ shared \subseteq Keepers => CustodyTypeOK
BY DEF CustodyFields, CustodySlots, CustodyTypeOK

\* The types of the custody, for any number of calls and any limit.
THEOREM CustodyTypes == CustodySpec => []CustodyTypeOK
BY CustodyTypesFollow, CustodyShapeHolds, PTL DEF CustodySpec

LEMMA LimitsFollow == CustodyFields /\ CustodySlots => HelpersAreLimited
<1>. SUFFICES ASSUME CustodyFields, CustodySlots PROVE HelpersAreLimited
  OBVIOUS
<1>. DEFINE living == {c \in Keepers : helper[c] \in {"starting", "locked", "reported"}}
<1>1. living \in SUBSET charged
  BY DEF CustodySlots, Lives
<1>2. IsFiniteSet(living) /\ Cardinality(living) <= Cardinality(charged)
  BY <1>1, FS_Subset DEF CustodySlots
<1>3. Cardinality(living) \in Nat /\ Cardinality(charged) \in Nat
  BY <1>2, FS_CardinalityType DEF CustodySlots
<1>4. Cardinality(living) <= LiveLimit
  BY <1>2, <1>3, CustodyAssumption DEF CustodySlots
<1> QED BY <1>4 DEF HelpersAreLimited, CustodySlots

\* charge and the close: every helper that lives has a slot, of which there are
\* LiveLimit, whatever its call was answered and however late its end is heard.
THEOREM LimitedHelpers == CustodySpec => []HelpersAreLimited
BY LimitsFollow, CustodyShapeHolds, PTL DEF CustodySpec

-------------------------------------------------------------------------------
(* The stdio bridge *)

\* A sequence in which nothing occurs twice, and what it holds.
Entries(s) == {s[i] : i \in 1..Len(s)}
Once(s) == \A i, j \in 1..Len(s) : s[i] = s[j] => i = j

\* What waits on the session is what is queued or being executed, and then the
\* close, once it has been asked for.
TailIsTheQueue ==
  /\ \A r \in Requests : r \in Entries(tail) <=> request[r].at \in {"queued"} \cup Executing
  /\ "close" \in Entries(tail) <=> shutdown = "session"
  /\ \A i \in 1..Len(tail) : tail[i] = "close" => i = Len(tail)

\* The session follows the shutdown; after its end nothing waits.
SessionFollowsShutdown ==
  /\ session = "closing" <=> shutdown = "session"
  /\ session = "closed" <=> shutdown = "end" /\ remote = "ready"
  /\ shutdown = "session" => remote = "ready"
  /\ shutdown = "end" => remote # "connecting" /\ tail = <<>> /\ timer = "cleared"
  /\ done = "resolved" => shutdown = "end"

\* Without a session there is no connection but the first.
FirstIsAlone ==
  remote # "ready" =>
    /\ current = NoConnection /\ tail = <<>>
    /\ \A c \in Connections : connection[c] # "unused" => c = 1
    /\ remote = "none" => connection[1] = "unused"
    /\ remote = "connecting" => connection[1] \in {"connecting", "closing"}
    /\ remote = "failed" => connection[1] = "closed"

\* The connection of a session is connected until its close has its turn.
CurrentIsConnected ==
  remote = "ready" =>
    /\ current \in Connections
    /\ \/ connection[current] = "connected" /\ shutdown # "end"
       \/ connection[current] = "closing" /\ shutdown = "session" /\ Head(tail) = "close"
       \/ connection[current] = "closed" /\ shutdown = "end"

\* The connection an operation makes, gives up or replaces.
OnItsConnection(r) ==
  /\ request[r].at = "connecting" =>
       request[r].on \in Connections /\ connection[request[r].on] = "connecting"
  /\ request[r].at \in {"giving_up", "replacing"} =>
       /\ request[r].on \in Connections /\ request[r].on # current
       /\ connection[request[r].on] = "closing"

BridgeInv ==
  /\ BridgeTypeOK /\ TailIsTheQueue /\ OneOperationRuns /\ SessionFollowsShutdown
  /\ FirstIsAlone /\ CurrentIsConnected /\ NoConnectionIsLeaked
  /\ \A r \in Requests : OnItsConnection(r)

-------------------------------------------------------------------------------
\* What holds of a sequence in which nothing occurs twice, for its end and its head.
LEMMA AppendIsLast ==
  ASSUME NEW S, NEW s \in Seq(S), NEW e \in S
  PROVE  /\ Append(s, e) \in Seq(S) /\ Append(s, e) # <<>>
         /\ Len(Append(s, e)) = Len(s) + 1
         /\ \A i \in 1..Len(s) : Append(s, e)[i] = s[i]
         /\ Append(s, e)[Len(s) + 1] = e
         /\ Entries(Append(s, e)) = Entries(s) \cup {e}
         /\ s # <<>> => Head(Append(s, e)) = Head(s)
         /\ Once(s) /\ e \notin Entries(s) => Once(Append(s, e))
<1>1. /\ Append(s, e) \in Seq(S) /\ Append(s, e) # <<>>
      /\ Len(Append(s, e)) = Len(s) + 1
      /\ \A i \in 1..Len(s) : Append(s, e)[i] = s[i]
      /\ Append(s, e)[Len(s) + 1] = e
  OBVIOUS
<1>2. Len(s) \in Nat
  OBVIOUS
<1>3. Entries(Append(s, e)) = Entries(s) \cup {e}
  <2>1. ASSUME NEW x \in Entries(Append(s, e)) PROVE x \in Entries(s) \cup {e}
    <3>1. PICK i \in 1..(Len(s) + 1) : x = Append(s, e)[i]
      BY <1>1, <2>1 DEF Entries
    <3>2. i \in 1..Len(s) \/ i = Len(s) + 1
      BY <1>2
    <3> QED BY <1>1, <3>1, <3>2 DEF Entries
  <2>2. Entries(s) \subseteq Entries(Append(s, e))
    <3>1. \A i \in 1..Len(s) : i \in 1..(Len(s) + 1)
      BY <1>2
    <3>2. ASSUME NEW i \in 1..Len(s) PROVE s[i] \in Entries(Append(s, e))
      BY <1>1, <3>1 DEF Entries
    <3> QED BY <3>2 DEF Entries
  <2>3. e \in Entries(Append(s, e))
    <3>1. Len(s) + 1 \in 1..(Len(s) + 1)
      BY <1>2
    <3> QED BY <1>1, <3>1 DEF Entries
  <2> QED BY <2>1, <2>2, <2>3
<1>4. s # <<>> => Head(Append(s, e)) = Head(s)
  <2>1. ASSUME s # <<>> PROVE 1 \in 1..Len(s) /\ Head(s) = s[1] /\ Head(Append(s, e)) = Append(s, e)[1]
    BY <2>1
  <2> QED BY <1>1, <2>1
<1>5. ASSUME Once(s), e \notin Entries(s) PROVE Once(Append(s, e))
  <2>1. ASSUME NEW i \in 1..(Len(s) + 1), NEW j \in 1..(Len(s) + 1), Append(s, e)[i] = Append(s, e)[j]
        PROVE  i = j
    <3>1. (i \in 1..Len(s) \/ i = Len(s) + 1) /\ (j \in 1..Len(s) \/ j = Len(s) + 1)
      BY <1>2
    <3>2. \A k \in 1..Len(s) : s[k] # e
      BY <1>5 DEF Entries
    <3> QED BY <1>1, <1>5, <2>1, <3>1, <3>2 DEF Once
  <2> QED BY <1>1, <2>1 DEF Once
<1> QED BY <1>1, <1>3, <1>4, <1>5

LEMMA TailLosesHead ==
  ASSUME NEW S, NEW s \in Seq(S), s # <<>>, Once(s)
  PROVE  /\ Tail(s) \in Seq(S) /\ Once(Tail(s))
         /\ Len(Tail(s)) = Len(s) - 1
         /\ \A i \in 1..Len(Tail(s)) : Tail(s)[i] = s[i + 1]
         /\ Entries(Tail(s)) = Entries(s) \ {Head(s)}
<1>1. /\ Tail(s) \in Seq(S) /\ Len(Tail(s)) = Len(s) - 1
      /\ \A i \in 1..Len(Tail(s)) : Tail(s)[i] = s[i + 1]
      /\ Head(s) = s[1] /\ Len(s) \in Nat \ {0}
  OBVIOUS
<1>2. \A i \in 1..Len(Tail(s)) : i + 1 \in 2..Len(s)
  BY <1>1
<1>3. Once(Tail(s))
  <2>1. \A i, j \in 1..Len(Tail(s)) : s[i + 1] = s[j + 1] => i + 1 = j + 1
    BY <1>1, <1>2 DEF Once
  <2> QED BY <1>1, <2>1 DEF Once
<1>4. Entries(Tail(s)) \subseteq Entries(s) \ {Head(s)}
  <2>1. ASSUME NEW i \in 1..Len(Tail(s)) PROVE Tail(s)[i] \in Entries(s) /\ Tail(s)[i] # Head(s)
    <3>1. i + 1 \in 1..Len(s) /\ 1 \in 1..Len(s) /\ i + 1 # 1
      BY <1>1, <1>2
    <3> QED BY <1>1, <3>1 DEF Entries, Once
  <2> QED BY <2>1 DEF Entries
<1>5. Entries(s) \ {Head(s)} \subseteq Entries(Tail(s))
  <2>1. ASSUME NEW k \in 1..Len(s), k # 1 PROVE s[k] \in Entries(Tail(s))
    <3>1. k - 1 \in 1..Len(Tail(s)) /\ (k - 1) + 1 = k
      BY <1>1, <2>1
    <3>2. Tail(s)[k - 1] = s[k]
      BY <1>1, <3>1
    <3> QED BY <3>1, <3>2 DEF Entries
  <2> QED BY <1>1, <2>1 DEF Entries
<1> QED BY <1>1, <1>3, <1>4, <1>5

\* A head is an entry.
LEMMA HeadIsEntry ==
  ASSUME NEW S, NEW s \in Seq(S), NEW e \in Entries(s)
  PROVE  s # <<>> /\ Head(s) \in Entries(s) /\ Head(s) = s[1]
<1>1. PICK i \in 1..Len(s) : s[i] = e
  BY DEF Entries
<1>2. Len(s) \in Nat /\ 1 \in 1..Len(s) /\ s # <<>>
  BY <1>1
<1>3. Head(s) = s[1]
  BY <1>2
<1> QED BY <1>2, <1>3 DEF Entries

LEMMA NothingWaits ==
  ASSUME NEW S PROVE <<>> \in Seq(S) /\ DOMAIN <<>> = {}
OBVIOUS

-------------------------------------------------------------------------------
(* The steps *)

\* What the shutdown does before it comes to the remote leaves the session alone.
LifeStep ==
  /\ UNCHANGED <<remote, session, current, connection, tail, request>>
  /\ startup' \in {"begun", "remote", "connected", "finished"}
  /\ exited' \in BOOLEAN /\ localClosed' \in BOOLEAN
  /\ \/ UNCHANGED <<shutdown, timer, done>>
     \/ /\ shutdown \notin {"session", "end"}
        /\ shutdown' \in {"startup", "server", "transport", "remote"}
        /\ timer' \in {timer, "on"} /\ UNCHANGED done
     \/ UNCHANGED shutdown /\ timer = "on" /\ timer' = "fired" /\ done' = "rejected"

LEMMA LifeSteps ==
  ASSUME BridgeInv, AttachRemote \/ ConnectLocal \/ FinishStartup \/ StartupFails
                    \/ RequestShutdown \/ CloseLocal \/ TimerFires
  PROVE  LifeStep
<1>0. BridgeTypeOK
  BY DEF BridgeInv
<1>1. CASE AttachRemote
  BY <1>0, <1>1 DEF AttachRemote, LifeStep, BridgeTypeOK
<1>2. CASE ConnectLocal
  BY <1>0, <1>2 DEF ConnectLocal, LifeStep, BridgeTypeOK
<1>3. CASE FinishStartup
  BY <1>0, <1>3 DEF FinishStartup, LifeStep, BridgeTypeOK
<1>4. CASE StartupFails
  BY <1>0, <1>4 DEF StartupFails, LifeStep, BridgeTypeOK
<1>5. CASE RequestShutdown
  BY <1>0, <1>5 DEF RequestShutdown, Requested, LifeStep, BridgeTypeOK
<1>6. CASE CloseLocal
  BY <1>0, <1>6 DEF CloseLocal, LifeStep, BridgeTypeOK
<1>7. CASE TimerFires
  BY <1>0, <1>7 DEF TimerFires, LifeStep, BridgeTypeOK
<1> QED BY <1>1, <1>2, <1>3, <1>4, <1>5, <1>6, <1>7

LEMMA LifeKeepsInv ==
  ASSUME BridgeInv, LifeStep PROVE BridgeInv'
<1>. USE DEF BridgeInv
<1>1. shutdown' = "session" <=> shutdown = "session"
  BY DEF LifeStep
<1>2. shutdown' = "end" <=> shutdown = "end"
  BY DEF LifeStep
<1>3. BridgeTypeOK'
  BY DEF LifeStep, BridgeTypeOK
<1>4. TailIsTheQueue' /\ OneOperationRuns'
  BY <1>1 DEF LifeStep, TailIsTheQueue, Entries, OneOperationRuns
<1>5. SessionFollowsShutdown'
  BY <1>1, <1>2 DEF LifeStep, SessionFollowsShutdown
<1>6. FirstIsAlone' /\ CurrentIsConnected'
  BY <1>1, <1>2 DEF LifeStep, FirstIsAlone, CurrentIsConnected
<1>7. NoConnectionIsLeaked' /\ \A r \in Requests : OnItsConnection(r)'
  BY <1>1 DEF LifeStep, NoConnectionIsLeaked, OnItsConnection
<1> QED BY <1>3, <1>4, <1>5, <1>6, <1>7

\* Where a request goes changes what waits on the session, or does not.
LEMMA ArriveKeepsInv ==
  ASSUME BridgeInv, NEW r \in Requests, Arrive(r) PROVE BridgeInv'
<1>. USE BridgeAssumption DEF BridgeInv
<1>1. /\ UNCHANGED <<lifeVars, session, current, tail>> /\ request[r].at = "new"
      /\ GoTo(r, "over", NoConnection) \/ GoTo(r, "joining", NoConnection)
  BY DEF Arrive
<1>2. request' = [request EXCEPT ![r] = [at |-> request'[r].at, on |-> NoConnection]]
      /\ request'[r].at \in {"over", "joining"}
  BY <1>1 DEF GoTo, BridgeTypeOK
<1>3. UNCHANGED <<startup, shutdown, timer, done, exited, localClosed, session, current, tail>>
  BY <1>1 DEF lifeVars
<1>4. \A x \in Requests : x # r => request'[x] = request[x]
  BY <1>2 DEF BridgeTypeOK
<1>5. \/ UNCHANGED <<remote, connection>>
      \/ /\ shutdown = "none" /\ remote = "none" /\ remote' = "connecting"
         /\ connection' = [connection EXCEPT ![1] = "connecting"]
  BY DEF Arrive, Make, Requested
<1>6. 1 \in Connections
  BY DEF Connections
<1>7. BridgeTypeOK'
  <2>1. request'[r] \in [at : {"new", "joining", "queued", "running", "connecting", "giving_up",
                               "replacing", "again", "over"},
                         on : Connections \cup {NoConnection}]
    BY <1>2 DEF BridgeTypeOK
  <2> QED BY <1>2, <1>3, <1>5, <2>1 DEF BridgeTypeOK
<1>8. TailIsTheQueue' /\ OneOperationRuns'
  BY <1>1, <1>2, <1>3, <1>4 DEF TailIsTheQueue, OneOperationRuns, Executing, Entries
<1>9. SessionFollowsShutdown'
  BY <1>3, <1>5 DEF SessionFollowsShutdown
<1>10. FirstIsAlone' /\ CurrentIsConnected'
  BY <1>3, <1>5, <1>6 DEF FirstIsAlone, CurrentIsConnected, BridgeTypeOK
<1>11. NoConnectionIsLeaked'
  BY <1>1, <1>2, <1>3, <1>4, <1>5, <1>6
  DEF NoConnectionIsLeaked, BridgeTypeOK, FirstIsAlone
<1>12. ASSUME NEW x \in Requests PROVE OnItsConnection(x)'
  <2>1. CASE x = r
    BY <1>2, <2>1 DEF OnItsConnection
  <2>2. CASE x # r
    BY <1>3, <1>4, <1>5, <1>6, <2>2 DEF OnItsConnection, BridgeTypeOK, FirstIsAlone
  <2> QED BY <2>1, <2>2
<1> QED BY <1>7, <1>8, <1>9, <1>10, <1>11, <1>12

LEMMA FirstKeepsInv ==
  ASSUME BridgeInv, FirstConnection PROVE BridgeInv'
<1>. USE BridgeAssumption DEF BridgeInv
<1>1. UNCHANGED <<startup, shutdown, timer, done, exited, localClosed, session, tail, request>>
  BY DEF FirstConnection, lifeVars
<1>2. 1 \in Connections /\ NoConnection \notin Connections
  BY DEF Connections, NoConnection
<1>3. remote = "connecting" /\ tail = <<>> /\ current = NoConnection /\ shutdown \notin {"session", "end"}
  BY DEF FirstConnection, FirstIsAlone, SessionFollowsShutdown
<1>4. \A x \in Requests : request[x].at \notin Executing
  BY <1>3 DEF OneOperationRuns
<1>5. \/ /\ connection' = [connection EXCEPT ![1] = "connected"]
         /\ remote' = "ready" /\ current' = 1
      \/ /\ connection' = [connection EXCEPT ![1] = "closing"]
         /\ remote' = "connecting" /\ current' = NoConnection
      \/ /\ connection' = [connection EXCEPT ![1] = "closed"]
         /\ remote' = "failed" /\ current' = NoConnection
  BY <1>3 DEF FirstConnection
<1>6. BridgeTypeOK'
  BY <1>1, <1>2, <1>5 DEF BridgeTypeOK
<1>7. TailIsTheQueue' /\ OneOperationRuns'
  BY <1>1 DEF TailIsTheQueue, OneOperationRuns, Entries
<1>8. SessionFollowsShutdown'
  BY <1>1, <1>3 DEF SessionFollowsShutdown
<1>9. FirstIsAlone' /\ CurrentIsConnected'
  BY <1>1, <1>2, <1>3, <1>5 DEF FirstIsAlone, CurrentIsConnected, BridgeTypeOK
<1>10. NoConnectionIsLeaked'
  BY <1>1, <1>2, <1>3, <1>5, SMTT(20)
  DEF NoConnectionIsLeaked, BridgeTypeOK, FirstIsAlone, SessionFollowsShutdown
<1>11. \A x \in Requests : OnItsConnection(x)'
  BY <1>1, <1>4 DEF OnItsConnection, Executing
<1> QED BY <1>6, <1>7, <1>8, <1>9, <1>10, <1>11

\* An operation is executed by a ready session, whose turn it is.
LEMMA ExecutingIsReady ==
  ASSUME BridgeInv, NEW r \in Requests, request[r].at \in {"queued"} \cup Executing
  PROVE  /\ remote = "ready" /\ r \in Entries(tail) /\ tail # <<>> /\ shutdown # "end"
         /\ Head(tail) = r =>
              /\ current \in Connections /\ connection[current] = "connected"
              /\ \A x \in Requests : request[x].at \in Executing => x = r
<1>. USE BridgeAssumption DEF BridgeInv
<1>1. r \in Entries(tail)
  BY DEF TailIsTheQueue
<1>2. tail # <<>>
  BY <1>1, HeadIsEntry DEF BridgeTypeOK
<1>3. remote = "ready" /\ shutdown # "end"
  BY <1>2 DEF FirstIsAlone, SessionFollowsShutdown
<1> QED BY <1>1, <1>2, <1>3 DEF CurrentIsConnected, OneOperationRuns

LEMMA JoinKeepsInv ==
  ASSUME BridgeInv, NEW r \in Requests, Join(r) PROVE BridgeInv'
<1>. USE BridgeAssumption DEF BridgeInv
<1>1. /\ UNCHANGED <<startup, shutdown, timer, done, exited, localClosed>>
      /\ UNCHANGED <<remote, session, current, connection>>
      /\ request[r].at = "joining"
  BY DEF Join, lifeVars
<1>2. /\ request'[r].at \in {"queued", "over"} /\ request'[r].on = NoConnection
      /\ \A x \in Requests : x # r => request'[x] = request[x]
  BY DEF Join, GoTo, BridgeTypeOK
<1>3. request' \in [Requests -> [at : {"new", "joining", "queued", "running", "connecting", "giving_up",
                                       "replacing", "again", "over"},
                                 on : Connections \cup {NoConnection}]]
  BY DEF Join, GoTo, BridgeTypeOK
<1>4. r \notin Entries(tail)
  BY <1>1 DEF TailIsTheQueue, Executing
<1>5. r \in Requests \cup {"close"} /\ tail \in Seq(Requests \cup {"close"}) /\ Once(tail)
  BY DEF BridgeTypeOK, Once
<1>6. /\ BridgeTypeOK' /\ TailIsTheQueue' /\ OneOperationRuns'
      /\ tail' # tail => remote = "ready" /\ session = "open" /\ tail' = Append(tail, r)
  <2>1. CASE remote = "ready" /\ session = "open"
    <3>1. tail' = Append(tail, r) /\ request'[r].at = "queued"
      BY <2>1 DEF Join, GoTo, BridgeTypeOK
    <3>2. /\ tail' \in Seq(Requests \cup {"close"}) /\ Once(tail')
          /\ Entries(tail') = Entries(tail) \cup {r}
          /\ tail' # <<>> /\ (tail # <<>> => Head(tail') = Head(tail))
          /\ Len(tail') = Len(tail) + 1
          /\ \A i \in 1..Len(tail) : tail'[i] = tail[i]
      BY <1>4, <1>5, <3>1, AppendIsLast
    <3>3. BridgeTypeOK'
      <4>1. Once(tail)' /\ (\A i, j \in DOMAIN tail' : tail'[i] = tail'[j] => i = j)
        BY <3>2 DEF Once
      <4> QED BY <1>1, <1>3, <3>2, <4>1 DEF BridgeTypeOK
    <3>4. "close" \notin Entries(tail') /\ shutdown # "session"
      BY <2>1, <3>2 DEF TailIsTheQueue, SessionFollowsShutdown
    <3>5. TailIsTheQueue'
      <4>1. \A x \in Requests : x \in Entries(tail') <=> request'[x].at \in {"queued"} \cup Executing
        BY <1>2, <3>1, <3>2 DEF TailIsTheQueue
      <4>2. \A i \in 1..Len(tail') : tail'[i] # "close"
        BY <3>4 DEF Entries
      <4> QED BY <1>1, <3>4, <4>1, <4>2 DEF TailIsTheQueue, Entries
    <3>6. OneOperationRuns'
      BY <1>2, <3>1, <3>2 DEF OneOperationRuns, Executing
    <3> QED BY <2>1, <3>1, <3>3, <3>5, <3>6
  <2>2. CASE ~(remote = "ready" /\ session = "open")
    <3>1. tail' = tail /\ request'[r].at = "over"
      BY <2>2 DEF Join, GoTo, BridgeTypeOK
    <3>2. BridgeTypeOK'
      BY <1>1, <1>3, <3>1 DEF BridgeTypeOK
    <3>3. TailIsTheQueue' /\ OneOperationRuns'
      BY <1>1, <1>2, <3>1 DEF TailIsTheQueue, OneOperationRuns, Entries, Executing
    <3> QED BY <3>1, <3>2, <3>3
  <2> QED BY <2>1, <2>2
<1>7. SessionFollowsShutdown' /\ FirstIsAlone'
  BY <1>1, <1>6 DEF SessionFollowsShutdown, FirstIsAlone
<1>8. CurrentIsConnected'
  <2>1. ASSUME shutdown = "session" PROVE tail' = tail
    BY <1>6, <2>1 DEF SessionFollowsShutdown
  <2> QED BY <1>1, <2>1 DEF CurrentIsConnected
<1>9. NoConnectionIsLeaked'
  BY <1>1, <1>2 DEF NoConnectionIsLeaked
<1>10. \A x \in Requests : OnItsConnection(x)'
  BY <1>1, <1>2 DEF OnItsConnection
<1> QED BY <1>6, <1>7, <1>8, <1>9, <1>10

LEMMA StartKeepsInv ==
  ASSUME BridgeInv, NEW r \in Requests, StartOperation(r) PROVE BridgeInv'
<1>. USE BridgeAssumption DEF BridgeInv
<1>1. /\ UNCHANGED <<startup, shutdown, timer, done, exited, localClosed>>
      /\ UNCHANGED <<remote, session, current, connection, tail>>
      /\ request[r].at = "queued" /\ Head(tail) = r
  BY DEF StartOperation, lifeVars
<1>2. /\ request'[r].at = "running"
      /\ \A x \in Requests : x # r => request'[x] = request[x]
  BY DEF StartOperation, GoTo, BridgeTypeOK
<1>3. BridgeTypeOK'
  BY <1>1 DEF StartOperation, GoTo, BridgeTypeOK
<1>4. tail # <<>>
  BY <1>1, ExecutingIsReady
<1>5. TailIsTheQueue' /\ OneOperationRuns'
  BY <1>1, <1>2, <1>4 DEF TailIsTheQueue, OneOperationRuns, Entries, Executing
<1>6. SessionFollowsShutdown' /\ FirstIsAlone' /\ CurrentIsConnected'
  BY <1>1 DEF SessionFollowsShutdown, FirstIsAlone, CurrentIsConnected
<1>7. NoConnectionIsLeaked' /\ \A x \in Requests : OnItsConnection(x)'
  BY <1>1, <1>2 DEF NoConnectionIsLeaked, OnItsConnection
<1> QED BY <1>3, <1>5, <1>6, <1>7

\* The operation at the head goes on, or is over; its connection is connected.
HeadStep(r) ==
  /\ UNCHANGED <<startup, shutdown, timer, done, exited, localClosed, remote, session>>
  /\ request[r].at \in Executing
  /\ request' \in [Requests -> [at : {"new", "joining", "queued", "running", "connecting", "giving_up",
                                      "replacing", "again", "over"},
                                on : Connections \cup {NoConnection}]]
  /\ \A x \in Requests : x # r => request'[x] = request[x]
  /\ \/ request'[r].at \in Executing /\ tail' = tail
     \/ request'[r].at = "over" /\ tail' = Tail(tail)
  /\ connection' \in [Connections ->
                        {"unused", "connecting", "connected", "closing", "closed"}]
  /\ current' \in Connections /\ connection'[current'] = "connected"

LEMMA HeadKeepsInv ==
  ASSUME BridgeInv, NEW r \in Requests, HeadStep(r), NoConnectionIsLeaked', OnItsConnection(r)'
  PROVE  BridgeInv'
<1>. USE BridgeAssumption DEF BridgeInv
<1>1. request[r].at \in Executing /\ Head(tail) = r /\ tail # <<>>
  BY DEF HeadStep, OneOperationRuns
<1>2. remote = "ready" /\ shutdown # "end" /\ \A x \in Requests : request[x].at \in Executing => x = r
  BY <1>1, ExecutingIsReady
<1>3. tail \in Seq(Requests \cup {"close"}) /\ Once(tail)
  BY DEF BridgeTypeOK, Once
<1>4. /\ tail' \in Seq(Requests \cup {"close"}) /\ Once(tail')
      /\ TailIsTheQueue'
  <2>1. CASE request'[r].at \in Executing /\ tail' = tail
    BY <1>1, <1>3, <2>1 DEF HeadStep, TailIsTheQueue, Entries
  <2>2. CASE request'[r].at = "over" /\ tail' = Tail(tail)
    <3>1. /\ tail' \in Seq(Requests \cup {"close"}) /\ Once(tail')
          /\ Len(tail') = Len(tail) - 1
          /\ \A i \in 1..Len(tail') : tail'[i] = tail[i + 1]
          /\ Entries(tail') = Entries(tail) \ {r}
      BY <1>1, <1>3, <2>2, TailLosesHead
    <3>2. \A x \in Requests : x \in Entries(tail') <=> request'[x].at \in {"queued"} \cup Executing
      BY <2>2, <3>1 DEF HeadStep, TailIsTheQueue, Executing
    <3>3. "close" \in Entries(tail') <=> shutdown' = "session"
      BY <3>1 DEF HeadStep, TailIsTheQueue
    <3>4. ASSUME NEW i \in 1..Len(tail'), tail'[i] = "close" PROVE i = Len(tail')
      <4>1. Len(tail) \in Nat
        BY <1>3
      <4>2. i + 1 \in 1..Len(tail) /\ tail[i + 1] = "close"
        BY <3>1, <3>4, <4>1
      <4> QED BY <3>1, <4>1, <4>2 DEF TailIsTheQueue
    <3> QED BY <3>1, <3>2, <3>3, <3>4 DEF TailIsTheQueue
  <2> QED BY <2>1, <2>2 DEF HeadStep
<1>5. BridgeTypeOK'
  BY <1>4 DEF HeadStep, BridgeTypeOK, Once
<1>6. OneOperationRuns'
  BY <1>1, <1>2 DEF HeadStep, OneOperationRuns, Executing
<1>7. SessionFollowsShutdown' /\ FirstIsAlone' /\ CurrentIsConnected'
  BY <1>2 DEF HeadStep, SessionFollowsShutdown, FirstIsAlone, CurrentIsConnected
<1>8. ASSUME NEW x \in Requests, x # r PROVE OnItsConnection(x)'
  <2>1. request'[x].at \notin Executing
    BY <1>2, <1>8 DEF HeadStep
  <2> QED BY <2>1 DEF OnItsConnection, Executing
<1> QED BY <1>4, <1>5, <1>6, <1>7, <1>8

LEMMA EndKeepsInv ==
  ASSUME BridgeInv, NEW r \in Requests, EndOperation(r) PROVE BridgeInv'
<1>. USE BridgeAssumption DEF BridgeInv
<1>1. /\ UNCHANGED <<startup, shutdown, timer, done, exited, localClosed, remote, session, current>>
      /\ request[r].at \in {"running", "again"}
  BY DEF EndOperation, lifeVars
<1>2. Head(tail) = r /\ current \in Connections /\ connection[current] = "connected"
  BY <1>1, ExecutingIsReady DEF OneOperationRuns, Executing
<1>3. request' \in [Requests -> [at : {"new", "joining", "queued", "running", "connecting", "giving_up",
                                       "replacing", "again", "over"},
                                 on : Connections \cup {NoConnection}]]
      /\ \A x \in Requests : x # r => request'[x] = request[x]
  BY DEF EndOperation, GoTo, BridgeTypeOK
<1>4. CASE GoTo(r, "over", NoConnection) /\ tail' = Tail(tail) /\ UNCHANGED connection
  <2>1. request'[r] = [at |-> "over", on |-> NoConnection]
    BY <1>4 DEF GoTo, BridgeTypeOK
  <2>2. HeadStep(r)
    BY <1>1, <1>2, <1>3, <1>4, <2>1 DEF HeadStep, Executing, BridgeTypeOK
  <2>3. NoConnectionIsLeaked' /\ OnItsConnection(r)'
    BY <1>1, <1>3, <1>4, <2>1 DEF NoConnectionIsLeaked, OnItsConnection
  <2> QED BY <2>2, <2>3, HeadKeepsInv
<1>5. ASSUME NEW c \in Connections, Make(c), GoTo(r, "connecting", c), UNCHANGED tail
      PROVE  BridgeInv'
  <2>1. request'[r] = [at |-> "connecting", on |-> c]
    BY <1>5 DEF GoTo, BridgeTypeOK
  <2>2. c # current /\ connection' = [connection EXCEPT ![c] = "connecting"] /\ connection[c] = "unused"
    BY <1>2, <1>5 DEF Make
  <2>3. HeadStep(r)
    BY <1>1, <1>2, <1>3, <1>5, <2>1, <2>2 DEF HeadStep, Executing, BridgeTypeOK
  <2>4. NoConnectionIsLeaked'
    BY <1>1, <1>3, <2>1, <2>2 DEF NoConnectionIsLeaked, BridgeTypeOK
  <2>5. OnItsConnection(r)'
    BY <2>1, <2>2 DEF OnItsConnection, BridgeTypeOK
  <2> QED BY <2>3, <2>4, <2>5, HeadKeepsInv
<1> QED BY <1>4, <1>5 DEF EndOperation

LEMMA ReconnectKeepsInv ==
  ASSUME BridgeInv, NEW r \in Requests, Reconnect(r) PROVE BridgeInv'
<1>. USE BridgeAssumption DEF BridgeInv
<1>1. /\ UNCHANGED <<startup, shutdown, timer, done, exited, localClosed, remote, session>>
      /\ request[r].at \in {"connecting", "giving_up", "replacing"}
  BY DEF Reconnect, lifeVars
<1>2. /\ Head(tail) = r /\ current \in Connections /\ connection[current] = "connected"
      /\ \A x \in Requests : request[x].at \in Executing => x = r
      /\ remote = "ready"
  BY <1>1, ExecutingIsReady DEF OneOperationRuns, Executing
<1>3. request' \in [Requests -> [at : {"new", "joining", "queued", "running", "connecting", "giving_up",
                                       "replacing", "again", "over"},
                                 on : Connections \cup {NoConnection}]]
      /\ \A x \in Requests : x # r => request'[x] = request[x]
  BY <1>1 DEF Reconnect, GoTo, BridgeTypeOK, OnItsConnection
<1>. DEFINE c == request[r].on
<1>4. c \in Connections /\ c # current /\ NoConnection \notin Connections
  BY <1>1, <1>2 DEF OnItsConnection, Connections, NoConnection
<1>5. ASSUME NEW d \in Connections, connection[d] \in {"connecting", "closing"} PROVE d = c
  <2>1. d # current
    BY <1>2, <1>5
  <2>2. PICK x \in Requests : request[x].at \in {"connecting", "giving_up", "replacing"} /\ request[x].on = d
    BY <1>2, <1>5, <2>1 DEF NoConnectionIsLeaked
  <2> QED BY <1>2, <2>2 DEF Executing
<1>6. \A d \in Connections : connection[d] = "connected" => d = current
  BY DEF NoConnectionIsLeaked
<1>7. session # "closed"
  BY <1>2 DEF NoConnectionIsLeaked
<1>8. CASE /\ request[r].at = "connecting"
           /\ connection' = [connection EXCEPT ![c] = "connected", ![current] = "closing"]
           /\ current' = c
           /\ GoTo(r, "replacing", current) /\ UNCHANGED tail
  <2>1. request'[r] = [at |-> "replacing", on |-> current]
    BY <1>8 DEF GoTo, BridgeTypeOK
  <2>2. /\ connection'[c] = "connected" /\ connection'[current] = "closing"
        /\ \A d \in Connections : d # c /\ d # current => connection'[d] = connection[d]
    BY <1>2, <1>4, <1>8 DEF BridgeTypeOK
  <2>3. HeadStep(r)
    BY <1>1, <1>2, <1>3, <1>4, <1>8, <2>1, <2>2 DEF HeadStep, Executing, BridgeTypeOK
  <2>4. NoConnectionIsLeaked'
    <3>1. ASSUME NEW d \in Connections, connection'[d] = "connected" PROVE d = current' /\ session' # "closed"
      BY <1>1, <1>6, <1>7, <1>8, <2>2, <3>1
    <3>2. ASSUME NEW d \in Connections, connection'[d] \in {"connecting", "closing"}
          PROVE  request'[r].at = "replacing" /\ request'[r].on = d
      BY <1>5, <2>1, <2>2, <3>2
    <3> QED BY <3>1, <3>2 DEF NoConnectionIsLeaked
  <2>5. OnItsConnection(r)'
    BY <1>2, <1>4, <1>8, <2>1, <2>2 DEF OnItsConnection
  <2> QED BY <2>3, <2>4, <2>5, HeadKeepsInv
<1>9. CASE /\ request[r].at = "connecting"
           /\ connection' = [connection EXCEPT ![c] = "closing"]
           /\ GoTo(r, "giving_up", c) /\ UNCHANGED <<current, tail>>
  <2>1. request'[r] = [at |-> "giving_up", on |-> c]
    BY <1>9 DEF GoTo, BridgeTypeOK
  <2>2. connection'[c] = "closing" /\ \A d \in Connections : d # c => connection'[d] = connection[d]
    BY <1>4, <1>9 DEF BridgeTypeOK
  <2>3. HeadStep(r)
    BY <1>1, <1>2, <1>3, <1>4, <1>9, <2>1, <2>2 DEF HeadStep, Executing, BridgeTypeOK
  <2>4. NoConnectionIsLeaked'
    BY <1>1, <1>5, <1>6, <1>7, <1>9, <2>1, <2>2 DEF NoConnectionIsLeaked
  <2>5. OnItsConnection(r)'
    BY <1>4, <1>9, <2>1, <2>2 DEF OnItsConnection
  <2> QED BY <2>3, <2>4, <2>5, HeadKeepsInv
<1>10. CASE /\ connection' = [connection EXCEPT ![c] = "closed"]
            /\ \/ /\ GoTo(r, "over", NoConnection) /\ tail' = Tail(tail)
                  /\ UNCHANGED current
               \/ GoTo(r, "again", current) /\ UNCHANGED <<current, tail>>
  <2>1. \/ request'[r].at = "over" /\ tail' = Tail(tail)
        \/ request'[r].at = "again" /\ tail' = tail
    BY <1>10 DEF GoTo, BridgeTypeOK
  <2>2. connection'[c] = "closed" /\ \A d \in Connections : d # c => connection'[d] = connection[d]
    BY <1>4, <1>10 DEF BridgeTypeOK
  <2>3. HeadStep(r)
    BY <1>1, <1>2, <1>3, <1>4, <1>10, <2>1, <2>2 DEF HeadStep, Executing, BridgeTypeOK
  <2>4. NoConnectionIsLeaked'
    BY <1>1, <1>5, <1>6, <1>7, <1>10, <2>2 DEF NoConnectionIsLeaked
  <2>5. OnItsConnection(r)'
    BY <2>1 DEF OnItsConnection
  <2> QED BY <2>3, <2>4, <2>5, HeadKeepsInv
<1> QED BY <1>8, <1>9, <1>10 DEF Reconnect

\* The close waits behind everything, and comes last.
LEMMA CloseRemoteKeepsInv ==
  ASSUME BridgeInv, CloseRemote PROVE BridgeInv'
<1>. USE BridgeAssumption DEF BridgeInv
<1>1. /\ UNCHANGED <<startup, exited, localClosed, remote, current, connection, request>>
      /\ shutdown = "remote" /\ remote # "connecting"
  BY DEF CloseRemote
<1>2. /\ "close" \notin Entries(tail) /\ session \notin {"closing", "closed"}
  BY <1>1 DEF TailIsTheQueue, SessionFollowsShutdown
<1>3. tail \in Seq(Requests \cup {"close"}) /\ Once(tail)
  BY DEF BridgeTypeOK, Once
<1>4. CASE remote = "ready"
  <2>1. /\ shutdown' = "session" /\ session' = "closing" /\ tail' = Append(tail, "close")
        /\ UNCHANGED <<timer, done>>
    BY <1>4 DEF CloseRemote
  <2>2. /\ tail' \in Seq(Requests \cup {"close"}) /\ Once(tail')
        /\ Entries(tail') = Entries(tail) \cup {"close"}
        /\ tail' # <<>> /\ (tail # <<>> => Head(tail') = Head(tail))
        /\ Len(tail') = Len(tail) + 1
        /\ \A i \in 1..Len(tail) : tail'[i] = tail[i]
    BY <1>2, <1>3, <2>1, AppendIsLast
  <2>3. BridgeTypeOK'
    BY <1>1, <2>1, <2>2 DEF BridgeTypeOK, Once
  <2>4. TailIsTheQueue'
    <3>1. \A x \in Requests : x \in Entries(tail') <=> request'[x].at \in {"queued"} \cup Executing
      BY <1>1, <2>2 DEF TailIsTheQueue
    <3>2. ASSUME NEW i \in 1..Len(tail'), tail'[i] = "close" PROVE i = Len(tail')
      <4>1. Len(tail) \in Nat
        BY <1>3
      <4>2. i \notin 1..Len(tail)
        BY <1>2, <2>2, <3>2 DEF Entries
      <4> QED BY <2>2, <4>1, <4>2
    <3> QED BY <2>1, <2>2, <3>1, <3>2 DEF TailIsTheQueue
  <2>5. OneOperationRuns'
    BY <1>1, <2>2 DEF OneOperationRuns
  <2>6. SessionFollowsShutdown' /\ FirstIsAlone'
    BY <1>1, <1>4, <2>1 DEF SessionFollowsShutdown, FirstIsAlone
  <2>7. CurrentIsConnected' /\ NoConnectionIsLeaked' /\ \A x \in Requests : OnItsConnection(x)'
    BY <1>1, <1>4, <2>1 DEF CurrentIsConnected, NoConnectionIsLeaked, OnItsConnection
  <2> QED BY <2>3, <2>4, <2>5, <2>6, <2>7
<1>5. CASE remote # "ready"
  <2>1. /\ shutdown' = "end" /\ timer' = "cleared" /\ done' = "resolved" /\ UNCHANGED <<session, tail>>
    BY <1>5 DEF CloseRemote
  <2>2. tail = <<>>
    BY <1>5 DEF FirstIsAlone
  <2>3. BridgeTypeOK' /\ TailIsTheQueue' /\ OneOperationRuns'
    BY <1>1, <1>2, <2>1 DEF BridgeTypeOK, TailIsTheQueue, OneOperationRuns, Entries
  <2>4. SessionFollowsShutdown' /\ FirstIsAlone' /\ CurrentIsConnected'
    BY <1>1, <1>2, <1>5, <2>1, <2>2 DEF SessionFollowsShutdown, FirstIsAlone, CurrentIsConnected
  <2>5. NoConnectionIsLeaked' /\ \A x \in Requests : OnItsConnection(x)'
    BY <1>1, <2>1 DEF NoConnectionIsLeaked, OnItsConnection
  <2> QED BY <2>3, <2>4, <2>5
<1> QED BY <1>4, <1>5

LEMMA CloseSessionKeepsInv ==
  ASSUME BridgeInv, CloseSession PROVE BridgeInv'
<1>. USE BridgeAssumption DEF BridgeInv
<1>1. /\ UNCHANGED <<startup, exited, localClosed, remote, current, request>>
      /\ shutdown = "session" /\ Head(tail) = "close"
  BY DEF CloseSession
<1>2. /\ remote = "ready" /\ "close" \in Entries(tail) /\ current \in Connections
      /\ NoConnection \notin Connections
  BY <1>1 DEF TailIsTheQueue, SessionFollowsShutdown, CurrentIsConnected, Connections, NoConnection
<1>3. tail \in Seq(Requests \cup {"close"}) /\ Once(tail)
  BY DEF BridgeTypeOK, Once
<1>4. tail # <<>> /\ tail[1] = "close" /\ 1 \in 1..Len(tail)
  <2>1. tail # <<>> /\ Head(tail) = tail[1]
    BY <1>2, <1>3, HeadIsEntry
  <2>2. 1 \in 1..Len(tail)
    BY <1>3, <2>1
  <2> QED BY <1>1, <2>1, <2>2
<1>5. Len(tail) = 1
  BY <1>4 DEF TailIsTheQueue
<1>6. \A x \in Requests : request[x].at \notin {"queued"} \cup Executing
  <2>1. Entries(tail) = {"close"}
    BY <1>4, <1>5 DEF Entries
  <2> QED BY <2>1 DEF TailIsTheQueue
<1>7. ASSUME NEW d \in Connections, d # current
      PROVE  connection[d] \notin {"connected", "connecting", "closing"}
  BY <1>2, <1>6, <1>7 DEF NoConnectionIsLeaked, Executing
<1>8. CASE /\ connection[current] = "connected"
           /\ connection' = [connection EXCEPT ![current] = "closing"]
           /\ UNCHANGED <<shutdown, timer, done, session, tail>>
  <2>1. connection'[current] = "closing" /\ \A d \in Connections : d # current => connection'[d] = connection[d]
    BY <1>2, <1>8 DEF BridgeTypeOK
  <2>2. BridgeTypeOK' /\ TailIsTheQueue' /\ OneOperationRuns'
    BY <1>1, <1>2, <1>8 DEF BridgeTypeOK, TailIsTheQueue, OneOperationRuns, Entries
  <2>3. SessionFollowsShutdown' /\ FirstIsAlone' /\ CurrentIsConnected'
    BY <1>1, <1>2, <1>8, <2>1 DEF SessionFollowsShutdown, FirstIsAlone, CurrentIsConnected
  <2>4. NoConnectionIsLeaked'
    BY <1>1, <1>7, <1>8, <2>1 DEF NoConnectionIsLeaked
  <2>5. \A x \in Requests : OnItsConnection(x)'
    BY <1>1, <1>6 DEF OnItsConnection, Executing
  <2> QED BY <2>2, <2>3, <2>4, <2>5
<1>9. CASE /\ connection' = [connection EXCEPT ![current] = "closed"]
           /\ session' = "closed" /\ tail' = Tail(tail)
           /\ shutdown' = "end" /\ timer' = "cleared" /\ done' = "resolved"
  <2>1. connection'[current] = "closed" /\ \A d \in Connections : d # current => connection'[d] = connection[d]
    BY <1>2, <1>9 DEF BridgeTypeOK
  <2>2. tail' = <<>>
    BY <1>3, <1>4, <1>5, <1>9
  <2>3. BridgeTypeOK'
    BY <1>1, <1>2, <1>9, <2>2, NothingWaits DEF BridgeTypeOK
  <2>4. TailIsTheQueue' /\ OneOperationRuns'
    <3>1. Entries(tail') = {}
      BY <2>2 DEF Entries
    <3> QED BY <1>1, <1>6, <1>9, <2>2, <3>1 DEF TailIsTheQueue, OneOperationRuns
  <2>5. SessionFollowsShutdown' /\ FirstIsAlone' /\ CurrentIsConnected'
    BY <1>1, <1>2, <1>9, <2>1, <2>2 DEF SessionFollowsShutdown, FirstIsAlone, CurrentIsConnected
  <2>6. NoConnectionIsLeaked'
    BY <1>1, <1>7, <2>1 DEF NoConnectionIsLeaked
  <2>7. \A x \in Requests : OnItsConnection(x)'
    BY <1>1, <1>6 DEF OnItsConnection, Executing
  <2> QED BY <2>3, <2>4, <2>5, <2>6, <2>7
<1> QED BY <1>8, <1>9 DEF CloseSession

LEMMA BridgeInvHolds == BridgeInit /\ [][BridgeNext]_bridgeVars => []BridgeInv
<1>1. BridgeInit => BridgeInv
  <2> SUFFICES ASSUME BridgeInit PROVE BridgeInv
    OBVIOUS
  <2>1. BridgeTypeOK
    BY NothingWaits DEF BridgeInit, BridgeTypeOK
  <2>2. TailIsTheQueue /\ OneOperationRuns
    BY DEF BridgeInit, TailIsTheQueue, OneOperationRuns, Executing, Entries
  <2>3. SessionFollowsShutdown /\ FirstIsAlone /\ CurrentIsConnected
    <3>1. 1 \in Connections
      BY BridgeAssumption DEF Connections
    <3> QED BY <3>1 DEF BridgeInit, SessionFollowsShutdown, FirstIsAlone, CurrentIsConnected
  <2>4. NoConnectionIsLeaked /\ \A r \in Requests : OnItsConnection(r)
    BY DEF BridgeInit, NoConnectionIsLeaked, OnItsConnection
  <2> QED BY <2>1, <2>2, <2>3, <2>4 DEF BridgeInv
<1>2. BridgeInv /\ [BridgeNext]_bridgeVars => BridgeInv'
  <2> SUFFICES ASSUME BridgeInv, [BridgeNext]_bridgeVars PROVE BridgeInv'
    OBVIOUS
  <2>1. CASE UNCHANGED bridgeVars
    <3>1. LifeStep
      BY <2>1 DEF bridgeVars, LifeStep, BridgeInv, BridgeTypeOK
    <3> QED BY <3>1, LifeKeepsInv
  <2>2. CASE AttachRemote \/ ConnectLocal \/ FinishStartup \/ StartupFails
             \/ RequestShutdown \/ CloseLocal \/ TimerFires
    BY <2>2, LifeSteps, LifeKeepsInv
  <2>3. CASE FirstConnection
    BY <2>3, FirstKeepsInv
  <2>4. ASSUME NEW r \in Requests, Arrive(r) \/ Join(r) \/ StartOperation(r) \/ EndOperation(r) \/ Reconnect(r)
        PROVE  BridgeInv'
    BY <2>4, ArriveKeepsInv, JoinKeepsInv, StartKeepsInv, EndKeepsInv, ReconnectKeepsInv
  <2>5. CASE CloseRemote \/ CloseSession
    BY <2>5, CloseRemoteKeepsInv, CloseSessionKeepsInv
  <2> QED BY <2>1, <2>2, <2>3, <2>4, <2>5 DEF BridgeNext
<1> QED BY <1>1, <1>2, PTL

\* The types of the bridge, for any requests and any number of connections.
THEOREM BridgeTypes == BridgeSpec => []BridgeTypeOK
BY BridgeInvHolds, PTL DEF BridgeSpec, BridgeInv

\* RemoteSession.run: the one operation that is executed is the head of the tail,
\* also while its connection is replaced under it.
THEOREM OneAtATime == BridgeSpec => []OneOperationRuns
BY BridgeInvHolds, PTL DEF BridgeSpec, BridgeInv

LEMMA LeaksFollow == BridgeInv => NoConnectionIsLeaked
BY DEF BridgeInv

\* connect, replace and close: a connection that is open is the current one, or
\* somebody is at closing it.
THEOREM NothingIsLeaked == BridgeSpec => []NoConnectionIsLeaked
BY LeaksFollow, BridgeInvHolds, PTL DEF BridgeSpec

LEMMA OrderlyEndFollows == BridgeInv => OrderlyEndIsClean
<1>. SUFFICES ASSUME BridgeInv, done = "resolved" PROVE AllClosed
  BY DEF OrderlyEndIsClean
<1>1. shutdown = "end" /\ tail = <<>> /\ remote # "connecting"
  BY DEF BridgeInv, SessionFollowsShutdown
<1>2. \A r \in Requests : request[r].at \notin Executing
  BY <1>1 DEF BridgeInv, OneOperationRuns
<1>3. ASSUME NEW c \in Connections PROVE connection[c] # "connected"
  <2>1. NoConnection \notin Connections
    BY DEF Connections, NoConnection
  <2> QED BY <1>1, <2>1 DEF BridgeInv, NoConnectionIsLeaked, SessionFollowsShutdown, FirstIsAlone
<1>4. ASSUME NEW c \in Connections PROVE connection[c] \notin {"connecting", "closing"}
  BY <1>1, <1>2 DEF BridgeInv, NoConnectionIsLeaked, Executing
<1> QED BY <1>3, <1>4 DEF BridgeInv, BridgeTypeOK, AllClosed

\* performShutdown: when it resolves, every connection that was ever made is closed.
THEOREM OrderlyEnds == BridgeSpec => []OrderlyEndIsClean
BY OrderlyEndFollows, BridgeInvHolds, PTL DEF BridgeSpec

-------------------------------------------------------------------------------
(* The server's sessions *)

\* The books: the sessions, their clients' counts and their times.
Books ==
  /\ owner \in [HttpRequests -> Clients \cup {NoClient}]
  /\ counts \in [Clients -> Nat]
  /\ expiry \subseteq HttpRequests /\ overdue \subseteq expiry
  /\ IsFiniteSet(Sessions)
  /\ SessionsAreCounted /\ SessionsAreTimed

\* Whose a handler is stays; a session it has found is its client's, wherever
\* that session is by now.
HandlerSet == [at : {"new", "authenticating", "handling", "over"},
               client : Clients \cup {NoClient}, names : HttpRequests \cup {NoSession}]
Handlers ==
  /\ handler \in [HttpRequests -> HandlerSet]
  /\ \A r \in HttpRequests :
       /\ handler[r].at # "new" => handler[r].client \in Clients
       /\ handler[r].at = "handling" /\ handler[r].names # NoSession =>
            /\ handler[handler[r].names].at # "new"
            /\ handler[handler[r].names].client = handler[r].client
  /\ SessionsKeepTheirClient

\* The places counted for the requests of each client.
Held(c) == {r \in holding : handler[r].client = c}
Flights ==
  /\ revoked \subseteq Clients /\ serving \in BOOLEAN
  /\ holding \subseteq HttpRequests /\ IsFiniteSet(holding)
  /\ \A r \in holding : handler[r].at # "new"
  /\ inFlight \in [Clients -> 0..FlightLimit]
  /\ \A c \in Clients \ revoked : Cardinality(Held(c)) <= inFlight[c]

HttpInv == Books /\ Handlers /\ Flights

-------------------------------------------------------------------------------
\* What is taken away is taken from its client's count.
LEMMA CleanupKeepsBooks ==
  ASSUME Books, NEW gone, Cleanup(gone)
  PROVE  Books' /\ \A s \in HttpRequests : owner'[s] # NoClient => owner'[s] = owner[s]
<1>. USE HttpAssumption
<1>1. /\ owner' \in [HttpRequests -> Clients \cup {NoClient}]
      /\ \A s \in HttpRequests : owner'[s] = IF s \in gone THEN NoClient ELSE owner[s]
  BY DEF Cleanup, Books
<1>2. Sessions' = Sessions \ gone
  BY <1>1 DEF Sessions
<1>3. IsFiniteSet(Sessions')
  BY <1>2, FS_Subset DEF Books
<1>4. SessionsAreTimed' /\ expiry' \subseteq HttpRequests /\ overdue' \subseteq expiry'
  BY <1>2 DEF Cleanup, Books, SessionsAreTimed
<1>5. ASSUME NEW c \in Clients
      PROVE  /\ counts'[c] = Cardinality(SessionsOf(c)')
             /\ Cardinality(SessionsOf(c)') \in Nat
  <2>1. SessionsOf(c)' = SessionsOf(c) \ gone
    BY <1>1, <1>2 DEF SessionsOf, Sessions
  <2>2. IsFiniteSet(SessionsOf(c))
    <3>1. SessionsOf(c) \in SUBSET Sessions
      BY DEF SessionsOf
    <3> QED BY <3>1, FS_Subset DEF Books
  <2>3. /\ IsFiniteSet(SessionsOf(c) \ gone)
        /\ Cardinality(SessionsOf(c) \ gone) = Cardinality(SessionsOf(c)) - Cardinality(SessionsOf(c) \cap gone)
    BY <2>2, FS_Difference
  <2>4. gone \cap SessionsOf(c) = SessionsOf(c) \cap gone
    OBVIOUS
  <2>5. IsFiniteSet(SessionsOf(c) \cap gone)
    <3>1. SessionsOf(c) \cap gone \in SUBSET SessionsOf(c)
      OBVIOUS
    <3> QED BY <2>2, <3>1, FS_Subset
  <2>6. /\ Cardinality(SessionsOf(c)) \in Nat /\ Cardinality(SessionsOf(c) \cap gone) \in Nat
        /\ Cardinality(SessionsOf(c) \ gone) \in Nat
    BY <2>2, <2>3, <2>5, FS_CardinalityType
  <2>7. counts[c] = Cardinality(SessionsOf(c))
    BY DEF Books, SessionsAreCounted
  <2>8. counts'[c] = Less(Cardinality(SessionsOf(c)), Cardinality(SessionsOf(c) \cap gone))
    BY <2>4, <2>7 DEF Cleanup
  <2> QED BY <2>1, <2>3, <2>6, <2>8 DEF Less
<1>6. counts' \in [Clients -> Nat]
  <2>1. counts' = [c \in Clients |-> counts'[c]]
    BY DEF Cleanup
  <2> QED BY <1>5, <2>1
<1>7. SessionsAreCounted'
  BY <1>5 DEF SessionsAreCounted
<1> QED BY <1>1, <1>3, <1>4, <1>6, <1>7 DEF Books

\* A session that is entered is its client's already, or one more of the client.
LEMMA EnterKeepsBooks ==
  ASSUME Books, Handlers, NEW r \in HttpRequests, handler[r].at = "handling", EnterSession(r)
  PROVE  /\ Books'
         /\ \A s \in HttpRequests :
              \/ owner'[s] = owner[s]
              \/ owner'[s] = handler[s].client /\ handler[s].at # "new"
<1>. USE HttpAssumption
<1>0. PICK mine \in Clients, own \in HttpRequests : mine = handler[r].client /\ own = Own(r)
  BY DEF Handlers, HandlerSet, Own
<1>1. handler[own].client = mine /\ handler[own].at # "new"
  BY <1>0 DEF Handlers, HandlerSet, Own
<1>2. /\ owner' = [owner EXCEPT ![own] = mine]
      /\ counts' = IF own \in Sessions THEN counts ELSE [counts EXCEPT ![mine] = @ + 1]
      /\ expiry' = expiry \cup {own}
      /\ overdue' \subseteq overdue
  BY <1>0 DEF EnterSession
<1>3. /\ owner' \in [HttpRequests -> Clients \cup {NoClient}]
      /\ owner'[own] = mine /\ \A s \in HttpRequests : s # own => owner'[s] = owner[s]
  BY <1>1, <1>2 DEF Books
<1>4. Sessions' = Sessions \cup {own}
  BY <1>1, <1>3 DEF Sessions
<1>5. IsFiniteSet(Sessions')
  BY <1>4, FS_AddElement DEF Books
<1>6. SessionsAreTimed' /\ expiry' \subseteq HttpRequests /\ overdue' \subseteq expiry'
  BY <1>1, <1>2, <1>4 DEF Books, SessionsAreTimed
<1>7. CASE own \in Sessions
  <2>1. owner[own] = mine
    BY <1>1, <1>7 DEF Handlers, SessionsKeepTheirClient
  <2>2. owner' = owner /\ counts' = counts
    BY <1>1, <1>2, <1>7, <2>1 DEF Books
  <2>3. counts' \in [Clients -> Nat] /\ SessionsAreCounted'
    BY <2>2 DEF Books, SessionsAreCounted, SessionsOf, Sessions
  <2> QED BY <1>3, <1>5, <1>6, <2>2, <2>3 DEF Books
<1>8. CASE own \notin Sessions
  <2>1. counts' = [counts EXCEPT ![mine] = @ + 1]
    BY <1>2, <1>8
  <2>2. owner[own] = NoClient
    BY <1>1, <1>8 DEF Sessions
  <2>3. ASSUME NEW c \in Clients, c # mine PROVE counts'[c] = Cardinality(SessionsOf(c)')
    <3>1. SessionsOf(c)' = SessionsOf(c)
      BY <1>3, <1>4, <2>2, <2>3 DEF SessionsOf, Sessions
    <3>2. counts'[c] = counts[c]
      BY <1>1, <2>1, <2>3 DEF Books
    <3> QED BY <3>1, <3>2 DEF Books, SessionsAreCounted
  <2>4. counts'[mine] = Cardinality(SessionsOf(mine)')
    <3>1. SessionsOf(mine)' = SessionsOf(mine) \cup {own}
      BY <1>1, <1>3, <1>4 DEF SessionsOf, Sessions
    <3>2. own \notin SessionsOf(mine) /\ SessionsOf(mine) \in SUBSET Sessions
      BY <1>8 DEF SessionsOf
    <3>3. IsFiniteSet(SessionsOf(mine))
      BY <3>2, FS_Subset DEF Books
    <3>4. Cardinality(SessionsOf(mine) \cup {own}) = Cardinality(SessionsOf(mine)) + 1
      BY <3>2, <3>3, FS_AddElement
    <3>5. counts'[mine] = counts[mine] + 1 /\ counts[mine] = Cardinality(SessionsOf(mine))
      BY <1>1, <2>1 DEF Books, SessionsAreCounted
    <3> QED BY <3>1, <3>4, <3>5
  <2>5. counts' \in [Clients -> Nat]
    BY <1>1, <2>1 DEF Books
  <2>6. SessionsAreCounted'
    BY <2>3, <2>4 DEF SessionsAreCounted
  <2> QED BY <1>1, <1>3, <1>5, <1>6, <2>5, <2>6 DEF Books
<1> QED BY <1>7, <1>8

LEMMA BooksStay ==
  ASSUME Books, UNCHANGED bookVars
  PROVE  Books' /\ UNCHANGED owner
BY DEF Books, bookVars, SessionsAreCounted, SessionsAreTimed, SessionsOf, Sessions

-------------------------------------------------------------------------------
\* A handler goes on: who sent it and what it names stay.
GoesOn(r) ==
  /\ handler' \in [HttpRequests -> HandlerSet]
  /\ handler'[r].client = handler[r].client /\ handler'[r].names = handler[r].names
  /\ handler[r].at # "new" /\ handler'[r].at # "new"
  /\ \A s \in HttpRequests : s # r => handler'[s] = handler[s]

\* The sessions that are, and who they may be entered for.
Owned(r) ==
  \A s \in HttpRequests :
    \/ owner'[s] \in {owner[s], NoClient}
    \/ owner'[s] = handler[s].client /\ handler[s].at # "new"

LEMMA GoesOnKeepsHandlers ==
  ASSUME Handlers, NEW r \in HttpRequests, GoesOn(r), Owned(r),
         handler'[r].at = "handling" /\ handler[r].names # NoSession =>
           handler[r].names \in SessionsOf(handler[r].client) \/ handler[r].at = "handling"
  PROVE  Handlers'
<1>. USE HttpAssumption
<1>1. \A s \in HttpRequests : /\ handler'[s].client = handler[s].client
                              /\ handler'[s].names = handler[s].names
                              /\ handler'[s].at # "new" <=> handler[s].at # "new"
  BY DEF GoesOn
<1>2. SessionsKeepTheirClient'
  BY <1>1 DEF Handlers, Owned, SessionsKeepTheirClient, Sessions
<1>3. ASSUME NEW s \in HttpRequests, handler'[s].at = "handling", handler'[s].names # NoSession
      PROVE  /\ handler'[handler'[s].names].at # "new"
             /\ handler'[handler'[s].names].client = handler'[s].client
  <2>1. handler[s].names \in HttpRequests /\ handler[s].names = handler'[s].names
    BY <1>1, <1>3 DEF Handlers, HandlerSet
  <2>2. /\ handler[handler[s].names].at # "new"
        /\ handler[handler[s].names].client = handler[s].client
    <3>1. CASE s # r
      BY <1>3, <3>1, <2>1 DEF GoesOn, Handlers
    <3>2. CASE s = r /\ handler[r].at = "handling"
      BY <2>1, <1>3, <3>2 DEF Handlers
    <3>3. CASE s = r /\ handler[r].names \in SessionsOf(handler[r].client)
      BY <3>3 DEF Handlers, SessionsKeepTheirClient, SessionsOf
    <3> QED BY <1>3, <2>1, <3>1, <3>2, <3>3
  <2> QED BY <1>1, <2>1, <2>2
<1> QED BY <1>1, <1>2, <1>3 DEF Handlers, GoesOn

LEMMA StandingHandlers ==
  ASSUME Handlers, UNCHANGED handler, \A s \in HttpRequests : owner'[s] \in {owner[s], NoClient}
  PROVE  Handlers'
BY DEF Handlers, SessionsKeepTheirClient, Sessions

\* The requests that are counted.
LEMMA FlightsStay ==
  ASSUME Flights, UNCHANGED <<revoked, holding, inFlight>>, serving' \in BOOLEAN,
         \A r \in HttpRequests : handler[r].at # "new" =>
           handler'[r].at # "new" /\ handler'[r].client = handler[r].client
  PROVE  Flights'
<1>1. \A c \in Clients : Held(c)' = Held(c)
  BY DEF Flights, Held
<1> QED BY <1>1 DEF Flights

LEMMA HandleStepKeeps ==
  ASSUME HttpInv, NEW r \in HttpRequests, NEW where \in {"handling", "over"},
         handler[r].at \in {"authenticating", "handling"}, HandlerGoes(r, where)
  PROVE  GoesOn(r) /\ handler'[r].at = where
BY DEF HttpInv, Handlers, HandlerSet, HandlerGoes, GoesOn

LEMMA TakeFlightKeeps ==
  ASSUME HttpInv, NEW r \in HttpRequests, TakeFlight(r), GoesOn(r)
  PROVE  Flights'
<1>. USE HttpAssumption
<1>. DEFINE mine == handler[r].client
<1>1. mine \in Clients
  BY DEF TakeFlight, HttpInv, Handlers
<1>2. /\ inFlight[mine] < FlightLimit /\ inFlight' = [inFlight EXCEPT ![mine] = @ + 1]
      /\ holding' = holding \/ holding' = holding \cup {r}
      /\ UNCHANGED <<revoked, serving>>
  BY DEF TakeFlight
<1>. HIDE DEF mine
<1>3. inFlight' \in [Clients -> 0..FlightLimit] /\ inFlight[mine] \in Nat
  BY <1>1, <1>2 DEF HttpInv, Flights
<1>4. IsFiniteSet(holding') /\ holding' \subseteq HttpRequests /\ \A s \in holding' : handler'[s].at # "new"
  <2>1. IsFiniteSet(holding')
    BY <1>2, FS_AddElement DEF HttpInv, Flights
  <2> QED BY <1>2, <2>1 DEF HttpInv, Flights, GoesOn
<1>5. \A s \in HttpRequests : handler'[s].client = handler[s].client
  BY DEF GoesOn
<1>6. ASSUME NEW c \in Clients \ revoked PROVE Cardinality(Held(c)') <= inFlight'[c]
  <2>1. IsFiniteSet(Held(c)) /\ Cardinality(Held(c)) \in Nat
    <3>1. Held(c) \in SUBSET holding
      BY DEF Held
    <3> QED BY <3>1, FS_Subset, FS_CardinalityType DEF HttpInv, Flights
  <2>2. Cardinality(Held(c)) <= inFlight[c] /\ inFlight[c] \in Nat
    BY DEF HttpInv, Flights
  <2>3. CASE c = mine
    <3>1. Held(c)' = Held(c) \/ Held(c)' = Held(c) \cup {r}
      BY <1>2, <1>5, <2>3 DEF Held, HttpInv, Flights, mine
    <3>2. Cardinality(Held(c)') \in {Cardinality(Held(c)), Cardinality(Held(c)) + 1}
      <4>1. Cardinality(Held(c) \cup {r}) \in {Cardinality(Held(c)), Cardinality(Held(c)) + 1}
        BY <2>1, FS_AddElement
      <4> QED BY <3>1, <4>1
    <3>3. Cardinality(Held(c)') \in Nat
      BY <2>1, <3>2
    <3>4. inFlight'[c] = inFlight[c] + 1
      BY <1>1, <1>2, <2>3 DEF HttpInv, Flights
    <3> QED BY <2>1, <2>2, <3>2, <3>3, <3>4
  <2>4. CASE c # mine
    <3>1. Held(c)' = Held(c)
      BY <1>2, <1>5, <2>4 DEF Held, HttpInv, Flights, mine
    <3>2. inFlight'[c] = inFlight[c]
      BY <1>1, <1>2, <2>4 DEF HttpInv, Flights
    <3> QED BY <2>2, <3>1, <3>2
  <2> QED BY <2>3, <2>4
<1> QED BY <1>2, <1>3, <1>4, <1>6 DEF HttpInv, Flights

-------------------------------------------------------------------------------
(* The steps *)

LEMMA AuthenticateKeepsInv ==
  ASSUME HttpInv, NEW r \in HttpRequests, NEW c \in Clients,
         NEW names \in (HttpRequests \ {r}) \cup {NoSession}, Authenticate(r, c, names)
  PROVE  HttpInv'
<1>. USE HttpAssumption
<1>1. /\ handler[r].at = "new"
      /\ handler' = [handler EXCEPT ![r] = [at |-> "authenticating", client |-> c, names |-> names]]
      /\ UNCHANGED <<revoked, serving, holding, bookVars, inFlight>>
  BY DEF Authenticate
<1>2. /\ handler' \in [HttpRequests -> HandlerSet]
      /\ handler'[r] = [at |-> "authenticating", client |-> c, names |-> names]
      /\ \A s \in HttpRequests : s # r => handler'[s] = handler[s]
  BY <1>1 DEF HttpInv, Handlers, HandlerSet
<1>3. Books' /\ UNCHANGED owner
  BY <1>1, BooksStay DEF HttpInv
<1>4. SessionsKeepTheirClient'
  BY <1>1, <1>2, <1>3 DEF HttpInv, Handlers, SessionsKeepTheirClient, Sessions
<1>5. ASSUME NEW s \in HttpRequests, handler'[s].at = "handling", handler'[s].names # NoSession
      PROVE  /\ handler'[handler'[s].names].at # "new"
             /\ handler'[handler'[s].names].client = handler'[s].client
  <2>1. handler'[s] = handler[s] /\ handler[s].names \in HttpRequests
    BY <1>2, <1>5 DEF HandlerSet
  <2>2. handler[handler[s].names].at # "new" /\ handler[handler[s].names].client = handler[s].client
    BY <1>5, <2>1 DEF HttpInv, Handlers
  <2> QED BY <1>1, <1>2, <2>1, <2>2
<1>6. Handlers'
  <2>1. \A s \in HttpRequests : handler'[s].at # "new" => handler'[s].client \in Clients
    BY <1>2 DEF HttpInv, Handlers
  <2> QED BY <1>2, <1>4, <1>5, <2>1 DEF Handlers
<1>7. Flights'
  BY <1>1, <1>2, FlightsStay DEF HttpInv, Flights
<1> QED BY <1>3, <1>6, <1>7 DEF HttpInv

LEMMA UnauthorizedKeepsInv ==
  ASSUME HttpInv, NEW r \in HttpRequests, Unauthorized(r)
  PROVE  HttpInv'
<1>1. GoesOn(r) /\ handler'[r].at = "over"
  BY HandleStepKeeps DEF Unauthorized
<1>2. Books' /\ UNCHANGED owner
  BY BooksStay DEF Unauthorized, HttpInv
<1>3. Handlers'
  BY <1>1, <1>2, GoesOnKeepsHandlers DEF HttpInv, Owned
<1>4. Flights'
  BY <1>1, FlightsStay DEF HttpInv, Flights, Unauthorized, GoesOn
<1> QED BY <1>2, <1>3, <1>4 DEF HttpInv

LEMMA FlightStepKeepsInv ==
  ASSUME HttpInv, NEW r \in HttpRequests,
         Refused(r) \/ FindsStale(r) \/ ResumesSession(r) \/ OpensTransport(r)
  PROVE  HttpInv'
<1>1. TakeFlight(r) /\ handler[r].at = "authenticating"
  BY DEF Refused, FindsStale, ResumesSession, OpensTransport, TakeFlight
<1>2. GoesOn(r) /\ handler'[r].at \in {"handling", "over"}
  BY <1>1, HandleStepKeeps DEF Refused, FindsStale, ResumesSession, OpensTransport
<1>3. Flights'
  BY <1>1, <1>2, TakeFlightKeeps
<1>4. Books' /\ Owned(r)
  <2>1. CASE UNCHANGED bookVars
    BY <2>1, BooksStay DEF HttpInv, Owned
  <2>2. CASE Cleanup({handler[r].names})
    BY <2>2, CleanupKeepsBooks DEF HttpInv, Owned
  <2> QED BY <2>1, <2>2 DEF Refused, FindsStale, ResumesSession, OpensTransport
<1>5. handler'[r].at = "handling" /\ handler[r].names # NoSession =>
        handler[r].names \in SessionsOf(handler[r].client)
  <2>1. CASE Refused(r) \/ FindsStale(r)
    BY <2>1, <1>1, HandleStepKeeps DEF Refused, FindsStale
  <2>2. CASE ResumesSession(r) \/ OpensTransport(r)
    BY <2>2 DEF ResumesSession, OpensTransport
  <2> QED BY <2>1, <2>2
<1>6. Handlers'
  BY <1>2, <1>4, <1>5, GoesOnKeepsHandlers DEF HttpInv
<1> QED BY <1>3, <1>4, <1>6 DEF HttpInv

LEMMA HandleEndsKeepsInv ==
  ASSUME HttpInv, NEW r \in HttpRequests, HandleEnds(r)
  PROVE  HttpInv'
<1>1. /\ handler[r].at = "handling" /\ HandlerGoes(r, "over")
      /\ EnterSession(r) \/ Cleanup({handler[r].names}) \/ UNCHANGED bookVars
      /\ UNCHANGED <<revoked, serving, holding, inFlight>>
  BY DEF HandleEnds
<1>2. GoesOn(r) /\ handler'[r].at = "over"
  BY <1>1, HandleStepKeeps
<1>3. Books' /\ Owned(r)
  <2>1. CASE UNCHANGED bookVars
    BY <2>1, BooksStay DEF HttpInv, Owned
  <2>2. CASE Cleanup({handler[r].names})
    BY <2>2, CleanupKeepsBooks DEF HttpInv, Owned
  <2>3. CASE EnterSession(r)
    BY <1>1, <2>3, EnterKeepsBooks DEF HttpInv, Owned
  <2> QED BY <1>1, <2>1, <2>2, <2>3
<1>4. Handlers'
  BY <1>2, <1>3, GoesOnKeepsHandlers DEF HttpInv
<1>5. Flights'
  BY <1>1, <1>2, FlightsStay DEF HttpInv, Flights, GoesOn
<1> QED BY <1>3, <1>4, <1>5 DEF HttpInv

LEMMA ReleasedKeepsInv ==
  ASSUME HttpInv, NEW r \in HttpRequests, Released(r)
  PROVE  HttpInv'
<1>. USE HttpAssumption
<1>. DEFINE mine == handler[r].client
<1>1. /\ r \in holding /\ holding' = holding \ {r}
      /\ inFlight' = [inFlight EXCEPT ![mine] = Less(@, 1)]
      /\ UNCHANGED <<revoked, serving, handler, bookVars>>
  BY DEF Released
<1>2. mine \in Clients
  BY <1>1 DEF HttpInv, Handlers, Flights
<1>3. Books' /\ UNCHANGED owner
  BY <1>1, BooksStay DEF HttpInv
<1>4. Handlers'
  BY <1>1, <1>3, StandingHandlers DEF HttpInv
<1>5. inFlight' \in [Clients -> 0..FlightLimit]
  BY <1>1, <1>2 DEF HttpInv, Flights, Less
<1>6. IsFiniteSet(holding')
  BY <1>1, FS_RemoveElement DEF HttpInv, Flights
<1>7. ASSUME NEW c \in Clients \ revoked PROVE Cardinality(Held(c)') <= inFlight'[c]
  <2>1. IsFiniteSet(Held(c)) /\ Cardinality(Held(c)) \in Nat
    <3>1. Held(c) \in SUBSET holding
      BY DEF Held
    <3> QED BY <3>1, FS_Subset, FS_CardinalityType DEF HttpInv, Flights
  <2>2. Cardinality(Held(c)) <= inFlight[c] /\ inFlight[c] \in Nat
    BY DEF HttpInv, Flights
  <2>3. CASE c = mine
    <3>1. Held(c)' = Held(c) \ {r} /\ r \in Held(c)
      BY <1>1, <2>3 DEF Held
    <3>2. Cardinality(Held(c)') = Cardinality(Held(c)) - 1
      BY <2>1, <3>1, FS_RemoveElement
    <3>3. Cardinality(Held(c)') \in Nat
      BY <2>1, <3>1, FS_RemoveElement, FS_CardinalityType
    <3>4. inFlight'[c] = Less(inFlight[c], 1)
      BY <1>1, <1>2, <2>3 DEF HttpInv, Flights
    <3> QED BY <2>1, <2>2, <3>2, <3>3, <3>4 DEF Less
  <2>4. CASE c # mine
    <3>1. Held(c)' = Held(c)
      BY <1>1, <2>4 DEF Held
    <3>2. inFlight'[c] = inFlight[c]
      BY <1>1, <1>2, <2>4 DEF HttpInv, Flights
    <3> QED BY <2>2, <3>1, <3>2
  <2> QED BY <2>3, <2>4
<1>8. Flights'
  BY <1>1, <1>5, <1>6, <1>7 DEF HttpInv, Flights
<1> QED BY <1>3, <1>4, <1>8 DEF HttpInv

\* Who takes sessions away leaves the handlers as they are.
LEMMA TakenAwayKeepsInv ==
  ASSUME HttpInv,
         (\E c \in Clients : Revoke(c)) \/ ResetSessions \/ Sweep \/ ServerCloses
         \/ \E s \in HttpRequests : TimePasses(s)
  PROVE  HttpInv'
<1>. USE HttpAssumption
<1>1. UNCHANGED <<handler, holding>> /\ serving' \in BOOLEAN
  BY DEF Revoke, ResetSessions, Sweep, ServerCloses, TimePasses, HttpInv, Flights
<1>2. Books' /\ \A s \in HttpRequests : owner'[s] \in {owner[s], NoClient}
  <2>1. CASE UNCHANGED bookVars
    BY <2>1, BooksStay DEF HttpInv
  <2>2. ASSUME NEW gone, Cleanup(gone)
        PROVE  Books' /\ \A s \in HttpRequests : owner'[s] \in {owner[s], NoClient}
    BY <2>2, CleanupKeepsBooks DEF HttpInv
  <2>3. ASSUME NEW s \in HttpRequests, TimePasses(s)
        PROVE  Books' /\ UNCHANGED owner
    BY <2>3
    DEF TimePasses, HttpInv, Books, SessionsAreCounted, SessionsAreTimed, SessionsOf, Sessions
  <2> QED BY <2>1, <2>2, <2>3 DEF Revoke, ResetSessions, Sweep, ServerCloses, bookVars
<1>3. Handlers'
  BY <1>1, <1>2, StandingHandlers DEF HttpInv
<1>4. Flights'
  <2>1. CASE UNCHANGED <<revoked, inFlight>>
    BY <1>1, <2>1, FlightsStay DEF HttpInv
  <2>2. ASSUME NEW c \in Clients, Revoke(c) PROVE Flights'
    <3>1. /\ revoked' = revoked \cup {c}
          /\ inFlight' = inFlight \/ inFlight' = [inFlight EXCEPT ![c] = 0]
      BY <2>2 DEF Revoke
    <3>2. /\ inFlight' \in [Clients -> 0..FlightLimit]
          /\ \A d \in Clients : d # c => inFlight'[d] = inFlight[d]
      BY <3>1 DEF HttpInv, Flights
    <3>3. \A d \in Clients : Held(d)' = Held(d)
      BY <1>1 DEF Held
    <3> QED BY <1>1, <3>1, <3>2, <3>3 DEF HttpInv, Flights
  <2> QED BY <2>1, <2>2 DEF ResetSessions, Sweep, ServerCloses, TimePasses
<1> QED BY <1>2, <1>3, <1>4 DEF HttpInv

LEMMA HttpInvHolds == HttpInit /\ [][HttpNext]_httpVars => []HttpInv
<1>1. HttpInit => HttpInv
  <2> SUFFICES ASSUME HttpInit PROVE HttpInv
    OBVIOUS
  <2>1. Sessions = {} /\ \A c \in Clients : SessionsOf(c) = {} /\ Held(c) = {}
    BY DEF HttpInit, Sessions, SessionsOf, Held
  <2>2. Books
    BY <2>1, FS_EmptySet DEF HttpInit, Books, SessionsAreCounted, SessionsAreTimed
  <2>3. Handlers
    BY <2>1 DEF HttpInit, Handlers, HandlerSet, SessionsKeepTheirClient
  <2>4. Flights
    BY <2>1, FS_EmptySet, HttpAssumption DEF HttpInit, Flights
  <2> QED BY <2>2, <2>3, <2>4 DEF HttpInv
<1>2. HttpInv /\ [HttpNext]_httpVars => HttpInv'
  <2> SUFFICES ASSUME HttpInv, [HttpNext]_httpVars PROVE HttpInv'
    OBVIOUS
  <2>1. CASE UNCHANGED httpVars
    <3>1. Books' /\ UNCHANGED <<owner, handler, revoked, holding, inFlight, serving>>
      BY <2>1, BooksStay DEF httpVars, HttpInv, bookVars
    <3>2. Handlers'
      BY <3>1, StandingHandlers DEF HttpInv
    <3>3. Flights'
      BY <3>1, FlightsStay DEF HttpInv, Flights
    <3> QED BY <3>1, <3>2, <3>3 DEF HttpInv
  <2>2. CASE HttpNext
    BY <2>2, AuthenticateKeepsInv, UnauthorizedKeepsInv, FlightStepKeepsInv, HandleEndsKeepsInv,
       ReleasedKeepsInv, TakenAwayKeepsInv DEF HttpNext
  <2> QED BY <2>1, <2>2
<1> QED BY <1>1, <1>2, PTL

LEMMA HttpTypesFollow == HttpInv => HttpTypeOK
BY DEF HttpInv, Books, Handlers, HandlerSet, Flights, HttpTypeOK

\* The types of the sessions, for any clients, requests and limits.
THEOREM HttpTypes == HttpSpec => []HttpTypeOK
BY HttpTypesFollow, HttpInvHolds, PTL DEF HttpSpec

LEMMA BooksFollow == HttpInv => SessionBooks
BY DEF HttpInv, Books, Handlers, Flights, Held, FlightsAreCounted, SessionBooks

\* The maps of http.ts agree in every state: a client's count is its sessions,
\* each has its times, none changes hands, and no request that is held is
\* uncounted, however handlers, sweeps, revocations and DELETEs interleave.
THEOREM BooksAreRight == HttpSpec => []SessionBooks
BY BooksFollow, HttpInvHolds, PTL DEF HttpSpec

-------------------------------------------------------------------------------
(* All of them *)

\* A behaviour of the five side by side is a behaviour of each.
LEMMA EachRuns ==
  OperationsSpec =>
    /\ EpochSpec /\ GuardedSpec
    /\ BridgeInit /\ [][BridgeNext]_bridgeVars
    /\ CustodyInit /\ [][CustodyNext]_custodyVars
    /\ HttpInit /\ [][HttpNext]_httpVars
<1>1. OperationsInit => EpochInit /\ GuardedInit /\ BridgeInit /\ CustodyInit /\ HttpInit
  BY DEF OperationsInit
<1>. DEFINE OperationsNext == EpochStep \/ GuardedStep \/ BridgeStep \/ CustodyPart \/ HttpStep
<1>2. [OperationsNext]_operationsVars =>
        /\ [EpochNext]_epochVars /\ [GuardedNext]_guardedVars /\ [BridgeNext]_bridgeVars
        /\ [CustodyNext]_custodyVars /\ [HttpNext]_httpVars
  <2>1. EpochStep => EpochNext /\ UNCHANGED <<guardedVars, bridgeVars, custodyVars, httpVars>>
    BY DEF EpochStep, otherThanEpoch
  <2>2. GuardedStep => GuardedNext /\ UNCHANGED <<epochVars, bridgeVars, custodyVars, httpVars>>
    BY DEF GuardedStep, otherThanGuarded
  <2>3. BridgeStep => BridgeNext /\ UNCHANGED <<epochVars, guardedVars, custodyVars, httpVars>>
    BY DEF BridgeStep, otherThanBridge
  <2>4. CustodyPart => CustodyNext /\ UNCHANGED <<epochVars, guardedVars, bridgeVars, httpVars>>
    BY DEF CustodyPart, otherThanCustody
  <2>5. HttpStep => HttpNext /\ UNCHANGED <<epochVars, guardedVars, bridgeVars, custodyVars>>
    BY DEF HttpStep, otherThanHttp
  <2>6. UNCHANGED operationsVars =>
          UNCHANGED <<epochVars, guardedVars, bridgeVars, custodyVars, httpVars>>
    BY DEF operationsVars, otherThanEpoch
  <2> QED BY <2>1, <2>2, <2>3, <2>4, <2>5, <2>6
<1> QED BY <1>1, <1>2, PTL DEF OperationsSpec, EpochSpec, GuardedSpec

\* The types of the five, whichever of them runs.
THEOREM OperationsTyped == OperationsSpec => []OperationsTypeOK
<1>1. BridgeInv => BridgeTypeOK
  BY DEF BridgeInv
<1> QED BY <1>1, EachRuns, EpochTypes, GuardedTyped, BridgeInvHolds, CustodyShapeHolds, HttpInvHolds,
        CustodyTypesFollow, HttpTypesFollow, PTL DEF OperationsTypeOK

\* Whatever a part holds for somebody is counted and given back: the promises of
\* the bridge, of the custody and of the sessions, of the five side by side.
THEOREM ResourcesKept == OperationsSpec => []ResourcesAreKept
<1>1. BridgeInv => OneOperationRuns
  BY DEF BridgeInv
<1> QED
  BY <1>1, EachRuns, BridgeInvHolds, CustodyShapeHolds, HttpInvHolds, LeaksFollow,
     OrderlyEndFollows, LimitsFollow, BooksFollow, PTL DEF ResourcesAreKept
===============================================================================
