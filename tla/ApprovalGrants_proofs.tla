------------------------ MODULE ApprovalGrants_proofs -------------------------
(***************************************************************************)
(* For any number of stores, operations, slots, stages and faults: the      *)
(* types and limits, the stages that operations hold, and that what the     *)
(* store answered is durable and spent at most once.                        *)
(*                                                                         *)
(* Shape and types come first, action by action; then the exclusion of       *)
(* operations by a remediation, from which the stages follow by counting     *)
(* their holders; then what each answer, given or on its way, rests on;      *)
(* last, that no two slots hold one id, by where each issue has looked for   *)
(* a slot and what it passed over.                                          *)
(***************************************************************************)
EXTENDS ApprovalGrants, FiniteSetTheorems, TLAPS

\* The types, with the limits of the stages and not their lower bounds.
DiskShape ==
  /\ slot \in [Slots -> Uuids \cup {None}]
  /\ used \in [Slots -> GrantTasks \cup {None}]
  /\ header \in BOOLEAN
  /\ grantStages \in Int /\ grantStages <= GrantStages
  /\ headerStages \in Int /\ headerStages <= HeaderStages
  /\ usedStages \in [Slots -> Int] /\ \A s \in Slots : usedStages[s] <= UsedStages
  /\ unsynced \subseteq Entries
  /\ granted \subseteq Slots
  /\ spends \in [Slots -> Nat]
  /\ grantFaults \in 0..MaxGrantFaults

StoreShape ==
  /\ life \in [Stores -> Lives]
  /\ ready \in [Stores -> BOOLEAN] /\ sick \in [Stores -> BOOLEAN]
  /\ view \in [Stores -> SUBSET Slots]
  /\ remediating \in [Stores -> BOOLEAN]

\* The operations there can be, and the stages that have a UUID drawn.
Operations == [pc : Stages, id : Uuids \cup {None}, at : Slots \cup {None}, tries : 0..UuidAttempts]
Drawn == {"issue_claim", "issue_staged", "issue_rename", "issue_contend"}

OpShape ==
  /\ op \in [GrantTasks -> Operations]
  /\ \A t \in GrantTasks : op[t].pc \in AtASlot => op[t].at \in Slots
  /\ \A t \in GrantTasks : op[t].pc \in Drawn => op[t].id \in Uuids

\* An operation replaced by a well-formed one.
LEMMA OpPut ==
  ASSUME OpShape, NEW t \in GrantTasks, NEW o \in Operations, op' = [op EXCEPT ![t] = o],
         o.pc \in AtASlot => o.at \in Slots, o.pc \in Drawn => o.id \in Uuids
  PROVE  OpShape'
  BY DEF OpShape

\* An operation that ends.
LEMMA OpEnd ==
  ASSUME OpShape, NEW t \in GrantTasks, End(t)
  PROVE  OpShape'
<1>1. Idle \in Operations /\ Idle.pc \notin AtASlot \cup Drawn
  BY GrantsAssumption DEF Idle, Operations, Stages, AtASlot, Drawn
<1>. QED BY <1>1, OpPut DEF End

\* An operation that moves on.
LEMMA OpAt ==
  ASSUME OpShape, NEW t \in GrantTasks, NEW pc \in Stages, At(t, pc),
         pc \in AtASlot => op[t].pc \in AtASlot, pc \in Drawn => op[t].pc \in Drawn
  PROVE  OpShape'
<1>1. [op[t] EXCEPT !.pc = pc] \in Operations BY DEF OpShape, Operations
<1>2. op' = [op EXCEPT ![t] = [op[t] EXCEPT !.pc = pc]] BY DEF At, OpShape
<1>3. op[t] \in Operations BY DEF OpShape
<1>. DEFINE o == [op[t] EXCEPT !.pc = pc]
<1>4. o.pc = pc /\ o.at = op[t].at /\ o.id = op[t].id BY <1>3 DEF Operations
<1>5. o.pc \in AtASlot => o.at \in Slots BY <1>4 DEF OpShape
<1>6. o.pc \in Drawn => o.id \in Uuids BY <1>4 DEF OpShape
<1>. QED BY <1>1, <1>2, <1>5, <1>6, OpPut

\* A UUID drawn.
LEMMA OpDraw ==
  ASSUME OpShape, NEW t \in GrantTasks, NEW u \in Uuids, NEW n \in 1..UuidAttempts,
         op' = [op EXCEPT ![t] = Drawing(u, n)]
  PROVE  OpShape'
<1>1. n \in 0..UuidAttempts BY GrantsAssumption
<1>2. Drawing(u, n) \in Operations
  BY <1>1 DEF Operations, Stages, Drawing
<1>3. Drawing(u, n).pc \notin AtASlot /\ Drawing(u, n).id \in Uuids
  BY DEF AtASlot, Drawing
<1>. QED BY <1>2, <1>3, OpPut

\* A probe of a slot.
LEMMA OpProbe ==
  ASSUME OpShape, NEW t \in GrantTasks, NEW s \in Slots, op[t].pc \in Drawn,
         op' = [op EXCEPT ![t].pc = "issue_rename", ![t].at = s]
  PROVE  OpShape'
<1>. DEFINE o == [op[t] EXCEPT !.pc = "issue_rename", !.at = s]
<1>1. op[t] \in Operations BY DEF OpShape
<1>2. o \in Operations BY <1>1 DEF Operations, Stages
<1>3. o.pc = "issue_rename" /\ o.at = s /\ o.id = op[t].id BY <1>1 DEF Operations
<1>4. op[t].id \in Uuids BY DEF OpShape
<1>5. op' = [op EXCEPT ![t] = o] BY DEF OpShape
<1>. QED BY <1>2, <1>3, <1>4, <1>5, OpPut

\* A condemned store.
LEMMA LatchTyped ==
  ASSUME StoreShape, NEW st \in Stores, Latch(st)
  PROVE  sick' \in [Stores -> BOOLEAN]
  BY Zenon DEF StoreShape, Latch

\* What a scan leaves in view.
LEMMA ViewTyped ==
  ASSUME StoreShape, NEW st \in Stores, ScanFinds(st)
  PROVE  view' \in [Stores -> SUBSET Slots]
  BY DEF StoreShape, ScanFinds, Occupied

\* An initialized store.
LEMMA ReadyTyped ==
  ASSUME StoreShape, NEW st \in Stores, ready' = [ready EXCEPT ![st] = TRUE]
  PROVE  ready' \in [Stores -> BOOLEAN]
  BY Zenon DEF StoreShape

\* The store of an operation.
LEMMA HomeTyped == \A t \in GrantTasks : Home[t] \in Stores
  BY GrantsAssumption

\* No operation moves.
LEMMA OpSame == OpShape /\ UNCHANGED op => OpShape'
  BY DEF OpShape

\* A consumption begins.
LEMMA OpUse ==
  ASSUME OpShape, NEW t \in GrantTasks, NEW s \in Slots,
         op' = [op EXCEPT ![t] = [pc |-> "use_claim", id |-> None, at |-> s, tries |-> 0]]
  PROVE  OpShape'
<1>. DEFINE o == [pc |-> "use_claim", id |-> None, at |-> s, tries |-> 0]
<1>1. o \in Operations BY GrantsAssumption DEF Operations, Stages
<1>2. o.at \in Slots /\ o.pc \notin Drawn BY DEF Drawn
<1>. QED BY <1>1, <1>2, OpPut

\* The operations of dead stores are gone.
LEMMA OpDie ==
  ASSUME OpShape, NEW gone, op' = [t \in GrantTasks |-> IF Home[t] \in gone THEN Idle ELSE op[t]]
  PROVE  OpShape'
<1>1. Idle \in Operations /\ Idle.pc \notin AtASlot \cup Drawn
  BY GrantsAssumption DEF Idle, Operations, Stages, AtASlot, Drawn
<1>. QED BY <1>1 DEF OpShape

\* Another UUID, or the end.
LEMMA OpRetry ==
  ASSUME OpShape, NEW t \in GrantTasks, RetryUuid(t)
  PROVE  OpShape'
<1>1. op[t].tries \in 0..UuidAttempts BY DEF OpShape, Operations
<1>2. op[t].tries < UuidAttempts => op[t].tries + 1 \in 1..UuidAttempts
  BY <1>1, GrantsAssumption
<1>. QED BY <1>2, OpEnd, OpDraw DEF RetryUuid

\* The first slot to try, or the end.
LEMMA OpTry ==
  ASSUME OpShape, NEW t \in GrantTasks, op[t].pc \in Drawn, NEW from, NEW seen, Probe(t, from, seen)
  PROVE  OpShape'
  BY OpEnd, OpProbe DEF Probe, Untried, GiveUpStage

\* Every step keeps the operations well formed.
LEMMA OpSteps ==
  ASSUME OpShape, [GrantsNext]_grantVars
  PROVE  OpShape'
<1>1. ASSUME NEW t \in GrantTasks, StartInitialize(t) PROVE OpShape'
  BY <1>1, OpSame, OpAt DEF StartInitialize, Admitted, Stages, AtASlot, Drawn
<1>2. ASSUME NEW t \in GrantTasks, HeaderClaim(t) PROVE OpShape'
  BY <1>2, OpEnd, OpAt, SMTT(20) DEF HeaderClaim, Stages, AtASlot, Drawn
<1>3. ASSUME NEW t \in GrantTasks, HeaderLink(t) PROVE OpShape'
  BY <1>3, OpEnd, OpAt, SMTT(20) DEF HeaderLink, Stages, AtASlot, Drawn
<1>4. ASSUME NEW t \in GrantTasks, HeaderSync(t) PROVE OpShape'
  BY <1>4, OpEnd, OpAt, SMTT(20) DEF HeaderSync, Stages, AtASlot, Drawn
<1>5. ASSUME NEW t \in GrantTasks, HeaderRescan(t) PROVE OpShape'
  BY <1>5, OpEnd, OpAt, SMTT(20) DEF HeaderRescan, Stages, AtASlot, Drawn
<1>6. ASSUME NEW t \in GrantTasks, StartIssue(t) PROVE OpShape'
  <2>1. \/ \E u \in Uuids : op' = [op EXCEPT ![t] = Drawing(u, 1)]
        \/ UNCHANGED op
    BY <1>6 DEF StartIssue
  <2>2. 1 \in 1..UuidAttempts BY GrantsAssumption
  <2>. QED BY <2>1, <2>2, OpSame, OpDraw
<1>7. ASSUME NEW t \in GrantTasks, ClaimGrantStage(t) PROVE OpShape'
  BY <1>7, OpEnd, OpAt, SMTT(20) DEF ClaimGrantStage, Stages, AtASlot, Drawn
<1>8. ASSUME NEW t \in GrantTasks, StagedGrant(t) PROVE OpShape'
  <2>1. op[t].pc \in Drawn BY <1>8 DEF StagedGrant, Drawn
  <2>2. End(t) \/ RetryUuid(t) \/ Probe(t, 0, Occupied)
    BY <1>8 DEF StagedGrant, GiveUpStage
  <2>. QED BY <2>1, <2>2, OpEnd, OpRetry, OpTry
<1>9. ASSUME NEW t \in GrantTasks, RenameGrant(t) PROVE OpShape'
  BY <1>9, OpEnd, OpAt, SMTT(20) DEF RenameGrant, GiveUpStage, Stages, AtASlot, Drawn
<1>10. ASSUME NEW t \in GrantTasks, ContendForSlot(t) PROVE OpShape'
  <2>1. op[t].pc \in Drawn BY <1>10 DEF ContendForSlot, Drawn
  <2>2. End(t) \/ RetryUuid(t) \/ Probe(t, op[t].at + 1, view[Home[t]])
    BY <1>10 DEF ContendForSlot, GiveUpStage
  <2>. QED BY <2>1, <2>2, OpEnd, OpRetry, OpTry
<1>11. ASSUME NEW t \in GrantTasks, SyncGrant(t) PROVE OpShape'
  BY <1>11, OpEnd, OpAt, SMTT(20) DEF SyncGrant, Stages, AtASlot, Drawn
<1>12. ASSUME NEW t \in GrantTasks, AnswerIssue(t) PROVE OpShape'
  BY <1>12, OpEnd, OpAt, SMTT(20) DEF AnswerIssue, Stages, AtASlot, Drawn
<1>13. ASSUME NEW t \in GrantTasks, NEW s \in Slots, StartConsume(t, s) PROVE OpShape'
  BY <1>13, OpSame, OpUse DEF StartConsume
<1>14. ASSUME NEW t \in GrantTasks, ClaimUsedStage(t) PROVE OpShape'
  BY <1>14, OpEnd, OpAt, SMTT(20) DEF ClaimUsedStage, Stages, AtASlot, Drawn
<1>15. ASSUME NEW t \in GrantTasks, LinkReceipt(t) PROVE OpShape'
  BY <1>15, OpEnd, OpAt, SMTT(20) DEF LinkReceipt, Stages, AtASlot, Drawn
<1>16. ASSUME NEW t \in GrantTasks, SyncReceipt(t) PROVE OpShape'
  BY <1>16, OpEnd, OpAt, SMTT(20) DEF SyncReceipt, Stages, AtASlot, Drawn
<1>17. ASSUME NEW t \in GrantTasks, AnswerConsume(t) PROVE OpShape'
  BY <1>17, OpEnd, OpAt, SMTT(20) DEF AnswerConsume, Stages, AtASlot, Drawn
<1>18. ASSUME NEW st \in Stores, StartRemediation(st) PROVE OpShape'
  BY <1>18, OpSame DEF StartRemediation
<1>19. ASSUME NEW st \in Stores, RemoveStage(st) PROVE OpShape'
  BY <1>19, OpSame DEF RemoveStage
<1>20. ASSUME NEW st \in Stores, FinishRemediation(st) PROVE OpShape'
  BY <1>20, OpSame DEF FinishRemediation
<1>21. ASSUME NEW st \in Stores, StartClose(st) PROVE OpShape'
  BY <1>21, OpSame DEF StartClose
<1>22. ASSUME NEW st \in Stores, FinishClose(st) PROVE OpShape'
  BY <1>22, OpSame DEF FinishClose
<1>23. ASSUME NEW st \in Stores, Reopen(st) PROVE OpShape'
  BY <1>23, OpSame DEF Reopen
<1>24. ASSUME NEW st \in Stores, ProcessDies(st) PROVE OpShape'
  BY <1>24, OpDie DEF ProcessDies, Die
<1>25. ASSUME PowerFails PROVE OpShape'
  BY <1>25, OpDie DEF PowerFails, Die
<1>. QED
  BY <1>1, <1>2, <1>3, <1>4, <1>5, <1>6, <1>7, <1>8, <1>9, <1>10, <1>11, <1>12, <1>13,
      <1>14, <1>15, <1>16, <1>17, <1>18, <1>19, <1>20, <1>21, <1>22, <1>23, <1>24, <1>25, OpSame
  DEF GrantsNext, Initialize, IssueSteps, ConsumeSteps, grantVars

\* The faults stay within their bound.
LEMMA FaultTyped ==
  ASSUME DiskShape, Fault \/ NoFault \/ ScanFails
  PROVE  grantFaults' \in 0..MaxGrantFaults
  BY GrantsAssumption DEF DiskShape, Fault, NoFault, ScanFails

\* A step that leaves the disk and the answers alone.
LEMMA DiskSame ==
  ASSUME DiskShape, UNCHANGED diskVars, UNCHANGED answerVars,
         Fault \/ NoFault \/ ScanFails
  PROVE  DiskShape'
  BY FaultTyped DEF DiskShape, diskVars, answerVars

\* Every step keeps the types of the disk and the answers.
LEMMA DiskSteps ==
  ASSUME DiskShape, OpShape, [GrantsNext]_grantVars
  PROVE  DiskShape'
<1>. USE GrantsAssumption
<1>1. ASSUME NEW t \in GrantTasks, StartInitialize(t) PROVE DiskShape'
  BY <1>1, SMTT(20)
  DEF DiskShape, StartInitialize, Fault, NoFault, diskVars, answerVars, Entries,
      RootEntries, HeaderEntry, SlotEntry, UsedEntry, OpShape, Operations, AtASlot, Drawn,
      ScanFails
<1>2. ASSUME NEW t \in GrantTasks, HeaderClaim(t) PROVE DiskShape'
  BY <1>2, SMTT(20)
  DEF DiskShape, HeaderClaim, Fault, NoFault, diskVars, answerVars, Entries, RootEntries,
      HeaderEntry, SlotEntry, UsedEntry, OpShape, Operations, AtASlot, Drawn, ScanFails
<1>3. ASSUME NEW t \in GrantTasks, HeaderLink(t) PROVE DiskShape'
  <2>1. unsynced' \subseteq unsynced \cup {HeaderEntry} BY <1>3 DEF HeaderLink
  <2>2. HeaderEntry \in Entries BY DEF Entries
  <2>3. header' \in BOOLEAN BY <1>3 DEF HeaderLink, DiskShape
  <2>. QED BY <1>3, <2>1, <2>2, <2>3 DEF HeaderLink, DiskShape, Fault, NoFault, answerVars
<1>4. ASSUME NEW t \in GrantTasks, HeaderSync(t) PROVE DiskShape'
  BY <1>4, SMTT(20)
  DEF DiskShape, HeaderSync, Fault, NoFault, diskVars, answerVars, Entries, RootEntries,
      HeaderEntry, SlotEntry, UsedEntry, OpShape, Operations, AtASlot, Drawn, ScanFails
<1>5. ASSUME NEW t \in GrantTasks, HeaderRescan(t) PROVE DiskShape'
  BY <1>5, SMTT(20)
  DEF DiskShape, HeaderRescan, Fault, NoFault, diskVars, answerVars, Entries, RootEntries,
      HeaderEntry, SlotEntry, UsedEntry, OpShape, Operations, AtASlot, Drawn, ScanFails
<1>6. ASSUME NEW t \in GrantTasks, StartIssue(t) PROVE DiskShape'
  BY <1>6, DiskSame DEF StartIssue
<1>7. ASSUME NEW t \in GrantTasks, ClaimGrantStage(t) PROVE DiskShape'
  BY <1>7, SMTT(20)
  DEF DiskShape, ClaimGrantStage, Fault, NoFault, diskVars, answerVars, Entries,
      RootEntries, HeaderEntry, SlotEntry, UsedEntry, OpShape, Operations, AtASlot, Drawn,
      ScanFails
<1>8. ASSUME NEW t \in GrantTasks, StagedGrant(t) PROVE DiskShape'
  <2>1. grantStages' \in {grantStages, grantStages - 1}
    BY <1>8 DEF StagedGrant, GiveUpStage, RetryUuid, Probe
  <2>. QED BY <1>8, <2>1, FaultTyped DEF StagedGrant, DiskShape, answerVars
<1>9. ASSUME NEW t \in GrantTasks, RenameGrant(t) PROVE DiskShape'
  BY <1>9, SMTT(20)
  DEF DiskShape, RenameGrant, GiveUpStage, Fault, NoFault, diskVars, answerVars, Entries,
      RootEntries, HeaderEntry, SlotEntry, UsedEntry, OpShape, Operations, AtASlot, Drawn,
      ScanFails
<1>10. ASSUME NEW t \in GrantTasks, ContendForSlot(t) PROVE DiskShape'
  <2>1. grantStages' \in {grantStages, grantStages - 1}
    BY <1>10 DEF ContendForSlot, GiveUpStage, RetryUuid, Probe
  <2>2. unsynced' \subseteq unsynced BY <1>10 DEF ContendForSlot
  <2>. QED BY <1>10, <2>1, <2>2, FaultTyped DEF ContendForSlot, DiskShape, answerVars
<1>11. ASSUME NEW t \in GrantTasks, SyncGrant(t) PROVE DiskShape'
  BY <1>11, SMTT(20)
  DEF DiskShape, SyncGrant, Fault, NoFault, diskVars, answerVars, Entries, RootEntries,
      HeaderEntry, SlotEntry, UsedEntry, OpShape, Operations, AtASlot, Drawn, ScanFails
<1>12. ASSUME NEW t \in GrantTasks, AnswerIssue(t) PROVE DiskShape'
  BY <1>12, SMTT(20)
  DEF DiskShape, AnswerIssue, Fault, NoFault, diskVars, answerVars, Entries, RootEntries,
      HeaderEntry, SlotEntry, UsedEntry, OpShape, Operations, AtASlot, Drawn, ScanFails
<1>13. ASSUME NEW t \in GrantTasks, NEW s \in Slots, StartConsume(t, s) PROVE DiskShape'
  BY <1>13, SMTT(20)
  DEF DiskShape, StartConsume, Fault, NoFault, diskVars, answerVars, Entries, RootEntries,
      HeaderEntry, SlotEntry, UsedEntry, OpShape, Operations, AtASlot, Drawn, ScanFails
<1>14. ASSUME NEW t \in GrantTasks, ClaimUsedStage(t) PROVE DiskShape'
  BY <1>14, SMTT(20)
  DEF DiskShape, ClaimUsedStage, Fault, NoFault, diskVars, answerVars, Entries, RootEntries,
      HeaderEntry, SlotEntry, UsedEntry, OpShape, Operations, AtASlot, Drawn, ScanFails
<1>15. ASSUME NEW t \in GrantTasks, LinkReceipt(t) PROVE DiskShape'
  BY <1>15, SMTT(20)
  DEF DiskShape, LinkReceipt, Fault, NoFault, diskVars, answerVars, Entries, RootEntries,
      HeaderEntry, SlotEntry, UsedEntry, OpShape, Operations, AtASlot, Drawn, ScanFails
<1>16. ASSUME NEW t \in GrantTasks, SyncReceipt(t) PROVE DiskShape'
  BY <1>16, SMTT(20)
  DEF DiskShape, SyncReceipt, Fault, NoFault, diskVars, answerVars, Entries, RootEntries,
      HeaderEntry, SlotEntry, UsedEntry, OpShape, Operations, AtASlot, Drawn, ScanFails
<1>17. ASSUME NEW t \in GrantTasks, AnswerConsume(t) PROVE DiskShape'
  BY <1>17, SMTT(20)
  DEF DiskShape, AnswerConsume, OwnReceipt, Fault, NoFault, diskVars, answerVars, Entries,
      RootEntries, HeaderEntry, SlotEntry, UsedEntry, OpShape, Operations, AtASlot, Drawn,
      ScanFails
<1>18. ASSUME NEW st \in Stores, StartRemediation(st) PROVE DiskShape'
  BY <1>18, SMTT(20)
  DEF DiskShape, StartRemediation, Fault, NoFault, diskVars, answerVars, Entries, RootEntries, HeaderEntry,
      SlotEntry, UsedEntry, OpShape, Operations, AtASlot, Drawn, ScanFails
<1>19. ASSUME NEW st \in Stores, RemoveStage(st) PROVE DiskShape'
  BY <1>19, SMTT(20)
  DEF DiskShape, RemoveStage, diskVars, answerVars, Entries, RootEntries, HeaderEntry,
      SlotEntry, UsedEntry, OpShape, Operations, AtASlot, Drawn, ScanFails
<1>20. ASSUME NEW st \in Stores, FinishRemediation(st) PROVE DiskShape'
  BY <1>20, SMTT(20)
  DEF DiskShape, FinishRemediation, Fault, NoFault, diskVars, answerVars, Entries,
      RootEntries, HeaderEntry, SlotEntry, UsedEntry, OpShape, Operations, AtASlot, Drawn,
      ScanFails
<1>21. ASSUME NEW st \in Stores, StartClose(st) PROVE DiskShape'
  BY <1>21, SMTT(20)
  DEF DiskShape, StartClose, diskVars, answerVars, Entries, RootEntries, HeaderEntry,
      SlotEntry, UsedEntry, OpShape, Operations, AtASlot, Drawn, ScanFails
<1>22. ASSUME NEW st \in Stores, FinishClose(st) PROVE DiskShape'
  BY <1>22, SMTT(20)
  DEF DiskShape, FinishClose, diskVars, answerVars, Entries, RootEntries, HeaderEntry,
      SlotEntry, UsedEntry, OpShape, Operations, AtASlot, Drawn, ScanFails
<1>23. ASSUME NEW st \in Stores, Reopen(st) PROVE DiskShape'
  BY <1>23, SMTT(20)
  DEF DiskShape, Reopen, diskVars, answerVars, Entries, RootEntries, HeaderEntry, SlotEntry,
      UsedEntry, OpShape, Operations, AtASlot, Drawn, ScanFails
<1>24. ASSUME NEW st \in Stores, ProcessDies(st) PROVE DiskShape'
  BY <1>24, SMTT(20)
  DEF DiskShape, ProcessDies, Die, Fault, diskVars, answerVars, Entries, RootEntries,
      HeaderEntry, SlotEntry, UsedEntry, OpShape, Operations, AtASlot, Drawn, ScanFails
<1>25. ASSUME PowerFails PROVE DiskShape'
  <2>. PICK lost \in SUBSET unsynced :
        LET gone == {s \in Slots : SlotEntry(s) \in lost} IN
        /\ Die(Stores)
        /\ slot' = [s \in Slots |-> IF s \in gone THEN None ELSE slot[s]]
        /\ used' = [s \in Slots |-> IF s \in gone \/ UsedEntry(s) \in lost THEN None ELSE used[s]]
        /\ usedStages' = [s \in Slots |-> IF s \in gone THEN 0 ELSE usedStages[s]]
        /\ header' = (header /\ HeaderEntry \notin lost)
        /\ unsynced' = {}
        /\ UNCHANGED <<grantStages, headerStages>>
    BY <1>25 DEF PowerFails
  <2>1. header' \in BOOLEAN OBVIOUS
  <2>2. usedStages' \in [Slots -> Int] /\ \A s \in Slots : usedStages'[s] <= UsedStages
    BY GrantsAssumption DEF DiskShape
  <2>. QED BY <2>1, <2>2, FaultTyped DEF DiskShape, Die, answerVars
<1>. QED
  BY <1>1, <1>2, <1>3, <1>4, <1>5, <1>6, <1>7, <1>8, <1>9, <1>10, <1>11, <1>12, <1>13,
      <1>14, <1>15, <1>16, <1>17, <1>18, <1>19, <1>20, <1>21, <1>22, <1>23, <1>24, <1>25,
      SMTT(20)
  DEF DiskShape, GrantsNext, Initialize, IssueSteps, ConsumeSteps, grantVars, diskVars,
      answerVars

\* Every step keeps the types of the stores.
LEMMA StoreSteps ==
  ASSUME StoreShape, [GrantsNext]_grantVars
  PROVE  StoreShape'
<1>. USE HomeTyped, LatchTyped, ViewTyped, ReadyTyped
<1>1. ASSUME NEW t \in GrantTasks, StartInitialize(t) PROVE StoreShape'
  BY <1>1, SMTT(20) DEF StoreShape, StartInitialize, storeVars, Lives
<1>2. ASSUME NEW t \in GrantTasks, HeaderClaim(t) PROVE StoreShape'
  BY <1>2, SMTT(20) DEF StoreShape, HeaderClaim, storeVars, Lives
<1>3. ASSUME NEW t \in GrantTasks, HeaderLink(t) PROVE StoreShape'
  BY <1>3, SMTT(20) DEF StoreShape, HeaderLink, storeVars, Lives
<1>4. ASSUME NEW t \in GrantTasks, HeaderSync(t) PROVE StoreShape'
  BY <1>4, SMTT(20) DEF StoreShape, HeaderSync, storeVars, Lives
<1>5. ASSUME NEW t \in GrantTasks, HeaderRescan(t) PROVE StoreShape'
  BY <1>5, SMTT(20) DEF StoreShape, HeaderRescan, storeVars, Lives
<1>6. ASSUME NEW t \in GrantTasks, StartIssue(t) PROVE StoreShape'
  BY <1>6, SMTT(20) DEF StoreShape, StartIssue, storeVars, Lives
<1>7. ASSUME NEW t \in GrantTasks, ClaimGrantStage(t) PROVE StoreShape'
  BY <1>7, SMTT(20) DEF StoreShape, ClaimGrantStage, storeVars, Lives
<1>8. ASSUME NEW t \in GrantTasks, StagedGrant(t) PROVE StoreShape'
  BY <1>8, SMTT(20) DEF StoreShape, StagedGrant, storeVars, Lives
<1>9. ASSUME NEW t \in GrantTasks, RenameGrant(t) PROVE StoreShape'
  BY <1>9, SMTT(20) DEF StoreShape, RenameGrant, storeVars, Lives
<1>10. ASSUME NEW t \in GrantTasks, ContendForSlot(t) PROVE StoreShape'
  BY <1>10, SMTT(20) DEF StoreShape, ContendForSlot, storeVars, Lives
<1>11. ASSUME NEW t \in GrantTasks, SyncGrant(t) PROVE StoreShape'
  BY <1>11, SMTT(20) DEF StoreShape, SyncGrant, storeVars, Lives
<1>12. ASSUME NEW t \in GrantTasks, AnswerIssue(t) PROVE StoreShape'
  BY <1>12, SMTT(20) DEF StoreShape, AnswerIssue, storeVars, Lives
<1>13. ASSUME NEW t \in GrantTasks, NEW s \in Slots, StartConsume(t, s) PROVE StoreShape'
  BY <1>13, SMTT(20) DEF StoreShape, StartConsume, storeVars, Lives
<1>14. ASSUME NEW t \in GrantTasks, ClaimUsedStage(t) PROVE StoreShape'
  BY <1>14, SMTT(20) DEF StoreShape, ClaimUsedStage, storeVars, Lives
<1>15. ASSUME NEW t \in GrantTasks, LinkReceipt(t) PROVE StoreShape'
  BY <1>15, SMTT(20) DEF StoreShape, LinkReceipt, storeVars, Lives
<1>16. ASSUME NEW t \in GrantTasks, SyncReceipt(t) PROVE StoreShape'
  BY <1>16, SMTT(20) DEF StoreShape, SyncReceipt, storeVars, Lives
<1>17. ASSUME NEW t \in GrantTasks, AnswerConsume(t) PROVE StoreShape'
  BY <1>17, SMTT(20) DEF StoreShape, AnswerConsume, storeVars, Lives
<1>18. ASSUME NEW st \in Stores, StartRemediation(st) PROVE StoreShape'
  <2>1. UNCHANGED <<life, ready, view>>
    BY <1>18 DEF StartRemediation
  <2>2. \/ remediating' = [remediating EXCEPT ![st] = TRUE] /\ sick' = sick
        \/ remediating' = remediating /\ sick' = [sick EXCEPT ![st] = TRUE]
    BY <1>18 DEF StartRemediation, Latch
  <2>. QED BY <2>1, <2>2 DEF StoreShape
<1>19. ASSUME NEW st \in Stores, RemoveStage(st) PROVE StoreShape'
  BY <1>19, SMTT(20) DEF StoreShape, RemoveStage, storeVars, Lives
<1>20. ASSUME NEW st \in Stores, FinishRemediation(st) PROVE StoreShape'
  BY <1>20, SMTT(20) DEF StoreShape, FinishRemediation, storeVars, Lives
<1>21. ASSUME NEW st \in Stores, StartClose(st) PROVE StoreShape'
  BY <1>21, SMTT(20) DEF StoreShape, StartClose, storeVars, Lives
<1>22. ASSUME NEW st \in Stores, FinishClose(st) PROVE StoreShape'
  BY <1>22, SMTT(20) DEF StoreShape, FinishClose, storeVars, Lives
<1>23. ASSUME NEW st \in Stores, Reopen(st) PROVE StoreShape'
  BY <1>23, SMTT(20) DEF StoreShape, Reopen, storeVars, Lives
<1>24. ASSUME NEW st \in Stores, ProcessDies(st) PROVE StoreShape'
  BY <1>24, SMTT(20) DEF StoreShape, ProcessDies, Die, storeVars, Lives
<1>25. ASSUME PowerFails PROVE StoreShape'
  BY <1>25, SMTT(20) DEF StoreShape, PowerFails, Die, storeVars, Lives
<1>. QED
  BY <1>1, <1>2, <1>3, <1>4, <1>5, <1>6, <1>7, <1>8, <1>9, <1>10, <1>11, <1>12, <1>13,
      <1>14, <1>15, <1>16, <1>17, <1>18, <1>19, <1>20, <1>21, <1>22, <1>23, <1>24, <1>25,
      SMTT(20)
  DEF StoreShape, GrantsNext, Initialize, IssueSteps, ConsumeSteps, grantVars, storeVars

-------------------------------------------------------------------------------
\* A closed or dead store has no operation, and beside a remediation there is
\* none in the whole root.
Exclusion ==
  /\ \A t \in GrantTasks : life[Home[t]] \in {"closed", "dead"} => op[t].pc = "idle"
  /\ \A st \in Stores : remediating[st] => Custody(st) /\ InFlight(st) = {}

\* An operation in progress belongs to a store that is open or closing, and
\* no store remediates.
LEMMA BusyStore ==
  ASSUME StoreShape, Exclusion, NEW t \in GrantTasks, op[t].pc # "idle"
  PROVE  life[Home[t]] \notin {"closed", "dead"} /\ \A st \in Stores : ~remediating[st]
  BY HomeTyped DEF Exclusion, Custody, InFlight

\* A step of an operation.
TaskStep(t) ==
  \/ Initialize(t) \/ StartIssue(t) \/ IssueSteps(t)
  \/ (\E s \in Slots : StartConsume(t, s)) \/ ConsumeSteps(t)

\* What a step of an operation leaves alone.
Alone(t) ==
  /\ \A r \in GrantTasks \ {t} : op'[r] = op[r]
  /\ op[t].pc # "idle" \/ Admitted(t)
  /\ UNCHANGED <<life, remediating>>

\* The stage and slot an operation is at after its own step.
LEMMA AfterEnd == ASSUME OpShape, NEW t \in GrantTasks, End(t) PROVE op'[t].pc = "idle"
  BY DEF OpShape, End, Idle

\* After a move.
LEMMA AfterAt ==
  ASSUME OpShape, NEW t \in GrantTasks, NEW pc, At(t, pc)
  PROVE  op'[t].pc = pc /\ op'[t].at = op[t].at
<1>1. op[t] \in Operations BY DEF OpShape
<1>2. op'[t] = [op[t] EXCEPT !.pc = pc] BY DEF OpShape, At
<1>. QED BY <1>1, <1>2 DEF Operations

\* After a collision.
LEMMA AfterRetry ==
  ASSUME OpShape, NEW t \in GrantTasks, RetryUuid(t)
  PROVE  op'[t].pc \in {"idle", "issue_claim"}
  BY AfterEnd DEF OpShape, RetryUuid, Drawing

\* After a probe, which gives the stage up when no slot is left.
LEMMA AfterProbe ==
  ASSUME OpShape, NEW t \in GrantTasks, NEW from, NEW seen, Probe(t, from, seen)
  PROVE  \/ op'[t].pc = "issue_rename" /\ UNCHANGED grantStages
         \/ op'[t].pc = "idle" /\ grantStages' = grantStages - 1
<1>1. op[t] \in Operations BY DEF OpShape
<1>2. ASSUME NEW s \in Slots, op' = [op EXCEPT ![t].pc = "issue_rename", ![t].at = s]
      PROVE  op'[t].pc = "issue_rename"
  <2>1. op'[t] = [op[t] EXCEPT !.pc = "issue_rename", !.at = s] BY <1>2 DEF OpShape
  <2>. QED BY <1>1, <2>1 DEF Operations
<1>. QED BY <1>2, AfterEnd DEF Probe, Untried, GiveUpStage

\* Every step of an operation is one.
LEMMA TaskSteps ==
  ASSUME OpShape, NEW t \in GrantTasks, TaskStep(t)
  PROVE  Alone(t)
<1>1. ASSUME StartInitialize(t) PROVE Alone(t)
  BY <1>1
  DEF StartInitialize, Alone, OpShape, End, At, RetryUuid, Probe, GiveUpStage, storeVars,
      Admitted
<1>2. ASSUME HeaderClaim(t) PROVE Alone(t)
  BY <1>2
  DEF HeaderClaim, Alone, OpShape, End, At, RetryUuid, Probe, GiveUpStage, storeVars,
      Admitted
<1>3. ASSUME HeaderLink(t) PROVE Alone(t)
  BY <1>3
  DEF HeaderLink, Alone, OpShape, End, At, RetryUuid, Probe, GiveUpStage, storeVars,
      Admitted
<1>4. ASSUME HeaderSync(t) PROVE Alone(t)
  BY <1>4
  DEF HeaderSync, Alone, OpShape, End, At, RetryUuid, Probe, GiveUpStage, storeVars,
      Admitted
<1>5. ASSUME HeaderRescan(t) PROVE Alone(t)
  BY <1>5
  DEF HeaderRescan, Alone, OpShape, End, At, RetryUuid, Probe, GiveUpStage, storeVars,
      Admitted
<1>6. ASSUME StartIssue(t) PROVE Alone(t)
  BY <1>6
  DEF StartIssue, Alone, OpShape, End, At, RetryUuid, Probe, GiveUpStage, storeVars,
      Admitted
<1>7. ASSUME ClaimGrantStage(t) PROVE Alone(t)
  BY <1>7
  DEF ClaimGrantStage, Alone, OpShape, End, At, RetryUuid, Probe, GiveUpStage, storeVars,
      Admitted
<1>8. ASSUME StagedGrant(t) PROVE Alone(t)
  BY <1>8
  DEF StagedGrant, Alone, OpShape, End, At, RetryUuid, Probe, GiveUpStage, storeVars,
      Admitted
<1>9. ASSUME RenameGrant(t) PROVE Alone(t)
  BY <1>9
  DEF RenameGrant, Alone, OpShape, End, At, RetryUuid, Probe, GiveUpStage, storeVars,
      Admitted
<1>10. ASSUME ContendForSlot(t) PROVE Alone(t)
  BY <1>10
  DEF ContendForSlot, Alone, OpShape, End, At, RetryUuid, Probe, GiveUpStage, storeVars,
      Admitted
<1>11. ASSUME SyncGrant(t) PROVE Alone(t)
  BY <1>11
  DEF SyncGrant, Alone, OpShape, End, At, RetryUuid, Probe, GiveUpStage, storeVars, Admitted
<1>12. ASSUME AnswerIssue(t) PROVE Alone(t)
  BY <1>12
  DEF AnswerIssue, Alone, OpShape, End, At, RetryUuid, Probe, GiveUpStage, storeVars,
      Admitted
<1>13. ASSUME NEW s \in Slots, StartConsume(t, s) PROVE Alone(t)
  BY <1>13
  DEF StartConsume, Alone, OpShape, End, At, RetryUuid, Probe, GiveUpStage, storeVars,
      Admitted
<1>14. ASSUME ClaimUsedStage(t) PROVE Alone(t)
  BY <1>14
  DEF ClaimUsedStage, Alone, OpShape, End, At, RetryUuid, Probe, GiveUpStage, storeVars,
      Admitted
<1>15. ASSUME LinkReceipt(t) PROVE Alone(t)
  BY <1>15
  DEF LinkReceipt, Alone, OpShape, End, At, RetryUuid, Probe, GiveUpStage, storeVars,
      Admitted
<1>16. ASSUME SyncReceipt(t) PROVE Alone(t)
  BY <1>16
  DEF SyncReceipt, Alone, OpShape, End, At, RetryUuid, Probe, GiveUpStage, storeVars,
      Admitted
<1>17. ASSUME AnswerConsume(t) PROVE Alone(t)
  BY <1>17
  DEF AnswerConsume, Alone, OpShape, End, At, RetryUuid, Probe, GiveUpStage, storeVars,
      Admitted
<1>. QED
  BY <1>1, <1>2, <1>3, <1>4, <1>5, <1>6, <1>7, <1>8, <1>9, <1>10, <1>11, <1>12, <1>13,
      <1>14, <1>15, <1>16, <1>17
  DEF TaskStep, Initialize, IssueSteps, ConsumeSteps

\* Every step keeps the exclusion.
LEMMA ExclusionSteps ==
  ASSUME StoreShape, OpShape, Exclusion, [GrantsNext]_grantVars
  PROVE  Exclusion'
<1>1. ASSUME NEW t \in GrantTasks, Alone(t) PROVE Exclusion'
  BY <1>1, HomeTyped DEF Exclusion, Custody, InFlight, Alone, Admitted
<1>2. ASSUME NEW st \in Stores, StartRemediation(st) PROVE Exclusion'
  BY <1>2, HomeTyped
  DEF StartRemediation, StoreShape, OpShape, Exclusion, Custody, InFlight, storeVars
<1>3. ASSUME NEW st \in Stores, RemoveStage(st) PROVE Exclusion'
  BY <1>3, HomeTyped
  DEF RemoveStage, StoreShape, OpShape, Exclusion, Custody, InFlight, storeVars
<1>4. ASSUME NEW st \in Stores, FinishRemediation(st) PROVE Exclusion'
  BY <1>4, HomeTyped
  DEF FinishRemediation, StoreShape, OpShape, Exclusion, Custody, InFlight, storeVars
<1>5. ASSUME NEW st \in Stores, StartClose(st) PROVE Exclusion'
  BY <1>5, HomeTyped
  DEF StartClose, StoreShape, OpShape, Exclusion, Custody, InFlight, storeVars
<1>6. ASSUME NEW st \in Stores, FinishClose(st) PROVE Exclusion'
  BY <1>6, HomeTyped
  DEF FinishClose, StoreShape, OpShape, Exclusion, Custody, InFlight, storeVars
<1>7. ASSUME NEW st \in Stores, Reopen(st) PROVE Exclusion'
  BY <1>7, HomeTyped DEF Reopen, StoreShape, OpShape, Exclusion, Custody, InFlight, storeVars
<1>8. ASSUME NEW st \in Stores, ProcessDies(st) PROVE Exclusion'
  BY <1>8, HomeTyped
  DEF ProcessDies, Die, Idle, StoreShape, OpShape, Exclusion, Custody, InFlight, storeVars
<1>9. ASSUME PowerFails PROVE Exclusion'
  BY <1>9, HomeTyped
  DEF PowerFails, Die, Idle, StoreShape, OpShape, Exclusion, Custody, InFlight, storeVars
<1>10. UNCHANGED grantVars => Exclusion'
  BY DEF Exclusion, Custody, InFlight, grantVars, storeVars
<1>. QED
  BY <1>1, <1>2, <1>3, <1>4, <1>5, <1>6, <1>7, <1>8, <1>9, <1>10, TaskSteps DEF GrantsNext, TaskStep

-------------------------------------------------------------------------------
\* The stages of an operation that hold a stage, and the operations there.
Staging == {"issue_staged", "issue_rename", "issue_contend"}
Heading == {"header_link", "header_sync"}
Using == {"use_link", "use_sync", "use_read"}
Stagers == {t \in GrantTasks : op[t].pc \in Staging}
Headers == {t \in GrantTasks : op[t].pc \in Heading}
Users(s) == {t \in GrantTasks : op[t].at = s /\ op[t].pc \in Using}

\* A step of one task moves its membership of a set S, and n with it.
LEMMA CountStep ==
  ASSUME NEW S \in SUBSET GrantTasks, NEW T \in SUBSET GrantTasks, NEW t \in GrantTasks,
         NEW n \in Int, NEW m \in Int,
         S \ {t} = T \ {t}, Cardinality(S) <= n,
         \/ m = n /\ (t \in T => t \in S)
         \/ m = n + 1
         \/ m = n - 1 /\ t \in S /\ t \notin T
  PROVE  Cardinality(T) <= m
<1>. IsFiniteSet(S) /\ IsFiniteSet(T) BY GrantsAssumption, FS_Subset
<1>. Cardinality(S) \in Nat /\ Cardinality(T) \in Nat BY FS_CardinalityType
<1>1. CASE m = n /\ (t \in T => t \in S)
  <2>1. T \subseteq S BY <1>1
  <2>. QED BY <1>1, <2>1, FS_Subset
<1>2. CASE m = n + 1
  <2>1. IsFiniteSet(S \cup {t}) /\ Cardinality(S \cup {t}) <= Cardinality(S) + 1
    BY FS_AddElement
  <2>2. T \subseteq S \cup {t} OBVIOUS
  <2>3. Cardinality(T) <= Cardinality(S \cup {t}) BY <2>1, <2>2, FS_Subset
  <2>4. Cardinality(S \cup {t}) \in Nat BY <2>1, FS_CardinalityType
  <2>. QED BY <1>2, <2>1, <2>3, <2>4
<1>3. CASE m = n - 1 /\ t \in S /\ t \notin T
  <2>1. IsFiniteSet(S \ {t}) /\ Cardinality(S \ {t}) = Cardinality(S) - 1
    BY <1>3, FS_RemoveElement
  <2>2. T \subseteq S \ {t} BY <1>3
  <2>3. Cardinality(T) <= Cardinality(S \ {t}) BY <2>1, <2>2, FS_Subset
  <2>. QED BY <1>3, <2>1, <2>3
<1>. QED BY <1>1, <1>2, <1>3

\* With no operation in progress, nothing is held.
LEMMA NothingHeld ==
  ASSUME \A t \in GrantTasks : op[t].pc = "idle", grantStages >= 0, headerStages >= 0,
         \A s \in Slots : usedStages[s] >= 0
  PROVE  HeldStagesExist
<1>1. Stagers = {} /\ Headers = {} /\ \A s \in Slots : Users(s) = {}
  BY DEF Stagers, Headers, Users, Staging, Heading, Using
<1>. QED BY <1>1, FS_EmptySet
DEF HeldStagesExist, Stagers, Headers, Users, Staging, Heading, Using

\* The same of the next state.
LEMMA NothingHeldNext ==
  ASSUME \A t \in GrantTasks : op'[t].pc = "idle", grantStages' >= 0, headerStages' >= 0,
         \A s \in Slots : usedStages'[s] >= 0
  PROVE  HeldStagesExist'
<1>1. Stagers' = {} /\ Headers' = {} /\ \A s \in Slots : Users(s)' = {}
  BY DEF Stagers, Headers, Users, Staging, Heading, Using
<1>. QED BY <1>1, FS_EmptySet
DEF HeldStagesExist, Stagers, Headers, Users, Staging, Heading, Using

\* How a step of t moves the three counts.
GrantMoves(t) ==
  \/ grantStages' = grantStages /\ (op'[t].pc \in Staging => op[t].pc \in Staging)
  \/ grantStages' = grantStages + 1
  \/ grantStages' = grantStages - 1 /\ op[t].pc \in Staging /\ op'[t].pc \notin Staging
HeaderMoves(t) ==
  \/ headerStages' = headerStages /\ (op'[t].pc \in Heading => op[t].pc \in Heading)
  \/ headerStages' = headerStages + 1
  \/ headerStages' = headerStages - 1 /\ op[t].pc \in Heading /\ op'[t].pc \notin Heading
UsedMoves(t, s) ==
  \/ /\ usedStages'[s] = usedStages[s]
     /\ op'[t].at = s /\ op'[t].pc \in Using => op[t].at = s /\ op[t].pc \in Using
  \/ usedStages'[s] = usedStages[s] + 1
  \/ /\ usedStages'[s] = usedStages[s] - 1 /\ op[t].at = s /\ op[t].pc \in Using
     /\ op'[t].pc \notin Using
Moves(t) == GrantMoves(t) /\ HeaderMoves(t) /\ \A s \in Slots : UsedMoves(t, s)

\* A step that moves the counts with the holders keeps them.
LEMMA MovesHold ==
  ASSUME DiskShape, DiskShape', NEW t \in GrantTasks, Alone(t), Moves(t), HeldStagesExist
  PROVE  HeldStagesExist'
<1>1. Cardinality(Stagers') <= grantStages'
  <2>1. Stagers \ {t} = Stagers' \ {t} BY DEF Stagers, Alone
  <2>2. Cardinality(Stagers) <= grantStages BY DEF HeldStagesExist, Stagers, Staging
  <2>3. Stagers \in SUBSET GrantTasks /\ Stagers' \in SUBSET GrantTasks BY DEF Stagers
  <2>4. \/ grantStages' = grantStages /\ (t \in Stagers' => t \in Stagers)
        \/ grantStages' = grantStages + 1
        \/ grantStages' = grantStages - 1 /\ t \in Stagers /\ t \notin Stagers'
    BY DEF Moves, GrantMoves, Stagers
  <2>5. grantStages \in Int /\ grantStages' \in Int BY DEF DiskShape
  <2>. QED BY <2>1, <2>2, <2>3, <2>4, <2>5, CountStep
<1>2. Cardinality(Headers') <= headerStages'
  <2>1. Headers \ {t} = Headers' \ {t} BY DEF Headers, Alone
  <2>2. Cardinality(Headers) <= headerStages BY DEF HeldStagesExist, Headers, Heading
  <2>3. Headers \in SUBSET GrantTasks /\ Headers' \in SUBSET GrantTasks BY DEF Headers
  <2>4. \/ headerStages' = headerStages /\ (t \in Headers' => t \in Headers)
        \/ headerStages' = headerStages + 1
        \/ headerStages' = headerStages - 1 /\ t \in Headers /\ t \notin Headers'
    BY DEF Moves, HeaderMoves, Headers
  <2>5. headerStages \in Int /\ headerStages' \in Int BY DEF DiskShape
  <2>. QED BY <2>1, <2>2, <2>3, <2>4, <2>5, CountStep
<1>3. ASSUME NEW s \in Slots PROVE Cardinality(Users(s)') <= usedStages'[s]
  <2>1. Users(s) \ {t} = Users(s)' \ {t} BY DEF Users, Alone
  <2>2. Cardinality(Users(s)) <= usedStages[s] BY DEF HeldStagesExist, Users, Using
  <2>3. Users(s) \in SUBSET GrantTasks /\ Users(s)' \in SUBSET GrantTasks BY DEF Users
  <2>4. \/ usedStages'[s] = usedStages[s] /\ (t \in Users(s)' => t \in Users(s))
        \/ usedStages'[s] = usedStages[s] + 1
        \/ usedStages'[s] = usedStages[s] - 1 /\ t \in Users(s) /\ t \notin Users(s)'
    BY DEF Moves, UsedMoves, Users
  <2>5. usedStages[s] \in Int /\ usedStages'[s] \in Int BY DEF DiskShape
  <2>. QED BY <2>1, <2>2, <2>3, <2>4, <2>5, CountStep
<1>. QED BY <1>1, <1>2, <1>3
DEF HeldStagesExist, Stagers, Headers, Users, Staging, Heading, Using

\* Every step of an operation moves them so.
LEMMA TaskMoves ==
  ASSUME OpShape, DiskShape, NEW t \in GrantTasks, TaskStep(t)
  PROVE  Moves(t)
<1>. USE DEF Moves, GrantMoves, HeaderMoves, UsedMoves, Staging, Heading, Using
<1>1. ASSUME StartInitialize(t) PROVE Moves(t)
  BY <1>1, AfterEnd, AfterAt, AfterRetry, AfterProbe, SMTT(20)
  DEF StartInitialize, Admitted, RetryUuid, DiskShape, diskVars, storeVars
<1>2. ASSUME HeaderClaim(t) PROVE Moves(t)
  BY <1>2, AfterEnd, AfterAt, AfterRetry, AfterProbe, SMTT(20)
  DEF HeaderClaim, Admitted, RetryUuid, DiskShape, diskVars, storeVars
<1>3. ASSUME HeaderLink(t) PROVE Moves(t)
  BY <1>3, AfterEnd, AfterAt, AfterRetry, AfterProbe, SMTT(20)
  DEF HeaderLink, Admitted, RetryUuid, DiskShape, diskVars, storeVars
<1>4. ASSUME HeaderSync(t) PROVE Moves(t)
  BY <1>4, AfterEnd, AfterAt, AfterRetry, AfterProbe, SMTT(20)
  DEF HeaderSync, Admitted, RetryUuid, DiskShape, diskVars, storeVars
<1>5. ASSUME HeaderRescan(t) PROVE Moves(t)
  BY <1>5, AfterEnd, AfterAt, AfterRetry, AfterProbe, SMTT(20)
  DEF HeaderRescan, Admitted, RetryUuid, DiskShape, diskVars, storeVars
<1>6. ASSUME StartIssue(t) PROVE Moves(t)
  BY <1>6, AfterEnd, AfterAt, AfterRetry, AfterProbe, SMTT(20)
  DEF StartIssue, Drawing, OpShape, Admitted, RetryUuid, DiskShape, diskVars, storeVars
<1>7. ASSUME ClaimGrantStage(t) PROVE Moves(t)
  BY <1>7, AfterEnd, AfterAt, AfterRetry, AfterProbe, SMTT(20)
  DEF ClaimGrantStage, Admitted, RetryUuid, DiskShape, diskVars, storeVars
<1>8. ASSUME StagedGrant(t) PROVE Moves(t)
  BY <1>8, AfterEnd, AfterAt, AfterRetry, AfterProbe, SMTT(20)
  DEF StagedGrant, GiveUpStage, Admitted, RetryUuid, DiskShape, diskVars, storeVars
<1>9. ASSUME RenameGrant(t) PROVE Moves(t)
  BY <1>9, AfterEnd, AfterAt, AfterRetry, AfterProbe, SMTT(20)
  DEF RenameGrant, GiveUpStage, Admitted, RetryUuid, DiskShape, diskVars, storeVars
<1>10. ASSUME ContendForSlot(t) PROVE Moves(t)
  BY <1>10, AfterEnd, AfterAt, AfterRetry, AfterProbe, SMTT(20)
  DEF ContendForSlot, GiveUpStage, Admitted, RetryUuid, DiskShape, diskVars, storeVars
<1>11. ASSUME SyncGrant(t) PROVE Moves(t)
  BY <1>11, AfterEnd, AfterAt, AfterRetry, AfterProbe, SMTT(20)
  DEF SyncGrant, Admitted, RetryUuid, DiskShape, diskVars, storeVars
<1>12. ASSUME AnswerIssue(t) PROVE Moves(t)
  BY <1>12, AfterEnd, AfterAt, AfterRetry, AfterProbe, SMTT(20)
  DEF AnswerIssue, Admitted, RetryUuid, DiskShape, diskVars, storeVars
<1>13. ASSUME NEW s \in Slots, StartConsume(t, s) PROVE Moves(t)
  BY <1>13, AfterEnd, AfterAt, AfterRetry, AfterProbe, SMTT(20)
  DEF StartConsume, Drawing, OpShape, Admitted, RetryUuid, DiskShape, diskVars, storeVars
<1>14. ASSUME ClaimUsedStage(t) PROVE Moves(t)
  BY <1>14, AfterEnd, AfterAt, AfterRetry, AfterProbe, SMTT(20)
  DEF ClaimUsedStage, Admitted, RetryUuid, DiskShape, diskVars, storeVars
<1>15. ASSUME LinkReceipt(t) PROVE Moves(t)
  BY <1>15, AfterEnd, AfterAt, AfterRetry, AfterProbe, SMTT(20)
  DEF LinkReceipt, Admitted, RetryUuid, DiskShape, diskVars, storeVars
<1>16. ASSUME SyncReceipt(t) PROVE Moves(t)
  BY <1>16, AfterEnd, AfterAt, AfterRetry, AfterProbe, SMTT(20)
  DEF SyncReceipt, Admitted, RetryUuid, DiskShape, diskVars, storeVars
<1>17. ASSUME AnswerConsume(t) PROVE Moves(t)
  BY <1>17, AfterEnd, AfterAt, AfterRetry, AfterProbe, SMTT(20)
  DEF AnswerConsume, Admitted, RetryUuid, DiskShape, diskVars, storeVars
<1>. QED
  BY <1>1, <1>2, <1>3, <1>4, <1>5, <1>6, <1>7, <1>8, <1>9, <1>10, <1>11, <1>12, <1>13,
      <1>14, <1>15, <1>16, <1>17
  DEF TaskStep, Initialize, IssueSteps, ConsumeSteps

\* Everything the type invariant needs.
Typed == DiskShape /\ StoreShape /\ OpShape /\ Exclusion /\ HeldStagesExist

\* What is counted is not negative.
LEMMA LowerBounds ==
  ASSUME DiskShape, HeldStagesExist
  PROVE  grantStages >= 0 /\ headerStages >= 0 /\ \A s \in Slots : usedStages[s] >= 0
<1>1. ASSUME NEW S \in SUBSET GrantTasks PROVE Cardinality(S) \in Nat
  BY GrantsAssumption, FS_Subset, FS_CardinalityType
<1>2. Stagers \in SUBSET GrantTasks /\ Headers \in SUBSET GrantTasks
      /\ \A s \in Slots : Users(s) \in SUBSET GrantTasks
  BY DEF Stagers, Headers, Users
<1>3. Cardinality(Stagers) <= grantStages /\ Cardinality(Headers) <= headerStages
      /\ \A s \in Slots : Cardinality(Users(s)) <= usedStages[s]
  BY DEF HeldStagesExist, Stagers, Headers, Users, Staging, Heading, Using
<1>. QED BY <1>1, <1>2, <1>3 DEF DiskShape

\* Every step keeps the stages that are held.
LEMMA HeldSteps ==
  ASSUME Typed, DiskShape', [GrantsNext]_grantVars
  PROVE  HeldStagesExist'
<1>. USE DEF Typed
<1>1. ASSUME NEW t \in GrantTasks, Alone(t), Moves(t) PROVE HeldStagesExist'
  BY <1>1, MovesHold
<1>2. ASSUME UNCHANGED <<op, grantStages, headerStages, usedStages>> PROVE HeldStagesExist'
  BY <1>2 DEF HeldStagesExist
<1>3. ASSUME NEW st \in Stores, remediating[st] PROVE \A t \in GrantTasks : op[t].pc = "idle"
  BY <1>3, HomeTyped DEF Exclusion, Custody, InFlight
<1>4. ASSUME NEW st \in Stores, RemoveStage(st) PROVE HeldStagesExist'
  <2>1. \A t \in GrantTasks : op'[t].pc = "idle" BY <1>3, <1>4 DEF RemoveStage
  <2>2. grantStages' >= 0 /\ headerStages' >= 0 /\ \A s \in Slots : usedStages'[s] >= 0
    BY <1>4, LowerBounds DEF RemoveStage, DiskShape
  <2>. QED BY <2>1, <2>2, NothingHeldNext
<1>5. ASSUME NEW st \in Stores, ProcessDies(st) PROVE HeldStagesExist'
  <2>1. Stagers' \subseteq Stagers /\ Headers' \subseteq Headers
        /\ \A s \in Slots : Users(s)' \subseteq Users(s)
    BY <1>5 DEF ProcessDies, Die, Stagers, Headers, Users, Idle, Staging, Heading, Using
  <2>2. ASSUME NEW S \in SUBSET GrantTasks, NEW T \in SUBSET S, NEW n \in Int, Cardinality(S) <= n
        PROVE  Cardinality(T) <= n
    <3>1. IsFiniteSet(S) BY GrantsAssumption, FS_Subset
    <3>2. Cardinality(T) <= Cardinality(S) /\ IsFiniteSet(T) BY <3>1, FS_Subset
    <3>3. Cardinality(T) \in Nat /\ Cardinality(S) \in Nat BY <3>1, <3>2, FS_CardinalityType
    <3>. QED BY <2>2, <3>2, <3>3
  <2>3. Stagers \in SUBSET GrantTasks /\ Headers \in SUBSET GrantTasks
        /\ \A s \in Slots : Users(s) \in SUBSET GrantTasks
    BY DEF Stagers, Headers, Users
  <2>4. Cardinality(Stagers) <= grantStages /\ Cardinality(Headers) <= headerStages
        /\ \A s \in Slots : Cardinality(Users(s)) <= usedStages[s]
    BY DEF HeldStagesExist, Stagers, Headers, Users, Staging, Heading, Using
  <2>5. grantStages \in Int /\ headerStages \in Int /\ \A s \in Slots : usedStages[s] \in Int
    BY DEF DiskShape
  <2>6. Cardinality(Stagers') <= grantStages /\ Cardinality(Headers') <= headerStages
        /\ \A s \in Slots : Cardinality(Users(s)') <= usedStages[s]
    BY <2>1, <2>2, <2>3, <2>4, <2>5
  <2>7. UNCHANGED <<grantStages, headerStages, usedStages>> BY <1>5 DEF ProcessDies, diskVars
  <2>. QED BY <2>6, <2>7 DEF HeldStagesExist, Stagers, Headers, Users, Staging, Heading, Using
<1>6. ASSUME PowerFails PROVE HeldStagesExist'
  <2>1. \A t \in GrantTasks : op'[t].pc = "idle"
    BY <1>6, HomeTyped DEF PowerFails, Die, Idle
  <2>2. grantStages' >= 0 /\ headerStages' >= 0 /\ \A s \in Slots : usedStages'[s] >= 0
    BY <1>6, LowerBounds DEF PowerFails, DiskShape
  <2>. QED BY <2>1, <2>2, NothingHeldNext
<1>7. ASSUME NEW st \in Stores,
             \/ StartRemediation(st) \/ FinishRemediation(st)
             \/ StartClose(st) \/ FinishClose(st) \/ Reopen(st)
      PROVE  HeldStagesExist'
  BY <1>2, <1>7
  DEF StartRemediation, FinishRemediation, StartClose, FinishClose, Reopen, diskVars
<1>8. CASE UNCHANGED grantVars BY <1>2, <1>8 DEF grantVars, diskVars
<1>. QED BY <1>1, <1>4, <1>5, <1>6, <1>7, <1>8, TaskSteps, TaskMoves DEF GrantsNext, TaskStep

\* The types, the exclusion and the held stages are an inductive invariant.
LEMMA TypedHolds == GrantsSpec => []Typed
<1>1. GrantsInit => Typed
  <2>. SUFFICES ASSUME GrantsInit PROVE Typed OBVIOUS
  <2>1. DiskShape
    <3>1. GrantStages \in Nat /\ HeaderStages \in Nat /\ UsedStages \in Nat /\ MaxGrantFaults \in Nat
      BY GrantsAssumption
    <3>2. slot \in [Slots -> Uuids \cup {None}] /\ used \in [Slots -> GrantTasks \cup {None}]
      BY DEF GrantsInit
    <3>3. spends \in [Slots -> Nat] /\ usedStages \in [Slots -> Int]
          /\ \A s \in Slots : usedStages[s] <= UsedStages
      BY <3>1 DEF GrantsInit
    <3>4. header \in BOOLEAN BY DEF GrantsInit
    <3>5. 0 \in 0..MaxGrantFaults /\ 0 <= GrantStages /\ 0 <= HeaderStages BY <3>1
    <3>. QED BY <3>2, <3>3, <3>4, <3>5 DEF GrantsInit, DiskShape
  <2>2. StoreShape BY DEF GrantsInit, StoreShape, Lives
  <2>3. OpShape
    BY GrantsAssumption DEF GrantsInit, OpShape, Idle, Operations, Stages, AtASlot, Drawn
  <2>4. Exclusion BY HomeTyped DEF GrantsInit, Exclusion, Idle
  <2>5. HeldStagesExist BY NothingHeld DEF GrantsInit, Idle
  <2>. QED BY <2>1, <2>2, <2>3, <2>4, <2>5 DEF Typed
<1>2. Typed /\ [GrantsNext]_grantVars => Typed'
  <2>. SUFFICES ASSUME Typed, [GrantsNext]_grantVars PROVE Typed' OBVIOUS
  <2>1. DiskShape' /\ StoreShape' /\ OpShape' /\ Exclusion'
    BY DiskSteps, StoreSteps, OpSteps, ExclusionSteps DEF Typed
  <2>. QED BY <2>1, HeldSteps DEF Typed
<1>. QED BY <1>1, <1>2, PTL DEF GrantsSpec

\* In every reachable state the variables have their types and the stages stay
\* within their limits.
THEOREM GrantsTyped == GrantsSpec => []GrantsTypeOK
<1>1. Typed => GrantsTypeOK
  <2>. SUFFICES ASSUME Typed PROVE GrantsTypeOK OBVIOUS
  <2>1. grantStages >= 0 /\ headerStages >= 0 /\ \A s \in Slots : usedStages[s] >= 0
    BY LowerBounds DEF Typed
  <2>2. grantStages \in 0..GrantStages /\ headerStages \in 0..HeaderStages
        /\ usedStages \in [Slots -> 0..UsedStages]
    BY <2>1, GrantsAssumption DEF Typed, DiskShape
  <2>. QED BY <2>2 DEF Typed, DiskShape, StoreShape, OpShape, Operations, GrantsTypeOK
<1>. QED BY <1>1, TypedHolds, PTL

\* commitGrantToSlot, commitHeader and commitReceipt find the stage they are
\* about to link or rename: a remediation never takes it from under them.
THEOREM HeldStagesStay == GrantsSpec => []HeldStagesExist
<1>1. Typed => HeldStagesExist BY DEF Typed
<1>. QED BY <1>1, TypedHolds, PTL

-------------------------------------------------------------------------------
\* What the answers given so far and the operations on their way rest on.
GrantIsKept(s) == slot[s] # None /\ SlotEntry(s) \notin unsynced
ReceiptIsKept(s) == used[s] # None /\ UsedEntry(s) \notin unsynced

Consuming == {"use_claim", "use_link", "use_sync", "use_read"}

AnswersRest ==
  /\ \A s \in granted : GrantIsKept(s)
  /\ \A s \in Slots : spends[s] > 0 => ReceiptIsKept(s) /\ s \in granted /\ spends[s] = 1
OperationRests(t) ==
  /\ op[t].pc = "issue_sync" => slot[op[t].at] # None
  /\ op[t].pc = "issue_scan" => GrantIsKept(op[t].at)
  /\ op[t].pc \in Consuming => op[t].at \in granted
  /\ op[t].pc \in {"use_claim", "use_link"} => used[op[t].at] # t
  /\ op[t].pc \in {"use_sync", "use_read"} =>
       used[op[t].at] # None /\ (used[op[t].at] = t => spends[op[t].at] = 0)
  /\ op[t].pc = "use_read" => UsedEntry(op[t].at) \notin unsynced
Durable == AnswersRest /\ \A t \in GrantTasks : OperationRests(t)

\* No two entries are the same, and the receipts are not in the root.
LEMMA EntriesDiffer ==
  \A s \in Slots, r \in Slots :
    /\ SlotEntry(s) # UsedEntry(r) /\ HeaderEntry # SlotEntry(s) /\ HeaderEntry # UsedEntry(r)
    /\ (SlotEntry(s) = SlotEntry(r) => s = r) /\ (UsedEntry(s) = UsedEntry(r) => s = r)
    /\ SlotEntry(s) \in RootEntries /\ UsedEntry(r) \notin RootEntries
  BY DEF SlotEntry, UsedEntry, HeaderEntry, RootEntries

\* What a step of t does not take from the other operations and the answers.
Gentle(t) ==
  /\ \A s \in Slots :
       /\ slot[s] # None => slot'[s] # None
       /\ used'[s] = used[s] \/ (used[s] = None /\ used'[s] = t)
       /\ GrantIsKept(s) => SlotEntry(s) \notin unsynced'
       /\ ReceiptIsKept(s) => UsedEntry(s) \notin unsynced'
       /\ spends'[s] = spends[s] \/ used[s] = t
  /\ granted \subseteq granted'

\* What the other operations rest on stays.
LEMMA OthersRest ==
  ASSUME OpShape, DiskShape, Durable, NEW t \in GrantTasks, Alone(t), Gentle(t),
         NEW r \in GrantTasks \ {t}
  PROVE  OperationRests(r)'
<1>1. op'[r] = op[r] /\ (op[r].pc \in AtASlot => op[r].at \in Slots) BY DEF Alone, OpShape
<1>2. OperationRests(r) BY DEF Durable
<1>3. r # None BY GrantsAssumption
<1>. QED BY <1>1, <1>2, <1>3
DEF OperationRests, Gentle, GrantIsKept, ReceiptIsKept, AtASlot, Consuming

\* The answers rest on what they did, but for those the step itself gives.
LEMMA AnswersStay ==
  ASSUME DiskShape, Durable, NEW t \in GrantTasks, Gentle(t), UNCHANGED answerVars
  PROVE  AnswersRest'
<1>1. \A s \in granted : s \in Slots BY DEF DiskShape
<1>2. \A s \in Slots : used[s] # None => used'[s] # None BY DEF Gentle
<1>. QED BY <1>1, <1>2 DEF AnswersRest, Durable, Gentle, GrantIsKept, ReceiptIsKept, answerVars

\* A step that leaves the grants, the receipts and the answers alone.
LEMMA Untouched ==
  ASSUME NEW t \in GrantTasks, UNCHANGED <<slot, used, unsynced, spends, granted>>
  PROVE  Gentle(t)
  BY DEF Gentle, GrantIsKept, ReceiptIsKept

\* A step that only syncs.
LEMMA Synced ==
  ASSUME NEW t \in GrantTasks, UNCHANGED <<slot, used, spends, granted>>, unsynced' \subseteq unsynced
  PROVE  Gentle(t)
  BY DEF Gentle, GrantIsKept, ReceiptIsKept

\* Every step of an operation is gentle.
LEMMA TaskGentle ==
  ASSUME OpShape, DiskShape, Durable, NEW t \in GrantTasks, TaskStep(t)
  PROVE  Gentle(t)
<1>. USE EntriesDiffer DEF Gentle, GrantIsKept, ReceiptIsKept
<1>1. ASSUME StartInitialize(t) PROVE Gentle(t)
  BY <1>1, Untouched DEF StartInitialize, diskVars, answerVars
<1>2. ASSUME HeaderClaim(t) PROVE Gentle(t)
  BY <1>2, Untouched DEF HeaderClaim, diskVars, answerVars
<1>3. ASSUME HeaderLink(t) PROVE Gentle(t)
  <2>1. UNCHANGED <<slot, used, spends, granted>> /\ unsynced' \subseteq unsynced \cup {HeaderEntry}
    BY <1>3 DEF HeaderLink, answerVars
  <2>. QED BY <2>1
<1>4. ASSUME HeaderSync(t) PROVE Gentle(t)
  BY <1>4, Synced DEF HeaderSync, diskVars, answerVars
<1>5. ASSUME HeaderRescan(t) PROVE Gentle(t)
  BY <1>5, Untouched DEF HeaderRescan, diskVars, answerVars
<1>6. ASSUME StartIssue(t) PROVE Gentle(t)
  BY <1>6, Untouched DEF StartIssue, diskVars, answerVars
<1>7. ASSUME ClaimGrantStage(t) PROVE Gentle(t)
  BY <1>7, Untouched DEF ClaimGrantStage, diskVars, answerVars
<1>8. ASSUME StagedGrant(t) PROVE Gentle(t)
  BY <1>8, Untouched DEF StagedGrant, diskVars, answerVars
<1>9. ASSUME RenameGrant(t) PROVE Gentle(t)
  <2>1. op[t].at \in Slots BY <1>9 DEF RenameGrant, OpShape, AtASlot
  <2>2. CASE UNCHANGED <<slot, unsynced>>
    BY <1>9, <2>2, Untouched DEF RenameGrant, answerVars
  <2>3. CASE slot[op[t].at] = None /\ slot' = [slot EXCEPT ![op[t].at] = op[t].id]
             /\ unsynced' = unsynced \cup {SlotEntry(op[t].at)}
    <3>1. UNCHANGED <<used, spends, granted>> BY <1>9 DEF RenameGrant, answerVars
    <3>2. \A s \in Slots : s # op[t].at => slot'[s] = slot[s] BY <2>3 DEF DiskShape
    <3>. QED BY <2>1, <2>3, <3>1, <3>2
  <2>. QED BY <1>9, <2>2, <2>3 DEF RenameGrant
<1>10. ASSUME ContendForSlot(t) PROVE Gentle(t)
  BY <1>10, Synced DEF ContendForSlot, diskVars, answerVars
<1>11. ASSUME SyncGrant(t) PROVE Gentle(t)
  BY <1>11, Synced DEF SyncGrant, diskVars, answerVars
<1>12. ASSUME AnswerIssue(t) PROVE Gentle(t)
  <2>1. UNCHANGED <<slot, used, unsynced, spends>> /\ granted \subseteq granted'
    BY <1>12 DEF AnswerIssue, diskVars
  <2>. QED BY <2>1
<1>13. ASSUME NEW s \in Slots, StartConsume(t, s) PROVE Gentle(t)
  BY <1>13, Untouched DEF StartConsume, diskVars, answerVars
<1>14. ASSUME ClaimUsedStage(t) PROVE Gentle(t)
  BY <1>14, Untouched DEF ClaimUsedStage, diskVars, answerVars
<1>15. ASSUME LinkReceipt(t) PROVE Gentle(t)
  <2>1. op[t].at \in Slots BY <1>15 DEF LinkReceipt, OpShape, AtASlot
  <2>2. CASE UNCHANGED <<used, unsynced>>
    BY <1>15, <2>2, Untouched DEF LinkReceipt, answerVars
  <2>3. CASE used[op[t].at] = None /\ used' = [used EXCEPT ![op[t].at] = t]
             /\ unsynced' = unsynced \cup {UsedEntry(op[t].at)}
    <3>1. UNCHANGED <<slot, spends, granted>> BY <1>15 DEF LinkReceipt, answerVars
    <3>2. \A s \in Slots : used'[s] = IF s = op[t].at THEN t ELSE used[s] BY <2>3 DEF DiskShape
    <3>. QED BY <2>1, <2>3, <3>1, <3>2
  <2>. QED BY <1>15, <2>2, <2>3 DEF LinkReceipt
<1>16. ASSUME SyncReceipt(t) PROVE Gentle(t)
  BY <1>16, Synced DEF SyncReceipt, diskVars, answerVars
<1>17. ASSUME AnswerConsume(t) PROVE Gentle(t)
  <2>1. op[t].at \in Slots BY <1>17 DEF AnswerConsume, OpShape, AtASlot
  <2>2. UNCHANGED <<slot, used, unsynced, granted>> BY <1>17 DEF AnswerConsume
  <2>3. \A s \in Slots : spends'[s] = spends[s] \/ used[s] = t
    BY <1>17, <2>1 DEF AnswerConsume, OwnReceipt, DiskShape
  <2>. QED BY <2>2, <2>3
<1>. QED
  BY <1>1, <1>2, <1>3, <1>4, <1>5, <1>6, <1>7, <1>8, <1>9, <1>10, <1>11, <1>12, <1>13,
      <1>14, <1>15, <1>16, <1>17
  DEF TaskStep, Initialize, IssueSteps, ConsumeSteps

\* Every step of an operation leaves it on what it needs.
LEMMA TaskRests ==
  ASSUME OpShape, DiskShape, Durable, NEW t \in GrantTasks, Gentle(t), TaskStep(t)
  PROVE  OperationRests(t)'
<1>. USE AfterEnd, AfterAt DEF OperationRests, GrantIsKept, ReceiptIsKept, Consuming, Durable
<1>1. ASSUME StartInitialize(t) PROVE OperationRests(t)'
  BY <1>1, AfterRetry, AfterProbe, EntriesDiffer, GrantsAssumption, SMTT(20)
  DEF StartInitialize, Admitted, diskVars, answerVars, DiskShape, OpShape, AtASlot, Drawn,
      Admitted
<1>2. ASSUME HeaderClaim(t) PROVE OperationRests(t)'
  BY <1>2, AfterRetry, AfterProbe, EntriesDiffer, GrantsAssumption, SMTT(20)
  DEF HeaderClaim, diskVars, answerVars, DiskShape, OpShape, AtASlot, Drawn, Admitted
<1>3. ASSUME HeaderLink(t) PROVE OperationRests(t)'
  BY <1>3, AfterRetry, AfterProbe, EntriesDiffer, GrantsAssumption, SMTT(20)
  DEF HeaderLink, diskVars, answerVars, DiskShape, OpShape, AtASlot, Drawn, Admitted
<1>4. ASSUME HeaderSync(t) PROVE OperationRests(t)'
  BY <1>4, AfterRetry, AfterProbe, EntriesDiffer, GrantsAssumption, SMTT(20)
  DEF HeaderSync, diskVars, answerVars, DiskShape, OpShape, AtASlot, Drawn, Admitted
<1>5. ASSUME HeaderRescan(t) PROVE OperationRests(t)'
  BY <1>5, AfterRetry, AfterProbe, EntriesDiffer, GrantsAssumption, SMTT(20)
  DEF HeaderRescan, diskVars, answerVars, DiskShape, OpShape, AtASlot, Drawn, Admitted
<1>6. ASSUME StartIssue(t) PROVE OperationRests(t)'
  BY <1>6, AfterRetry, AfterProbe, EntriesDiffer, GrantsAssumption, SMTT(20)
  DEF StartIssue, Admitted, Drawing, diskVars, answerVars, DiskShape, OpShape, AtASlot,
      Drawn, Admitted
<1>7. ASSUME ClaimGrantStage(t) PROVE OperationRests(t)'
  BY <1>7, AfterRetry, AfterProbe, EntriesDiffer, GrantsAssumption, SMTT(20)
  DEF ClaimGrantStage, diskVars, answerVars, DiskShape, OpShape, AtASlot, Drawn, Admitted
<1>8. ASSUME StagedGrant(t) PROVE OperationRests(t)'
  BY <1>8, AfterRetry, AfterProbe, EntriesDiffer, GrantsAssumption, SMTT(20)
  DEF StagedGrant, GiveUpStage, diskVars, answerVars, DiskShape, OpShape, AtASlot, Drawn,
      Admitted
<1>9. ASSUME RenameGrant(t) PROVE OperationRests(t)'
  BY <1>9, AfterRetry, AfterProbe, EntriesDiffer, GrantsAssumption, SMTT(20)
  DEF RenameGrant, GiveUpStage, diskVars, answerVars, DiskShape, OpShape, AtASlot, Drawn,
      Admitted
<1>10. ASSUME ContendForSlot(t) PROVE OperationRests(t)'
  BY <1>10, AfterRetry, AfterProbe, EntriesDiffer, GrantsAssumption, SMTT(20)
  DEF ContendForSlot, GiveUpStage, diskVars, answerVars, DiskShape, OpShape, AtASlot, Drawn,
      Admitted
<1>11. ASSUME SyncGrant(t) PROVE OperationRests(t)'
  BY <1>11, AfterRetry, AfterProbe, EntriesDiffer, GrantsAssumption, SMTT(20)
  DEF SyncGrant, diskVars, answerVars, DiskShape, OpShape, AtASlot, Drawn, Admitted
<1>12. ASSUME AnswerIssue(t) PROVE OperationRests(t)'
  BY <1>12, AfterRetry, AfterProbe, EntriesDiffer, GrantsAssumption, SMTT(20)
  DEF AnswerIssue, diskVars, answerVars, DiskShape, OpShape, AtASlot, Drawn, Admitted
<1>13. ASSUME NEW s \in Slots, StartConsume(t, s) PROVE OperationRests(t)'
  BY <1>13, AfterRetry, AfterProbe, EntriesDiffer, GrantsAssumption, SMTT(20)
  DEF StartConsume, Admitted, Drawing, diskVars, answerVars, DiskShape, OpShape, AtASlot,
      Drawn, Admitted
<1>14. ASSUME ClaimUsedStage(t) PROVE OperationRests(t)'
  BY <1>14, AfterRetry, AfterProbe, EntriesDiffer, GrantsAssumption, SMTT(20)
  DEF ClaimUsedStage, diskVars, answerVars, DiskShape, OpShape, AtASlot, Drawn, Admitted
<1>15. ASSUME LinkReceipt(t) PROVE OperationRests(t)'
  <2>1. op[t].pc = "use_link" /\ op[t].at \in Slots /\ op[t].at \in granted /\ used[op[t].at] # t
    BY <1>15 DEF LinkReceipt, OpShape, AtASlot
  <2>2. CASE End(t) BY <2>2
  <2>3. CASE At(t, "use_sync") /\ UNCHANGED used /\ used[op[t].at] # None
    <3>1. op'[t].pc = "use_sync" /\ op'[t].at = op[t].at BY <2>3
    <3>2. granted' = granted BY <1>15 DEF LinkReceipt, answerVars
    <3>. QED BY <2>1, <2>3, <3>1, <3>2
  <2>4. CASE At(t, "use_sync") /\ used[op[t].at] = None /\ used' = [used EXCEPT ![op[t].at] = t]
    <3>1. op'[t].pc = "use_sync" /\ op'[t].at = op[t].at BY <2>4
    <3>2. granted' = granted /\ spends' = spends BY <1>15 DEF LinkReceipt, answerVars
    <3>3. used'[op[t].at] = t /\ t # None BY <2>1, <2>4, GrantsAssumption DEF DiskShape
    <3>4. spends[op[t].at] = 0 BY <2>1, <2>4 DEF AnswersRest, DiskShape
    <3>. QED BY <2>1, <3>1, <3>2, <3>3, <3>4
  <2>. QED BY <1>15, <2>2, <2>3, <2>4 DEF LinkReceipt
<1>16. ASSUME SyncReceipt(t) PROVE OperationRests(t)'
  BY <1>16, AfterRetry, AfterProbe, EntriesDiffer, GrantsAssumption, SMTT(20)
  DEF SyncReceipt, diskVars, answerVars, DiskShape, OpShape, AtASlot, Drawn, Admitted
<1>17. ASSUME AnswerConsume(t) PROVE OperationRests(t)'
  BY <1>17, AfterRetry, AfterProbe, EntriesDiffer, GrantsAssumption, SMTT(20)
  DEF AnswerConsume, OwnReceipt, diskVars, answerVars, DiskShape, OpShape, AtASlot, Drawn,
      Admitted
<1>. QED
  BY <1>1, <1>2, <1>3, <1>4, <1>5, <1>6, <1>7, <1>8, <1>9, <1>10, <1>11, <1>12, <1>13,
      <1>14, <1>15, <1>16, <1>17
  DEF TaskStep, Initialize, IssueSteps, ConsumeSteps

\* Every step keeps what the answers and the operations rest on.
LEMMA DurableSteps ==
  ASSUME Typed, Durable, [GrantsNext]_grantVars
  PROVE  Durable'
<1>. USE DEF Typed
<1>1. ASSUME NEW t \in GrantTasks, TaskStep(t)
      PROVE  Durable'
  <2>1. Alone(t) /\ Gentle(t) BY <1>1, TaskSteps, TaskGentle
  <2>2. \A r \in GrantTasks : OperationRests(r)' BY <1>1, <2>1, TaskRests, OthersRest
  <2>3. CASE UNCHANGED answerVars BY <2>1, <2>2, <2>3, AnswersStay DEF Durable
  <2>4. CASE AnswerIssue(t)
    <3>1. granted' \subseteq granted \cup {op[t].at} /\ UNCHANGED <<slot, used, unsynced, spends>>
          /\ granted \subseteq granted'
      BY <2>4 DEF AnswerIssue, diskVars
    <3>2. GrantIsKept(op[t].at) BY <2>4 DEF AnswerIssue, Durable, OperationRests
    <3>. QED BY <2>2, <3>1, <3>2 DEF Durable, AnswersRest, GrantIsKept, ReceiptIsKept
  <2>5. CASE AnswerConsume(t)
    <3>. DEFINE s == op[t].at
    <3>1. op[t].pc = "use_read" /\ s \in Slots BY <2>5 DEF AnswerConsume, OpShape, AtASlot
    <3>2. UNCHANGED <<slot, used, unsynced, granted>> BY <2>5 DEF AnswerConsume
    <3>3. s \in granted /\ ReceiptIsKept(s) /\ (used[s] = t => spends[s] = 0)
      BY <3>1 DEF Durable, OperationRests, ReceiptIsKept, Consuming
    <3>4. \A r \in Slots :
            spends'[r] = spends[r] \/ (r = s /\ used[s] = t /\ spends'[r] = spends[s] + 1)
      BY <2>5, <3>1 DEF AnswerConsume, OwnReceipt, DiskShape
    <3>5. \A r \in Slots : spends'[r] > 0 => ReceiptIsKept(r) /\ r \in granted /\ spends'[r] = 1
      BY <3>3, <3>4 DEF Durable, AnswersRest, DiskShape
    <3>. QED BY <2>2, <3>2, <3>5 DEF Durable, AnswersRest, GrantIsKept, ReceiptIsKept
  <2>. QED BY <1>1, <2>3, <2>4, <2>5
       DEF TaskStep, Initialize, IssueSteps, ConsumeSteps, StartInitialize, HeaderClaim, HeaderLink,
           HeaderSync,
           HeaderRescan, StartIssue, ClaimGrantStage, StagedGrant, RenameGrant, ContendForSlot, SyncGrant,
           StartConsume, ClaimUsedStage, LinkReceipt, SyncReceipt
<1>2. ASSUME UNCHANGED <<slot, used, op, answerVars>>, unsynced' \subseteq unsynced PROVE Durable'
  BY <1>2 DEF Durable, AnswersRest, OperationRests, GrantIsKept, ReceiptIsKept, answerVars
<1>3. ASSUME NEW st \in Stores,
             StartRemediation(st) \/ RemoveStage(st) \/ FinishRemediation(st)
               \/ StartClose(st) \/ FinishClose(st) \/ Reopen(st)
      PROVE  Durable'
  BY <1>2, <1>3
  DEF StartRemediation, RemoveStage, FinishRemediation, StartClose, FinishClose, Reopen,
      diskVars
<1>4. ASSUME NEW gone, Die(gone), UNCHANGED answerVars, AnswersRest',
             \A t \in GrantTasks : Home[t] \notin gone => OperationRests(t)'
      PROVE  Durable'
  <2>1. \A t \in GrantTasks : Home[t] \in gone => op'[t].pc = "idle" BY <1>4 DEF Die, Idle
  <2>2. \A t \in GrantTasks : Home[t] \in gone => OperationRests(t)'
    BY <2>1 DEF OperationRests, Consuming
  <2>. QED BY <1>4, <2>2 DEF Durable
<1>5. ASSUME NEW st \in Stores, ProcessDies(st) PROVE Durable'
  <2>1. UNCHANGED <<slot, used, unsynced, spends, granted>> /\ Die({st})
    BY <1>5 DEF ProcessDies, Die, diskVars, answerVars
  <2>2. AnswersRest' BY <2>1 DEF Durable, AnswersRest, GrantIsKept, ReceiptIsKept
  <2>3. \A t \in GrantTasks : Home[t] \notin {st} => op'[t] = op[t] BY <2>1 DEF Die
  <2>4. \A t \in GrantTasks : Home[t] \notin {st} => OperationRests(t)'
    BY <2>1, <2>3 DEF Durable, OperationRests, GrantIsKept
  <2>. QED BY <1>4, <2>1, <2>2, <2>4 DEF answerVars
<1>6. ASSUME PowerFails PROVE Durable'
  <2>. PICK lost \in SUBSET unsynced :
        LET gone == {s \in Slots : SlotEntry(s) \in lost} IN
        /\ Die(Stores)
        /\ slot' = [s \in Slots |-> IF s \in gone THEN None ELSE slot[s]]
        /\ used' = [s \in Slots |-> IF s \in gone \/ UsedEntry(s) \in lost THEN None ELSE used[s]]
        /\ usedStages' = [s \in Slots |-> IF s \in gone THEN 0 ELSE usedStages[s]]
        /\ header' = (header /\ HeaderEntry \notin lost)
        /\ unsynced' = {}
        /\ UNCHANGED <<grantStages, headerStages>>
    BY <1>6 DEF PowerFails
  <2>1. UNCHANGED <<spends, granted>> BY DEF Die, answerVars
  <2>2. \A s \in granted : slot'[s] # None BY DEF Durable, AnswersRest, GrantIsKept, DiskShape
  <2>3. \A s \in Slots : spends[s] > 0 => used'[s] # None
    BY DEF Durable, AnswersRest, GrantIsKept, ReceiptIsKept
  <2>4. AnswersRest' BY <2>1, <2>2, <2>3 DEF Durable, AnswersRest, GrantIsKept, ReceiptIsKept
  <2>. QED BY <1>4, <2>1, <2>4, HomeTyped DEF answerVars
<1>7. CASE UNCHANGED grantVars BY <1>2, <1>7 DEF grantVars, diskVars
<1>. QED BY <1>1, <1>3, <1>5, <1>6, <1>7 DEF GrantsNext, TaskStep

\* It is an inductive invariant, beside the types.
LEMMA DurableHolds == GrantsSpec => []Durable
<1>1. GrantsInit => Durable
  BY DEF GrantsInit, Durable, AnswersRest, OperationRests, Idle, Consuming
<1>2. Typed /\ Durable /\ [GrantsNext]_grantVars => Durable'
  BY DurableSteps
<1>. QED BY <1>1, <1>2, TypedHolds, PTL DEF GrantsSpec

\* issueApplyGrant and consumeApplyGrant answer only once the root, or the slot,
\* is synced: no crash or loss of power takes back what was answered.
THEOREM AnswersStayDurable == GrantsSpec => []AnswersAreDurable
<1>1. Durable => AnswersAreDurable
  BY DEF Durable, AnswersRest, GrantIsKept, ReceiptIsKept, AnswersAreDurable
<1>. QED BY <1>1, DurableHolds, PTL

\* consumeApplyGrant: the store implements the abstract one-use grants, whatever
\* the number of stores, operations, slots and faults.
THEOREM OneUseOfAGrant == GrantsSpec => SingleUse
<1>1. GrantsInit => OneUse!OneUseInit
  BY DEF GrantsInit, OneUse!OneUseInit
<1>2. Typed /\ Durable /\ [GrantsNext]_grantVars => [OneUse!OneUseNext]_<<granted, spends>>
  <2>. SUFFICES ASSUME Typed, Durable, [GrantsNext]_grantVars
                PROVE  [OneUse!OneUseNext]_<<granted, spends>>
    OBVIOUS
  <2>. USE DEF Typed
  <2>1. ASSUME NEW t \in GrantTasks, AnswerIssue(t) PROVE [OneUse!OneUseNext]_<<granted, spends>>
    <3>1. op[t].at \in Slots BY <2>1 DEF AnswerIssue, OpShape, AtASlot
    <3>2. (granted' = granted \cup {op[t].at} \/ granted' = granted) /\ UNCHANGED spends
      BY <2>1 DEF AnswerIssue
    <3>. QED BY <3>1, <3>2 DEF OneUse!OneUseNext, OneUse!Issue
  <2>2. ASSUME NEW t \in GrantTasks, AnswerConsume(t) PROVE [OneUse!OneUseNext]_<<granted, spends>>
    <3>1. op[t].pc = "use_read" /\ op[t].at \in Slots
      BY <2>2 DEF AnswerConsume, OpShape, AtASlot
    <3>2. op[t].at \in granted /\ (used[op[t].at] = t => spends[op[t].at] = 0)
      BY <3>1 DEF Durable, OperationRests, Consuming
    <3>3. UNCHANGED granted BY <2>2 DEF AnswerConsume
    <3>4. \/ UNCHANGED spends
          \/ used[op[t].at] = t /\ spends' = [spends EXCEPT ![op[t].at] = @ + 1]
      BY <2>2 DEF AnswerConsume, OwnReceipt
    <3>5. CASE used[op[t].at] = t /\ spends' = [spends EXCEPT ![op[t].at] = @ + 1]
      <4>0. spends[op[t].at] + 1 = 1 BY <3>2, <3>5
      <4>1. spends' = [spends EXCEPT ![op[t].at] = 1] BY <3>5, <4>0, Zenon
      <4>. QED BY <3>1, <3>2, <3>3, <3>5, <4>1 DEF OneUse!OneUseNext, OneUse!Spend
    <3>. QED BY <3>3, <3>4, <3>5
  <2>3. UNCHANGED grantVars => UNCHANGED <<granted, spends>> BY DEF grantVars, answerVars
  <2>. QED BY <2>1, <2>2, <2>3
       DEF TaskStep, GrantsNext, Initialize, IssueSteps, ConsumeSteps, StartInitialize, HeaderClaim,
           HeaderLink,
           HeaderSync, HeaderRescan, StartIssue, ClaimGrantStage, StagedGrant, RenameGrant,
           ContendForSlot, SyncGrant, StartConsume, ClaimUsedStage, LinkReceipt, SyncReceipt,
           StartRemediation, RemoveStage, FinishRemediation, StartClose, FinishClose, Reopen,
           ProcessDies, PowerFails, Die, answerVars
<1>. QED BY <1>1, <1>2, TypedHolds, DurableHolds, PTL
DEF GrantsSpec, SingleUse, OneUse!OneUseSpec
-------------------------------------------------------------------------------
\* One operation at a time on a store object, as its callers in the program
\* have it: nobody else refreshes the view an issue picks its slots by.
OneOperationPerStore == \A t, r \in GrantTasks : Home[t] = Home[r] => t = r

Picking == {"issue_rename", "issue_contend"}

\* The slots an issue has passed over hold other ids; if its own id is in a
\* slot, every slot up to that one is taken, so the next it tries is too.
Picks(t) ==
  op[t].pc \in Picking =>
    /\ \A q \in Slots :
         q < op[t].at \/ q \in view[Home[t]] => slot[q] # None /\ slot[q] # op[t].id
    /\ \A r \in Slots : slot[r] = op[t].id => \A q \in Slots : q <= r => slot[q] # None
    /\ op[t].pc = "issue_contend" => slot[op[t].at] # None

IdsApart == ScanIsSound /\ \A t \in GrantTasks : Picks(t)

\* What a step of t does to the slots and to the views: it may fill the free
\* slot it is at, and refresh the view of its own store.
Fills(t) ==
  /\ op[t].pc = "issue_rename" /\ slot[op[t].at] = None
  /\ slot' = [slot EXCEPT ![op[t].at] = op[t].id]
  /\ op'[t].pc = "issue_sync"
OtherViews(t) == \A st \in Stores : st # Home[t] => view'[st] = view[st]

\* Every step of an operation does that and no more.
LEMMA TaskFills ==
  ASSUME OpShape, DiskShape, StoreShape, NEW t \in GrantTasks, TaskStep(t)
  PROVE  (UNCHANGED slot \/ Fills(t)) /\ OtherViews(t)
<1>1. UNCHANGED slot \/ Fills(t)
  <2>1. ASSUME RenameGrant(t), ~UNCHANGED slot PROVE Fills(t)
    BY <2>1, AfterAt DEF RenameGrant, Fills
  <2>. QED BY <2>1
       DEF TaskStep, Initialize, IssueSteps, ConsumeSteps, StartInitialize, HeaderClaim, HeaderLink,
           HeaderSync, HeaderRescan, StartIssue, ClaimGrantStage, StagedGrant, ContendForSlot,
           SyncGrant, AnswerIssue, StartConsume, ClaimUsedStage, LinkReceipt, SyncReceipt,
           AnswerConsume, diskVars
<1>2. UNCHANGED view \/ ScanFinds(Home[t])
  BY DEF TaskStep, Initialize, IssueSteps, ConsumeSteps, StartInitialize, HeaderClaim, HeaderLink,
         HeaderSync, HeaderRescan, StartIssue, ClaimGrantStage, StagedGrant, RenameGrant,
         ContendForSlot, SyncGrant, AnswerIssue, StartConsume, ClaimUsedStage, LinkReceipt,
         SyncReceipt, AnswerConsume
<1>3. ScanFinds(Home[t]) => OtherViews(t)
  BY DEF ScanFinds, OtherViews, StoreShape
<1>. QED BY <1>1, <1>2, <1>3 DEF OtherViews

\* The slot an issue fills was free, so no slot had its id.
LEMMA FillsApart ==
  ASSUME OpShape, DiskShape, IdsApart, NEW t \in GrantTasks, Fills(t)
  PROVE  \A r \in Slots : slot[r] # op[t].id
<1>1. op[t].at \in Slots /\ op[t].at \in Nat BY DEF Fills, OpShape, AtASlot, Slots
<1>2. Picks(t) /\ op[t].pc \in Picking BY DEF IdsApart, Fills, Picking
<1>3. ASSUME NEW r \in Slots, slot[r] = op[t].id PROVE FALSE
  <2>1. r \in Nat BY DEF Slots
  <2>2. ~(r < op[t].at) BY <1>2, <1>3 DEF Picks
  <2>3. slot[op[t].at] # None BY <1>1, <1>2, <1>3, <2>1, <2>2 DEF Picks
  <2>. QED BY <2>3 DEF Fills
<1>. QED BY <1>3

\* No two slots get the same id.
LEMMA ScanStaysSound ==
  ASSUME OpShape, DiskShape, IdsApart, NEW t \in GrantTasks, UNCHANGED slot \/ Fills(t)
  PROVE  ScanIsSound'
<1>1. CASE UNCHANGED slot BY <1>1 DEF IdsApart, ScanIsSound, Occupied
<1>2. CASE Fills(t)
  <2>1. op[t].at \in Slots BY <1>2 DEF Fills, OpShape, AtASlot
  <2>2. \A s \in Slots : slot'[s] = IF s = op[t].at THEN op[t].id ELSE slot[s]
    BY <1>2, <2>1 DEF Fills, DiskShape
  <2>. QED BY <1>2, <2>2, FillsApart DEF IdsApart, ScanIsSound, Occupied
<1>. QED BY <1>1, <1>2

\* The other issues stay apart from what t fills.
LEMMA OthersPick ==
  ASSUME OneOperationPerStore, OpShape, DiskShape, IdsApart, NEW t \in GrantTasks, Alone(t),
         UNCHANGED slot \/ Fills(t), OtherViews(t), NEW r \in GrantTasks \ {t}
  PROVE  Picks(r)'
<1>1. op'[r] = op[r] /\ view'[Home[r]] = view[Home[r]]
  BY HomeTyped DEF Alone, OtherViews, OneOperationPerStore
<1>2. Picks(r) /\ Picks(t) BY DEF IdsApart
<1>3. CASE UNCHANGED slot BY <1>1, <1>2, <1>3 DEF Picks
<1>4. CASE Fills(t) /\ op[r].pc \in Picking
  <2>1. op[t].at \in Slots /\ op[t].id \in Uuids /\ op[t].pc \in Picking
    BY <1>4 DEF Fills, OpShape, AtASlot, Drawn, Picking
  <2>2. \A s \in Slots : slot'[s] = IF s = op[t].at THEN op[t].id ELSE slot[s]
    BY <1>4, <2>1 DEF Fills, DiskShape
  <2>3. op[t].id # None BY <2>1, GrantsAssumption
  <2>4. \A s \in Slots : slot[s] # None => slot'[s] = slot[s] BY <1>4, <2>2 DEF Fills
  <2>5. \A q \in Slots : q <= op[t].at => slot'[q] # None
    BY <1>2, <2>1, <2>2, <2>3, <2>4 DEF Picks, Slots
  <2>6. \A s \in Slots :
          slot'[s] = op[r].id => \A q \in Slots : q <= s => slot'[q] # None
    BY <1>2, <1>4, <2>2, <2>4, <2>5 DEF Picks
  <2>7. \A q \in Slots :
          q < op[r].at \/ q \in view[Home[r]] => slot'[q] # None /\ slot'[q] # op[r].id
    BY <1>2, <1>4, <2>4 DEF Picks
  <2>8. op[r].pc = "issue_contend" => slot'[op[r].at] # None
    BY <1>2, <1>4, <2>4 DEF Picks, OpShape, AtASlot
  <2>. QED BY <1>1, <2>6, <2>7, <2>8 DEF Picks
<1>. QED BY <1>1, <1>3, <1>4 DEF Picks

\* Where a probe that found a slot leaves the issue: at the first slot it has
\* not tried.
LEMMA ProbeFinds ==
  ASSUME OpShape, NEW t \in GrantTasks, NEW from \in Nat, NEW seen, Probe(t, from, seen),
         op'[t].pc \in Picking
  PROVE  /\ op'[t].pc = "issue_rename" /\ op'[t].id = op[t].id
         /\ op'[t].at \in Slots /\ op'[t].at >= from /\ op'[t].at \notin seen
         /\ \A q \in Slots : from <= q /\ q < op'[t].at => q \in seen
<1>1. op[t] \in Operations BY DEF OpShape
<1>2. ~GiveUpStage(t) BY AfterEnd DEF GiveUpStage, Picking
<1>3. PICK s \in Untried(from, seen) :
        /\ \A r \in Untried(from, seen) : s <= r
        /\ op' = [op EXCEPT ![t].pc = "issue_rename", ![t].at = s]
  BY <1>2 DEF Probe
<1>4. op'[t] = [op[t] EXCEPT !.pc = "issue_rename", !.at = s] BY <1>3 DEF OpShape
<1>5. op'[t].pc = "issue_rename" /\ op'[t].id = op[t].id /\ op'[t].at = s
  BY <1>1, <1>4 DEF Operations
<1>6. s \in Slots /\ s \in Nat /\ s >= from /\ s \notin seen BY <1>3 DEF Untried, Slots
<1>7. ASSUME NEW q \in Slots, from <= q, q < s PROVE q \in seen
  <2>1. q \in Nat BY DEF Slots
  <2>2. q \notin Untried(from, seen) BY <1>3, <1>6, <1>7, <2>1
  <2>. QED BY <1>7, <2>1, <2>2 DEF Untried
<1>. QED BY <1>5, <1>6, <1>7

\* An issue that picks its first or its next slot, or finds its slot taken.
LEMMA OwnPick ==
  ASSUME OpShape, DiskShape, StoreShape, IdsApart, NEW t \in GrantTasks, TaskStep(t)
  PROVE  Picks(t)'
<1>. SUFFICES ASSUME op'[t].pc \in Picking PROVE Picks(t)'
  BY DEF Picks
<1>1. CASE StagedGrant(t)
  <2>1. ScanFinds(Home[t]) /\ ~Collides(t) /\ Probe(t, 0, Occupied) /\ UNCHANGED slot
    BY <1>1, AfterEnd, AfterRetry DEF StagedGrant, GiveUpStage, Picking
  <2>2. /\ op'[t].pc = "issue_rename" /\ op'[t].id = op[t].id /\ op'[t].at \in Slots
        /\ \A q \in Slots : 0 <= q /\ q < op'[t].at => q \in Occupied
    BY <2>1, ProbeFinds
  <2>3. view'[Home[t]] = Occupied BY <2>1, HomeTyped DEF ScanFinds, StoreShape
  <2>4. \A q \in Occupied : slot[q] # op[t].id BY <2>1 DEF Collides
  <2>5. op[t].id # None BY <1>1, GrantsAssumption DEF StagedGrant, OpShape, Drawn
  <2>6. \A q \in Slots : slot[q] # op[t].id BY <2>4, <2>5 DEF Occupied
  <2>7. \A q \in Slots : q < op'[t].at => slot[q] # None BY <2>2 DEF Occupied, Slots
  <2>. QED BY <2>1, <2>2, <2>3, <2>6, <2>7 DEF Picks, Occupied
<1>2. CASE RenameGrant(t)
  <2>1. ~GiveUpStage(t) /\ ~End(t) /\ ~At(t, "issue_sync")
    BY AfterEnd, AfterAt DEF GiveUpStage, Picking
  <2>2. At(t, "issue_contend") /\ slot[op[t].at] # None /\ UNCHANGED <<slot, view>>
    BY <1>2, <2>1 DEF RenameGrant
  <2>3. op'[t].pc = "issue_contend" /\ op'[t].at = op[t].at BY <2>2, AfterAt
  <2>4. op'[t].id = op[t].id
    <3>1. op[t] \in Operations /\ op'[t] = [op[t] EXCEPT !.pc = "issue_contend"]
      BY <2>2 DEF OpShape, At
    <3>. QED BY <3>1 DEF Operations
  <2>5. Picks(t) /\ op[t].pc \in Picking BY <1>2 DEF IdsApart, RenameGrant, Picking
  <2>. QED BY <2>2, <2>3, <2>4, <2>5 DEF Picks
<1>3. CASE ContendForSlot(t)
  <2>1. ~GiveUpStage(t) /\ ~End(t) /\ ~RetryUuid(t)
    BY AfterEnd, AfterRetry DEF GiveUpStage, Picking
  <2>2. /\ slot[op[t].at] # op[t].id /\ Probe(t, op[t].at + 1, view[Home[t]])
        /\ UNCHANGED <<slot, view>> /\ op[t].pc = "issue_contend"
    BY <1>3, <2>1 DEF ContendForSlot
  <2>3. op[t].at \in Slots /\ op[t].at \in Nat BY <2>2 DEF OpShape, AtASlot, Slots
  <2>4. /\ op'[t].pc = "issue_rename" /\ op'[t].id = op[t].id /\ op'[t].at \in Slots
        /\ \A q \in Slots : op[t].at + 1 <= q /\ q < op'[t].at => q \in view[Home[t]]
    BY <2>2, <2>3, ProbeFinds
  <2>5. Picks(t) /\ op[t].pc \in Picking BY <2>2 DEF IdsApart, Picking
  <2>6. \A q \in Slots : q < op'[t].at => q < op[t].at \/ q = op[t].at \/ q \in view[Home[t]]
    BY <2>3, <2>4 DEF Slots
  <2>. QED BY <2>2, <2>3, <2>4, <2>5, <2>6 DEF Picks
<1>4. CASE (\E s \in Slots : StartConsume(t, s)) \/ StartIssue(t)
  <2>1. op[t].pc = "idle" BY <1>4 DEF StartConsume, StartIssue, Admitted
  <2>2. op'[t].pc \notin Picking
    BY <1>4, <2>1 DEF StartConsume, StartIssue, OpShape, Picking, Drawing
  <2>. QED BY <2>2
<1>5. CASE Initialize(t) \/ ConsumeSteps(t) \/ ClaimGrantStage(t) \/ SyncGrant(t) \/ AnswerIssue(t)
  <2>1. op[t].pc = "idle" => op[t].pc \notin Picking BY DEF Picking
  <2>2. \/ End(t) \/ (UNCHANGED op /\ op[t].pc = "idle")
        \/ \E pc \in {"header_claim", "header_link", "header_sync", "header_rescan", "issue_staged",
                      "issue_scan", "use_link", "use_sync", "use_read"} : At(t, pc)
    BY <1>5
    DEF Initialize, ConsumeSteps, StartInitialize, HeaderClaim, HeaderLink, HeaderSync,
        HeaderRescan, ClaimGrantStage, SyncGrant, AnswerIssue, ClaimUsedStage, LinkReceipt,
        SyncReceipt, AnswerConsume, Admitted
  <2>. QED BY <2>1, <2>2, AfterEnd, AfterAt DEF Picking
<1>. QED BY <1>1, <1>2, <1>3, <1>4, <1>5 DEF TaskStep, IssueSteps

\* Every step keeps the ids apart.
LEMMA ApartSteps ==
  ASSUME OneOperationPerStore, Typed, IdsApart, [GrantsNext]_grantVars
  PROVE  IdsApart'
<1>. USE DEF Typed
<1>1. ASSUME NEW t \in GrantTasks, TaskStep(t) PROVE IdsApart'
  <2>1. Alone(t) /\ (UNCHANGED slot \/ Fills(t)) /\ OtherViews(t) BY <1>1, TaskSteps, TaskFills
  <2>2. ScanIsSound' BY <2>1, ScanStaysSound
  <2>3. Picks(t)' BY <1>1, OwnPick
  <2>4. \A r \in GrantTasks \ {t} : Picks(r)' BY <2>1, OthersPick
  <2>. QED BY <2>2, <2>3, <2>4 DEF IdsApart
<1>2. ASSUME UNCHANGED <<slot, view, op>> PROVE IdsApart'
  BY <1>2 DEF IdsApart, ScanIsSound, Occupied, Picks
<1>3. ASSUME NEW st \in Stores,
             StartRemediation(st) \/ RemoveStage(st) \/ FinishRemediation(st)
               \/ StartClose(st) \/ Reopen(st)
      PROVE  IdsApart'
  BY <1>2, <1>3
  DEF StartRemediation, RemoveStage, FinishRemediation, StartClose, Reopen, diskVars, storeVars
<1>4. ASSUME NEW st \in Stores, FinishClose(st) PROVE IdsApart'
  <2>1. UNCHANGED <<slot, op>> /\ InFlight(st) = {} /\ view' = [view EXCEPT ![st] = {}]
    BY <1>4 DEF FinishClose, diskVars
  <2>2. ScanIsSound' BY <2>1 DEF IdsApart, ScanIsSound, Occupied
  <2>3. ASSUME NEW t \in GrantTasks PROVE Picks(t)'
    <3>1. CASE Home[t] = st
      BY <2>1, <3>1 DEF InFlight, Picks, Picking
    <3>2. CASE Home[t] # st
      <4>1. view'[Home[t]] = view[Home[t]] BY <2>1, <3>2, HomeTyped DEF StoreShape
      <4>. QED BY <2>1, <4>1 DEF IdsApart, Picks
    <3>. QED BY <3>1, <3>2
  <2>. QED BY <2>2, <2>3 DEF IdsApart
<1>5. ASSUME NEW gone, Die(gone), NEW t \in GrantTasks, UNCHANGED slot \/ Home[t] \in gone
      PROVE  Picks(t)'
  <2>1. CASE Home[t] \in gone BY <1>5, <2>1 DEF Die, Idle, Picks, Picking
  <2>2. CASE Home[t] \notin gone
    <3>1. op'[t] = op[t] /\ view'[Home[t]] = view[Home[t]] BY <1>5, <2>2, HomeTyped DEF Die
    <3>. QED BY <1>5, <2>2, <3>1 DEF IdsApart, Picks
  <2>. QED BY <2>1, <2>2
<1>6. ASSUME NEW st \in Stores, ProcessDies(st) PROVE IdsApart'
  <2>1. UNCHANGED slot /\ Die({st}) BY <1>6 DEF ProcessDies, diskVars
  <2>. QED BY <1>5, <2>1 DEF IdsApart, ScanIsSound, Occupied
<1>7. ASSUME PowerFails PROVE IdsApart'
  <2>1. Die(Stores) /\ \A s \in Slots : slot'[s] \in {slot[s], None}
    BY <1>7 DEF PowerFails
  <2>2. ScanIsSound' BY <2>1 DEF IdsApart, ScanIsSound, Occupied
  <2>. QED BY <1>5, <2>1, <2>2, HomeTyped DEF IdsApart
<1>8. CASE UNCHANGED grantVars BY <1>2, <1>8 DEF grantVars, diskVars, storeVars
<1>. QED BY <1>1, <1>3, <1>4, <1>6, <1>7, <1>8 DEF GrantsNext, TaskStep

\* issueApplyGrant: with one operation at a time on a store object, two slots
\* never hold the same grant id, whatever UUIDs are drawn and however the issues
\* of different stores race for the slots: no store is condemned by a collision.
THEOREM GrantIdsStayUnique ==
  ASSUME OneOperationPerStore
  PROVE  GrantsSpec => []GrantIdsUnique
<1>1. GrantsInit => IdsApart
  BY DEF GrantsInit, IdsApart, ScanIsSound, Occupied, Picks, Idle, Picking
<1>2. Typed /\ IdsApart /\ [GrantsNext]_grantVars => IdsApart'
  BY ApartSteps
<1>3. IdsApart => GrantIdsUnique BY DEF IdsApart, GrantIdsUnique
<1>. QED BY <1>1, <1>2, <1>3, TypedHolds, PTL DEF GrantsSpec
===============================================================================
