------------------------- MODULE WaiterQueue_proofs --------------------------
(***************************************************************************)
(* Exclusion, and no stranded waiter, for any callers, capacity and limit. *)
(***************************************************************************)
EXTENDS WaiterQueue, FiniteSetTheorems, TLAPS

\* The three invariants are inductive together.
QueueInv == TypeOK /\ LeasesAreCounted /\ NobodyIsStranded

(***************************************************************************)
(* How the number of leases changes.                                       *)
(***************************************************************************)
\* The leases out are a finite number.
LEMMA LeasedFinite ==
  ASSUME TypeOK
  PROVE IsFiniteSet(Leased) /\ Cardinality(Leased) \in Nat
BY FS_Subset, FS_CardinalityType, CallersAssumption DEF Leased

\* One more caller with a lease is one more lease.
LEMMA OneMoreLease ==
  ASSUME TypeOK, NEW c \in Callers, call[c] # "leased",
         Leased' = Leased \union {c}
  PROVE Cardinality(Leased') = Cardinality(Leased) + 1
BY LeasedFinite, FS_AddElement DEF Leased

\* One caller less with a lease is one lease less.
LEMMA OneLessLease ==
  ASSUME TypeOK, NEW c \in Callers, call[c] = "leased",
         Leased' = Leased \ {c}
  PROVE Cardinality(Leased') = Cardinality(Leased) - 1
<1>1. c \in Leased /\ IsFiniteSet(Leased)
  BY LeasedFinite DEF Leased
<1> QED BY <1>1, FS_RemoveElement

\* A holder is counted.
LEMMA SomeLease ==
  ASSUME TypeOK, NEW c \in Callers, call[c] = "leased"
  PROVE Cardinality(Leased) - 1 \in Nat
<1>1. c \in Leased /\ IsFiniteSet(Leased)
  BY LeasedFinite DEF Leased
<1>2. IsFiniteSet(Leased \ {c}) /\ Cardinality(Leased \ {c}) = Cardinality(Leased) - 1
  BY <1>1, FS_RemoveElement
<1> QED BY <1>2, FS_CardinalityType

\* A lease that changes hands leaves their number alone.
LEMMA SameLeases ==
  ASSUME TypeOK, NEW c \in Callers, NEW d \in Callers,
         call[c] = "leased", call[d] # "leased",
         Leased' = (Leased \ {c}) \union {d}
  PROVE Cardinality(Leased') = Cardinality(Leased)
<1> DEFINE Kept == Leased \ {c}
<1>1. IsFiniteSet(Kept) /\ Cardinality(Kept) = Cardinality(Leased) - 1
  <2>1. c \in Leased /\ IsFiniteSet(Leased)
    BY LeasedFinite DEF Leased
  <2> QED BY <2>1, FS_RemoveElement
<1>2. d \notin Kept
  BY DEF Leased
<1>3. Cardinality(Kept \union {d}) = Cardinality(Kept) + 1
  BY <1>1, <1>2, FS_AddElement
<1>4. Cardinality(Leased) \in Nat
  BY LeasedFinite
<1> QED BY <1>1, <1>3, <1>4

(***************************************************************************)
(* What is left of the queue.                                              *)
(***************************************************************************)
\* The remainder after the n-th waiter, element by element.
LEMMA RestOfQueue ==
  ASSUME NEW q \in Seq(Callers), NEW n \in 1..Len(q)
  PROVE LET r == SubSeq(q, n + 1, Len(q)) IN
        /\ r \in Seq(Callers)
        /\ Len(r) = Len(q) - n
        /\ \A i \in 1..Len(r) : r[i] = q[n + i]
OBVIOUS

\* The queue with one waiter taken out, element by element.
LEMMA WithoutOne ==
  ASSUME NEW q \in Seq(Callers), NEW k \in 1..Len(q)
  PROVE LET r == RemoveAt(q, k) IN
        /\ r \in Seq(Callers)
        /\ Len(r) = Len(q) - 1
        /\ \A i \in 1..Len(r) : r[i] = IF i < k THEN q[i] ELSE q[i + 1]
<1> DEFINE a == SubSeq(q, 1, k - 1)
           b == SubSeq(q, k + 1, Len(q))
<1>0. Len(q) \in Nat /\ k \in Nat /\ k >= 1 /\ k <= Len(q)
  OBVIOUS
<1>1. a \in Seq(Callers) /\ Len(a) = k - 1 /\ \A i \in 1..(k - 1) : a[i] = q[i]
  OBVIOUS
<1>2. b \in Seq(Callers) /\ Len(b) = Len(q) - k
      /\ \A i \in 1..(Len(q) - k) : b[i] = q[k + i]
  OBVIOUS
<1>4. RemoveAt(q, k) = a \o b
  BY DEF RemoveAt
<1> HIDE DEF a, b
<1>3. a \o b \in Seq(Callers) /\ Len(a \o b) = Len(q) - 1
  <2>1. a \in Seq(Callers) /\ b \in Seq(Callers)
    BY <1>1, <1>2
  <2>2. a \o b \in Seq(Callers) /\ Len(a \o b) = Len(a) + Len(b)
    BY <2>1
  <2> QED BY <1>0, <1>1, <1>2, <2>2
<1>5. \A i \in 1..(Len(q) - 1) : i < k => (a \o b)[i] = q[i]
  BY <1>0, <1>1, <1>2
<1>6. \A i \in 1..(Len(q) - 1) : i >= k => (a \o b)[i] = q[i + 1]
  <2> SUFFICES ASSUME NEW i \in 1..(Len(q) - 1), i >= k
               PROVE (a \o b)[i] = q[i + 1]
    OBVIOUS
  <2>1. (a \o b)[i] = b[i - (k - 1)]
    BY <1>0, <1>1, <1>2
  <2>2. i - (k - 1) \in 1..(Len(q) - k) /\ k + (i - (k - 1)) = i + 1
    BY <1>0
  <2> QED BY <1>2, <2>1, <2>2
<1>7. \A i \in 1..(Len(q) - 1) :
        (a \o b)[i] = IF i < k THEN q[i] ELSE q[i + 1]
  <2> TAKE i \in 1..(Len(q) - 1)
  <2>1. i < k \/ i >= k
    BY <1>0
  <2> QED BY <2>1, <1>0, <1>5, <1>6
<1> QED BY <1>3, <1>4, <1>7

(***************************************************************************)
(* One step.                                                               *)
(***************************************************************************)
\* Every step keeps the types.
LEMMA TypeStep == QueueInv /\ [Next]_vars => TypeOK'
<1> SUFFICES ASSUME QueueInv, [Next]_vars PROVE TypeOK'
  OBVIOUS
<1>0. TypeOK /\ active = Cardinality(Leased)
  BY DEF QueueInv, LeasesAreCounted
<1> USE <1>0 DEF TypeOK, Stages
<1>1. ASSUME NEW c \in Callers, Return(c) PROVE TypeOK'
  BY <1>1 DEF Return
<1>2. ASSUME NEW c \in Callers, AcquireInactive(c) PROVE TypeOK'
  BY <1>2 DEF AcquireInactive
<1>3. ASSUME NEW c \in Callers, AcquireFree(c) PROVE TypeOK'
  BY <1>3 DEF AcquireFree
<1>4. ASSUME NEW c \in Callers, AcquireRefused(c) PROVE TypeOK'
  BY <1>4 DEF AcquireRefused
<1>5. ASSUME NEW c \in Callers, AcquireWaits(c) PROVE TypeOK'
  BY <1>5 DEF AcquireWaits
<1>6. ASSUME NEW c \in Callers, Deadline(c) PROVE TypeOK'
  BY <1>6 DEF Deadline
<1>7. ASSUME NEW c \in Callers, Leaves(c) PROVE TypeOK'
  <2>1. Without(c) \in Seq(Callers)
    <3>1. CASE c \in Queued
      <4>1. PICK k \in DOMAIN queue : k = CHOOSE i \in DOMAIN queue : queue[i] = c
        BY <3>1 DEF Queued
      <4>2. RemoveAt(queue, k) \in Seq(Callers)
        BY WithoutOne
      <4> QED BY <3>1, <4>1, <4>2 DEF Without
    <3>2. CASE c \notin Queued
      BY <3>2 DEF Without
    <3> QED BY <3>1, <3>2
  <2> QED BY <1>7, <2>1 DEF Leaves
<1>8. ASSUME NEW c \in Callers, Release(c) PROVE TypeOK'
  <2>1. CASE Free(c)
    <3>1. active' \in Nat
      <4>1. call[c] = "leased"
        BY <1>8 DEF Release
      <4>2. active - 1 \in Nat
        BY <4>1, SomeLease
      <4> QED BY <2>1, <4>2 DEF Free, Refuse
    <3> QED BY <2>1, <3>1 DEF Free, Refuse
  <2>2. ASSUME NEW n \in DOMAIN queue, HandOver(c, n) PROVE TypeOK'
    BY <2>2, RestOfQueue DEF HandOver, Refuse
  <2> QED BY <1>8, <2>1, <2>2 DEF Release
<1>9. CASE UNCHANGED vars
  BY <1>9 DEF vars
<1> QED
  BY <1>1, <1>2, <1>3, <1>4, <1>5, <1>6, <1>7, <1>8, <1>9
  DEF Next, Abort, TimerFires, ReleaseAgain

\* A caller that moves between stages without a lease or a place disturbs no one.
LEMMA Elsewhere ==
  ASSUME QueueInv, Leased' = Leased, Waiting' = Waiting, UNCHANGED <<active, queue>>
  PROVE LeasesAreCounted' /\ NobodyIsStranded'
BY DEF QueueInv, LeasesAreCounted, NobodyIsStranded, Queued

\* A free lease is only taken when nobody waits.
LEMMA FreeStep ==
  ASSUME QueueInv, NEW c \in Callers, AcquireFree(c)
  PROVE LeasesAreCounted' /\ NobodyIsStranded'
<1>1. TypeOK /\ queue = <<>> /\ active < Capacity /\ active = Cardinality(Leased)
  BY DEF QueueInv, AcquireFree, LeasesAreCounted, NobodyIsStranded, TypeOK
<1>2. Leased' = Leased \union {c} /\ Waiting' = Waiting /\ queue' = queue
  BY <1>1 DEF AcquireFree, Leased, Waiting, TypeOK
<1>3. Cardinality(Leased') = Cardinality(Leased) + 1
  BY <1>1, <1>2, OneMoreLease DEF AcquireFree
<1>4. LeasesAreCounted'
  BY <1>1, <1>3, LimitsAssumption DEF AcquireFree, LeasesAreCounted, TypeOK
<1>5. NobodyIsStranded'
  BY <1>1, <1>2 DEF QueueInv, NobodyIsStranded, Queued
<1> QED BY <1>4, <1>5

\* A newcomer joins at the end of the queue.
LEMMA WaitStep ==
  ASSUME QueueInv, NEW c \in Callers, AcquireWaits(c)
  PROVE LeasesAreCounted' /\ NobodyIsStranded'
<1>0. TypeOK /\ LeasesAreCounted /\ NobodyIsStranded /\ queue \in Seq(Callers)
  BY DEF QueueInv, TypeOK
<1>1. /\ Leased' = Leased /\ Waiting' = Waiting \union {c} /\ active' = active
      /\ c \notin Waiting /\ active >= Capacity
  BY <1>0 DEF AcquireWaits, Leased, Waiting, TypeOK
<1>2. /\ Len(queue') = Len(queue) + 1 /\ Len(queue) < MaxWaiters
      /\ \A i \in 1..Len(queue) : queue'[i] = queue[i]
      /\ queue'[Len(queue) + 1] = c
      /\ DOMAIN queue' = 1..(Len(queue) + 1) /\ DOMAIN queue = 1..Len(queue)
  BY <1>0 DEF AcquireWaits
<1>3. LeasesAreCounted'
  BY <1>0, <1>1 DEF LeasesAreCounted
<1>4. Queued' = Waiting'
  <2>1. Queued' = Queued \union {c}
    BY <1>0, <1>2 DEF Queued
  <2> QED BY <2>1, <1>0, <1>1 DEF NobodyIsStranded
<1>5. \A i, j \in DOMAIN queue' : queue'[i] = queue'[j] => i = j
  <2>1. \A i \in DOMAIN queue : queue[i] # c
    BY <1>0, <1>1 DEF NobodyIsStranded, Queued
  <2>2. \A i, j \in DOMAIN queue : queue[i] = queue[j] => i = j
    BY <1>0 DEF NobodyIsStranded
  <2>3. \A i \in DOMAIN queue' : i \in DOMAIN queue \/ i = Len(queue) + 1
    BY <1>0, <1>2
  <2> QED BY <2>1, <2>2, <2>3, <1>2
<1>6. active = Capacity /\ Len(queue') <= MaxWaiters
  BY <1>0, <1>1, <1>2, LimitsAssumption DEF LeasesAreCounted, TypeOK
<1> QED BY <1>1, <1>3, <1>4, <1>5, <1>6 DEF NobodyIsStranded

\* A waiter that gives up leaves the others in their places.
LEMMA LeaveStep ==
  ASSUME QueueInv, NEW c \in Callers, Leaves(c)
  PROVE LeasesAreCounted' /\ NobodyIsStranded'
<1>0. TypeOK /\ LeasesAreCounted /\ NobodyIsStranded /\ queue \in Seq(Callers)
  BY DEF QueueInv, TypeOK
<1>1. /\ Leased' = Leased /\ Waiting' = Waiting \ {c} /\ active' = active
      /\ c \in Waiting
  BY <1>0 DEF Leaves, Leased, Waiting, TypeOK
<1>2. PICK k \in DOMAIN queue : queue[k] = c /\ queue' = RemoveAt(queue, k)
  <2>1. c \in Queued
    BY <1>0, <1>1 DEF NobodyIsStranded
  <2>2. (CHOOSE i \in DOMAIN queue : queue[i] = c) \in DOMAIN queue
        /\ queue[CHOOSE i \in DOMAIN queue : queue[i] = c] = c
    BY <2>1 DEF Queued
  <2> QED BY <2>1, <2>2 DEF Leaves, Without
<1>3. /\ Len(queue') = Len(queue) - 1 /\ k \in 1..Len(queue) /\ Len(queue) \in Nat
      /\ \A i \in 1..Len(queue') : queue'[i] = IF i < k THEN queue[i] ELSE queue[i + 1]
      /\ DOMAIN queue' = 1..Len(queue') /\ DOMAIN queue = 1..Len(queue)
  BY <1>0, <1>2, WithoutOne
<1>4. LeasesAreCounted'
  BY <1>0, <1>1 DEF LeasesAreCounted
<1>5. \A i, j \in DOMAIN queue : queue[i] = queue[j] => i = j
  BY <1>0 DEF NobodyIsStranded
<1>6. \A i, j \in DOMAIN queue' : queue'[i] = queue'[j] => i = j
  <2> SUFFICES ASSUME NEW i \in DOMAIN queue', NEW j \in DOMAIN queue',
                      queue'[i] = queue'[j]
               PROVE i = j
    OBVIOUS
  <2> DEFINE from(x) == IF x < k THEN x ELSE x + 1
  <2>1. from(i) \in DOMAIN queue /\ from(j) \in DOMAIN queue
    BY <1>3
  <2>2. queue'[i] = queue[from(i)] /\ queue'[j] = queue[from(j)]
    BY <1>3
  <2>3. from(i) = from(j)
    BY <2>1, <2>2, <1>5
  <2> QED BY <2>3, <1>3
<1>7. Queued' = Queued \ {c}
  <2>1. ASSUME NEW i \in DOMAIN queue' PROVE queue'[i] \in Queued \ {c}
    <3> DEFINE x == IF i < k THEN i ELSE i + 1
    <3>1. x \in DOMAIN queue /\ x # k /\ queue'[i] = queue[x]
      BY <2>1, <1>3
    <3> HIDE DEF x
    <3> QED BY <3>1, <1>2, <1>5 DEF Queued
  <2>2. ASSUME NEW d \in Queued, d # c PROVE d \in Queued'
    <3>1. PICK x \in DOMAIN queue : queue[x] = d
      BY <2>2 DEF Queued
    <3>2. x # k
      BY <3>1, <1>2, <2>2
    <3> DEFINE i == IF x < k THEN x ELSE x - 1
    <3>3. i \in DOMAIN queue' /\ queue'[i] = queue[x]
      BY <3>1, <3>2, <1>3
    <3> HIDE DEF i
    <3> QED BY <3>1, <3>3 DEF Queued
  <2> QED BY <2>1, <2>2 DEF Queued
<1>8. Len(queue') <= MaxWaiters /\ (queue' # <<>> => queue # <<>>)
  BY <1>0, <1>3, LimitsAssumption DEF NobodyIsStranded
<1> QED BY <1>0, <1>1, <1>4, <1>6, <1>7, <1>8 DEF NobodyIsStranded

\* A release with every waiter past its deadline empties the queue.
LEMMA FreeStepOfRelease ==
  ASSUME QueueInv, NEW c \in Callers, call[c] = "leased", Free(c)
  PROVE LeasesAreCounted' /\ NobodyIsStranded'
<1>0. TypeOK /\ LeasesAreCounted /\ NobodyIsStranded
  BY DEF QueueInv
<1>1. Leased' = Leased \ {c} /\ Waiting' = {}
  <2>1. \A d \in Callers : d \in Queued <=> call[d] = "waiting"
    BY <1>0 DEF NobodyIsStranded, Waiting
  <2>2. \A d \in Callers :
          call'[d] = IF d \in Queued THEN "refused"
                     ELSE IF d = c THEN "released" ELSE call[d]
    BY <1>0 DEF Free, Refuse, TypeOK
  <2> QED BY <2>1, <2>2 DEF Leased, Waiting
<1>2. queue' = <<>> /\ active' = active - 1
  BY DEF Free
<1>3. LeasesAreCounted'
  <2>1. Cardinality(Leased') = Cardinality(Leased) - 1
    BY <1>0, <1>1, OneLessLease
  <2> QED BY <1>0, <1>2, <2>1, LimitsAssumption DEF LeasesAreCounted, TypeOK
<1>4. Queued' = {}
  BY <1>2 DEF Queued
<1>5. Len(queue') = 0 /\ DOMAIN queue' = {}
  BY <1>2
<1> QED BY <1>1, <1>2, <1>3, <1>4, <1>5, LimitsAssumption DEF NobodyIsStranded

\* A release to the n-th waiter serves it, refuses those before it, and leaves
\* the others in their places.
LEMMA HandOverStep ==
  ASSUME QueueInv, NEW c \in Callers, call[c] = "leased",
         NEW n \in DOMAIN queue, HandOver(c, n)
  PROVE LeasesAreCounted' /\ NobodyIsStranded'
<1>0. /\ TypeOK /\ LeasesAreCounted /\ NobodyIsStranded /\ queue \in Seq(Callers)
      /\ Len(queue) \in Nat /\ n \in 1..Len(queue) /\ DOMAIN queue = 1..Len(queue)
  BY DEF QueueInv, TypeOK
<1>1. \A i, j \in DOMAIN queue : queue[i] = queue[j] => i = j
  BY <1>0 DEF NobodyIsStranded
<1>2. \A i \in DOMAIN queue : queue[i] \in Waiting
  BY <1>0 DEF NobodyIsStranded, Queued
<1>3. /\ Len(queue') = Len(queue) - n
      /\ \A i \in 1..Len(queue') : queue'[i] = queue[n + i]
      /\ DOMAIN queue' = 1..Len(queue')
  BY <1>0, RestOfQueue DEF HandOver
<1> DEFINE Served == {queue[i] : i \in 1..n}
           Passed(d) == \E i \in 1..(n - 1) : d = queue[i]
<1>4. \A d \in Callers :
        call'[d] = IF Passed(d) THEN "refused"
                   ELSE IF d = queue[n] THEN "leased"
                   ELSE IF d = c THEN "released" ELSE call[d]
  <2>1. \A d : Passed(d) <=> d \in {queue[i] : i \in 1..(n - 1)}
    OBVIOUS
  <2> QED BY <1>0, <2>1 DEF HandOver, Refuse, TypeOK
<1>5. \A d \in Callers : d \in Served <=> d = queue[n] \/ Passed(d)
  BY <1>0
<1>6. queue[n] \in Waiting /\ \A d : Passed(d) => d \in Waiting
  BY <1>0, <1>2
<1>7. \A d : Passed(d) => d # queue[n]
  BY <1>0, <1>1
<1> HIDE DEF Served, Passed
<1>8. Leased' = (Leased \ {c}) \union {queue[n]}
  BY <1>4, <1>6, <1>7 DEF Leased, Waiting
<1>9. Waiting' = Waiting \ Served
  BY <1>4, <1>5, <1>6 DEF Waiting
<1>10. LeasesAreCounted'
  <2>1. queue[n] \in Callers /\ call[queue[n]] # "leased"
    BY <1>6 DEF Waiting
  <2>2. Cardinality(Leased') = Cardinality(Leased)
    BY <1>0, <1>8, <2>1, SameLeases
  <2> QED BY <1>0, <2>2 DEF LeasesAreCounted, HandOver
<1>11. Queued' = Queued \ Served
  <2>1. ASSUME NEW i \in DOMAIN queue' PROVE queue'[i] \in Queued \ Served
    <3>1. n + i \in DOMAIN queue /\ queue'[i] = queue[n + i] /\ n + i \notin 1..n
      BY <2>1, <1>0, <1>3
    <3>2. queue[n + i] \notin Served
      BY <3>1, <1>0, <1>1 DEF Served
    <3> QED BY <3>1, <3>2 DEF Queued
  <2>2. ASSUME NEW d \in Queued, d \notin Served PROVE d \in Queued'
    <3>1. PICK x \in DOMAIN queue : queue[x] = d
      BY <2>2 DEF Queued
    <3>2. x > n
      BY <3>1, <2>2, <1>0 DEF Served
    <3>3. x - n \in DOMAIN queue' /\ queue'[x - n] = queue[n + (x - n)]
      BY <3>1, <3>2, <1>0, <1>3
    <3>4. n + (x - n) = x
      BY <3>1, <1>0
    <3> QED BY <3>1, <3>3, <3>4 DEF Queued
  <2> QED BY <2>1, <2>2 DEF Queued
<1>12. \A i, j \in DOMAIN queue' : queue'[i] = queue'[j] => i = j
  <2> SUFFICES ASSUME NEW i \in DOMAIN queue', NEW j \in DOMAIN queue',
                      queue'[i] = queue'[j]
               PROVE i = j
    OBVIOUS
  <2>1. n + i \in DOMAIN queue /\ n + j \in DOMAIN queue
        /\ queue[n + i] = queue[n + j]
    BY <1>0, <1>3
  <2>2. n + i = n + j
    BY <2>1, <1>1
  <2> QED BY <2>2, <1>0, <1>3
<1>13. Len(queue') <= MaxWaiters
  BY <1>0, <1>3, LimitsAssumption DEF NobodyIsStranded
<1>14. active' = Capacity
  <2>1. queue # <<>>
    BY <1>0
  <2> QED BY <1>0, <2>1 DEF NobodyIsStranded, HandOver
<1> QED BY <1>0, <1>9, <1>10, <1>11, <1>12, <1>13, <1>14 DEF NobodyIsStranded

\* Every step keeps the invariant.
LEMMA QueueStep == QueueInv /\ [Next]_vars => QueueInv'
<1> SUFFICES ASSUME QueueInv, [Next]_vars
             PROVE LeasesAreCounted' /\ NobodyIsStranded'
  BY TypeStep DEF QueueInv
<1> DEFINE Kept == LeasesAreCounted' /\ NobodyIsStranded'
<1>0. TypeOK
  BY DEF QueueInv
<1>1. ASSUME NEW c \in Callers,
             Return(c) \/ AcquireInactive(c) \/ AcquireRefused(c) \/ Deadline(c)
      PROVE Kept
  <2>1. /\ Leased' = Leased /\ Waiting' = Waiting
        /\ UNCHANGED <<active, queue>>
    BY <1>0, <1>1 DEF Return, AcquireInactive, AcquireRefused, Deadline, Leased,
                     Waiting, TypeOK
  <2> QED BY <2>1, Elsewhere
<1>2. ASSUME NEW c \in Callers, Abort(c) \/ TimerFires(c) PROVE Kept
  BY <1>2, LeaveStep DEF Abort, TimerFires
<1>3. ASSUME NEW c \in Callers, Release(c) PROVE Kept
  BY <1>3, FreeStepOfRelease, HandOverStep DEF Release
<1>4. CASE UNCHANGED vars
  <2>1. Leased' = Leased /\ Waiting' = Waiting /\ UNCHANGED <<active, queue>>
    BY <1>4 DEF vars, Leased, Waiting
  <2> QED BY <2>1, Elsewhere
<1> QED
  BY <1>1, <1>2, <1>3, <1>4, FreeStep, WaitStep DEF Next, ReleaseAgain

\* The queue starts empty, with no lease out.
LEMMA QueueInit == Init => QueueInv
<1> SUFFICES ASSUME Init PROVE QueueInv
  OBVIOUS
<1>1. TypeOK
  BY DEF Init, TypeOK, Stages
<1>2. Leased = {} /\ Waiting = {} /\ Queued = {} /\ Len(queue) = 0
  BY DEF Init, Leased, Waiting, Queued
<1>3. LeasesAreCounted
  BY <1>2, FS_EmptySet, LimitsAssumption DEF Init, LeasesAreCounted
<1>4. NobodyIsStranded
  BY <1>2, LimitsAssumption DEF Init, NobodyIsStranded
<1> QED BY <1>1, <1>3, <1>4 DEF QueueInv

\* The three invariants hold in every behaviour.
THEOREM QueueCorrect == Spec => []QueueInv
BY QueueInit, QueueStep, PTL DEF Spec

\* Types: leases are a count, and the queue holds callers (acquire, release).
THEOREM QueueTypes == Spec => []TypeOK
<1>1. QueueInv => TypeOK
  BY DEF QueueInv
<1> QED BY <1>1, QueueCorrect, PTL

\* Exclusion: with a capacity of one, the mutation lock never has two holders.
THEOREM Exclusion == Spec => []LeasesAreCounted
<1>1. QueueInv => LeasesAreCounted
  BY DEF QueueInv
<1> QED BY <1>1, QueueCorrect, PTL

\* A waiter is always queued behind leases that are still to be released.
THEOREM NoStrandedWaiter == Spec => []NobodyIsStranded
<1>1. QueueInv => NobodyIsStranded
  BY DEF QueueInv
<1> QED BY <1>1, QueueCorrect, PTL

(***************************************************************************)
(* The order of leases.                                                    *)
(***************************************************************************)
\* A new lease is the free one, or one handed over by a release.
LEMMA NewLease ==
  ASSUME TypeOK, [Next]_vars, NEW d \in Leased' \ Leased
  PROVE \/ AcquireFree(d)
        \/ \E c \in Callers, n \in DOMAIN queue : HandOver(c, n)
<1> USE DEF TypeOK
<1>0. d \in Callers /\ call'[d] = "leased" /\ call[d] # "leased"
  BY DEF Leased
<1>1. ASSUME NEW c \in Callers, Return(c) PROVE FALSE
  BY <1>0, <1>1 DEF Return
<1>2. ASSUME NEW c \in Callers, AcquireInactive(c) PROVE FALSE
  BY <1>0, <1>2 DEF AcquireInactive
<1>3. ASSUME NEW c \in Callers, AcquireFree(c) PROVE c = d
  BY <1>0, <1>3 DEF AcquireFree
<1>4. ASSUME NEW c \in Callers, AcquireRefused(c) PROVE FALSE
  BY <1>0, <1>4 DEF AcquireRefused
<1>5. ASSUME NEW c \in Callers, AcquireWaits(c) PROVE FALSE
  BY <1>0, <1>5 DEF AcquireWaits
<1>6. ASSUME NEW c \in Callers, Deadline(c) PROVE FALSE
  BY <1>0, <1>6 DEF Deadline
<1>7. ASSUME NEW c \in Callers, Leaves(c) PROVE FALSE
  BY <1>0, <1>7 DEF Leaves
<1>8. ASSUME NEW c \in Callers, Free(c) PROVE FALSE
  BY <1>0, <1>8 DEF Free, Refuse
<1>9. CASE UNCHANGED vars
  BY <1>0, <1>9 DEF vars
<1> QED
  BY <1>1, <1>2, <1>3, <1>4, <1>5, <1>6, <1>7, <1>8, <1>9
  DEF Next, Abort, TimerFires, Release, ReleaseAgain

\* Nobody is overtaken, and nobody is served past its deadline.
THEOREM OrderedLeases == Spec => LeasesInOrder
<1> DEFINE InOrder ==
      \A d \in Leased' \ Leased :
        /\ ~(d \in Waiting /\ d \in expired)
        /\ \A c \in Waiting : Earlier(c, d) => c \notin Waiting'
<1>1. QueueInv /\ [Next]_vars => InOrder
  <2> SUFFICES ASSUME QueueInv, [Next]_vars, NEW d \in Leased' \ Leased
               PROVE /\ ~(d \in Waiting /\ d \in expired)
                     /\ \A c \in Waiting : Earlier(c, d) => c \notin Waiting'
    OBVIOUS
  <2>0. TypeOK /\ NobodyIsStranded /\ LeasesAreCounted
    BY DEF QueueInv
  <2>1. CASE AcquireFree(d)
    <3>1. queue = <<>>
      BY <2>0, <2>1 DEF AcquireFree, NobodyIsStranded, LeasesAreCounted, TypeOK
    <3>2. Waiting = {}
      BY <2>0, <3>1 DEF NobodyIsStranded, Queued
    <3> QED BY <3>2
  <2>2. ASSUME NEW b \in Callers, NEW n \in DOMAIN queue, HandOver(b, n)
        PROVE /\ ~(d \in Waiting /\ d \in expired)
              /\ \A c \in Waiting : Earlier(c, d) => c \notin Waiting'
    <3>1. d = queue[n] /\ d \notin expired
      BY <2>0, <2>2 DEF HandOver, Refuse, Leased, TypeOK
    <3>2. ASSUME NEW c \in Waiting, Earlier(c, d) PROVE c \notin Waiting'
      <4>1. PICK i \in DOMAIN queue : queue[i] = c /\ i < n
        BY <3>1, <3>2 DEF Earlier
      <4>2. i \in 1..(n - 1)
        BY <4>1, <2>0 DEF TypeOK
      <4> QED BY <4>1, <4>2, <2>2 DEF HandOver, Refuse, Waiting
    <3> QED BY <3>1, <3>2
  <2> QED BY <2>0, <2>1, <2>2, NewLease
<1> QED BY <1>1, QueueCorrect, PTL DEF Spec, LeasesInOrder
===============================================================================
