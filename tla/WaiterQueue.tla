------------------------------ MODULE WaiterQueue ------------------------------
(***************************************************************************)
(* The bounded first-come queue that the mutation lock and the helper pool *)
(* share: Phase3ResourceLocks is the queue with Capacity = 1 (its `held' is *)
(* active = 1), NativePhase3AtomicApply the one with Capacity =             *)
(* maxConcurrent.  The program is one thread: each callback (an acquire, a  *)
(* release, an abort event, a timer) is one step.  A deadline passes before *)
(* the timer that watches it fires, and a release may come in between.      *)
(***************************************************************************)
EXTENDS Naturals, FiniteSets, SequencesExt

CONSTANTS
  Callers,     \* concurrent calls, each with a context of its own
  Capacity,    \* leases out at once
  MaxWaiters   \* waiters the queue admits

ASSUME CallersAssumption == IsFiniteSet(Callers)
ASSUME LimitsAssumption == Capacity \in Nat \ {0} /\ MaxWaiters \in Nat

VARIABLES
  active,   \* leases out, as the queue counts them
  queue,    \* the waiters, oldest first
  call,     \* what each call is at
  expired   \* the calls whose deadline has passed

vars == <<active, queue, call, expired>>

Stages == {"new", "waiting", "leased", "released", "refused"}

\* The types of the variables.
TypeOK ==
  /\ active \in Nat
  /\ queue \in Seq(Callers)
  /\ call \in [Callers -> Stages]
  /\ expired \subseteq Callers

Init ==
  /\ active = 0
  /\ queue = <<>>
  /\ call = [c \in Callers |-> "new"]
  /\ expired = {}

Queued == {queue[i] : i \in DOMAIN queue}
Waiting == {c \in Callers : call[c] = "waiting"}
Leased == {c \in Callers : call[c] = "leased"}

\* A call is over before its caller makes another, with a fresh context.
Return(c) ==
  /\ call[c] \in {"released", "refused"}
  /\ call' = [call EXCEPT ![c] = "new"]
  /\ expired' = expired \ {c}
  /\ UNCHANGED <<active, queue>>

\* A context that is cancelled or past its deadline is refused first.
AcquireInactive(c) ==
  /\ call[c] = "new"
  /\ call' = [call EXCEPT ![c] = "refused"]
  /\ UNCHANGED <<active, queue, expired>>

AcquireFree(c) ==
  /\ call[c] = "new" /\ c \notin expired
  /\ active < Capacity
  /\ active' = active + 1
  /\ call' = [call EXCEPT ![c] = "leased"]
  /\ UNCHANGED <<queue, expired>>

\* max_waiters_exceeded, or queue_full.
AcquireRefused(c) ==
  /\ call[c] = "new" /\ c \notin expired
  /\ active >= Capacity
  /\ Len(queue) >= MaxWaiters
  /\ call' = [call EXCEPT ![c] = "refused"]
  /\ UNCHANGED <<active, queue, expired>>

AcquireWaits(c) ==
  /\ call[c] = "new" /\ c \notin expired
  /\ active >= Capacity
  /\ Len(queue) < MaxWaiters
  /\ queue' = Append(queue, c)
  /\ call' = [call EXCEPT ![c] = "waiting"]
  /\ UNCHANGED <<active, expired>>

Deadline(c) ==
  /\ call[c] \in {"new", "waiting"} /\ c \notin expired
  /\ expired' = expired \union {c}
  /\ UNCHANGED <<active, queue, call>>

\* Mutant: removeWaiter drops the newest waiter instead of the one that leaves.
WithoutNewest(c) == SubSeq(queue, 1, Len(queue) - 1)

Without(c) ==
  IF c \in Queued THEN RemoveAt(queue, CHOOSE i \in DOMAIN queue : queue[i] = c)
                  ELSE queue

\* An abort, or the timer of a deadline that has passed, ends the wait.
Leaves(c) ==
  /\ call[c] = "waiting"
  /\ queue' = Without(c)
  /\ call' = [call EXCEPT ![c] = "refused"]
  /\ UNCHANGED <<active, expired>>

Abort(c) == Leaves(c)
TimerFires(c) == c \in expired /\ Leaves(c)

Refuse(late, f) == [c \in Callers |-> IF c \in late THEN "refused" ELSE f[c]]

\* Mutant: the lease goes to the newest waiter within its deadline.
HandOverNewest(c, n) ==
  /\ queue[n] \notin expired
  /\ \A i \in DOMAIN queue : i > n => queue[i] \in expired
  /\ queue' = SubSeq(queue, 1, n - 1)
  /\ call' = Refuse({queue[i] : i \in (n + 1)..Len(queue)},
                     [call EXCEPT ![c] = "released", ![queue[n]] = "leased"])
  /\ UNCHANGED <<active, expired>>

\* Mutant: the lease is given back and then handed over, uncounted.
HandOverUncounted(c, n) ==
  /\ queue[n] \notin expired
  /\ \A i \in 1..(n - 1) : queue[i] \in expired
  /\ queue' = SubSeq(queue, n + 1, Len(queue))
  /\ active' = active - 1
  /\ call' = Refuse({queue[i] : i \in 1..(n - 1)},
                     [call EXCEPT ![c] = "released", ![queue[n]] = "leased"])
  /\ UNCHANGED expired

\* The oldest waiter still within its deadline gets the lease, and the ones
\* before it are refused.
HandOver(c, n) ==
  /\ queue[n] \notin expired
  /\ \A i \in 1..(n - 1) : queue[i] \in expired
  /\ queue' = SubSeq(queue, n + 1, Len(queue))
  /\ call' = Refuse({queue[i] : i \in 1..(n - 1)},
                     [call EXCEPT ![c] = "released", ![queue[n]] = "leased"])
  /\ UNCHANGED <<active, expired>>

\* Mutant: the lease is freed without waking anyone.
FreeWakesNobody(c) ==
  /\ active' = active - 1
  /\ call' = [call EXCEPT ![c] = "released"]
  /\ UNCHANGED <<queue, expired>>

\* With nobody left who is within its deadline, the lease is free.
Free(c) ==
  /\ Queued \subseteq expired
  /\ queue' = <<>>
  /\ active' = active - 1
  /\ call' = Refuse(Queued, [call EXCEPT ![c] = "released"])
  /\ UNCHANGED expired

Release(c) ==
  /\ call[c] = "leased"
  /\ Free(c) \/ \E n \in DOMAIN queue : HandOver(c, n)

\* Mutant: release is not idempotent.
ReleasesTwice(c) ==
  /\ call[c] = "released"
  /\ Free(c) \/ \E n \in DOMAIN queue : HandOver(c, n)

\* A lease released before is spent: its release does nothing.
ReleaseAgain(c) == call[c] = "released" /\ UNCHANGED vars

Next ==
  \E c \in Callers :
    \/ Return(c) \/ AcquireInactive(c) \/ AcquireFree(c) \/ AcquireRefused(c)
    \/ AcquireWaits(c) \/ Deadline(c) \/ Abort(c) \/ TimerFires(c)
    \/ Release(c) \/ ReleaseAgain(c)

Spec == Init /\ [][Next]_vars

\* Every holder releases, in the `finally' of its apply, recovery or replace;
\* nothing is assumed of aborts, deadlines or timers.
FairSpec == Spec /\ \A c \in Callers : WF_vars(Release(c))

-------------------------------------------------------------------------------
\* Exclusion: the queue's count is the number of leases out, at most Capacity,
\* whatever releases, aborts, timers and repeated releases meet on one waiter
\* (release, lease).
LeasesAreCounted == active = Cardinality(Leased) /\ active <= Capacity

\* No waiter is stranded: those queued are those waiting, each once and within
\* the limit, and with a waiter queued every lease is out, so that a release is
\* still to come (acquireQueue, removeWaiter, release).
NobodyIsStranded ==
  /\ Queued = Waiting
  /\ \A i, j \in DOMAIN queue : queue[i] = queue[j] => i = j
  /\ Len(queue) <= MaxWaiters
  /\ queue # <<>> => active = Capacity

\* No barging: a lease never goes to a newcomer, or to a younger waiter, past
\* one that is still waiting afterwards, nor to a waiter past its deadline.
Earlier(c, d) ==
  \E i \in DOMAIN queue :
    /\ queue[i] = c
    /\ \A j \in DOMAIN queue : queue[j] = d => i < j
LeasesInOrder ==
  [][\A d \in Leased' \ Leased :
       /\ ~(d \in Waiting /\ d \in expired)
       /\ \A c \in Waiting : Earlier(c, d) => c \notin Waiting']_vars

\* Every wait ends, in a lease or a refusal, as long as holders release.
EveryWaitEnds == \A c \in Callers : call[c] = "waiting" ~> call[c] # "waiting"
===============================================================================
