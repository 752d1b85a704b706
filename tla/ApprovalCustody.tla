---------------------------- MODULE ApprovalCustody ----------------------------
(***************************************************************************)
(* Exclusive custody of the approval root (approvalCustody.ts and            *)
(* native/approval-custody.c): a call that wants the root to itself spawns a *)
(* helper, which takes an flock on the root, says so on its stdout, and gives *)
(* it up when its stdin tells it to, or ends.  The controller makes a promise *)
(* of that: a lease, and the outcome of its release.                         *)
(*                                                                         *)
(* The helper may die or stall at any point, and what the controller learns   *)
(* of it comes late and piecemeal: data on a pipe, exit, close, errors.  Only  *)
(* timers are sure to fire.                                                  *)
(***************************************************************************)
EXTENDS FiniteSets, Naturals

CONSTANTS
  Keepers,   \* calls that want custody of the root
  LiveLimit  \* helpers at a time (providerLive, moduleLive)

ASSUME CustodyAssumption == LiveLimit \in Nat \ {0}

VARIABLES
  caller,       \* where each call is: its acquire, its lease, its release
  child,        \* the controller's state of the helper
  helper,       \* the helper itself: "clean" when it exited with 0
  frame,        \* its ready frame: sent, being validated, or done with
  timers,       \* operationTimer, graceTimer
  terminating,  \* terminationStarted
  failed,       \* spawnFailed, timedOut or any of the other failure flags
  lost,         \* holderLost
  unproved,     \* pendingReleaseError
  control,      \* controlSent
  charged,      \* calls that have a slot
  shared        \* leases during which another helper had the lock (history)

controllerVars == <<timers, terminating, failed, lost, unproved, control>>
custodyVars == <<caller, child, helper, frame, controllerVars, charged, shared>>

\* The types of the variables.
CustodyTypeOK ==
  /\ caller \in [Keepers -> {"idle", "preflight", "refused", "acquiring", "leased",
                             "releasing", "released", "rejected"}]
  /\ child \in [Keepers -> {"none", "running", "exited", "closed"}]
  /\ helper \in [Keepers -> {"none", "starting", "locked", "reported", "dead", "clean"}]
  /\ frame \in [Keepers -> {"none", "sent", "checking", "over"}]
  /\ timers \in [Keepers -> SUBSET {"operation", "grace"}]
  /\ terminating \subseteq Keepers /\ failed \subseteq Keepers /\ lost \subseteq Keepers
  /\ unproved \subseteq Keepers /\ control \subseteq Keepers
  /\ charged \subseteq Keepers /\ Cardinality(charged) <= LiveLimit
  /\ shared \subseteq Keepers

CustodyInit ==
  /\ caller = [c \in Keepers |-> "idle"]
  /\ child = [c \in Keepers |-> "none"]
  /\ helper = [c \in Keepers |-> "none"]
  /\ frame = [c \in Keepers |-> "none"]
  /\ timers = [c \in Keepers |-> {}]
  /\ terminating = {} /\ failed = {} /\ lost = {} /\ unproved = {} /\ control = {}
  /\ charged = {} /\ shared = {}

-------------------------------------------------------------------------------
Answered(c) == caller[c] \in {"refused", "released", "rejected"}
Detached(c) == Answered(c) \/ c \in unproved
HasLock(c) == helper[c] \in {"locked", "reported"}
CallGoes(c, where) == caller' = [caller EXCEPT ![c] = where]
SetTimers(c, which) == timers' = [timers EXCEPT ![c] = which]

\* signalRunning: a signal to a child that runs may not go through.
Unkilled(c) == IF child[c] = "running" /\ helper[c] # "none" THEN {failed \cup {c}} ELSE {}

\* startTermination: once, and only while there is something to wait for.
CanTerminate(c) == ~Answered(c) /\ child[c] # "closed" /\ c \notin terminating
Terminate(c, fails) ==
  /\ terminating' = terminating \cup {c}
  /\ SetTimers(c, {"grace"})
  /\ failed' \in {failed \cup fails} \cup Unkilled(c)

\* A failure flag is raised: protocol, stdin, spawn.
Fail(c) ==
  IF CanTerminate(c)
  THEN Terminate(c, {c})
  ELSE failed' = failed \cup {c} /\ UNCHANGED <<timers, terminating>>

-------------------------------------------------------------------------------
(* Acquire *)

StartAcquire(c) ==
  /\ caller[c] = "idle"
  /\ CallGoes(c, "preflight")
  /\ UNCHANGED <<child, helper, frame, controllerVars, charged>>

\* The checks before the spawn, or the spawn itself, fail; or every slot is
\* taken.  No slot is charged for it.
AcquireRefused(c) ==
  /\ caller[c] = "preflight"
  /\ CallGoes(c, "refused")
  /\ UNCHANGED <<child, helper, frame, controllerVars, charged>>

\* A helper, or a child without a pid, which is given up at once.
SpawnHelper(c) ==
  /\ caller[c] = "preflight" /\ Cardinality(charged) < LiveLimit
  /\ charged' = charged \cup {c}
  /\ CallGoes(c, "acquiring")
  /\ child' = [child EXCEPT ![c] = "running"]
  /\ \/ /\ helper' = [helper EXCEPT ![c] = "starting"]
        /\ SetTimers(c, {"operation"})
        /\ UNCHANGED <<terminating, failed>>
     \/ /\ SetTimers(c, {"grace"})
        /\ terminating' = terminating \cup {c} /\ failed' = failed \cup {c}
        /\ UNCHANGED helper
  /\ UNCHANGED <<frame, lost, unproved, control>>

\* onStdout: the ready frame, which is checked against the root and the helper
\* as they are now.
OnReady(c) ==
  /\ frame[c] = "sent" /\ ~Detached(c)
  /\ frame' = [frame EXCEPT ![c] = "checking"]
  /\ UNCHANGED <<caller, child, helper, controllerVars, charged>>

\* Nothing has happened while the checks were awaited.
Acquirable(c) ==
  caller[c] = "acquiring" /\ child[c] = "running" /\ c \notin terminating \cup failed

\* completeReady: a lease; or nothing, and the operation timer goes on; or the
\* checks fail, or are not in time.
CompleteReady(c) ==
  /\ frame[c] = "checking"
  /\ frame' = [frame EXCEPT ![c] = "over"]
  /\ \/ /\ Acquirable(c)
        /\ CallGoes(c, "leased") /\ SetTimers(c, {})
        /\ UNCHANGED <<terminating, failed>>
     \/ UNCHANGED <<caller, timers, terminating, failed>>
     \/ /\ ~Answered(c) /\ Fail(c) /\ UNCHANGED caller
     \/ /\ CanTerminate(c)
        /\ Terminate(c, IF child[c] = "running" THEN {c} ELSE {})
        /\ UNCHANGED caller
  /\ UNCHANGED <<child, helper, lost, unproved, control, charged>>

-------------------------------------------------------------------------------
(* Release *)

\* Mutant: how the helper ended is not looked at.
ReleasedUnlessFailed(c) == c \notin failed \cup lost

\* finishReleaseFromClose: custody was kept to the end, as far as one can tell.
ReleasedWell(c) == c \notin failed \cup lost /\ c \in control /\ helper[c] = "clean"

FinishRelease(c) ==
  /\ CallGoes(c, IF ReleasedWell(c) THEN "released" ELSE "rejected")
  /\ SetTimers(c, {})

\* release, when a termination has begun before it: its close, its error or
\* its grace timer settles the promise.
ReleaseTerminated(c) ==
  /\ c \in terminating
  /\ \/ /\ child[c] = "closed" /\ FinishRelease(c)
     \/ /\ child[c] # "closed" /\ c \in unproved
        /\ CallGoes(c, "rejected") /\ SetTimers(c, {})
     \/ /\ child[c] # "closed" /\ c \notin unproved
        /\ CallGoes(c, "releasing") /\ UNCHANGED timers
  /\ UNCHANGED <<terminating, failed, control>>

\* Mutant: no timer is set for a helper that has exited and not closed.
ReleaseExitedUntimed(c) ==
  /\ c \notin terminating /\ child[c] # "running"
  /\ IF child[c] = "closed"
     THEN FinishRelease(c)
     ELSE CallGoes(c, "releasing") /\ SetTimers(c, {})
  /\ UNCHANGED <<terminating, failed, control>>

\* When the helper has ended.
ReleaseExited(c) ==
  /\ c \notin terminating /\ child[c] # "running"
  /\ IF child[c] = "closed"
     THEN FinishRelease(c)
     ELSE CallGoes(c, "releasing") /\ SetTimers(c, {"operation"})
  /\ UNCHANGED <<terminating, failed, control>>

\* And while it runs: it is told, or cannot be told.
ReleaseRunning(c) ==
  /\ c \notin terminating /\ child[c] = "running"
  /\ CallGoes(c, "releasing")
  /\ \/ /\ control' = control \cup {c} /\ SetTimers(c, {"operation"})
        /\ UNCHANGED <<terminating, failed>>
     \/ Fail(c) /\ UNCHANGED control

ReleaseCustody(c) ==
  /\ caller[c] = "leased"
  /\ ReleaseTerminated(c) \/ ReleaseExited(c) \/ ReleaseRunning(c)
  /\ UNCHANGED <<child, helper, frame, lost, unproved, charged>>

-------------------------------------------------------------------------------
(* Events and timers *)

\* Output on stderr or more of it on stdout, an error of the child or of its
\* stdin.
OnUpset(c) ==
  /\ caller[c] \in {"acquiring", "leased", "releasing"} /\ child[c] # "closed"
  /\ Fail(c)
  /\ UNCHANGED <<caller, child, helper, frame, lost, unproved, control, charged>>

Ended(c) == helper[c] \in {"dead", "clean"}

OnExit(c) ==
  /\ Ended(c) /\ child[c] = "running"
  /\ child' = [child EXCEPT ![c] = "exited"]
  /\ UNCHANGED <<caller, helper, frame, controllerVars, charged>>

\* The pipes are at their end too.  Only this frees the slot.
OnClose(c) ==
  /\ child[c] = "exited" \/ (child[c] = "running" /\ helper[c] = "none")
  /\ frame[c] = "sent" => Detached(c)
  /\ child' = [child EXCEPT ![c] = "closed"]
  /\ charged' = charged \ {c}
  /\ \/ Answered(c) /\ UNCHANGED <<caller, timers, lost>>
     \/ caller[c] = "acquiring" /\ CallGoes(c, "rejected") /\ SetTimers(c, {}) /\ UNCHANGED lost
     \/ caller[c] = "releasing" /\ FinishRelease(c) /\ UNCHANGED lost
     \/ caller[c] = "leased" /\ lost' = lost \cup {c} /\ UNCHANGED <<caller, timers>>
  /\ UNCHANGED <<helper, frame, terminating, failed, unproved, control>>

OperationTimer(c) ==
  /\ "operation" \in timers[c]
  /\ Terminate(c, IF child[c] = "running" THEN {c} ELSE {})
  /\ UNCHANGED <<caller, child, helper, frame, lost, unproved, control, charged>>

\* The helper outlives its grace: it is killed, and not waited for.  With a
\* lease out the error is kept for its release.
GraceTimer(c) ==
  /\ "grace" \in timers[c]
  /\ SetTimers(c, {})
  /\ IF child[c] = "closed"
     THEN UNCHANGED <<caller, failed, unproved>>
     ELSE /\ failed' \in {failed} \cup Unkilled(c)
          /\ unproved' = IF caller[c] = "acquiring" THEN unproved ELSE unproved \cup {c}
          /\ IF caller[c] = "leased" THEN UNCHANGED caller ELSE CallGoes(c, "rejected")
  /\ UNCHANGED <<child, helper, frame, terminating, lost, control, charged>>

-------------------------------------------------------------------------------
(* The helper *)

HelperGoes(c, where) == helper' = [helper EXCEPT ![c] = where]

\* flock: it waits for whoever has it.
LockRoot(c) ==
  /\ helper[c] = "starting" /\ ~\E d \in Keepers : HasLock(d)
  /\ HelperGoes(c, "locked")
  /\ UNCHANGED <<caller, child, frame, controllerVars, charged>>

\* emit_ready, as long as somebody can read it.
EmitReady(c) ==
  /\ helper[c] = "locked" /\ ~Detached(c)
  /\ HelperGoes(c, "reported")
  /\ frame' = [frame EXCEPT ![c] = "sent"]
  /\ UNCHANGED <<caller, child, controllerVars, charged>>

\* read_control: the byte and the end of its input; it unlocks and exits.
ReadControl(c) ==
  /\ helper[c] = "reported" /\ c \in control
  /\ HelperGoes(c, "clean")
  /\ UNCHANGED <<caller, child, frame, controllerVars, charged>>

\* It refuses the root, its input or output is gone, a call fails, or a signal
\* ends it.  The kernel frees the lock.
HelperEnds(c) ==
  /\ helper[c] \in {"starting", "locked", "reported"}
  /\ HelperGoes(c, "dead")
  /\ UNCHANGED <<caller, child, frame, controllerVars, charged>>

-------------------------------------------------------------------------------
CustodyStep(c) ==
  \/ StartAcquire(c) \/ AcquireRefused(c) \/ SpawnHelper(c) \/ OnReady(c) \/ CompleteReady(c)
  \/ ReleaseCustody(c)
  \/ OnUpset(c) \/ OnExit(c) \/ OnClose(c) \/ OperationTimer(c) \/ GraceTimer(c)
  \/ LockRoot(c) \/ EmitReady(c) \/ ReadControl(c) \/ HelperEnds(c)

CustodyNext ==
  /\ \E c \in Keepers : CustodyStep(c)
  /\ shared' = shared \cup {c \in Keepers : caller'[c] = "leased" /\ \E d \in Keepers \ {c} : HasLock(d)'}

CustodyTimers(c) ==
  (OperationTimer(c) \/ GraceTimer(c)) /\ UNCHANGED shared
CustodySpec ==
  CustodyInit /\ [][CustodyNext]_custodyVars /\ \A c \in Keepers : WF_custodyVars(CustodyTimers(c))

-------------------------------------------------------------------------------
\* A release that is reported as done vouches for the whole lease: nobody else
\* could have had the root at any time of it, whenever the helper died and in
\* whatever order its exit, its close and its errors were heard.
CustodyWasExclusive == \A c \in Keepers : caller[c] = "released" => c \notin shared

\* A helper lives on a slot, and a slot is held to the close of its child: no more
\* than LiveLimit helpers live at a time, whatever was answered before they ended.
HelpersAreLimited ==
  /\ charged = {c \in Keepers : child[c] \in {"running", "exited"}}
  /\ Cardinality({c \in Keepers : helper[c] \in {"starting", "locked", "reported"}}) <= LiveLimit

\* Every acquire and every release is answered, whatever the helper does (a call
\* acquires once and releases once).
EveryCustodyCallEnds ==
  <>[](\A c \in Keepers : caller[c] \notin {"acquiring", "releasing"})
===============================================================================
