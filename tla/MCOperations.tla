----------------------------- MODULE MCOperations -----------------------------
(* The operator's commands, the custody of the approval root, the guarded      *)
(* actions, the bridge and the server's sessions, checked side by side: a       *)
(* behaviour runs one of them, the others stay at their start.                 *)
EXTENDS OperatorEpoch, GuardedActions, RemoteBridge, ApprovalCustody, HttpSessions

CONSTANTS v1, v2, g1, g2, lamp, r1, r2, r3, c1, c2, h1, h2, h3, p1

VARIABLE part

MCVersions == {v1, v2}
MCPlans == {g1, g2}
MCTargets == {lamp}
MCRequests == {r1, r2, r3}
MCKeepers == {c1, c2}
MCHttpRequests == {h1, h2, h3}
MCClients == {p1}

otherThanEpoch == <<part, guardedVars, bridgeVars, custodyVars, httpVars>>
otherThanGuarded == <<part, epochVars, bridgeVars, custodyVars, httpVars>>
otherThanBridge == <<part, epochVars, guardedVars, custodyVars, httpVars>>
otherThanCustody == <<part, epochVars, guardedVars, bridgeVars, httpVars>>
otherThanHttp == <<part, epochVars, guardedVars, bridgeVars, custodyVars>>
operationsVars == <<otherThanEpoch, epochVars>>

EpochStep == part = "epoch" /\ EpochNext /\ UNCHANGED otherThanEpoch
GuardedStep == part = "guarded" /\ GuardedNext /\ UNCHANGED otherThanGuarded
BridgeStep == part = "bridge" /\ BridgeNext /\ UNCHANGED otherThanBridge
CustodyPart == part = "custody" /\ CustodyNext /\ UNCHANGED otherThanCustody
HttpStep == part = "http" /\ HttpNext /\ UNCHANGED otherThanHttp

OperationsInit ==
  /\ part \in {"epoch", "guarded", "bridge", "custody", "http"}
  /\ EpochInit /\ GuardedInit /\ BridgeInit /\ CustodyInit /\ HttpInit
  /\ part # "epoch" => version = v1  \* one start is enough for a part at rest

BridgeTimer == part = "bridge" /\ TimerFires /\ UNCHANGED otherThanBridge
CustodyTimer(c) == part = "custody" /\ CustodyTimers(c) /\ UNCHANGED otherThanCustody
SweepTimer == part = "http" /\ Sweep /\ UNCHANGED otherThanHttp
Clock(s) == part = "http" /\ TimePasses(s) /\ UNCHANGED otherThanHttp

OperationsSpec ==
  /\ OperationsInit
  /\ [][EpochStep \/ GuardedStep \/ BridgeStep \/ CustodyPart \/ HttpStep]_operationsVars
  /\ WF_operationsVars(BridgeTimer)
  /\ \A c \in Keepers : WF_operationsVars(CustodyTimer(c))
  /\ WF_operationsVars(SweepTimer)
  /\ \A s \in HttpRequests : WF_operationsVars(Clock(s))

\* The types of all five.
OperationsTypeOK == EpochTypeOK /\ GuardedTypeOK /\ BridgeTypeOK /\ CustodyTypeOK /\ HttpTypeOK

\* What a part holds for somebody is counted for him and is given back: the
\* connections of the bridge, the slots of the helpers, the sessions and the
\* requests of a client, whoever ends them and in whatever order.  The session
\* of the bridge is held by one operation at a time.
ResourcesAreKept ==
  /\ OneOperationRuns /\ NoConnectionIsLeaked /\ OrderlyEndIsClean
  /\ HelpersAreLimited /\ SessionBooks
===============================================================================
