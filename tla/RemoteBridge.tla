----------------------------- MODULE RemoteBridge -----------------------------
(***************************************************************************)
(* The stdio bridge (bridge.ts, bridgeLifecycle.ts, remoteSession.ts): tool   *)
(* requests run one at a time on a remote connection made for the first of   *)
(* them and replaced when its session has expired; every way of ending goes  *)
(* through one shutdown under one timer.                                     *)
(*                                                                         *)
(* Nothing the network does has to happen: connecting, an operation and a    *)
(* close may each hang.  Only the timer is sure to fire.                     *)
(***************************************************************************)
EXTENDS Naturals, Sequences

CONSTANTS
  Requests,       \* tool requests of the host
  MaxConnections  \* bound on connections made

ASSUME BridgeAssumption == MaxConnections \in Nat \ {0} /\ "close" \notin Requests

VARIABLES
  startup,      \* how far main is
  shutdown,     \* how far performShutdown is
  timer,        \* the shutdown timer
  done,         \* the promise main waits for
  exited,       \* the process is gone
  localClosed,  \* the stdio transport is closed
  remote,       \* remotePromise
  session,      \* the state of the RemoteSession
  current,      \* its connection
  connection,   \* each connection made
  tail,         \* what waits on the session, the head of it running
  request       \* where each request is, and the connection it replaces

bridgeVars == <<startup, shutdown, timer, done, exited, localClosed, remote, session,
                current, connection, tail, request>>
lifeVars == <<startup, shutdown, timer, done, exited, localClosed>>

Connections == 1..MaxConnections
NoConnection == 0

\* The types of the variables; nothing waits on the session twice.
BridgeTypeOK ==
  /\ startup \in {"begun", "remote", "connected", "finished"}
  /\ shutdown \in {"none", "startup", "server", "transport", "remote", "session", "end"}
  /\ timer \in {"off", "on", "cleared", "fired"}
  /\ done \in {"pending", "resolved", "rejected"}
  /\ exited \in BOOLEAN /\ localClosed \in BOOLEAN
  /\ remote \in {"none", "connecting", "ready", "failed"}
  /\ session \in {"open", "closing", "closed"}
  /\ current \in Connections \cup {NoConnection}
  /\ connection \in [Connections -> {"unused", "connecting", "connected", "closing", "closed"}]
  /\ tail \in Seq(Requests \cup {"close"})
  /\ \A i, j \in DOMAIN tail : tail[i] = tail[j] => i = j
  /\ request \in [Requests -> [at : {"new", "joining", "queued", "running", "connecting", "giving_up",
                                     "replacing", "again", "over"},
                               on : Connections \cup {NoConnection}]]

BridgeInit ==
  /\ startup = "begun" /\ shutdown = "none"
  /\ timer = "off" /\ done = "pending"
  /\ exited = FALSE /\ localClosed = FALSE
  /\ remote = "none" /\ session = "open" /\ current = NoConnection
  /\ connection = [c \in Connections |-> "unused"]
  /\ tail = <<>>
  /\ request = [r \in Requests |-> [at |-> "new", on |-> NoConnection]]

-------------------------------------------------------------------------------
(* main *)

Requested == shutdown # "none"

AttachRemote ==
  /\ ~exited /\ startup = "begun"
  /\ startup' = "remote"
  /\ UNCHANGED <<shutdown, timer, done, exited, localClosed, remote, session, current, connection, tail, request>>

ConnectLocal ==
  /\ ~exited /\ startup = "remote"
  /\ startup' = "connected"
  /\ UNCHANGED <<shutdown, timer, done, exited, localClosed, remote, session, current, connection, tail, request>>

\* attachLocal and startupFinished.
FinishStartup ==
  /\ ~exited /\ startup = "connected"
  /\ startup' = "finished"
  /\ UNCHANGED <<shutdown, timer, done, exited, localClosed, remote, session, current, connection, tail, request>>

\* A bad environment or a transport that does not start: main rejects.
StartupFails ==
  /\ ~exited /\ startup \in {"begun", "remote"}
  /\ startup' = "finished" /\ exited' = TRUE
  /\ UNCHANGED <<shutdown, timer, done, localClosed, remote, session, current, connection, tail, request>>

-------------------------------------------------------------------------------
(* Requests *)

GoTo(r, at, on) == request' = [request EXCEPT ![r] = [at |-> at, on |-> on]]
Make(c) == connection[c] = "unused" /\ connection' = [connection EXCEPT ![c] = "connecting"]

\* getRemote: refused in a shutdown; the first request makes the connection.
Arrive(r) ==
  /\ ~exited /\ startup \in {"connected", "finished"} /\ ~localClosed
  /\ request[r].at = "new"
  /\ \/ Requested /\ GoTo(r, "over", NoConnection) /\ UNCHANGED <<remote, connection>>
     \/ ~Requested /\ remote # "none" /\ GoTo(r, "joining", NoConnection) /\ UNCHANGED <<remote, connection>>
     \/ /\ ~Requested /\ remote = "none"
        /\ GoTo(r, "joining", NoConnection)
        /\ remote' = "connecting" /\ Make(1)
  /\ UNCHANGED <<lifeVars, session, current, tail>>

\* RemoteSession.connect: connected, or closed again and failed for good.
FirstConnection ==
  /\ ~exited /\ remote = "connecting"
  /\ \/ /\ connection[1] = "connecting"
        /\ connection' = [connection EXCEPT ![1] = "connected"]
        /\ remote' = "ready" /\ current' = 1
     \/ /\ connection[1] = "connecting"
        /\ connection' = [connection EXCEPT ![1] = "closing"]
        /\ UNCHANGED <<remote, current>>
     \/ /\ connection[1] = "closing"
        /\ connection' = [connection EXCEPT ![1] = "closed"]
        /\ remote' = "failed" /\ UNCHANGED current
  /\ UNCHANGED <<lifeVars, session, tail, request>>

\* run: at the end of the tail, unless the session is closing.
Join(r) ==
  /\ ~exited /\ request[r].at = "joining" /\ remote \in {"ready", "failed"}
  /\ IF remote = "ready" /\ session = "open"
     THEN GoTo(r, "queued", NoConnection) /\ tail' = Append(tail, r)
     ELSE GoTo(r, "over", NoConnection) /\ UNCHANGED tail
  /\ UNCHANGED <<lifeVars, remote, session, current, connection>>

StartOperation(r) ==
  /\ ~exited /\ request[r].at = "queued" /\ Head(tail) = r
  /\ GoTo(r, "running", current)
  /\ UNCHANGED <<lifeVars, remote, session, current, connection, tail>>

\* The operation is answered, or its session has expired and it may be retried.
EndOperation(r) ==
  /\ ~exited
  /\ \/ /\ request[r].at \in {"running", "again"}
        /\ GoTo(r, "over", NoConnection) /\ tail' = Tail(tail)
        /\ UNCHANGED connection
     \/ /\ request[r].at = "running"
        /\ \E c \in Connections : Make(c) /\ GoTo(r, "connecting", c)
        /\ UNCHANGED tail
  /\ UNCHANGED <<lifeVars, remote, session, current>>

\* The candidate connects and takes over; or it is closed and the operation fails.
Reconnect(r) ==
  LET c == request[r].on IN
  /\ ~exited
  /\ \/ /\ request[r].at = "connecting"
        /\ connection' = [connection EXCEPT ![c] = "connected", ![current] = "closing"]
        /\ current' = c
        /\ GoTo(r, "replacing", current) /\ UNCHANGED tail
     \/ /\ request[r].at = "connecting"
        /\ connection' = [connection EXCEPT ![c] = "closing"]
        /\ GoTo(r, "giving_up", c) /\ UNCHANGED <<current, tail>>
     \/ /\ request[r].at = "giving_up"
        /\ connection' = [connection EXCEPT ![c] = "closed"]
        /\ GoTo(r, "over", NoConnection) /\ tail' = Tail(tail)
        /\ UNCHANGED current
     \/ /\ request[r].at = "replacing"
        /\ connection' = [connection EXCEPT ![c] = "closed"]
        /\ GoTo(r, "again", current) /\ UNCHANGED <<current, tail>>
  /\ UNCHANGED <<lifeVars, remote, session>>

-------------------------------------------------------------------------------
(* Shutdown *)

\* The end of the input, a signal, or the local transport closing by itself.
RequestShutdown ==
  /\ ~exited /\ ~Requested
  /\ shutdown' = "startup" /\ timer' = "on"
  /\ localClosed' \in (IF startup = "finished" THEN BOOLEAN ELSE {FALSE})
  /\ UNCHANGED <<startup, done, exited, remote, session, current, connection, tail, request>>

\* performShutdown up to there: startup is waited for, then the server is
\* closed, and the transport if that did not close it.
CloseLocal ==
  /\ ~exited
  /\ \/ /\ shutdown = "startup" /\ startup = "finished"
        /\ shutdown' = "server" /\ UNCHANGED localClosed
     \/ /\ shutdown = "server"
        /\ localClosed' \in {localClosed, TRUE}
        /\ shutdown' = IF localClosed' THEN "remote" ELSE "transport"
     \/ /\ shutdown = "transport"
        /\ localClosed' = TRUE /\ shutdown' = "remote"
  /\ UNCHANGED <<startup, timer, done, exited, remote, session, current, connection, tail, request>>

\* Mutant: the remote is not waited for while its first connection is made.
CloseSoundRemoteOnly ==
  /\ ~exited /\ shutdown = "remote"
  /\ IF remote = "ready"
     THEN /\ shutdown' = "session"
          /\ session' = "closing" /\ tail' = Append(tail, "close")
          /\ UNCHANGED <<timer, done>>
     ELSE /\ shutdown' = "end" /\ timer' = "cleared" /\ done' = "resolved"
          /\ UNCHANGED <<session, tail>>
  /\ UNCHANGED <<startup, exited, localClosed, remote, current, connection, request>>

\* remote.close: the connection being made is waited for; the close of the
\* session goes to the end of its tail.
CloseRemote ==
  /\ ~exited /\ shutdown = "remote" /\ remote # "connecting"
  /\ IF remote = "ready"
     THEN /\ shutdown' = "session"
          /\ session' = "closing" /\ tail' = Append(tail, "close")
          /\ UNCHANGED <<timer, done>>
     ELSE /\ shutdown' = "end" /\ timer' = "cleared" /\ done' = "resolved"
          /\ UNCHANGED <<session, tail>>
  /\ UNCHANGED <<startup, exited, localClosed, remote, current, connection, request>>

\* The turn of the close: the current connection, and the shutdown is over.
CloseSession ==
  /\ ~exited /\ shutdown = "session" /\ Head(tail) = "close"
  /\ \/ /\ connection[current] = "connected"
        /\ connection' = [connection EXCEPT ![current] = "closing"]
        /\ UNCHANGED <<shutdown, timer, done, session, tail>>
     \/ /\ connection[current] = "closing"
        /\ connection' = [connection EXCEPT ![current] = "closed"]
        /\ session' = "closed" /\ tail' = Tail(tail)
        /\ shutdown' = "end" /\ timer' = "cleared" /\ done' = "resolved"
  /\ UNCHANGED <<startup, exited, localClosed, remote, current, request>>

\* The deadline: done is rejected and the process ends.
TimerFires ==
  /\ ~exited /\ timer = "on"
  /\ timer' = "fired" /\ done' = "rejected" /\ exited' = TRUE
  /\ UNCHANGED <<startup, shutdown, localClosed, remote, session, current, connection, tail, request>>

-------------------------------------------------------------------------------
BridgeNext ==
  \/ AttachRemote \/ ConnectLocal \/ FinishStartup \/ StartupFails
  \/ FirstConnection
  \/ \E r \in Requests :
       Arrive(r) \/ Join(r) \/ StartOperation(r) \/ EndOperation(r) \/ Reconnect(r)
  \/ RequestShutdown \/ CloseLocal \/ CloseRemote \/ CloseSession \/ TimerFires

BridgeSpec == BridgeInit /\ [][BridgeNext]_bridgeVars /\ WF_bridgeVars(TimerFires)

-------------------------------------------------------------------------------
\* execute, from the start of the operation to its answer.
Executing == {"running", "connecting", "giving_up", "replacing", "again"}

\* One operation at a time, in the order of the requests: the one being executed
\* is at the head of the tail, whatever was replaced under it.
OneOperationRuns ==
  \A r \in Requests : request[r].at \in Executing => tail # <<>> /\ Head(tail) = r

\* Nothing is connected but the current connection, and whatever is still open
\* has somebody who will close it: the session, the first connect, or the
\* operation that made it or replaced it.
NoConnectionIsLeaked ==
  \A c \in Connections :
    /\ connection[c] = "connected" => c = current /\ session # "closed"
    /\ connection[c] \in {"connecting", "closing"} =>
         \/ remote = "connecting" /\ c = 1
         \/ shutdown = "session" /\ c = current
         \/ \E r \in Requests :
              request[r].at \in {"connecting", "giving_up", "replacing"} /\ request[r].on = c

AllClosed == \A c \in Connections : connection[c] \in {"unused", "closed"}

\* A shutdown that ended in order has closed every connection there ever was.
OrderlyEndIsClean == done = "resolved" => AllClosed

\* Every shutdown ends, whatever hangs: by force, or in order, and then for
\* good with every connection that was ever made closed.
ShutdownEnds == [](Requested => <>[](exited \/ (done = "resolved" /\ AllClosed)))
===============================================================================
