------------------------------ MODULE HttpSessions ------------------------------
(***************************************************************************)
(* The sessions of the HTTPS server (http.ts, security/pairing.ts): which     *)
(* client owns which, how many each has, and who takes them away: the sweep,  *)
(* a revocation, a reset, a DELETE, the end of the server.                   *)
(*                                                                         *)
(* A handler awaits twice, in authenticate and in handleRequest, and goes on   *)
(* from what it read before: a session may come after its client's revocation *)
(* or come back after it was taken away.  What is promised is that it does     *)
(* not stay.                                                                *)
(***************************************************************************)
EXTENDS FiniteSets, Naturals

CONSTANTS
  Clients,       \* paired clients
  HttpRequests,  \* requests; a session has the name of the one that made it
  ClientLimit,   \* maxSessionsPerClient
  GlobalLimit,   \* maxSessionsGlobal
  FlightLimit,   \* maxConcurrentRequestsPerClient
  NoSession,     \* no mcp-session-id, or no session
  NoClient

ASSUME HttpAssumption ==
  /\ ClientLimit \in Nat \ {0} /\ GlobalLimit \in Nat \ {0} /\ FlightLimit \in Nat \ {0}
  /\ NoSession \notin HttpRequests /\ NoClient \notin Clients

VARIABLES
  revoked,   \* clients with a revokedAt
  serving,   \* the server has not closed
  handler,   \* each request: where it is, who sent it, the session it names
  holding,   \* requests whose connection will call release
  owner,     \* sessions: the client of each
  counts,    \* sessions counted for each client
  inFlight,  \* requests counted for each client
  expiry,    \* sessions with times
  overdue    \* and those whose times are past a limit

httpVars == <<revoked, serving, handler, holding, owner, counts, inFlight, expiry, overdue>>
bookVars == <<owner, counts, expiry, overdue>>

\* The types of the variables.
HttpTypeOK ==
  /\ revoked \subseteq Clients /\ serving \in BOOLEAN
  /\ handler \in [HttpRequests -> [at : {"new", "authenticating", "handling", "over"},
                                   client : Clients \cup {NoClient},
                                   names : HttpRequests \cup {NoSession}]]
  /\ holding \subseteq HttpRequests
  /\ owner \in [HttpRequests -> Clients \cup {NoClient}]
  /\ counts \in [Clients -> Nat]
  /\ inFlight \in [Clients -> 0..FlightLimit]
  /\ expiry \subseteq HttpRequests /\ overdue \subseteq expiry

HttpInit ==
  /\ revoked = {} /\ serving = TRUE
  /\ handler = [r \in HttpRequests |-> [at |-> "new", client |-> NoClient, names |-> NoSession]]
  /\ holding = {}
  /\ owner = [s \in HttpRequests |-> NoClient]
  /\ counts = [c \in Clients |-> 0] /\ inFlight = [c \in Clients |-> 0]
  /\ expiry = {} /\ overdue = {}

-------------------------------------------------------------------------------
Sessions == {s \in HttpRequests : owner[s] # NoClient}
SessionsOf(c) == {s \in Sessions : owner[s] = c}
Less(n, m) == IF n > m THEN n - m ELSE 0
HandlerGoes(r, where) == handler' = [handler EXCEPT ![r].at = where]

\* cleanupSession, for each of them.
Cleanup(gone) ==
  /\ owner' = [s \in HttpRequests |-> IF s \in gone THEN NoClient ELSE owner[s]]
  /\ counts' = [c \in Clients |-> Less(counts[c], Cardinality(gone \cap SessionsOf(c)))]
  /\ expiry' = expiry \ gone
  /\ overdue' = overdue \ gone

-------------------------------------------------------------------------------
(* A request *)

\* The revocation is looked at now, the secret compared after an await.
Authenticate(r, c, names) ==
  /\ serving /\ handler[r].at = "new" /\ c \notin revoked
  /\ handler' = [handler EXCEPT ![r] = [at |-> "authenticating", client |-> c, names |-> names]]
  /\ UNCHANGED <<revoked, serving, holding, bookVars, inFlight>>

Unauthorized(r) ==
  /\ handler[r].at = "authenticating"
  /\ HandlerGoes(r, "over")
  /\ UNCHANGED <<revoked, serving, holding, bookVars, inFlight>>

\* Authenticated, and one request more of its client; its release is called
\* when the connection is done with it, if it was not before.
TakeFlight(r) ==
  LET c == handler[r].client IN
  /\ handler[r].at = "authenticating" /\ inFlight[c] < FlightLimit
  /\ inFlight' = [inFlight EXCEPT ![c] = @ + 1]
  /\ holding' \in {holding, holding \cup {r}}
  /\ UNCHANGED <<revoked, serving>>

\* The session named is another's or none, or there are too many sessions or
\* requests.
Refused(r) ==
  /\ TakeFlight(r)
  /\ HandlerGoes(r, "over") /\ UNCHANGED bookVars

\* It is past its times, before the sweep has met it.
FindsStale(r) ==
  /\ TakeFlight(r)
  /\ handler[r].names \in Sessions /\ handler[r].names \notin expiry \ overdue
  /\ HandlerGoes(r, "over") /\ Cleanup({handler[r].names})

ResumesSession(r) ==
  /\ TakeFlight(r)
  /\ handler[r].names \in SessionsOf(handler[r].client) /\ handler[r].names \in expiry \ overdue
  /\ HandlerGoes(r, "handling") /\ UNCHANGED bookVars

\* The limits are looked at now, the session entered after two awaits.
OpensTransport(r) ==
  /\ TakeFlight(r)
  /\ handler[r].names = NoSession
  /\ counts[handler[r].client] < ClientLimit /\ Cardinality(Sessions) < GlobalLimit
  /\ HandlerGoes(r, "handling") /\ UNCHANGED bookVars

\* The session of the request's transport.
Own(r) == IF handler[r].names = NoSession THEN r ELSE handler[r].names

\* Mutant: a session is entered without its times.
EnterUntimed(r) ==
  LET s == Own(r)  c == handler[r].client IN
  /\ counts' = IF s \in Sessions THEN counts ELSE [counts EXCEPT ![c] = @ + 1]
  /\ owner' = [owner EXCEPT ![s] = c]
  /\ UNCHANGED <<expiry, overdue>>

\* Mutant: a session that is put back, or still there, is counted once more.
EnterCountedAgain(r) ==
  LET s == Own(r)  c == handler[r].client IN
  /\ counts' = [counts EXCEPT ![c] = @ + 1]
  /\ owner' = [owner EXCEPT ![s] = c]
  /\ expiry' = expiry \cup {s}
  /\ overdue' \in {overdue, overdue \ {s}}

\* Enter the session, anew or again, touched at the time the request began.
EnterSession(r) ==
  LET s == Own(r)  c == handler[r].client IN
  /\ counts' = IF s \in Sessions THEN counts ELSE [counts EXCEPT ![c] = @ + 1]
  /\ owner' = [owner EXCEPT ![s] = c]
  /\ expiry' = expiry \cup {s}
  /\ overdue' \in {overdue, overdue \ {s}}

\* handleRequest is over: it failed, or was a DELETE, or no session came of it.
HandleEnds(r) ==
  /\ handler[r].at = "handling"
  /\ HandlerGoes(r, "over")
  /\ EnterSession(r) \/ Cleanup({handler[r].names}) \/ UNCHANGED bookVars
  /\ UNCHANGED <<revoked, serving, holding, inFlight>>

\* release, for the end of the response or of the connection.
Released(r) ==
  LET c == handler[r].client IN
  /\ r \in holding
  /\ holding' = holding \ {r}
  /\ inFlight' = [inFlight EXCEPT ![c] = Less(@, 1)]
  /\ UNCHANGED <<revoked, serving, handler, bookVars>>

-------------------------------------------------------------------------------
(* Who takes sessions away *)

\* revoke and its listener.
Revoke(c) ==
  /\ c \notin revoked
  /\ revoked' = revoked \cup {c}
  /\ IF serving
     THEN inFlight' = [inFlight EXCEPT ![c] = 0] /\ Cleanup(SessionsOf(c))
     ELSE UNCHANGED <<inFlight, bookVars>>
  /\ UNCHANGED <<serving, handler, holding>>

ResetSessions ==
  /\ serving /\ Sessions # {}
  /\ Cleanup(Sessions)
  /\ UNCHANGED <<revoked, serving, handler, holding, inFlight>>

\* A session is idle, or old.
TimePasses(s) ==
  /\ s \in expiry \ overdue
  /\ overdue' = overdue \cup {s}
  /\ UNCHANGED <<revoked, serving, handler, holding, owner, counts, inFlight, expiry>>

Sweep ==
  /\ serving /\ overdue # {}
  /\ Cleanup(overdue)
  /\ UNCHANGED <<revoked, serving, handler, holding, inFlight>>

\* The server's close: no sweep and no listener from now on.
ServerCloses ==
  /\ serving
  /\ serving' = FALSE
  /\ Cleanup(Sessions)
  /\ UNCHANGED <<revoked, handler, holding, inFlight>>

-------------------------------------------------------------------------------
HttpNext ==
  \/ \E r \in HttpRequests :
       \/ \E c \in Clients, names \in (HttpRequests \ {r}) \cup {NoSession} : Authenticate(r, c, names)
       \/ Unauthorized(r) \/ Refused(r) \/ FindsStale(r) \/ ResumesSession(r) \/ OpensTransport(r)
       \/ HandleEnds(r) \/ Released(r) \/ TimePasses(r)
  \/ \E c \in Clients : Revoke(c)
  \/ ResetSessions \/ Sweep \/ ServerCloses

HttpSpec ==
  /\ HttpInit /\ [][HttpNext]_httpVars
  /\ WF_httpVars(Sweep) /\ \A s \in HttpRequests : WF_httpVars(TimePasses(s))

-------------------------------------------------------------------------------
\* The books of a client: its count is the number of its sessions, however a
\* handler that enters one meets a sweep, a revocation or a DELETE.
SessionsAreCounted == \A c \in Clients : counts[c] = Cardinality(SessionsOf(c))

\* Every session has its times, and nothing else has: the sweep meets them all.
SessionsAreTimed == Sessions = expiry

\* A session is its first client's, also when it was taken away and put back.
SessionsKeepTheirClient ==
  \A s \in Sessions : handler[s].at # "new" /\ owner[s] = handler[s].client

\* No request whose connection is still there is left out of its client's count,
\* unless the client was revoked.
FlightsAreCounted ==
  \A c \in Clients \ revoked :
    Cardinality({r \in holding : handler[r].client = c}) <= inFlight[c]

SessionBooks ==
  SessionsAreCounted /\ SessionsAreTimed /\ SessionsKeepTheirClient /\ FlightsAreCounted

\* A revoked client is rid of every session and of every place it counted for,
\* for good, whatever handlers were under way: also of a session entered after
\* the revocation, and of one that a handler put back.
RevokedClientsLeave ==
  <>[](serving => \A c \in revoked : SessionsOf(c) = {} /\ counts[c] = 0)
===============================================================================
