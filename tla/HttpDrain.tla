----------------------------- MODULE HttpDrain ------------------------------
(***************************************************************************)
(* The HTTP transport of the MCP servers (mcp-dashboard and mcp-forum have *)
(* the same one): requests that are counted while they are handled, the    *)
(* health probe, and the shutdown a signal starts, which polls the counter *)
(* until it is zero or the budget is spent, closes the listener and exits. *)
(*                                                                         *)
(* node:http and the MCP SDK are external: close() ends when the last      *)
(* connection does; a handled request lasts as long as its answer, and no  *)
(* longer than its connection.                                             *)
(***************************************************************************)
EXTENDS Naturals, FiniteSets, Sql

CONSTANTS
  Client,  \* connections of clients and of the prober
  Request  \* requests under way

\* Assumed of the constants.
HttpConstantsOK == NULL \notin Client /\ IsFiniteSet(Request)

VARIABLES
  server,   \* the process
  online,   \* clients with an open connection
  request,  \* the requests
  inFlight  \* the counter

httpVars == <<server, online, request, inFlight>>

Up == [signal |-> FALSE, late |-> FALSE, listening |-> TRUE, closing |-> FALSE, exited |-> FALSE]
NoRequest == [at |-> "idle", by |-> NULL, kind |-> NULL]

Counted(r) == request[r].at \in {"reading", "auth", "running", "teardown"}
Unanswered(r) == request[r].at \in {"reading", "auth", "running", "probing"}

HttpTypeOK ==
  /\ server \in [signal : BOOLEAN, late : BOOLEAN, listening : BOOLEAN, closing : BOOLEAN,
                 exited : BOOLEAN]
  /\ online \subseteq Client
  /\ request \in [Request -> [at : {"idle", "reading", "auth", "running", "teardown", "probing"},
                              by : Client \cup {NULL}, kind : {"call", "stream", "probe", NULL}]]
  /\ inFlight \in 0..Cardinality(Request)

HttpInit ==
  /\ server = Up /\ online = {}
  /\ request = [r \in Request |-> NoRequest]
  /\ inFlight = 0

RequestGoes(r, stage) == request' = [request EXCEPT ![r].at = stage]
Ends(r) == request' = [request EXCEPT ![r] = NoRequest]

-----------------------------------------------------------------------------
(* Requests.                                                               *)

Connect(c) ==
  /\ server.listening /\ c \notin online
  /\ online' = online \cup {c}
  /\ UNCHANGED <<server, request, inFlight>>

Free(c) == \A r \in Request : request[r].by = c => ~Unanswered(r)

\* A request on an open connection, also while the server drains.  A GET or a DELETE has no
\* body to read; a GET opens a stream that lasts as long as its client stays.
ReceiveRequest(c, r, kind) ==
  /\ ~server.exited /\ c \in online /\ Free(c) /\ request[r].at = "idle"
  /\ request' = [request EXCEPT ![r] =
       [at |-> CASE kind = "probe" -> "probing" [] kind = "call" -> "reading" [] OTHER -> "auth",
        by |-> c, kind |-> kind]]
  /\ inFlight' = IF kind = "probe" THEN inFlight ELSE inFlight + 1
  /\ UNCHANGED <<server, online>>

\* checkDbHealth, or the answer 503 at once.
AnswerProbe(r) == request[r].at = "probing" /\ Ends(r) /\ UNCHANGED <<server, online, inFlight>>

ReadBody(r) ==
  request[r].at = "reading" /\ RequestGoes(r, "auth") /\ UNCHANGED <<server, online, inFlight>>
Authenticate(r) ==
  request[r].at = "auth" /\ RequestGoes(r, "running") /\ UNCHANGED <<server, online, inFlight>>

\* Mutant: a refused or finished request stays counted.
KeepCounted == UNCHANGED inFlight
\* 413 or 401: the early returns leave through the same finally.
Discount == inFlight' = inFlight - 1
RefuseRequest(r) ==
  /\ request[r].at \in {"reading", "auth"}
  /\ Ends(r) /\ Discount
  /\ UNCHANGED <<server, online>>

\* The answer is written; transport and server of the request are closed after it.
AnswerCall(r) ==
  /\ request[r].at = "running" /\ request[r].kind = "call"
  /\ RequestGoes(r, "teardown")
  /\ UNCHANGED <<server, online, inFlight>>
Teardown(r) ==
  /\ request[r].at = "teardown"
  /\ Ends(r) /\ Discount
  /\ UNCHANGED <<server, online>>

\* The client closes its connection, or an idle one is closed after the keep-alive timeout.
Idle(c) == c \in online /\ Free(c)
Leave(c) ==
  /\ c \in online
  /\ \A r \in Request : request[r].by = c => request[r].at # "reading"
  /\ online' = online \ {c}
  /\ request' = [r \in Request |->
       IF request[r].by = c /\ request[r].at \in {"auth", "running"}
       THEN [request[r] EXCEPT !.at = "teardown"]
       ELSE IF request[r].by = c /\ request[r].at = "probing" THEN NoRequest ELSE request[r]]
  /\ UNCHANGED <<server, inFlight>>
KeepAliveEnds(c) == Idle(c) /\ Leave(c)

-----------------------------------------------------------------------------
(* Shutdown.                                                               *)

\* onSignal: the second signal of a drain is ignored.
Signal ==
  /\ ~server.signal /\ ~server.exited
  /\ server' = [server EXCEPT !.signal = TRUE]
  /\ UNCHANGED <<online, request, inFlight>>
BudgetSpent ==
  /\ server.signal /\ ~server.late /\ ~server.closing
  /\ server' = [server EXCEPT !.late = TRUE]
  /\ UNCHANGED <<online, request, inFlight>>

\* The poll sees zero, or the deadline: close() stops listening and closes what is idle.
CloseListener ==
  /\ server.signal /\ ~server.closing /\ (inFlight = 0 \/ server.late)
  /\ server' = [server EXCEPT !.closing = TRUE, !.listening = FALSE]
  /\ online' = {c \in online : ~Free(c)}
  /\ UNCHANGED <<request, inFlight>>
\* The callback of close(), then the listener for revocations, then process.exit(0).
AllClosed == online = {}
Exit ==
  /\ server.closing /\ ~server.exited /\ AllClosed
  /\ server' = [server EXCEPT !.exited = TRUE]
  /\ UNCHANGED <<online, request, inFlight>>

\* The process dies and is started again, or is started after it exited.  A body that
\* breaks off is thrown out of the listener, which is such a death.
Restart ==
  /\ server' = Up /\ online' = {} /\ inFlight' = 0
  /\ request' = [r \in Request |-> NoRequest]

HttpNext ==
  \/ \E c \in Client :
       \/ Connect(c) \/ Leave(c)
       \/ \E r \in Request, kind \in {"call", "stream", "probe"} : ReceiveRequest(c, r, kind)
  \/ \E r \in Request :
       \/ AnswerProbe(r) \/ ReadBody(r) \/ Authenticate(r) \/ RefuseRequest(r)
       \/ AnswerCall(r) \/ Teardown(r)
  \/ Signal \/ BudgetSpent \/ CloseListener \/ Exit \/ Restart

\* The server and the tool handlers go on, idle connections time out; no client has to.
HttpFairness ==
  /\ WF_httpVars(BudgetSpent) /\ WF_httpVars(CloseListener) /\ WF_httpVars(Exit)
  /\ \A r \in Request : /\ WF_httpVars(AnswerProbe(r)) /\ WF_httpVars(ReadBody(r))
                        /\ WF_httpVars(Authenticate(r)) /\ WF_httpVars(AnswerCall(r))
                        /\ WF_httpVars(Teardown(r))
  /\ \A c \in Client : SF_httpVars(KeepAliveEnds(c))
HttpFairSpec == HttpInit /\ [][HttpNext]_httpVars /\ HttpFairness

-----------------------------------------------------------------------------
(* Properties.                                                             *)

\* The counter is the number of requests inside the handler, on every path out of it: the
\* drain neither waits for one that has ended nor overlooks one that has not.
CountTrue == inFlight = Cardinality({r \in Request : Counted(r)})

\* An exit on a signal cuts off no request whose client is still there, also when the
\* budget is spent and although new requests are accepted during the drain.
ExitCutsNone == server.exited => \A r \in Request : ~Unanswered(r)

HttpInv == HttpTypeOK /\ CountTrue /\ ExitCutsNone

\* What the comment on the budget says, that the drain ends "before forcibly closing the
\* listener and exiting": a signal is followed by an exit.  (close() waits for the last
\* connection, and an open stream is one: this is refuted.)
SignalExits == server.signal ~> (server.exited \/ server = Up)
=============================================================================
