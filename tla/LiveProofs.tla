----------------------------- MODULE LiveProofs -----------------------------
(***************************************************************************)
(* What goes on between a server and the pages that are connected to it,   *)
(* for every number of requests, streams, pages and attempts: the drain of *)
(* the MCP servers, the bus of announcements and the sign-in gates.        *)
(*                                                                         *)
(* The counter of the drain is exact because a request is counted as long  *)
(* as it is in the handler, and an exit cuts off nobody because whoever is *)
(* not answered is connected (HttpConnected). A connected page misses      *)
(* nothing: what was announced since its stream was opened is on the wire  *)
(* or on its strip (Told). And an answer finds its pane because whatever   *)
(* leaves a pane also stops hearing the attempts that were made in it      *)
(* (Press).                                                                *)
(***************************************************************************)
EXTENDS HttpDrain, ArticleBus, Gates, FiniteSetTheorems, SequenceTheorems, TLAPS

-----------------------------------------------------------------------------
(* The drain.                                                              *)

\* Who is not answered is connected: so the last connection ends after the last answer.
HttpConnected == \A r \in Request : Unanswered(r) => request[r].by \in online
HttpRequest == [at : {"idle", "reading", "auth", "running", "teardown", "probing"},
                by : Client \cup {NULL}, kind : {"call", "stream", "probe", NULL}]
HttpServer == [signal : BOOLEAN, late : BOOLEAN, listening : BOOLEAN, closing : BOOLEAN, exited : BOOLEAN]
InHandler == {r \in Request : Counted(r)}
HttpIInv == /\ server \in HttpServer /\ online \subseteq Client /\ request \in [Request -> HttpRequest]
            /\ inFlight = Cardinality(InHandler) /\ ExitCutsNone /\ HttpConnected

HttpFresh == server = Up /\ online = {} /\ request = [r \in Request |-> NoRequest] /\ inFlight = 0

\* Requests are finitely many.
LEMMA RequestsFinite ==
  ASSUME HttpConstantsOK
  PROVE  IsFiniteSet(Request) /\ IsFiniteSet(InHandler) /\ Cardinality(InHandler) \in 0..Cardinality(Request)
<1>1. IsFiniteSet(Request)
  BY DEF HttpConstantsOK, IsFiniteSet
<1>2. InHandler \subseteq Request
  BY DEF InHandler
<1>3. /\ IsFiniteSet(InHandler) /\ Cardinality(InHandler) <= Cardinality(Request)
      /\ Cardinality(InHandler) \in Nat /\ Cardinality(Request) \in Nat
  BY <1>1, <1>2, FS_Subset, FS_CardinalityType
<1>. QED
  BY <1>1, <1>3

\* A process that has just started serves nobody.
LEMMA HttpStarts ==
  ASSUME HttpConstantsOK PROVE HttpFresh => HttpIInv
<1>. SUFFICES ASSUME HttpFresh PROVE HttpIInv
  OBVIOUS
<1>1. NoRequest \in HttpRequest /\ NoRequest.at = "idle" /\ Up \in HttpServer /\ ~Up.exited
  BY DEF NoRequest, HttpRequest, Up, HttpServer
<1>2. \A r \in Request : request[r] = NoRequest
  BY DEF HttpFresh
<1>3. InHandler = {}
  BY <1>1, <1>2 DEF InHandler, Counted
<1>. QED
  BY <1>1, <1>2, <1>3, FS_EmptySet DEF HttpFresh, HttpIInv, HttpConnected, ExitCutsNone, Unanswered

\* The counter follows the requests in the handler.
LEMMA CounterFollows ==
  ASSUME HttpConstantsOK, HttpIInv, NEW r \in Request,
         \/ InHandler' = InHandler /\ inFlight' = inFlight
         \/ ~Counted(r) /\ InHandler' = InHandler \cup {r} /\ inFlight' = inFlight + 1
         \/ Counted(r) /\ InHandler' = InHandler \ {r} /\ inFlight' = inFlight - 1
  PROVE  inFlight' = Cardinality(InHandler')
<1>1. Counted(r) <=> r \in InHandler
  BY DEF InHandler
<1>2. /\ r \notin InHandler => Cardinality(InHandler \cup {r}) = Cardinality(InHandler) + 1
      /\ r \in InHandler => Cardinality(InHandler \ {r}) = Cardinality(InHandler) - 1
  BY RequestsFinite, FS_AddElement, FS_RemoveElement
<1>. QED
  BY <1>1, <1>2 DEF HttpIInv

\* A request arrives, on an open connection of a process that lives.
LEMMA HttpReceive ==
  ASSUME HttpConstantsOK, HttpIInv, NEW c \in Client, NEW r \in Request, NEW kind \in {"call", "stream", "probe"},
         ReceiveRequest(c, r, kind)
  PROVE  HttpIInv'
<1>1. PICK q \in HttpRequest : /\ request' = [request EXCEPT ![r] = q] /\ q.by = c
                               /\ q.at = IF kind = "probe" THEN "probing" ELSE IF kind = "call" THEN "reading" ELSE "auth"
  <2>. DEFINE stage == CASE kind = "probe" -> "probing" [] kind = "call" -> "reading" [] OTHER -> "auth"
              new == [at |-> stage, by |-> c, kind |-> kind]
  <2>1. stage = IF kind = "probe" THEN "probing" ELSE IF kind = "call" THEN "reading" ELSE "auth"
    OBVIOUS
  <2>2. new \in HttpRequest
    BY <2>1 DEF HttpRequest
  <2>3. request' = [request EXCEPT ![r] = new]
    BY DEF ReceiveRequest
  <2>. QED
    BY <2>1, <2>2, <2>3
<1>2. /\ ~server.exited /\ c \in online /\ request[r].at = "idle" /\ UNCHANGED <<server, online>>
      /\ inFlight' = IF kind = "probe" THEN inFlight ELSE inFlight + 1
  BY DEF ReceiveRequest
<1>3. request' \in [Request -> HttpRequest] /\ request'[r] = q /\ \A o \in Request \ {r} : request'[o] = request[o]
  BY <1>1 DEF HttpIInv
<1>4. InHandler' = (IF kind = "probe" THEN InHandler ELSE InHandler \cup {r}) /\ ~Counted(r)
  BY <1>1, <1>2, <1>3 DEF InHandler, Counted
<1>5. inFlight' = Cardinality(InHandler')
  BY <1>2, <1>4, CounterFollows
<1>6. HttpConnected'
  BY <1>1, <1>2, <1>3 DEF HttpIInv, HttpConnected, Unanswered
<1>. QED
  BY <1>2, <1>3, <1>5, <1>6 DEF HttpIInv, ExitCutsNone

\* A request goes on, or ends.
LEMMA HttpGoesOn ==
  ASSUME HttpConstantsOK, HttpIInv, NEW r \in Request,
         \/ AnswerProbe(r) \/ ReadBody(r) \/ Authenticate(r)
         \/ RefuseRequest(r) \/ AnswerCall(r) \/ Teardown(r)
  PROVE  HttpIInv'
<1>1. UNCHANGED <<server, online>> /\ request[r] \in HttpRequest
  BY DEF HttpIInv, AnswerProbe, ReadBody, Authenticate, RefuseRequest, AnswerCall, Teardown
<1>2. PICK q \in HttpRequest :
        /\ request' = [request EXCEPT ![r] = q]
        /\ \/ q.at \in {"auth", "running", "teardown"} /\ q.by = request[r].by /\ inFlight' = inFlight
              /\ request[r].at \in {"reading", "auth", "running"}
           \/ q = NoRequest /\ request[r].at = "probing" /\ inFlight' = inFlight
           \/ q = NoRequest /\ request[r].at \in {"reading", "auth", "teardown"} /\ inFlight' = inFlight - 1
  <2>1. NoRequest \in HttpRequest
    BY DEF NoRequest, HttpRequest
  <2>2. CASE ReadBody(r) \/ Authenticate(r) \/ AnswerCall(r)
    <3>1. PICK s \in {"auth", "running", "teardown"} : request' = [request EXCEPT ![r].at = s]
      BY <2>2 DEF ReadBody, Authenticate, AnswerCall, RequestGoes
    <3>2. request' = [request EXCEPT ![r] = [request[r] EXCEPT !.at = s]]
      BY <3>1
    <3>3. [request[r] EXCEPT !.at = s] \in HttpRequest
      BY <1>1 DEF HttpRequest
    <3>4. [request[r] EXCEPT !.at = s].at = s /\ [request[r] EXCEPT !.at = s].by = request[r].by
      BY <1>1 DEF HttpRequest
    <3>5. inFlight' = inFlight /\ request[r].at \in {"reading", "auth", "running"}
      BY <2>2 DEF ReadBody, Authenticate, AnswerCall
    <3>. QED
      BY <3>2, <3>3, <3>4, <3>5
  <2>3. CASE AnswerProbe(r)
    BY <2>1, <2>3 DEF AnswerProbe, Ends
  <2>4. CASE RefuseRequest(r) \/ Teardown(r)
    BY <2>1, <2>4 DEF RefuseRequest, Teardown, Ends, Discount
  <2>. QED
    BY <2>2, <2>3, <2>4
<1>3. request' \in [Request -> HttpRequest] /\ request'[r] = q /\ \A o \in Request \ {r} : request'[o] = request[o]
  BY <1>2 DEF HttpIInv
<1>4. /\ Unanswered(r)' => Unanswered(r) /\ q.by = request[r].by
      /\ \A o \in Request \ {r} : (Unanswered(o)' <=> Unanswered(o)) /\ (Counted(o)' <=> Counted(o))
  BY <1>2, <1>3 DEF Unanswered, Counted, NoRequest
<1>5. inFlight' = Cardinality(InHandler')
  <2>1. \/ (Counted(r)' <=> Counted(r)) /\ inFlight' = inFlight
        \/ Counted(r) /\ ~Counted(r)' /\ inFlight' = inFlight - 1
    BY <1>2, <1>3 DEF Counted, NoRequest
  <2>2. \/ InHandler' = InHandler /\ inFlight' = inFlight
        \/ Counted(r) /\ InHandler' = InHandler \ {r} /\ inFlight' = inFlight - 1
    BY <1>4, <2>1 DEF InHandler
  <2>. QED
    BY <2>2, CounterFollows
<1>6. HttpConnected' /\ ExitCutsNone'
  BY <1>1, <1>3, <1>4 DEF HttpIInv, HttpConnected, ExitCutsNone
<1>. QED
  BY <1>1, <1>3, <1>5, <1>6 DEF HttpIInv

\* Clients come, and go when no body of theirs is being read: what they wait for is dropped.
LEMMA HttpClients ==
  ASSUME HttpConstantsOK, HttpIInv, NEW c \in Client, Connect(c) \/ Leave(c) PROVE HttpIInv'
<1>1. CASE Connect(c)
  <2>1. UNCHANGED <<server, request, inFlight>> /\ online' = online \cup {c}
    BY <1>1 DEF Connect
  <2>2. InHandler' = InHandler
    BY <2>1 DEF InHandler, Counted
  <2>. QED
    BY <2>1, <2>2 DEF HttpIInv, HttpConnected, ExitCutsNone, Unanswered
<1>2. CASE Leave(c)
  <2>. DEFINE After(r) == IF request[r].by = c /\ request[r].at \in {"auth", "running"}
                          THEN [request[r] EXCEPT !.at = "teardown"]
                          ELSE IF request[r].by = c /\ request[r].at = "probing" THEN NoRequest ELSE request[r]
  <2>1. /\ online' = online \ {c} /\ UNCHANGED <<server, inFlight>> /\ request' = [r \in Request |-> After(r)]
        /\ \A r \in Request : request[r].by = c => request[r].at # "reading"
    BY <1>2 DEF Leave
  <2>2. ASSUME NEW r \in Request
        PROVE  /\ After(r) \in HttpRequest
               /\ After(r) = request[r] \/ After(r).at \in {"teardown", "idle"}
               /\ After(r).at \in {"reading", "auth", "running", "teardown"}
                    <=> request[r].at \in {"reading", "auth", "running", "teardown"}
               /\ request[r].by = c => After(r).at \notin {"auth", "running", "probing"}
    <3>1. request[r] \in HttpRequest
      BY DEF HttpIInv
    <3>2. NoRequest \in HttpRequest /\ NoRequest.at = "idle"
      BY DEF NoRequest, HttpRequest
    <3>3. [request[r] EXCEPT !.at = "teardown"] \in HttpRequest /\ [request[r] EXCEPT !.at = "teardown"].at = "teardown"
      BY <3>1 DEF HttpRequest
    <3>4. CASE request[r].by = c /\ request[r].at \in {"auth", "running"}
      BY <3>3, <3>4
    <3>5. CASE request[r].by = c /\ request[r].at = "probing"
      BY <3>2, <3>5
    <3>6. CASE ~(request[r].by = c /\ request[r].at \in {"auth", "running", "probing"})
      BY <3>1, <3>6
    <3>. QED
      BY <3>4, <3>5, <3>6
  <2>. HIDE DEF After
  <2>3. \A r \in Request : request'[r] = After(r)
    BY <2>1
  <2>4. InHandler' = InHandler
    BY <2>2, <2>3 DEF InHandler, Counted
  <2>5. request' \in [Request -> HttpRequest]
    BY <2>1, <2>2
  <2>6. \A r \in Request : Unanswered(r)' => Unanswered(r) /\ request'[r] = request[r] /\ request[r].by # c
    BY <2>1, <2>2, <2>3 DEF Unanswered
  <2>. QED
    BY <2>1, <2>4, <2>5, <2>6 DEF HttpIInv, HttpConnected, ExitCutsNone
<1>. QED
  BY <1>1, <1>2

\* The process: the listener closes what is idle, so the last connection ends with the last answer.
LEMMA HttpProcess ==
  ASSUME HttpConstantsOK, HttpIInv, Signal \/ BudgetSpent \/ CloseListener \/ Exit \/ Restart
  PROVE  HttpIInv'
<1>1. CASE Signal \/ BudgetSpent \/ CloseListener \/ Exit
  <2>1. /\ UNCHANGED <<request, inFlight>> /\ online' \subseteq online /\ server' \in HttpServer
        /\ \A c \in online \ online' : Free(c)
    BY <1>1 DEF Signal, BudgetSpent, CloseListener, Exit, HttpIInv, HttpServer
  <2>2. InHandler' = InHandler /\ \A r \in Request : Unanswered(r)' <=> Unanswered(r)
    BY <2>1 DEF InHandler, Counted, Unanswered
  <2>3. HttpConnected'
    BY <2>1, <2>2 DEF HttpIInv, HttpConnected, Free
  <2>4. ExitCutsNone'
    <3>1. CASE Exit
      BY <2>2, <3>1 DEF HttpIInv, HttpConnected, ExitCutsNone, Exit, AllClosed
    <3>2. CASE server'.exited = server.exited
      BY <2>2, <3>2 DEF HttpIInv, ExitCutsNone
    <3>3. Exit \/ server'.exited = server.exited
      BY <1>1 DEF Signal, BudgetSpent, CloseListener, HttpIInv, HttpServer
    <3>. QED
      BY <3>1, <3>2, <3>3
  <2>. QED
    BY <2>1, <2>2, <2>3, <2>4 DEF HttpIInv
<1>2. CASE Restart
  <2>1. /\ server' = Up /\ online' = {} /\ inFlight' = 0 /\ request' = [r \in Request |-> NoRequest]
    BY <1>2 DEF Restart
  <2>2. HttpFresh'
    BY <2>1 DEF HttpFresh
  <2>3. (HttpFresh => HttpIInv)'
    BY HttpStarts, PTL
  <2>. QED
    BY <2>2, <2>3
<1>. QED
  BY <1>1, <1>2

\* At the start, too.
LEMMA HttpBegins ==
  ASSUME HttpConstantsOK, HttpInit PROVE HttpIInv
<1>. QED
  BY HttpStarts DEF HttpInit, HttpFresh

\* Every step of the server and its clients.
LEMMA HttpGoes ==
  ASSUME HttpConstantsOK, HttpIInv, [HttpNext]_httpVars PROVE HttpIInv'
<1>1. CASE HttpNext
  <2>1. ASSUME NEW c \in Client, \/ Connect(c) \/ Leave(c)
                                \/ \E r \in Request, kind \in {"call", "stream", "probe"} : ReceiveRequest(c, r, kind)
        PROVE  HttpIInv'
    BY <2>1, HttpClients, HttpReceive
  <2>2. ASSUME NEW r \in Request, \/ AnswerProbe(r) \/ ReadBody(r) \/ Authenticate(r)
                                 \/ RefuseRequest(r) \/ AnswerCall(r) \/ Teardown(r)
        PROVE  HttpIInv'
    BY <2>2, HttpGoesOn
  <2>3. CASE Signal \/ BudgetSpent \/ CloseListener \/ Exit \/ Restart
    BY <2>3, HttpProcess
  <2>. QED
    BY <1>1, <2>1, <2>2, <2>3 DEF HttpNext
<1>2. CASE UNCHANGED httpVars
  <2>1. InHandler' = InHandler
    BY <1>2 DEF InHandler, Counted, httpVars
  <2>. QED
    BY <1>2, <2>1 DEF HttpIInv, HttpConnected, ExitCutsNone, Unanswered, httpVars
<1>. QED
  BY <1>1, <1>2

\* The invariant says what the properties say.
LEMMA HttpFits ==
  ASSUME HttpConstantsOK, HttpIInv PROVE HttpInv
<1>1. InHandler = {r \in Request : Counted(r)} /\ Cardinality(InHandler) \in 0..Cardinality(Request)
  BY RequestsFinite DEF InHandler
<1>2. CountTrue /\ inFlight \in 0..Cardinality(Request)
  BY <1>1, RequestsFinite DEF HttpIInv, CountTrue
<1>. QED
  BY <1>2 DEF HttpIInv, HttpInv, HttpTypeOK, HttpServer, HttpRequest

\* The counter of the drain is the number of requests inside the handler, and an exit cuts off
\* nobody who is still connected.
THEOREM DrainCounts ==
  ASSUME HttpConstantsOK PROVE HttpInit /\ [][HttpNext]_httpVars => []HttpInv
<1>1. HttpInit => HttpIInv
  BY HttpBegins
<1>2. HttpIInv /\ [HttpNext]_httpVars => HttpIInv'
  BY HttpGoes
<1>3. HttpIInv => HttpInv
  BY HttpFits
<1>. QED
  BY <1>1, <1>2, <1>3, PTL

-----------------------------------------------------------------------------
(* The bus.                                                                *)

\* What a stream is: one that is up is subscribed, and one nobody has asked for is nowhere.
StreamFits(s) ==
  /\ stream[s].conn = "up" => s \in listeners /\ ~stream[s].closed
  /\ stream[s].conn = "unused" => s \notin listeners \cup beating /\ ~stream[s].closed /\ stream[s].wire = <<>> /\ heard[s] = {}
\* What a page is: its connection is up, its strip has no double, and it has missed nothing.
Told(v, s) == heard[s] \subseteq ToSet(stream[s].wire) \cup ToSet(viewer[v].live) \/ Len(viewer[v].live) = MaxLive
PageFits(v) ==
  /\ IsInjective(viewer[v].live)
  /\ IF viewer[v].source = "open" THEN viewer[v].over \in Stream ELSE viewer[v].over = NULL
  /\ viewer[v].source = "open" => stream[viewer[v].over].conn = "up" /\ Told(v, viewer[v].over)
OwnStream == \A v, u \in Viewer :
  viewer[v].source = "open" /\ viewer[u].source = "open" /\ viewer[v].over = viewer[u].over => v = u
BusIInv ==
  /\ BusTypeOK /\ OwnStream
  /\ \A s \in Stream : StreamFits(s)
  /\ \A v \in Viewer : PageFits(v)
StreamRec == [conn : {"unused", "up", "torn", "aborted"}, closed : BOOLEAN, wire : BoundedSeq(News, MaxWire)]
PageRec == [source : {"away", "connecting", "open", "failed"}, over : Stream \cup {NULL},
            live : BoundedSeq(News, MaxLive)]

\* Bounded sequences are the sequences of at most that length.
LEMMA BoundedSeqs ==
  ASSUME BusConstantsOK, NEW S, NEW n \in Nat, NEW s
  PROVE  s \in BoundedSeq(S, n) <=> s \in Seq(S) /\ Len(s) <= n
<1>1. ASSUME s \in BoundedSeq(S, n) PROVE s \in Seq(S) /\ Len(s) <= n
  <2>1. PICK m \in 0..n : s \in [1..m -> S]
    BY <1>1 DEF BoundedSeq, SeqOf
  <2>. QED
    BY <2>1
<1>2. ASSUME s \in Seq(S), Len(s) <= n PROVE s \in BoundedSeq(S, n)
  <2>1. Len(s) \in 0..n /\ s \in [1..Len(s) -> S]
    BY <1>2
  <2>. QED
    BY <2>1 DEF BoundedSeq, SeqOf
<1>. QED
  BY <1>1, <1>2

\* An announcement sent is on the wire, and nothing that was there is lost.
LEMMA WireGrows ==
  ASSUME BusConstantsOK, NEW w \in Seq(News), NEW n \in News
  PROVE  Append(w, n) \in Seq(News) /\ Len(Append(w, n)) = Len(w) + 1
         /\ ToSet(Append(w, n)) = ToSet(w) \cup {n}
<1>1. /\ Append(w, n) \in Seq(News) /\ Len(Append(w, n)) = Len(w) + 1 /\ Len(w) \in Nat
      /\ \A i \in 1..Len(w) + 1 : Append(w, n)[i] = IF i <= Len(w) THEN w[i] ELSE n
      /\ DOMAIN w = 1..Len(w) /\ DOMAIN Append(w, n) = 1..Len(w) + 1
  OBVIOUS
<1>2. ASSUME NEW x \in ToSet(w) \cup {n} PROVE \E i \in 1..Len(w) + 1 : Append(w, n)[i] = x
  <2>1. CASE x = n
    BY <1>1, <2>1
  <2>2. CASE x # n
    <3>1. PICK i \in 1..Len(w) : w[i] = x
      BY <1>1, <2>2 DEF ToSet
    <3>. QED
      BY <1>1, <3>1
  <2>. QED
    BY <2>1, <2>2
<1>3. ASSUME NEW i \in 1..Len(w) + 1 PROVE Append(w, n)[i] \in ToSet(w) \cup {n}
  BY <1>1 DEF ToSet
<1>4. ToSet(Append(w, n)) = {Append(w, n)[i] : i \in 1..Len(w) + 1}
  BY <1>1 DEF ToSet
<1>. QED
  BY <1>1, <1>2, <1>3, <1>4

\* An announcement received leaves the wire, and the others stay.
LEMMA WireShrinks ==
  ASSUME BusConstantsOK, NEW w \in Seq(News), w # <<>>
  PROVE  /\ Head(w) \in News /\ Tail(w) \in Seq(News) /\ Len(Tail(w)) = Len(w) - 1
         /\ ToSet(w) = ToSet(Tail(w)) \cup {Head(w)}
<1>1. /\ Head(w) = w[1] /\ Head(w) \in News /\ Tail(w) \in Seq(News) /\ Len(Tail(w)) = Len(w) - 1
      /\ \A i \in 1..Len(w) - 1 : Tail(w)[i] = w[i + 1]
      /\ DOMAIN w = 1..Len(w) /\ DOMAIN Tail(w) = 1..Len(w) - 1 /\ Len(w) \in Nat \ {0}
  OBVIOUS
<1>2. ASSUME NEW i \in 1..Len(w) PROVE w[i] \in ToSet(Tail(w)) \cup {Head(w)}
  <2>1. CASE i = 1
    BY <1>1, <2>1
  <2>2. CASE i # 1
    <3>1. i - 1 \in DOMAIN Tail(w) /\ Tail(w)[i - 1] = w[i]
      BY <1>1, <2>2
    <3>. QED
      BY <3>1 DEF ToSet
  <2>. QED
    BY <2>1, <2>2
<1>3. ASSUME NEW i \in DOMAIN Tail(w) PROVE Tail(w)[i] \in ToSet(w)
  <2>1. i + 1 \in DOMAIN w /\ w[i + 1] = Tail(w)[i]
    BY <1>1
  <2>. QED
    BY <2>1 DEF ToSet
<1>4. Head(w) \in ToSet(w)
  <2>1. 1 \in DOMAIN w
    BY <1>1
  <2>. QED
    BY <1>1, <2>1 DEF ToSet
<1>5. \A x \in ToSet(Tail(w)) : x \in ToSet(w)
  BY <1>3 DEF ToSet
<1>6. \A x \in ToSet(w) : x \in ToSet(Tail(w)) \cup {Head(w)}
  <2>1. ToSet(w) = {w[i] : i \in 1..Len(w)}
    BY <1>1 DEF ToSet
  <2>. QED
    BY <1>2, <2>1
<1>. QED
  BY <1>1, <1>4, <1>5, <1>6

\* What is filed is shown once, and shown unless the strip is full; a full strip stays full.
LEMMA FiledOnce ==
  ASSUME BusConstantsOK, NEW live \in Seq(News), Len(live) <= MaxLive, IsInjective(live), NEW n \in News
  PROVE  /\ Filed(live, n) \in Seq(News) /\ Len(Filed(live, n)) <= MaxLive
         /\ IsInjective(Filed(live, n))
         /\ Len(live) = MaxLive => Len(Filed(live, n)) = MaxLive
         /\ Len(live) # MaxLive => ToSet(live) \cup {n} \subseteq ToSet(Filed(live, n))
<1>1. MaxLive \in Nat \ {0} /\ Len(live) \in Nat /\ DOMAIN live = 1..Len(live)
  BY DEF BusConstantsOK
<1>2. CASE Contains(live, n)
  <2>1. n \in ToSet(live)
    BY <1>1, <1>2 DEF Contains, ToSet
  <2>. QED
    BY <1>2, <2>1 DEF Filed
<1>3. CASE ~Contains(live, n)
  <2>. DEFINE k == IF Len(live) < MaxLive THEN Len(live) + 1 ELSE MaxLive
              c == <<n>> \o live
              r == SubSeq(c, 1, k)
  <2>1. k \in 1..Len(live) + 1 /\ k <= MaxLive
    BY <1>1
  <2>0. (Len(live) = MaxLive => k = MaxLive) /\ (Len(live) # MaxLive => k = Len(live) + 1)
    <3>0. PICK l \in Nat, x \in Nat : l = Len(live) /\ x = MaxLive /\ l <= x
      BY <1>1
    <3>1. Len(live) # MaxLive => Len(live) < MaxLive
      BY <3>0
    <3>2. Len(live) < MaxLive => k = Len(live) + 1
      OBVIOUS
    <3>3. Len(live) = MaxLive => k = MaxLive
      BY <1>1
    <3>. QED
      BY <3>1, <3>2, <3>3
  <2>2. /\ c \in Seq(News) /\ Len(c) = Len(live) + 1
        /\ \A i \in 1..Len(live) + 1 : c[i] = IF i = 1 THEN n ELSE live[i - 1]
    <3>1. <<n>> \in Seq(News) /\ Len(<<n>>) = 1 /\ <<n>>[1] = n
      OBVIOUS
    <3>. QED
      BY <1>1, <3>1, ConcatProperties
  <2>. HIDE DEF c
  <2>3. /\ r \in Seq(News) /\ Len(r) = k /\ DOMAIN r = 1..k
        /\ \A i \in 1..k : r[i] = IF i = 1 THEN n ELSE live[i - 1]
    <3>1. k \in 1 - 1..Len(c) /\ 1 \in 1..Len(c) + 1
      BY <1>1, <2>1, <2>2
    <3>2. r \in Seq(News) /\ Len(r) = k /\ \A i \in 1..k : r[i] = c[i]
      BY <1>1, <2>1, <2>2, <3>1, SubSeqProperties
    <3>. QED
      BY <1>1, <2>1, <2>2, <3>2
  <2>4. Filed(live, n) = r
    BY <1>3 DEF Filed, c
  <2>. HIDE DEF r, k
  <2>5. IsInjective(r)
    <3>. SUFFICES ASSUME NEW a \in 1..k, NEW b \in 1..k, r[a] = r[b] PROVE a = b
      BY <2>3 DEF IsInjective
    <3>1. \A i \in 1..Len(live) : live[i] # n
      BY <1>3 DEF Contains
    <3>2. \A i, j \in 1..Len(live) : live[i] = live[j] => i = j
      BY <1>1 DEF IsInjective
    <3>3. (a # 1 => a - 1 \in 1..Len(live)) /\ (b # 1 => b - 1 \in 1..Len(live)) /\ a \in Nat /\ b \in Nat
      BY <1>1, <2>1
    <3>4. CASE a = 1
      BY <2>3, <3>1, <3>3, <3>4
    <3>5. CASE a # 1
      <4>1. b # 1 /\ live[a - 1] = live[b - 1]
        BY <2>3, <3>1, <3>3, <3>5
      <4>2. a - 1 = b - 1
        BY <3>2, <3>3, <3>5, <4>1
      <4>. QED
        BY <3>3, <4>2
    <3>. QED
      BY <3>4, <3>5
  <2>6. ASSUME Len(live) # MaxLive PROVE ToSet(live) \cup {n} \subseteq ToSet(r)
    <3>1. k = Len(live) + 1
      BY <2>0, <2>6
    <3>2. n \in ToSet(r)
      <4>1. 1 \in DOMAIN r /\ r[1] = n
        BY <1>1, <2>3, <3>1
      <4>. QED
        BY <4>1 DEF ToSet
    <3>3. ASSUME NEW i \in DOMAIN live PROVE live[i] \in ToSet(r)
      <4>1. i + 1 \in DOMAIN r /\ r[i + 1] = live[i]
        BY <1>1, <2>3, <3>1
      <4>. QED
        BY <4>1 DEF ToSet
    <3>. QED
      BY <3>2, <3>3 DEF ToSet
  <2>. QED
    BY <2>0, <2>1, <2>3, <2>4, <2>5, <2>6
<1>. QED
  BY <1>2, <1>3

\* A page nothing happens to, and whose stream keeps what it had, fits on.
LEMMA PageStays ==
  ASSUME BusConstantsOK, BusIInv, NEW v \in Viewer, viewer'[v] = viewer[v],
         viewer[v].source = "open" => stream'[viewer[v].over] = stream[viewer[v].over] /\ heard'[viewer[v].over] = heard[viewer[v].over]
  PROVE  PageFits(v)'
  BY DEF BusIInv, PageFits, Told

\* The GET of a page: its stream is subscribed and nothing has been announced on it.
LEMMA StreamOpens ==
  ASSUME BusConstantsOK, BusIInv, NEW v \in Viewer, NEW s \in Stream, OpenStream(v, s)
  PROVE  BusIInv'
<1>1. stream \in [Stream -> StreamRec] /\ viewer \in [Viewer -> PageRec] /\ listeners \subseteq Stream /\ beating \subseteq Stream /\ NULL \notin Stream
  BY DEF BusIInv, BusTypeOK, StreamRec, PageRec, BusConstantsOK
<1>2. viewer[v].source = "connecting" /\ stream[s].conn = "unused" /\ UNCHANGED <<mayWatch, heard>>
  BY DEF OpenStream
<1>3. PageFits(v) /\ viewer[v].over = NULL /\ StreamFits(s)
  BY <1>2 DEF BusIInv, PageFits
<1>4. \A u \in Viewer : viewer[u].source = "open" => viewer[u].over # s /\ viewer[u].over \in Stream
  BY <1>2 DEF BusIInv, PageFits
<1>5. CASE mayWatch
  <2>1. /\ stream' = [stream EXCEPT ![s].conn = "up"] /\ listeners' = listeners \cup {s} /\ beating' = beating \cup {s}
        /\ viewer' = [viewer EXCEPT ![v].source = "open", ![v].over = s]
    BY <1>5 DEF OpenStream
  <2>2. /\ stream'[s].conn = "up" /\ stream'[s].closed = stream[s].closed /\ stream'[s].wire = stream[s].wire /\ stream'[s] \in StreamRec
        /\ \A x \in Stream \ {s} : stream'[x] = stream[x]
    BY <1>1, <2>1 DEF StreamRec
  <2>3. /\ viewer'[v].source = "open" /\ viewer'[v].over = s /\ viewer'[v].live = viewer[v].live /\ viewer'[v] \in PageRec
        /\ \A u \in Viewer \ {v} : viewer'[u] = viewer[u]
    BY <1>1, <2>1 DEF PageRec
  <2>4. BusTypeOK'
    BY <1>1, <1>2, <2>1, <2>2, <2>3 DEF BusIInv, BusTypeOK, StreamRec, PageRec
  <2>5. \A x \in Stream : StreamFits(x)'
    BY <1>2, <1>3, <2>1, <2>2 DEF BusIInv, StreamFits
  <2>6. ASSUME NEW u \in Viewer PROVE PageFits(u)'
    <3>1. CASE u = v
      <4>1. heard'[s] = {}
        BY <1>2, <1>3 DEF StreamFits
      <4>2. Told(v, s)'
        BY <4>1 DEF Told
      <4>. QED
        BY <1>3, <2>2, <2>3, <3>1, <4>2 DEF PageFits
    <3>2. CASE u # v
      BY <1>2, <1>4, <2>2, <2>3, <3>2, PageStays
    <3>. QED
      BY <3>1, <3>2
  <2>7. OwnStream'
    BY <1>4, <2>3 DEF BusIInv, OwnStream
  <2>. QED
    BY <2>4, <2>5, <2>6, <2>7 DEF BusIInv
<1>6. CASE ~mayWatch
  <2>1. viewer' = [viewer EXCEPT ![v].source = "failed"] /\ UNCHANGED <<listeners, beating, stream>>
    BY <1>6 DEF OpenStream
  <2>2. /\ viewer'[v].source = "failed" /\ viewer'[v].over = viewer[v].over /\ viewer'[v].live = viewer[v].live /\ viewer'[v] \in PageRec
        /\ \A u \in Viewer \ {v} : viewer'[u] = viewer[u]
    BY <1>1, <2>1 DEF PageRec
  <2>3. BusTypeOK'
    BY <1>1, <1>2, <2>1, <2>2 DEF BusIInv, BusTypeOK, StreamRec, PageRec
  <2>4. \A x \in Stream : StreamFits(x)'
    BY <1>2, <2>1 DEF BusIInv, StreamFits
  <2>5. ASSUME NEW u \in Viewer PROVE PageFits(u)'
    <3>1. CASE u = v
      BY <1>2, <1>3, <2>2, <3>1 DEF PageFits
    <3>2. CASE u # v
      BY <1>2, <2>1, <2>2, <3>2, PageStays
    <3>. QED
      BY <3>1, <3>2
  <2>6. OwnStream'
    BY <2>2 DEF BusIInv, OwnStream
  <2>. QED
    BY <2>3, <2>4, <2>5, <2>6 DEF BusIInv
<1>. QED
  BY <1>5, <1>6

\* An announcement: every stream that is up has it on the wire.
LEMMA EveryoneTold ==
  ASSUME BusConstantsOK, BusIInv, NEW n \in News, TestEvent(n)
  PROVE  BusIInv'
<1>1. /\ stream \in [Stream -> StreamRec] /\ viewer \in [Viewer -> PageRec] /\ listeners \subseteq Stream
      /\ heard \in [Stream -> SUBSET News] /\ MaxWire \in Nat /\ UNCHANGED <<listeners, beating, viewer, mayWatch>>
  BY DEF BusIInv, BusTypeOK, StreamRec, PageRec, BusConstantsOK, TestEvent
<1>2. /\ stream' = [s \in Stream |-> IF s \in listeners THEN Enqueued(s, n) ELSE stream[s]]
      /\ heard' = [s \in Stream |-> heard[s] \cup {x \in {n} : stream[s].conn = "up"}]
      /\ \A s \in listeners : Len(stream[s].wire) < MaxWire
  BY DEF TestEvent, Published
<1>3. ASSUME NEW s \in Stream
      PROVE  /\ stream'[s] \in StreamRec /\ stream'[s].conn = stream[s].conn
             /\ stream[s].conn # "up" => heard'[s] = heard[s] /\ stream'[s].wire = stream[s].wire
             /\ stream[s].conn = "up" => /\ ~stream'[s].closed /\ heard'[s] = heard[s] \cup {n}
                                         /\ ToSet(stream'[s].wire) = ToSet(stream[s].wire) \cup {n}
             /\ s \notin listeners => stream'[s] = stream[s]
  <2>1. stream[s] \in StreamRec /\ StreamFits(s) /\ stream[s].wire \in Seq(News) /\ Len(stream[s].wire) \in Nat
    BY <1>1, BoundedSeqs DEF BusIInv, StreamRec
  <2>2. heard'[s] = IF stream[s].conn = "up" THEN heard[s] \cup {n} ELSE heard[s]
    BY <1>2
  <2>3. CASE s \notin listeners
    BY <1>2, <2>1, <2>2, <2>3 DEF StreamFits
  <2>4. CASE s \in listeners /\ stream[s].closed
    BY <1>2, <2>1, <2>2, <2>4 DEF StreamFits, Enqueued
  <2>5. CASE s \in listeners /\ ~stream[s].closed /\ stream[s].conn = "up"
    <3>1. PICK w : w = Append(stream[s].wire, n)
      OBVIOUS
    <3>2. stream'[s] = [stream[s] EXCEPT !.wire = w]
      BY <1>2, <2>5, <3>1 DEF Enqueued
    <3>3. w \in Seq(News) /\ Len(w) = Len(stream[s].wire) + 1 /\ ToSet(w) = ToSet(stream[s].wire) \cup {n}
      BY <2>1, <3>1, WireGrows
    <3>4. Len(w) <= MaxWire
      BY <1>1, <1>2, <2>1, <2>5, <3>3
    <3>5. w \in BoundedSeq(News, MaxWire)
      BY <1>1, <3>3, <3>4, BoundedSeqs
    <3>. QED
      BY <2>1, <2>2, <2>5, <3>2, <3>3, <3>5 DEF StreamRec
  <2>6. CASE s \in listeners /\ ~stream[s].closed /\ stream[s].conn # "up"
    <3>1. stream'[s] = [stream[s] EXCEPT !.closed = TRUE]
      BY <1>2, <2>6 DEF Enqueued
    <3>. QED
      BY <2>1, <2>2, <2>6, <3>1 DEF StreamRec
  <2>. QED
    BY <2>3, <2>4, <2>5, <2>6
<1>4. BusTypeOK'
  <2>1. stream' \in [Stream -> StreamRec]
    BY <1>2, <1>3
  <2>2. heard' \in [Stream -> SUBSET News]
    BY <1>1, <1>2
  <2>. QED
    BY <1>1, <2>1, <2>2 DEF BusIInv, BusTypeOK, StreamRec
<1>5. \A s \in Stream : StreamFits(s)'
  BY <1>1, <1>3 DEF BusIInv, StreamFits
<1>6. ASSUME NEW v \in Viewer PROVE PageFits(v)'
  <2>1. PageFits(v) /\ viewer'[v] = viewer[v]
    BY <1>1 DEF BusIInv
  <2>2. ASSUME viewer[v].source = "open" PROVE Told(v, viewer[v].over)'
    <3>1. PICK s \in Stream : s = viewer[v].over /\ stream[s].conn = "up" /\ Told(v, s)
      BY <2>1, <2>2 DEF PageFits
    <3>2. heard'[s] = heard[s] \cup {n} /\ ToSet(stream'[s].wire) = ToSet(stream[s].wire) \cup {n}
      BY <1>3, <3>1
    <3>3. heard[s] \subseteq ToSet(stream[s].wire) \cup ToSet(viewer[v].live) \/ Len(viewer[v].live) = MaxLive
      BY <3>1 DEF Told
    <3>4. heard'[s] \subseteq ToSet(stream'[s].wire) \cup ToSet(viewer'[v].live) \/ Len(viewer'[v].live) = MaxLive
      BY <2>1, <3>2, <3>3
    <3>5. viewer'[v].over = s
      BY <2>1, <3>1
    <3>. QED
      BY <1>1, <3>1, <3>4 DEF Told
  <2>. QED
    BY <1>1, <1>3, <2>1, <2>2 DEF PageFits
<1>7. OwnStream'
  BY <1>1 DEF BusIInv, OwnStream
<1>. QED
  BY <1>4, <1>5, <1>6, <1>7 DEF BusIInv

\* A stream that is not up is closed, or its request ends.
LEMMA StreamCloses ==
  ASSUME BusConstantsOK, BusIInv, NEW s \in Stream, Heartbeat(s) \/ AbortStream(s)
  PROVE  BusIInv'
<1>1. /\ stream \in [Stream -> StreamRec] /\ listeners \subseteq Stream /\ beating \subseteq Stream /\ MaxWire \in Nat
      /\ UNCHANGED <<viewer, mayWatch, heard>>
  BY DEF BusIInv, BusTypeOK, StreamRec, BusConstantsOK, Heartbeat,
     AbortStream
<1>2. stream[s].conn # "up" /\ listeners' \subseteq listeners /\ beating' \subseteq beating /\ \A x \in Stream \ {s} : x \in listeners => x \in listeners'
  BY DEF Heartbeat, AbortStream, Cleaned
<1>3. /\ stream' \in [Stream -> StreamRec] /\ \A x \in Stream \ {s} : stream'[x] = stream[x]
      /\ stream'[s].conn \notin {"up", "unused"}
  <2>1. CASE Heartbeat(s)
    <3>1. stream' = [stream EXCEPT ![s].closed = TRUE] /\ stream[s].conn # "unused"
      BY <2>1 DEF Heartbeat, BusIInv, StreamFits
    <3>. QED
      BY <1>1, <1>2, <3>1 DEF StreamRec
  <2>2. CASE AbortStream(s)
    <3>1. <<>> \in BoundedSeq(News, MaxWire)
      <4>1. <<>> \in Seq(News)
        OBVIOUS
      <4>2. Len(<<>>) <= MaxWire
        BY <1>1
      <4>. QED
        BY <1>1, <4>1, <4>2, BoundedSeqs
    <3>2. PICK e \in BoundedSeq(News, MaxWire) : stream' = [stream EXCEPT ![s].conn = "aborted", ![s].closed = TRUE, ![s].wire = e]
      BY <2>2, <3>1 DEF AbortStream
    <3>. QED
      BY <1>1, <3>2 DEF StreamRec
  <2>. QED
    BY <2>1, <2>2
<1>4. BusTypeOK'
  BY <1>1, <1>2, <1>3 DEF BusIInv, BusTypeOK, StreamRec
<1>5. \A x \in Stream : StreamFits(x)'
  BY <1>1, <1>2, <1>3 DEF BusIInv, StreamFits
<1>6. ASSUME NEW v \in Viewer PROVE PageFits(v)'
  BY <1>1, <1>2, <1>3, PageStays DEF BusIInv, PageFits
<1>7. OwnStream'
  BY <1>1 DEF BusIInv, OwnStream
<1>. QED
  BY <1>4, <1>5, <1>6, <1>7 DEF BusIInv

\* An empty wire and an empty strip are within their bounds.
LEMMA NothingYet ==
  ASSUME BusConstantsOK
  PROVE  <<>> \in BoundedSeq(News, MaxWire) /\ <<>> \in BoundedSeq(News, MaxLive) /\ IsInjective(<<>>)
<1>1. MaxWire \in Nat /\ MaxLive \in Nat
  BY DEF BusConstantsOK
<1>2. <<>> \in Seq(News)
  OBVIOUS
<1>3. Len(<<>>) <= MaxWire /\ Len(<<>>) <= MaxLive
  BY <1>1
<1>4. IsInjective(<<>>)
  BY DEF IsInjective
<1>. QED
  BY <1>1, <1>2, <1>3, <1>4, BoundedSeqs

\* A page takes the next announcement off its wire and files it.
LEMMA PageReceives ==
  ASSUME BusConstantsOK, BusIInv, NEW v \in Viewer, Receive(v)
  PROVE  BusIInv'
<1>1. /\ stream \in [Stream -> StreamRec] /\ viewer \in [Viewer -> PageRec] /\ UNCHANGED <<listeners, beating, mayWatch, heard>>
      /\ MaxWire \in Nat /\ MaxLive \in Nat \ {0}
  BY DEF BusIInv, BusTypeOK, StreamRec, PageRec, BusConstantsOK, Receive
<1>2. PICK s : s = viewer[v].over
  OBVIOUS
<1>3. viewer[v].source = "open" /\ s \in Stream /\ stream[s].conn = "up" /\ Told(v, s) /\ IsInjective(viewer[v].live)
  BY <1>2 DEF Receive, BusIInv, PageFits
<1>4. PICK w, l : w = stream[s].wire /\ l = viewer[v].live
  OBVIOUS
<1>5. /\ viewer' = [viewer EXCEPT ![v].live = Filed(l, Head(w))] /\ stream' = [stream EXCEPT ![s].wire = Tail(w)] /\ w # <<>>
  BY <1>1, <1>2, <1>3, <1>4 DEF Receive
<1>6. w \in Seq(News) /\ Len(w) <= MaxWire /\ l \in Seq(News) /\ Len(l) <= MaxLive /\ Len(w) \in Nat
  BY <1>1, <1>3, <1>4, BoundedSeqs DEF StreamRec, PageRec
<1>7. PICK h, t, r : h = Head(w) /\ t = Tail(w) /\ r = Filed(l, h)
  OBVIOUS
<1>8. h \in News /\ t \in Seq(News) /\ Len(t) = Len(w) - 1 /\ ToSet(w) = ToSet(t) \cup {h}
  BY <1>5, <1>6, <1>7, WireShrinks
<1>9. /\ r \in Seq(News) /\ Len(r) <= MaxLive /\ IsInjective(r) /\ (Len(l) = MaxLive => Len(r) = MaxLive)
      /\ Len(l) # MaxLive => ToSet(l) \cup {h} \subseteq ToSet(r)
  BY <1>3, <1>4, <1>6, <1>7, <1>8, FiledOnce
<1>10. t \in BoundedSeq(News, MaxWire) /\ r \in BoundedSeq(News, MaxLive)
  <2>1. Len(t) <= MaxWire
    BY <1>1, <1>6, <1>8
  <2>. QED
    BY <1>1, <1>8, <1>9, <2>1, BoundedSeqs
<1>11. /\ stream' = [stream EXCEPT ![s].wire = t] /\ viewer' = [viewer EXCEPT ![v].live = r]
  BY <1>5, <1>7
<1>12. /\ stream'[s].wire = t /\ stream'[s].conn = "up" /\ stream'[s].closed = stream[s].closed /\ stream'[s] \in StreamRec
       /\ \A x \in Stream \ {s} : stream'[x] = stream[x]
  BY <1>1, <1>3, <1>10, <1>11 DEF StreamRec
<1>13. /\ viewer'[v].live = r /\ viewer'[v].source = "open" /\ viewer'[v].over = s /\ viewer'[v] \in PageRec
       /\ \A u \in Viewer \ {v} : viewer'[u] = viewer[u]
  BY <1>1, <1>2, <1>3, <1>10, <1>11 DEF PageRec
<1>14. BusTypeOK'
  <2>1. stream' \in [Stream -> StreamRec] /\ viewer' \in [Viewer -> PageRec]
    BY <1>1, <1>11, <1>12, <1>13
  <2>. QED
    BY <1>1, <2>1 DEF BusIInv, BusTypeOK, StreamRec, PageRec
<1>15. \A x \in Stream : StreamFits(x)'
  BY <1>1, <1>3, <1>12 DEF BusIInv, StreamFits
<1>16. Told(v, s)'
  <2>1. heard[s] \subseteq ToSet(w) \cup ToSet(l) \/ Len(l) = MaxLive
    BY <1>3, <1>4 DEF Told
  <2>2. heard'[s] \subseteq ToSet(t) \cup ToSet(r) \/ Len(r) = MaxLive
    BY <1>1, <1>8, <1>9, <2>1
  <2>. QED
    BY <1>12, <1>13, <2>2 DEF Told
<1>17. ASSUME NEW u \in Viewer PROVE PageFits(u)'
  <2>1. CASE u = v
    BY <1>3, <1>9, <1>12, <1>13, <1>16, <2>1 DEF PageFits
  <2>2. CASE u # v
    <3>1. viewer[u].source = "open" => viewer[u].over # s /\ viewer[u].over \in Stream
      BY <1>2, <1>3, <2>2 DEF BusIInv, OwnStream, PageFits
    <3>. QED
      BY <1>1, <1>12, <1>13, <2>2, <3>1, PageStays
  <2>. QED
    BY <2>1, <2>2
<1>18. OwnStream'
  BY <1>2, <1>3, <1>13 DEF BusIInv, OwnStream
<1>. QED
  BY <1>14, <1>15, <1>17, <1>18 DEF BusIInv

\* A page is without a connection from now on, and the one it had is torn.
LEMMA PageLeaves ==
  ASSUME BusConstantsOK, BusIInv, NEW v \in Viewer, UNCHANGED <<listeners, beating, mayWatch, heard>>,
         stream' \in [Stream -> StreamRec], \A x \in Stream : x # viewer[v].over => stream'[x] = stream[x],
         \A x \in Stream : x = viewer[v].over => stream'[x].conn = "torn",
         viewer' = [viewer EXCEPT ![v] = viewer'[v]], viewer'[v] \in PageRec, viewer'[v].source # "open", viewer'[v].over = NULL,
         IsInjective(viewer'[v].live)
  PROVE  BusIInv'
<1>1. viewer \in [Viewer -> PageRec]
  BY DEF BusIInv, BusTypeOK, PageRec
<1>2. \A u \in Viewer \ {v} : viewer'[u] = viewer[u]
  BY <1>1
<1>3. BusTypeOK'
  <2>1. viewer' \in [Viewer -> PageRec]
    BY <1>1
  <2>. QED
    BY <2>1 DEF BusIInv, BusTypeOK, StreamRec, PageRec
<1>4. \A x \in Stream : StreamFits(x)'
  BY DEF BusIInv, StreamFits
<1>5. ASSUME NEW u \in Viewer PROVE PageFits(u)'
  <2>1. CASE u = v
    BY <2>1 DEF PageFits
  <2>2. CASE u # v
    <3>1. viewer[u].source = "open" => viewer[u].over # viewer[v].over /\ viewer[u].over \in Stream
      <4>1. NULL \notin Stream
        BY DEF BusConstantsOK
      <4>. QED
        BY <2>2, <4>1 DEF BusIInv, OwnStream, PageFits
    <3>. QED
      BY <1>2, <2>2, <3>1, PageStays
  <2>. QED
    BY <2>1, <2>2
<1>6. OwnStream'
  BY <1>2 DEF BusIInv, OwnStream
<1>. QED
  BY <1>3, <1>4, <1>5, <1>6 DEF BusIInv

\* The network drops a connection, a page is left, or opened anew.
LEMMA PageGoes ==
  ASSUME BusConstantsOK, BusIInv, NEW v \in Viewer, Tear(v) \/ LeavePage(v) \/ BackToPage(v)
  PROVE  BusIInv'
<1>1. /\ stream \in [Stream -> StreamRec] /\ viewer \in [Viewer -> PageRec] /\ UNCHANGED <<listeners, beating, mayWatch, heard>> /\ NULL \notin Stream
  BY DEF BusIInv, BusTypeOK, StreamRec, PageRec, BusConstantsOK, Tear,
     LeavePage, BackToPage
<1>2. PICK e : e = <<>> /\ e \in BoundedSeq(News, MaxWire) /\ e \in BoundedSeq(News, MaxLive) /\ IsInjective(e)
  BY NothingYet
<1>3. PageFits(v)
  BY DEF BusIInv
<1>4. NewPage \in PageRec /\ NewPage.source = "connecting" /\ NewPage.over = NULL /\ NewPage.live = e
  BY <1>2 DEF NewPage, PageRec
<1>5. CASE Tear(v)
  <2>1. PICK s \in Stream : s = viewer[v].over
    BY <1>3, <1>5 DEF Tear, PageFits
  <2>2. /\ viewer' = [viewer EXCEPT ![v].source = "connecting", ![v].over = NULL]
        /\ stream' = [stream EXCEPT ![s].conn = "torn", ![s].wire = e]
    BY <1>2, <1>5, <2>1 DEF Tear
  <2>3. stream' \in [Stream -> StreamRec] /\ stream'[s].conn = "torn" /\ \A x \in Stream \ {s} : stream'[x] = stream[x]
    BY <1>1, <1>2, <2>2 DEF StreamRec
  <2>4. /\ viewer'[v] \in PageRec /\ viewer'[v].source # "open" /\ viewer'[v].over = NULL /\ viewer'[v].live = viewer[v].live
        /\ viewer' = [viewer EXCEPT ![v] = viewer'[v]]
    BY <1>1, <2>2 DEF PageRec
  <2>. QED
    BY <1>1, <1>3, <2>1, <2>3, <2>4, PageLeaves DEF PageFits
<1>6. CASE LeavePage(v)
  <2>1. /\ viewer' = [viewer EXCEPT ![v] = [NewPage EXCEPT !.source = "away"]]
        /\ stream' = [s \in Stream |-> IF s = viewer[v].over THEN [stream[s] EXCEPT !.conn = "torn", !.wire = e] ELSE stream[s]]
    BY <1>2, <1>6 DEF LeavePage
  <2>2. ASSUME NEW s \in Stream
        PROVE  /\ stream'[s] \in StreamRec /\ (s = viewer[v].over => stream'[s].conn = "torn")
               /\ s # viewer[v].over => stream'[s] = stream[s]
    <3>1. stream[s] \in StreamRec
      BY <1>1
    <3>2. stream'[s] = IF s = viewer[v].over THEN [stream[s] EXCEPT !.conn = "torn", !.wire = e] ELSE stream[s]
      BY <2>1
    <3>. QED
      BY <1>2, <3>1, <3>2 DEF StreamRec
  <2>3. stream' \in [Stream -> StreamRec]
    BY <2>1, <2>2
  <2>4. /\ viewer'[v] \in PageRec /\ viewer'[v].source # "open" /\ viewer'[v].over = NULL /\ viewer'[v].live = e
        /\ viewer' = [viewer EXCEPT ![v] = viewer'[v]]
    BY <1>1, <1>4, <2>1 DEF PageRec
  <2>. QED
    BY <1>1, <1>2, <2>2, <2>3, <2>4, PageLeaves
<1>7. CASE BackToPage(v)
  <2>1. viewer' = [viewer EXCEPT ![v] = NewPage] /\ stream' = stream /\ viewer[v].over = NULL
    BY <1>3, <1>7 DEF BackToPage, PageFits
  <2>2. /\ viewer'[v] \in PageRec /\ viewer'[v].source # "open" /\ viewer'[v].over = NULL /\ viewer'[v].live = e
        /\ viewer' = [viewer EXCEPT ![v] = viewer'[v]]
    BY <1>1, <1>4, <2>1
  <2>3. /\ stream' \in [Stream -> StreamRec]
        /\ \A x \in Stream : x # viewer[v].over => stream'[x] = stream[x]
        /\ \A x \in Stream : x = viewer[v].over => stream'[x].conn = "torn"
        /\ IsInjective(viewer'[v].live)
    BY <1>1, <1>2, <2>1, <2>2
  <2>. QED
    BY <1>1, <2>2, <2>3, PageLeaves
<1>. QED
  BY <1>5, <1>6, <1>7

\* The web process is replaced: no connection is up, and every page tries again.
LEMMA BusRestarts ==
  ASSUME BusConstantsOK, BusIInv, WebRestart
  PROVE  BusIInv'
<1>1. /\ stream \in [Stream -> StreamRec] /\ viewer \in [Viewer -> PageRec] /\ UNCHANGED <<mayWatch, heard>> /\ listeners' = {} /\ beating' = {}
  BY DEF BusIInv, BusTypeOK, StreamRec, PageRec, WebRestart
<1>2. PICK e : e = <<>> /\ e \in BoundedSeq(News, MaxWire)
  BY NothingYet
<1>3. ASSUME NEW s \in Stream PROVE stream'[s] \in StreamRec /\ StreamFits(s)'
  <2>1. stream'[s] = IF stream[s].conn = "unused" THEN NoStream ELSE [conn |-> "aborted", closed |-> TRUE, wire |-> e]
    BY <1>2 DEF WebRestart
  <2>2. NoStream = [conn |-> "unused", closed |-> FALSE, wire |-> e]
    BY <1>2 DEF NoStream
  <2>3. stream'[s] \in StreamRec
    BY <1>2, <2>1, <2>2 DEF StreamRec
  <2>. QED
    BY <1>1, <1>2, <2>1, <2>2, <2>3 DEF StreamFits, BusIInv
<1>4. ASSUME NEW v \in Viewer PROVE viewer'[v] \in PageRec /\ viewer'[v].source # "open" /\ PageFits(v)'
  <2>1. viewer'[v] = IF viewer[v].source = "open" THEN [viewer[v] EXCEPT !.source = "connecting", !.over = NULL] ELSE viewer[v]
    BY DEF WebRestart
  <2>2. viewer[v] \in PageRec /\ PageFits(v)
    BY <1>1 DEF BusIInv
  <2>3. /\ viewer'[v] \in PageRec /\ viewer'[v].source # "open" /\ viewer'[v].live = viewer[v].live /\ viewer'[v].over = NULL
    BY <2>1, <2>2 DEF PageRec, PageFits
  <2>. QED
    BY <2>2, <2>3 DEF PageFits
<1>5. BusTypeOK'
  <2>1. stream' \in [Stream -> StreamRec] /\ viewer' \in [Viewer -> PageRec]
    BY <1>3, <1>4 DEF WebRestart
  <2>. QED
    BY <1>1, <2>1 DEF BusIInv, BusTypeOK, StreamRec, PageRec
<1>6. OwnStream'
  BY <1>4 DEF OwnStream
<1>. QED
  BY <1>3, <1>4, <1>5, <1>6 DEF BusIInv

\* At first every page asks for its stream, and nothing was announced.
LEMMA BusBegins ==
  ASSUME BusConstantsOK, BusInit PROVE BusIInv
<1>1. PICK e : e = <<>> /\ e \in BoundedSeq(News, MaxWire) /\ e \in BoundedSeq(News, MaxLive) /\ IsInjective(e)
  BY NothingYet
<1>2. /\ listeners = {} /\ beating = {} /\ mayWatch = TRUE /\ heard = [s \in Stream |-> {}]
      /\ stream = [s \in Stream |-> [conn |-> "unused", closed |-> FALSE, wire |-> e]]
      /\ viewer = [v \in Viewer |-> [source |-> "connecting", over |-> NULL, live |-> e]]
  BY <1>1 DEF BusInit, NoStream, NewPage
<1>3. BusTypeOK
  BY <1>1, <1>2 DEF BusTypeOK
<1>4. \A s \in Stream : StreamFits(s)
  BY <1>1, <1>2 DEF StreamFits
<1>5. \A v \in Viewer : PageFits(v)
  BY <1>1, <1>2 DEF PageFits
<1>6. OwnStream
  BY <1>2 DEF OwnStream
<1>. QED
  BY <1>3, <1>4, <1>5, <1>6 DEF BusIInv

\* Every step of the live updates.
LEMMA BusGoes ==
  ASSUME BusConstantsOK, BusIInv, [BusNext]_busVars
  PROVE  BusIInv'
<1>1. CASE UNCHANGED <<listeners, beating, stream, viewer, heard>> /\ mayWatch' \in BOOLEAN
  <2>1. BusTypeOK'
    BY <1>1 DEF BusIInv, BusTypeOK
  <2>2. \A s \in Stream : StreamFits(s)'
    BY <1>1 DEF BusIInv, StreamFits
  <2>3. \A v \in Viewer : PageFits(v)'
    BY <1>1, PageStays
  <2>4. OwnStream'
    BY <1>1 DEF BusIInv, OwnStream
  <2>. QED
    BY <2>1, <2>2, <2>3, <2>4 DEF BusIInv
<1>2. CASE SessionFlips
  BY <1>1, <1>2 DEF SessionFlips
<1>3. CASE UNCHANGED busVars
  BY <1>1, <1>3 DEF BusIInv, BusTypeOK, busVars
<1>. QED
  BY <1>2, <1>3, StreamOpens, EveryoneTold, StreamCloses, PageReceives, PageGoes, BusRestarts DEF BusNext

\* The invariant says what the properties say.
LEMMA BusFits ==
  ASSUME BusConstantsOK, BusIInv PROVE BusInv
<1>. QED
  BY DEF BusIInv, PageFits, Told, BusInv, NothingMissed, OneTileEach, Tiles

\* A page that is connected has missed no announcement its strip has room for, and shows each
\* article once, over whatever aborts, reconnections and restarts.
THEOREM NoNewsMissed ==
  ASSUME BusConstantsOK PROVE BusInit /\ [][BusNext]_busVars => []BusInv
<1>1. BusInit => BusIInv
  BY BusBegins
<1>2. BusIInv /\ [BusNext]_busVars => BusIInv'
  BY BusGoes
<1>3. BusIInv => BusInv
  BY BusFits
<1>. QED
  BY <1>1, <1>2, <1>3, PTL

-----------------------------------------------------------------------------
(* The gates.                                                              *)

AttemptRec ==
  [at : {"idle", "sent", "start", "sheet", "finish", "done", "refused", "over"},
   kind : TwoStep \cup OneStep \cup {NULL}, by : GateTab \cup {NULL},
   cookie : BOOLEAN, key : Attempt \cup {NULL}]
AskingPanes == UNION {Panes(k) : k \in TwoStep \cup OneStep}
TabRec == [path : {"settings", "recover", "forum", "away"}, pane : AskingPanes \cup {"code", "feed", "recover", "away"}]
\* The panes an attempt of a kind may find when it is answered.
Awaits(kind) == Panes(kind) \cup (IF kind \in {"enroll", "regenerate"} THEN {"code"} ELSE {})
\* An attempt q under the name a: one under way has a kind and, if it is heard, its pane; a
\* registration has made its passkey; the code an attempt has issued is with its answer.
Press(a, q) ==
  /\ q.at \in {"idle", "over"} => q.by = NULL
  /\ q.at \notin {"idle", "over"} => q.kind \in TwoStep \cup OneStep
  /\ q.by # NULL => tab[q.by].pane \in Awaits(q.kind)
  /\ q.at = "finish" /\ q.kind \in {"enroll", "join"} => a \in device
  /\ a \in liveCodes => q.at \in {"done", "over"}
OneOfAKind == \A a, b \in Attempt :
  attempt[a].by # NULL /\ attempt[a].by = attempt[b].by /\ attempt[a].kind = attempt[b].kind => a = b
\* What is stored, and the types of it.
StoreFits ==
  /\ founded \in BOOLEAN /\ liveCodes \subseteq Attempt /\ invite \in BOOLEAN /\ enrolled \in [{"admin", "member"} -> SUBSET Attempt]
  /\ device \subseteq Attempt /\ knownCodes \subseteq Attempt /\ challenge \subseteq Attempt
  /\ cookie \in [{"admin", "member"} -> BOOLEAN] /\ tries \in 0..MaxTries
  /\ KeysUsable /\ (founded => liveCodes # {})
GateIInv ==
  /\ StoreFits /\ tab \in [GateTab -> TabRec] /\ attempt \in [Attempt -> AttemptRec]
  /\ \A a \in Attempt : Press(a, attempt[a])
  /\ OneOfAKind

\* The panes there are, and which kinds of attempts each asks for.
LEMMA AllPanes ==
  /\ AskingPanes = {"claim", "signin", "passcode", "setup", "inside", "idle", "invite", "username"}
  /\ \A k \in TwoStep \cup OneStep : Panes(k) =
       IF k = "enroll" THEN {"setup", "inside"} ELSE IF k = "regenerate" THEN {"inside"}
       ELSE IF k = "member" THEN {"idle"} ELSE IF k = "join" THEN {"username"} ELSE {k}
<1>1. TwoStep \cup OneStep = {"enroll", "signin", "join", "member", "claim", "passcode", "regenerate", "invite"}
  BY DEF TwoStep, OneStep
<1>2. ASSUME NEW k \in TwoStep \cup OneStep
      PROVE  Panes(k) =
       IF k = "enroll" THEN {"setup", "inside"} ELSE IF k = "regenerate" THEN {"inside"}
       ELSE IF k = "member" THEN {"idle"} ELSE IF k = "join" THEN {"username"} ELSE {k}
  BY <1>1 DEF Panes
<1>3. ASSUME NEW p \in {"claim", "signin", "passcode", "setup", "inside", "idle", "invite", "username"}
      PROVE  \E k \in TwoStep \cup OneStep : p \in Panes(k)
  <2>1. CASE p \in {"setup", "inside"}
    BY <1>1, <1>2, <2>1
  <2>2. CASE p \in {"claim", "signin", "passcode", "invite"}
    <3>1. p \in TwoStep \cup OneStep /\ p \in Panes(p)
      BY <1>1, <1>2, <2>2
    <3>. QED
      BY <3>1
  <2>3. CASE p = "idle"
    <3>1. "member" \in TwoStep \cup OneStep /\ p \in Panes("member")
      BY <1>1, <1>2, <2>3
    <3>. QED
      BY <3>1
  <2>4. CASE p = "username"
    <3>1. "join" \in TwoStep \cup OneStep /\ p \in Panes("join")
      BY <1>1, <1>2, <2>4
    <3>. QED
      BY <3>1
  <2>. QED
    BY <2>1, <2>2, <2>3, <2>4
<1>4. ASSUME NEW k \in TwoStep \cup OneStep, NEW p \in Panes(k)
      PROVE  p \in {"claim", "signin", "passcode", "setup", "inside", "idle", "invite", "username"}
  BY <1>1, <1>2, <1>4
<1>5. AskingPanes = {"claim", "signin", "passcode", "setup", "inside", "idle", "invite", "username"}
  BY <1>3, <1>4 DEF AskingPanes
<1>. QED
  BY <1>2, <1>5

\* What a path renders is a pane, and so is what a slide leads to.
LEMMA RendersPane ==
  ASSUME GateConstantsOK, NEW path \in {"settings", "recover", "forum", "away"}
  PROVE  Renders(path) \in TabRec
<1>1. PICK p : p = IF path = "forum" THEN ForumPane ELSE IF path = "away" THEN "away" ELSE SettingsPane
  OBVIOUS
<1>2. p \in {"claim", "signin", "inside", "idle", "feed", "away"}
  BY <1>1 DEF ForumPane, SettingsPane
<1>3. p \in AskingPanes \cup {"code", "feed", "recover", "away"}
  BY <1>2, AllPanes
<1>4. Renders(path) = [path |-> path, pane |-> p]
  BY <1>1 DEF Renders
<1>. QED
  BY <1>3, <1>4 DEF TabRec

\* What an attempt that has ended leaves.
LEMMA EndedAttempt ==
  ASSUME GateConstantsOK, NEW e, e = [NoAttempt EXCEPT !.at = "over"]
  PROVE  e \in AttemptRec /\ e.at = "over" /\ e.by = NULL
<1>1. NoAttempt \in AttemptRec /\ NoAttempt.by = NULL
  BY DEF NoAttempt, AttemptRec
<1>. QED
  BY <1>1 DEF AttemptRec

\* An attempt under way goes on, is not heard any more or ends; the tabs stay as they are.
LEMMA AttemptTurns ==
  ASSUME GateConstantsOK, GateIInv, NEW a \in Attempt, NEW q \in AttemptRec,
         attempt' = [attempt EXCEPT ![a] = q], tab' = tab, StoreFits', device \subseteq device',
         attempt[a].at \notin {"idle", "over"},
         \/ q.at = "over" /\ q.by = NULL
         \/ q.at \notin {"idle", "over"} /\ q.kind = attempt[a].kind /\ q.by \in {NULL, attempt[a].by},
         q.at = "finish" => attempt[a].at = "finish" \/ q.kind \notin {"enroll", "join"} \/ a \in device',
         attempt[a].at = "done" => q.at \in {"done", "over"},
         liveCodes' = liveCodes \/ (liveCodes' = {a} /\ q.at = "done")
  PROVE  GateIInv'
<1>1. attempt' \in [Attempt -> AttemptRec] /\ attempt'[a] = q /\ \A b \in Attempt \ {a} : attempt'[b] = attempt[b]
  BY DEF GateIInv
<1>2. ASSUME NEW b \in Attempt PROVE Press(b, attempt[b])'
  <2>1. Press(b, attempt[b])
    BY DEF GateIInv
  <2>2. CASE b = a
    BY <1>1, <2>1, <2>2 DEF Press, Awaits
  <2>3. CASE b # a
    BY <1>1, <2>1, <2>3 DEF Press, Awaits
  <2>. QED
    BY <2>2, <2>3
<1>3. OneOfAKind'
  <2>1. q.by # NULL => q.kind = attempt[a].kind /\ q.by = attempt[a].by
    OBVIOUS
  <2>. QED
    BY <1>1, <2>1 DEF GateIInv, OneOfAKind
<1>. QED
  BY <1>1, <1>2, <1>3 DEF GateIInv

\* A tab goes elsewhere, and hears no more.
LEMMA TabTurns ==
  ASSUME GateConstantsOK, GateIInv, NEW t \in GateTab, NEW p \in TabRec, tab' = [tab EXCEPT ![t] = p], Unheard(t),
         StoreFits', liveCodes' = liveCodes, device' = device
  PROVE  GateIInv'
<1>1. tab' \in [GateTab -> TabRec] /\ \A u \in GateTab \ {t} : tab'[u] = tab[u]
  BY DEF GateIInv
<1>2. ASSUME NEW a \in Attempt
      PROVE  /\ attempt'[a] \in AttemptRec
             /\ attempt[a].by # t => attempt'[a] = attempt[a]
             /\ attempt[a].by = t => attempt'[a].by = NULL
             /\ attempt[a].by = t => \/ attempt'[a].at = "over" /\ attempt[a].at = "sheet"
                                     \/ attempt'[a].at = attempt[a].at /\ attempt'[a].kind = attempt[a].kind
  <2>1. attempt[a] \in AttemptRec
    BY DEF GateIInv
  <2>2. attempt'[a] = IF attempt[a].by # t THEN attempt[a]
          ELSE IF attempt[a].at = "sheet" THEN [NoAttempt EXCEPT !.at = "over"]
          ELSE [attempt[a] EXCEPT !.by = NULL]
    BY DEF Unheard
  <2>3. PICK e : e = [NoAttempt EXCEPT !.at = "over"] /\ e \in AttemptRec /\ e.at = "over" /\ e.by = NULL
    BY EndedAttempt
  <2>4. attempt'[a] = IF attempt[a].by # t THEN attempt[a] ELSE IF attempt[a].at = "sheet" THEN e ELSE [attempt[a] EXCEPT !.by = NULL]
    BY <2>2, <2>3
  <2>5. CASE attempt[a].by # t
    BY <2>1, <2>4, <2>5
  <2>6. CASE attempt[a].by = t /\ attempt[a].at = "sheet"
    <3>1. attempt'[a] = e
      BY <2>4, <2>6
    <3>2. e \in AttemptRec /\ e.at = "over" /\ e.by = NULL
      BY <2>3
    <3>. QED
      BY <2>6, <3>1, <3>2
  <2>7. CASE attempt[a].by = t /\ attempt[a].at # "sheet"
    <3>1. attempt'[a] = [attempt[a] EXCEPT !.by = NULL]
      BY <2>4, <2>7
    <3>. QED
      BY <2>1, <2>7, <3>1 DEF AttemptRec
  <2>. QED
    BY <2>5, <2>6, <2>7
<1>3. attempt' \in [Attempt -> AttemptRec]
  BY <1>2 DEF Unheard
<1>4. ASSUME NEW a \in Attempt PROVE Press(a, attempt[a])'
  <2>1. Press(a, attempt[a]) /\ attempt[a] \in AttemptRec
    BY DEF GateIInv
  <2>2. CASE attempt[a].by = t
    BY <1>2, <2>1, <2>2 DEF Press
  <2>3. CASE attempt[a].by # t
    <3>1. attempt[a].by # NULL => attempt[a].by \in GateTab \ {t}
      BY <2>1, <2>3 DEF AttemptRec
    <3>2. attempt[a].by # NULL => tab'[attempt[a].by] = tab[attempt[a].by]
      BY <1>1, <3>1
    <3>. QED
      BY <1>2, <2>1, <2>3, <3>2 DEF Press, Awaits
  <2>. QED
    BY <2>2, <2>3
<1>5. OneOfAKind'
  BY <1>2 DEF GateIInv, OneOfAKind
<1>. QED
  BY <1>1, <1>3, <1>4, <1>5 DEF GateIInv

\* Signing out, or going to another page.
LEMMA TabGoes ==
  ASSUME GateConstantsOK, GateIInv, NEW t \in GateTab,
         \/ Logout(t)
         \/ ForumSignOut(t)
         \/ \E path \in {"settings", "recover", "forum"} : GoesTo(t, path)
  PROVE  GateIInv'
<1>1. StoreFits' /\ liveCodes' = liveCodes /\ device' = device
  <2>1. cookie' \in [{"admin", "member"} -> BOOLEAN]
    BY DEF GateIInv, StoreFits, Logout, ForumSignOut, GoesTo
  <2>2. UNCHANGED <<founded, liveCodes, enrolled, invite, device, knownCodes, challenge, tries>>
    BY DEF Logout, ForumSignOut, GoesTo, Rows
  <2>. QED
    BY <2>1, <2>2 DEF GateIInv, StoreFits, KeysUsable
<1>2. \E p \in TabRec : tab' = [tab EXCEPT ![t] = p]
  <2>1. CASE Logout(t)
    BY <2>1, RendersPane DEF Logout
  <2>2. CASE ForumSignOut(t)
    <3>1. [path |-> "forum", pane |-> "idle"] \in TabRec
      BY AllPanes DEF TabRec
    <3>. QED
      BY <2>2, <3>1 DEF ForumSignOut
  <2>3. CASE \E path \in {"settings", "recover", "forum"} : GoesTo(t, path)
    BY <2>3, RendersPane DEF GoesTo
  <2>. QED
    BY <2>1, <2>2, <2>3
<1>3. Unheard(t)
  BY DEF Logout, ForumSignOut, GoesTo
<1>. QED
  BY <1>1, <1>2, <1>3, TabTurns

\* The two kinds of attempts that one pane, or the code dialog over it, may await at once.
LEMMA AwaitTogether ==
  ASSUME GateConstantsOK, NEW k \in TwoStep \cup OneStep, NEW j \in TwoStep \cup OneStep, NEW p,
         p \in Awaits(k), p \in Awaits(j), k # j \/ p = "code"
  PROVE  k \in {"enroll", "regenerate"} /\ j \in {"enroll", "regenerate"}
<1>1. TwoStep \cup OneStep = {"enroll", "signin", "join", "member", "claim", "passcode", "regenerate", "invite"}
  BY DEF TwoStep, OneStep
<1>2. /\ Awaits(k) = IF k = "enroll" THEN {"setup", "inside", "code"} ELSE IF k = "regenerate" THEN {"inside", "code"}
                     ELSE IF k = "member" THEN {"idle"} ELSE IF k = "join" THEN {"username"} ELSE {k}
      /\ Awaits(j) = IF j = "enroll" THEN {"setup", "inside", "code"} ELSE IF j = "regenerate" THEN {"inside", "code"}
                     ELSE IF j = "member" THEN {"idle"} ELSE IF j = "join" THEN {"username"} ELSE {j}
  BY <1>1, AllPanes DEF Awaits
<1>. QED
  BY <1>1, <1>2

\* Both of them may find the account page, and the code dialog over it.
LEMMA AwaitInside ==
  ASSUME GateConstantsOK, NEW k \in {"enroll", "regenerate"}
  PROVE  {"inside", "code"} \subseteq Awaits(k)
<1>1. k \in TwoStep \cup OneStep
  BY DEF TwoStep, OneStep
<1>. QED
  BY <1>1, AllPanes DEF Awaits

\* A gate slides while nothing is asked, or from the code dialog back to the account page.
LEMMA GateSlides ==
  ASSUME GateConstantsOK, GateIInv, NEW t \in GateTab, NEW slide \in Slides, Slide(t, slide[2])
  PROVE  GateIInv'
<1>. DEFINE p == slide[2]
<1>1. /\ tab' = [tab EXCEPT ![t].pane = p] /\ UNCHANGED <<founded, liveCodes, enrolled, invite, device, cookie, knownCodes, challenge, tries, attempt>>
      /\ Quiet(t) \/ tab[t].pane = "code"
      /\ \E s \in Slides : tab[t].pane = s[1] /\ p = s[2]
  BY DEF Slide, MaySlide, Rows
<1>2. p \in {"passcode", "signin", "invite", "idle", "inside"} /\ (tab[t].pane = "code" => p = "inside")
  BY <1>1 DEF Slides
<1>. HIDE DEF p
<1>3. p \in AskingPanes \cup {"code", "feed", "recover", "away"}
  BY <1>2, AllPanes
<1>4. tab' \in [GateTab -> TabRec] /\ tab'[t].pane = p /\ \A u \in GateTab \ {t} : tab'[u] = tab[u]
  BY <1>1, <1>3 DEF GateIInv, TabRec
<1>5. ASSUME NEW a \in Attempt PROVE Press(a, attempt[a])'
  <2>1. Press(a, attempt[a]) /\ attempt[a] \in AttemptRec
    BY DEF GateIInv
  <2>2. ASSUME attempt[a].by = t, attempt[a].by # NULL PROVE tab'[t].pane \in Awaits(attempt[a].kind)
    <3>1. tab[t].pane = "code" /\ tab[t].pane \in Awaits(attempt[a].kind) /\ attempt[a].kind \in TwoStep \cup OneStep
      BY <1>1, <2>1, <2>2 DEF Press, Quiet
    <3>2. attempt[a].kind \in {"enroll", "regenerate"}
      BY <3>1, AwaitTogether
    <3>. QED
      BY <1>2, <1>4, <3>1, <3>2, AwaitInside
  <2>3. attempt[a].by # NULL => tab'[attempt[a].by].pane \in Awaits(attempt[a].kind)
    BY <1>4, <2>1, <2>2 DEF Press, AttemptRec
  <2>. QED
    BY <1>1, <2>1, <2>3 DEF Press, Awaits
<1>6. OneOfAKind' /\ StoreFits'
  BY <1>1 DEF GateIInv, OneOfAKind, StoreFits, KeysUsable
<1>. QED
  BY <1>1, <1>4, <1>5, <1>6 DEF GateIInv

\* A button is pressed: the pane awaits the answer, and no other attempt of its kind.
LEMMA GateSubmits ==
  ASSUME GateConstantsOK, GateIInv, NEW t \in GateTab, NEW a \in Attempt, NEW kind \in TwoStep \cup OneStep,
         NEW code \in knownCodes \cup {NULL}, Submits(t, a, kind, code)
  PROVE  GateIInv'
<1>. DEFINE q == [at |-> IF kind \in TwoStep THEN "start" ELSE "sent", kind |-> kind, by |-> t,
                  cookie |-> cookie["admin"], key |-> code]
<1>1. /\ attempt' = [attempt EXCEPT ![a] = q] /\ UNCHANGED <<founded, liveCodes, enrolled, invite, device, cookie, knownCodes, challenge, tries, tab>>
      /\ attempt[a].at = "idle" /\ tab[t].pane \in Panes(kind) /\ ~Waits(t, kind)
  BY DEF Submits, Rows
<1>2. StoreFits'
  BY <1>1 DEF GateIInv, StoreFits, KeysUsable
<1>3. q \in AttemptRec
  BY DEF AttemptRec, GateIInv, StoreFits
<1>4. q.at \in {"start", "sent"} /\ q.kind = kind /\ q.by = t
  OBVIOUS
<1>. HIDE DEF q
<1>5. attempt' \in [Attempt -> AttemptRec] /\ attempt'[a] = q /\ \A b \in Attempt \ {a} : attempt'[b] = attempt[b]
  BY <1>1, <1>3 DEF GateIInv
<1>6. ASSUME NEW b \in Attempt PROVE Press(b, attempt[b])'
  <2>1. Press(b, attempt[b])
    BY DEF GateIInv
  <2>2. CASE b = a
    <3>1. a \notin liveCodes
      BY <1>1, <2>1, <2>2 DEF Press
    <3>. QED
      BY <1>1, <1>4, <1>5, <2>2, <3>1 DEF Press, Awaits
  <2>3. CASE b # a
    BY <1>1, <1>5, <2>1, <2>3 DEF Press, Awaits
  <2>. QED
    BY <2>2, <2>3
<1>7. OneOfAKind'
  BY <1>1, <1>4, <1>5 DEF GateIInv, OneOfAKind, Waits
<1>. QED
  BY <1>1, <1>2, <1>5, <1>6, <1>7 DEF GateIInv

\* An answer that is heard ends its attempt and moves its tab to a pane that what else the tab
\* awaits may find.
LEMMA GateSucceeds ==
  ASSUME GateConstantsOK, GateIInv, NEW a \in Attempt, Succeeds(a)
  PROVE  GateIInv'
<1>. DEFINE kind == attempt[a].kind
            p == NextPane(kind)
<1>1. PICK t : t = attempt[a].by
  OBVIOUS
<1>2. /\ attempt[a].at = "done" /\ t # NULL /\ tab' = [tab EXCEPT ![t].pane = p]
      /\ UNCHANGED <<founded, liveCodes, enrolled, invite, device, challenge, tries>> /\ knownCodes' = knownCodes \cup Carries(a) /\ SetsCookie(kind)
      /\ attempt' = [attempt EXCEPT ![a] = [NoAttempt EXCEPT !.at = "over"]]
  BY <1>1 DEF Succeeds, Rows, EndsAttempt
<1>3. PICK e : e = [NoAttempt EXCEPT !.at = "over"] /\ e \in AttemptRec /\ e.at = "over" /\ e.by = NULL
  BY EndedAttempt
<1>4. Press(a, attempt[a]) /\ attempt[a] \in AttemptRec /\ t \in GateTab /\ kind \in TwoStep \cup OneStep
  BY <1>1, <1>2 DEF GateIInv, Press, AttemptRec
<1>5. StoreFits'
  <2>1. cookie' \in [{"admin", "member"} -> BOOLEAN]
    BY <1>2 DEF GateIInv, StoreFits, SetsCookie, EstablishSession, EstablishForumSession
  <2>2. knownCodes' \subseteq Attempt
    BY <1>2 DEF GateIInv, StoreFits, Carries
  <2>. QED
    BY <1>2, <2>1, <2>2 DEF GateIInv, StoreFits, KeysUsable
<1>6. p \in {"setup", "code", "username", "feed", "inside"} /\ (kind = "regenerate" => p = "code") /\ (kind = "enroll" => p = "inside")
  BY <1>4 DEF NextPane, TwoStep, OneStep
<1>. HIDE DEF p
<1>7. p \in AskingPanes \cup {"code", "feed", "recover", "away"}
  BY <1>6, AllPanes
<1>8. tab' \in [GateTab -> TabRec] /\ tab'[t].pane = p /\ \A u \in GateTab \ {t} : tab'[u] = tab[u]
  BY <1>2, <1>4, <1>7 DEF GateIInv, TabRec
<1>9. attempt' \in [Attempt -> AttemptRec] /\ attempt'[a] = e /\ \A b \in Attempt \ {a} : attempt'[b] = attempt[b]
  BY <1>2, <1>3 DEF GateIInv
<1>10. ASSUME NEW b \in Attempt PROVE Press(b, attempt[b])'
  <2>1. Press(b, attempt[b]) /\ attempt[b] \in AttemptRec
    BY DEF GateIInv
  <2>2. CASE b = a
    BY <1>2, <1>3, <1>9, <2>1, <2>2 DEF Press
  <2>3. CASE b # a
    <3>1. ASSUME attempt[b].by = t PROVE p \in Awaits(attempt[b].kind)
      <4>1. attempt[b].kind # kind
        BY <1>1, <1>2, <2>3, <3>1 DEF GateIInv, OneOfAKind
      <4>2. tab[t].pane \in Awaits(kind) /\ tab[t].pane \in Awaits(attempt[b].kind)
        BY <1>1, <1>2, <1>4, <2>1, <3>1 DEF Press
      <4>3. attempt[b].kind \in TwoStep \cup OneStep
        BY <1>2, <2>1, <3>1 DEF Press
      <4>4. kind \in {"enroll", "regenerate"} /\ attempt[b].kind \in {"enroll", "regenerate"}
        BY <1>4, <4>1, <4>2, <4>3, AwaitTogether
      <4>. QED
        BY <1>6, <4>4, AwaitInside
    <3>2. attempt[b].by # NULL => tab'[attempt[b].by].pane \in Awaits(attempt[b].kind)
      BY <1>8, <2>1, <3>1 DEF Press, AttemptRec
    <3>. QED
      BY <1>2, <1>9, <2>1, <2>3, <3>2 DEF Press, Awaits
  <2>. QED
    BY <2>2, <2>3
<1>11. OneOfAKind'
  <2>1. \A x \in Attempt : attempt'[x].by # NULL => attempt'[x] = attempt[x]
    BY <1>3, <1>9
  <2>2. \A x, y \in Attempt : attempt'[x].by # NULL /\ attempt'[x].by = attempt'[y].by => attempt'[x] = attempt[x] /\ attempt'[y] = attempt[y]
    BY <2>1
  <2>. QED
    BY <2>2 DEF GateIInv, OneOfAKind
<1>. QED
  BY <1>5, <1>8, <1>9, <1>10, <1>11 DEF GateIInv

\* An attempt that goes to `at`, under the same kind and heard by the same tab or nobody.
LEMMA AttemptStands ==
  ASSUME GateConstantsOK, GateIInv, NEW a \in Attempt, NEW at \in {"start", "sheet", "sent", "finish", "done", "refused"},
         Stands(a, at), tab' = tab, StoreFits', device \subseteq device',
         attempt[a].at \in {"start", "sent", "finish"}, at # "finish",
         liveCodes' = liveCodes \/ (liveCodes' = {a} /\ at = "done")
  PROVE  GateIInv'
<1>1. attempt[a] \in AttemptRec
  BY DEF GateIInv
<1>2. PICK q : q = [attempt[a] EXCEPT !.at = at]
  OBVIOUS
<1>3. q \in AttemptRec /\ q.at = at /\ q.kind = attempt[a].kind /\ q.by = attempt[a].by
  BY <1>1, <1>2 DEF AttemptRec
<1>4. attempt' = [attempt EXCEPT ![a] = q]
  BY <1>2 DEF Stands, GateIInv
<1>. QED
  BY <1>3, <1>4, AttemptTurns

\* An attempt that ends.
LEMMA AttemptEnds ==
  ASSUME GateConstantsOK, GateIInv, NEW a \in Attempt, EndsAttempt(a), tab' = tab, StoreFits', device' = device, liveCodes' = liveCodes,
         attempt[a].at \notin {"idle", "over"}
  PROVE  GateIInv'
<1>1. PICK e : e = [NoAttempt EXCEPT !.at = "over"] /\ e \in AttemptRec /\ e.at = "over" /\ e.by = NULL
  BY EndedAttempt
<1>2. attempt' = [attempt EXCEPT ![a] = e]
  BY <1>1 DEF EndsAttempt
<1>. QED
  BY <1>1, <1>2, AttemptTurns

\* What the sheet, the routes and lost answers do to an attempt.
LEMMA GateConfirms ==
  ASSUME GateConstantsOK, GateIInv, NEW a \in Attempt, NEW key \in Attempt, Confirm(a, key)
  PROVE  GateIInv'
<1>1. /\ attempt[a].at = "sheet" /\ device' = device \cup {key} /\ UNCHANGED <<founded, liveCodes, enrolled, invite, cookie, knownCodes, challenge, tries, tab>>
      /\ attempt[a].kind \in {"enroll", "join"} => key = a
      /\ attempt' = [attempt EXCEPT ![a].at = "finish", ![a].key = key, ![a].cookie = cookie["admin"]]
      /\ cookie["admin"] \in BOOLEAN
  BY DEF Confirm, Rows, GateIInv, StoreFits
<1>2. StoreFits'
  BY <1>1 DEF GateIInv, StoreFits, KeysUsable
<1>3. attempt[a] \in AttemptRec
  BY DEF GateIInv
<1>4. PICK q : q = [attempt[a] EXCEPT !.at = "finish", !.key = key, !.cookie = cookie["admin"]]
  OBVIOUS
<1>5. q \in AttemptRec /\ q.at = "finish" /\ q.kind = attempt[a].kind /\ q.by = attempt[a].by
  BY <1>1, <1>3, <1>4 DEF AttemptRec
<1>6. attempt' = [attempt EXCEPT ![a] = q]
  BY <1>1, <1>4 DEF GateIInv
<1>. QED
  BY <1>1, <1>2, <1>5, <1>6, AttemptTurns

\* The routes that answer, and change at most the challenges and the throttle.
LEMMA GateAnswers ==
  ASSUME GateConstantsOK, GateIInv, NEW a \in Attempt,
         \/ FinishSignin(a) \/ FinishMember(a) \/ PasscodeRoute(a)
         \/ InviteRoute(a) \/ RouteFails(a)
  PROVE  GateIInv'
<1>0. MaxTries \in Nat /\ tries \in 0..MaxTries
  BY DEF GateIInv, StoreFits, GateConstantsOK
<1>1. /\ UNCHANGED <<founded, liveCodes, enrolled, invite, device, cookie, knownCodes, tab>> /\ challenge' \subseteq challenge /\ tries' \in 0..MaxTries
      /\ attempt[a].at \in {"sent", "start", "finish"}
  <2>1. CASE PasscodeRoute(a)
    BY <1>0, <2>1 DEF PasscodeRoute, Rows, Throttled
  <2>2. CASE RouteFails(a)
    BY <1>0, <2>2 DEF RouteFails, Rows, RedeemChallenge
  <2>3. CASE FinishSignin(a) \/ FinishMember(a) \/ InviteRoute(a)
    BY <1>0, <2>3 DEF FinishSignin, FinishMember, InviteRoute, RedeemChallenge, Rows
  <2>. QED
    BY <2>1, <2>2, <2>3
<1>2. StoreFits'
  BY <1>1 DEF GateIInv, StoreFits, KeysUsable
<1>3. \E at \in {"done", "refused"} : Stands(a, at)
  BY DEF FinishSignin, FinishMember, PasscodeRoute, InviteRoute, RouteFails, Says
<1>. QED
  BY <1>1, <1>2, <1>3, AttemptStands

\* A start route stashes a challenge or refuses.
LEMMA GateStarts ==
  ASSUME GateConstantsOK, GateIInv, NEW a \in Attempt, StartRoute(a)
  PROVE  GateIInv'
<1>1. /\ UNCHANGED <<founded, liveCodes, enrolled, invite, device, cookie, knownCodes, tries, tab>> /\ challenge' \subseteq challenge \cup {a} /\ attempt[a].at = "start"
  BY DEF StartRoute, StashChallenge, Rows
<1>2. StoreFits'
  BY <1>1 DEF GateIInv, StoreFits, KeysUsable
<1>3. (\E at \in {"sheet", "refused"} : Stands(a, at)) \/ EndsAttempt(a)
  BY DEF StartRoute, Says
<1>. QED
  BY <1>1, <1>2, <1>3, AttemptStands, AttemptEnds

\* A passkey is stored: the device that made it holds it.
LEMMA GateStores ==
  ASSUME GateConstantsOK, GateIInv, NEW a \in Attempt, FinishEnroll(a) \/ FinishJoin(a)
  PROVE  GateIInv'
<1>1. /\ UNCHANGED <<founded, liveCodes, device, cookie, knownCodes, tries, tab>> /\ challenge' \subseteq challenge /\ invite' \in BOOLEAN
      /\ attempt[a].at = "finish" /\ attempt[a].kind \in {"enroll", "join"}
  BY DEF FinishEnroll, FinishJoin, RedeemChallenge, GateIInv, StoreFits
<1>2. a \in device
  BY <1>1 DEF GateIInv, Press
<1>3. \/ enrolled' = enrolled /\ invite' = invite
      \/ enrolled' = [enrolled EXCEPT !["admin"] = enrolled["admin"] \cup {a}] /\ invite' = invite
      \/ enrolled' = [enrolled EXCEPT !["member"] = enrolled["member"] \cup {a}]
  BY DEF FinishEnroll, FinishJoin, StoresKey
<1>4. enrolled \in [{"admin", "member"} -> SUBSET Attempt] /\ enrolled["admin"] \subseteq device /\ enrolled["member"] \subseteq device
  BY DEF GateIInv, StoreFits, KeysUsable
<1>5. /\ enrolled' \in [{"admin", "member"} -> SUBSET Attempt] /\ enrolled'["admin"] \subseteq device /\ enrolled'["member"] \subseteq device
      /\ enrolled["member"] \subseteq enrolled'["member"] /\ (invite' # invite => enrolled'["member"] # {})
  BY <1>2, <1>3, <1>4
<1>6. StoreFits'
  <2>1. KeysUsable'
    BY <1>1, <1>5 DEF KeysUsable, GateIInv, StoreFits
  <2>. QED
    BY <1>1, <1>5, <2>1 DEF GateIInv, StoreFits
<1>7. \E at \in {"done", "refused"} : Stands(a, at)
  BY DEF FinishEnroll, FinishJoin, Says
<1>. QED
  BY <1>1, <1>6, <1>7, AttemptStands

\* A code is issued, and its answer carries it.
LEMMA GateIssues ==
  ASSUME GateConstantsOK, GateIInv, NEW a \in Attempt, ClaimRoute(a) \/ RegenerateRoute(a)
  PROVE  GateIInv'
<1>1. /\ UNCHANGED <<enrolled, invite, device, cookie, knownCodes, challenge, tries, tab>> /\ attempt[a].at = "sent"
      /\ \/ liveCodes' = liveCodes /\ founded' = founded /\ (\E at \in {"done", "refused"} : Stands(a, at))
         \/ liveCodes' = {a} /\ founded' \in BOOLEAN /\ Stands(a, "done")
  BY DEF ClaimRoute, RegenerateRoute, Says, GateIInv, StoreFits
<1>2. StoreFits'
  BY <1>1 DEF GateIInv, StoreFits, KeysUsable
<1>. QED
  BY <1>1, <1>2, AttemptStands

\* A sheet is cancelled, a refusal shown, an answer lost or heard by nobody.
LEMMA GateDrops ==
  ASSUME GateConstantsOK, GateIInv, NEW a \in Attempt,
         \/ CancelSheet(a) \/ GateRefuses(a) \/ AnswerDropped(a)
         \/ GateNetworkError(a)
  PROVE  GateIInv'
<1>1. UNCHANGED <<founded, liveCodes, enrolled, invite, device, knownCodes, challenge, tries, tab>> /\ attempt[a].at \notin {"idle", "over"}
  BY DEF CancelSheet, GateRefuses, AnswerDropped, GateNetworkError, Rows
<1>2. cookie' \in [{"admin", "member"} -> BOOLEAN]
  BY DEF CancelSheet, GateRefuses, AnswerDropped, GateNetworkError, SetsCookie,
     EstablishSession, EstablishForumSession, GateIInv, StoreFits
<1>3. StoreFits'
  BY <1>1, <1>2 DEF GateIInv, StoreFits, KeysUsable
<1>4. CASE EndsAttempt(a)
  BY <1>1, <1>3, <1>4, AttemptEnds
<1>5. CASE GateNetworkError(a)
  <2>1. attempt[a] \in AttemptRec
    BY DEF GateIInv
  <2>2. PICK q : q = [attempt[a] EXCEPT !.by = NULL]
    OBVIOUS
  <2>3. q \in AttemptRec /\ q.at = attempt[a].at /\ q.kind = attempt[a].kind /\ q.by = NULL
    BY <2>1, <2>2 DEF AttemptRec
  <2>4. attempt' = [attempt EXCEPT ![a] = q]
    BY <1>5, <2>2 DEF GateNetworkError, GateIInv
  <2>. QED
    BY <1>1, <1>3, <2>3, <2>4, AttemptTurns
<1>. QED
  BY <1>4, <1>5 DEF CancelSheet, GateRefuses, AnswerDropped

\* A challenge expires, the throttle's window ends, the server restarts, or nothing happens.
LEMMA GateWaits ==
  ASSUME GateConstantsOK, GateIInv, UNCHANGED <<founded, liveCodes, enrolled, invite, device, cookie, knownCodes, tab, attempt>>, challenge' \subseteq challenge, tries' \in 0..MaxTries
  PROVE  GateIInv'
<1>1. StoreFits'
  BY DEF GateIInv, StoreFits, KeysUsable
<1>2. \A a \in Attempt : Press(a, attempt[a])'
  BY DEF GateIInv, Press, Awaits
<1>3. OneOfAKind'
  BY DEF GateIInv, OneOfAKind
<1>. QED
  BY <1>1, <1>2, <1>3 DEF GateIInv

\* At first nobody has claimed the instance, and every tab is elsewhere.
LEMMA GateBegins ==
  ASSUME GateConstantsOK, GateInit PROVE GateIInv
<1>1. NoAttempt \in AttemptRec /\ NoAttempt.at = "idle" /\ NoAttempt.by = NULL
  BY DEF NoAttempt, AttemptRec
<1>2. /\ founded = FALSE /\ liveCodes = {} /\ invite = TRUE /\ enrolled = [r \in {"admin", "member"} |-> {}] /\ device = {} /\ knownCodes = {}
      /\ challenge = {} /\ tries = 0 /\ cookie = [r \in {"admin", "member"} |-> FALSE]
      /\ tab = [t \in GateTab |-> Renders("away")] /\ attempt = [a \in Attempt |-> NoAttempt]
  BY DEF GateInit
<1>3. StoreFits
  <2>1. tries \in 0..MaxTries
    BY <1>2 DEF GateConstantsOK
  <2>2. KeysUsable
    BY <1>2 DEF KeysUsable
  <2>. QED
    BY <1>2, <2>1, <2>2 DEF StoreFits
<1>4. tab \in [GateTab -> TabRec]
  BY <1>2, RendersPane
<1>5. OneOfAKind /\ \A a \in Attempt : Press(a, attempt[a])
  BY <1>1, <1>2 DEF OneOfAKind, Press
<1>. QED
  BY <1>1, <1>2, <1>3, <1>4, <1>5 DEF GateIInv

\* Every step of the gates.
LEMMA GateGoes ==
  ASSUME GateConstantsOK, GateIInv, [GateNext]_gateVars
  PROVE  GateIInv'
<1>1. CASE WindowEnds \/ WebRestarts \/ (\E a \in Attempt : ChallengeExpires(a)) \/ UNCHANGED gateVars
  <2>1. UNCHANGED <<founded, liveCodes, enrolled, invite, device, cookie, knownCodes, tab, attempt>> /\ challenge' \subseteq challenge /\ tries' \in 0..MaxTries
    BY <1>1 DEF WindowEnds, WebRestarts, ChallengeExpires, RedeemChallenge,
       Rows, gateVars, GateIInv, StoreFits, GateConstantsOK
  <2>. QED
    BY <2>1, GateWaits
<1>2. ASSUME NEW t \in GateTab,
             \/ Logout(t) \/ ForumSignOut(t)
             \/ \E path \in {"settings", "recover", "forum"} : GoesTo(t, path)
             \/ \E slide \in Slides : Slide(t, slide[2])
             \/ \E a \in Attempt, kind \in TwoStep \cup OneStep, code \in knownCodes \cup {NULL} :
                  Submits(t, a, kind, code)
      PROVE  GateIInv'
  BY <1>2, TabGoes, GateSlides, GateSubmits
<1>3. ASSUME NEW a \in Attempt,
             \/ CancelSheet(a) \/ \E key \in Attempt : Confirm(a, key)
             \/ StartRoute(a) \/ FinishSignin(a) \/ FinishMember(a) \/ FinishEnroll(a)
             \/ FinishJoin(a) \/ RouteFails(a)
             \/ ClaimRoute(a) \/ PasscodeRoute(a) \/ RegenerateRoute(a) \/ InviteRoute(a)
             \/ Succeeds(a) \/ GateRefuses(a) \/ GateNetworkError(a) \/ AnswerDropped(a)
      PROVE  GateIInv'
  BY <1>3, GateConfirms, GateStarts, GateAnswers, GateStores, GateIssues, GateSucceeds, GateDrops
<1>. QED
  BY <1>1, <1>2, <1>3 DEF GateNext

\* The invariant says what the properties say.
LEMMA GateFits ==
  ASSUME GateConstantsOK, GateIInv PROVE GateInv
<1>1. GateTypeOK
  <2>1. tab \in [GateTab -> TabRec] /\ attempt \in [Attempt -> AttemptRec] /\ StoreFits
    BY DEF GateIInv
  <2>2. attempt \in [Attempt ->
     [at : {"idle", "sent", "start", "sheet", "finish", "done", "refused", "over"},
      kind : TwoStep \cup OneStep \cup {NULL}, by : GateTab \cup {NULL},
      cookie : BOOLEAN, key : Attempt \cup {NULL}]]
    BY <2>1 DEF AttemptRec
  <2>3. tab \in [GateTab -> [path : {"settings", "recover", "forum", "away"},
     pane : (UNION {Panes(k) : k \in TwoStep \cup OneStep}) \cup {"code", "feed", "recover", "away"}]]
    BY <2>1 DEF TabRec, AskingPanes
  <2>. QED
    BY <2>1, <2>2, <2>3 DEF StoreFits, GateTypeOK
<1>2. AnswerFits
  BY DEF GateIInv, Press, Awaits, AnswerFits
<1>3. WayBack
  <2>. SUFFICES ASSUME founded
                PROVE  \E c \in liveCodes : c \in knownCodes \/ attempt[c].at = "done" \/ (c \notin knownCodes /\ attempt[c].by = NULL)
    BY DEF WayBack
  <2>1. PICK c \in liveCodes : c \in Attempt
    BY DEF GateIInv, StoreFits
  <2>2. Press(c, attempt[c])
    BY <2>1 DEF GateIInv
  <2>. QED
    BY <2>1, <2>2 DEF Press
<1>. QED
  BY <1>1, <1>2, <1>3 DEF GateIInv, StoreFits, GateInv

\* The answers of the gates find the panes that await them, every enrolled passkey is on the
\* device that made it, and no event of the gates leaves the admin without a live code.
THEOREM GatesLetBackIn ==
  ASSUME GateConstantsOK PROVE GateInit /\ [][GateNext]_gateVars => []GateInv
<1>1. GateInit => GateIInv
  BY GateBegins
<1>2. GateIInv /\ [GateNext]_gateVars => GateIInv'
  BY GateGoes
<1>3. GateIInv => GateInv
  BY GateFits
<1>. QED
  BY <1>1, <1>2, <1>3, PTL
=============================================================================
