----------------------------- MODULE ArticleBus -----------------------------
(***************************************************************************)
(* Live updates of the front page: the in-process bus of apps/web, one     *)
(* server-sent event stream per open page, and the strip of new tiles.     *)
(* A stream carries its name from the GET to the end of the connection.    *)
(* A connection is torn at some moment; the stream learns it from a throw  *)
(* of enqueue or from the abort of its request, whichever comes first.     *)
(***************************************************************************)
EXTENDS Naturals, Sequences, SequencesExt, Sql

CONSTANTS
  Viewer,   \* pages of the front page
  Stream,   \* requests for /api/events
  News,     \* ids of the articles announced
  MaxLive,  \* MAX_LIVE_TILES
  MaxWire   \* bound: announcements under way on one connection

\* Assumed of the constants.
BusConstantsOK == NULL \notin Viewer \cup Stream /\ MaxLive \in Nat \ {0} /\ MaxWire \in Nat

VARIABLES
  listeners, \* the bus's Set of listeners, by the stream they enqueue to
  beating,   \* streams whose heartbeat timer runs
  stream,    \* the streams' own state and their connection
  viewer,    \* the pages
  mayWatch,  \* requireAdmin finds a session
  heard      \* history: what was announced while the connection was up

busVars == <<listeners, beating, stream, viewer, mayWatch, heard>>

NoStream == [conn |-> "unused", closed |-> FALSE, wire |-> <<>>]
NewPage == [source |-> "connecting", over |-> NULL, live |-> <<>>]

BusTypeOK ==
  /\ listeners \subseteq Stream /\ beating \subseteq Stream /\ mayWatch \in BOOLEAN
  /\ stream \in [Stream -> [conn : {"unused", "up", "torn", "aborted"}, closed : BOOLEAN,
                            wire : BoundedSeq(News, MaxWire)]]
  /\ viewer \in [Viewer -> [source : {"away", "connecting", "open", "failed"},
                            over : Stream \cup {NULL}, live : BoundedSeq(News, MaxLive)]]
  /\ heard \in [Stream -> SUBSET News]

BusInit ==
  /\ listeners = {} /\ beating = {} /\ mayWatch = TRUE
  /\ stream = [s \in Stream |-> NoStream] /\ heard = [s \in Stream |-> {}]
  /\ viewer = [v \in Viewer |-> NewPage]

(***************************************************************************)
(* The stream                                                              *)
(***************************************************************************)
\* safeEnqueue of one announcement; a closed stream drops it, a torn connection throws.
Enqueued(s, n) ==
  IF stream[s].closed THEN stream[s]
  ELSE IF stream[s].conn = "up" THEN [stream[s] EXCEPT !.wire = Append(@, n)]
  ELSE [stream[s] EXCEPT !.closed = TRUE]

\* GET: the session, the subscription, the timer. A 401 ends the EventSource for good.
OpenStream(v, s) ==
  /\ viewer[v].source = "connecting" /\ stream[s].conn = "unused"
  /\ IF mayWatch
     THEN /\ stream' = [stream EXCEPT ![s].conn = "up"]
          /\ listeners' = listeners \cup {s} /\ beating' = beating \cup {s}
          /\ viewer' = [viewer EXCEPT ![v].source = "open", ![v].over = s]
     ELSE /\ viewer' = [viewer EXCEPT ![v].source = "failed"]
          /\ UNCHANGED <<stream, listeners, beating>>
  /\ UNCHANGED <<mayWatch, heard>>

\* publish: every listener, each guarded from the others.
Published(n) == [s \in Stream |-> IF s \in listeners THEN Enqueued(s, n) ELSE stream[s]]

\* POST of events/test, the one caller of publish; answers 404 on a production build.
TestEvent(n) ==
  /\ \A s \in listeners : Len(stream[s].wire) < MaxWire
  /\ stream' = Published(n)
  /\ heard' = [s \in Stream |-> heard[s] \cup {x \in {n} : stream[s].conn = "up"}]
  /\ UNCHANGED <<listeners, beating, viewer, mayWatch>>

\* The interval's ping: nothing the page sees, but it may throw as well.
Heartbeat(s) ==
  /\ s \in beating /\ stream[s].conn # "up" /\ ~stream[s].closed
  /\ stream' = [stream EXCEPT ![s].closed = TRUE]
  /\ UNCHANGED <<listeners, beating, viewer, mayWatch, heard>>

\* cleanup: nothing at all on a stream that is closed already.
Cleaned(s) ==
  IF stream[s].closed THEN UNCHANGED <<listeners, beating>>
  ELSE listeners' = listeners \ {s} /\ beating' = beating \ {s}

\* The request's signal aborts: after the connection went, or with it.
AbortStream(s) ==
  /\ stream[s].conn = "torn"
  /\ stream' = [stream EXCEPT ![s].conn = "aborted", ![s].closed = TRUE, ![s].wire = <<>>]
  /\ Cleaned(s) /\ UNCHANGED <<viewer, mayWatch, heard>>

(***************************************************************************)
(* The page                                                                *)
(***************************************************************************)
\* Mutant: an announcement received twice is filed twice.
FiledTwice(live, n) ==
  SubSeq(<<n>> \o live, 1, IF Len(live) < MaxLive THEN Len(live) + 1 ELSE MaxLive)
\* setLive: newest first, an id once, and no more than the cap.
Filed(live, n) ==
  IF Contains(live, n) THEN live
  ELSE SubSeq(<<n>> \o live, 1, IF Len(live) < MaxLive THEN Len(live) + 1 ELSE MaxLive)

Receive(v) ==
  LET s == viewer[v].over IN
  /\ viewer[v].source = "open" /\ stream[s].wire # <<>> /\ stream[s].conn = "up"
  /\ viewer' = [viewer EXCEPT ![v].live = Filed(@, Head(stream[s].wire))]
  /\ stream' = [stream EXCEPT ![s].wire = Tail(@)]
  /\ UNCHANGED <<listeners, beating, mayWatch, heard>>

\* The network drops the connection: EventSource tries again, what it held is lost.
Tear(v) ==
  /\ viewer[v].source = "open"
  /\ viewer' = [viewer EXCEPT ![v].source = "connecting", ![v].over = NULL]
  /\ stream' = [stream EXCEPT ![viewer[v].over].conn = "torn", ![viewer[v].over].wire = <<>>]
  /\ UNCHANGED <<listeners, beating, mayWatch, heard>>

\* Unmount: source.close(), and the strip goes with the page.
LeavePage(v) ==
  /\ viewer[v].source # "away"
  /\ viewer' = [viewer EXCEPT ![v] = [NewPage EXCEPT !.source = "away"]]
  /\ stream' = [s \in Stream |-> IF s = viewer[v].over
       THEN [stream[s] EXCEPT !.conn = "torn", !.wire = <<>>] ELSE stream[s]]
  /\ UNCHANGED <<listeners, beating, mayWatch, heard>>

BackToPage(v) ==
  /\ viewer[v].source = "away" /\ viewer' = [viewer EXCEPT ![v] = NewPage]
  /\ UNCHANGED <<listeners, beating, stream, mayWatch, heard>>

SessionFlips ==
  /\ mayWatch' = ~mayWatch /\ UNCHANGED <<listeners, beating, stream, viewer, heard>>

\* The web process is replaced: its bus, its timers and its connections go.
WebRestart ==
  /\ \E s \in Stream : stream[s].conn \in {"up", "torn"}
  /\ listeners' = {} /\ beating' = {}
  /\ stream' = [s \in Stream |-> IF stream[s].conn = "unused" THEN NoStream
                                 ELSE [conn |-> "aborted", closed |-> TRUE, wire |-> <<>>]]
  /\ viewer' = [v \in Viewer |-> IF viewer[v].source = "open"
       THEN [viewer[v] EXCEPT !.source = "connecting", !.over = NULL] ELSE viewer[v]]
  /\ UNCHANGED <<mayWatch, heard>>

\* The strip as rendered; the badge filter of the page only hides tiles.
Tiles(v) == viewer[v].live

BusNext ==
  \/ \E v \in Viewer, s \in Stream : OpenStream(v, s)
  \/ \E n \in News : TestEvent(n)
  \/ \E s \in Stream : Heartbeat(s) \/ AbortStream(s)
  \/ \E v \in Viewer : Receive(v) \/ Tear(v) \/ LeavePage(v) \/ BackToPage(v)
  \/ SessionFlips \/ WebRestart

(***************************************************************************)
(* Properties                                                              *)
(***************************************************************************)
\* A page whose connection is up misses nothing announced on it: what it has
\* heard is on the wire or in the strip, unless the strip is full
\* (api/events/route.ts, LiveArticleStream.tsx).
NothingMissed == \A v \in Viewer : LET s == viewer[v].over IN
  viewer[v].source = "open" =>
    \/ heard[s] \subseteq ToSet(stream[s].wire) \cup ToSet(Tiles(v))
    \/ Len(viewer[v].live) = MaxLive

\* The strip shows an article once, however often and over however many
\* reconnections it is announced (LiveArticleStream.tsx, setLive).
OneTileEach == \A v \in Viewer : IsInjective(Tiles(v))

BusInv == BusTypeOK /\ NothingMissed /\ OneTileEach

\* "On client disconnect we unsubscribe from the in-process bus and tear down the
\* heartbeat timer so listeners don't leak" (api/events/route.ts:26): a stream
\* whose request was aborted is on no bus and has no timer.
DisconnectCleans == \A s \in Stream :
  stream[s].conn = "aborted" => s \notin listeners \cup beating
=============================================================================
