----------------------------- MODULE Typeahead ------------------------------
(***************************************************************************)
(* TypeaheadSearch, the search box of the top bar: a debounced fetch per   *)
(* query, an abort of the one before, and a cache that outlives the        *)
(* component.  A page of the dashboard, of the forum or of the settings    *)
(* mounts a box of its own, so the mode of a box never changes.            *)
(*                                                                         *)
(* A result is named by the search that produced it; what the search finds *)
(* in the database is left out.                                            *)
(***************************************************************************)
EXTENDS Naturals, Sequences, SequencesExt, Sql

CONSTANTS
  LongQuery,  \* queries of two characters or more, trimmed and in lower case
  Fetch,      \* requests in flight
  CacheMax    \* CACHE_MAX

VARIABLES
  box,     \* state and refs of the mounted component
  fetches, \* requests to the two typeahead routes
  cache,   \* fetchCache, oldest key first
  crossed  \* history: what the box took in or closed over while a request was in flight

typeaheadVars == <<box, fetches, cache, crossed>>

Mode == {"dashboard", "forum", "settings"}
SearchMode == {"dashboard", "forum"}
\* "none": blank; "one": a single character, enough for the settings index only.
QueryText == LongQuery \cup {"none", "one"}
Search == [mode : SearchMode, query : LongQuery]
SearchOrNull == Search \cup {NULL}

\* Assumed of the constants.
TypeaheadConstantsOK ==
  /\ NULL \notin LongQuery /\ NULL \notin Fetch /\ NULL \notin Search
  /\ {"none", "one"} \cap LongQuery = {} /\ CacheMax \in Nat \ {0}

Enough(mode, q) == q \in LongQuery \/ (mode = "settings" /\ q = "one")
EmptyBox(mode) ==
  [mode |-> mode, query |-> "none", open |-> FALSE, loading |-> FALSE, timer |-> NULL,
   latest |-> NULL, results |-> [m \in SearchMode |-> NULL], settings |-> NULL]
NoFetch == [at |-> "idle", search |-> NULL]
CacheEntry == [key : Search, value : Search]

TypeaheadTypeOK ==
  /\ box \in [mode : Mode, query : QueryText, open : BOOLEAN, loading : BOOLEAN,
              timer : SearchOrNull, latest : Fetch \cup {NULL},
              results : [SearchMode -> SearchOrNull], settings : QueryText \cup {NULL}]
  /\ fetches \in [Fetch -> [at : {"idle", "sent", "aborted"}, search : SearchOrNull]]
  /\ cache \in Seq(CacheEntry)
  /\ crossed \in BOOLEAN

TypeaheadInit ==
  /\ box \in {EmptyBox(m) : m \in Mode}
  /\ fetches = [f \in Fetch |-> NoFetch]
  /\ cache = <<>> /\ crossed = FALSE

Live(f) == fetches[f].at = "sent"
SearchPending == box.timer # NULL \/ \E f \in Fetch : fetches[f].at # "idle"

\* The lists that the two routes answer are named by what they were asked for.
DashboardLists(q) == [mode |-> "dashboard", query |-> q]
ForumLists(q) == [mode |-> "forum", query |-> q]
ListsOf(s) == IF s.mode = "dashboard" THEN DashboardLists(s.query) ELSE ForumLists(s.query)

\* cacheGet and cacheSet: a full cache drops its oldest key, also to replace a value.
Cached(search) == {cache[i].value : i \in {j \in 1..Len(cache) : cache[j].key = search}}
KeyOf(search) == search
Stored(search) ==
  LET kept == IF Len(cache) >= CacheMax THEN Tail(cache) ELSE cache
      i == SelectInSeq(kept, LAMBDA e : e.key = KeyOf(search))
      entry == [key |-> KeyOf(search), value |-> ListsOf(search)]
  IN IF i = 0 THEN Append(kept, entry) ELSE [kept EXCEPT ![i] = entry]

-----------------------------------------------------------------------------
(* The user.                                                               *)

\* handleChange: the settings index answers at once; a search waits for the debounce, and
\* the lists of the other mode, or of a query too short, are emptied.
Emptied(q) ==
  IF box.mode = "settings" THEN SearchMode
  ELSE IF q \in LongQuery THEN SearchMode \ {box.mode}
  ELSE IF box.mode = "forum" THEN {"forum"} ELSE SearchMode
Type(q) ==
  /\ q # box.query
  /\ box' = [box EXCEPT
       !.query = q, !.open = Enough(box.mode, q),
       !.results = [m \in SearchMode |-> IF m \in Emptied(q) THEN NULL ELSE box.results[m]],
       !.settings = IF box.mode = "settings" /\ Enough(box.mode, q) THEN q ELSE NULL,
       !.timer = IF box.mode = "settings" \/ q \notin LongQuery THEN NULL
                 ELSE [mode |-> box.mode, query |-> q]]
  /\ crossed' = (crossed \/ (q \notin LongQuery /\ \E f \in Fetch : Live(f)))
  /\ UNCHANGED <<fetches, cache>>

\* onFocus; a click on the trigger or outside lets the popover toggle `open`.
Focus ==
  /\ box' = [box EXCEPT
       !.open = box.open \/ box.mode = "settings" \/ box.query \in LongQuery,
       !.settings = IF box.mode # "settings" THEN box.settings
                    ELSE IF Enough(box.mode, box.query) THEN box.query ELSE NULL]
  /\ UNCHANGED <<fetches, cache, crossed>>
Flip == box' = [box EXCEPT !.open = ~box.open] /\ UNCHANGED <<fetches, cache, crossed>>

\* A result is chosen: the box is blanked; its timer, its request and its lists stay.
Choose ==
  /\ box.open /\ ~box.loading
  /\ box.settings # NULL \/ \E m \in SearchMode : box.results[m] # NULL
  /\ box' = [box EXCEPT !.open = FALSE, !.query = "none"]
  /\ UNCHANGED <<fetches, cache, crossed>>

\* Another page: the clean-up clears the timer and aborts the latest request, whose
\* continuation then finds nobody.
Mount(mode) ==
  /\ box' = EmptyBox(mode)
  /\ fetches' = [f \in Fetch |-> NoFetch]
  /\ crossed' = FALSE
  /\ UNCHANGED cache

-----------------------------------------------------------------------------
(* fetchDashboardResults and fetchForumResults.                            *)

Shows(s, search) == [s EXCEPT !.results[search.mode] = search, !.loading = FALSE]

\* A hit returns before the abort: the request of the query before goes on.
Hit ==
  /\ box.timer # NULL
  /\ \E v \in Cached(KeyOf(box.timer)) :
       box' = [box EXCEPT !.timer = NULL, !.loading = FALSE, !.results[box.timer.mode] = v]
  /\ crossed' = (crossed \/ \E f \in Fetch : Live(f))
  /\ UNCHANGED <<fetches, cache>>

Aborted(f) == box.latest = f /\ Live(f)
Miss(g) ==
  /\ box.timer # NULL /\ Cached(KeyOf(box.timer)) = {} /\ fetches[g].at = "idle"
  /\ fetches' = [f \in Fetch |->
       IF f = g THEN [at |-> "sent", search |-> box.timer]
       ELSE IF Aborted(f) THEN [fetches[f] EXCEPT !.at = "aborted"] ELSE fetches[f]]
  /\ box' = [box EXCEPT !.timer = NULL, !.loading = TRUE, !.latest = g]
  /\ UNCHANGED <<cache, crossed>>

\* A finished controller is no longer anybody's to abort.
Finish(f) == fetches' = [fetches EXCEPT ![f] = NoFetch]
Without(s, f) == IF s.latest = f THEN [s EXCEPT !.latest = NULL] ELSE s

Answer(f) ==
  /\ Live(f)
  /\ cache' = Stored(fetches[f].search)
  /\ box' = Without(Shows(box, ListsOf(fetches[f].search)), f)
  /\ Finish(f) /\ UNCHANGED crossed
\* Not ok, or the network fails: the lists of this mode are emptied.
Fail(f) ==
  /\ Live(f)
  /\ box' = Without([box EXCEPT !.results[fetches[f].search.mode] = NULL, !.loading = FALSE], f)
  /\ Finish(f) /\ UNCHANGED <<cache, crossed>>
\* `finally` of the aborted one: the spinner of the request after it goes out.
HearAbort(f) ==
  /\ fetches[f].at = "aborted"
  /\ box' = [box EXCEPT !.loading = FALSE]
  /\ Finish(f) /\ UNCHANGED <<cache, crossed>>

TypeaheadNext ==
  \/ \E q \in QueryText : Type(q)
  \/ \E m \in Mode : Mount(m)
  \/ Focus \/ Flip \/ Choose \/ Hit
  \/ \E f \in Fetch : Miss(f) \/ Answer(f) \/ Fail(f) \/ HearAbort(f)

-----------------------------------------------------------------------------
(* Properties.                                                             *)

\* Every entry of the cache is an answer to its own key, mode and query, and the cache
\* keeps to its bound: flipping pages never surfaces the results of the other mode.
CacheHonest ==
  /\ Len(cache) <= CacheMax
  /\ \A i \in 1..Len(cache) : cache[i].value = cache[i].key

\* At most one request is not aborted, the latest: an unmount silences the box.
OneLive == \A f \in Fetch : Live(f) => box.latest = f

\* A box at rest shows, for a query long enough, what that query finds or nothing, unless
\* it took a cached answer, or a query too short, while a request was still in flight.
AtRestShowsQuery ==
  ~SearchPending /\ ~crossed /\ box.query \in LongQuery =>
    \A m \in SearchMode :
      box.results[m] \in {NULL, [mode |-> m, query |-> box.query]}

TypeaheadInv == TypeaheadTypeOK /\ CacheHonest /\ OneLive /\ AtRestShowsQuery

\* What the header says, that requests in flight are aborted when the query changes: a box
\* at rest shows what its query finds.  (A cached answer aborts nothing: this is refuted.)
ShowsItsQuery ==
  ~SearchPending /\ box.query \in LongQuery =>
    \A m \in SearchMode :
      box.results[m] \in {NULL, [mode |-> m, query |-> box.query]}
=============================================================================
