----------------------------- MODULE HoverCards -----------------------------
(***************************************************************************)
(* AuthorHoverCard: the summary of an author, fetched when a hover of that  *)
(* author opens for the first time and kept in a cache all cards share.    *)
(***************************************************************************)
EXTENDS Naturals, Sequences, SequencesExt, Sql

CONSTANTS
  Card,         \* places on the page that show an author
  Author,       \* usernames, case folded
  SummaryFetch, \* requests in flight
  SummaryMax    \* CACHE_MAX

\* Assumed of the constants.
HoverConstantsOK == NULL \notin Author /\ NULL \notin Card /\ SummaryMax \in Nat \ {0}

VARIABLES
  hover,     \* the mounted cards
  summary,   \* requests to /api/forum/users/[username]/summary
  summaries  \* summaryCache, oldest key first

hoverVars == <<hover, summary, summaries>>

Kind == {"resolved", "not-found", "error"}
Entry == [author : Author, kind : Kind \cup {"pending"}]
NoHover == [author |-> NULL, open |-> FALSE, shows |-> NULL]
NoSummary == [author |-> NULL, by |-> NULL]

HoverTypeOK ==
  /\ hover \in [Card -> [author : Author \cup {NULL}, open : BOOLEAN,
                        shows : Kind \cup {"pending", NULL}]]
  /\ summary \in [SummaryFetch -> [author : Author \cup {NULL}, by : Card \cup {NULL}]]
  /\ summaries \in Seq(Entry)

HoverInit ==
  /\ hover = [c \in Card |-> NoHover]
  /\ summary = [f \in SummaryFetch |-> NoSummary]
  /\ summaries = <<>>

SlotOf(a) == SelectInSeq(summaries, LAMBDA e : e.author = a)
KindOf(a) == IF SlotOf(a) = 0 THEN NULL ELSE summaries[SlotOf(a)].kind

\* cacheSet: a new key drops the oldest of a full cache.
Put(a, kind) ==
  LET entry == [author |-> a, kind |-> kind] IN
  summaries' =
    IF SlotOf(a) # 0 THEN [summaries EXCEPT ![SlotOf(a)] = entry]
    ELSE Append(IF Len(summaries) >= SummaryMax THEN Tail(summaries) ELSE summaries, entry)

MountCard(c, a) ==
  /\ hover[c].author = NULL
  /\ hover' = [hover EXCEPT ![c] = [author |-> a, open |-> FALSE, shows |-> KindOf(a)]]
  /\ UNCHANGED <<summary, summaries>>
UnmountCard(c) ==
  /\ hover[c].author # NULL
  /\ hover' = [hover EXCEPT ![c] = NoHover]
  /\ summary' = [f \in SummaryFetch |->
       IF summary[f].by = c THEN [summary[f] EXCEPT !.by = NULL] ELSE summary[f]]
  /\ UNCHANGED summaries

\* handleOpen: an entry, pending or not, is shown as it is; nobody but the card that
\* started the request hears of its end.
OpenKnown(c) ==
  /\ hover[c].author # NULL /\ ~hover[c].open /\ KindOf(hover[c].author) # NULL
  /\ hover' = [hover EXCEPT ![c].open = TRUE, ![c].shows = KindOf(hover[c].author)]
  /\ UNCHANGED <<summary, summaries>>
OpenUnknown(c, f) ==
  /\ hover[c].author # NULL /\ ~hover[c].open /\ KindOf(hover[c].author) = NULL
  /\ summary[f].author = NULL
  /\ summary' = [summary EXCEPT ![f] = [author |-> hover[c].author, by |-> c]]
  /\ hover' = [hover EXCEPT ![c].open = TRUE, ![c].shows = "pending"]
  /\ Put(hover[c].author, "pending")
CloseCard(c) ==
  /\ hover[c].open
  /\ hover' = [hover EXCEPT ![c].open = FALSE]
  /\ UNCHANGED <<summary, summaries>>

\* fetchSummary ends: 200, 404, or anything else.
EndSummary(f, kind) ==
  /\ summary[f].author # NULL
  /\ Put(summary[f].author, kind)
  /\ hover' = IF summary[f].by = NULL THEN hover
             ELSE [hover EXCEPT ![summary[f].by].shows = kind]
  /\ summary' = [summary EXCEPT ![f] = NoSummary]

HoverNext ==
  \/ \E c \in Card :
       \/ UnmountCard(c) \/ OpenKnown(c) \/ CloseCard(c)
       \/ \E a \in Author : MountCard(c, a)
       \/ \E f \in SummaryFetch : OpenUnknown(c, f)
  \/ \E f \in SummaryFetch, kind \in Kind : EndSummary(f, kind)

\* An entry that says pending has a request under way: the cache never holds one that
\* nobody will settle, although entries are evicted while they are pending; and a full
\* cache keeps to its bound, one entry per author.
PendingHasRequest ==
  /\ Len(summaries) <= SummaryMax
  /\ \A i, j \in 1..Len(summaries) : summaries[i].author = summaries[j].author => i = j
  /\ \A i \in 1..Len(summaries) :
       summaries[i].kind = "pending" => \E f \in SummaryFetch : summary[f].author = summaries[i].author

HoverInv == HoverTypeOK /\ PendingHasRequest

\* What the comment on `pending` says, that a concurrent open reuses the same promise: a
\* card that shows the spinner is waiting for a request.  (Only the card that started it
\* hears of its end: this is refuted.)
SpinnerEnds ==
  \A c \in Card : hover[c].open /\ hover[c].shows = "pending" =>
    \E f \in SummaryFetch : summary[f].author = hover[c].author
=============================================================================
