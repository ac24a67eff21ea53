------------------------------- MODULE Badges -------------------------------
(***************************************************************************)
(* Settings - Badges: the curated badges, which are dragged into order,    *)
(* renamed, hidden and created, and the inbox of names that agents have    *)
(* proposed, which are approved or rejected one by one or in bulk.  Badges *)
(* are never deleted, so a badge is its position in the table, which is    *)
(* also the order of creation.                                             *)
(***************************************************************************)
EXTENDS Naturals, Sequences, FiniteSetsExt, SequencesExt, Sql

CONSTANTS
  Title,     \* names of badges and of suggestions
  Act,       \* requests of the page and of other tabs
  MaxBadges  \* bound on the curated badges

VARIABLES
  curated,   \* topic_badges
  proposals, \* topic_badge_suggestions
  items,     \* the badges as the page shows them
  pending,   \* the suggestions as the page shows them
  picked,    \* selectedSuggestionIds
  bulk,      \* the run of handleBulk or handleSingle
  render,    \* router.refresh: asked for, and what the one under way has read
  act,       \* the requests
  verdict,   \* history: suggestions rejected, and suggestions turned into a badge
  apart      \* history: how the page came to differ from the tables

badgeVars == <<curated, proposals, items, pending, picked, bulk, render, act, verdict, apart>>

Badge == 1..Len(curated)
BadgeRow == [name : Title, order : 0..MaxBadges, hidden : BOOLEAN]
Item == [id : 1..MaxBadges, name : Title, hidden : BOOLEAN]
PageRead == [items : Seq(Item), pending : SUBSET Title]

\* Assumed of the constants: the table starts with two badges.
BadgeConstantsOK ==
  /\ MaxBadges \in Nat \ {0, 1}
  /\ NULL \notin Title /\ NULL \notin Act /\ NULL \notin PageRead

ActOp == {"create", "rename", "hide", "reorder", "approve", "reject"}
NoAct == [at |-> "idle", op |-> NULL, id |-> 0, name |-> NULL, hidden |-> FALSE,
          ids |-> <<>>, rows |-> 0, page |-> FALSE]
NoBulk == [todo |-> {}, ask |-> NULL, of |-> NULL, single |-> FALSE, before |-> {}]
NoRender == [wanted |-> FALSE, read |-> NULL]

BadgeTypeOK ==
  /\ \A b \in Badge : curated[b] \in BadgeRow
  /\ proposals \in [Title -> {"none", "open", "resolved"}]
  /\ \A i \in DOMAIN items : items[i] \in Item
  /\ pending \subseteq Title /\ picked \subseteq Title
  /\ bulk.todo \subseteq Title /\ bulk.ask \in {"approve", "reject", NULL}
  /\ render.wanted \in BOOLEAN
  /\ \A a \in Act : act[a].at \in {"idle", "sent", "read", "done", "refused", "over"}
  /\ verdict \in [rejected : SUBSET Title, made : SUBSET Title, crossed : SUBSET Title]
  /\ apart \in BOOLEAN

\* ORDER BY display_order, created_at.
PlacedBefore(rows) ==
  {p \in (DOMAIN rows) \X (DOMAIN rows) :
     \/ rows[p[1]].order < rows[p[2]].order
     \/ rows[p[1]].order = rows[p[2]].order /\ p[1] < p[2]}
InOrder(rows) == Ranked(DOMAIN rows, PlacedBefore(rows))
RowShown(rows, b) == [id |-> b, name |-> rows[b].name, hidden |-> rows[b].hidden]
PageShows ==
  [items |-> [i \in Badge |-> RowShown(curated, InOrder(curated)[i])],
   pending |-> {t \in Title : proposals[t] = "open"}]

BadgeInit ==
  /\ \E names \in {s \in [1..2 -> Title] : s[1] # s[2]} :
       curated = [b \in 1..2 |-> [name |-> names[b], order |-> b - 1, hidden |-> FALSE]]
  /\ proposals = [t \in Title |-> "none"]
  /\ items = PageShows.items /\ pending = {} /\ picked = {} /\ bulk = NoBulk
  /\ render = NoRender /\ act = [a \in Act |-> NoAct]
  /\ apart = FALSE
  /\ verdict = [rejected |-> {}, made |-> {}, crossed |-> {}]

Going(a) == act[a].at \in {"sent", "read", "done", "refused"}
BadgeNamed(name) == \E b \in Badge : curated[b].name = name
Refresh == render' = [render EXCEPT !.wanted = TRUE]
Sent(op) == [NoAct EXCEPT !.at = "sent", !.op = op]
Asks(a, request) == act[a].at = "idle" /\ act' = [act EXCEPT ![a] = request]
Tables == <<curated, proposals>>
Page == <<items, pending, picked, bulk, render>>

-----------------------------------------------------------------------------
(* The curated list.                                                       *)

\* handleDragEnd shows the new order and persistOrder sends it, whatever is still under way.
Drag(a, from, to) ==
  LET moved == InsertAt(RemoveAt(items, from), to, items[from]) IN
  /\ from \in DOMAIN items /\ to \in DOMAIN items /\ from # to
  /\ Asks(a, [Sent("reorder") EXCEPT !.ids = [i \in DOMAIN moved |-> moved[i].id], !.page = TRUE])
  /\ items' = moved
  /\ apart' = (apart \/ render.read # NULL \/ \E o \in Act : Going(o) /\ act[o].op = "reorder")
  /\ UNCHANGED <<Tables, pending, picked, bulk, render, verdict>>
\* The eye of a row is dead while its own request is under way.
ToggleHidden(a, i) ==
  /\ i \in DOMAIN items
  /\ ~\E o \in Act : Going(o) /\ act[o].page /\ act[o].op = "hide" /\ act[o].id = items[i].id
  /\ Asks(a, [Sent("hide") EXCEPT !.id = items[i].id, !.hidden = ~items[i].hidden, !.page = TRUE])
  /\ UNCHANGED <<Tables, Page, verdict, apart>>
\* The two forms: a dialog that is dismissed while it saves can be opened again at once.
SubmitNew(a, name) ==
  /\ Asks(a, [Sent("create") EXCEPT !.name = name, !.page = TRUE])
  /\ UNCHANGED <<Tables, Page, verdict, apart>>
SubmitEdit(a, i, name) ==
  /\ i \in DOMAIN items
  /\ Asks(a, [Sent("rename") EXCEPT !.id = items[i].id, !.name = name, !.page = TRUE])
  /\ UNCHANGED <<Tables, Page, verdict, apart>>

-----------------------------------------------------------------------------
(* The inbox.                                                              *)

Tick(t) ==
  /\ t \in pending
  /\ picked' = IF t \in picked THEN picked \ {t} ELSE picked \cup {t}
  /\ UNCHANGED <<Tables, items, pending, bulk, render, act, verdict, apart>>
TickAll ==
  /\ pending # {}
  /\ picked' = IF pending \subseteq picked THEN {} ELSE pending
  /\ UNCHANGED <<Tables, items, pending, bulk, render, act, verdict, apart>>
Busy == bulk # NoBulk
\* handleBulk takes every picked id, listed or not; handleSingle the row's own.
StartBulk(ask) ==
  /\ ~Busy /\ pending # {} /\ picked # {}
  /\ bulk' = [NoBulk EXCEPT !.todo = picked, !.ask = ask]
  /\ UNCHANGED <<Tables, items, pending, picked, render, act, verdict, apart>>
StartSingle(t, ask) ==
  /\ ~Busy /\ t \in pending
  /\ bulk' = [todo |-> {t}, ask |-> ask, of |-> NULL, single |-> TRUE, before |-> picked]
  /\ UNCHANGED <<Tables, items, pending, picked, render, act, verdict, apart>>
\* resolveOne, one after the other.
ResolveNext(a, t) ==
  /\ bulk.of = NULL /\ t \in bulk.todo
  /\ Asks(a, [Sent(bulk.ask) EXCEPT !.name = t, !.page = TRUE])
  /\ bulk' = [bulk EXCEPT !.of = a, !.todo = bulk.todo \ {t}]
  /\ UNCHANGED <<Tables, items, pending, picked, render, verdict, apart>>
\* Another tab of the admin resolves a suggestion it still lists.
ResolveElsewhere(a, t, ask) ==
  /\ proposals[t] = "open"
  /\ Asks(a, [Sent(ask) EXCEPT !.name = t])
  /\ UNCHANGED <<Tables, Page, verdict, apart>>
\* write_articles meets a name that is no badge.
Suggest(t) ==
  /\ ~BadgeNamed(t) /\ proposals[t] = "none"
  /\ proposals' = [proposals EXCEPT ![t] = "open"] /\ apart' = TRUE
  /\ UNCHANGED <<curated, Page, act, verdict>>

-----------------------------------------------------------------------------
(* The server.                                                             *)

Turns(a, stage) == act' = [act EXCEPT ![a].at = stage]
ActEnds(a, stage) == Turns(a, stage) /\ apart' = (apart \/ (stage = "done" /\ ~act[a].page))
\* A reorder holds the rows it has updated until it commits.
Held(a) == IF act[a].at = "sent" /\ act[a].op = "reorder"
           THEN {act[a].ids[i] : i \in 1..act[a].rows} ELSE {}
Locked(b) == \E a \in Act : b \in Held(a)
Inserts(row) == curated' = Append(curated, row)
LastPlace == IF curated = <<>> THEN 0 ELSE Max({curated[b].order : b \in Badge}) + 1

CreateBadge(a) ==
  /\ act[a].at = "sent" /\ act[a].op = "create"
  /\ IF BadgeNamed(act[a].name) THEN ActEnds(a, "refused") /\ UNCHANGED curated
     ELSE /\ Len(curated) < MaxBadges /\ ActEnds(a, "done")
          /\ Inserts([name |-> act[a].name, order |-> LastPlace, hidden |-> FALSE])
  /\ UNCHANGED <<proposals, Page, verdict>>
PatchBadge(a) ==
  LET b == act[a].id IN
  /\ act[a].at = "sent" /\ act[a].op \in {"rename", "hide"} /\ ~Locked(b)
  /\ IF act[a].op = "hide"
     THEN curated' = [curated EXCEPT ![b].hidden = act[a].hidden] /\ ActEnds(a, "done")
     ELSE IF \E c \in Badge \ {b} : curated[c].name = act[a].name
     THEN ActEnds(a, "refused") /\ UNCHANGED curated
     ELSE curated' = [curated EXCEPT ![b].name = act[a].name] /\ ActEnds(a, "done")
  /\ UNCHANGED <<proposals, Page, verdict>>

\* The transaction of reorder: one UPDATE per id, seen by others when it commits.
WantsRow(a) == act[a].at = "sent" /\ act[a].op = "reorder" /\ act[a].rows < Len(act[a].ids)
NextRow(a) == act[a].ids[act[a].rows + 1]
UpdateRow(a) ==
  /\ WantsRow(a) /\ ~Locked(NextRow(a))
  /\ act' = [act EXCEPT ![a].rows = @ + 1]
  /\ UNCHANGED <<Tables, Page, verdict, apart>>
CommitOrder(a) ==
  LET ids == act[a].ids
      Place(b) == CHOOSE i \in DOMAIN ids : ids[i] = b IN
  /\ act[a].at = "sent" /\ act[a].op = "reorder" /\ act[a].rows = Len(ids)
  /\ curated' = [b \in Badge |-> IF b \in ToSet(ids)
       THEN [curated[b] EXCEPT !.order = Place(b) - 1] ELSE curated[b]]
  /\ ActEnds(a, "done")
  /\ UNCHANGED <<proposals, Page, verdict>>
\* Two reorders that wait for each other: Postgres ends one of them.
BreakDeadlock(a) ==
  /\ WantsRow(a)
  /\ \E c \in Act \ {a} : WantsRow(c) /\ NextRow(a) \in Held(c) /\ NextRow(c) \in Held(a)
  /\ Turns(a, "refused")
  /\ UNCHANGED <<Tables, Page, verdict, apart>>

\* resolve looks at the suggestion outside the transaction.
ReadSuggestion(a) ==
  /\ act[a].at = "sent" /\ act[a].op \in {"approve", "reject"}
  /\ Turns(a, IF proposals[act[a].name] = "resolved" THEN "done" ELSE "read")
  /\ verdict' = [verdict EXCEPT !.crossed = verdict.crossed \cup
       {t \in {act[a].name} : \E c \in Act \ {a} : act[c].at = "read" /\ act[c].name = t}]
  /\ UNCHANGED <<Tables, Page, apart>>
RejectSuggestion(a) ==
  LET t == act[a].name IN
  /\ act[a].at = "read" /\ act[a].op = "reject"
  /\ proposals' = [proposals EXCEPT ![t] = "resolved"] /\ ActEnds(a, "done")
  /\ verdict' = IF proposals[t] = "resolved" THEN verdict
                ELSE [verdict EXCEPT !.rejected = verdict.rejected \cup {t}]
  /\ UNCHANGED <<curated, Page>>
\* The approved badge takes the column's default, the first place.
ApproveSuggestion(a) ==
  LET t == act[a].name IN
  /\ act[a].at = "read" /\ act[a].op = "approve"
  /\ IF BadgeNamed(t) THEN ActEnds(a, "refused") /\ UNCHANGED <<curated, proposals, verdict>>
     ELSE /\ Len(curated) < MaxBadges /\ ActEnds(a, "done")
          /\ Inserts([name |-> t, order |-> 0, hidden |-> FALSE])
          /\ proposals' = [proposals EXCEPT ![t] = "resolved"]
          /\ verdict' = [verdict EXCEPT !.made = verdict.made \cup {t}]
  /\ UNCHANGED Page
ActFails(a) ==
  /\ act[a].at \in {"sent", "read"} /\ Turns(a, "refused")
  /\ UNCHANGED <<Tables, Page, verdict, apart>>

-----------------------------------------------------------------------------
(* The answers.                                                            *)

Over(a) == act[a].page /\ act' = [act EXCEPT ![a] = [NoAct EXCEPT !.at = "over"]]
\* Hidden, name and new badge: a success refreshes.  A saved order does not; one that
\* could not be saved does.
Succeeded(a) ==
  /\ act[a].at = "done" /\ act[a].op \in {"create", "rename", "hide"} /\ Over(a) /\ Refresh
  /\ UNCHANGED <<Tables, items, pending, picked, bulk, verdict, apart>>
OrderSaved(a) ==
  /\ act[a].at = "done" /\ act[a].op = "reorder" /\ Over(a)
  /\ UNCHANGED <<Tables, Page, verdict, apart>>
ActRefused(a) ==
  /\ act[a].at = "refused" /\ act[a].op \notin {"approve", "reject"} /\ Over(a)
  /\ IF act[a].op = "reorder" THEN Refresh ELSE UNCHANGED render
  /\ UNCHANGED <<Tables, items, pending, picked, bulk, verdict, apart>>
\* "Network error": the server goes on; only the drag asks for the list again.
NoAnswer(a) ==
  /\ Going(a) /\ act[a].page /\ act[a].op \notin {"approve", "reject"}
  /\ act' = [act EXCEPT ![a].page = FALSE]
  /\ apart' = (apart \/ act[a].at = "done")
  /\ IF act[a].op = "reorder" THEN Refresh ELSE UNCHANGED render
  /\ UNCHANGED <<Tables, items, pending, picked, bulk, verdict>>

\* The end of one resolveOne: the run goes on to the next, or is over.
Resolved(a, heard) ==
  /\ bulk.of = a /\ Going(a) /\ (heard => act[a].at \in {"done", "refused"})
  /\ act' = IF heard THEN [act EXCEPT ![a] = [NoAct EXCEPT !.at = "over"]]
            ELSE [act EXCEPT ![a].page = FALSE]
  /\ apart' = (apart \/ ~heard)
  /\ IF bulk.todo # {}
     THEN bulk' = [bulk EXCEPT !.of = NULL] /\ UNCHANGED <<picked, render>>
     ELSE /\ bulk' = NoBulk
          /\ IF ~bulk.single THEN picked' = {} /\ Refresh
             ELSE IF ~heard \/ act[a].at = "refused" THEN UNCHANGED <<picked, render>>
             ELSE /\ Refresh
                  /\ picked' = IF act[a].name \in bulk.before THEN bulk.before \ {act[a].name}
                               ELSE picked
  /\ UNCHANGED <<Tables, items, pending, verdict>>

ReadPage ==
  /\ render.wanted /\ render.read = NULL
  /\ render' = [wanted |-> FALSE, read |-> PageShows]
  /\ apart' = \E a \in Act : Going(a) /\ act[a].op = "reorder"
  /\ UNCHANGED <<Tables, items, pending, picked, bulk, act, verdict>>
\* The new props replace items, a drag that is being saved included.
ShowPage ==
  /\ render.read # NULL
  /\ items' = render.read.items /\ pending' = render.read.pending
  /\ render' = [render EXCEPT !.read = NULL]
  /\ apart' = (apart \/ \E a \in Act : Going(a) /\ act[a].op = "reorder")
  /\ UNCHANGED <<Tables, picked, bulk, act, verdict>>

BadgeNext ==
  \/ TickAll \/ ReadPage \/ ShowPage
  \/ \E t \in Title : Tick(t) \/ Suggest(t)
  \/ \E ask \in {"approve", "reject"} : StartBulk(ask) \/ \E t \in Title : StartSingle(t, ask)
  \/ \E a \in Act :
       \/ \E i, j \in 1..MaxBadges : Drag(a, i, j)
       \/ \E i \in 1..MaxBadges : ToggleHidden(a, i) \/ \E t \in Title : SubmitEdit(a, i, t)
       \/ \E t \in Title : \/ SubmitNew(a, t) \/ ResolveNext(a, t)
                           \/ \E ask \in {"approve", "reject"} : ResolveElsewhere(a, t, ask)
       \/ CreateBadge(a) \/ PatchBadge(a) \/ UpdateRow(a) \/ CommitOrder(a) \/ BreakDeadlock(a)
       \/ ReadSuggestion(a) \/ RejectSuggestion(a) \/ ApproveSuggestion(a) \/ ActFails(a)
       \/ Succeeded(a) \/ OrderSaved(a) \/ ActRefused(a) \/ NoAnswer(a)
       \/ \E heard \in BOOLEAN : Resolved(a, heard)

-----------------------------------------------------------------------------
\* A suggestion leaves the inbox by one verdict: rejected, or with its badge made.  It has
\* both only when the two requests had read it before either wrote.
OneVerdict ==
  /\ \A t \in Title : proposals[t] = "resolved" <=> t \in verdict.rejected \cup verdict.made
  /\ verdict.rejected \cap verdict.made \subseteq verdict.crossed

\* At rest the page shows the tables, unless others changed them, an answer was lost, or a
\* refresh or a second drag crossed a reorder.
PageIsTrue ==
  \/ apart \/ Busy \/ render # NoRender \/ \E a \in Act : Going(a) /\ act[a].page
  \/ [items |-> items, pending |-> pending] = PageShows

BadgesInv == BadgeTypeOK /\ OneVerdict /\ PageIsTrue
=============================================================================
