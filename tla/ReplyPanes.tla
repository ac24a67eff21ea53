----------------------------- MODULE ReplyPanes -----------------------------
(***************************************************************************)
(* Replying to a post: RepliesShell keeps the list of replies and renders  *)
(* RepliesPane twice over it, in an aside that is always mounted and in a  *)
(* sheet that is mounted while it is open on a narrow window.  A pane      *)
(* shows a reply before it is stored and settles the row when the answer   *)
(* comes.  What the server checks and writes is in ForumPosts.             *)
(***************************************************************************)
EXTENDS Naturals, Sequences, SequencesExt, Sql

CONSTANTS
  ReplyCall, \* requests to POST /api/forum/posts/[id]/comments
  LastText   \* bound on the texts written

\* Assumed of the constants.
ReplyConstantsOK == NULL \notin ReplyCall /\ LastText \in Nat

VARIABLES
  rows,       \* `comments` of the shell
  stored,     \* replies in the database, in order
  view,       \* the visibility of the panes and the width of the window
  pane,       \* state of the two panes
  reply,      \* the requests
  written,    \* texts written so far
  left,       \* history: texts the user erased or walked away from
  overlapped  \* history: two requests of this page have been in flight at once

replyVars == <<rows, stored, view, pane, reply, written, left, overlapped>>

Pane == {"aside", "sheet"}
TextOrNone == 0..LastText
Row == [of : ReplyCall, temp : BOOLEAN]
Temp(c) == [of |-> c, temp |-> TRUE]
Real(c) == [of |-> c, temp |-> FALSE]
NoPane == [draft |-> 0, busy |-> FALSE]

\* `before` is the list the handler closed over; `page` and `heard` say whether the shell
\* and the pane that sent the request are still the mounted ones.
NoReply == [at |-> "idle", by |-> NULL, text |-> 0, before |-> <<>>, page |-> FALSE, heard |-> FALSE]


ReplyTypeOK ==
  /\ ToSet(rows) \subseteq Row /\ ToSet(stored) \subseteq ReplyCall
  /\ view \in [open : BOOLEAN, wide : BOOLEAN]
  /\ pane \in [Pane -> [draft : TextOrNone, busy : BOOLEAN]]
  /\ \A c \in ReplyCall :
       /\ reply[c].at \in {"idle", "sent", "stored", "refused", "done"}
       /\ reply[c].by \in Pane \cup {NULL} /\ reply[c].text \in TextOrNone
       /\ ToSet(reply[c].before) \subseteq Row
       /\ reply[c].page \in BOOLEAN /\ reply[c].heard \in BOOLEAN
  /\ written \in TextOrNone /\ left \subseteq 1..LastText /\ overlapped \in BOOLEAN

ReplyInit ==
  /\ rows = <<>> /\ stored = <<>>
  /\ view \in [open : BOOLEAN, wide : BOOLEAN]
  /\ pane = [p \in Pane |-> NoPane]
  /\ reply = [c \in ReplyCall |-> NoReply]
  /\ written = 0 /\ left = {} /\ overlapped = FALSE

Under(c) == reply[c].at \in {"sent", "stored", "refused"}
Waiting(c) == Under(c) /\ reply[c].page

-----------------------------------------------------------------------------
(* The two panes.                                                          *)

\* The pane the user can reach: both follow one visibility, the width decides.
Reachable(p) == view.open /\ (p = "aside") = view.wide

\* The textarea is disabled while a reply of this pane is in flight.
Write(p) ==
  /\ Reachable(p) /\ ~pane[p].busy /\ written < LastText
  /\ written' = written + 1
  /\ left' = left \cup ({pane[p].draft} \ {0})
  /\ pane' = [pane EXCEPT ![p].draft = written + 1]
  /\ UNCHANGED <<rows, stored, view, reply, overlapped>>

\* submit: the optimistic row goes to the end of the list of this render.
Submit(p, c) ==
  /\ Reachable(p) /\ ~pane[p].busy /\ pane[p].draft # 0
  /\ reply[c].at = "idle"
  /\ reply' = [reply EXCEPT ![c] =
       [at |-> "sent", by |-> p, text |-> pane[p].draft, before |-> rows,
        page |-> TRUE, heard |-> TRUE]]
  /\ rows' = Append(rows, Temp(c))
  /\ pane' = [pane EXCEPT ![p].busy = TRUE]
  /\ overlapped' = (overlapped \/ \E d \in ReplyCall : Waiting(d))
  /\ UNCHANGED <<stored, view, written, left>>

\* The sheet unmounts when it closes or the window grows; the aside never does.
Shown(v) ==
  /\ view' = v
  /\ IF v.open /\ ~v.wide THEN UNCHANGED <<pane, reply, left>>
     ELSE /\ pane' = [pane EXCEPT !["sheet"] = NoPane]
          /\ reply' = [c \in ReplyCall |->
               [reply[c] EXCEPT !.heard = reply[c].heard /\ reply[c].by # "sheet"]]
          /\ left' = left \cup ({pane["sheet"].draft} \ {0})
  /\ UNCHANGED <<rows, stored, written, overlapped>>
Toggle == Shown([view EXCEPT !.open = ~view.open])
Resize == Shown([view EXCEPT !.wide = ~view.wide])

\* The page is loaded again: the list is what the server has.
Reload ==
  /\ rows' = [i \in 1..Len(stored) |-> Real(stored[i])]
  /\ pane' = [p \in Pane |-> NoPane]
  /\ reply' = [c \in ReplyCall |-> [reply[c] EXCEPT !.page = FALSE, !.heard = FALSE]]
  /\ left' = left \cup ({pane[p].draft : p \in Pane} \ {0})
  /\ overlapped' = FALSE
  /\ UNCHANGED <<stored, view, written>>

-----------------------------------------------------------------------------
(* The request.                                                            *)

StoreReply(c) ==
  /\ reply[c].at = "sent"
  /\ stored' = Append(stored, c)
  /\ reply' = [reply EXCEPT ![c].at = "stored"]
  /\ UNCHANGED <<rows, view, pane, written, left, overlapped>>
RefuseReply(c) ==
  /\ reply[c].at = "sent"
  /\ reply' = [reply EXCEPT ![c].at = "refused"]
  /\ UNCHANGED <<rows, stored, view, pane, written, left, overlapped>>

\* Mutant: the answer is added beside its optimistic row.
AppendedRows(c, ok) == IF ok THEN Append(rows, Real(c)) ELSE reply[c].before
\* The answer settles the list as it was before the request, whatever happened since.
SettledRows(c, ok) == IF ok THEN Append(reply[c].before, Real(c)) ELSE reply[c].before
SettledPane(c, ok) ==
  [pane EXCEPT ![reply[c].by] = [draft |-> IF ok THEN 0 ELSE pane[reply[c].by].draft,
                                 busy |-> FALSE]]

Settles(c, ok) ==
  /\ reply' = [reply EXCEPT ![c].at = "done"]
  /\ rows' = IF reply[c].page THEN SettledRows(c, ok) ELSE rows
  /\ pane' = IF reply[c].heard THEN SettledPane(c, ok) ELSE pane
  /\ UNCHANGED <<stored, view, written, left, overlapped>>

Accepted(c) == reply[c].at = "stored" /\ Settles(c, TRUE)

\* Refused, or the answer never comes, or the reading back of a stored reply fails (500).
Failed(c) == Under(c) /\ reply[c].at # "sent" /\ Settles(c, FALSE)

\* fetch rejects while the server is still at work: the request is stored or refused later.
Abandoned(c) ==
  /\ reply[c].at = "sent" /\ reply[c].page
  /\ rows' = SettledRows(c, FALSE)
  /\ pane' = IF reply[c].heard THEN SettledPane(c, FALSE) ELSE pane
  /\ reply' = [reply EXCEPT ![c].page = FALSE, ![c].heard = FALSE]
  /\ UNCHANGED <<stored, view, written, left, overlapped>>

ReplyNext ==
  \/ Toggle \/ Resize \/ Reload
  \/ \E p \in Pane : Write(p) \/ \E c \in ReplyCall : Submit(p, c)
  \/ \E c \in ReplyCall :
       StoreReply(c) \/ RefuseReply(c) \/ Accepted(c) \/ Failed(c) \/ Abandoned(c)

-----------------------------------------------------------------------------
(* Properties.                                                             *)

\* No text is lost by the program: one that the user has neither erased nor walked away
\* from is in a draft or in the database, through failures and windows that change.
TextKept ==
  \A t \in 1..written :
    \/ t \in left \/ t \in {pane[p].draft : p \in Pane}
    \/ t \in {reply[c].text : c \in ToSet(stored)}

\* No reply is listed twice, not as its placeholder and its row either.
NoRowTwice == IsInjective([i \in 1..Len(rows) |-> rows[i].of])

\* As long as no two requests overlap, a placeholder stands for the request in flight, and
\* every other row for a stored reply.
RowsExactAlone ==
  ~overlapped => \A r \in ToSet(rows) : IF r.temp THEN Waiting(r.of) ELSE r.of \in ToSet(stored)

RepliesInv == ReplyTypeOK /\ TextKept /\ NoRowTwice /\ RowsExactAlone

\* What the header says, that a placeholder is swapped for the row of the server or
\* reverted: none is left once its request has settled.  (The other pane's answer brings
\* it back: this is refuted.)
SettledRowsReal == \A r \in ToSet(rows) : r.temp => Waiting(r.of)
=============================================================================
