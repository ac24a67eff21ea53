----------------------------- MODULE ForumStars -----------------------------
(***************************************************************************)
(* The stars of one post of the forum: the row per viewer, and the buttons *)
(* that show it, flip before their request and reconcile with its answer.  *)
(* Buttons of one viewer are of several tabs, or of several pages one      *)
(* after the other; a request goes on when its button is gone.             *)
(***************************************************************************)
EXTENDS Naturals, FiniteSets, Sql

CONSTANTS
  Button,   \* mounted star buttons, each of a tab of its own
  StarCall  \* requests under way, reused

\* Assumed of the constants.
StarConstantsOK == NULL \notin Button

VARIABLES
  starRow,   \* the viewer's row in forum_post_stars is there
  button,    \* the buttons
  starCall,  \* requests to posts/[id]/star
  behind     \* history: buttons that another write has passed, or that lost an answer

starVars == <<starRow, button, starCall, behind>>

NoButton == [on |-> FALSE, shows |-> FALSE, busy |-> FALSE]
NoStarCall == [by |-> NULL, wants |-> FALSE, was |-> FALSE, at |-> "idle", says |-> FALSE,
               missed |-> FALSE]

StarTypeOK ==
  /\ starRow \in BOOLEAN /\ behind \subseteq Button
  /\ button \in [Button -> [on : BOOLEAN, shows : BOOLEAN, busy : BOOLEAN]]
  /\ starCall \in [StarCall -> [by : Button \cup {NULL}, wants : BOOLEAN, was : BOOLEAN,
       at : {"idle", "check", "write", "read", "ok", "failed"}, says : BOOLEAN, missed : BOOLEAN]]

StarInit ==
  /\ starRow \in BOOLEAN /\ behind = {}
  /\ button = [b \in Button |-> NoButton] /\ starCall = [c \in StarCall |-> NoStarCall]

\* A page with the post is rendered: initialStarred of its query.
MountStar(b) ==
  /\ ~button[b].on /\ button' = [button EXCEPT ![b] = [on |-> TRUE, shows |-> starRow, busy |-> FALSE]]
  /\ behind' = behind \ {b} /\ UNCHANGED <<starRow, starCall>>

UnmountStar(b) ==
  /\ button[b].on /\ button' = [button EXCEPT ![b] = NoButton] /\ behind' = behind \ {b}
  /\ starCall' = [c \in StarCall |-> IF starCall[c].by = b THEN [starCall[c] EXCEPT !.by = NULL]
                                     ELSE starCall[c]]
  /\ UNCHANGED starRow

\* onClick: not while a request of this button is in flight.
ClickStar(b, c) ==
  /\ button[b].on /\ ~button[b].busy /\ starCall[c].at = "idle"
  /\ button' = [button EXCEPT ![b].shows = ~@, ![b].busy = TRUE]
  /\ starCall' = [starCall EXCEPT ![c] =
       [NoStarCall EXCEPT !.by = b, !.wants = ~button[b].shows, !.was = button[b].shows, !.at = "check"]]
  /\ UNCHANGED <<starRow, behind>>

\* The session and the post: found, or a refusal.
CheckStar(c) ==
  /\ starCall[c].at = "check"
  /\ \E at \in {"write", "failed"} : starCall' = [starCall EXCEPT ![c].at = at]
  /\ UNCHANGED <<starRow, button, behind>>

\* The INSERT that leaves an existing row alone, or the DELETE. Every other button has now
\* missed a write, and so has an answer that was read before.
WriteStar(c) ==
  /\ starCall[c].at = "write" /\ starRow' = starCall[c].wants
  /\ starCall' = [o \in StarCall |-> IF o = c THEN [starCall[o] EXCEPT !.at = "read"]
                                     ELSE [starCall[o] EXCEPT !.missed = @ \/ starCall[o].at = "ok"]]
  /\ behind' = {b \in Button : button[b].on} /\ UNCHANGED button

\* The viewer's flag, read again after the write.
ReadStar(c) ==
  /\ starCall[c].at = "read"
  /\ starCall' = [starCall EXCEPT ![c].at = "ok", ![c].says = starRow]
  /\ UNCHANGED <<starRow, button, behind>>

\* A statement fails, the request never arrives, or its answer does not.
FailStar(c) ==
  /\ starCall[c].at \in {"check", "write", "read", "ok"}
  /\ starCall' = [starCall EXCEPT ![c].at = "failed"] /\ UNCHANGED <<starRow, button, behind>>

\* Back to what the button showed before, whatever became of the write.
RevertStar(c) ==
  /\ starCall[c].at = "failed" /\ starCall' = [starCall EXCEPT ![c] = NoStarCall]
  /\ button' = IF starCall[c].by = NULL THEN button
               ELSE [button EXCEPT ![starCall[c].by].shows = starCall[c].was, ![starCall[c].by].busy = FALSE]
  /\ UNCHANGED <<starRow, behind>>

\* The server's flag, and not the one that was asked for.
ReconcileStar(c) ==
  /\ starCall[c].at = "ok" /\ starCall' = [starCall EXCEPT ![c] = NoStarCall]
  /\ IF starCall[c].by = NULL THEN UNCHANGED <<button, behind>>
     ELSE /\ button' = [button EXCEPT ![starCall[c].by].shows = starCall[c].says,
                                      ![starCall[c].by].busy = FALSE]
          /\ behind' = IF starCall[c].missed THEN behind ELSE behind \ {starCall[c].by}
  /\ UNCHANGED starRow

StarNext ==
  \/ \E b \in Button : \/ MountStar(b) \/ UnmountStar(b)
                       \/ \E c \in StarCall : ClickStar(b, c)
  \/ \E c \in StarCall : \/ CheckStar(c) \/ WriteStar(c) \/ ReadStar(c)
                         \/ FailStar(c) \/ RevertStar(c) \/ ReconcileStar(c)

(***************************************************************************)
(* Properties                                                              *)
(***************************************************************************)
\* A button at rest shows the viewer's row unless a write has gone past it since the render
\* or the answer it shows: clicks of other tabs, requests of pages that were left, reverts
\* (StarButton.tsx, star/route.ts).
ButtonTrue == \A b \in Button :
  button[b].on /\ ~button[b].busy /\ b \notin behind => button[b].shows = starRow
\* A button is busy for as long as a request of its own is under way, and no longer
\* (inFlight of StarButton.tsx).
BusyWithReason == \A b \in Button :
  button[b].busy <=> \E c \in StarCall : starCall[c].at # "idle" /\ starCall[c].by = b
StarInv == StarTypeOK /\ ButtonTrue /\ BusyWithReason

\* What the code's words say and it does not keep: that a failed click leaves the star as it
\* was (StarButton.tsx: "On failure, reverts the optimistic flip").
RevertTrue == \A b \in Button, c \in StarCall :
  starCall[c].at = "failed" /\ starCall[c].by = b => starRow = starCall[c].was
=============================================================================
