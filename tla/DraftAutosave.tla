--------------------------- MODULE DraftAutosave ---------------------------
(***************************************************************************)
(* Drafts of forum posts: the composer that saves them, by a button and by *)
(* a timer 2.5 s after the last edit, and the routes that store, publish   *)
(* and delete them.                                                        *)
(*                                                                         *)
(* What the user has written is a number that grows with every edit.  A    *)
(* handler's state changes, the render and the effects that follow them    *)
(* are one step when the browser dispatched an event (React flushes them   *)
(* before the next event); after a timer or an answer they come in a step  *)
(* of their own, Settle, and until then callbacks read old flags.          *)
(***************************************************************************)
EXTENDS Naturals, Sql

CONSTANTS
  Composer,  \* open composers of one author
  Draft,     \* rows of forum_post_drafts
  DraftCall, \* requests in flight
  LastEdit   \* bound on the edits made in all composers

\* Assumed of the constants.
DraftConstantsOK == NULL \notin Draft /\ NULL \notin Composer /\ LastEdit \in Nat

VARIABLES
  composer, \* state of the PostComposer components
  drafts,   \* the table
  dcall,    \* requests to the draft routes and to POST /api/forum/posts
  edits     \* edits made so far

draftVars == <<composer, drafts, dcall, edits>>

DraftOrNull == Draft \cup {NULL}
Text == 0..LastEdit   \* 0: the blank composer

\* What performSave reads through saveBlockingRef.
Flags == [saving : BOOLEAN, submitting : BOOLEAN, uploading : BOOLEAN, draft : DraftOrNull]
\* `created` records that the post of this composer has been created and answered.
ComposerState ==
  [open : BOOLEAN, text : Text, timer : BOOLEAN, saved : Text,
   now : Flags, ref : Flags, created : BOOLEAN]
DraftRow == [at : {"none", "live", "gone"}, text : Text]
DraftRequest ==
  [at : {"idle", "sent", "held", "done"}, kind : {"create", "update", "publish", NULL},
   by : Composer \cup {NULL}, draft : DraftOrNull, text : Text, ok : BOOLEAN, awaited : BOOLEAN]

NoFlags == [saving |-> FALSE, submitting |-> FALSE, uploading |-> FALSE, draft |-> NULL]
BlankComposer == [open |-> TRUE, text |-> 0, timer |-> FALSE, saved |-> 0,
                  now |-> NoFlags, ref |-> NoFlags, created |-> FALSE]
NoDraftCall == [at |-> "idle", kind |-> NULL, by |-> NULL, draft |-> NULL, text |-> 0,
                ok |-> FALSE, awaited |-> FALSE]

DraftTypeOK ==
  /\ composer \in [Composer -> ComposerState]
  /\ drafts \in [Draft -> DraftRow]
  /\ dcall \in [DraftCall -> DraftRequest]
  /\ edits \in Text

DraftInit ==
  /\ composer = [c \in Composer |-> [BlankComposer EXCEPT !.open = FALSE]]
  /\ drafts = [d \in Draft |-> [at |-> "none", text |-> 0]]
  /\ dcall = [r \in DraftCall |-> NoDraftCall]
  /\ edits = 0

-----------------------------------------------------------------------------
(* The composer.                                                           *)

\* The auto-save effect, re-run when the content, the draft id, `submitting` or the uploads
\* change: its clean-up stops the timer; it starts one unless the composer is blank, is
\* submitting or uploads.
Rearmed(s) ==
  IF s.now.submitting \/ s.now.uploading \/ (s.text = 0 /\ s.now.draft = NULL)
  THEN [s EXCEPT !.timer = FALSE]
  ELSE [s EXCEPT !.timer = TRUE]
Settled(s) == [s EXCEPT !.ref = s.now]

\* /forum/create, or /forum/create?draft=<id> of one of the author's drafts (getDraftForUser).
OpenBlank(c) ==
  /\ ~composer[c].open
  /\ composer' = [composer EXCEPT ![c] = BlankComposer]
  /\ UNCHANGED <<drafts, dcall, edits>>
OpenDraft(c, d) ==
  /\ ~composer[c].open /\ drafts[d].at = "live"
  /\ composer' = [composer EXCEPT ![c] = Settled([BlankComposer EXCEPT
       !.text = drafts[d].text, !.saved = drafts[d].text, !.now.draft = d])]
  /\ UNCHANGED <<drafts, dcall, edits>>

\* Titles, body, topics and images are disabled while submitting.
Edit(c) ==
  /\ composer[c].open /\ ~composer[c].now.submitting /\ edits < LastEdit
  /\ edits' = edits + 1
  /\ composer' = [composer EXCEPT ![c] = Settled(Rearmed([composer[c] EXCEPT !.text = edits + 1]))]
  /\ UNCHANGED <<drafts, dcall>>

\* An image is queued, and later its slot is ready or carries an error: both change `images`.
StartUpload(c) ==
  /\ composer[c].open /\ ~composer[c].now.submitting /\ ~composer[c].now.uploading
  /\ edits < LastEdit /\ edits' = edits + 1
  /\ composer' = [composer EXCEPT ![c] =
       Settled(Rearmed([composer[c] EXCEPT !.text = edits + 1, !.now.uploading = TRUE]))]
  /\ UNCHANGED <<drafts, dcall>>
EndUpload(c) ==
  /\ composer[c].open /\ composer[c].now.uploading
  /\ composer' = [composer EXCEPT ![c] = Rearmed([composer[c] EXCEPT !.now.uploading = FALSE])]
  /\ UNCHANGED <<drafts, dcall, edits>>

Settle(c) ==
  /\ composer[c].open /\ composer[c].ref # composer[c].now
  /\ composer' = [composer EXCEPT ![c] = Settled(composer[c])]
  /\ UNCHANGED <<drafts, dcall, edits>>

Send(r, c, kind, d) ==
  /\ dcall[r].at = "idle"
  /\ dcall' = [dcall EXCEPT ![r] =
       [at |-> "sent", kind |-> kind, by |-> c, draft |-> d, text |-> composer[c].text,
        ok |-> FALSE, awaited |-> TRUE]]

\* performSave: the guard and the draft id come through the ref, the payload is the latest.
Blocked(s) == s.ref.saving \/ s.ref.submitting \/ s.ref.uploading
SendSave(r, c) ==
  Send(r, c, IF composer[c].ref.draft = NULL THEN "create" ELSE "update", composer[c].ref.draft)

TimerSaves(c, r) ==
  /\ composer[c].open /\ composer[c].timer /\ ~Blocked(composer[c])
  /\ composer' = [composer EXCEPT ![c].timer = FALSE, ![c].now.saving = TRUE]
  /\ SendSave(r, c)
  /\ UNCHANGED <<drafts, edits>>

\* The timer fires while a save is in flight: performSave returns, and nothing re-arms it.
TimerSwallowed(c) ==
  /\ composer[c].open /\ composer[c].timer /\ Blocked(composer[c])
  /\ composer' = [composer EXCEPT ![c].timer = FALSE]
  /\ UNCHANGED <<drafts, dcall, edits>>

SaveClicked(c, r) ==
  /\ composer[c].open /\ ~Blocked(composer[c])
  /\ composer' = [composer EXCEPT ![c] = Settled([composer[c] EXCEPT !.now.saving = TRUE])]
  /\ SendSave(r, c)
  /\ UNCHANGED <<drafts, edits>>

\* onSubmit: canSubmit looks at neither a save in flight nor a post already created.
Publish(c, r) ==
  /\ composer[c].open /\ composer[c].text # 0
  /\ ~composer[c].ref.submitting /\ ~composer[c].ref.uploading
  /\ composer' = [composer EXCEPT ![c] =
       Settled(Rearmed([composer[c] EXCEPT !.now.submitting = TRUE]))]
  /\ Send(r, c, "publish", composer[c].now.draft)
  /\ UNCHANGED <<drafts, edits>>

\* The navigation after a publish, or the user leaves: clean-ups run, answers find nobody.
Unmount(c) ==
  /\ composer[c].open
  /\ composer' = [composer EXCEPT ![c] = [BlankComposer EXCEPT !.open = FALSE]]
  /\ dcall' = [r \in DraftCall |-> [dcall[r] EXCEPT !.awaited = dcall[r].awaited /\ dcall[r].by # c]]
  /\ UNCHANGED <<drafts, edits>>

-----------------------------------------------------------------------------
(* The routes.  Each writes in one transaction; the row of a draft is      *)
(* locked by the UPDATE or the DELETE that comes first.                    *)

RowHeld(d) == \E r \in DraftCall : dcall[r].at = "held" /\ dcall[r].draft = d
Answered(r, ok) == [dcall EXCEPT ![r].at = "done", ![r].ok = ok]

InsertDraft(r, d) ==
  /\ dcall[r].at = "sent" /\ dcall[r].kind = "create" /\ drafts[d].at = "none"
  /\ drafts' = [drafts EXCEPT ![d] = [at |-> "live", text |-> dcall[r].text]]
  /\ dcall' = [dcall EXCEPT ![r].at = "done", ![r].ok = TRUE, ![r].draft = d]
  /\ UNCHANGED <<composer, edits>>

\* Mutant: an INSERT ... ON CONFLICT in place of the UPDATE.
UpdateAnyRow(r) == TRUE
\* The UPDATE by id and author finds no row of a published or deleted draft: 404.
UpdateTarget(r) == drafts[dcall[r].draft].at = "live"
HoldDraft(r) ==
  /\ dcall[r].at = "sent" /\ dcall[r].kind = "update" /\ ~RowHeld(dcall[r].draft)
  /\ dcall' = IF UpdateTarget(r) THEN [dcall EXCEPT ![r].at = "held"] ELSE Answered(r, FALSE)
  /\ UNCHANGED <<composer, drafts, edits>>
CommitUpdate(r) ==
  /\ dcall[r].at = "held"
  /\ drafts' = [drafts EXCEPT ![dcall[r].draft] = [at |-> "live", text |-> dcall[r].text]]
  /\ dcall' = Answered(r, TRUE)
  /\ UNCHANGED <<composer, edits>>

\* The post and the DELETE of its draft commit together; no row to delete is no error.
CommitPublish(r) ==
  /\ dcall[r].at = "sent" /\ dcall[r].kind = "publish" /\ ~RowHeld(dcall[r].draft)
  /\ drafts' = [d \in Draft |-> IF d = dcall[r].draft /\ drafts[d].at = "live"
                                THEN [at |-> "gone", text |-> 0] ELSE drafts[d]]
  /\ dcall' = Answered(r, TRUE)
  /\ UNCHANGED <<composer, edits>>

\* The request is refused or fails; an open transaction is rolled back.
CallFails(r) ==
  /\ dcall[r].at \in {"sent", "held"}
  /\ dcall' = Answered(r, FALSE)
  /\ UNCHANGED <<composer, drafts, edits>>

\* The author deletes the draft from the sidebar.
DeleteDraft(d) ==
  /\ drafts[d].at = "live" /\ ~RowHeld(d)
  /\ drafts' = [drafts EXCEPT ![d] = [at |-> "gone", text |-> 0]]
  /\ UNCHANGED <<composer, dcall, edits>>

-----------------------------------------------------------------------------
(* The answer.                                                             *)

AfterSave(s, r, ok) ==
  LET back == [s EXCEPT !.now.saving = FALSE] IN
  IF ~ok THEN back
  ELSE IF dcall[r].kind = "create"
  THEN Rearmed([back EXCEPT !.now.draft = dcall[r].draft, !.saved = dcall[r].text])
  ELSE [back EXCEPT !.saved = dcall[r].text]

\* setSubmitting(false) re-runs the auto-save effect, after a success too.
AfterPublish(s, ok) ==
  Rearmed([s EXCEPT !.now.submitting = FALSE, !.created = s.created \/ ok])

Hears(r, ok) ==
  LET c == dcall[r].by IN
  composer' = [composer EXCEPT ![c] =
    IF dcall[r].kind = "publish" THEN AfterPublish(composer[c], ok)
    ELSE AfterSave(composer[c], r, ok)]

HearAnswer(r) ==
  /\ dcall[r].at = "done"
  /\ IF dcall[r].awaited THEN Hears(r, dcall[r].ok) ELSE UNCHANGED composer
  /\ dcall' = [dcall EXCEPT ![r] = NoDraftCall]
  /\ UNCHANGED <<drafts, edits>>

\* fetch rejects (network); the server may still be working on the request.
GiveUp(r) ==
  /\ dcall[r].at # "idle" /\ dcall[r].awaited
  /\ Hears(r, FALSE)
  /\ dcall' = [dcall EXCEPT ![r].awaited = FALSE]
  /\ UNCHANGED <<drafts, edits>>

ComposerNext(c) ==
  \/ OpenBlank(c) \/ \E d \in Draft : OpenDraft(c, d)
  \/ Edit(c) \/ StartUpload(c) \/ EndUpload(c) \/ Settle(c) \/ TimerSwallowed(c) \/ Unmount(c)
  \/ \E r \in DraftCall : TimerSaves(c, r) \/ SaveClicked(c, r) \/ Publish(c, r)
DraftCallNext(r) ==
  \/ HoldDraft(r) \/ CommitUpdate(r) \/ CommitPublish(r) \/ CallFails(r)
  \/ HearAnswer(r) \/ GiveUp(r) \/ \E d \in Draft : InsertDraft(r, d)

DraftNext ==
  \/ \E c \in Composer : ComposerNext(c)
  \/ \E r \in DraftCall : DraftCallNext(r)
  \/ \E d \in Draft : DeleteDraft(d)

-----------------------------------------------------------------------------
(* Properties.                                                             *)

\* A draft that has been published or deleted never comes back, whatever saves of it were
\* still under way or come later from another window.
GoneStays == \A d \in Draft : drafts[d].at = "gone" => drafts'[d].at = "gone"
GoneStaysGone == [][GoneStays]_draftVars

\* What performSave's comment says of a failed or refused auto-save, that it "retries on the
\* next tick": written work that is not saved has a save in flight or a timer to come.
\* (Nothing re-arms the timer: this is refuted.)
UnsavedHasRetry ==
  \A c \in Composer :
    composer[c].open /\ composer[c].text # composer[c].saved /\ ~composer[c].created
      => \/ composer[c].timer \/ composer[c].now.saving
         \/ composer[c].now.submitting \/ composer[c].now.uploading

\* What onSubmit's comment says, that the composer is reset once its post exists: it sends
\* no more saves and no second post.  (Nothing is reset: this is refuted.)
ResetAfterPublish ==
  [][\A r \in DraftCall : dcall[r].at = "idle" /\ dcall'[r].at = "sent"
       => ~composer[dcall'[r].by].created]_draftVars
=============================================================================
