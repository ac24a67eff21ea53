------------------------------ MODULE WebProofs ------------------------------
(***************************************************************************)
(* What MCWeb checks of the parts of the web app on a small instance, for  *)
(* every value of the constants.  A behaviour follows one part, so that    *)
(* the invariant is the parts' own, each for the behaviours that follow    *)
(* it: a step of a behaviour is one of its part (PartSteps), and the       *)
(* modules of the parts prove that it keeps that part's invariant.         *)
(***************************************************************************)
EXTENDS MCWeb, TLAPS

WebIInv ==
  /\ part \in {"posts", "inbox"} => Forum!ForumIInv /\ Forum!WalkIInv
  /\ part = "drafts" => Forum!DraftIInv
  /\ part = "http" => Live!HttpIInv
  /\ part = "bus" => Live!BusIInv
  /\ part = "gates" => Live!GateIInv
  /\ part = "replies" => Forum!RepliesIInv
  /\ part = "stars" => Forum!StarIInv
  /\ part = "typeahead" => Pages!TypeaheadIInv
  /\ part = "hover" => Pages!HoverIInv
  /\ part = "prefs" => Pages!PrefsIInv
  /\ part = "body" => Pages!BodyIInv
  /\ part = "invites" => Settings!PanelIInv
  /\ part = "badges" => Settings!BadgeIInv
  /\ part = "notices" => Settings!InboxIInv
  /\ part = "forms" => Settings!FormIInv
  /\ part = "posting" => Settings!PostingIInv

\* A behaviour begins as the part it follows does.
LEMMA PartBegins ==
  ASSUME Init
  PROVE  /\ part \in {"posts", "inbox"} => Forum!ForumInit
         /\ part = "drafts" => Forum!DraftInit
         /\ part = "http" => Live!HttpInit
         /\ part = "bus" => Live!BusInit
         /\ part = "gates" => Live!GateInit
         /\ part = "replies" => Forum!ReplyInit
         /\ part = "stars" => Forum!StarInit
         /\ part = "typeahead" => Pages!TypeaheadInit
         /\ part = "hover" => Pages!HoverInit
         /\ part = "prefs" => Pages!PrefsInit
         /\ part = "body" => Pages!BodyInit
         /\ part = "invites" => Settings!PanelInit
         /\ part = "badges" => Settings!BadgeInit
         /\ part = "notices" => Settings!InboxInit
         /\ part = "forms" => Settings!FormInit
         /\ part = "posting" => Settings!PostingInit
<1>. QED
  BY DEF Init

\* The saves and the lists that a behaviour follows are saves and lists of the forum.
LEMMA ForumSteps ==
  ASSUME ForumStep PROVE Forum!ForumNext \/ \E m : Forum!InboxNext(m)
<1>1. ASSUME NEW s \in Save, NEW m \in Member, NEW asked \in SUBSET {CHOOSE o \in Member : TRUE},
             Forum!CheckCreate(s, m, asked) \/ \E p \in Save : Forum!CheckReply(s, m, p, asked)
      PROVE  Forum!SaveNext(s)
  <2>1. asked \in SUBSET Member
    OBVIOUS
  <2>. QED
    BY <1>1, <2>1 DEF Forum!SaveNext
<1>2. ASSUME NEW s \in Save, \/ Forum!SaveNext(s) \/ Forum!BeginInsert(s)
                             \/ Forum!WriteNotices(s) \/ Forum!CommitInsert(s)
      PROVE  Forum!SaveNext(s)
  BY <1>2 DEF Forum!SaveNext
<1>. QED
  BY <1>1, <1>2 DEF ForumStep, Forum!ForumNext

\* A step of a behaviour is one of the part it follows, or changes nothing of it.
LEMMA PartSteps ==
  ASSUME [Next]_<<part, vars>>
  PROVE  /\ part' = part
         /\ part \in {"posts", "inbox"} =>
              [Forum!ForumNext]_(Forum!forumVars) \/ \E m : Forum!InboxNext(m)
         /\ part = "drafts" => [Forum!DraftNext]_(Forum!draftVars)
         /\ part = "http" => [Live!HttpNext]_(Live!httpVars)
         /\ part = "bus" => [Live!BusNext]_(Live!busVars)
         /\ part = "gates" => [Live!GateNext]_(Live!gateVars)
         /\ part = "replies" => [Forum!ReplyNext]_(Forum!replyVars)
         /\ part = "stars" => [Forum!StarNext]_(Forum!starVars)
         /\ part = "typeahead" => [Pages!TypeaheadNext]_(Pages!typeaheadVars)
         /\ part = "hover" => [Pages!HoverNext]_(Pages!hoverVars)
         /\ part = "prefs" => [Pages!PrefsNext]_(Pages!prefsVars)
         /\ part = "body" => [Pages!BodyNext]_(Pages!bodyVars)
         /\ part = "invites" => [Settings!PanelNext]_(Settings!panelVars)
         /\ part = "badges" => [Settings!BadgeNext]_(Settings!badgeVars)
         /\ part = "notices" => [Settings!InboxPanelNext]_(Settings!inboxVars)
         /\ part = "forms" => [Settings!FormNext]_(Settings!formVars)
         /\ part = "posting" => [Settings!PostingNext]_(Settings!postingVars)
<1>1. CASE Next
  <2>1. part \in {"posts", "inbox"} => ForumStep
    BY <1>1 DEF Next
  <2>2. part \in {"posts", "inbox"} => Forum!ForumNext \/ \E m : Forum!InboxNext(m)
    BY <2>1, ForumSteps
  <2>3. part = "drafts" => Forum!DraftNext
    BY <1>1 DEF Next, ForumStep
  <2>4. part = "http" => Live!HttpNext
    BY <1>1 DEF Next, ForumStep
  <2>5. part = "bus" => Live!BusNext
    BY <1>1 DEF Next, ForumStep
  <2>6. part = "gates" => Live!GateNext
    BY <1>1 DEF Next, ForumStep
  <2>7. part = "replies" => Forum!ReplyNext
    BY <1>1 DEF Next, ForumStep
  <2>8. part = "stars" => Forum!StarNext
    BY <1>1 DEF Next, ForumStep
  <2>9. part = "typeahead" => Pages!TypeaheadNext
    BY <1>1 DEF Next, ForumStep
  <2>10. part = "hover" => Pages!HoverNext
    BY <1>1 DEF Next, ForumStep
  <2>11. part = "prefs" => Pages!PrefsNext
    BY <1>1 DEF Next, ForumStep
  <2>12. part = "body" => Pages!BodyNext
    BY <1>1 DEF Next, ForumStep
  <2>13. part = "invites" => Settings!PanelNext
    BY <1>1 DEF Next, ForumStep
  <2>14. part = "badges" => Settings!BadgeNext
    BY <1>1 DEF Next, ForumStep
  <2>15. part = "notices" => Settings!InboxPanelNext
    BY <1>1 DEF Next, ForumStep
  <2>16. part = "forms" => Settings!FormNext
    BY <1>1 DEF Next, ForumStep
  <2>17. part = "posting" => Settings!PostingNext
    BY <1>1 DEF Next, ForumStep
  <2>18. part' = part
    BY <1>1 DEF Next
  <2>. QED
    BY <2>2, <2>3, <2>4, <2>5, <2>6, <2>7, <2>8, <2>9, <2>10, <2>11, <2>12, <2>13, <2>14, <2>15,
       <2>16, <2>17, <2>18
<1>2. CASE UNCHANGED <<part, vars>>
  BY <1>2 DEF vars, Forum!forumVars, Forum!draftVars, Live!httpVars, Live!busVars, Live!gateVars,
             Forum!replyVars, Forum!starVars, Pages!typeaheadVars, Pages!hoverVars, Pages!prefsVars,
             Pages!bodyVars, Settings!panelVars, Settings!badgeVars, Settings!inboxVars,
             Settings!formVars, Settings!postingVars
<1>. QED
  BY <1>1, <1>2

\* The invariant of the part that a behaviour follows holds throughout.
LEMMA PartHolds == Spec => []WebIInv
<1>1. Init => WebIInv
  <2>. SUFFICES ASSUME Init PROVE WebIInv
    OBVIOUS
  <2>1. part \in {"posts", "inbox"} => Forum!ForumIInv /\ Forum!WalkIInv
    BY PartBegins, Forum!ForumBegins, WebConstantsOK DEF WebConstantsOK
  <2>2. part = "drafts" => Forum!DraftIInv
    BY PartBegins, Forum!DraftsStart, WebConstantsOK DEF WebConstantsOK
  <2>3. part = "http" => Live!HttpIInv
    BY PartBegins, Live!HttpBegins, WebConstantsOK DEF WebConstantsOK
  <2>4. part = "bus" => Live!BusIInv
    BY PartBegins, Live!BusBegins, WebConstantsOK DEF WebConstantsOK
  <2>5. part = "gates" => Live!GateIInv
    BY PartBegins, Live!GateBegins, WebConstantsOK DEF WebConstantsOK
  <2>6. part = "replies" => Forum!RepliesIInv
    BY PartBegins, Forum!RepliesBegin, WebConstantsOK DEF WebConstantsOK
  <2>7. part = "stars" => Forum!StarIInv
    BY PartBegins, Forum!StarBegins, WebConstantsOK DEF WebConstantsOK
  <2>8. part = "typeahead" => Pages!TypeaheadIInv
    BY PartBegins, Pages!TypeaheadBegins, WebConstantsOK DEF WebConstantsOK
  <2>9. part = "hover" => Pages!HoverIInv
    BY PartBegins, Pages!HoverBegins, WebConstantsOK DEF WebConstantsOK
  <2>10. part = "prefs" => Pages!PrefsIInv
    BY PartBegins, Pages!PrefsBegins, WebConstantsOK DEF WebConstantsOK
  <2>11. part = "body" => Pages!BodyIInv
    BY PartBegins, Pages!BodyBegins, WebConstantsOK DEF WebConstantsOK
  <2>12. part = "invites" => Settings!PanelIInv
    BY PartBegins, Settings!PanelBegins, WebConstantsOK DEF WebConstantsOK
  <2>13. part = "badges" => Settings!BadgeIInv
    BY PartBegins, Settings!BadgeBegins, WebConstantsOK DEF WebConstantsOK
  <2>14. part = "notices" => Settings!InboxIInv
    BY PartBegins, Settings!InboxBegins, WebConstantsOK DEF WebConstantsOK
  <2>15. part = "forms" => Settings!FormIInv
    BY PartBegins, Settings!FormsBegin, WebConstantsOK DEF WebConstantsOK
  <2>16. part = "posting" => Settings!PostingIInv
    BY PartBegins, Settings!PostingBegins, WebConstantsOK DEF WebConstantsOK
  <2>. QED
    BY <2>1, <2>2, <2>3, <2>4, <2>5, <2>6, <2>7, <2>8, <2>9, <2>10, <2>11, <2>12, <2>13, <2>14,
       <2>15, <2>16 DEF WebIInv
<1>2. WebIInv /\ [Next]_<<part, vars>> => WebIInv'
  <2>. SUFFICES ASSUME WebIInv, [Next]_<<part, vars>> PROVE WebIInv'
    OBVIOUS
  <2>. part' = part
    BY PartSteps
  <2>1. part \in {"posts", "inbox"} => Forum!ForumIInv' /\ Forum!WalkIInv'
    BY PartSteps, Forum!ForumGoes, WebConstantsOK DEF WebIInv, WebConstantsOK
  <2>2. part = "drafts" => Forum!DraftIInv'
    BY PartSteps, Forum!DraftGoes, WebConstantsOK DEF WebIInv, WebConstantsOK
  <2>3. part = "http" => Live!HttpIInv'
    BY PartSteps, Live!HttpGoes, WebConstantsOK DEF WebIInv, WebConstantsOK
  <2>4. part = "bus" => Live!BusIInv'
    BY PartSteps, Live!BusGoes, WebConstantsOK DEF WebIInv, WebConstantsOK
  <2>5. part = "gates" => Live!GateIInv'
    BY PartSteps, Live!GateGoes, WebConstantsOK DEF WebIInv, WebConstantsOK
  <2>6. part = "replies" => Forum!RepliesIInv'
    BY PartSteps, Forum!RepliesGo, WebConstantsOK DEF WebIInv, WebConstantsOK
  <2>7. part = "stars" => Forum!StarIInv'
    BY PartSteps, Forum!StarGoes, WebConstantsOK DEF WebIInv, WebConstantsOK
  <2>8. part = "typeahead" => Pages!TypeaheadIInv'
    BY PartSteps, Pages!TypeaheadGoes, WebConstantsOK DEF WebIInv, WebConstantsOK
  <2>9. part = "hover" => Pages!HoverIInv'
    BY PartSteps, Pages!HoverGoes, WebConstantsOK DEF WebIInv, WebConstantsOK
  <2>10. part = "prefs" => Pages!PrefsIInv'
    BY PartSteps, Pages!PrefsGoes, WebConstantsOK DEF WebIInv, WebConstantsOK
  <2>11. part = "body" => Pages!BodyIInv'
    BY PartSteps, Pages!BodyGoes, WebConstantsOK DEF WebIInv, WebConstantsOK
  <2>12. part = "invites" => Settings!PanelIInv'
    BY PartSteps, Settings!PanelsGo, WebConstantsOK DEF WebIInv, WebConstantsOK
  <2>13. part = "badges" => Settings!BadgeIInv'
    BY PartSteps, Settings!BadgesGo, WebConstantsOK DEF WebIInv, WebConstantsOK
  <2>14. part = "notices" => Settings!InboxIInv'
    BY PartSteps, Settings!InboxGoes, WebConstantsOK DEF WebIInv, WebConstantsOK
  <2>15. part = "forms" => Settings!FormIInv'
    BY PartSteps, Settings!FormsGo, WebConstantsOK DEF WebIInv, WebConstantsOK
  <2>16. part = "posting" => Settings!PostingIInv'
    BY PartSteps, Settings!PostingGoes, WebConstantsOK DEF WebIInv, WebConstantsOK
  <2>. QED
    BY <2>1, <2>2, <2>3, <2>4, <2>5, <2>6, <2>7, <2>8, <2>9, <2>10, <2>11, <2>12, <2>13, <2>14,
       <2>15, <2>16 DEF WebIInv
<1>. QED
  BY <1>1, <1>2, PTL DEF Spec

-----------------------------------------------------------------------------
\* Every post is the work of one save, title and references alike, and everyone a post or a
\* comment concerns has heard of it exactly once, whatever saves and edits overlap.
THEOREM PostsAndNoticesFit == Spec => []ForumKept
<1>1. WebIInv => ForumKept
  BY Forum!ForumFits, WebConstantsOK DEF WebIInv, ForumKept, WebConstantsOK
<1>. QED
  BY <1>1, PartHolds, PTL

\* A list of notifications that has come to its end has shown all that was there throughout,
\* but for those of the same millisecond as one it has shown.
THEOREM ListsAreComplete == Spec => []WalksKept
<1>1. WebIInv => WalksKept
  BY Forum!WalksFit, WebConstantsOK DEF WebIInv, WalksKept, WebConstantsOK
<1>. QED
  BY <1>1, PartHolds, PTL

\* A draft that was published or deleted never comes back, however late a save of it is.
THEOREM PublishedDraftsStayGone == Spec => DraftsStayGone
<1>1. WebIInv /\ [Next]_<<part, vars>> => [part = "drafts" => Forum!GoneStays]_<<part, vars>>
  <2>. SUFFICES ASSUME WebIInv, Next, part = "drafts" PROVE Forum!GoneStays
    OBVIOUS
  <2>1. Forum!DraftNext
    BY DEF Next, ForumStep
  <2>. QED
    BY <2>1, Forum!DraftStep, WebConstantsOK DEF WebIInv, WebConstantsOK
<1>. QED
  BY <1>1, PartHolds, PTL DEF Spec, DraftsStayGone

\* Whatever is typed, picked, dropped, late or retried: a token means the post it was picked
\* for, a pick replaces its query, and the composers and their requests keep to their types.
THEOREM ComposersKept == Spec => []ComposerKept
<1>1. WebIInv => ComposerKept
  BY Pages!BodyFits, WebConstantsOK DEF WebIInv, ComposerKept, WebConstantsOK, Forum!DraftIInv
<1>. QED
  BY <1>1, PartHolds, PTL

\* What a page shows is what it asked for, or what is stored: no reply is lost or listed twice,
\* a search box shows the lists of its query, no hover card waits for a summary that nobody
\* fetches, a star is its row unless a write went past it, and no topic is starred and hidden.
THEOREM PagesShowTheirOwn == Spec => []PagesKept
<1>1. WebIInv => PagesKept
  BY Forum!RepliesFit, Forum!StarsFit, Pages!TypeaheadFits, Pages!HoverFits, Pages!PrefsFit,
     WebConstantsOK
     DEF WebIInv, PagesKept, WebConstantsOK
<1>. QED
  BY <1>1, PartHolds, PTL

\* What the panels of the settings show, at rest, is what is stored: the rows of invites and
\* tokens, the badges in their order, the notifications, the rows of the forms and the limits;
\* no dialog stores a row twice, and no suggestion has two verdicts but for one that was crossed.
THEOREM SettingsShowTheTables == Spec => []SettingsKept
<1>1. WebIInv => SettingsKept
  BY Settings!PanelsFit, Settings!BadgesFit, Settings!InboxFits, Settings!FormsFit,
     Settings!PostingFits, WebConstantsOK
     DEF WebIInv, SettingsKept, WebConstantsOK
<1>. QED
  BY <1>1, PartHolds, PTL

\* The counter of the drain is the number of requests inside the handler, and an exit cuts off
\* nobody who is still connected.
THEOREM DrainCounts == Spec => []HttpKept
<1>1. WebIInv => HttpKept
  BY Live!HttpFits, WebConstantsOK DEF WebIInv, HttpKept, WebConstantsOK
<1>. QED
  BY <1>1, PartHolds, PTL

\* A page that is connected has missed no announcement its strip has room for, and shows each
\* article once, over whatever aborts, reconnections and restarts.
THEOREM NoNewsMissed == Spec => []BusKept
<1>1. WebIInv => BusKept
  BY Live!BusFits, WebConstantsOK DEF WebIInv, BusKept, WebConstantsOK
<1>. QED
  BY <1>1, PartHolds, PTL

\* The answers of the gates find the panes that await them, every enrolled passkey is on the
\* device that made it, and no event of the gates leaves the admin without a live code.
THEOREM GatesLetBackIn == Spec => []GatesKept
<1>1. WebIInv => GatesKept
  BY Live!GateFits, WebConstantsOK DEF WebIInv, GatesKept, WebConstantsOK
<1>. QED
  BY <1>1, PartHolds, PTL
=============================================================================
