-------------------------------- MODULE MCWeb --------------------------------
(***************************************************************************)
(* One run over the parts of the web app, and the transport of the MCP     *)
(* servers, that share no state.  A behaviour follows one part, chosen in  *)
(* its initial state; v1, v2 ... are that part's variables in the order of *)
(* its module, and those it has no use for hold NULL.  The constants of    *)
(* different parts take the same few model values: no state holds the      *)
(* values of two parts, and the symmetry of a set is one of every part.    *)
(***************************************************************************)
EXTENDS Naturals, FiniteSets, TLC, Sql

CONSTANTS
  Parts,  \* the parts a run follows
  Member, Save, NoticePage, LastTime,
  Composer, Draft, DraftCall, LastEdit,
  Citable, Mentionable, MaxPieces, MaxImages, MaxPicks, FileDrop,
  ReplyCall, LastText,
  LongQuery, Fetch, CacheMax,
  Card, Author, SummaryFetch, SummaryMax,
  Slip, Errand, LastElse,
  Title, Act, MaxBadges,
  GateTab, Attempt, MaxTries,
  LastNotice, InboxPage, InboxCall,
  FormTab, SettingsRow, RowName, SaveCall,
  Client, Request,
  Viewer, Stream, News, MaxLive, MaxWire,
  PostTab, Limits, DefaultLimits, LimitRead, LimitSave,
  Button, StarCall,
  Widget, Topic, Fancied

VARIABLES
  part,  \* the part this behaviour follows
  v1, v2, v3, v4, v5, v6, v7, v8, v9, v10, v11

vars == <<v1, v2, v3, v4, v5, v6, v7, v8, v9, v10, v11>>

Forum == INSTANCE ForumProofs WITH save <- v1, content <- v2, joins <- v3, inbox <- v4,
    gone <- v5, walk <- v6, clock <- v7,
    composer <- v1, drafts <- v2, dcall <- v3, edits <- v4,
    rows <- v1, stored <- v2, view <- v3, pane <- v4, reply <- v5, written <- v6, left <- v7,
    overlapped <- v8,
    starRow <- v1, button <- v2, starCall <- v3, behind <- v4
Pages == INSTANCE PagesProofs WITH box <- v1, fetches <- v2, cache <- v3, crossed <- v4,
    hover <- v1, summary <- v2, summaries <- v3,
    stored <- v1, shown <- v2, passed <- v3,
    field <- v1
Live == INSTANCE LiveProofs WITH server <- v1, online <- v2, request <- v3, inFlight <- v4,
    listeners <- v1, beating <- v2, stream <- v3, viewer <- v4, mayWatch <- v5, heard <- v6,
    founded <- v1, liveCodes <- v2, enrolled <- v3, invite <- v4, device <- v5, cookie <- v6,
    knownCodes <- v7, challenge <- v8, tries <- v9, tab <- v10, attempt <- v11
Settings == INSTANCE SettingsProofs WITH panel <- v1, slips <- v2, list <- v3, refresh <- v4,
    dialog <- v5, card <- v6, errand <- v7, elsewhere <- v8, stale <- v9, unwarned <- v10,
    curated <- v1, proposals <- v2, items <- v3, pending <- v4, picked <- v5, bulk <- v6,
    render <- v7, act <- v8, verdict <- v9, apart <- v10,
    mail <- v1, inboxView <- v2, unread <- v3, call <- v4,
    page <- v1, table <- v2, shownRows <- v3, form <- v4, saving <- v5,
    limitsRow <- v1, reading <- v2, posting <- v3, change <- v4, saved <- v5, fresh <- v6

ASSUME WebConstantsOK ==
  /\ Forum!ForumConstantsOK /\ Forum!DraftConstantsOK /\ Pages!BodyConstantsOK
  /\ Forum!ReplyConstantsOK /\ Pages!TypeaheadConstantsOK /\ Pages!HoverConstantsOK
  /\ Settings!PanelConstantsOK /\ Settings!BadgeConstantsOK /\ Live!GateConstantsOK
  /\ Settings!InboxConstantsOK /\ Settings!FormConstantsOK /\ Live!HttpConstantsOK
  /\ Live!BusConstantsOK /\ Settings!PostingConstantsOK /\ Forum!StarConstantsOK
  /\ Pages!PrefsConstantsOK

Unused11 == v11 = NULL
Unused10 == v10 = NULL /\ Unused11
Unused9 == v9 = NULL /\ Unused10
Unused8 == v8 = NULL /\ Unused9
Unused7 == v7 = NULL /\ Unused8
Unused6 == v6 = NULL /\ Unused7
Unused5 == v5 = NULL /\ Unused6
Unused4 == v4 = NULL /\ Unused5
Unused3 == v3 = NULL /\ Unused4
Unused2 == v2 = NULL /\ Unused3

Init ==
  /\ part \in Parts
  /\ \/ part \in {"posts", "inbox"} /\ Forum!ForumInit /\ Unused8
     \/ part = "drafts" /\ Forum!DraftInit /\ Unused5
     \/ part = "body" /\ Pages!BodyInit /\ Unused2
     \/ part = "replies" /\ Forum!ReplyInit /\ Unused9
     \/ part = "typeahead" /\ Pages!TypeaheadInit /\ Unused5
     \/ part = "hover" /\ Pages!HoverInit /\ Unused4
     \/ part = "invites" /\ Settings!PanelInit /\ Unused11
     \/ part = "badges" /\ Settings!BadgeInit /\ Unused11
     \/ part = "gates" /\ Live!GateInit
     \/ part = "notices" /\ Settings!InboxInit /\ Unused5
     \/ part = "forms" /\ Settings!FormInit /\ Unused6
     \/ part = "http" /\ Live!HttpInit /\ Unused5
     \/ part = "bus" /\ Live!BusInit /\ Unused7
     \/ part = "posting" /\ Settings!PostingInit /\ Unused7
     \/ part = "stars" /\ Forum!StarInit /\ Unused5
     \/ part = "prefs" /\ Pages!PrefsInit /\ Unused4

\* The forum in two halves: everything saves do; and the notifications of posts and
\* comments, written the way the tools do, of one member, whose list is followed.
ForumStep ==
  \/ part = "posts" /\ \E s \in Save : Forum!SaveNext(s)
  \/ /\ part = "inbox"
     /\ \/ Forum!ForumTick \/ Forum!InboxNext(CHOOSE m \in Member : TRUE)
        \/ \E s \in Save :
             \/ \E m \in Member, asked \in SUBSET {CHOOSE o \in Member : TRUE} :
                  Forum!CheckCreate(s, m, asked) \/ \E p \in Save : Forum!CheckReply(s, m, p, asked)
             \/ Forum!BeginInsert(s) \/ Forum!WriteNotices(s) \/ Forum!CommitInsert(s)

\* Three attempts from one tab, or two from several.
FewAttempts ==
  \/ Cardinality({t \in GateTab : v10'[t].pane # "away"}) <= 1
  \/ Cardinality({a \in Attempt : v11'[a].at # "idle"}) <= 2

\* Of the drops of files under way, one at most remembers a text that is not empty.
FewTexts == Cardinality({d \in FileDrop : v1'.drops[d].body # <<>>}) <= 1

\* Targets may share a name, and nothing asks for it: one is enough.
OneLabel == v1 = "targets" =>
  \A c \in SaveCall : v5'[c].name \in {NULL, CHOOSE name \in RowName : TRUE}

Next ==
  /\ UNCHANGED part
  /\ \/ ForumStep /\ UNCHANGED <<v8, v9, v10, v11>>
     \/ part = "drafts" /\ Forum!DraftNext /\ UNCHANGED <<v5, v6, v7, v8, v9, v10, v11>>
     \/ part = "body" /\ Pages!BodyNext /\ FewTexts /\ UNCHANGED <<v2, v3, v4, v5, v6, v7, v8, v9, v10, v11>>
     \/ part = "replies" /\ Forum!ReplyNext /\ UNCHANGED <<v9, v10, v11>>
     \/ part = "typeahead" /\ Pages!TypeaheadNext /\ UNCHANGED <<v5, v6, v7, v8, v9, v10, v11>>
     \/ part = "hover" /\ Pages!HoverNext /\ UNCHANGED <<v4, v5, v6, v7, v8, v9, v10, v11>>
     \/ part = "invites" /\ Settings!PanelNext /\ UNCHANGED <<v11>>
     \/ part = "badges" /\ Settings!BadgeNext /\ UNCHANGED <<v11>>
     \/ part = "gates" /\ Live!GateNext /\ FewAttempts
     \/ part = "notices" /\ Settings!InboxPanelNext /\ UNCHANGED <<v5, v6, v7, v8, v9, v10, v11>>
     \/ part = "forms" /\ Settings!FormNext /\ OneLabel /\ UNCHANGED <<v6, v7, v8, v9, v10, v11>>
     \/ part = "http" /\ Live!HttpNext /\ UNCHANGED <<v5, v6, v7, v8, v9, v10, v11>>
     \/ part = "bus" /\ Live!BusNext /\ UNCHANGED <<v7, v8, v9, v10, v11>>
     \/ part = "posting" /\ Settings!PostingNext /\ UNCHANGED <<v7, v8, v9, v10, v11>>
     \/ part = "stars" /\ Forum!StarNext /\ UNCHANGED <<v5, v6, v7, v8, v9, v10, v11>>
     \/ part = "prefs" /\ Pages!PrefsNext /\ UNCHANGED <<v4, v5, v6, v7, v8, v9, v10, v11>>

Spec == Init /\ [][Next]_<<part, vars>>

Symmetry == Permutations(Save) \cup Permutations(DraftCall)

\* A post is of one save, and everyone a stored save concerns has heard of it once
\* (ForumPosts: the transactions of posts/[id]/route.ts, create-post.ts, reply-to-post.ts).
ForumKept == part \in {"posts", "inbox"} => Forum!ForumInv
\* A list that has come to its end has shown every notification that was there throughout,
\* but for one of the same millisecond as one it showed
\* (ForumPosts: the cursor of listForUser in notifications-repo.ts).
WalksKept == part \in {"posts", "inbox"} => Forum!WalkComplete
\* A token of a text points at the post it was picked for, through deletions, later picks and
\* late insertions, and no upload settles the slot of another, whatever drops overlap and
\* images are removed (ComposerBody: the pick handlers of PostComposer.tsx and
\* RepliesPane.tsx, queueAndInsert); the composers, their timers and their requests keep to
\* their types (DraftAutosave).
ComposerKept ==
  /\ part = "drafts" => Forum!DraftTypeOK
  /\ part = "body" => Pages!BodyInv
\* A reply's text survives failures and overlaps and no reply is listed twice (ReplyPanes:
\* the optimistic rows of RepliesPane.tsx); a search box keeps the answers of its queries
\* apart (Typeahead: TypeaheadSearch.tsx); no hover card waits for a summary that nobody
\* fetches (HoverCards: AuthorHoverCard.tsx). A star shows what is stored until something goes past
\* it (ForumStars: StarButton.tsx), and no topic is starred and hidden at once (ReaderPrefs).
PagesKept ==
  /\ part = "replies" => Forum!RepliesInv
  /\ part = "typeahead" => Pages!TypeaheadInv
  /\ part = "hover" => Pages!HoverInv
  /\ part = "stars" => Forum!StarInv
  /\ part = "prefs" => Pages!PrefsInv
\* The counter of the drain is exact, and an exit cuts off nobody (HttpDrain: http.ts of
\* both MCP servers).
HttpKept == part = "http" => Live!HttpInv
\* The panels of the settings against each other and other tabs: rows, dialogs and codes of
\* the invites (InvitePanels), the order and the verdicts of badges (Badges), the inbox with
\* its rollbacks (InboxPanel), the forms and their dialogs (SettingsForms), the posting limits and their readers (PostingForm).
SettingsKept ==
  /\ part = "invites" => Settings!PanelInv
  /\ part = "badges" => Settings!BadgesInv
  /\ part = "notices" => Settings!InboxPanelInv
  /\ part = "forms" => Settings!FormsInv
  /\ part = "posting" => Settings!PostingInv
\* The sign-in gates of the settings and the forum: no late answer moves a gate that has gone
\* on, a passkey is on the device that made it, and the admin keeps a way back in (Gates).
GatesKept == part = "gates" => Live!GateInv
\* A page that is connected misses no article and shows each once (ArticleBus:
\* api/events/route.ts, LiveArticleStream.tsx).
BusKept == part = "bus" => Live!BusInv
\* A draft that was published or deleted never comes back (DraftAutosave: the routes of the
\* drafts and of POST /api/forum/posts, under saves that are late).
DraftsStayGone == [][part = "drafts" => Forum!GoneStays]_<<part, vars>>
=============================================================================
