---------------------------- MODULE ComposerBody ----------------------------
(***************************************************************************)
(* The text of a post or a reply while it is written: the `@` menu that    *)
(* inserts tokens for posts, members and images, the slots behind the      *)
(* tokens, and the images dropped on the composer.                         *)
(*                                                                         *)
(* The text is a sequence of pieces: words, an `@query` being typed, and   *)
(* tokens.  A token of a post remembers, as history, which post it was     *)
(* picked for; a token typed by hand was picked for none.                  *)
(***************************************************************************)
EXTENDS Naturals, Sequences, FiniteSets, SequencesExt, FiniteSetsExt, Sql

CONSTANTS
  Citable,    \* posts offered for citation
  Mentionable,\* members offered for a mention
  MaxPieces,  \* bound on the length of a text
  MaxImages,  \* max_images_per_post
  MaxPicks,   \* bound on the numbers given to citations
  FileDrop    \* drops of files whose uploads may be under way at once

\* Assumed of the constants.
BodyConstantsOK ==
  /\ NULL \notin Citable /\ NULL \notin FileDrop
  /\ MaxPieces \in Nat /\ MaxImages \in Nat /\ MaxPicks \in Nat

VARIABLES field  \* what the component holds: PostComposer, or RepliesPane, without uploads

bodyVars == <<field>>

Word == [kind : {"word"}]
Query == [kind : {"query"}]
PostToken == [kind : {"post"}, n : 1..MaxPicks, picked : Citable \cup {NULL}]
UserToken == [kind : {"user"}, who : Mentionable]
ImageToken == [kind : {"image"}, n : 1..MaxImages]
Piece == Word \cup Query \cup PostToken \cup UserToken \cup ImageToken
Body == {b \in Seq(Piece) : Len(b) <= MaxPieces}

CitationSlot == [n : 1..MaxPicks, post : Citable]

\* A slot of an image, and the upload that will still find it by its id: file `file` of the
\* drop `by`, or none.
ImageSlot ==
  [state : {"uploading", "ready", "error"}, by : FileDrop \cup {NULL}, file : 0..MaxImages]
Settled(state) == [state |-> state, by |-> NULL, file |-> 0]

\* A run of queueAndInsert: where its slots began, how many of its files are through, and the
\* text its closure saw.
Drop == [on : BOOLEAN, base : 0..MaxImages, files : 0..MaxImages, sent : 0..MaxImages,
         body : Body]
NoDrop == [on |-> FALSE, base |-> 0, files |-> 0, sent |-> 0, body |-> <<>>]
NoDrops == [d \in FileDrop |-> NoDrop]

FieldState ==
  [reply : BOOLEAN, body : Body, menu : BOOLEAN, range : 0..MaxPieces, slots : SUBSET CitationSlot,
   mentions : SUBSET Mentionable, images : BoundedSeq(ImageSlot, MaxImages),
   drops : [FileDrop -> Drop]]

BodyInit == field \in
  [reply : BOOLEAN, body : {<<>>}, menu : {FALSE}, range : {0}, slots : {{}}, mentions : {{}},
   images : {<<>>}, drops : {NoDrops}]

Tokens(b) == {b[i] : i \in 1..Len(b)}
CitedNumbers(b) == {t.n : t \in {u \in Tokens(b) : u.kind = "post"}}
Named(b) == {t.who : t \in {u \in Tokens(b) : u.kind = "user"}}
ImageNumbers(b) == {t.n : t \in {u \in Tokens(b) : u.kind = "image"}}
LiveCitations(s) == {c \in s.slots : c.n \in CitedNumbers(s.body)}
LiveMentions(s) == s.mentions \cap Named(s.body)

\* refreshMentionState: the menu is open exactly over the `@...` the caret stands in, a
\* query or a token.
AtCaret(s, b, i) ==
  IF i \in 1..Len(b) /\ b[i].kind # "word"
  THEN [s EXCEPT !.body = b, !.menu = TRUE, !.range = i]
  ELSE [s EXCEPT !.body = b, !.menu = FALSE, !.range = 0]
MenuClosed(s) == [s EXCEPT !.menu = FALSE, !.range = 0]

\* The user types or deletes at piece i, or moves the caret there.
TypeWords(i) ==
  /\ i \in 1..Len(field.body) + 1 /\ Len(field.body) < MaxPieces
  /\ \E p \in Word \cup Query \cup UserToken \cup ImageToken \cup {t \in PostToken : t.picked = NULL} :
       field' = AtCaret(field, InsertAt(field.body, i, p), i)
Erase(i) ==
  /\ i \in 1..Len(field.body)
  /\ field' = AtCaret(field, RemoveAt(field.body, i), i - 1)
MoveCaret(i) ==
  /\ i \in 0..Len(field.body)
  /\ field' = AtCaret(field, field.body, i)
\* Escape, or a click outside.
CloseMenu ==
  /\ field.menu
  /\ field' = MenuClosed(field)

-----------------------------------------------------------------------------
(* Picking from the menu.                                                  *)

PostCandidates(s) == Citable \ {c.post : c \in LiveCitations(s)}
UserCandidates(s) == Mentionable \ Named(s.body)
\* The composer offers each of its ready images once; a pane offers the post's images always.
ImageCandidates(s) ==
  {n \in 1..Len(s.images) : s.images[n].state = "ready"} \ ImageNumbers(s.body)

\* Mutant: the numbers of erased tokens are given again.
NextNumberOfLive(s) == Max({0} \cup {c.n : c \in LiveCitations(s)}) + 1
\* One more than every number given so far, also of citations whose token is gone.
NextNumber(s) == Max({0} \cup {c.n : c \in s.slots}) + 1

\* The token replaces what the range of the menu covers.
Replaced(s, p) ==
  IF s.range \in 1..Len(s.body) THEN ReplaceAt(s.body, s.range, p) ELSE Append(s.body, p)
Picked(s, p) == MenuClosed([s EXCEPT !.body = Replaced(s, p)])
Fits(s) == s.range \in 1..Len(s.body) \/ Len(s.body) < MaxPieces

PickPost(post) ==
  LET s == field  n == NextNumber(s) IN
  /\ s.menu /\ Fits(s) /\ post \in PostCandidates(s) /\ n <= MaxPicks
  /\ field' =
       [Picked(s, [kind |-> "post", n |-> n, picked |-> post])
          EXCEPT !.slots = s.slots \cup {[n |-> n, post |-> post]}]
PickUser(m) ==
  LET s == field IN
  /\ s.menu /\ Fits(s) /\ m \in UserCandidates(s)
  /\ field' =
       [Picked(s, [kind |-> "user", who |-> m]) EXCEPT !.mentions = s.mentions \cup {m}]
PickImage(n) ==
  LET s == field IN
  /\ s.menu /\ Fits(s)
  /\ n \in IF field.reply THEN 1..MaxImages ELSE ImageCandidates(s)
  /\ field' = Picked(s, [kind |-> "image", n |-> n])

-----------------------------------------------------------------------------
(* Images of the composer.                                                 *)

\* Files picked, dropped or pasted, as many as the cap leaves room for, while others may be
\* on their way.  React fills slotIds before the loop takes the first of them only when no
\* update is pending (`bound`): a first upload without an id finds no slot.
QueueImages(d, k, bound) ==
  LET s == field
      slot(i) == [state |-> "uploading", by |-> IF i = 1 /\ ~bound THEN NULL ELSE d,
                  file |-> IF i = 1 /\ ~bound THEN 0 ELSE i]
  IN
  /\ ~s.reply /\ ~s.drops[d].on /\ k >= 1 /\ Len(s.images) + k <= MaxImages
  /\ Len(s.body) < MaxPieces
  /\ field' =
       [s EXCEPT !.images = s.images \o [i \in 1..k |-> slot(i)],
                 !.drops[d] = [on |-> TRUE, base |-> Len(s.images), files |-> k, sent |-> 0,
                               body |-> s.body]]

\* One upload of a drop ends, and its slot with it, unless it has none or it was removed.
SlotsAfter(s, d, state) ==
  [i \in 1..Len(s.images) |->
     IF s.images[i].by = d /\ s.images[i].file = s.drops[d].sent + 1
     THEN Settled(state) ELSE s.images[i]]
NextFile(drop) ==
  IF drop.sent + 1 = drop.files THEN NoDrop ELSE [drop EXCEPT !.sent = drop.sent + 1]

UploadFails(d) ==
  LET s == field IN
  /\ s.drops[d].on
  /\ field' =
       [s EXCEPT !.images = SlotsAfter(s, d, "error"), !.drops[d] = NextFile(s.drops[d])]

\* insertTokenAtCaret writes into the text its closure saw when the files were queued, and
\* leaves the menu and its range as they are until the caret is moved.
InsertInto(drop, at) ==
  InsertAt(drop.body, at, [kind |-> "image", n |-> drop.base + drop.sent + 1])
UploadSucceeds(d, at) ==
  LET s == field IN
  /\ s.drops[d].on /\ at \in 1..Len(s.drops[d].body) + 1 /\ Len(s.drops[d].body) < MaxPieces
  /\ field' =
       [s EXCEPT !.images = SlotsAfter(s, d, "ready"), !.drops[d] = NextFile(s.drops[d]),
                 !.body = InsertInto(s.drops[d], at)]

\* At any time, also of an image that is uploading: the later ones move up.
RemoveImage(i) ==
  LET s == field IN
  /\ i \in 1..Len(s.images)
  /\ field' = [s EXCEPT !.images = RemoveAt(s.images, i)]

\* The images that a payload carries, in their order: those that are uploaded.
ReadyOf(images) ==
  [i \in 1..Cardinality({j \in 1..Len(images) : images[j].state = "ready"}) |-> Settled("ready")]

\* The post is saved and opened again (a draft, or an edit): what the payload carried of
\* the slots comes back, with the numbers the text uses, and no upload finds the composer.
Reopen ==
  LET s == field IN
  /\ ~s.reply /\ \A i \in 1..Len(s.images) : s.images[i].state # "uploading"
  /\ field' =
       [MenuClosed(s) EXCEPT !.slots = LiveCitations(s), !.mentions = LiveMentions(s),
                         !.images = ReadyOf(s.images), !.drops = NoDrops]

BodyNext ==
  \/ \E i \in 0..MaxPieces : TypeWords(i) \/ Erase(i) \/ MoveCaret(i)
  \/ CloseMenu \/ Reopen
  \/ \E post \in Citable : PickPost(post)
  \/ \E m \in Mentionable : PickUser(m)
  \/ \E n \in 1..MaxImages : PickImage(n) \/ RemoveImage(n)
  \/ \E d \in FileDrop :
       \/ UploadFails(d)
       \/ \E k \in 1..MaxImages, b \in BOOLEAN : QueueImages(d, k, b)
       \/ \E at \in 1..MaxPieces : UploadSucceeds(d, at)

-----------------------------------------------------------------------------
(* Properties.                                                             *)

BodyTypeOK == field \in FieldState

\* A token keeps pointing at the post it was picked for: its number belongs to one slot, the
\* slot of that post, through deletions, later picks, stale insertions and reopening.
TokenMeansPick ==
  \A t \in Tokens(field.body) :
    t.kind = "post" /\ t.picked # NULL =>
      {c.post : c \in {d \in field.slots : d.n = t.n}} = {t.picked}

\* A slot that awaits an upload awaits one that is still to come, and alone: the answers of
\* drops that overlap, and of files whose image was removed, reach nobody else's slot.
UploadsSettle ==
  \A i \in 1..Len(field.images) :
    LET slot == field.images[i] IN
    slot.by # NULL =>
      /\ slot.state = "uploading" /\ field.drops[slot.by].on
      /\ slot.file \in field.drops[slot.by].sent + 1 .. field.drops[slot.by].files
      /\ \A j \in 1..Len(field.images) :
           field.images[j].by = slot.by /\ field.images[j].file = slot.file => j = i

BodyInv == BodyTypeOK /\ TokenMeansPick /\ UploadsSettle

\* What insertMention and its range (PostComposer.tsx:688-689) take for granted: an open menu
\* stands over the `@...` it completes, so that a pick replaces this piece and nothing else of
\* the text.  (An upload that ends in between leaves other text under the range: this is
\* refuted for the composer, and holds of a reply, which has no uploads.)
PickReplacesQuery ==
  field.menu =>
    field.range \in 1..Len(field.body) /\ field.body[field.range].kind # "word"

\* What queueAndInsert's comment says of several files at once, "sees @Image3 @Image4
\* @Image5": an insertion keeps the image tokens the text has.  (Each insertion starts
\* from the text of the moment of the drop: this is refuted.)
DropKeepsTokens ==
  [][field'.body # field.body /\ field'.drops # field.drops
       => ImageNumbers(field.body) \subseteq ImageNumbers(field'.body)]_bodyVars
=============================================================================
