---------------------------- MODULE ForumProofs -----------------------------
(***************************************************************************)
(* What the forum stores belongs together, its lists lose nothing, a draft *)
(* that is gone stays gone, no reply is lost or listed twice, and a star   *)
(* shows what is stored, for every number of saves, members, composers,    *)
(* requests and buttons.                                                   *)
(*                                                                         *)
(* An edit rewrites the join tables one by one under the lock of its post, *)
(* so the invariant has to say which tables are done (EditFits) and that   *)
(* nobody else holds the lock (OneEditor). A list of notifications pages   *)
(* by a cursor that is a time: whatever it still owes is listed and older  *)
(* than its cursor (WalkFits). And an autosave of a draft is let through   *)
(* only by a row that is still there, which it holds until it commits      *)
(* (HeldIsLive, OneHolder). A reply goes back to the list it was sent      *)
(* from, so that the lists of requests are part of the invariant           *)
(* (ListsApart, AloneGoesBack); so is what an answer of a star read before *)
(* another write went past it (StarFits).                                  *)
(***************************************************************************)
EXTENDS ForumPosts, DraftAutosave, ReplyPanes, ForumStars, FiniteSetTheorems, SequenceTheorems, TLAPS

-----------------------------------------------------------------------------
(* The posts, comments, edits and notifications.                           *)

\* What a save q under the name s has been checked for, and how far it is.
SaveFits(s, q) == q.stage # "idle" =>
  /\ q.kind \in {"post", "edit", "comment"} /\ q.by \in Member /\ q.post \in Save /\ q.by \notin q.mentions
  /\ IF q.kind = "post" THEN q.post = s ELSE Posted(q.post)
  /\ q.stage = "editing" => q.kind = "edit"
  /\ q.stage \in {"begun", "caught", "noticed"} => q.kind # "edit"
  /\ q.stage = "checked" => q.step = 0 /\ q.removed = {}
\* An edit has deleted all rows of the tables it has rewritten, and nobody else writes them.
EditFits(q) == q.stage = "editing" =>
  q.removed = {j \in RowsOf(q.post) : \E k \in 1..q.step : j.table = JoinTables[k]}
OneEditor == \A s, t \in Save :
  save[s].stage = "editing" /\ save[t].stage = "editing" /\ save[s].post = save[t].post => s = t
PostedSaved == \A p \in Save : Posted(p) => save[p].stage = "saved" /\ save[p].kind = "post"
RowsFit == \A p \in Save :
  RowsOf(p) = IF Posted(p) THEN FreshRows(p, content[p]) ELSE {}
NoticesDue(s) == IF save[s].stage = "saved" /\ save[s].kind # "edit" THEN NoticesOf(s) ELSE {}
HeardFit == \A s \in Save : HeardOf(s) = NoticesDue(s)
ForumIInv ==
  /\ ForumTypeOK /\ \A s \in Save : SaveFits(s, save[s]) /\ EditFits(save[s])
  /\ OneEditor /\ PostedSaved /\ RowsFit /\ HeardFit

\* What a list owes is listed, and has been shown or is still to come.
Heard == {k.note : k \in inbox} \cup gone
ToCome(w, n) == n \in w.seen \/ (\E k \in w.seen : At(k) = At(n)) \/ (w.on /\ At(n) < w.cursor)
WalkFits(m) == /\ walk[m].seen \subseteq Heard /\ walk[m].due \subseteq Listed(m, walk[m].unread)
               /\ \A n \in walk[m].due : ToCome(walk[m], n)
WalkIInv == IsFiniteSet(inbox) /\ \A m \in Member : WalkFits(m)

\* The image of a finite set is finite.
LEMMA FiniteImage ==
  ASSUME ForumConstantsOK, NEW S, NEW f, IsFiniteSet(S) PROVE IsFiniteSet({f[x] : x \in S})
<1>. DEFINE T == {f[x] : x \in S}
            g == [x \in S |-> f[x]]
<1>1. g \in Surjection(S, T)
  BY DEF Surjection
<1>. QED
  BY <1>1, FS_Surjection

\* The notices of a save, and whom they go to.
LEMMA NoticesOfSave ==
  ASSUME ForumConstantsOK, ForumIInv, NEW s \in Save, save[s].stage # "idle", save[s].kind # "edit"
  PROVE  /\ NoticesOf(s) \subseteq Notice
         /\ \A n \in NoticesOf(s) : n.of = s
         /\ {n.to : n \in NoticesOf(s)} = Concerned(s)
         /\ \A n, k \in NoticesOf(s) : n.to = k.to => n = k
         /\ IsFiniteSet(NoticesOf(s))
<1>. DEFINE k == save[s].kind
            a == save[save[s].post].by
            mentions == save[s].mentions
<1>1. /\ k \in {"post", "comment"} /\ save[s].by \in Member /\ save[s].by \notin mentions /\ mentions \subseteq Member
      /\ save[s].post \in Save /\ (k = "comment" => Posted(save[s].post))
  BY DEF ForumIInv, SaveFits, ForumTypeOK, SaveRequest
<1>2. k = "comment" => a \in Member
  <2>1. \A p \in Save : Posted(p) => save[p].by \in Member
    BY DEF ForumIInv, PostedSaved, SaveFits
  <2>. QED
    BY <1>1, <2>1
<1>. DEFINE mine(kind) == {[to |-> m, kind |-> kind, of |-> s] : m \in mentions}
            owner == {[to |-> m, kind |-> "reply_to_my_post", of |-> s] : m \in {a} \ (mentions \cup {save[s].by})}
<1>3. NoticesOf(s) = IF k = "post" THEN mine("mentioned_in_post") ELSE mine("mentioned_in_comment") \cup owner
  BY DEF NoticesOf, MentionNotices, ReplyNotice, AuthorOf
<1>4. Concerned(s) = (mentions \cup (IF k = "comment" THEN {a} ELSE {})) \ {save[s].by}
  BY DEF Concerned, AuthorOf
<1>5. IsFiniteSet(NoticesOf(s))
  <2>1. IsFiniteSet(mentions)
    <3>1. IsFiniteSet(Member)
      BY DEF ForumConstantsOK, IsFiniteSet
    <3>. QED
      BY <1>1, <3>1, FS_Subset
  <2>2. \A kind : IsFiniteSet(mine(kind))
    <3>. SUFFICES ASSUME NEW kind PROVE IsFiniteSet(mine(kind))
      OBVIOUS
    <3>. DEFINE f == [m \in mentions |-> [to |-> m, kind |-> kind, of |-> s]]
    <3>1. mine(kind) = {f[m] : m \in mentions}
      OBVIOUS
    <3>. HIDE DEF f
    <3>. QED
      BY <2>1, <3>1, FiniteImage
  <2>3. IsFiniteSet(owner)
    <3>1. owner = {} \/ owner = {[to |-> a, kind |-> "reply_to_my_post", of |-> s]}
      OBVIOUS
    <3>. HIDE DEF owner
    <3>. QED
      BY <3>1, FS_EmptySet, FS_Singleton
  <2>. HIDE DEF mine, owner
  <2>. QED
    BY <1>3, <2>2, <2>3, FS_Union
<1>6. NoticesOf(s) \subseteq Notice /\ \A n \in NoticesOf(s) : n.of = s
  BY <1>1, <1>2, <1>3 DEF Notice
<1>7. {n.to : n \in NoticesOf(s)} = Concerned(s)
  <2>1. \A m : (\E n \in NoticesOf(s) : n.to = m) <=> m \in Concerned(s)
    <3>0. ASSUME NEW kind PROVE \A m : (\E n \in mine(kind) : n.to = m) <=> m \in mentions
      <4>1. ASSUME NEW m \in mentions PROVE \E n \in mine(kind) : n.to = m
        <5>1. [to |-> m, kind |-> kind, of |-> s] \in mine(kind)
          OBVIOUS
        <5>. QED
          BY <5>1
      <4>2. \A n \in mine(kind) : n.to \in mentions
        OBVIOUS
      <4>. QED
        BY <4>1, <4>2
    <3>1. CASE k = "post"
      <4>1. \A m : (\E n \in mine("mentioned_in_post") : n.to = m) <=> m \in mentions
        BY <3>0
      <4>. HIDE DEF mine, owner
      <4>. QED
        BY <1>1, <1>3, <1>4, <3>1, <4>1
    <3>2. CASE k = "comment"
      <4>1. \A m : (\E n \in mine("mentioned_in_comment") : n.to = m) <=> m \in mentions
        BY <3>0
      <4>2. \A m : (\E n \in owner : n.to = m) <=> m = a /\ a \notin mentions /\ a # save[s].by
        <5>1. owner = IF a \in mentions \cup {save[s].by} THEN {} ELSE {[to |-> a, kind |-> "reply_to_my_post", of |-> s]}
          OBVIOUS
        <5>. HIDE DEF owner, mine
        <5>2. CASE a \in mentions \cup {save[s].by}
          BY <5>1, <5>2
        <5>3. CASE a \notin mentions \cup {save[s].by}
          <6>1. PICK r : r.to = a /\ owner = {r}
            BY <5>1, <5>3
          <6>. QED
            BY <5>3, <6>1
        <5>. QED
          BY <5>2, <5>3
      <4>. HIDE DEF mine, owner
      <4>. QED
        BY <1>1, <1>3, <1>4, <3>2, <4>1, <4>2
    <3>. QED
      BY <1>1, <3>1, <3>2
  <2>. QED
    BY <2>1
<1>8. \A n, o \in NoticesOf(s) : n.to = o.to => n = o
  BY <1>1, <1>3
<1>. QED
  BY <1>5, <1>6, <1>7, <1>8

\* What somebody has heard of is of a save that was stored.
LEMMA HeardSaved ==
  ASSUME ForumConstantsOK, ForumIInv, NEW n \in Heard
  PROVE  /\ n \in Notice /\ n.of \in Save /\ save[n.of].stage = "saved" /\ n \in NoticesOf(n.of)
         /\ At(n) \in 0..LastTime
<1>1. n \in Notice
  BY DEF Heard, ForumIInv, ForumTypeOK
<1>2. n.of \in Save
  BY <1>1 DEF Notice
<1>3. n \in HeardOf(n.of)
  BY DEF Heard, HeardOf
<1>4. n \in NoticesDue(n.of)
  BY <1>2, <1>3 DEF ForumIInv, HeardFit
<1>5. At(n) \in 0..LastTime
  BY <1>2 DEF ForumIInv, ForumTypeOK, SaveRequest, At
<1>. QED
  BY <1>1, <1>2, <1>4, <1>5 DEF NoticesDue

\* A stored save keeps its notices whatever other saves do.
LEMMA NoticesStay ==
  ASSUME ForumConstantsOK, ForumIInv, NEW t \in Save, save[t].stage # "idle", save'[t].kind = save[t].kind, save'[t].by = save[t].by,
         save'[t].post = save[t].post, save'[t].mentions = save[t].mentions,
         \A p \in Save : Posted(p) => save'[p].by = save[p].by
  PROVE  NoticesOf(t)' = NoticesOf(t)
<1>1. save[t].kind # "post" => save'[save[t].post].by = save[save[t].post].by
  BY DEF ForumIInv, SaveFits
<1>. QED
  BY <1>1 DEF NoticesOf, MentionNotices, ReplyNotice, AuthorOf

\* A save goes on, and the tables stay as they are.
LEMMA SaveActs ==
  ASSUME ForumConstantsOK, ForumIInv, NEW s \in Save, NEW q \in SaveRequest,
         save' = [save EXCEPT ![s] = q], UNCHANGED <<content, joins, inbox, gone, walk, clock>>,
         save[s].stage # "saved", q.stage # "saved", SaveFits(s, q), EditFits(q),
         \/ q.stage # "editing"
         \/ save[s].stage = "editing" /\ save[s].post = q.post
         \/ ~PostRowLocked(q.post)
  PROVE  ForumIInv'
<1>1. save' \in [Save -> SaveRequest] /\ save'[s] = q /\ \A t \in Save \ {s} : save'[t] = save[t]
  BY DEF ForumIInv, ForumTypeOK
<1>2. ForumTypeOK'
  BY <1>1 DEF ForumIInv, ForumTypeOK
<1>3. \A p \in Save : (Posted(p)' <=> Posted(p)) /\ RowsOf(p)' = RowsOf(p)
                      /\ (Posted(p) => p # s /\ save'[p] = save[p])
  BY <1>1 DEF Posted, RowsOf, ForumIInv, PostedSaved
<1>4. ASSUME NEW t \in Save PROVE SaveFits(t, save[t])' /\ EditFits(save[t])'
  <2>1. save'[t].stage # "idle" => save'[t].post \in Save
    BY <1>1 DEF ForumIInv, SaveFits
  <2>2. SaveFits(t, save'[t])
    BY <1>1 DEF ForumIInv
  <2>3. EditFits(save'[t])
    BY <1>1 DEF ForumIInv
  <2>4. SaveFits(t, save[t])'
    BY <2>2 DEF SaveFits, Posted
  <2>. QED
    BY <2>3, <2>4 DEF EditFits, RowsOf
<1>5. OneEditor'
  BY <1>1 DEF ForumIInv, OneEditor, PostRowLocked
<1>6. PostedSaved' /\ RowsFit'
  BY <1>3 DEF ForumIInv, PostedSaved, RowsFit, FreshRows
<1>7. ASSUME NEW t \in Save PROVE (HeardOf(t) = NoticesDue(t))'
  <2>1. HeardOf(t)' = HeardOf(t)
    BY DEF HeardOf
  <2>2. NoticesDue(t)' = NoticesDue(t)
    <3>1. CASE t = s
      BY <1>1, <3>1 DEF NoticesDue
    <3>2. CASE t # s /\ save[t].stage = "saved"
      BY <1>1, <1>3, <3>2, NoticesStay DEF NoticesDue
    <3>3. CASE t # s /\ save[t].stage # "saved"
      BY <1>1, <3>3 DEF NoticesDue
    <3>. QED
      BY <3>1, <3>2, <3>3
  <2>. QED
    BY <2>1, <2>2 DEF ForumIInv, HeardFit
<1>. QED
  BY <1>2, <1>4, <1>5, <1>6, <1>7 DEF ForumIInv, HeardFit

\* Lists that nobody pages through and that only grow owe nothing new.
LEMMA WalksStay ==
  ASSUME ForumConstantsOK, ForumIInv, WalkIInv, walk' = walk, IsFiniteSet(inbox'), inbox \subseteq inbox', gone \subseteq gone',
         \A t \in Save : save[t].stage = "saved" => save'[t].at = save[t].at
  PROVE  WalkIInv'
<1>1. Heard \subseteq Heard' /\ \A m, u : Listed(m, u) \subseteq Listed(m, u)' /\ Listed(m, u) \subseteq Heard
  BY DEF Heard, Listed, Mine
<1>2. \A n \in Heard : At(n)' = At(n)
  BY HeardSaved DEF At
<1>3. ASSUME NEW m \in Member PROVE WalkFits(m)'
  <2>1. WalkFits(m)
    BY DEF WalkIInv
  <2>2. walk[m].seen \subseteq Heard /\ walk[m].due \subseteq Heard
    BY <1>1, <2>1 DEF WalkFits
  <2>3. \A n \in walk[m].due : ToCome(walk[m], n)'
    BY <1>2, <2>1, <2>2 DEF WalkFits, ToCome
  <2>. QED
    BY <1>1, <2>1, <2>3 DEF WalkFits, ToCome
<1>. QED
  BY <1>3 DEF WalkIInv

\* A save goes on, before its commit.
SaveGoes(s) == \E q \in SaveRequest :
  /\ save' = [save EXCEPT ![s] = q] /\ SaveFits(s, q) /\ EditFits(q)
  /\ save[s].stage # "saved" /\ q.stage # "saved" /\ UNCHANGED <<content, joins, inbox, gone, walk, clock>>
  /\ \/ q.stage # "editing"
     \/ save[s].stage = "editing" /\ save[s].post = q.post
     \/ ~PostRowLocked(q.post)

\* What is checked is a post of its own, or an edit or a comment of a post that is there.
LEMMA CheckGoes ==
  ASSUME ForumConstantsOK, ForumIInv, NEW s \in Save, NEW m \in Member, NEW mentions \in SUBSET Member, m \notin mentions,
         NEW p \in Save, NEW kind \in {"post", "edit", "comment"},
         IF kind = "post" THEN p = s ELSE Posted(p), Checked(s, kind, m, p, mentions)
  PROVE  SaveGoes(s)
<1>. DEFINE q == [stage |-> "checked", kind |-> kind, by |-> m, post |-> p, mentions |-> mentions,
                  at |-> 0, step |-> 0, removed |-> {}]
<1>1. q \in SaveRequest
  BY DEF SaveRequest, ForumConstantsOK
<1>2. SaveFits(s, q) /\ EditFits(q)
  BY DEF SaveFits, EditFits
<1>3. save' = [save EXCEPT ![s] = q] /\ save[s].stage = "idle" /\ UNCHANGED <<content, joins, inbox, gone, walk, clock>>
  BY DEF Checked
<1>. QED
  BY <1>1, <1>2, <1>3 DEF SaveGoes

\* Every step of a save before its commit.
LEMMA SaveBefore ==
  ASSUME ForumConstantsOK, ForumIInv, NEW s \in Save,
         \/ \E m \in Member, asked \in SUBSET Member :
              \/ CheckCreate(s, m, asked)
              \/ \E p \in Save : CheckReply(s, m, p, asked)
              \/ \E named \in SUBSET asked :
                   \/ CheckPost(s, m, asked, named)
                   \/ \E p \in Save : CheckComment(s, m, p, asked, named) \/ CheckEdit(s, m, p, asked, named)
         \/ BeginInsert(s) \/ WriteNotices(s) \/ CatchNoticeFailure(s)
         \/ LockPost(s) \/ Rewrite(s) \/ Rollback(s)
  PROVE  SaveGoes(s)
<1>. DEFINE w == save[s]
<1>1. /\ w \in SaveRequest /\ SaveFits(s, w) /\ EditFits(w) /\ clock \in 0..LastTime
      /\ save \in [Save -> SaveRequest] /\ joins \subseteq JoinRow /\ w.step \in 0..4
  BY DEF ForumIInv, ForumTypeOK, SaveRequest
<1>2. ASSUME NEW m \in Member, NEW asked \in SUBSET Member,
             \/ CheckCreate(s, m, asked)
             \/ \E p \in Save : CheckReply(s, m, p, asked)
             \/ \E named \in SUBSET asked :
                  \/ CheckPost(s, m, asked, named)
                  \/ \E p \in Save : CheckComment(s, m, p, asked, named) \/ CheckEdit(s, m, p, asked, named)
      PROVE  SaveGoes(s)
  <2>1. \A named : WebMentions(m, asked, named) \in SUBSET Member /\ m \notin WebMentions(m, asked, named)
    BY DEF WebMentions
  <2>2. ToolMentions(m, asked) \in SUBSET Member /\ m \notin ToolMentions(m, asked)
    BY DEF ToolMentions
  <2>3. \/ \E named : Checked(s, "post", m, s, WebMentions(m, asked, named))
        \/ Checked(s, "post", m, s, ToolMentions(m, asked))
        \/ \E p \in Save : /\ Posted(p)
                           /\ \/ Checked(s, "comment", m, p, ToolMentions(m, asked))
                              \/ \E named : Checked(s, "comment", m, p, WebMentions(m, asked, named))
                              \/ \E named : Checked(s, "edit", m, p, WebMentions(m, asked, named))
    BY <1>2 DEF CheckCreate, CheckReply, CheckPost, CheckComment, CheckEdit
  <2>. QED
    BY <2>1, <2>2, <2>3, CheckGoes
<1>3. CASE BeginInsert(s)
  <2>. DEFINE q == [w EXCEPT !.stage = "begun", !.at = clock]
  <2>1. save' = [save EXCEPT ![s] = q] /\ UNCHANGED <<content, joins, inbox, gone, walk, clock>> /\ w.stage = "checked" /\ w.kind # "edit"
    BY <1>1, <1>3 DEF BeginInsert
  <2>2. q \in SaveRequest /\ q.stage = "begun" /\ SaveFits(s, q) /\ EditFits(q)
    BY <1>1, <2>1 DEF SaveRequest, SaveFits, EditFits
  <2>. QED
    BY <2>1, <2>2 DEF SaveGoes
<1>4. CASE WriteNotices(s) \/ CatchNoticeFailure(s)
  <2>1. PICK stage \in {"noticed", "caught"} :
          save' = [save EXCEPT ![s] = [w EXCEPT !.stage = stage]] /\ UNCHANGED <<content, joins, inbox, gone, walk, clock>> /\ w.stage = "begun"
    BY <1>1, <1>4 DEF WriteNotices, CatchNoticeFailure
  <2>. DEFINE q == [w EXCEPT !.stage = stage]
  <2>2. q \in SaveRequest /\ q.stage = stage /\ SaveFits(s, q) /\ EditFits(q)
    BY <1>1, <2>1 DEF SaveRequest, SaveFits, EditFits
  <2>. QED
    BY <2>1, <2>2 DEF SaveGoes
<1>5. CASE LockPost(s)
  <2>. DEFINE q == [w EXCEPT !.stage = "editing", !.at = clock]
  <2>1. /\ save' = [save EXCEPT ![s] = q] /\ UNCHANGED <<content, joins, inbox, gone, walk, clock>> /\ w.stage = "checked" /\ w.kind = "edit"
        /\ ~PostRowLocked(w.post)
    BY <1>1, <1>5 DEF LockPost
  <2>2. q \in SaveRequest /\ q.stage = "editing" /\ SaveFits(s, q) /\ q.post = w.post /\ q.step = 0 /\ q.removed = {}
    BY <1>1, <2>1 DEF SaveRequest, SaveFits
  <2>3. EditFits(q)
    BY <2>2 DEF EditFits
  <2>. QED
    BY <2>1, <2>2, <2>3 DEF SaveGoes
<1>6. CASE Rewrite(s)
  <2>. DEFINE struck == {j \in RowsOf(w.post) : j.table = JoinTables[w.step + 1]}
              q == [w EXCEPT !.step = w.step + 1, !.removed = w.removed \cup struck]
  <2>1. save' = [save EXCEPT ![s] = q] /\ UNCHANGED <<content, joins, inbox, gone, walk, clock>> /\ w.stage = "editing" /\ w.step < 4
    BY <1>1, <1>6 DEF Rewrite
  <2>2. struck \subseteq JoinRow
    BY <1>1 DEF RowsOf
  <2>. HIDE DEF struck
  <2>3. /\ q \in SaveRequest /\ SaveFits(s, q) /\ q.stage = "editing" /\ q.post = w.post /\ q.step = w.step + 1
        /\ q.removed = w.removed \cup struck
    <3>1. w.step + 1 \in 0..4 /\ w.removed \cup struck \in SUBSET JoinRow
      BY <1>1, <2>1, <2>2 DEF SaveRequest
    <3>. DEFINE step == w.step + 1
                removed == w.removed \cup struck
    <3>. HIDE DEF step, removed
    <3>2. [w EXCEPT !.step = step, !.removed = removed] \in SaveRequest
      BY <1>1, <3>1 DEF SaveRequest, step, removed
    <3>3. SaveFits(s, [w EXCEPT !.step = step, !.removed = removed])
      BY <1>1, <2>1 DEF SaveFits, SaveRequest
    <3>. QED
      BY <1>1, <2>1, <3>2, <3>3 DEF SaveRequest, step, removed
  <2>4. w.removed = {j \in RowsOf(w.post) : \E k \in 1..w.step : j.table = JoinTables[k]}
    BY <1>1, <2>1 DEF EditFits
  <2>. HIDE DEF w, q
  <2>5. \A k : k \in 1..(w.step + 1) <=> k \in 1..w.step \/ k = w.step + 1
    BY <1>1
  <2>6. EditFits(q)
    BY <2>3, <2>4, <2>5 DEF EditFits, struck
  <2>. QED
    BY <2>1, <2>3, <2>6 DEF SaveGoes, w
<1>7. CASE Rollback(s)
  <2>. DEFINE q == [w EXCEPT !.stage = "failed", !.removed = {}]
  <2>1. save' = [save EXCEPT ![s] = q] /\ UNCHANGED <<content, joins, inbox, gone, walk, clock>>
        /\ w.stage \in {"checked", "begun", "caught", "noticed", "editing"}
    BY <1>1, <1>7 DEF Rollback
  <2>2. q \in SaveRequest /\ q.stage = "failed" /\ SaveFits(s, q) /\ EditFits(q)
    BY <1>1, <2>1 DEF SaveRequest, SaveFits, EditFits
  <2>. QED
    BY <2>1, <2>2 DEF SaveGoes
<1>. QED
  BY <1>2, <1>3, <1>4, <1>5, <1>6, <1>7

\* A save that goes on leaves the lists alone.
LEMMA SaveOn ==
  ASSUME ForumConstantsOK, ForumIInv, WalkIInv, NEW s \in Save, SaveGoes(s)
  PROVE  ForumIInv' /\ WalkIInv'
<1>1. PICK q \in SaveRequest :
        /\ save' = [save EXCEPT ![s] = q] /\ SaveFits(s, q) /\ EditFits(q)
        /\ save[s].stage # "saved" /\ q.stage # "saved" /\ UNCHANGED <<content, joins, inbox, gone, walk, clock>>
        /\ \/ q.stage # "editing"
           \/ save[s].stage = "editing" /\ save[s].post = q.post
           \/ ~PostRowLocked(q.post)
  BY DEF SaveGoes
<1>2. ForumIInv'
  BY <1>1, SaveActs
<1>3. \A t \in Save : save[t].stage = "saved" => save'[t].at = save[t].at
  BY <1>1 DEF ForumIInv, ForumTypeOK
<1>. QED
  BY <1>1, <1>2, <1>3, WalksStay DEF WalkIInv

\* An edit commits: all rows of its post are its own, for nobody else had the post.
LEMMA EditCommits ==
  ASSUME ForumConstantsOK, ForumIInv, WalkIInv, NEW s \in Save, CommitEdit(s)
  PROVE  ForumIInv' /\ WalkIInv'
<1>. DEFINE w == save[s]
<1>0. PICK p : p = w.post
  OBVIOUS
<1>. DEFINE q == [w EXCEPT !.stage = "saved", !.removed = {}]
<1>1. /\ w \in SaveRequest /\ SaveFits(s, w) /\ EditFits(w) /\ joins \subseteq JoinRow
      /\ save \in [Save -> SaveRequest] /\ content \in [Save -> Save \cup {NULL}]
  BY DEF ForumIInv, ForumTypeOK
<1>2. /\ w.stage = "editing" /\ w.step = 4 /\ content' = [content EXCEPT ![p] = s]
      /\ joins' = (joins \ w.removed) \cup FreshRows(p, s) /\ save' = [save EXCEPT ![s] = q]
      /\ UNCHANGED <<inbox, gone, walk, clock>>
  BY <1>0, <1>1 DEF CommitEdit
<1>3. w.kind = "edit" /\ p \in Save /\ Posted(p)
  BY <1>0, <1>1, <1>2 DEF SaveFits
<1>4. q \in SaveRequest /\ q.stage = "saved" /\ q.kind = "edit" /\ q.by = w.by /\ q.post = p /\ q.mentions = w.mentions
      /\ q.at = w.at
  BY <1>0, <1>1, <1>3 DEF SaveRequest
<1>. HIDE DEF w, q
<1>5. save' \in [Save -> SaveRequest] /\ save'[s] = q /\ \A t \in Save \ {s} : save'[t] = save[t]
  BY <1>1, <1>2, <1>4
<1>6. content' \in [Save -> Save \cup {NULL}] /\ content'[p] = s /\ \A o \in Save \ {p} : content'[o] = content[o]
  BY <1>1, <1>2, <1>3
<1>7. \A o \in Save : Posted(o)' <=> Posted(o)
  BY <1>3, <1>6 DEF Posted, ForumConstantsOK
<1>8. w.removed = RowsOf(p)
  <2>1. \A j \in joins : \E k \in 1..4 : j.table = JoinTables[k]
    BY <1>1 DEF JoinRow, JoinTable
  <2>. QED
    BY <1>0, <1>1, <1>2, <2>1 DEF EditFits, RowsOf
<1>9. FreshRows(p, s) \subseteq JoinRow /\ \A j \in FreshRows(p, s) : j.post = p
  BY <1>3 DEF FreshRows, JoinRow
<1>10. /\ RowsOf(p)' = FreshRows(p, s)
       /\ \A o \in Save \ {p} : RowsOf(o)' = RowsOf(o)
  <2>1. \A o : RowsOf(o)' = {j \in joins' : j.post = o}
    BY DEF RowsOf
  <2>2. \A o : RowsOf(o) = {j \in joins : j.post = o}
    BY DEF RowsOf
  <2>3. \A j : j \in joins' <=> (j \in joins /\ ~(j \in joins /\ j.post = p)) \/ j \in FreshRows(p, s)
    BY <1>2, <1>8, <2>2
  <2>. QED
    BY <1>9, <2>1, <2>2, <2>3
<1>11. ForumTypeOK'
  BY <1>1, <1>2, <1>5, <1>6, <1>9 DEF ForumIInv, ForumTypeOK
<1>12. RowsFit' /\ PostedSaved' /\ OneEditor'
  <2>1. ASSUME NEW o \in Save
        PROVE  RowsOf(o)' = IF Posted(o)' THEN FreshRows(o, content'[o]) ELSE {}
    BY <1>3, <1>6, <1>7, <1>10 DEF ForumIInv, RowsFit
  <2>2. RowsFit'
    BY <2>1 DEF RowsFit, FreshRows
  <2>3. PostedSaved'
    BY <1>2, <1>5, <1>7 DEF ForumIInv, PostedSaved, w
  <2>4. OneEditor'
    BY <1>4, <1>5 DEF ForumIInv, OneEditor
  <2>. QED
    BY <2>2, <2>3, <2>4
<1>13. ASSUME NEW t \in Save PROVE SaveFits(t, save[t])' /\ EditFits(save[t])'
  <2>1. CASE t = s
    BY <1>1, <1>2, <1>3, <1>4, <1>5, <1>7, <2>1 DEF SaveFits, EditFits
  <2>2. CASE t # s
    <3>1. save'[t] = save[t] /\ SaveFits(t, save[t]) /\ EditFits(save[t])
      BY <1>5, <2>2 DEF ForumIInv
    <3>2. SaveFits(t, save[t])'
      BY <1>7, <3>1 DEF SaveFits
    <3>3. save[t].stage = "editing" => save[t].post \in Save \ {p}
      BY <1>0, <1>2, <2>2, <3>1 DEF ForumIInv, OneEditor, SaveFits, w
    <3>4. EditFits(save[t])'
      BY <1>10, <3>1, <3>3 DEF EditFits
    <3>. QED
      BY <3>2, <3>4
  <2>. QED
    BY <2>1, <2>2
<1>14. ASSUME NEW t \in Save PROVE (HeardOf(t) = NoticesDue(t))'
  <2>1. HeardOf(t)' = HeardOf(t)
    BY <1>2 DEF HeardOf
  <2>2. NoticesDue(t)' = NoticesDue(t)
    <3>1. CASE t = s
      BY <1>2, <1>3, <1>4, <1>5, <3>1 DEF NoticesDue, w
    <3>2. CASE t # s /\ save[t].stage = "saved"
      <4>1. \A o \in Save : Posted(o) => save'[o].by = save[o].by
        BY <1>4, <1>5 DEF w
      <4>. QED
        BY <1>5, <3>2, <4>1, NoticesStay DEF NoticesDue
    <3>3. CASE t # s /\ save[t].stage # "saved"
      BY <1>5, <3>3 DEF NoticesDue
    <3>. QED
      BY <3>1, <3>2, <3>3
  <2>. QED
    BY <2>1, <2>2 DEF ForumIInv, HeardFit
<1>15. WalkIInv'
  <2>1. \A t \in Save : save'[t].at = save[t].at
    BY <1>4, <1>5 DEF w
  <2>. QED
    BY <1>2, <2>1, WalksStay DEF WalkIInv
<1>. QED
  BY <1>11, <1>12, <1>13, <1>14, <1>15 DEF ForumIInv, HeardFit

\* A post or a comment commits: its rows and its notices are new.
LEMMA InsertCommits ==
  ASSUME ForumConstantsOK, ForumIInv, WalkIInv, NEW s \in Save, CommitInsert(s)
  PROVE  ForumIInv' /\ WalkIInv'
<1>. DEFINE w == save[s]
            q == [w EXCEPT !.stage = "saved"]
            fresh == NoticesOf(s)
            refs == [note : fresh, read : {FALSE}]
<1>1. /\ w \in SaveRequest /\ SaveFits(s, w) /\ joins \subseteq JoinRow
      /\ save \in [Save -> SaveRequest] /\ content \in [Save -> Save \cup {NULL}]
  BY DEF ForumIInv, ForumTypeOK
<1>2. /\ w.stage = "noticed" /\ save' = [save EXCEPT ![s] = q] /\ inbox' = inbox \cup refs
      /\ UNCHANGED <<gone, walk, clock>>
      /\ IF w.kind = "post" THEN content' = [content EXCEPT ![s] = s] /\ joins' = joins \cup FreshRows(s, s)
         ELSE UNCHANGED <<content, joins>>
  BY <1>1 DEF CommitInsert
<1>3. w.kind \in {"post", "comment"} /\ ~Posted(s) /\ RowsOf(s) = {}
  BY <1>1, <1>2 DEF SaveFits, ForumIInv, PostedSaved, RowsFit
<1>4. q \in SaveRequest /\ q.stage = "saved" /\ q.kind = w.kind /\ q.by = w.by /\ q.post = w.post
      /\ q.mentions = w.mentions /\ q.at = w.at
  BY <1>1, <1>3 DEF SaveRequest
<1>5. /\ fresh \subseteq Notice /\ \A n \in fresh : n.of = s
      /\ IsFiniteSet(fresh)
  BY <1>2, <1>3, NoticesOfSave
<1>6. /\ refs \subseteq [note : Notice, read : BOOLEAN] /\ {k.note : k \in refs} = fresh /\ IsFiniteSet(refs)
  <2>1. refs \subseteq [note : Notice, read : BOOLEAN]
    BY <1>5
  <2>2. {k.note : k \in refs} = fresh
    <3>1. ASSUME NEW n \in fresh PROVE \E k \in refs : k.note = n
      <4>1. [note |-> n, read |-> FALSE] \in refs
        OBVIOUS
      <4>. QED
        BY <4>1
    <3>2. \A k \in refs : k.note \in fresh
      OBVIOUS
    <3>. HIDE DEF refs, fresh
    <3>. QED
      BY <3>1, <3>2
  <2>3. IsFiniteSet(refs)
    <3>. DEFINE f == [n \in fresh |-> [note |-> n, read |-> FALSE]]
    <3>1. refs = {f[n] : n \in fresh}
      <4>1. \A n \in fresh : f[n] = [note |-> n, read |-> FALSE] /\ f[n] \in refs
        OBVIOUS
      <4>2. ASSUME NEW k \in refs PROVE k.note \in fresh /\ k = [note |-> k.note, read |-> FALSE]
        BY <4>2
      <4>. HIDE DEF f, refs, fresh
      <4>3. \A k \in refs : k.note \in fresh /\ k = f[k.note]
        BY <4>1, <4>2
      <4>. QED
        BY <4>1, <4>3
    <3>. HIDE DEF f, refs, fresh
    <3>. QED
      BY <1>5, <3>1, FiniteImage
  <2>. QED
    BY <2>1, <2>2, <2>3
<1>. HIDE DEF w, q, refs, fresh
<1>7. save' \in [Save -> SaveRequest] /\ save'[s] = q /\ \A t \in Save \ {s} : save'[t] = save[t]
  BY <1>1, <1>2, <1>4
<1>8. /\ content' \in [Save -> Save \cup {NULL}] /\ \A o \in Save \ {s} : content'[o] = content[o]
      /\ content'[s] = IF w.kind = "post" THEN s ELSE content[s]
  BY <1>1, <1>2
<1>9. /\ \A o \in Save \ {s} : Posted(o)' <=> Posted(o)
      /\ Posted(s)' <=> w.kind = "post"
  BY <1>3, <1>8 DEF Posted, ForumConstantsOK
<1>10. FreshRows(s, s) \subseteq JoinRow /\ \A j \in FreshRows(s, s) : j.post = s
  BY DEF FreshRows, JoinRow
<1>11. /\ RowsOf(s)' = IF w.kind = "post" THEN FreshRows(s, s) ELSE {}
       /\ \A o \in Save \ {s} : RowsOf(o)' = RowsOf(o)
  <2>1. \A o : RowsOf(o)' = {j \in joins' : j.post = o}
    BY DEF RowsOf
  <2>2. \A o : RowsOf(o) = {j \in joins : j.post = o}
    BY DEF RowsOf
  <2>. QED
    BY <1>2, <1>3, <1>10, <2>1, <2>2
<1>12. ForumTypeOK'
  BY <1>1, <1>2, <1>6, <1>7, <1>8, <1>10 DEF ForumIInv, ForumTypeOK
<1>13. RowsFit' /\ PostedSaved' /\ OneEditor'
  <2>1. RowsFit'
    BY <1>8, <1>9, <1>11 DEF ForumIInv, RowsFit, FreshRows
  <2>2. PostedSaved'
    BY <1>4, <1>7, <1>9 DEF ForumIInv, PostedSaved
  <2>3. OneEditor'
    BY <1>4, <1>7 DEF ForumIInv, OneEditor
  <2>. QED
    BY <2>1, <2>2, <2>3
<1>14. ASSUME NEW t \in Save PROVE SaveFits(t, save[t])' /\ EditFits(save[t])'
  <2>1. \A o \in Save : Posted(o) => Posted(o)'
    BY <1>3, <1>9
  <2>2. CASE t = s
    BY <1>1, <1>2, <1>3, <1>4, <1>7, <2>1, <2>2 DEF SaveFits, EditFits
  <2>3. CASE t # s
    <3>1. save'[t] = save[t] /\ SaveFits(t, save[t]) /\ EditFits(save[t])
      BY <1>7, <2>3 DEF ForumIInv
    <3>2. SaveFits(t, save[t])'
      BY <2>1, <3>1 DEF SaveFits
    <3>3. save[t].stage = "editing" => save[t].post \in Save \ {s}
      BY <1>3, <3>1 DEF SaveFits
    <3>4. EditFits(save[t])'
      BY <1>11, <3>1, <3>3 DEF EditFits
    <3>. QED
      BY <3>2, <3>4
  <2>. QED
    BY <2>2, <2>3
<1>15. \A o \in Save : save'[o].by = save[o].by
  BY <1>4, <1>7 DEF w
<1>16. ASSUME NEW t \in Save PROVE (HeardOf(t) = NoticesDue(t))'
  <2>1. HeardOf(t) = NoticesDue(t)
    BY DEF ForumIInv, HeardFit
  <2>2. HeardOf(t)' = HeardOf(t) \cup {n \in fresh : n.of = t}
    <3>1. {k.note : k \in inbox'} = {k.note : k \in inbox} \cup fresh
      BY <1>2, <1>6
    <3>. QED
      BY <1>2, <3>1 DEF HeardOf
  <2>3. CASE t = s
    <3>1. NoticesOf(s)' = fresh
      BY <1>2, <1>4, <1>7, <1>15, NoticesStay DEF w, fresh
    <3>2. NoticesDue(s)' = fresh /\ NoticesDue(s) = {}
      BY <1>2, <1>3, <1>4, <1>7, <3>1 DEF NoticesDue, w
    <3>. QED
      BY <1>5, <2>1, <2>2, <2>3, <3>2
  <2>4. CASE t # s
    <3>1. NoticesDue(t)' = NoticesDue(t)
      <4>1. CASE save[t].stage = "saved"
        BY <1>7, <1>15, <2>4, <4>1, NoticesStay DEF NoticesDue
      <4>2. CASE save[t].stage # "saved"
        BY <1>7, <2>4, <4>2 DEF NoticesDue
      <4>. QED
        BY <4>1, <4>2
    <3>. QED
      BY <1>5, <2>1, <2>2, <2>4, <3>1
  <2>. QED
    BY <2>3, <2>4
<1>17. WalkIInv'
  <2>1. \A t \in Save : save'[t].at = save[t].at
    BY <1>4, <1>7 DEF w
  <2>2. IsFiniteSet(inbox')
    BY <1>2, <1>6, FS_Union DEF WalkIInv
  <2>. QED
    BY <1>2, <2>1, <2>2, WalksStay
<1>. QED
  BY <1>12, <1>13, <1>14, <1>16, <1>17 DEF ForumIInv, HeardFit

\* What a member does to the notifications: none is forgotten, and no list owes more than it lists.
LEMMA InboxActs ==
  ASSUME ForumConstantsOK, ForumIInv, UNCHANGED <<save, content, joins, clock>>, inbox' \subseteq [note : Notice, read : BOOLEAN],
         gone' \subseteq Notice, walk' \in [Member -> Walk], Heard' = Heard
  PROVE  ForumIInv' /\ \A n : At(n)' = At(n)
<1>1. \A p : /\ (Posted(p)' <=> Posted(p)) /\ RowsOf(p)' = RowsOf(p)
             /\ NoticesDue(p)' = NoticesDue(p) /\ HeardOf(p)' = HeardOf(p)
  BY DEF Posted, RowsOf, NoticesDue, NoticesOf, MentionNotices, ReplyNotice, AuthorOf,
         HeardOf, Heard
<1>2. \A s \in Save : SaveFits(s, save[s])' /\ EditFits(save[s])'
  BY <1>1 DEF ForumIInv, SaveFits, EditFits
<1>3. OneEditor' /\ PostedSaved' /\ HeardFit'
  BY <1>1 DEF ForumIInv, OneEditor, PostedSaved, HeardFit
<1>4. RowsFit'
  BY <1>1 DEF ForumIInv, RowsFit, FreshRows
<1>. QED
  BY <1>2, <1>3, <1>4 DEF ForumIInv, ForumTypeOK, At

\* A list that owes nothing beyond what it did, and may still show it, stays right.
LEMMA InboxWalks ==
  ASSUME ForumConstantsOK, ForumIInv, WalkIInv, IsFiniteSet(inbox'), Heard' = Heard,
         \A n : At(n)' = At(n),
         \A m \in Member : /\ walk'[m].on = walk[m].on /\ walk'[m].unread = walk[m].unread /\ walk'[m].cursor = walk[m].cursor
                           /\ walk'[m].seen = walk[m].seen /\ walk'[m].due \subseteq walk[m].due
                           /\ walk'[m].due \subseteq Listed(m, walk[m].unread)'
  PROVE  WalkIInv'
<1>1. ASSUME NEW m \in Member PROVE WalkFits(m)'
  <2>1. WalkFits(m)
    BY DEF WalkIInv
  <2>2. \A n \in walk'[m].due : ToCome(walk[m], n)
    BY <2>1 DEF WalkFits
  <2>3. \A n \in walk'[m].due : ToCome(walk'[m], n)
    BY <2>2 DEF ToCome
  <2>4. \A n \in walk'[m].due : ToCome(walk[m], n)'
    BY <2>3 DEF ToCome
  <2>. QED
    BY <2>1, <2>4 DEF WalkFits
<1>. QED
  BY <1>1 DEF WalkIInv

\* A notification is read: its row goes and one that is read comes, and a list of the unread
\* ones owes it no more.
LEMMA InboxRead ==
  ASSUME ForumConstantsOK, ForumIInv, WalkIInv, NEW n \in inbox, StampRead(n)
  PROVE  ForumIInv' /\ WalkIInv'
<1>1. /\ inbox' = (inbox \ {n}) \cup {[note |-> n.note, read |-> TRUE]} /\ UNCHANGED <<save, content, joins, gone, clock>>
      /\ walk' = [m \in Member |-> IF walk[m].unread THEN [walk[m] EXCEPT !.due = walk[m].due \ {n.note}] ELSE walk[m]]
  BY DEF StampRead
<1>2. n.note \in Notice /\ inbox \subseteq [note : Notice, read : BOOLEAN] /\ gone \subseteq Notice
  BY DEF ForumIInv, ForumTypeOK
<1>3. inbox' \subseteq [note : Notice, read : BOOLEAN] /\ IsFiniteSet(inbox')
  <2>1. IsFiniteSet(inbox \ {n})
    BY FS_RemoveElement DEF WalkIInv
  <2>2. IsFiniteSet(inbox')
    BY <1>1, <2>1, FS_AddElement
  <2>3. [note |-> n.note, read |-> TRUE] \in [note : Notice, read : BOOLEAN]
    BY <1>2
  <2>. QED
    BY <1>1, <1>2, <2>2, <2>3
<1>4. PICK r : r.note = n.note /\ r.read = TRUE /\ inbox' = (inbox \ {n}) \cup {r}
  BY <1>1
<1>5. Heard' = Heard
  BY <1>1, <1>4 DEF Heard
<1>6. ASSUME NEW m \in Member
      PROVE  /\ walk'[m] \in Walk /\ walk'[m].on = walk[m].on /\ walk'[m].unread = walk[m].unread
             /\ walk'[m].cursor = walk[m].cursor /\ walk'[m].seen = walk[m].seen
             /\ walk'[m].due = IF walk[m].unread THEN walk[m].due \ {n.note} ELSE walk[m].due
  <2>1. walk[m] \in Walk /\ walk[m].due \ {n.note} \in SUBSET Notice
    BY DEF ForumIInv, ForumTypeOK, Walk
  <2>2. walk'[m] = IF walk[m].unread THEN [walk[m] EXCEPT !.due = walk[m].due \ {n.note}] ELSE walk[m]
    BY <1>1
  <2>. QED
    BY <2>1, <2>2 DEF Walk
<1>7. ASSUME NEW m \in Member PROVE walk'[m].due \subseteq Listed(m, walk[m].unread)'
  <2>1. walk[m].due \subseteq Listed(m, walk[m].unread)
    BY DEF WalkIInv, WalkFits
  <2>2. ASSUME NEW x \in walk'[m].due PROVE \E k \in inbox' : k.note = x /\ k.note.to = m /\ ~(walk[m].unread /\ k.read)
    <3>0. x \in walk[m].due
      BY <1>6, <2>2
    <3>1. PICK k \in inbox : k.note = x /\ k.note.to = m /\ ~(walk[m].unread /\ k.read)
      BY <2>1, <3>0 DEF Listed, Mine
    <3>2. CASE k = n
      BY <1>4, <1>6, <3>1, <3>2
    <3>3. CASE k # n
      BY <1>4, <3>1, <3>3
    <3>. QED
      BY <3>2, <3>3
  <2>. QED
    BY <1>6, <2>2 DEF Listed, Mine
<1>8. walk' \in [Member -> Walk]
  BY <1>1, <1>6
<1>9. ForumIInv' /\ \A x : At(x)' = At(x)
  BY <1>1, <1>2, <1>3, <1>5, <1>8, InboxActs
<1>. QED
  BY <1>3, <1>5, <1>6, <1>7, <1>9, InboxWalks

\* Notifications are dropped, and every list drops them from what it owes.
LEMMA InboxDrop ==
  ASSUME ForumConstantsOK, ForumIInv, WalkIInv, NEW refs \in SUBSET inbox, RemoveNotices(refs)
  PROVE  ForumIInv' /\ WalkIInv'
<1>. DEFINE notes == {n.note : n \in refs}
<1>1. /\ inbox' = inbox \ refs /\ gone' = gone \cup notes /\ UNCHANGED <<save, content, joins, clock>>
      /\ walk' = [m \in Member |-> [walk[m] EXCEPT !.due = walk[m].due \ notes]]
  BY DEF RemoveNotices, Forget
<1>2. inbox \subseteq [note : Notice, read : BOOLEAN] /\ gone \subseteq Notice
  BY DEF ForumIInv, ForumTypeOK
<1>3. /\ inbox' \subseteq [note : Notice, read : BOOLEAN] /\ gone' \subseteq Notice /\ IsFiniteSet(inbox')
      /\ Heard' = Heard
  <2>1. IsFiniteSet(inbox')
    BY <1>1, FS_Subset DEF WalkIInv
  <2>2. Heard' = Heard
    BY <1>1 DEF Heard
  <2>. QED
    BY <1>1, <1>2, <2>1, <2>2
<1>. HIDE DEF notes
<1>4. ASSUME NEW m \in Member
      PROVE  /\ walk'[m] \in Walk /\ walk'[m].on = walk[m].on /\ walk'[m].unread = walk[m].unread
             /\ walk'[m].cursor = walk[m].cursor /\ walk'[m].seen = walk[m].seen
             /\ walk'[m].due = walk[m].due \ notes
  <2>1. walk[m] \in Walk /\ walk[m].due \ notes \in SUBSET Notice
    BY DEF ForumIInv, ForumTypeOK, Walk
  <2>2. walk'[m] = [walk[m] EXCEPT !.due = walk[m].due \ notes]
    BY <1>1
  <2>. QED
    BY <2>1, <2>2 DEF Walk
<1>5. ASSUME NEW m \in Member PROVE walk'[m].due \subseteq Listed(m, walk[m].unread)'
  <2>1. walk[m].due \subseteq Listed(m, walk[m].unread)
    BY DEF WalkIInv, WalkFits
  <2>2. ASSUME NEW x \in walk'[m].due PROVE \E k \in inbox' : k.note = x /\ k.note.to = m /\ ~(walk[m].unread /\ k.read)
    BY <1>1, <1>4, <2>1 DEF Listed, Mine, notes
  <2>. QED
    BY <1>4, <2>2 DEF Listed, Mine
<1>6. walk' \in [Member -> Walk]
  BY <1>1, <1>4
<1>7. ForumIInv' /\ \A x : At(x)' = At(x)
  BY <1>1, <1>3, <1>6, InboxActs
<1>. QED
  BY <1>3, <1>4, <1>5, <1>7, InboxWalks

\* A list begins or goes on: nothing but the lists changes.
LEMMA ListsAct ==
  ASSUME ForumConstantsOK, ForumIInv, WalkIInv, UNCHANGED <<save, content, joins, inbox, gone, clock>>, walk' \in [Member -> Walk],
         \A m \in Member :
           /\ walk'[m].seen \subseteq Heard /\ walk'[m].due \subseteq Listed(m, walk'[m].unread)
           /\ \A n \in walk'[m].due : ToCome(walk'[m], n)
  PROVE  ForumIInv' /\ WalkIInv'
<1>1. Heard' = Heard /\ inbox \subseteq [note : Notice, read : BOOLEAN] /\ gone \subseteq Notice
  BY DEF Heard, ForumIInv, ForumTypeOK
<1>2. ForumIInv' /\ \A n : At(n)' = At(n)
  BY <1>1, InboxActs
<1>3. ASSUME NEW m \in Member PROVE WalkFits(m)'
  <2>1. \A n \in walk'[m].due : ToCome(walk[m], n)'
    BY <1>2 DEF ToCome
  <2>2. walk'[m].due \subseteq Listed(m, walk[m].unread)'
    BY DEF Listed, Mine
  <2>. QED
    BY <1>1, <2>1, <2>2 DEF WalkFits
<1>. QED
  BY <1>2, <1>3 DEF WalkIInv

\* A list that begins is before everything it owes.
LEMMA ListBegins ==
  ASSUME ForumConstantsOK, ForumIInv, WalkIInv, NEW m, NEW u \in BOOLEAN, StartWalk(m, u)
  PROVE  ForumIInv' /\ WalkIInv'
<1>. DEFINE w == [on |-> TRUE, unread |-> u, cursor |-> LastTime + 1, seen |-> {}, due |-> Listed(m, u)]
<1>1. walk' = [walk EXCEPT ![m] = w] /\ UNCHANGED <<save, content, joins, inbox, gone, clock>> /\ walk \in [Member -> Walk]
  BY DEF StartWalk, ForumIInv, ForumTypeOK
<1>2. Listed(m, u) \subseteq Heard
  BY DEF Heard, Listed, Mine
<1>3. \A n \in Heard : n \in Notice /\ At(n) \in 0..LastTime
  BY HeardSaved
<1>4. LastTime \in Nat
  BY DEF ForumConstantsOK
<1>5. w \in Walk
  BY <1>2, <1>3, <1>4 DEF Walk
<1>6. \A n \in w.due : ToCome(w, n)
  BY <1>2, <1>3, <1>4 DEF ToCome
<1>7. w.seen = {} /\ w.due = Listed(m, w.unread)
  OBVIOUS
<1>. HIDE DEF w
<1>8. ASSUME NEW x \in Member
      PROVE  /\ walk'[x] \in Walk /\ walk'[x].seen \subseteq Heard
             /\ walk'[x].due \subseteq Listed(x, walk'[x].unread) /\ \A n \in walk'[x].due : ToCome(walk'[x], n)
  <2>1. CASE x = m
    BY <1>1, <1>5, <1>6, <1>7, <2>1
  <2>2. CASE x # m
    BY <1>1, <2>2 DEF WalkIInv, WalkFits
  <2>. QED
    BY <2>1, <2>2
<1>9. walk' \in [Member -> Walk]
  BY <1>1, <1>8
<1>. QED
  BY <1>1, <1>8, <1>9, ListsAct

\* A page of a list shows what the list owes, or leaves it before the cursor: what is as old as
\* its last row is told by that row, and a list that ends has shown all it had.
LEMMA PageListed ==
  ASSUME ForumConstantsOK, ForumIInv, WalkIInv, NEW m, ListPage(m)
  PROVE  ForumIInv' /\ WalkIInv'
<1>. DEFINE w == walk[m]
            refs == Before(m)
<1>1. PICK page \in SUBSET refs :
        /\ Newest(refs, page)
        /\ walk' = [walk EXCEPT ![m].on = MoreAfter(refs), ![m].seen = w.seen \cup page,
             ![m].cursor = IF page = {} THEN w.cursor
                           ELSE CHOOSE t \in {At(n) : n \in page} : \A n \in page : t <= At(n)]
  BY DEF ListPage
<1>2. UNCHANGED <<save, content, joins, inbox, gone, clock>> /\ walk \in [Member -> Walk] /\ w.on
  BY DEF ListPage, ForumIInv, ForumTypeOK
<1>3. CASE m \notin Member
  <2>1. walk' = walk
    BY <1>1, <1>2, <1>3
  <2>. QED
    BY <1>2, <2>1, ListsAct DEF WalkIInv, WalkFits
<1>4. CASE m \in Member
  <2>1. /\ w \in Walk /\ w.seen \subseteq Heard /\ w.due \subseteq Listed(m, w.unread)
        /\ \A n \in w.due : ToCome(w, n)
    BY <1>2, <1>4 DEF WalkIInv, WalkFits
  <2>2. refs \subseteq Listed(m, w.unread) /\ Listed(m, w.unread) \subseteq Heard
    BY DEF Before, Listed, Mine, Heard
  <2>3. \A n \in Heard : n \in Notice /\ At(n) \in 0..LastTime
    BY HeardSaved
  <2>4. LastTime \in Nat /\ NoticePage \in Nat \ {0}
    BY DEF ForumConstantsOK
  <2>5. PICK more : more = MoreAfter(refs)
    OBVIOUS
  <2>6. PICK c : c = IF page = {} THEN w.cursor
                     ELSE CHOOSE t \in {At(n) : n \in page} : \A n \in page : t <= At(n)
    OBVIOUS
  <2>7. page # {} => (\E k \in page : c = At(k)) /\ \A n \in page : c <= At(n)
    <3>. SUFFICES ASSUME page # {} PROVE (\E k \in page : c = At(k)) /\ \A n \in page : c <= At(n)
      OBVIOUS
    <3>. DEFINE times == {At(n) : n \in page}
    <3>1. times \subseteq Nat /\ times # {}
      BY <1>1, <2>2, <2>3, <2>4
    <3>2. c = CHOOSE t \in times : \A n \in page : t <= At(n)
      BY <2>6
    <3>3. (\A n \in page : At(n) \in times) /\ \A t \in times : \E k \in page : t = At(k)
      OBVIOUS
    <3>. HIDE DEF times
    <3>4. PICK t \in times : \A x \in times : ~(<<x, t>> \in OpToRel(<, Nat))
      BY <3>1, NatLessThanWellFounded, WFMin
    <3>5. ASSUME NEW n \in page PROVE t <= At(n)
      <4>1. PICK a \in times : a = At(n)
        BY <3>3
      <4>2. a \in Nat /\ t \in Nat
        BY <3>1, <3>4
      <4>3. ~(a < t)
        BY <3>4, <4>2 DEF OpToRel
      <4>4. t <= a
        BY <4>2, <4>3
      <4>. QED
        BY <4>1, <4>4
    <3>6. c \in times /\ \A n \in page : c <= At(n)
      BY <3>2, <3>4, <3>5
    <3>. QED
      BY <3>3, <3>6
  <2>8. c \in 0..LastTime + 1
    BY <1>1, <2>1, <2>2, <2>3, <2>4, <2>6, <2>7 DEF Walk
  <2>9. more \in BOOLEAN
    BY <2>5 DEF MoreAfter
  <2>10. IsFiniteSet(refs)
    <3>. DEFINE f == [k \in inbox |-> k.note]
    <3>1. IsFiniteSet({f[k] : k \in inbox})
      BY FiniteImage DEF WalkIInv
    <3>2. refs \subseteq {f[k] : k \in inbox}
      BY DEF Before, Listed, Mine
    <3>. QED
      BY <3>1, <3>2, FS_Subset
  <2>11. more => page # {}
    <3>1. page = {} => Cardinality(page) = 0
      BY FS_EmptySet
    <3>2. more => Cardinality(page) = NoticePage
      BY <1>1, <2>5 DEF Newest, MoreAfter, Cardinality
    <3>. QED
      BY <2>4, <3>1, <3>2
  <2>12. ~more => page = refs
    <3>1. ~more => Cardinality(page) = Cardinality(refs)
      BY <1>1, <2>5 DEF Newest, MoreAfter, Cardinality
    <3>. QED
      BY <2>10, <3>1, FS_Subset
  <2>13. /\ walk'[m].on = more /\ walk'[m].seen = w.seen \cup page /\ walk'[m].cursor = c
         /\ walk'[m].unread = w.unread /\ walk'[m].due = w.due /\ walk'[m] \in Walk
    <3>1. walk'[m] = [[[w EXCEPT !.on = more] EXCEPT !.seen = w.seen \cup page] EXCEPT !.cursor = c]
      BY <1>1, <1>2, <1>4, <2>5, <2>6 DEF Walk
    <3>2. w.seen \cup page \subseteq Notice
      BY <1>1, <2>1, <2>2, <2>3
    <3>. QED
      BY <2>1, <2>8, <2>9, <3>1, <3>2 DEF Walk
  <2>14. ASSUME NEW n \in w.due PROVE ToCome(walk'[m], n)
    <3>1. CASE n \in w.seen \/ \E k \in w.seen : At(k) = At(n)
      BY <2>13, <3>1 DEF ToCome
    <3>2. CASE At(n) < w.cursor
      <4>1. n \in refs
        BY <2>1, <3>2 DEF Before
      <4>2. CASE n \in page
        BY <2>13, <4>2 DEF ToCome
      <4>3. CASE n \notin page
        <5>1. more /\ \E k \in page : c = At(k) /\ At(k) >= At(n)
          BY <1>1, <2>7, <2>11, <2>12, <4>1, <4>3 DEF Newest
        <5>2. c = At(n) \/ At(n) < c
          BY <1>1, <2>2, <2>3, <2>4, <4>1, <5>1
        <5>. QED
          BY <2>13, <5>1, <5>2 DEF ToCome
      <4>. QED
        BY <4>2, <4>3
    <3>. QED
      BY <2>1, <3>1, <3>2 DEF ToCome
  <2>15. ASSUME NEW x \in Member
         PROVE  /\ walk'[x] \in Walk /\ walk'[x].seen \subseteq Heard
                /\ walk'[x].due \subseteq Listed(x, walk'[x].unread) /\ \A n \in walk'[x].due : ToCome(walk'[x], n)
    <3>1. CASE x = m
      BY <1>1, <2>1, <2>2, <2>13, <2>14, <3>1
    <3>2. CASE x # m
      <4>1. walk'[x] = walk[x]
        BY <1>1, <1>2, <3>2
      <4>. QED
        BY <1>2, <4>1 DEF WalkIInv, WalkFits
    <3>. QED
      BY <3>1, <3>2
  <2>16. walk' \in [Member -> Walk]
    BY <1>1, <1>2, <2>15
  <2>. QED
    BY <1>2, <2>15, <2>16, ListsAct
<1>. QED
  BY <1>3, <1>4

\* Whatever a member does in the lists.
LEMMA InboxGoes ==
  ASSUME ForumConstantsOK, ForumIInv, WalkIInv, NEW m, InboxNext(m)
  PROVE  ForumIInv' /\ WalkIInv'
<1>1. CASE \E n \in Mine(m) : MarkRead(n)
  BY <1>1, InboxRead DEF MarkRead
<1>2. CASE \E n \in Mine(m) : DeleteOne(n)
  <2>1. PICK n \in inbox : RemoveNotices({n})
    BY <1>2 DEF DeleteOne, Mine
  <2>2. {n} \in SUBSET inbox
    OBVIOUS
  <2>. QED
    BY <2>1, <2>2, InboxDrop
<1>3. CASE ClearAll(m)
  <2>1. Mine(m) \in SUBSET inbox
    BY DEF Mine
  <2>. QED
    BY <1>3, <2>1, InboxDrop DEF ClearAll
<1>4. CASE ListPage(m)
  BY <1>4, PageListed
<1>5. CASE \E u \in BOOLEAN : StartWalk(m, u)
  BY <1>5, ListBegins
<1>. QED
  BY <1>1, <1>2, <1>3, <1>4, <1>5 DEF InboxNext

\* Nothing is lost by a moment that passes, or when nothing happens.
LEMMA ForumWaits ==
  ASSUME ForumConstantsOK, ForumIInv, WalkIInv, UNCHANGED <<save, content, joins, inbox, gone, walk>>, clock' \in 0..LastTime
  PROVE  ForumIInv' /\ WalkIInv'
<1>1. \A p : /\ (Posted(p)' <=> Posted(p)) /\ RowsOf(p)' = RowsOf(p)
             /\ NoticesDue(p)' = NoticesDue(p) /\ HeardOf(p)' = HeardOf(p)
  BY DEF Posted, RowsOf, NoticesDue, NoticesOf, MentionNotices, ReplyNotice, AuthorOf,
         HeardOf, Heard
<1>2. \A s \in Save : SaveFits(s, save[s])' /\ EditFits(save[s])'
  BY <1>1 DEF ForumIInv, SaveFits, EditFits
<1>3. OneEditor' /\ PostedSaved' /\ HeardFit'
  BY <1>1 DEF ForumIInv, OneEditor, PostedSaved, HeardFit
<1>4. RowsFit'
  BY <1>1 DEF ForumIInv, RowsFit, FreshRows
<1>5. ForumIInv'
  BY <1>2, <1>3, <1>4 DEF ForumIInv, ForumTypeOK
<1>6. IsFiniteSet(inbox') /\ inbox \subseteq inbox' /\ gone \subseteq gone'
  BY DEF WalkIInv
<1>. QED
  BY <1>5, <1>6, WalksStay

\* At first nobody has posted or heard anything.
LEMMA ForumBegins ==
  ASSUME ForumConstantsOK, ForumInit PROVE ForumIInv /\ WalkIInv
<1>1. LastTime \in Nat /\ NULL \notin Save
  BY DEF ForumConstantsOK
<1>2. /\ save = [s \in Save |-> NoSave] /\ content = [s \in Save |-> NULL] /\ joins = {} /\ inbox = {} /\ gone = {}
      /\ walk = [m \in Member |-> NoWalk] /\ clock = 0
  BY DEF ForumInit
<1>3. NoSave \in SaveRequest /\ NoWalk \in Walk
  BY <1>1 DEF NoSave, SaveRequest, NoWalk, Walk
<1>4. NoSave.stage = "idle" /\ NoWalk.seen = {} /\ NoWalk.due = {}
  BY DEF NoSave, NoWalk
<1>5. ForumTypeOK
  BY <1>1, <1>2, <1>3 DEF ForumTypeOK
<1>6. \A s \in Save : save[s].stage = "idle" /\ ~Posted(s) /\ RowsOf(s) = {} /\ HeardOf(s) = {}
  BY <1>2, <1>4 DEF Posted, RowsOf, HeardOf
<1>7. ForumIInv
  BY <1>5, <1>6 DEF ForumIInv, SaveFits, EditFits, OneEditor, PostedSaved, RowsFit, HeardFit, NoticesDue
<1>8. WalkIInv
  BY <1>2, <1>4, FS_EmptySet DEF WalkIInv, WalkFits
<1>. QED
  BY <1>7, <1>8

\* Every step of the forum, whoever the member of a list is.
LEMMA ForumGoes ==
  ASSUME ForumConstantsOK, ForumIInv, WalkIInv,
         [ForumNext]_forumVars \/ \E m : InboxNext(m)
  PROVE  ForumIInv' /\ WalkIInv'
<1>1. CASE UNCHANGED forumVars
  BY <1>1, ForumWaits DEF ForumIInv, ForumTypeOK, forumVars
<1>2. CASE ForumTick
  <2>1. clock' \in 0..LastTime
    BY <1>2 DEF ForumTick, ForumIInv, ForumTypeOK, ForumConstantsOK
  <2>. QED
    BY <1>2, <2>1, ForumWaits DEF ForumTick
<1>3. CASE \E m : InboxNext(m)
  BY <1>3, InboxGoes
<1>4. ASSUME NEW s \in Save, SaveNext(s) PROVE ForumIInv' /\ WalkIInv'
  <2>1. CASE CommitInsert(s)
    BY <2>1, InsertCommits
  <2>2. CASE CommitEdit(s)
    BY <2>2, EditCommits
  <2>3. CASE ~CommitInsert(s) /\ ~CommitEdit(s)
    <3>1. SaveGoes(s)
      BY <1>4, <2>3, SaveBefore DEF SaveNext
    <3>. QED
      BY <3>1, SaveOn
  <2>. QED
    BY <2>1, <2>2, <2>3
<1>. QED
  BY <1>1, <1>2, <1>3, <1>4 DEF ForumNext

\* What is stored of posts, edits, comments and notifications belongs together.
LEMMA ForumFits ==
  ASSUME ForumConstantsOK, ForumIInv PROVE ForumInv
<1>1. PostIsOneSave
  BY DEF ForumIInv, RowsFit, PostIsOneSave
<1>2. NoticesFit
  <2>. SUFFICES ASSUME NEW s \in Save
                PROVE  /\ {n.to : n \in HeardOf(s)} =
                            IF save[s].stage = "saved" /\ save[s].kind # "edit" THEN Concerned(s) ELSE {}
                       /\ \A n, k \in HeardOf(s) : n.to = k.to => n = k
    BY DEF NoticesFit
  <2>1. HeardOf(s) = NoticesDue(s)
    BY DEF ForumIInv, HeardFit
  <2>2. CASE save[s].stage = "saved" /\ save[s].kind # "edit"
    <3>1. NoticesDue(s) = NoticesOf(s) /\ save[s].stage # "idle"
      BY <2>2 DEF NoticesDue
    <3>. QED
      BY <2>1, <2>2, <3>1, NoticesOfSave
  <2>3. CASE ~(save[s].stage = "saved" /\ save[s].kind # "edit")
    BY <2>1, <2>3 DEF NoticesDue
  <2>. QED
    BY <2>2, <2>3
<1>. QED
  BY <1>1, <1>2 DEF ForumIInv, ForumInv

\* What a list owes at its end it has shown.
LEMMA WalksFit ==
  ASSUME ForumConstantsOK, WalkIInv PROVE WalkComplete
<1>. QED
  BY DEF WalkIInv, WalkFits, ToCome, WalkComplete

\* Every post is the work of one save, title and references alike, and everyone a post or a
\* comment concerns has heard of it exactly once, whatever saves and edits overlap; a list of
\* notifications that has come to its end has shown all that was there throughout, but for
\* those of the same millisecond as one it has shown.
THEOREM PostsAndListsKept ==
  ASSUME ForumConstantsOK
  PROVE  ForumInit /\ [][ForumNext]_forumVars => [](ForumInv /\ WalkComplete)
<1>. DEFINE J == ForumIInv /\ WalkIInv
<1>1. ForumInit => J
  BY ForumBegins
<1>2. J /\ [ForumNext]_forumVars => J'
  BY ForumGoes
<1>3. J => ForumInv /\ WalkComplete
  BY ForumFits, WalksFit
<1>. QED
  BY <1>1, <1>2, <1>3, PTL

-----------------------------------------------------------------------------
(* The drafts.                                                             *)

HeldIsLive == \A r \in DraftCall :
  /\ dcall[r].kind = "update" /\ dcall[r].at # "idle" => dcall[r].draft \in Draft
  /\ dcall[r].at = "held" => dcall[r].kind = "update" /\ drafts[dcall[r].draft].at = "live"
OneHolder == \A r, o \in DraftCall :
  dcall[r].at = "held" /\ dcall[o].at = "held" /\ dcall[r].draft = dcall[o].draft => r = o
DraftIInv == DraftTypeOK /\ HeldIsLive /\ OneHolder

\* The functions of the composer's state keep its type.
LEMMA ComposerFits ==
  ASSUME DraftConstantsOK, NEW s \in ComposerState
  PROVE  /\ Rearmed(s) \in ComposerState /\ Settled(s) \in ComposerState
         /\ \A f \in Flags : [s EXCEPT !.now = f] \in ComposerState
         /\ \A b \in BOOLEAN : /\ [s EXCEPT !.timer = b] \in ComposerState
                               /\ [s EXCEPT !.created = b] \in ComposerState
         /\ \A t \in Text : /\ [s EXCEPT !.text = t] \in ComposerState
                            /\ [s EXCEPT !.saved = t] \in ComposerState
         /\ \A b \in BOOLEAN : /\ [s EXCEPT !.now.saving = b] \in ComposerState
                               /\ [s EXCEPT !.now.submitting = b] \in ComposerState
                               /\ [s EXCEPT !.now.uploading = b] \in ComposerState
         /\ \A d \in DraftOrNull : [s EXCEPT !.now.draft = d] \in ComposerState
<1>1. /\ \A b \in BOOLEAN : /\ [s EXCEPT !.timer = b] \in ComposerState
                            /\ [s EXCEPT !.created = b] \in ComposerState
      /\ \A t \in Text : /\ [s EXCEPT !.text = t] \in ComposerState
                         /\ [s EXCEPT !.saved = t] \in ComposerState
      /\ \A f \in Flags : /\ [s EXCEPT !.now = f] \in ComposerState
                          /\ [s EXCEPT !.ref = f] \in ComposerState
  BY DEF ComposerState
<1>2. s.now \in Flags
  BY DEF ComposerState
<1>3. /\ \A b \in BOOLEAN : /\ [s.now EXCEPT !.saving = b] \in Flags
                            /\ [s.now EXCEPT !.submitting = b] \in Flags
                            /\ [s.now EXCEPT !.uploading = b] \in Flags
      /\ \A d \in DraftOrNull : [s.now EXCEPT !.draft = d] \in Flags
  BY <1>2 DEF Flags
<1>4. /\ \A b \in BOOLEAN : /\ [s EXCEPT !.now.saving = b] = [s EXCEPT !.now = [s.now EXCEPT !.saving = b]]
                            /\ [s EXCEPT !.now.submitting = b] = [s EXCEPT !.now = [s.now EXCEPT !.submitting = b]]
                            /\ [s EXCEPT !.now.uploading = b] = [s EXCEPT !.now = [s.now EXCEPT !.uploading = b]]
      /\ \A d \in DraftOrNull : [s EXCEPT !.now.draft = d] = [s EXCEPT !.now = [s.now EXCEPT !.draft = d]]
  OBVIOUS
<1>5. Rearmed(s) \in ComposerState /\ Settled(s) \in ComposerState
  BY <1>1, <1>2 DEF Rearmed, Settled
<1>. QED
  BY <1>1, <1>3, <1>4, <1>5

\* A composer that opens or closes, on a draft or on nothing.
LEMMA ComposerOpens ==
  ASSUME DraftConstantsOK
  PROVE  /\ BlankComposer \in ComposerState
         /\ [BlankComposer EXCEPT !.open = FALSE] \in ComposerState
         /\ \A d \in Draft, t \in Text :
              [BlankComposer EXCEPT !.text = t, !.saved = t, !.now.draft = d] \in ComposerState
<1>1. NoFlags \in Flags /\ 0 \in Text
  BY DEF DraftConstantsOK, NoFlags, Flags, Text, DraftOrNull
<1>2. BlankComposer \in ComposerState
  BY <1>1 DEF BlankComposer, ComposerState
<1>3. [BlankComposer EXCEPT !.open = FALSE] \in ComposerState
  BY <1>2 DEF ComposerState
<1>4. ASSUME NEW d \in Draft, NEW t \in Text
      PROVE  [BlankComposer EXCEPT !.text = t, !.saved = t, !.now.draft = d] \in ComposerState
  <2>. DEFINE b == [[BlankComposer EXCEPT !.text = t] EXCEPT !.saved = t]
  <2>1. b \in ComposerState
    BY <1>2, ComposerFits
  <2>2. [b EXCEPT !.now.draft = d] \in ComposerState
    BY <2>1, ComposerFits DEF DraftOrNull
  <2>3. [BlankComposer EXCEPT !.text = t, !.saved = t, !.now.draft = d] = [b EXCEPT !.now.draft = d]
    OBVIOUS
  <2>. QED
    BY <2>2, <2>3
<1>. QED
  BY <1>2, <1>3, <1>4

\* So do the changes to a request.
LEMMA CallFits ==
  ASSUME DraftConstantsOK, NEW q \in DraftRequest, NEW b \in BOOLEAN
  PROVE  /\ [q EXCEPT !.awaited = b] \in DraftRequest /\ [q EXCEPT !.awaited = b].at = q.at
         /\ [q EXCEPT !.awaited = b].kind = q.kind /\ [q EXCEPT !.awaited = b].draft = q.draft
         /\ [q EXCEPT !.at = "done", !.ok = b] \in DraftRequest
         /\ [q EXCEPT !.at = "done", !.ok = b].at = "done"
         /\ [q EXCEPT !.at = "done", !.ok = b].kind = q.kind /\ [q EXCEPT !.at = "done", !.ok = b].draft = q.draft
BY DEF DraftRequest

\* A request is made: it holds no row yet.
LEMMA DraftSend ==
  ASSUME DraftConstantsOK, DraftIInv, NEW c \in Composer, NEW r \in DraftCall, NEW d \in DraftOrNull,
         NEW kind \in {"create", "update", "publish"}, kind = "update" => d # NULL, Send(r, c, kind, d)
  PROVE  \E q \in DraftRequest :
           q.at = "sent" /\ (q.kind = "update" => q.draft \in Draft) /\ dcall' = [dcall EXCEPT ![r] = q]
<1>. DEFINE q == [at |-> "sent", kind |-> kind, by |-> c, draft |-> d, text |-> composer[c].text,
                  ok |-> FALSE, awaited |-> TRUE]
<1>1. composer[c].text \in Text
  BY DEF DraftIInv, DraftTypeOK, ComposerState
<1>2. q \in DraftRequest
  BY <1>1 DEF DraftRequest
<1>3. dcall' = [dcall EXCEPT ![r] = q] /\ (kind = "update" => d \in Draft)
  BY DEF Send, DraftOrNull
<1>. QED
  BY <1>2, <1>3

\* The table stays, and at most a request that holds no row is new.
LEMMA ComposerActs ==
  ASSUME DraftConstantsOK, DraftIInv, composer' \in [Composer -> ComposerState], drafts' = drafts, edits' \in Text,
         \/ dcall' = dcall
         \/ \E r \in DraftCall, q \in DraftRequest :
              q.at = "sent" /\ (q.kind = "update" => q.draft \in Draft) /\ dcall' = [dcall EXCEPT ![r] = q]
  PROVE  DraftIInv'
<1>1. CASE dcall' = dcall
  BY <1>1 DEF DraftIInv, DraftTypeOK, HeldIsLive, OneHolder
<1>2. ASSUME NEW r \in DraftCall, NEW q \in DraftRequest,
             q.at = "sent", q.kind = "update" => q.draft \in Draft, dcall' = [dcall EXCEPT ![r] = q]
      PROVE  DraftIInv'
  <2>1. dcall' \in [DraftCall -> DraftRequest] /\ dcall'[r] = q /\ \A o \in DraftCall \ {r} : dcall'[o] = dcall[o]
    BY <1>2 DEF DraftIInv, DraftTypeOK
  <2>. QED
    BY <1>2, <2>1 DEF DraftIInv, DraftTypeOK, HeldIsLive, OneHolder
<1>. QED
  BY <1>1, <1>2

\* What the composer does leaves the drafts alone.
LEMMA ComposerStep ==
  ASSUME DraftConstantsOK, DraftIInv, NEW c \in Composer, ComposerNext(c)
  PROVE  DraftIInv' /\ drafts' = drafts
<1>. DEFINE State == ComposerState
<1>1. /\ composer \in [Composer -> State] /\ composer[c] \in State /\ edits \in Text
      /\ \A s \in State : [composer EXCEPT ![c] = s] \in [Composer -> State]
      /\ composer[c].now \in Flags /\ composer[c].ref \in Flags
  BY DEF DraftIInv, DraftTypeOK, ComposerState
<1>2. composer[c].now.draft \in DraftOrNull /\ composer[c].ref.draft \in DraftOrNull
  BY <1>1 DEF Flags
<1>. HIDE DEF State
<1>3. CASE OpenBlank(c)
  BY <1>1, <1>3, ComposerOpens, ComposerActs DEF OpenBlank, State
<1>4. ASSUME NEW d \in Draft, OpenDraft(c, d) PROVE DraftIInv' /\ drafts' = drafts
  <2>. DEFINE s == [BlankComposer EXCEPT !.text = drafts[d].text, !.saved = drafts[d].text, !.now.draft = d]
  <2>1. drafts[d].text \in Text
    BY DEF DraftIInv, DraftTypeOK, DraftRow
  <2>2. s \in State
    BY <2>1, ComposerOpens DEF State
  <2>3. Settled(s) \in State
    BY <2>2, ComposerFits DEF State
  <2>4. composer' = [composer EXCEPT ![c] = Settled(s)] /\ UNCHANGED <<drafts, dcall, edits>>
    BY <1>4 DEF OpenDraft
  <2>. QED
    BY <1>1, <2>3, <2>4, ComposerActs DEF State
<1>5. CASE Edit(c)
  <2>. DEFINE s == [composer[c] EXCEPT !.text = edits + 1]
  <2>1. edits + 1 \in Text
    BY <1>1, <1>5 DEF Edit, Text, DraftConstantsOK
  <2>2. Settled(Rearmed(s)) \in State
    BY <1>1, <2>1, ComposerFits DEF State
  <2>3. composer' = [composer EXCEPT ![c] = Settled(Rearmed(s))] /\ UNCHANGED <<drafts, dcall>> /\ edits' = edits + 1
    BY <1>5 DEF Edit
  <2>. QED
    BY <1>1, <2>1, <2>2, <2>3, ComposerActs DEF State
<1>6. CASE StartUpload(c)
  <2>. DEFINE t == [composer[c] EXCEPT !.text = edits + 1]
              s == [t EXCEPT !.now.uploading = TRUE]
  <2>1. edits + 1 \in Text
    BY <1>1, <1>6 DEF StartUpload, Text, DraftConstantsOK
  <2>2. t \in State
    BY <1>1, <2>1, ComposerFits DEF State
  <2>3. s \in State
    BY <2>2, ComposerFits DEF State
  <2>4. Settled(Rearmed(s)) \in State
    BY <2>3, ComposerFits DEF State
  <2>5. composer' = [composer EXCEPT ![c] = Settled(Rearmed(s))] /\ UNCHANGED <<drafts, dcall>> /\ edits' = edits + 1
    BY <1>6 DEF StartUpload
  <2>. QED
    BY <1>1, <2>1, <2>4, <2>5, ComposerActs DEF State
<1>7. CASE EndUpload(c)
  <2>. DEFINE s == [composer[c] EXCEPT !.now.uploading = FALSE]
  <2>1. s \in State
    BY <1>1, ComposerFits DEF State
  <2>2. Rearmed(s) \in State
    BY <2>1, ComposerFits DEF State
  <2>3. composer' = [composer EXCEPT ![c] = Rearmed(s)] /\ UNCHANGED <<drafts, dcall, edits>>
    BY <1>7 DEF EndUpload
  <2>. QED
    BY <1>1, <2>2, <2>3, ComposerActs DEF State
<1>8. CASE Settle(c)
  BY <1>1, <1>8, ComposerFits, ComposerActs DEF Settle, State
<1>9. CASE TimerSwallowed(c)
  <2>1. composer' = [composer EXCEPT ![c] = [composer[c] EXCEPT !.timer = FALSE]] /\ UNCHANGED <<drafts, dcall, edits>>
    BY <1>9 DEF TimerSwallowed
  <2>. QED
    BY <1>1, <2>1, ComposerFits, ComposerActs DEF State
<1>10. CASE Unmount(c)
  <2>1. composer' \in [Composer -> State] /\ drafts' = drafts /\ edits' = edits
    BY <1>1, <1>10, ComposerOpens DEF Unmount, State
  <2>2. dcall' = [r \in DraftCall |-> [dcall[r] EXCEPT !.awaited = dcall[r].awaited /\ dcall[r].by # c]]
    BY <1>10 DEF Unmount
  <2>3. \A r \in DraftCall : dcall'[r] = [dcall[r] EXCEPT !.awaited = dcall[r].awaited /\ dcall[r].by # c]
    BY <2>2
  <2>4. ASSUME NEW r \in DraftCall
        PROVE  /\ dcall'[r] \in DraftRequest /\ dcall'[r].at = dcall[r].at
               /\ dcall'[r].kind = dcall[r].kind /\ dcall'[r].draft = dcall[r].draft
    <3>1. dcall[r] \in DraftRequest
      BY DEF DraftIInv, DraftTypeOK
    <3>2. PICK b \in BOOLEAN : dcall'[r] = [dcall[r] EXCEPT !.awaited = b]
      BY <2>3
    <3>. QED
      BY <3>1, <3>2 DEF DraftRequest
  <2>5. dcall' \in [DraftCall -> DraftRequest]
    BY <2>2, <2>3, <2>4
  <2>. QED
    BY <2>1, <2>4, <2>5 DEF DraftIInv, DraftTypeOK, HeldIsLive, OneHolder, State
<1>11. ASSUME NEW r \in DraftCall, TimerSaves(c, r) \/ SaveClicked(c, r) PROVE DraftIInv' /\ drafts' = drafts
  <2>. DEFINE kind == IF composer[c].ref.draft = NULL THEN "create" ELSE "update"
              s == [composer[c] EXCEPT !.now.saving = TRUE]
              t == [composer[c] EXCEPT !.timer = FALSE]
              u == [t EXCEPT !.now.saving = TRUE]
  <2>1. s \in State /\ t \in State
    BY <1>1, ComposerFits DEF State
  <2>2. Settled(s) \in State /\ u \in State
    BY <2>1, ComposerFits DEF State
  <2>3. Send(r, c, kind, composer[c].ref.draft) /\ drafts' = drafts /\ edits' = edits
    BY <1>11 DEF TimerSaves, SaveClicked, SendSave
  <2>4. composer' = [composer EXCEPT ![c] = u] \/ composer' = [composer EXCEPT ![c] = Settled(s)]
    <3>1. CASE SaveClicked(c, r)
      BY <3>1 DEF SaveClicked
    <3>2. CASE TimerSaves(c, r)
      <4>1. composer' = [composer EXCEPT ![c].timer = FALSE, ![c].now.saving = TRUE]
        BY <3>2 DEF TimerSaves
      <4>. QED
        BY <1>1, <4>1
    <3>. QED
      BY <1>11, <3>1, <3>2
  <2>5. composer' \in [Composer -> State]
    BY <1>1, <2>2, <2>4
  <2>6. kind \in {"create", "update", "publish"} /\ (kind = "update" => composer[c].ref.draft # NULL)
    OBVIOUS
  <2>. HIDE DEF kind
  <2>. QED
    BY <1>1, <1>2, <2>3, <2>5, <2>6, DraftSend, ComposerActs DEF State
<1>12. ASSUME NEW r \in DraftCall, Publish(c, r) PROVE DraftIInv' /\ drafts' = drafts
  <2>. DEFINE s == [composer[c] EXCEPT !.now.submitting = TRUE]
  <2>1. s \in State
    BY <1>1, ComposerFits DEF State
  <2>2. Settled(Rearmed(s)) \in State
    BY <2>1, ComposerFits DEF State
  <2>3. /\ composer' = [composer EXCEPT ![c] = Settled(Rearmed(s))] /\ drafts' = drafts /\ edits' = edits
        /\ Send(r, c, "publish", composer[c].now.draft)
    BY <1>12 DEF Publish
  <2>4. composer' \in [Composer -> State]
    BY <1>1, <2>2, <2>3
  <2>. QED
    BY <1>1, <1>2, <2>3, <2>4, DraftSend, ComposerActs DEF State
<1>. QED
  BY <1>3, <1>4, <1>5, <1>6, <1>7, <1>8, <1>9, <1>10, <1>11, <1>12 DEF ComposerNext

\* A request goes on: its row is held by it alone, and a row that goes is held by nobody.
LEMMA CallActs ==
  ASSUME DraftConstantsOK, DraftIInv, composer' \in [Composer -> ComposerState], edits' = edits, NEW r \in DraftCall,
         NEW q \in DraftRequest, dcall' = [dcall EXCEPT ![r] = q], q.kind = "update" /\ q.at # "idle" => q.draft \in Draft,
         \/ q.at # "held" /\ drafts' = drafts
         \/ /\ q.at = "held" /\ drafts' = drafts /\ q.kind = "update" /\ drafts[q.draft].at = "live"
            /\ \/ dcall[r].at = "held" /\ dcall[r].draft = q.draft
               \/ ~RowHeld(q.draft)
         \/ /\ q.at # "held"
            /\ \E d \in Draft, w \in DraftRow :
                 /\ drafts' = [drafts EXCEPT ![d] = w] /\ (drafts[d].at = "gone" => w.at = "gone")
                 /\ w.at = "live" \/ ~RowHeld(d)
  PROVE  DraftIInv' /\ GoneStays
<1>1. dcall' \in [DraftCall -> DraftRequest] /\ dcall'[r] = q /\ \A o \in DraftCall \ {r} : dcall'[o] = dcall[o]
  BY DEF DraftIInv, DraftTypeOK
<1>2. CASE drafts' = drafts
  <2>1. HeldIsLive' /\ OneHolder'
    BY <1>1, <1>2 DEF DraftIInv, HeldIsLive, OneHolder, RowHeld
  <2>. QED
    BY <1>1, <1>2, <2>1 DEF DraftIInv, DraftTypeOK, GoneStays
<1>3. ASSUME q.at # "held", NEW d \in Draft, NEW w \in DraftRow, drafts' = [drafts EXCEPT ![d] = w],
             drafts[d].at = "gone" => w.at = "gone", w.at = "live" \/ ~RowHeld(d)
      PROVE  DraftIInv' /\ GoneStays
  <2>1. drafts' \in [Draft -> DraftRow] /\ drafts'[d] = w /\ \A e \in Draft \ {d} : drafts'[e] = drafts[e]
    BY <1>3 DEF DraftIInv, DraftTypeOK
  <2>2. HeldIsLive' /\ OneHolder'
    BY <1>1, <1>3, <2>1 DEF DraftIInv, HeldIsLive, OneHolder, RowHeld
  <2>. QED
    BY <1>1, <1>3, <2>1, <2>2 DEF DraftIInv, DraftTypeOK, GoneStays
<1>. QED
  BY <1>2, <1>3

\* What an answer does to the composer that hears it.
LEMMA AnswerHeard ==
  ASSUME DraftConstantsOK, DraftIInv, NEW r \in DraftCall, NEW ok \in BOOLEAN, Hears(r, ok)
  PROVE  composer' \in [Composer -> ComposerState]
<1>. DEFINE State == ComposerState
            c == dcall[r].by
<1>1. composer \in [Composer -> State] /\ dcall[r] \in DraftRequest
  BY DEF DraftIInv, DraftTypeOK
<1>2. dcall[r].text \in Text /\ dcall[r].draft \in DraftOrNull
  BY <1>1 DEF DraftRequest
<1>3. ASSUME NEW s \in State PROVE AfterPublish(s, ok) \in State
  <2>1. s.created \in BOOLEAN
    BY <1>3 DEF ComposerState
  <2>. DEFINE t == [s EXCEPT !.now.submitting = FALSE]
              u == [t EXCEPT !.created = s.created \/ ok]
  <2>2. t \in State
    BY <1>3, ComposerFits
  <2>3. u \in State
    BY <2>1, <2>2, ComposerFits
  <2>4. Rearmed(u) \in State
    BY <2>3, ComposerFits
  <2>5. u = [s EXCEPT !.now.submitting = FALSE, !.created = s.created \/ ok]
    OBVIOUS
  <2>. QED
    BY <2>4, <2>5 DEF AfterPublish
<1>4. ASSUME NEW s \in State PROVE AfterSave(s, r, ok) \in State
  <2>. DEFINE back == [s EXCEPT !.now.saving = FALSE]
              t == [back EXCEPT !.saved = dcall[r].text]
              u == [back EXCEPT !.now.draft = dcall[r].draft]
              w == [u EXCEPT !.saved = dcall[r].text]
  <2>1. back \in State
    BY <1>4, ComposerFits
  <2>2. t \in State /\ u \in State
    BY <1>2, <2>1, ComposerFits
  <2>3. w \in State
    BY <1>2, <2>2, ComposerFits
  <2>4. Rearmed(w) \in State
    BY <2>3, ComposerFits
  <2>5. w = [back EXCEPT !.now.draft = dcall[r].draft, !.saved = dcall[r].text]
    OBVIOUS
  <2>6. AfterSave(s, r, ok) = IF ~ok THEN back ELSE IF dcall[r].kind = "create" THEN Rearmed(w) ELSE t
    BY <2>5 DEF AfterSave
  <2>. QED
    BY <2>1, <2>2, <2>4, <2>6
<1>5. composer' = [composer EXCEPT ![c] = IF dcall[r].kind = "publish" THEN AfterPublish(composer[c], ok)
                               ELSE AfterSave(composer[c], r, ok)]
  BY DEF Hears
<1>. QED
  BY <1>1, <1>3, <1>4, <1>5

\* What the routes do with a request.
LEMMA DraftCallStep ==
  ASSUME DraftConstantsOK, DraftIInv, NEW r \in DraftCall, DraftCallNext(r)
  PROVE  DraftIInv' /\ GoneStays
<1>1. /\ composer \in [Composer -> ComposerState] /\ drafts \in [Draft -> DraftRow]
      /\ dcall \in [DraftCall -> DraftRequest] /\ dcall[r] \in DraftRequest
      /\ dcall[r].kind = "update" /\ dcall[r].at # "idle" => dcall[r].draft \in Draft
      /\ dcall[r].at = "held" => dcall[r].kind = "update" /\ drafts[dcall[r].draft].at = "live"
      /\ dcall[r].text \in Text
  BY DEF DraftIInv, DraftTypeOK, HeldIsLive, DraftRequest
<1>2. \A t \in Text : /\ [at |-> "live", text |-> t] \in DraftRow
                      /\ [at |-> "gone", text |-> 0] \in DraftRow
  BY DEF DraftRow, Text, DraftConstantsOK
<1>. DEFINE done(b) == [dcall[r] EXCEPT !.at = "done", !.ok = b]
<1>3. ASSUME NEW b \in BOOLEAN
      PROVE  /\ done(b) \in DraftRequest /\ done(b).at = "done" /\ done(b).kind = dcall[r].kind
             /\ done(b).draft = dcall[r].draft /\ Answered(r, b) = [dcall EXCEPT ![r] = done(b)]
  <2>1. Answered(r, b) = [dcall EXCEPT ![r] = done(b)]
    BY <1>1 DEF Answered
  <2>. QED
    BY <1>1, <2>1 DEF DraftRequest
<1>. HIDE DEF done
<1>4. CASE HoldDraft(r)
  <2>. DEFINE q == [dcall[r] EXCEPT !.at = "held"]
  <2>1. q \in DraftRequest /\ q.at = "held" /\ q.kind = dcall[r].kind /\ q.draft = dcall[r].draft
    BY <1>1 DEF DraftRequest
  <2>2. /\ dcall[r].kind = "update" /\ dcall[r].at = "sent" /\ ~RowHeld(dcall[r].draft) /\ UNCHANGED <<composer, drafts, edits>>
        /\ \/ drafts[dcall[r].draft].at = "live" /\ dcall' = [dcall EXCEPT ![r] = q]
           \/ dcall' = [dcall EXCEPT ![r] = done(FALSE)]
    BY <1>3, <1>4 DEF HoldDraft, UpdateTarget
  <2>. HIDE DEF q
  <2>3. CASE dcall' = [dcall EXCEPT ![r] = q] /\ drafts[dcall[r].draft].at = "live"
    BY <1>1, <2>1, <2>2, <2>3, CallActs
  <2>4. CASE dcall' = [dcall EXCEPT ![r] = done(FALSE)]
    BY <1>1, <1>3, <2>2, <2>4, CallActs
  <2>. QED
    BY <2>2, <2>3, <2>4
<1>5. CASE CommitUpdate(r)
  <2>1. /\ dcall[r].at = "held" /\ dcall' = [dcall EXCEPT ![r] = done(TRUE)] /\ UNCHANGED <<composer, edits>>
        /\ drafts' = [drafts EXCEPT ![dcall[r].draft] = [at |-> "live", text |-> dcall[r].text]]
    BY <1>3, <1>5 DEF CommitUpdate
  <2>2. \E d \in Draft, w \in DraftRow :
          drafts' = [drafts EXCEPT ![d] = w] /\ (drafts[d].at = "gone" => w.at = "gone") /\ (w.at = "live" \/ ~RowHeld(d))
    BY <1>1, <1>2, <2>1
  <2>. QED
    BY <1>1, <1>3, <2>1, <2>2, CallActs
<1>6. CASE CommitPublish(r)
  <2>1. /\ dcall[r].at = "sent" /\ dcall' = [dcall EXCEPT ![r] = done(TRUE)] /\ UNCHANGED <<composer, edits>> /\ ~RowHeld(dcall[r].draft)
        /\ drafts' = [d \in Draft |-> IF d = dcall[r].draft /\ drafts[d].at = "live"
                                  THEN [at |-> "gone", text |-> 0] ELSE drafts[d]]
    BY <1>3, <1>6 DEF CommitPublish
  <2>2. CASE dcall[r].draft \in Draft /\ drafts[dcall[r].draft].at = "live"
    <3>1. drafts' = [drafts EXCEPT ![dcall[r].draft] = [at |-> "gone", text |-> 0]]
      BY <1>1, <2>1, <2>2
    <3>2. \E d \in Draft, w \in DraftRow :
            drafts' = [drafts EXCEPT ![d] = w] /\ (drafts[d].at = "gone" => w.at = "gone") /\ (w.at = "live" \/ ~RowHeld(d))
      BY <1>1, <1>2, <2>1, <2>2, <3>1
    <3>. QED
      BY <1>1, <1>3, <2>1, <3>2, CallActs
  <2>3. CASE ~(dcall[r].draft \in Draft /\ drafts[dcall[r].draft].at = "live")
    <3>1. drafts' = drafts
      BY <1>1, <2>1, <2>3
    <3>. QED
      BY <1>1, <1>3, <2>1, <3>1, CallActs
  <2>. QED
    BY <2>2, <2>3
<1>7. CASE CallFails(r)
  BY <1>1, <1>3, <1>7, CallActs DEF CallFails
<1>8. ASSUME NEW d \in Draft, InsertDraft(r, d) PROVE DraftIInv' /\ GoneStays
  <2>. DEFINE q == [dcall[r] EXCEPT !.at = "done", !.ok = TRUE, !.draft = d]
              w == [at |-> "live", text |-> dcall[r].text]
  <2>1. q \in DraftRequest /\ q.at = "done" /\ q.draft = d
    BY <1>1 DEF DraftRequest, DraftOrNull
  <2>2. dcall' = [dcall EXCEPT ![r] = q]
    BY <1>1, <1>8 DEF InsertDraft
  <2>3. drafts' = [drafts EXCEPT ![d] = w] /\ drafts[d].at = "none" /\ UNCHANGED <<composer, edits>>
    BY <1>8 DEF InsertDraft
  <2>4. w \in DraftRow /\ w.at = "live"
    BY <1>1, <1>2
  <2>. HIDE DEF q, w
  <2>. QED
    BY <1>1, <2>1, <2>2, <2>3, <2>4, CallActs
<1>9. CASE HearAnswer(r)
  <2>1. NoDraftCall \in DraftRequest /\ NoDraftCall.at = "idle"
    BY DEF NoDraftCall, DraftRequest, DraftOrNull, Text, DraftConstantsOK
  <2>2. dcall[r].ok \in BOOLEAN
    BY <1>1 DEF DraftRequest
  <2>3. dcall' = [dcall EXCEPT ![r] = NoDraftCall] /\ drafts' = drafts /\ edits' = edits /\ (composer' = composer \/ Hears(r, dcall[r].ok))
    BY <1>9 DEF HearAnswer
  <2>4. composer' \in [Composer -> ComposerState]
    BY <1>1, <2>2, <2>3, AnswerHeard
  <2>. QED
    BY <2>1, <2>3, <2>4, CallActs
<1>10. CASE GiveUp(r)
  <2>. DEFINE q == [dcall[r] EXCEPT !.awaited = FALSE]
  <2>1. q \in DraftRequest /\ q.at = dcall[r].at /\ q.kind = dcall[r].kind /\ q.draft = dcall[r].draft
    BY <1>1, CallFits
  <2>2. dcall' = [dcall EXCEPT ![r] = q] /\ drafts' = drafts /\ edits' = edits /\ Hears(r, FALSE) /\ dcall[r].at # "idle"
    BY <1>1, <1>10 DEF GiveUp
  <2>3. composer' \in [Composer -> ComposerState]
    BY <2>2, AnswerHeard
  <2>. HIDE DEF q
  <2>. QED
    BY <1>1, <2>1, <2>2, <2>3, CallActs
<1>. QED
  BY <1>4, <1>5, <1>6, <1>7, <1>8, <1>9, <1>10 DEF DraftCallNext

\* No draft exists at the start, and nothing is under way.
LEMMA DraftsStart ==
  ASSUME DraftConstantsOK, DraftInit PROVE DraftIInv
<1>1. NoDraftCall \in DraftRequest /\ NoDraftCall.at = "idle"
      /\ [at |-> "none", text |-> 0] \in DraftRow /\ 0 \in Text
  BY DEF NoDraftCall, DraftRequest, DraftOrNull, Text, DraftRow, DraftConstantsOK
<1>2. DraftTypeOK
  BY <1>1, ComposerOpens DEF DraftInit, DraftTypeOK
<1>3. \A r \in DraftCall : dcall[r] = NoDraftCall
  BY DEF DraftInit
<1>4. HeldIsLive /\ OneHolder
  BY <1>1, <1>3 DEF HeldIsLive, OneHolder, NoDraftCall
<1>. QED
  BY <1>2, <1>4 DEF DraftIInv

\* Every step of the drafts.
LEMMA DraftStep ==
  ASSUME DraftConstantsOK, DraftIInv, DraftNext PROVE DraftIInv' /\ GoneStays
<1>1. ASSUME NEW d \in Draft, DeleteDraft(d) PROVE DraftIInv' /\ GoneStays
  <2>. DEFINE w == [at |-> "gone", text |-> 0]
  <2>1. w \in DraftRow
    BY DEF DraftRow, Text, DraftConstantsOK
  <2>2. drafts' = [drafts EXCEPT ![d] = w] /\ UNCHANGED <<composer, dcall, edits>> /\ ~RowHeld(d)
    BY <1>1 DEF DeleteDraft
  <2>3. drafts' \in [Draft -> DraftRow] /\ drafts'[d] = w /\ \A e \in Draft \ {d} : drafts'[e] = drafts[e]
    BY <1>1, <2>1, <2>2 DEF DraftIInv, DraftTypeOK
  <2>. QED
    BY <1>1, <2>2, <2>3 DEF DraftIInv, DraftTypeOK, HeldIsLive, OneHolder, RowHeld, GoneStays
<1>2. ASSUME drafts' = drafts PROVE GoneStays
  BY <1>2 DEF GoneStays
<1>. QED
  BY <1>1, <1>2, ComposerStep, DraftCallStep DEF DraftNext

\* A step that is none of the drafts' changes nothing.
LEMMA DraftGoes ==
  ASSUME DraftConstantsOK, DraftIInv, [DraftNext]_draftVars PROVE DraftIInv' /\ [GoneStays]_draftVars
<1>1. CASE DraftNext
  BY <1>1, DraftStep
<1>2. CASE UNCHANGED draftVars
  BY <1>2 DEF DraftIInv, DraftTypeOK, HeldIsLive, OneHolder, draftVars
<1>. QED
  BY <1>1, <1>2

\* A draft that was published or deleted never comes back, and the composers, their timers and
\* their requests keep to their types.
THEOREM PublishedDraftsStayGone ==
  ASSUME DraftConstantsOK
  PROVE  DraftInit /\ [][DraftNext]_draftVars => []DraftTypeOK /\ [][GoneStays]_draftVars
<1>1. DraftInit => DraftIInv
  BY DraftsStart
<1>2. DraftIInv /\ [DraftNext]_draftVars => DraftIInv' /\ [GoneStays]_draftVars
  BY DraftGoes
<1>3. DraftIInv => DraftTypeOK
  BY DEF DraftIInv
<1>. QED
  BY <1>1, <1>2, <1>3, PTL

-----------------------------------------------------------------------------
(* The replies of a page, and its two panes.                               *)

\* Rows of different replies.
RowsApart(s) == s \in Seq(Row) /\ \A i, j \in 1..Len(s) : s[i].of = s[j].of => i = j

\* A row of a reply that has none is added at the end.
LEMMA RowAdded ==
  ASSUME NEW s, RowsApart(s), NEW r \in Row, \A q \in ToSet(s) : q.of # r.of
  PROVE  RowsApart(Append(s, r)) /\ ToSet(Append(s, r)) = ToSet(s) \cup {r}
<1>. DEFINE a == Append(s, r)
<1>1. /\ a \in Seq(Row) /\ Len(a) = Len(s) + 1 /\ Len(s) \in Nat
      /\ \A i \in 1..Len(s) : a[i] = s[i]
      /\ a[Len(s) + 1] = r
  BY AppendProperties DEF RowsApart
<1>2. \A i \in 1..Len(s) : s[i] \in ToSet(s)
  BY <1>1 DEF ToSet, RowsApart
<1>. HIDE DEF a
<1>3. RowsApart(a)
  <2>. SUFFICES ASSUME NEW i \in 1..Len(a), NEW j \in 1..Len(a), a[i].of = a[j].of PROVE i = j
    BY <1>1 DEF RowsApart
  <2>1. CASE i = Len(s) + 1 \/ j = Len(s) + 1
    <3>1. \A k \in 1..Len(s) : a[k].of # r.of
      BY <1>1, <1>2
    <3>. QED
      BY <1>1, <2>1, <3>1
  <2>2. CASE i # Len(s) + 1 /\ j # Len(s) + 1
    BY <1>1, <2>2 DEF RowsApart
  <2>. QED
    BY <2>1, <2>2
<1>4. ToSet(a) = {a[i] : i \in 1..Len(a)} /\ ToSet(s) = {s[i] : i \in 1..Len(s)}
  BY <1>1 DEF ToSet, RowsApart
<1>5. ToSet(a) = ToSet(s) \cup {r}
  <2>1. ASSUME NEW i \in 1..Len(a) PROVE a[i] \in ToSet(s) \cup {r}
    BY <1>1, <1>2
  <2>2. \A i \in 1..Len(s) : i \in 1..Len(a) /\ a[i] = s[i]
    BY <1>1
  <2>3. Len(s) + 1 \in 1..Len(a)
    BY <1>1
  <2>. QED
    BY <1>1, <1>4, <2>1, <2>2, <2>3
<1>. QED
  BY <1>3, <1>5 DEF a

PaneRec == [draft : TextOrNone, busy : BOOLEAN]
ReplyRec == [at : {"idle", "sent", "stored", "refused", "done"}, by : Pane \cup {NULL}, text : TextOrNone,
             before : Seq(Row), page : BOOLEAN, heard : BOOLEAN]

ReplyTypes ==
  /\ view \in [open : BOOLEAN, wide : BOOLEAN]
  /\ pane \in [Pane -> PaneRec] /\ reply \in [ReplyCall -> ReplyRec]
  /\ written \in TextOrNone /\ left \subseteq 1..LastText /\ overlapped \in BOOLEAN

\* A reply is stored once, and none that is stored is still to come.
StoredOnce ==
  /\ stored \in Seq(ReplyCall) /\ \A i, j \in 1..Len(stored) : stored[i] = stored[j] => i = j
  /\ \A c \in ReplyCall : /\ reply[c].at = "stored" => c \in ToSet(stored)
                          /\ c \in ToSet(stored) => reply[c].at \in {"stored", "done"}

\* The list of the page, and the one that a request goes back to, are of different replies that
\* were sent; the latter has none of the request itself.
ListsApart ==
  /\ RowsApart(rows) /\ \A r \in ToSet(rows) : reply[r.of].at # "idle"
  /\ \A c \in ReplyCall : /\ RowsApart(reply[c].before)
                          /\ \A r \in ToSet(reply[c].before) : r.of # c /\ reply[r.of].at # "idle"

\* A pane awaits one request, and keeps its text.
PaneAwaits ==
  \A c \in ReplyCall : Under(c) /\ reply[c].heard =>
    /\ reply[c].by \in Pane /\ pane[reply[c].by].busy /\ pane[reply[c].by].draft = reply[c].text
    /\ \A d \in ReplyCall : Under(d) /\ reply[d].heard /\ reply[d].by = reply[c].by => d = c

\* A request that is alone goes back to a list of stored replies.
AloneGoesBack ==
  ~overlapped => \A c \in ReplyCall : Waiting(c) =>
    /\ \A d \in ReplyCall : Waiting(d) => d = c
    /\ \A r \in ToSet(reply[c].before) : ~r.temp /\ r.of \in ToSet(stored)

RepliesIInv ==
  ReplyTypes /\ StoredOnce /\ ListsApart /\ PaneAwaits /\ AloneGoesBack /\ TextKept /\ RowsExactAlone

\* Texts stay where they are, or go to where they are kept.
LEMMA TextsStay ==
  ASSUME TextKept, UNCHANGED written, left \subseteq left', ToSet(stored) \subseteq ToSet(stored'),
         \A c \in ToSet(stored) : reply'[c].text = reply[c].text,
         \A p \in Pane : \/ pane[p].draft = 0 \/ pane[p].draft \in left'
                         \/ \E q \in Pane : pane'[q].draft = pane[p].draft
                         \/ \E c \in ToSet(stored') : reply'[c].text = pane[p].draft,
         LastText \in Nat, written \in TextOrNone
  PROVE  TextKept'
<1>. SUFFICES ASSUME NEW t \in 1..written
              PROVE  \/ t \in left' \/ \E p \in Pane : t = pane'[p].draft
                     \/ \E c \in ToSet(stored') : t = reply'[c].text
  BY DEF TextKept
<1>1. t # 0
  BY DEF TextOrNone
<1>2. CASE t \in left
  BY <1>2
<1>3. CASE \E p \in Pane : t = pane[p].draft
  BY <1>1, <1>3
<1>4. CASE \E c \in ToSet(stored) : t = reply[c].text
  BY <1>4
<1>. QED
  BY <1>2, <1>3, <1>4 DEF TextKept

\* Nothing is written yet.
LEMMA RepliesBegin ==
  ASSUME ReplyConstantsOK, ReplyInit PROVE RepliesIInv
<1>1. <<>> \in Seq(Row) /\ ToSet(<<>>) = {} /\ Len(<<>>) = 0 /\ <<>> \in Seq(ReplyCall)
  BY DEF ToSet
<1>2. /\ NoReply \in ReplyRec /\ NoReply.at = "idle" /\ NoReply.before = <<>>
      /\ NoPane \in PaneRec
  BY <1>1 DEF NoReply, NoPane, ReplyRec, PaneRec, TextOrNone, ReplyConstantsOK
<1>3. \A c \in ReplyCall : reply[c] = NoReply /\ ~Under(c) /\ ~Waiting(c)
  BY <1>2 DEF ReplyInit, Under, Waiting
<1>4. ReplyTypes
  <2>1. 0 \in TextOrNone
    BY DEF TextOrNone, ReplyConstantsOK
  <2>. QED
    BY <1>2, <2>1 DEF ReplyInit, ReplyTypes
<1>5. StoredOnce /\ ListsApart
  <2>1. RowsApart(<<>>) /\ \A i, j \in 1..Len(<<>>) : i = j
    BY <1>1 DEF RowsApart
  <2>2. rows = <<>> /\ stored = <<>> /\ \A c \in ReplyCall : reply[c].at = "idle" /\ reply[c].before = <<>>
    BY <1>2, <1>3 DEF ReplyInit
  <2>3. StoredOnce
    BY <1>1, <2>1, <2>2 DEF StoredOnce
  <2>4. ListsApart
    BY <1>1, <2>1, <2>2 DEF ListsApart
  <2>. QED
    BY <2>3, <2>4
<1>6. PaneAwaits /\ AloneGoesBack /\ RowsExactAlone
  BY <1>1, <1>3 DEF ReplyInit, PaneAwaits, AloneGoesBack, RowsExactAlone
<1>7. TextKept
  BY DEF ReplyInit, TextKept
<1>. QED
  BY <1>4, <1>5, <1>6, <1>7 DEF RepliesIInv

\* The user writes in a pane that awaits nothing.
LEMMA PaneWrites ==
  ASSUME ReplyConstantsOK, RepliesIInv, NEW p \in Pane, Write(p)
  PROVE  RepliesIInv'
<1>1. /\ ~pane[p].busy /\ written < LastText /\ written' = written + 1
      /\ left' = left \cup ({pane[p].draft} \ {0})
      /\ pane' = [pane EXCEPT ![p] = [pane[p] EXCEPT !.draft = written + 1]]
      /\ UNCHANGED <<rows, stored, view, reply, overlapped>>
  BY DEF Write, RepliesIInv, ReplyTypes
<1>2. /\ pane \in [Pane -> PaneRec] /\ written \in 0..LastText /\ LastText \in Nat /\ written + 1 \in 1..LastText
      /\ pane[p].draft \in 0..LastText
  BY <1>1 DEF RepliesIInv, ReplyTypes, TextOrNone, ReplyConstantsOK, PaneRec
<1>3. /\ [pane[p] EXCEPT !.draft = written + 1] \in PaneRec
      /\ [pane[p] EXCEPT !.draft = written + 1].draft = written + 1
  BY <1>2 DEF PaneRec, TextOrNone
<1>4. /\ pane' \in [Pane -> PaneRec] /\ pane'[p].draft = written + 1
      /\ \A q \in Pane \ {p} : pane'[q] = pane[q]
  BY <1>1, <1>2, <1>3
<1>5. ReplyTypes'
  <2>1. left' \subseteq 1..LastText
    BY <1>1, <1>2 DEF RepliesIInv, ReplyTypes
  <2>. QED
    BY <1>1, <1>2, <1>4, <2>1 DEF RepliesIInv, ReplyTypes, TextOrNone
<1>6. StoredOnce' /\ ListsApart' /\ AloneGoesBack' /\ RowsExactAlone'
  BY <1>1 DEF RepliesIInv, StoredOnce, ListsApart, AloneGoesBack, RowsExactAlone, Waiting, Under
<1>7. PaneAwaits'
  BY <1>1, <1>4 DEF RepliesIInv, PaneAwaits, Under
<1>8. TextKept'
  <2>. SUFFICES ASSUME NEW t \in 1..written'
                PROVE  t \in left' \/ (\E q \in Pane : t = pane'[q].draft) \/ \E c \in ToSet(stored) : t = reply[c].text
    BY <1>1 DEF TextKept
  <2>1. CASE t = written + 1
    BY <1>4, <2>1
  <2>2. CASE t # written + 1
    <3>1. t \in 1..written
      BY <1>1, <1>2, <2>2
    <3>2. CASE t = pane[p].draft
      BY <1>1, <3>2
    <3>. QED
      BY <1>1, <1>4, <3>1, <3>2 DEF RepliesIInv, TextKept
  <2>. QED
    BY <2>1, <2>2
<1>. QED
  BY <1>5, <1>6, <1>7, <1>8 DEF RepliesIInv

\* A reply is sent, and listed before it is stored.
LEMMA PaneSubmits ==
  ASSUME ReplyConstantsOK, RepliesIInv, NEW p \in Pane, NEW c \in ReplyCall, Submit(p, c)
  PROVE  RepliesIInv'
<1>. DEFINE q == [at |-> "sent", by |-> p, text |-> pane[p].draft, before |-> rows, page |-> TRUE, heard |-> TRUE]
            w == [pane[p] EXCEPT !.busy = TRUE]
<1>1. /\ ~pane[p].busy /\ reply[c].at = "idle"
      /\ reply' = [reply EXCEPT ![c] = q] /\ rows' = Append(rows, Temp(c))
      /\ pane' = [pane EXCEPT ![p] = w]
      /\ overlapped' = (overlapped \/ \E d \in ReplyCall : Waiting(d))
      /\ UNCHANGED <<stored, view, written, left>>
  BY DEF Submit
<1>2. pane \in [Pane -> PaneRec] /\ reply \in [ReplyCall -> ReplyRec] /\ rows \in Seq(Row)
  BY DEF RepliesIInv, ReplyTypes, ListsApart, RowsApart
<1>3. w \in PaneRec /\ w.busy /\ w.draft = pane[p].draft
  BY <1>2 DEF PaneRec
<1>4. /\ q \in ReplyRec /\ q.at = "sent" /\ q.by = p /\ q.text = pane[p].draft /\ q.before = rows
      /\ q.page /\ q.heard
  BY <1>2 DEF ReplyRec, PaneRec
<1>. HIDE DEF q, w
<1>5. /\ pane' \in [Pane -> PaneRec] /\ pane'[p] = w /\ (\A o \in Pane \ {p} : pane'[o] = pane[o])
      /\ reply' \in [ReplyCall -> ReplyRec] /\ reply'[c] = q
      /\ \A d \in ReplyCall \ {c} : reply'[d] = reply[d]
  BY <1>1, <1>2, <1>3, <1>4
<1>6. Temp(c) \in Row /\ Temp(c).of = c /\ Temp(c).temp
  BY DEF Temp, Row
<1>7. RowsApart(rows') /\ ToSet(rows') = ToSet(rows) \cup {Temp(c)}
  BY <1>1, <1>6, RowAdded DEF RepliesIInv, ListsApart
<1>8. ToSet(rows) \subseteq Row
  BY <1>2 DEF ToSet
<1>9. ReplyTypes'
  BY <1>1, <1>5 DEF RepliesIInv, ReplyTypes
<1>10. StoredOnce'
  BY <1>1, <1>4, <1>5 DEF RepliesIInv, StoredOnce
<1>11. ListsApart'
  <2>1. \A r \in ToSet(rows) : r.of # c
    BY <1>1 DEF RepliesIInv, ListsApart
  <2>2. \A r \in Row : reply[r.of].at # "idle" => reply'[r.of].at # "idle"
    BY <1>4, <1>5 DEF Row
  <2>3. \A d \in ReplyCall : \A r \in ToSet(reply[d].before) : r \in Row
    BY DEF RepliesIInv, ListsApart, RowsApart, ToSet
  <2>4. \A r \in ToSet(rows') : reply'[r.of].at # "idle"
    BY <1>4, <1>5, <1>6, <1>7, <1>8, <2>2 DEF RepliesIInv, ListsApart
  <2>5. ASSUME NEW d \in ReplyCall
        PROVE  /\ RowsApart(reply'[d].before)
               /\ \A r \in ToSet(reply'[d].before) : r.of # d /\ reply'[r.of].at # "idle"
    <3>1. CASE d = c
      BY <1>4, <1>5, <1>8, <2>1, <2>2, <3>1 DEF RepliesIInv, ListsApart
    <3>2. CASE d # c
      BY <1>5, <2>2, <2>3, <3>2 DEF RepliesIInv, ListsApart
    <3>. QED
      BY <3>1, <3>2
  <2>. QED
    BY <1>7, <2>4, <2>5 DEF ListsApart
<1>12. PaneAwaits'
  <2>1. \A d \in ReplyCall : Under(d) /\ reply[d].heard => reply[d].by # p
    BY <1>1 DEF RepliesIInv, PaneAwaits
  <2>2. \A d \in ReplyCall \ {c} : Under(d)' /\ reply'[d].heard => Under(d) /\ reply[d].heard
    BY <1>5 DEF Under
  <2>3. ASSUME NEW d \in ReplyCall, Under(d)', reply'[d].heard
        PROVE  /\ reply'[d].by \in Pane /\ pane'[reply'[d].by].busy
               /\ pane'[reply'[d].by].draft = reply'[d].text
               /\ \A e \in ReplyCall : Under(e)' /\ reply'[e].heard /\ reply'[e].by = reply'[d].by => e = d
    <3>1. CASE d = c
      BY <1>3, <1>4, <1>5, <2>1, <2>2, <3>1
    <3>2. CASE d # c
      BY <1>4, <1>5, <2>1, <2>2, <2>3, <3>2 DEF RepliesIInv, PaneAwaits
    <3>. QED
      BY <3>1, <3>2
  <2>. QED
    BY <2>3 DEF PaneAwaits
<1>13. AloneGoesBack' /\ RowsExactAlone'
  <2>. SUFFICES ASSUME ~overlapped' PROVE AloneGoesBack' /\ RowsExactAlone'
    BY DEF AloneGoesBack, RowsExactAlone
  <2>1. ~overlapped /\ \A d \in ReplyCall : ~Waiting(d)
    BY <1>1
  <2>2. \A d \in ReplyCall : Waiting(d)' <=> d = c
    BY <1>4, <1>5, <2>1 DEF Waiting, Under
  <2>3. \A r \in ToSet(rows) : ~r.temp /\ r.of \in ToSet(stored)
    BY <1>8, <2>1 DEF RepliesIInv, RowsExactAlone, Row
  <2>4. AloneGoesBack'
    BY <1>1, <1>4, <1>5, <2>2, <2>3 DEF AloneGoesBack
  <2>5. RowsExactAlone'
    BY <1>1, <1>6, <1>7, <2>2, <2>3 DEF RowsExactAlone
  <2>. QED
    BY <2>4, <2>5
<1>14. TextKept'
  <2>1. \A d \in ToSet(stored) : d # c
    BY <1>1 DEF RepliesIInv, StoredOnce
  <2>2. \A d \in ToSet(stored) : reply'[d].text = reply[d].text
    BY <1>5, <2>1 DEF RepliesIInv, StoredOnce, ToSet
  <2>3. \A o \in Pane : pane'[o].draft = pane[o].draft
    BY <1>3, <1>5
  <2>. QED
    BY <1>1, <2>2, <2>3, TextsStay DEF RepliesIInv, ReplyTypes, ReplyConstantsOK
<1>. QED
  BY <1>9, <1>10, <1>11, <1>12, <1>13, <1>14 DEF RepliesIInv

\* Panes that forget their text, and requests that nobody hears of any more.
LEMMA PanesLeave ==
  ASSUME ReplyConstantsOK, RepliesIInv, Toggle \/ Resize
  PROVE  RepliesIInv'
<1>1. PICK v \in [open : BOOLEAN, wide : BOOLEAN] : Shown(v)
  <2>1. view \in [open : BOOLEAN, wide : BOOLEAN]
    BY DEF RepliesIInv, ReplyTypes
  <2>2. [view EXCEPT !.open = ~view.open] \in [open : BOOLEAN, wide : BOOLEAN]
    BY <2>1
  <2>3. [view EXCEPT !.wide = ~view.wide] \in [open : BOOLEAN, wide : BOOLEAN]
    BY <2>1
  <2>. QED
    BY <2>2, <2>3 DEF Toggle, Resize
<1>2. pane \in [Pane -> PaneRec] /\ reply \in [ReplyCall -> ReplyRec] /\ LastText \in Nat
  BY DEF RepliesIInv, ReplyTypes, ReplyConstantsOK
<1>3. /\ pane' \in [Pane -> PaneRec] /\ reply' \in [ReplyCall -> ReplyRec]
      /\ left' \subseteq 1..LastText /\ left \subseteq left'
      /\ \A p \in Pane : pane'[p] = pane[p] \/ (p = "sheet" /\ pane[p].draft \in left' \cup {0})
      /\ \A c \in ReplyCall : /\ reply'[c].at = reply[c].at /\ reply'[c].by = reply[c].by
                              /\ reply'[c].text = reply[c].text /\ reply'[c].before = reply[c].before
                              /\ reply'[c].page = reply[c].page
                              /\ reply'[c].heard => /\ reply[c].heard
                                                    /\ pane' = pane \/ reply[c].by # "sheet"
  <2>1. CASE v.open /\ ~v.wide
    <3>1. UNCHANGED <<pane, reply, left>>
      BY <1>1, <2>1 DEF Shown
    <3>. QED
      BY <1>2, <3>1 DEF RepliesIInv, ReplyTypes
  <2>2. CASE ~(v.open /\ ~v.wide)
    <3>1. /\ pane' = [pane EXCEPT !["sheet"] = NoPane]
          /\ reply' = [c \in ReplyCall |-> [reply[c] EXCEPT !.heard = reply[c].heard /\ reply[c].by # "sheet"]]
          /\ left' = left \cup ({pane["sheet"].draft} \ {0})
      BY <1>1, <2>2 DEF Shown
    <3>2. NoPane \in PaneRec /\ pane["sheet"].draft \in 0..LastText /\ "sheet" \in Pane
      BY <1>2 DEF NoPane, PaneRec, TextOrNone, Pane
    <3>3. left' \subseteq 1..LastText
      BY <3>1, <3>2 DEF RepliesIInv, ReplyTypes
    <3>4. ASSUME NEW c \in ReplyCall
          PROVE  /\ reply'[c] \in ReplyRec
                 /\ reply'[c].at = reply[c].at /\ reply'[c].by = reply[c].by
                 /\ reply'[c].text = reply[c].text /\ reply'[c].before = reply[c].before
                 /\ reply'[c].page = reply[c].page
                 /\ reply'[c].heard => reply[c].heard /\ reply[c].by # "sheet"
      <4>. DEFINE h == reply[c].heard /\ reply[c].by # "sheet"
      <4>1. h \in BOOLEAN /\ reply'[c] = [reply[c] EXCEPT !.heard = h] /\ reply[c] \in ReplyRec
        BY <1>2, <3>1
      <4>2. h => reply[c].heard /\ reply[c].by # "sheet"
        OBVIOUS
      <4>. HIDE DEF h
      <4>. QED
        BY <4>1, <4>2 DEF ReplyRec
    <3>5. reply' \in [ReplyCall -> ReplyRec]
      BY <3>1, <3>4
    <3>. QED
      BY <1>2, <3>1, <3>2, <3>3, <3>4, <3>5
  <2>. QED
    BY <2>1, <2>2
<1>4. UNCHANGED <<rows, stored, written, overlapped>> /\ view' = v
  BY <1>1 DEF Shown
<1>5. \A c \in ReplyCall : (Under(c)' <=> Under(c)) /\ (Waiting(c)' <=> Waiting(c))
  BY <1>3 DEF Under, Waiting
<1>6. ReplyTypes'
  BY <1>3, <1>4 DEF RepliesIInv, ReplyTypes
<1>7. StoredOnce' /\ ListsApart'
  <2>1. StoredOnce'
    BY <1>3, <1>4 DEF RepliesIInv, StoredOnce
  <2>2. ASSUME NEW s, RowsApart(s), \A r \in ToSet(s) : reply[r.of].at # "idle"
        PROVE  \A r \in ToSet(s) : reply'[r.of].at # "idle"
    <3>1. \A r \in ToSet(s) : r \in Row
      BY <2>2 DEF RowsApart, ToSet
    <3>2. \A r \in ToSet(s) : r.of \in ReplyCall
      BY <3>1 DEF Row
    <3>. QED
      BY <1>3, <2>2, <3>2
  <2>3. ListsApart'
    BY <1>3, <1>4, <2>2 DEF RepliesIInv, ListsApart
  <2>. QED
    BY <2>1, <2>3
<1>8. PaneAwaits'
  <2>1. ASSUME NEW c \in ReplyCall, Under(c)', reply'[c].heard
        PROVE  /\ Under(c) /\ reply[c].heard /\ reply[c].by \in Pane
               /\ pane'[reply[c].by] = pane[reply[c].by]
    BY <1>3, <1>5, <2>1 DEF RepliesIInv, PaneAwaits
  <2>. QED
    BY <1>3, <2>1 DEF RepliesIInv, PaneAwaits
<1>9. AloneGoesBack'
  BY <1>3, <1>4, <1>5 DEF RepliesIInv, AloneGoesBack
<1>10. RowsExactAlone'
  <2>1. \A r \in ToSet(rows) : r \in Row
    BY DEF RepliesIInv, ListsApart, RowsApart, ToSet
  <2>2. \A r \in ToSet(rows) : r.of \in ReplyCall
    BY <2>1 DEF Row
  <2>. QED
    BY <1>4, <1>5, <2>2 DEF RepliesIInv, RowsExactAlone
<1>11. TextKept'
  <2>1. \A c \in ToSet(stored) : reply'[c].text = reply[c].text
    BY <1>3 DEF RepliesIInv, StoredOnce, ToSet
  <2>2. \A p \in Pane : \/ pane[p].draft = 0 \/ pane[p].draft \in left'
                        \/ \E q \in Pane : pane'[q].draft = pane[p].draft
    BY <1>3
  <2>. QED
    BY <1>2, <1>3, <1>4, <2>1, <2>2, TextsStay DEF RepliesIInv, ReplyTypes
<1>. QED
  BY <1>6, <1>7, <1>8, <1>9, <1>10, <1>11 DEF RepliesIInv

\* The replies of a page that is loaded are those that are stored.
LEMMA StoredListed ==
  ASSUME StoredOnce, NEW s, s = [i \in 1..Len(stored) |-> Real(stored[i])]
  PROVE  RowsApart(s) /\ \A r \in ToSet(s) : r \in Row /\ ~r.temp /\ r.of \in ToSet(stored)
<1>1. stored \in Seq(ReplyCall) /\ Len(stored) \in Nat
  BY DEF StoredOnce
<1>2. \A c \in ReplyCall : Real(c) \in Row /\ Real(c).of = c /\ ~Real(c).temp
  BY DEF Real, Row
<1>3. \A i \in 1..Len(stored) : stored[i] \in ReplyCall /\ stored[i] \in ToSet(stored)
  BY <1>1 DEF ToSet
<1>4. s \in Seq(Row) /\ Len(s) = Len(stored) /\ \A i \in 1..Len(s) : s[i] = Real(stored[i])
  BY <1>1, <1>2, <1>3
<1>5. \A r \in ToSet(s) : \E i \in 1..Len(s) : r = s[i]
  BY <1>4 DEF ToSet
<1>6. \A r \in ToSet(s) : r \in Row /\ ~r.temp /\ r.of \in ToSet(stored)
  BY <1>2, <1>3, <1>4, <1>5
<1>7. ASSUME NEW i \in 1..Len(s), NEW j \in 1..Len(s), s[i].of = s[j].of PROVE i = j
  <2>1. stored[i] = stored[j]
    BY <1>2, <1>3, <1>4, <1>7
  <2>. QED
    BY <1>4, <2>1 DEF StoredOnce
<1>. QED
  BY <1>4, <1>6, <1>7 DEF RowsApart

\* The page is loaded again.
LEMMA PageReloads ==
  ASSUME ReplyConstantsOK, RepliesIInv, Reload
  PROVE  RepliesIInv'
<1>1. /\ rows' = [i \in 1..Len(stored) |-> Real(stored[i])]
      /\ pane' = [p \in Pane |-> NoPane]
      /\ reply' = [c \in ReplyCall |-> [reply[c] EXCEPT !.page = FALSE, !.heard = FALSE]]
      /\ left' = left \cup ({pane[p].draft : p \in Pane} \ {0})
      /\ ~overlapped' /\ overlapped' \in BOOLEAN /\ UNCHANGED <<stored, view, written>>
  BY DEF Reload
<1>2. pane \in [Pane -> PaneRec] /\ reply \in [ReplyCall -> ReplyRec] /\ LastText \in Nat
  BY DEF RepliesIInv, ReplyTypes, ReplyConstantsOK
<1>3. ASSUME NEW c \in ReplyCall
      PROVE  /\ reply'[c] \in ReplyRec /\ reply'[c].at = reply[c].at /\ reply'[c].text = reply[c].text
             /\ reply'[c].before = reply[c].before /\ ~reply'[c].page /\ ~reply'[c].heard
  BY <1>1, <1>2 DEF ReplyRec
<1>4. /\ pane' \in [Pane -> PaneRec] /\ reply' \in [ReplyCall -> ReplyRec]
      /\ left' \subseteq 1..LastText /\ left \subseteq left'
  <2>1. NoPane \in PaneRec
    BY <1>2 DEF NoPane, PaneRec, TextOrNone
  <2>2. \A p \in Pane : pane[p].draft \in 0..LastText
    BY <1>2 DEF PaneRec, TextOrNone
  <2>3. {pane[p].draft : p \in Pane} \ {0} \subseteq 1..LastText
    BY <1>2, <2>2
  <2>. QED
    BY <1>1, <1>3, <2>1, <2>3 DEF RepliesIInv, ReplyTypes
<1>5. ReplyTypes'
  BY <1>1, <1>4 DEF RepliesIInv, ReplyTypes
<1>6. StoredOnce'
  BY <1>1, <1>3 DEF RepliesIInv, StoredOnce
<1>7. RowsApart(rows') /\ \A r \in ToSet(rows') : r \in Row /\ ~r.temp /\ r.of \in ToSet(stored)
  BY <1>1, StoredListed DEF RepliesIInv
<1>8. ListsApart'
  <2>1. \A c \in ToSet(stored) : c \in ReplyCall /\ reply[c].at # "idle"
    BY DEF RepliesIInv, StoredOnce, ToSet
  <2>2. \A r \in ToSet(rows') : reply'[r.of].at # "idle"
    BY <1>3, <1>7, <2>1
  <2>3. ASSUME NEW c \in ReplyCall, NEW r \in ToSet(reply[c].before) PROVE r \in Row
    BY DEF RepliesIInv, ListsApart, RowsApart, ToSet
  <2>4. ASSUME NEW c \in ReplyCall, NEW r \in ToSet(reply[c].before) PROVE r.of \in ReplyCall
    BY <2>3 DEF Row
  <2>. QED
    BY <1>3, <1>7, <2>2, <2>4 DEF RepliesIInv, ListsApart
<1>9. PaneAwaits' /\ AloneGoesBack'
  BY <1>3 DEF PaneAwaits, AloneGoesBack, Waiting
<1>10. RowsExactAlone'
  BY <1>1, <1>7 DEF RowsExactAlone
<1>11. TextKept'
  <2>1. \A c \in ToSet(stored) : reply'[c].text = reply[c].text
    BY <1>3 DEF RepliesIInv, StoredOnce, ToSet
  <2>2. \A p \in Pane : pane[p].draft = 0 \/ pane[p].draft \in left'
    BY <1>1
  <2>. QED
    BY <1>1, <1>2, <1>4, <2>1, <2>2, TextsStay DEF RepliesIInv, ReplyTypes
<1>. QED
  BY <1>5, <1>6, <1>8, <1>9, <1>10, <1>11 DEF RepliesIInv

\* The server stores a reply, or refuses it.
LEMMA ServerReplies ==
  ASSUME ReplyConstantsOK, RepliesIInv, NEW c \in ReplyCall, StoreReply(c) \/ RefuseReply(c)
  PROVE  RepliesIInv'
<1>1. PICK at \in {"stored", "refused"} :
        /\ reply' = [reply EXCEPT ![c] = [reply[c] EXCEPT !.at = at]]
        /\ stored' = IF at = "stored" THEN Append(stored, c) ELSE stored
        /\ reply[c].at = "sent" /\ UNCHANGED <<rows, view, pane, written, left, overlapped>>
  BY DEF StoreReply, RefuseReply
<1>2. reply \in [ReplyCall -> ReplyRec] /\ [reply[c] EXCEPT !.at = at] \in ReplyRec
  <2>1. reply \in [ReplyCall -> ReplyRec]
    BY DEF RepliesIInv, ReplyTypes
  <2>. QED
    BY <2>1 DEF ReplyRec
<1>3. /\ reply' \in [ReplyCall -> ReplyRec]
      /\ \A d \in ReplyCall : /\ reply'[d].at = IF d = c THEN at ELSE reply[d].at
                              /\ reply'[d].by = reply[d].by /\ reply'[d].text = reply[d].text
                              /\ reply'[d].before = reply[d].before /\ reply'[d].page = reply[d].page
                              /\ reply'[d].heard = reply[d].heard
  <2>1. \A d \in ReplyCall : reply'[d] = IF d = c THEN [reply[c] EXCEPT !.at = at] ELSE reply[d]
    BY <1>1, <1>2
  <2>2. reply' \in [ReplyCall -> ReplyRec]
    BY <1>1, <1>2
  <2>. QED
    BY <1>2, <2>1, <2>2 DEF ReplyRec
<1>4. \A d \in ReplyCall : (Under(d)' <=> Under(d)) /\ (Waiting(d)' <=> Waiting(d))
  BY <1>1, <1>3 DEF Under, Waiting
<1>5. ReplyTypes'
  BY <1>1, <1>3 DEF RepliesIInv, ReplyTypes
<1>6. StoredOnce' /\ ToSet(stored) \subseteq ToSet(stored')
  <2>1. c \notin ToSet(stored) /\ stored \in Seq(ReplyCall) /\ Len(stored) \in Nat
    BY <1>1 DEF RepliesIInv, StoredOnce
  <2>2. CASE at = "refused"
    BY <1>1, <1>3, <2>1, <2>2 DEF RepliesIInv, StoredOnce
  <2>3. CASE at = "stored"
    <3>1. /\ stored' \in Seq(ReplyCall) /\ Len(stored') = Len(stored) + 1
          /\ \A i \in 1..Len(stored) : stored'[i] = stored[i]
          /\ stored'[Len(stored) + 1] = c
      BY <1>1, <2>1, <2>3, AppendProperties
    <3>2. \A i \in 1..Len(stored) : stored[i] # c
      BY <2>1 DEF ToSet
    <3>3. \A i, j \in 1..Len(stored') : stored'[i] = stored'[j] => i = j
      <4>. SUFFICES ASSUME NEW i \in 1..Len(stored'), NEW j \in 1..Len(stored'), stored'[i] = stored'[j]
                    PROVE  i = j
        OBVIOUS
      <4>1. CASE i = Len(stored) + 1 \/ j = Len(stored) + 1
        BY <2>1, <3>1, <3>2, <4>1
      <4>2. CASE i # Len(stored) + 1 /\ j # Len(stored) + 1
        <5>1. i \in 1..Len(stored) /\ j \in 1..Len(stored)
          BY <2>1, <3>1, <4>2
        <5>. QED
          BY <3>1, <5>1 DEF RepliesIInv, StoredOnce
      <4>. QED
        BY <4>1, <4>2
    <3>4. ToSet(stored') = ToSet(stored) \cup {c}
      <4>1. \A i \in 1..Len(stored') : i = Len(stored) + 1 \/ i \in 1..Len(stored)
        BY <2>1, <3>1
      <4>2. \A i \in 1..Len(stored) : i \in 1..Len(stored')
        BY <2>1, <3>1
      <4>3. Len(stored) + 1 \in 1..Len(stored')
        BY <2>1, <3>1
      <4>4. ToSet(stored') = {stored'[i] : i \in 1..Len(stored')} /\ ToSet(stored) = {stored[i] : i \in 1..Len(stored)}
        BY <2>1, <3>1 DEF ToSet
      <4>. QED
        BY <3>1, <4>1, <4>2, <4>3, <4>4
    <3>. QED
      BY <1>3, <2>3, <3>1, <3>3, <3>4 DEF RepliesIInv, StoredOnce
  <2>. QED
    BY <2>2, <2>3
<1>7. ListsApart'
  <2>1. \A d \in ReplyCall : reply[d].at # "idle" => reply'[d].at # "idle"
    BY <1>3
  <2>2. ASSUME NEW s, RowsApart(s) PROVE \A r \in ToSet(s) : r.of \in ReplyCall
    <3>1. \A r \in ToSet(s) : r \in Row
      BY <2>2 DEF RowsApart, ToSet
    <3>. QED
      BY <3>1 DEF Row
  <2>. QED
    BY <1>1, <1>3, <2>1, <2>2 DEF RepliesIInv, ListsApart
<1>8. PaneAwaits'
  BY <1>1, <1>3, <1>4 DEF RepliesIInv, PaneAwaits
<1>9. AloneGoesBack'
  BY <1>1, <1>3, <1>4, <1>6 DEF RepliesIInv, AloneGoesBack
<1>10. RowsExactAlone'
  <2>1. \A r \in ToSet(rows) : r \in Row
    BY DEF RepliesIInv, ListsApart, RowsApart, ToSet
  <2>2. \A r \in ToSet(rows) : r.of \in ReplyCall
    BY <2>1 DEF Row
  <2>. QED
    BY <1>1, <1>4, <1>6, <2>2 DEF RepliesIInv, RowsExactAlone
<1>11. TextKept'
  <2>1. \A d \in ToSet(stored) : reply'[d].text = reply[d].text
    BY <1>3 DEF RepliesIInv, StoredOnce, ToSet
  <2>. QED
    BY <1>1, <1>6, <2>1, TextsStay DEF RepliesIInv, ReplyTypes, ReplyConstantsOK
<1>. QED
  BY <1>5, <1>6, <1>7, <1>8, <1>9, <1>10, <1>11 DEF RepliesIInv

\* A request is heard, or given up: its list takes the place of the one that is shown, with the
\* reply at its end if it is stored; its pane awaits nothing, and keeps the text if it is not.
LEMMA PaneHears ==
  ASSUME ReplyConstantsOK, RepliesIInv, NEW c \in ReplyCall, Accepted(c) \/ Failed(c) \/ Abandoned(c)
  PROVE  RepliesIInv'
<1>. DEFINE ok == Accepted(c)
<1>1. PICK q \in ReplyRec :
        /\ reply' = [reply EXCEPT ![c] = q] /\ q.text = reply[c].text /\ q.before = reply[c].before
        /\ \/ q.at = "done" /\ reply[c].at \in {"stored", "refused"}
           \/ q.at = "sent" /\ reply[c].at = "sent" /\ ~q.page /\ ~q.heard
  <2>1. reply[c] \in ReplyRec
    BY DEF RepliesIInv, ReplyTypes
  <2>2. [reply[c] EXCEPT !.at = "done"] \in ReplyRec /\ [reply[c] EXCEPT !.page = FALSE, !.heard = FALSE] \in ReplyRec
    BY <2>1 DEF ReplyRec
  <2>3. CASE Accepted(c) \/ Failed(c)
    <3>1. reply' = [reply EXCEPT ![c] = [reply[c] EXCEPT !.at = "done"]] /\ reply[c].at \in {"stored", "refused"}
      BY <2>3 DEF Accepted, Failed, Settles, Under
    <3>. QED
      BY <2>1, <2>2, <3>1 DEF ReplyRec
  <2>4. CASE Abandoned(c)
    <3>1. reply' = [reply EXCEPT ![c] = [reply[c] EXCEPT !.page = FALSE, !.heard = FALSE]] /\ reply[c].at = "sent"
      BY <2>4 DEF Abandoned
    <3>. QED
      BY <2>1, <2>2, <3>1 DEF ReplyRec
  <2>. QED
    BY <2>3, <2>4
<1>2. /\ Under(c) /\ (ok => reply[c].at = "stored")
      /\ rows' = IF reply[c].page THEN SettledRows(c, ok) ELSE rows
      /\ pane' = IF reply[c].heard THEN SettledPane(c, ok) ELSE pane
      /\ UNCHANGED <<stored, view, written, left, overlapped>>
  <2>1. CASE Accepted(c)
    BY <2>1 DEF Accepted, Settles, Under
  <2>2. CASE ~Accepted(c)
    BY <2>2 DEF Failed, Abandoned, Settles, SettledRows, SettledPane, Under
  <2>. QED
    BY <2>1, <2>2
<1>. HIDE DEF ok
<1>3. /\ reply \in [ReplyCall -> ReplyRec] /\ reply' \in [ReplyCall -> ReplyRec] /\ reply'[c] = q
      /\ \A d \in ReplyCall \ {c} : reply'[d] = reply[d]
  BY <1>1 DEF RepliesIInv, ReplyTypes
<1>4. \A d \in ReplyCall : /\ reply'[d].text = reply[d].text /\ reply'[d].before = reply[d].before
                           /\ reply[d].at # "idle" => reply'[d].at # "idle"
  BY <1>1, <1>3
<1>5. /\ ~(Under(c)' /\ reply'[c].heard) /\ ~Waiting(c)'
      /\ \A d \in ReplyCall \ {c} : (Under(d)' <=> Under(d)) /\ (Waiting(d)' <=> Waiting(d))
  BY <1>1, <1>3 DEF Under, Waiting
<1>6. PICK w : /\ reply[c].heard => /\ reply[c].by \in Pane /\ w \in PaneRec
                                    /\ pane' = [pane EXCEPT ![reply[c].by] = w]
                                    /\ IF ok THEN c \in ToSet(stored) /\ pane[reply[c].by].draft = reply[c].text
                                       ELSE w.draft = pane[reply[c].by].draft
  <2>. DEFINE p == reply[c].by
              w == [draft |-> IF ok THEN 0 ELSE pane[p].draft, busy |-> FALSE]
  <2>. SUFFICES ASSUME reply[c].heard
                PROVE  /\ p \in Pane /\ w \in PaneRec /\ pane' = [pane EXCEPT ![p] = w]
                       /\ IF ok THEN c \in ToSet(stored) /\ pane[p].draft = reply[c].text
                          ELSE w.draft = pane[p].draft
    OBVIOUS
  <2>1. p \in Pane /\ pane[p].draft = reply[c].text
    BY <1>2 DEF RepliesIInv, PaneAwaits
  <2>2. pane[p].draft \in TextOrNone /\ 0 \in TextOrNone
    BY <2>1 DEF RepliesIInv, ReplyTypes, PaneRec, TextOrNone, ReplyConstantsOK
  <2>3. w \in PaneRec
    BY <2>2 DEF PaneRec
  <2>4. pane' = [pane EXCEPT ![p] = w]
    BY <1>2 DEF SettledPane
  <2>5. ok => c \in ToSet(stored)
    BY <1>2 DEF RepliesIInv, StoredOnce
  <2>. QED
    BY <2>1, <2>3, <2>4, <2>5
<1>7. pane \in [Pane -> PaneRec] /\ pane' \in [Pane -> PaneRec]
      /\ \A p \in Pane : p # reply[c].by \/ ~reply[c].heard => pane'[p] = pane[p]
  BY <1>2, <1>6 DEF RepliesIInv, ReplyTypes
<1>8. ReplyTypes'
  BY <1>2, <1>3, <1>7 DEF RepliesIInv, ReplyTypes
<1>9. StoredOnce'
  BY <1>1, <1>2, <1>3 DEF RepliesIInv, StoredOnce
<1>10. /\ RowsApart(rows')
       /\ reply[c].page => ToSet(rows') \subseteq ToSet(reply[c].before) \cup (IF ok THEN {Real(c)} ELSE {})
       /\ ~reply[c].page => rows' = rows
  <2>1. Real(c) \in Row /\ Real(c).of = c
    BY DEF Real, Row
  <2>2. RowsApart(reply[c].before) /\ \A r \in ToSet(reply[c].before) : r.of # Real(c).of
    BY <2>1 DEF RepliesIInv, ListsApart
  <2>3. /\ RowsApart(Append(reply[c].before, Real(c)))
        /\ ToSet(Append(reply[c].before, Real(c))) = ToSet(reply[c].before) \cup {Real(c)}
    BY <2>1, <2>2, RowAdded
  <2>. QED
    BY <1>2, <2>2, <2>3 DEF SettledRows, RepliesIInv, ListsApart
<1>11. Real(c).of = c /\ ~Real(c).temp /\ (ok => c \in ToSet(stored)) /\ reply[c].at # "idle"
  BY <1>2 DEF Real, Under, RepliesIInv, StoredOnce
<1>12. ASSUME NEW s, RowsApart(s) PROVE \A r \in ToSet(s) : r.of \in ReplyCall
  <2>1. \A r \in ToSet(s) : r \in Row
    BY <1>12 DEF RowsApart, ToSet
  <2>. QED
    BY <2>1 DEF Row
<1>13. ListsApart'
  <2>1. ASSUME NEW s, RowsApart(s), \A r \in ToSet(s) : reply[r.of].at # "idle"
        PROVE  \A r \in ToSet(s) : reply'[r.of].at # "idle"
    BY <1>4, <1>12, <2>1
  <2>2. \A d \in ReplyCall : /\ RowsApart(reply[d].before)
                             /\ \A r \in ToSet(reply[d].before) : r.of # d /\ reply'[r.of].at # "idle"
    BY <2>1 DEF RepliesIInv, ListsApart
  <2>3. \A r \in ToSet(rows) : reply'[r.of].at # "idle"
    BY <2>1 DEF RepliesIInv, ListsApart
  <2>4. \A r \in ToSet(rows') : reply'[r.of].at # "idle"
    <3>1. reply'[c].at # "idle"
      BY <1>4, <1>11
    <3>. QED
      BY <1>10, <1>11, <2>2, <2>3, <3>1
  <2>. QED
    BY <1>4, <1>10, <2>2, <2>4 DEF ListsApart
<1>14. PaneAwaits'
  <2>1. ASSUME NEW d \in ReplyCall, Under(d)', reply'[d].heard
        PROVE  /\ d # c /\ Under(d) /\ reply'[d] = reply[d] /\ reply[d].by \in Pane
               /\ pane'[reply[d].by] = pane[reply[d].by]
    <3>1. d # c /\ Under(d) /\ reply'[d] = reply[d]
      BY <1>3, <1>5, <2>1
    <3>2. reply[d].by \in Pane /\ (reply[c].heard => reply[d].by # reply[c].by)
      BY <1>2, <2>1, <3>1 DEF RepliesIInv, PaneAwaits
    <3>. QED
      BY <1>7, <3>1, <3>2
  <2>. QED
    BY <2>1 DEF RepliesIInv, PaneAwaits
<1>15. AloneGoesBack'
  BY <1>2, <1>3, <1>5 DEF RepliesIInv, AloneGoesBack
<1>16. RowsExactAlone'
  <2>. SUFFICES ASSUME ~overlapped, NEW r \in ToSet(rows')
                PROVE  IF r.temp THEN Waiting(r.of)' ELSE r.of \in ToSet(stored)
    BY <1>2 DEF RowsExactAlone
  <2>1. CASE reply[c].page
    <3>1. Waiting(c)
      BY <1>2, <2>1 DEF Waiting
    <3>. QED
      BY <1>10, <1>11, <2>1, <3>1 DEF RepliesIInv, AloneGoesBack
  <2>2. CASE ~reply[c].page
    <3>1. ~Waiting(c) /\ r.of \in ReplyCall
      BY <1>10, <1>12, <2>2 DEF Waiting
    <3>. QED
      BY <1>5, <1>10, <2>2, <3>1 DEF RepliesIInv, RowsExactAlone
  <2>. QED
    BY <2>1, <2>2
<1>17. TextKept'
  <2>1. \A d \in ToSet(stored) : reply'[d].text = reply[d].text
    <3>1. ToSet(stored) \subseteq ReplyCall
      BY DEF RepliesIInv, StoredOnce, ToSet
    <3>. QED
      BY <1>4, <3>1
  <2>2. ASSUME NEW p \in Pane
        PROVE  \/ pane'[p].draft = pane[p].draft
               \/ c \in ToSet(stored) /\ reply'[c].text = pane[p].draft
    <3>1. CASE p = reply[c].by /\ reply[c].heard
      <4>1. pane'[p] = w
        BY <1>6, <1>7, <3>1
      <4>2. CASE ok
        BY <1>4, <1>6, <3>1, <4>2
      <4>3. CASE ~ok
        BY <1>6, <3>1, <4>1, <4>3
      <4>. QED
        BY <4>2, <4>3
    <3>2. CASE ~(p = reply[c].by /\ reply[c].heard)
      BY <1>7, <3>2
    <3>. QED
      BY <3>1, <3>2
  <2>. QED
    BY <1>2, <2>1, <2>2, TextsStay DEF RepliesIInv, ReplyTypes, ReplyConstantsOK
<1>. QED
  BY <1>8, <1>9, <1>13, <1>14, <1>15, <1>16, <1>17 DEF RepliesIInv

\* Every step of a page with replies.
LEMMA RepliesGo ==
  ASSUME ReplyConstantsOK, RepliesIInv, [ReplyNext]_replyVars PROVE RepliesIInv'
<1>1. CASE UNCHANGED replyVars
  <2>. USE <1>1 DEF replyVars
  <2>1. ReplyTypes' /\ StoredOnce' /\ TextKept'
    BY DEF RepliesIInv, ReplyTypes, StoredOnce, TextKept
  <2>2. ListsApart' /\ PaneAwaits'
    BY DEF RepliesIInv, ListsApart, RowsApart, PaneAwaits, Under
  <2>3. AloneGoesBack' /\ RowsExactAlone'
    BY DEF RepliesIInv, AloneGoesBack, RowsExactAlone, Waiting, Under
  <2>. QED
    BY <2>1, <2>2, <2>3 DEF RepliesIInv
<1>. QED
  BY <1>1, PaneWrites, PaneSubmits, PanesLeave, PageReloads, ServerReplies, PaneHears DEF ReplyNext

\* The invariant is RepliesInv, and more.
LEMMA RepliesFit ==
  ASSUME RepliesIInv PROVE RepliesInv
<1>1. ASSUME NEW s, s \in Seq(Row) PROVE ToSet(s) \subseteq Row
  BY <1>1 DEF ToSet
<1>2. ReplyTypeOK
  <2>1. \A c \in ReplyCall : /\ reply[c].at \in {"idle", "sent", "stored", "refused", "done"}
                             /\ reply[c].by \in Pane \cup {NULL} /\ reply[c].text \in TextOrNone
                             /\ reply[c].before \in Seq(Row) /\ reply[c].page \in BOOLEAN /\ reply[c].heard \in BOOLEAN
    BY DEF RepliesIInv, ReplyTypes, ReplyRec
  <2>2. ToSet(stored) \subseteq ReplyCall
    BY DEF RepliesIInv, StoredOnce, ToSet
  <2>. QED
    BY <1>1, <2>1, <2>2 DEF RepliesIInv, ReplyTypes, PaneRec, ListsApart, RowsApart, ReplyTypeOK
<1>3. NoRowTwice
  BY DEF RepliesIInv, ListsApart, RowsApart, NoRowTwice, IsInjective
<1>. QED
  BY <1>2, <1>3 DEF RepliesIInv, RepliesInv

\* No text is lost, no reply is listed twice, and a request that is alone leaves the list exact,
\* over failures, reloads and windows that change (RepliesPane.tsx, RepliesShell.tsx).
THEOREM RepliesKept ==
  ASSUME ReplyConstantsOK
  PROVE  ReplyInit /\ [][ReplyNext]_replyVars => []RepliesInv
<1>1. ReplyInit => RepliesIInv
  BY RepliesBegin
<1>2. RepliesIInv /\ [ReplyNext]_replyVars => RepliesIInv'
  BY RepliesGo
<1>3. RepliesIInv => RepliesInv
  BY RepliesFit
<1>. QED
  BY <1>1, <1>2, <1>3, PTL

-----------------------------------------------------------------------------
(* The stars of a post.                                                    *)

\* What a request q under the name c remembers: the button it is of is there, and of no other
\* request; a button that no write has passed showed the row before the click; an answer that
\* no write has passed is the row, and a button whose answer one has passed is behind.
StarFits(c, q) == q.at # "idle" /\ q.by # NULL =>
  /\ button[q.by].on
  /\ \A d \in StarCall : starCall[d].at # "idle" /\ starCall[d].by = q.by => d = c
  /\ q.by \notin behind => q.was = starRow
  /\ q.at \in {"check", "write", "read"} => ~q.missed
  /\ q.at = "ok" => IF q.missed THEN q.by \in behind ELSE q.says = starRow
StarIInv == StarTypeOK /\ ButtonTrue /\ BusyWithReason /\ \A c \in StarCall : StarFits(c, starCall[c])

ButtonRec == [on : BOOLEAN, shows : BOOLEAN, busy : BOOLEAN]
StarRec == [by : Button \cup {NULL}, wants : BOOLEAN, was : BOOLEAN,
            at : {"idle", "check", "write", "read", "ok", "failed"}, says : BOOLEAN, missed : BOOLEAN]

\* Nobody has clicked yet.
LEMMA StarBegins ==
  ASSUME StarConstantsOK, StarInit PROVE StarIInv
<1>1. NoButton \in ButtonRec /\ NoStarCall \in StarRec /\ NoStarCall.at = "idle" /\ ~NoButton.busy /\ ~NoButton.on
  BY DEF NoButton, NoStarCall, ButtonRec, StarRec
<1>2. /\ \A b \in Button : button[b] = NoButton
      /\ \A c \in StarCall : starCall[c] = NoStarCall
  BY DEF StarInit
<1>3. StarTypeOK
  BY <1>1 DEF StarInit, StarTypeOK, ButtonRec, StarRec
<1>. QED
  BY <1>1, <1>2, <1>3 DEF StarIInv, ButtonTrue, BusyWithReason, StarFits

\* A request goes on without the button.
LEMMA StarGoesOn ==
  ASSUME StarConstantsOK, StarIInv, NEW c \in StarCall, CheckStar(c) \/ ReadStar(c) \/ FailStar(c)
  PROVE  StarIInv'
<1>1. PICK q \in StarRec :
        /\ starCall' = [starCall EXCEPT ![c] = q] /\ q.by = starCall[c].by /\ q.was = starCall[c].was
        /\ q.missed = starCall[c].missed
        /\ q.at # "idle" /\ starCall[c].at # "idle"
        /\ q.at = "ok" => q.says = starRow /\ starCall[c].at = "read"
        /\ q.at \in {"check", "write", "read"} => starCall[c].at = "check"
        /\ UNCHANGED <<starRow, button, behind>>
  <2>. DEFINE r == starCall[c]
  <2>1. r \in StarRec
    BY DEF StarIInv, StarTypeOK, StarRec
  <2>2. CASE CheckStar(c)
    <3>1. PICK at \in {"write", "failed"} : starCall' = [starCall EXCEPT ![c].at = at]
      BY <2>2 DEF CheckStar
    <3>2. [r EXCEPT !.at = at] \in StarRec
      BY <2>1 DEF StarRec
    <3>. QED
      BY <2>1, <2>2, <3>1, <3>2 DEF CheckStar, StarRec
  <2>3. CASE ReadStar(c)
    <3>1. [r EXCEPT !.at = "ok", !.says = starRow] \in StarRec
      BY <2>1 DEF StarRec, StarIInv, StarTypeOK
    <3>2. starCall' = [starCall EXCEPT ![c] = [r EXCEPT !.at = "ok", !.says = starRow]]
      BY <2>3 DEF ReadStar
    <3>. QED
      BY <2>1, <2>3, <3>1, <3>2 DEF ReadStar, StarRec
  <2>4. CASE FailStar(c)
    <3>1. [r EXCEPT !.at = "failed"] \in StarRec
      BY <2>1 DEF StarRec
    <3>. QED
      BY <2>1, <2>4, <3>1 DEF FailStar, StarRec
  <2>. QED
    BY <2>2, <2>3, <2>4
<1>2. starCall \in [StarCall -> StarRec] /\ starCall' \in [StarCall -> StarRec] /\ starCall'[c] = q
      /\ \A d \in StarCall \ {c} : starCall'[d] = starCall[d]
  BY <1>1 DEF StarIInv, StarTypeOK, StarRec
<1>3. StarTypeOK'
  BY <1>1, <1>2 DEF StarIInv, StarTypeOK, StarRec
<1>4. ButtonTrue' /\ BusyWithReason'
  BY <1>1, <1>2 DEF StarIInv, ButtonTrue, BusyWithReason
<1>5. ASSUME NEW d \in StarCall PROVE StarFits(d, starCall[d])'
  <2>1. StarFits(d, starCall[d])
    BY DEF StarIInv
  <2>2. \A e \in StarCall : /\ starCall'[e].by = starCall[e].by /\ (starCall'[e].at = "idle" <=> starCall[e].at = "idle")
                            /\ starCall'[e].was = starCall[e].was /\ starCall'[e].missed = starCall[e].missed
    BY <1>1, <1>2
  <2>3. starCall'[d].at = "ok" =>
          \/ starCall[d].at = "read" /\ starCall'[d].says = starRow
          \/ starCall[d].at = "ok" /\ starCall'[d].says = starCall[d].says
    BY <1>1, <1>2
  <2>4. starCall'[d].at \in {"check", "write", "read"} => starCall[d].at \in {"check", "write", "read"}
    BY <1>1, <1>2
  <2>. QED
    BY <1>1, <2>1, <2>2, <2>3, <2>4 DEF StarFits
<1>. QED
  BY <1>3, <1>4, <1>5 DEF StarIInv

\* A page with a button is rendered, or left.
LEMMA StarMounts ==
  ASSUME StarConstantsOK, StarIInv, NEW b \in Button, MountStar(b) \/ UnmountStar(b)
  PROVE  StarIInv'
<1>1. PICK w \in ButtonRec : /\ button' = [button EXCEPT ![b] = w] /\ ~w.busy
                             /\ w.on => w.shows = starRow
  <2>1. starRow \in BOOLEAN
    BY DEF StarIInv, StarTypeOK
  <2>2. [on |-> TRUE, shows |-> starRow, busy |-> FALSE] \in ButtonRec /\ NoButton \in ButtonRec
    BY <2>1 DEF ButtonRec, NoButton
  <2>3. CASE MountStar(b)
    BY <2>2, <2>3 DEF MountStar
  <2>4. CASE UnmountStar(b)
    BY <2>2, <2>4 DEF UnmountStar, NoButton
  <2>. QED
    BY <2>3, <2>4
<1>2. /\ UNCHANGED starRow /\ behind' = behind \ {b}
      /\ starCall' \in [StarCall -> StarRec]
      /\ \A c \in StarCall :
           IF starCall[c].by = b
           THEN starCall'[c] = IF button[b].on THEN [starCall[c] EXCEPT !.by = NULL] ELSE starCall[c]
           ELSE starCall'[c] = starCall[c]
  <2>1. starCall \in [StarCall -> StarRec]
    BY DEF StarIInv, StarTypeOK, StarRec
  <2>2. CASE MountStar(b)
    BY <2>1, <2>2 DEF MountStar
  <2>3. CASE UnmountStar(b)
    <3>1. \A c \in StarCall : starCall'[c] = IF starCall[c].by = b THEN [starCall[c] EXCEPT !.by = NULL] ELSE starCall[c]
      BY <2>3 DEF UnmountStar
    <3>2. \A c \in StarCall : [starCall[c] EXCEPT !.by = NULL] \in StarRec
      BY <2>1 DEF StarRec
    <3>3. starCall' \in [StarCall -> StarRec]
      BY <2>1, <2>3, <3>1, <3>2 DEF UnmountStar
    <3>. QED
      BY <2>3, <3>1, <3>3 DEF UnmountStar
  <2>. QED
    BY <2>2, <2>3
<1>3. ASSUME NEW c \in StarCall
      PROVE  /\ starCall'[c].at = starCall[c].at
             /\ starCall'[c].by \in {starCall[c].by, NULL}
             /\ starCall[c].at # "idle" => starCall'[c].by # b
             /\ starCall'[c].by # NULL /\ starCall[c].at # "idle" => starCall'[c] = starCall[c]
             /\ starCall[c].by # b => starCall'[c] = starCall[c]
  <2>1. starCall[c] \in StarRec /\ b # NULL
    BY DEF StarIInv, StarTypeOK, StarRec, StarConstantsOK
  <2>2. starCall[c].at # "idle" /\ starCall[c].by = b => button[b].on
    BY <2>1 DEF StarIInv, StarFits
  <2>3. CASE starCall[c].by = b /\ button[b].on
    BY <1>2, <2>1, <2>3 DEF StarRec
  <2>4. CASE starCall'[c] = starCall[c]
    BY <2>2, <2>3, <2>4
  <2>. QED
    BY <1>2, <2>3, <2>4
<1>4. /\ button \in [Button -> ButtonRec] /\ button' \in [Button -> ButtonRec] /\ button'[b] = w
      /\ \A d \in Button \ {b} : button'[d] = button[d]
  BY <1>1 DEF StarIInv, StarTypeOK, ButtonRec
<1>5. StarTypeOK'
  BY <1>2, <1>4 DEF StarIInv, StarTypeOK, ButtonRec, StarRec
<1>6. ButtonTrue'
  BY <1>1, <1>2, <1>4 DEF StarIInv, ButtonTrue
<1>7. BusyWithReason'
  <2>1. ASSUME NEW d \in Button, NEW c \in StarCall, starCall[c].at # "idle", d # b
        PROVE  starCall'[c].by = d <=> starCall[c].by = d
    BY <1>3, <2>1 DEF StarConstantsOK
  <2>. QED
    BY <1>1, <1>3, <1>4, <2>1 DEF StarIInv, BusyWithReason
<1>8. ASSUME NEW c \in StarCall PROVE StarFits(c, starCall[c])'
  <2>. SUFFICES ASSUME starCall'[c].at # "idle", starCall'[c].by # NULL
                PROVE  StarFits(c, starCall[c])'
    BY DEF StarFits
  <2>1. starCall'[c] = starCall[c] /\ starCall[c].by # b /\ starCall[c].at # "idle" /\ starCall[c].by \in Button
    BY <1>3 DEF StarIInv, StarTypeOK
  <2>2. StarFits(c, starCall[c])
    BY DEF StarIInv
  <2>. QED
    BY <1>2, <1>3, <1>4, <2>1, <2>2 DEF StarFits
<1>. QED
  BY <1>5, <1>6, <1>7, <1>8 DEF StarIInv

\* A click: no request of this button is under way.
LEMMA StarClicked ==
  ASSUME StarConstantsOK, StarIInv, NEW b \in Button, NEW c \in StarCall, ClickStar(b, c)
  PROVE  StarIInv'
<1>. DEFINE w == [button[b] EXCEPT !.shows = ~@, !.busy = TRUE]
            q == [NoStarCall EXCEPT !.by = b, !.wants = ~button[b].shows, !.was = button[b].shows, !.at = "check"]
<1>1. /\ button' = [button EXCEPT ![b] = w] /\ starCall' = [starCall EXCEPT ![c] = q]
      /\ button[b].on /\ ~button[b].busy /\ starCall[c].at = "idle" /\ UNCHANGED <<starRow, behind>>
  BY DEF ClickStar, StarIInv, StarTypeOK
<1>2. button[b] \in ButtonRec
  BY DEF StarIInv, StarTypeOK, ButtonRec
<1>3. w \in ButtonRec /\ w.on /\ w.busy
  BY <1>1, <1>2 DEF ButtonRec
<1>4. q \in StarRec /\ q.by = b /\ q.was = button[b].shows /\ q.at = "check" /\ ~q.missed
  BY <1>2 DEF StarRec, NoStarCall, ButtonRec
<1>. HIDE DEF w, q
<1>5. /\ button' \in [Button -> ButtonRec] /\ button'[b] = w /\ \A d \in Button \ {b} : button'[d] = button[d]
      /\ starCall' \in [StarCall -> StarRec] /\ starCall'[c] = q
      /\ \A d \in StarCall \ {c} : starCall'[d] = starCall[d]
  BY <1>1, <1>3, <1>4 DEF StarIInv, StarTypeOK, ButtonRec, StarRec
<1>6. StarTypeOK'
  BY <1>1, <1>5 DEF StarIInv, StarTypeOK, ButtonRec, StarRec
<1>7. ButtonTrue'
  BY <1>1, <1>3, <1>5 DEF StarIInv, ButtonTrue
<1>8. BusyWithReason'
  BY <1>1, <1>3, <1>4, <1>5 DEF StarIInv, BusyWithReason
<1>9. \A d \in StarCall : starCall[d].at # "idle" => starCall[d].by # b
  BY <1>1 DEF StarIInv, BusyWithReason
<1>10. ASSUME NEW d \in StarCall PROVE StarFits(d, starCall[d])'
  <2>1. CASE d = c
    <3>1. b \notin behind => button[b].shows = starRow
      BY <1>1 DEF StarIInv, ButtonTrue
    <3>. QED
      BY <1>1, <1>3, <1>4, <1>5, <1>9, <2>1, <3>1 DEF StarFits
  <2>2. CASE d # c
    <3>1. StarFits(d, starCall[d]) /\ starCall'[d] = starCall[d]
      BY <1>5, <2>2 DEF StarIInv
    <3>2. starCall[d].at # "idle" /\ starCall[d].by # NULL => starCall[d].by \in Button \ {b}
      BY <1>9 DEF StarIInv, StarTypeOK
    <3>. QED
      BY <1>1, <1>4, <1>5, <3>1, <3>2 DEF StarFits
  <2>. QED
    BY <2>1, <2>2
<1>. QED
  BY <1>6, <1>7, <1>8, <1>10 DEF StarIInv

\* A write passes every button there is, and every answer that was read before.
LEMMA StarWritten ==
  ASSUME StarConstantsOK, StarIInv, NEW c \in StarCall, WriteStar(c)
  PROVE  StarIInv'
<1>1. /\ starCall \in [StarCall -> StarRec] /\ starCall[c].at = "write" /\ starRow' = starCall[c].wants
      /\ behind' = {b \in Button : button[b].on} /\ UNCHANGED button
  BY DEF WriteStar, StarIInv, StarTypeOK, StarRec
<1>2. ASSUME NEW d \in StarCall
      PROVE  /\ starCall'[d] \in StarRec /\ starCall'[d].by = starCall[d].by
             /\ starCall'[d].at = IF d = c THEN "read" ELSE starCall[d].at
             /\ starCall'[d].missed = IF d = c THEN starCall[d].missed ELSE (starCall[d].missed \/ starCall[d].at = "ok")
  <2>1. starCall[d] \in StarRec
    BY <1>1
  <2>2. CASE d = c
    BY <2>1, <2>2 DEF WriteStar, StarRec
  <2>3. CASE d # c
    BY <2>1, <2>3 DEF WriteStar, StarRec
  <2>. QED
    BY <2>2, <2>3
<1>3. starCall' \in [StarCall -> StarRec]
  BY <1>2 DEF WriteStar
<1>4. StarTypeOK'
  BY <1>1, <1>3 DEF StarIInv, StarTypeOK, StarRec
<1>5. ButtonTrue'
  BY <1>1 DEF ButtonTrue
<1>6. BusyWithReason'
  BY <1>1, <1>2 DEF StarIInv, BusyWithReason
<1>7. ASSUME NEW d \in StarCall PROVE StarFits(d, starCall[d])'
  <2>1. StarFits(d, starCall[d]) /\ starCall[d] \in StarRec
    BY <1>1 DEF StarIInv
  <2>2. starCall[d].at # "idle" /\ starCall[d].by # NULL => starCall[d].by \in behind'
    BY <1>1, <2>1 DEF StarFits, StarRec
  <2>. QED
    BY <1>1, <1>2, <2>1, <2>2 DEF StarFits
<1>. QED
  BY <1>4, <1>5, <1>6, <1>7 DEF StarIInv

\* The answer, or none: the button is at rest again.
LEMMA StarSettles ==
  ASSUME StarConstantsOK, StarIInv, NEW c \in StarCall, RevertStar(c) \/ ReconcileStar(c)
  PROVE  StarIInv'
<1>. DEFINE b == starCall[c].by
<1>1. /\ starCall \in [StarCall -> StarRec] /\ button \in [Button -> ButtonRec] /\ NoStarCall \in StarRec
      /\ NoStarCall.at = "idle" /\ starCall' = [starCall EXCEPT ![c] = NoStarCall] /\ UNCHANGED starRow
      /\ starCall[c].at # "idle" /\ StarFits(c, starCall[c])
  BY DEF RevertStar, ReconcileStar, StarIInv, StarTypeOK, StarRec, ButtonRec, NoStarCall
<1>2. /\ starCall' \in [StarCall -> StarRec] /\ starCall'[c].at = "idle"
      /\ \A d \in StarCall \ {c} : starCall'[d] = starCall[d]
  BY <1>1
<1>3. CASE b = NULL
  <2>1. UNCHANGED <<button, behind>>
    BY <1>3 DEF RevertStar, ReconcileStar
  <2>2. StarTypeOK'
    BY <1>1, <1>2, <2>1 DEF StarIInv, StarTypeOK, StarRec
  <2>3. ButtonTrue' /\ BusyWithReason'
    BY <1>1, <1>2, <1>3, <2>1 DEF StarIInv, ButtonTrue, BusyWithReason, StarConstantsOK
  <2>4. ASSUME NEW d \in StarCall PROVE StarFits(d, starCall[d])'
    BY <1>1, <1>2, <2>1 DEF StarIInv, StarFits
  <2>. QED
    BY <2>2, <2>3, <2>4 DEF StarIInv
<1>4. CASE b # NULL
  <2>1. b \in Button /\ button[b] \in ButtonRec
    BY <1>1, <1>4 DEF StarRec
  <2>2. PICK w \in ButtonRec : /\ button' = [button EXCEPT ![b] = w] /\ ~w.busy /\ w.on
                               /\ b \notin behind' => w.shows = starRow
                               /\ behind' \in {behind, behind \ {b}}
    <3>1. button[b].on
      BY <1>1, <1>4 DEF StarFits
    <3>2. CASE RevertStar(c)
      <4>1. [button[b] EXCEPT !.shows = starCall[c].was, !.busy = FALSE] \in ButtonRec
        BY <1>1, <2>1 DEF ButtonRec, StarRec
      <4>2. button' = [button EXCEPT ![b] = [button[b] EXCEPT !.shows = starCall[c].was, !.busy = FALSE]]
        BY <1>1, <1>4, <2>1, <3>2 DEF RevertStar
      <4>3. behind' = behind /\ (b \notin behind => starCall[c].was = starRow)
        BY <1>1, <1>4, <3>2 DEF RevertStar, StarFits
      <4>. QED
        BY <2>1, <3>1, <4>1, <4>2, <4>3 DEF ButtonRec
    <3>3. CASE ReconcileStar(c)
      <4>1. [button[b] EXCEPT !.shows = starCall[c].says, !.busy = FALSE] \in ButtonRec
        BY <1>1, <2>1 DEF ButtonRec, StarRec
      <4>2. button' = [button EXCEPT ![b] = [button[b] EXCEPT !.shows = starCall[c].says, !.busy = FALSE]]
        BY <1>1, <1>4, <2>1, <3>3 DEF ReconcileStar
      <4>3. behind' = (IF starCall[c].missed THEN behind ELSE behind \ {b}) /\ starCall[c].at = "ok"
        BY <1>4, <3>3 DEF ReconcileStar
      <4>4. b \notin behind' => starCall[c].says = starRow
        BY <1>1, <1>4, <4>3 DEF StarFits
      <4>. QED
        BY <2>1, <3>1, <4>1, <4>2, <4>3, <4>4 DEF ButtonRec
    <3>. QED
      BY <3>2, <3>3
  <2>3. button' \in [Button -> ButtonRec] /\ button'[b] = w /\ \A d \in Button \ {b} : button'[d] = button[d]
    BY <1>1, <2>1, <2>2
  <2>4. \A d \in StarCall \ {c} : starCall[d].at # "idle" => starCall[d].by # b
    BY <1>1, <1>4 DEF StarFits
  <2>. HIDE DEF b
  <2>5. StarTypeOK'
    BY <1>1, <1>2, <2>2, <2>3 DEF StarIInv, StarTypeOK, StarRec, ButtonRec
  <2>6. ButtonTrue'
    BY <1>1, <2>1, <2>2, <2>3 DEF StarIInv, ButtonTrue
  <2>7. BusyWithReason'
    <3>1. ASSUME NEW d \in Button, d # b PROVE button'[d].busy <=> \E e \in StarCall : starCall'[e].at # "idle" /\ starCall'[e].by = d
      <4>1. starCall[c].by # d
        BY <3>1 DEF b
      <4>2. button[d].busy <=> \E e \in StarCall : starCall[e].at # "idle" /\ starCall[e].by = d
        BY DEF StarIInv, BusyWithReason
      <4>. QED
        BY <1>2, <2>3, <3>1, <4>1, <4>2
    <3>2. ~button'[b].busy /\ \A e \in StarCall : starCall'[e].at # "idle" => starCall'[e].by # b
      BY <1>2, <2>2, <2>3, <2>4
    <3>. QED
      BY <3>1, <3>2 DEF BusyWithReason
  <2>8. ASSUME NEW d \in StarCall PROVE StarFits(d, starCall[d])'
    <3>1. CASE d = c
      BY <1>2, <3>1 DEF StarFits
    <3>2. CASE d # c
      <4>1. StarFits(d, starCall[d]) /\ starCall'[d] = starCall[d] /\ (starCall[d].at # "idle" => starCall[d].by # b)
            /\ starCall[d].by \in Button \cup {NULL}
        BY <1>1, <1>2, <2>4, <3>2 DEF StarIInv, StarRec
      <4>2. \A e \in StarCall : starCall'[e].at # "idle" => starCall'[e] = starCall[e]
        BY <1>2
      <4>. QED
        BY <1>1, <2>2, <2>3, <4>1, <4>2 DEF StarFits
    <3>. QED
      BY <3>1, <3>2
  <2>. QED
    BY <2>5, <2>6, <2>7, <2>8 DEF StarIInv
<1>. QED
  BY <1>3, <1>4

\* Every step of the stars.
LEMMA StarGoes ==
  ASSUME StarConstantsOK, StarIInv, [StarNext]_starVars PROVE StarIInv'
<1>1. CASE UNCHANGED starVars
  BY <1>1 DEF starVars, StarIInv, StarTypeOK, ButtonTrue, BusyWithReason, StarFits
<1>2. CASE StarNext
  BY <1>2, StarMounts, StarClicked, StarGoesOn, StarWritten, StarSettles DEF StarNext
<1>. QED
  BY <1>1, <1>2

\* The invariant is StarInv, and more.
LEMMA StarsFit ==
  ASSUME StarIInv PROVE StarInv
BY DEF StarIInv, StarInv

\* A button at rest shows the row of its viewer unless a write has gone past it, and is busy
\* with a request of its own (StarButton.tsx, star/route.ts).
THEOREM StarsShown ==
  ASSUME StarConstantsOK
  PROVE  StarInit /\ [][StarNext]_starVars => []StarInv
<1>1. StarInit => StarIInv
  BY StarBegins
<1>2. StarIInv /\ [StarNext]_starVars => StarIInv'
  BY StarGoes
<1>3. StarIInv => StarInv
  BY StarsFit
<1>. QED
  BY <1>1, <1>2, <1>3, PTL
=============================================================================
