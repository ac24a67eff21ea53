----------------------------- MODULE ReaderPrefs -----------------------------
(***************************************************************************)
(* What a reader keeps in the browser: starred and hidden topics, starred  *)
(* articles and creators, as sets under keys of localStorage, and the      *)
(* parts of pages that show one from the moment they were mounted on.      *)
(* Nothing tells a part what another one writes, of its page or of another *)
(* tab. Scripts of one origin run one at a time; a setItem may throw.      *)
(***************************************************************************)
EXTENDS Naturals, Sequences, FiniteSets, Sql

CONSTANTS
  Widget,   \* mounted buttons and lists that call useTopicPrefs or article-prefs
  Topic,  \* topics
  Fancied \* creators, or articles, which are kept alike: starred or not, never hidden

\* Assumed of the constants.
PrefsConstantsOK == Topic \cap Fancied = {}

VARIABLES
  stored, \* localStorage
  shown,  \* the sets a part last read; NULL for one that is not mounted
  passed  \* history: what of a part another write, or one of its own that threw, has passed

prefsVars == <<stored, shown, passed>>

\* readSet of the three keys.
Prefs == [starred : SUBSET Topic, hidden : SUBSET Topic, fancied : SUBSET Fancied]
Sort == {"topics", "fancied"}

PrefsTypeOK ==
  /\ stored \in Prefs /\ shown \in [Widget -> Prefs \cup {NULL}] /\ passed \subseteq Widget \X Sort

\* The storage as an earlier visit left it.
PrefsInit ==
  /\ stored \in {p \in Prefs : p.starred \cap p.hidden = {}}
  /\ shown = [p \in Widget |-> NULL] /\ passed = {}

\* The effect of the mount; before it the sets are empty.
MountWidget(p) ==
  /\ shown[p] = NULL /\ shown' = [shown EXCEPT ![p] = stored] /\ passed' = passed \ ({p} \X Sort)
  /\ UNCHANGED stored
UnmountWidget(p) ==
  /\ shown[p] # NULL /\ shown' = [shown EXCEPT ![p] = NULL] /\ passed' = passed \ ({p} \X Sort)
  /\ UNCHANGED stored

Others(p) == {q \in Widget \ {p} : shown[q] # NULL}

\* What a part reads again after a click: both sets of topics, or the other one.
Reread(p, sort) ==
  IF sort = "topics"
  THEN [shown EXCEPT ![p].starred = stored'.starred, ![p].hidden = stored'.hidden]
  ELSE [shown EXCEPT ![p].fancied = stored'.fancied]

\* The writes of a toggle, in their order: each entry is the storage after one more of them.
Topple(set, x) == IF x \in set THEN set \ {x} ELSE set \cup {x}

\* toggleStarredTopic: out of the hidden ones first, then into the starred ones.
StarWrites(t) ==
  LET unhidden == [stored EXCEPT !.hidden = stored.hidden \ {t}] IN
  IF t \notin stored.starred /\ t \in stored.hidden
  THEN <<unhidden, [unhidden EXCEPT !.starred = stored.starred \cup {t}]>>
  ELSE <<[stored EXCEPT !.starred = Topple(stored.starred, t)]>>

\* toggleNotInterestedTopic: the other way round.
HideWrites(t) ==
  LET unstarred == [stored EXCEPT !.starred = stored.starred \ {t}] IN
  IF t \notin stored.hidden /\ t \in stored.starred
  THEN <<unstarred, [unstarred EXCEPT !.hidden = stored.hidden \cup {t}]>>
  ELSE <<[stored EXCEPT !.hidden = Topple(stored.hidden, t)]>>

\* toggleStarredArticle, toggleStarredCreator.
FancyWrites(x) == <<[stored EXCEPT !.fancied = Topple(stored.fancied, x)]>>

\* A click: the writes up to the last, or to one that throws. The part reads the sets again
\* after the last; an exception leaves it with what it showed.
Toggled(p, sort, writes) ==
  /\ shown[p] # NULL
  /\ \/ /\ stored' = writes[Len(writes)] /\ shown' = Reread(p, sort)
        /\ passed' = (passed \ {<<p, sort>>}) \cup (Others(p) \X {sort})
     \/ /\ Len(writes) > 1 /\ stored' = writes[1]
        /\ passed' = passed \cup (({p} \cup Others(p)) \X {sort}) /\ UNCHANGED shown

ToggleStar(p, t) == Toggled(p, "topics", StarWrites(t))
\* The Restore button of the Favorites page, the one place to toggle what is hidden.
RestoreTopic(p, t) ==
  shown[p] # NULL /\ t \in shown[p].hidden /\ Toggled(p, "topics", HideWrites(t))
ToggleFancied(p, x) == Toggled(p, "fancied", FancyWrites(x))

\* FilteredArticleMasonry: an article is left out when one of its topics is hidden, unless the
\* page is about a topic.
LeftOut(p, badges) == badges \cap shown[p].hidden # {}

PrefsNext == \E p \in Widget :
  \/ MountWidget(p) \/ UnmountWidget(p)
  \/ \E t \in Topic : ToggleStar(p, t) \/ RestoreTopic(p, t)
  \/ \E x \in Fancied : ToggleFancied(p, x)

(***************************************************************************)
(* Properties                                                              *)
(***************************************************************************)
\* No topic is both starred and hidden, in the storage and as any part shows it, whatever
\* setItem throws (topic-prefs.ts: "Mutual exclusion").
NeverBoth ==
  /\ stored.starred \cap stored.hidden = {}
  /\ \A p \in Widget : shown[p] # NULL => shown[p].starred \cap shown[p].hidden = {}
\* A part that no write has passed shows the storage (useTopicPrefs, article-prefs.ts).
WidgetsTrue == \A p \in Widget : shown[p] # NULL =>
  /\ <<p, "topics">> \notin passed =>
       shown[p].starred = stored.starred /\ shown[p].hidden = stored.hidden
  /\ <<p, "fancied">> \notin passed => shown[p].fancied = stored.fancied
PrefsInv == PrefsTypeOK /\ NeverBoth /\ WidgetsTrue

\* What the code's words say and it does not keep: that Restore takes a topic off the list
\* (NotInterestedTopicsList.tsx: "a Restore button that removes the topic from the list").
RestoreRestores == [][\A p \in Widget, t \in Topic : RestoreTopic(p, t) => t \notin stored'.hidden]_prefsVars
=============================================================================
