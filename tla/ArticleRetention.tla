-------------------------- MODULE ArticleRetention --------------------------
(***************************************************************************)
(* The life of articles after they are written: the nightly purge selects  *)
(* the old ones that nobody starred, unlinks their hero images one by one  *)
(* and then deletes the rows in one statement, while agents write new      *)
(* articles and an admin stars and unstars from several tabs. Images are   *)
(* named by their content, so two articles with the same picture have the  *)
(* same file.                                                              *)
(***************************************************************************)
EXTENDS FiniteSets, Integers, Sql

CONSTANTS
  Article, Image, Tab,
  Pinnable,   \* articles that may be the first to bring up an unknown badge
  MaxStars,   \* bound: toggles of a star
  MaxDeaths   \* bound: nights on which the purge does not get through

ASSUME RetentionConstantsOK == NULL \notin Image /\ Pinnable \subseteq Article /\ MaxStars \in Nat /\ MaxDeaths \in Nat

VARIABLES
  article,   \* articles: planned, fetched (by the agent), then young, old, gone
  hash,      \* articles.hero_image_hash
  starred,   \* articles.starred
  pinned,    \* articles that a row of topic_badge_suggestions refers to
  files,     \* the images in MCP_IMAGE_DIR
  purge,     \* the purge: the rows it selected, those whose files it has yet to unlink
  tab,       \* a toggle in flight: the article, and the star it read
  doomed,    \* history: the articles some purge has selected
  stars,     \* toggles so far
  deaths     \* nights the purge died

retentionVars == <<article, hash, starred, pinned, files, purge, tab, doomed, stars, deaths>>

Resting == [at |-> "idle", rows |-> {}, todo |-> {}]
NoToggle == [art |-> NULL, saw |-> FALSE]
Stored == {a \in Article : article[a] \in {"young", "old"}}

RetentionTypeOK ==
  /\ article \in [Article -> {"planned", "fetched", "young", "old", "gone"}]
  /\ hash \in [Article -> Image \cup {NULL}]
  /\ starred \subseteq Article /\ pinned \subseteq Pinnable /\ doomed \subseteq Article
  /\ files \subseteq Image
  /\ purge \in [at : {"idle", "unlink", "delete"}, rows : SUBSET Article, todo : SUBSET Article]
  /\ tab \in [Tab -> [art : Article \cup {NULL}, saw : BOOLEAN]]
  /\ stars \in 0..MaxStars /\ deaths \in 0..MaxDeaths

RetentionInit ==
  /\ article = [a \in Article |-> "planned"] /\ hash = [a \in Article |-> NULL]
  /\ starred = {} /\ pinned = {} /\ doomed = {} /\ files = {}
  /\ purge = Resting
  /\ tab = [t \in Tab |-> NoToggle]
  /\ stars = 0 /\ deaths = 0

-----------------------------------------------------------------------------
(* write_articles: the picture is stored first, the row inserted later. *)

\* Mutant: a fetch that fails still names its picture.
FetchNames(a) ==
  /\ article[a] = "planned"
  /\ article' = [article EXCEPT ![a] = "fetched"]
  /\ \E h \in Image : hash' = [hash EXCEPT ![a] = h]
  /\ UNCHANGED <<files, starred, pinned, purge, tab, doomed, stars, deaths>>

\* fetchAndStoreHeroImage writes the file and names it, or fails and names none.
FetchImage(a) ==
  /\ article[a] = "planned"
  /\ article' = [article EXCEPT ![a] = "fetched"]
  /\ \/ \E h \in Image : hash' = [hash EXCEPT ![a] = h] /\ files' = files \cup {h}
     \/ UNCHANGED <<hash, files>>
  /\ UNCHANGED <<starred, pinned, purge, tab, doomed, stars, deaths>>

\* The row, and the suggestion when the article is the first to bring up a badge.
Insert(a) ==
  /\ article[a] = "fetched"
  /\ article' = [article EXCEPT ![a] = "young"]
  /\ pinned' \in {pinned, pinned \cup ({a} \cap Pinnable)}
  /\ UNCHANGED <<hash, starred, files, purge, tab, doomed, stars, deaths>>

\* Six months pass.
GrowsOld(a) ==
  /\ article[a] = "young"
  /\ article' = [article EXCEPT ![a] = "old"]
  /\ UNCHANGED <<hash, starred, pinned, files, purge, tab, doomed, stars, deaths>>

-----------------------------------------------------------------------------
(* toggleStar: reads the star, writes its opposite. *)

ReadStar(t) ==
  /\ tab[t] = NoToggle /\ stars < MaxStars
  /\ \E a \in Stored : tab' = [tab EXCEPT ![t] = [art |-> a, saw |-> a \in starred]]
  /\ stars' = stars + 1
  /\ UNCHANGED <<article, hash, starred, pinned, files, purge, doomed, deaths>>

WriteStar(t) ==
  /\ tab[t] # NoToggle
  /\ LET a == tab[t].art
     IN starred' = IF tab[t].saw \/ a \notin Stored THEN starred \ {a} ELSE starred \cup {a}
  /\ tab' = [tab EXCEPT ![t] = NoToggle]
  /\ UNCHANGED <<article, hash, pinned, files, purge, doomed, stars, deaths>>

-----------------------------------------------------------------------------
(* retention_purge, phase 2. *)

\* Mutant: what one purge has taken up is not taken up again.
DueOnce == {a \in Article : article[a] = "old" /\ a \notin starred \cup doomed}
Due == {a \in Article : article[a] = "old" /\ a \notin starred}
Select ==
  /\ purge = Resting /\ Due # {}
  /\ purge' = [at |-> "unlink", rows |-> Due, todo |-> {a \in Due : hash[a] # NULL}]
  /\ doomed' = doomed \cup Due
  /\ UNCHANGED <<article, hash, starred, pinned, files, tab, stars, deaths>>

\* No article is due: the night ends there.
NothingDue == purge = Resting /\ Due = {} /\ UNCHANGED retentionVars

\* The file goes, or was gone already, or cannot be removed, which is counted only.
UnlinkFile ==
  /\ purge.at = "unlink"
  /\ \E a \in purge.todo :
       /\ purge' = [purge EXCEPT !.todo = @ \ {a}]
       /\ files' \in {files, files \ {hash[a]}}
  /\ UNCHANGED <<article, hash, starred, pinned, tab, doomed, stars, deaths>>

UnlinkDone ==
  /\ purge.at = "unlink" /\ purge.todo = {}
  /\ purge' = [purge EXCEPT !.at = "delete"]
  /\ UNCHANGED <<article, hash, starred, pinned, files, tab, doomed, stars, deaths>>

\* DELETE ... WHERE id IN (...): one statement, by id alone.
Delete ==
  /\ purge.at = "delete" /\ purge.rows \cap pinned = {}
  /\ article' = [a \in Article |-> IF a \in purge.rows THEN "gone" ELSE article[a]]
  /\ starred' = starred \ purge.rows
  /\ purge' = Resting
  /\ UNCHANGED <<hash, pinned, files, tab, doomed, stars, deaths>>

\* A suggestion refers to one of the rows: the foreign key fails the statement, runJob
\* records the failure, and every row stays.
DeleteRefused ==
  /\ purge.at = "delete" /\ purge.rows \cap pinned # {}
  /\ purge' = Resting
  /\ UNCHANGED <<article, hash, starred, pinned, files, tab, doomed, stars, deaths>>

\* The database fails, or the sidecar dies, anywhere in between.
PurgeDies ==
  /\ purge # Resting /\ deaths < MaxDeaths
  /\ purge' = Resting /\ deaths' = deaths + 1
  /\ UNCHANGED <<article, hash, starred, pinned, files, tab, doomed, stars>>

RetentionNext ==
  \/ \E a \in Article : FetchImage(a) \/ Insert(a) \/ GrowsOld(a)
  \/ \E t \in Tab : ReadStar(t) \/ WriteStar(t)
  \/ Select \/ NothingDue \/ UnlinkFile \/ UnlinkDone \/ Delete \/ DeleteRefused \/ PurgeDies

RetentionSpec == RetentionInit /\ [][RetentionNext]_retentionVars

\* The purge runs every night, and requests finish.
RetentionFairSpec ==
  /\ RetentionSpec
  /\ WF_retentionVars(Select) /\ WF_retentionVars(UnlinkFile) /\ WF_retentionVars(UnlinkDone)
  /\ WF_retentionVars(Delete) /\ WF_retentionVars(DeleteRefused)
  /\ \A t \in Tab : WF_retentionVars(WriteStar(t))

-----------------------------------------------------------------------------
(* Properties. *)

\* An article no purge has selected has its picture, whatever else is purged, written
\* and starred meanwhile. It takes pictures that no two articles share.
UnsharedImages == \A a, b \in Article : a # b /\ hash[a] # NULL => hash[a] # hash[b]
UntouchedHasImage == UnsharedImages => \A a \in Stored \ doomed : hash[a] # NULL => hash[a] \in files

\* What a purge holds was doomed when it was selected, and was stored then; an article
\* that is not fetched yet names no picture.
PurgeOfDoomed ==
  /\ purge.todo \subseteq purge.rows /\ purge.rows \subseteq doomed
  /\ \A a \in doomed : article[a] \in {"old", "gone"}
  /\ \A a \in Article : /\ article[a] = "gone" => a \in doomed
                        /\ article[a] = "planned" => hash[a] = NULL

RetentionInv == RetentionTypeOK /\ UntouchedHasImage /\ PurgeOfDoomed

\* Old articles without a star are deleted in the end, failing nights and toggles
\* notwithstanding, as long as no suggestion refers to one that is due.
OldGoUnlessPinned == \A a \in Article :
  article[a] = "old" ~> article[a] = "gone" \/ a \in starred \/ Due \cap pinned # {}

\* retention-purge.ts:16, :37-39: articles older than six months are deleted, except
\* starred ones; a delete phase that fails is retried on the next tick.
OldGo == \A a \in Article : article[a] = "old" ~> article[a] = "gone" \/ a \in starred

\* retention-purge.ts:21: starred articles persist indefinitely.
StarredPersist == [][\A a \in starred : article'[a] # "gone"]_retentionVars

\* docs/architecture.md:116: image files are removed alongside the deletion of their
\* rows, so an article that no purge ever selected has its picture.
ImagesWithRows == \A a \in Stored \ doomed : hash[a] # NULL => hash[a] \in files
=============================================================================
