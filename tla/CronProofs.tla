----------------------------- MODULE CronProofs -----------------------------
(***************************************************************************)
(* The drain cuts off no tick within its budget, and no tick that ended in *)
(* time leaves a dangling cron_runs row, for every number of ticks and of  *)
(* failing statements.                                                     *)
(*                                                                         *)
(* The counter is exact only as long as a process lives: the invariant has *)
(* to say that nothing runs after it has ended, so that the next process   *)
(* may begin at zero. And a row can become "succeeded" only from a tick    *)
(* that is closing, so a closing tick must have had its body return.       *)
(*                                                                         *)
(* The last sections are of the jobs. The retention purge takes no picture *)
(* of an article that it has not selected. And the backups: as one local   *)
(* backup at a time runs, in the order of the nights, whoever sweeps has   *)
(* left a whole dump of its own night, so that the newest one stays; a     *)
(* recorded success stands for a dump that is there, and a later off-site  *)
(* tick ships it.                                                          *)
(***************************************************************************)
EXTENDS CronJobs, ArticleRetention, NightlyBackup, FiniteSetTheorems, WellFoundedInduction, TLAPS

DeadStill == proc = "exited" => Flying = {}
ClosingDone == \A t \in Tick : tick[t] = "close" => t \in done
Counted == DeadStill /\ CounterExact
Rows == RowsClosed /\ SuccessesTrue /\ ClosingDone
IInv == CronTypeOK /\ Counted /\ Rows

State == Running \cup {"due", "skipped", "over", "killed"}

LEMMA FlyingFinite == IsFiniteSet(Flying)
<1>1. Flying \subseteq Tick  BY DEF Flying
<1> QED  BY <1>1, CronConstantsOK, FS_Subset DEF CronConstantsOK

\* What a step of one tick does to the set of ticks in flight.
LEMMA FlyingMoves ==
  ASSUME tick \in [Tick -> State], NEW t \in Tick, NEW s, tick' = [tick EXCEPT ![t] = s]
  PROVE  Flying' = IF s \in Running THEN Flying \cup {t} ELSE Flying \ {t}
BY DEF Flying

-----------------------------------------------------------------------------
LEMMA InitInv == CronInit => IInv
<1> SUFFICES ASSUME CronInit PROVE IInv  OBVIOUS
<1>1. Flying = {}  BY DEF CronInit, Flying, Running
<1>2. Counted  BY <1>1, FS_EmptySet DEF CronInit, Counted, DeadStill, CounterExact, Alive
<1>3. CronTypeOK
  <2>1. 0 \in 0..MaxFaults  BY CronConstantsOK DEF CronConstantsOK
  <2>2. tick \in [Tick -> Running \cup {"due", "skipped", "over", "killed"}]  BY DEF CronInit
  <2>3. row \in [Tick -> {"none", "open", "succeeded", "failed"}]  BY DEF CronInit
  <2> QED  BY <2>1, <2>2, <2>3 DEF CronInit, CronTypeOK
<1>4. Rows  BY DEF CronInit, Rows, RowsClosed, SuccessesTrue, ClosingDone
<1> QED  BY <1>2, <1>3, <1>4 DEF IInv

\* A step of one tick, by what it does to tick and counter.
LEMMA CountedByStep ==
  ASSUME IInv, NEW t \in Tick, NEW s \in State, tick' = [tick EXCEPT ![t] = s],
         proc' = proc, Alive,
         \/ tick[t] \in Running /\ s \in Running /\ inFlight' = inFlight
         \/ tick[t] \in Running /\ s \notin Running /\ inFlight' = inFlight - 1
         \/ tick[t] \notin Running /\ s \in Running /\ inFlight' = inFlight + 1
         \/ tick[t] \notin Running /\ s \notin Running /\ inFlight' = inFlight
  PROVE  Counted' /\ inFlight' \in Nat
<1>1. Flying' = IF s \in Running THEN Flying \cup {t} ELSE Flying \ {t}
  BY FlyingMoves DEF IInv, CronTypeOK, State
<1>2. t \in Flying <=> tick[t] \in Running  BY DEF Flying
<1>3. inFlight = Cardinality(Flying) /\ inFlight \in Nat
  BY DEF IInv, Counted, CounterExact, CronTypeOK
<1>4. IsFiniteSet(Flying)  BY FlyingFinite
<1>5. Cardinality(Flying \cup {t}) = IF t \in Flying THEN Cardinality(Flying) ELSE Cardinality(Flying) + 1
  BY <1>4, FS_AddElement
<1>6. Cardinality(Flying \ {t}) = IF t \in Flying THEN Cardinality(Flying) - 1 ELSE Cardinality(Flying)
  BY <1>4, FS_RemoveElement
<1>7. IsFiniteSet(Flying \ {t}) /\ IsFiniteSet(Flying \cup {t})  BY <1>4, FS_AddElement, FS_RemoveElement
<1>8. Cardinality(Flying \ {t}) \in Nat /\ Cardinality(Flying \cup {t}) \in Nat
  BY <1>7, FS_CardinalityType
<1>9. inFlight' = Cardinality(Flying') /\ inFlight' \in Nat
  BY <1>1, <1>2, <1>3, <1>5, <1>6, <1>8
<1> QED  BY <1>9 DEF Counted, DeadStill, CounterExact, Alive

LEMMA FlyingAlive == ASSUME IInv, NEW t \in Tick, tick[t] \in Running PROVE Alive
BY DEF IInv, Counted, DeadStill, Alive, Flying

\* A tick's own steps.
LEMMA TickPreserves == ASSUME IInv, NEW t \in Tick, Fire(t) \/ TickStep(t) \/ BodyStep(t)
                       PROVE IInv'
<1>1. CASE Fire(t)
  <2>1. CASE proc = "up"
    <3>1. tick' = [tick EXCEPT ![t] = "insert"] /\ inFlight' = inFlight + 1 /\ proc' = proc
      BY <1>1, <2>1 DEF Fire, shuttingDown
    <3>2. Counted' /\ inFlight' \in Nat
      BY <1>1, <2>1, <3>1, CountedByStep DEF Fire, Alive, State, Running
    <3> QED  BY <1>1, <3>1, <3>2
         DEF Fire, IInv, CronTypeOK, Running, Rows, RowsClosed, SuccessesTrue, ClosingDone
  <2>2. CASE proc # "up"
    <3>1. tick' = [tick EXCEPT ![t] = "skipped"] /\ inFlight' = inFlight /\ proc' = proc
      BY <1>1, <2>2 DEF Fire, shuttingDown
    <3>2. Counted' /\ inFlight' \in Nat
      BY <1>1, <2>2, <3>1, CountedByStep DEF Fire, Alive, State, Running
    <3> QED  BY <1>1, <3>1, <3>2
         DEF Fire, IInv, CronTypeOK, Running, Rows, RowsClosed, SuccessesTrue, ClosingDone
  <2> QED  BY <2>1, <2>2
<1>2. CASE OpenRow(t)
  <2>1. Counted' /\ inFlight' \in Nat
    BY <1>2, FlyingAlive, CountedByStep DEF OpenRow, State, Running
  <2> QED  BY <1>2, <2>1
       DEF OpenRow, IInv, CronTypeOK, Running, Rows, RowsClosed, SuccessesTrue, ClosingDone
<1>3. CASE OpenFails(t)
  <2>1. Counted' /\ inFlight' \in Nat
    BY <1>3, FlyingAlive, CountedByStep DEF OpenFails, State, Running
  <2> QED  BY <1>3, <2>1, CronConstantsOK
       DEF CronConstantsOK, OpenFails, IInv, CronTypeOK, Running, Rows, RowsClosed, SuccessesTrue, ClosingDone
<1>4. CASE BodyReturns(t)
  <2>1. Counted' /\ inFlight' \in Nat
    BY <1>4, FlyingAlive, CountedByStep DEF BodyReturns, State, Running
  <2> QED  BY <1>4, <2>1
       DEF BodyReturns, IInv, CronTypeOK, Running, Rows, RowsClosed, SuccessesTrue, ClosingDone
<1>5. CASE BodyThrows(t)
  <2>1. Counted' /\ inFlight' \in Nat
    BY <1>5, FlyingAlive, CountedByStep DEF BodyThrows, State, Running
  <2> QED  BY <1>5, <2>1
       DEF BodyThrows, IInv, CronTypeOK, Running, Rows, RowsClosed, SuccessesTrue, ClosingDone
<1>6. CASE CloseRow(t)
  <2>1. Counted' /\ inFlight' \in Nat
    BY <1>6, FlyingAlive, CountedByStep DEF CloseRow, State, Running
  <2> QED  BY <1>6, <2>1
       DEF CloseRow, IInv, CronTypeOK, Running, Rows, RowsClosed, SuccessesTrue, ClosingDone
<1>7. CASE CloseFails(t)
  <2>1. Counted' /\ inFlight' \in Nat
    BY <1>7, FlyingAlive, CountedByStep DEF CloseFails, State, Running
  <2> QED  BY <1>7, <2>1, CronConstantsOK
       DEF CronConstantsOK, CloseFails, IInv, CronTypeOK, Running, Rows, RowsClosed, SuccessesTrue, ClosingDone
<1>8. CASE RecordFailure(t)
  <2>1. Counted' /\ inFlight' \in Nat
    BY <1>8, FlyingAlive, CountedByStep DEF RecordFailure, State, Running
  <2> QED  BY <1>8, <2>1
       DEF RecordFailure, IInv, CronTypeOK, Running, Rows, RowsClosed, SuccessesTrue, ClosingDone
<1>9. CASE RecordFails(t)
  <2>1. Counted' /\ inFlight' \in Nat
    BY <1>9, FlyingAlive, CountedByStep DEF RecordFails, State, Running
  <2> QED  BY <1>9, <2>1, CronConstantsOK
       DEF CronConstantsOK, RecordFails, IInv, CronTypeOK, Running, Rows, RowsClosed, SuccessesTrue, ClosingDone
<1>10. CASE Leave(t)
  <2>1. Counted' /\ inFlight' \in Nat
    BY <1>10, FlyingAlive, CountedByStep DEF Leave, State, Running
  <2> QED  BY <1>10, <2>1
       DEF Leave, IInv, CronTypeOK, Running, Rows, RowsClosed, SuccessesTrue, ClosingDone
<1> QED  BY <1>1, <1>2, <1>3, <1>4, <1>5, <1>6, <1>7, <1>8, <1>9, <1>10 DEF TickStep, BodyStep

\* The process.
LEMMA ProcPreserves == ASSUME IInv, ProcStep PROVE IInv'
<1>1. CASE Signal \/ TasksStopped \/ DrainDeadline
  <2>1. Flying' = Flying  BY <1>1 DEF Signal, TasksStopped, DrainDeadline, Flying
  <2> QED  BY <1>1, <2>1 DEF Signal, TasksStopped, DrainDeadline, IInv, CronTypeOK, Counted,
              DeadStill, CounterExact, Alive, Rows, RowsClosed, SuccessesTrue, ClosingDone
<1>2. CASE Exit \/ Crash
  <2>1. Gone  BY <1>2 DEF Exit, Crash
  <2>2. Flying' = {}  BY <2>1 DEF Gone, Flying, Running
  <2>3. Counted'  BY <2>1, <2>2 DEF Gone, Counted, DeadStill, CounterExact, Alive
  <2>4. CronTypeOK'  BY <2>1 DEF Gone, IInv, CronTypeOK
  <2>5. Rows'  BY <2>1 DEF Gone, IInv, Rows, RowsClosed, SuccessesTrue, ClosingDone, Flying, Running
  <2> QED  BY <2>3, <2>4, <2>5 DEF IInv
<1>3. CASE Restart
  <2>1. Flying' = {}  BY <1>3 DEF Restart, IInv, Counted, DeadStill, Flying
  <2>2. Counted'  BY <1>3, <2>1, FS_EmptySet DEF Restart, Counted, DeadStill, CounterExact, Alive
  <2> QED  BY <1>3, <2>2
       DEF Restart, IInv, CronTypeOK, Rows, RowsClosed, SuccessesTrue, ClosingDone
<1> QED  BY <1>1, <1>2, <1>3 DEF ProcStep

LEMMA NextPreserves == IInv /\ [CronNext]_cronvars => IInv'
<1> SUFFICES ASSUME IInv, [CronNext]_cronvars PROVE IInv'  OBVIOUS
<1>1. CASE UNCHANGED cronvars
  <2>1. Flying' = Flying  BY <1>1 DEF cronvars, Flying
  <2> QED  BY <1>1, <2>1 DEF cronvars, IInv, CronTypeOK, Counted, DeadStill, CounterExact, Alive,
              Rows, RowsClosed, SuccessesTrue, ClosingDone
<1>2. CASE CronNext  BY <1>2, TickPreserves, ProcPreserves DEF CronNext
<1> QED  BY <1>1, <1>2

\* The counter of server.ts is exact, a tick that ended in time leaves its row closed, and a
\* row that says succeeded is of a body that returned.
THEOREM JobsAccountedFor == CronSpec => []CronInv
<1>1. CronInit => IInv  BY InitInv
<1>2. IInv /\ [CronNext]_cronvars => IInv'  BY NextPreserves
<1>3. IInv => CronInv  BY DEF IInv, Counted, Rows, CronInv
<1> QED  BY <1>1, <1>2, <1>3, PTL DEF CronSpec

\* A process that exits within the drain budget cuts off no tick.
THEOREM DrainIsClean == CronSpec => DrainCutsNone
<1>1. CronInit => IInv  BY InitInv
<1>2. IInv /\ [CronNext]_cronvars => IInv'  BY NextPreserves
<1>3. IInv /\ [CronNext]_cronvars => [Exit /\ ~late => Flying = {}]_cronvars
  <2> SUFFICES ASSUME IInv, Exit, ~late PROVE Flying = {}  OBVIOUS
  <2>1. Cardinality(Flying) = 0  BY DEF Exit, IInv, Counted, CounterExact, Alive
  <2> QED  BY <2>1, FlyingFinite, FS_EmptySet
<1> QED  BY <1>1, <1>2, <1>3, PTL DEF CronSpec, DrainCutsNone
-----------------------------------------------------------------------------
(* retention_purge: pictures of articles that no purge has selected. *)

\* The invariant, strengthened to articles that are fetched and not inserted yet.
ImagesStay == UnsharedImages => \A a \in Article \ doomed : hash[a] # NULL => hash[a] \in files
RetentionIInv == RetentionTypeOK /\ ImagesStay /\ PurgeOfDoomed

LEMMA InitRetention == RetentionInit => RetentionIInv
<1>1. 0 \in 0..MaxStars /\ 0 \in 0..MaxDeaths
  BY RetentionConstantsOK DEF RetentionConstantsOK
<1>2. FALSE \in BOOLEAN
  OBVIOUS
<1>. QED
  BY <1>1, <1>2 DEF RetentionInit, RetentionIInv, RetentionTypeOK, ImagesStay, PurgeOfDoomed, Resting, NoToggle

\* An article is inserted, or grows old: its picture is the one it was fetched with.
LEMMA ArticleMoves ==
  ASSUME RetentionIInv, NEW a \in Article, Insert(a) \/ GrowsOld(a)
  PROVE  RetentionIInv'
<1>. USE DEF RetentionIInv
<1>1. RetentionTypeOK' /\ PurgeOfDoomed'
  BY RetentionConstantsOK DEF RetentionConstantsOK, Insert, GrowsOld, RetentionTypeOK, PurgeOfDoomed
<1>2. ImagesStay'
  BY DEF Insert, GrowsOld, ImagesStay, UnsharedImages
<1>. QED
  BY <1>1, <1>2

\* A picture is stored and named, or neither. It takes none away, so whoever had one has it still.
LEMMA ImageFetched ==
  ASSUME RetentionIInv, NEW a \in Article, FetchImage(a) PROVE RetentionIInv'
<1>. USE DEF RetentionIInv
<1>1. /\ article' = [article EXCEPT ![a] = "fetched"] /\ hash[a] = NULL /\ files \subseteq files'
      /\ UNCHANGED <<starred, pinned, purge, tab, doomed, stars, deaths>>
      /\ \/ hash' = hash /\ files' = files
         \/ \E h \in Image : hash' = [hash EXCEPT ![a] = h] /\ files' = files \cup {h}
  BY DEF FetchImage, PurgeOfDoomed
<1>2. RetentionTypeOK'
  BY <1>1 DEF RetentionTypeOK
<1>3. PurgeOfDoomed'
  BY <1>1 DEF RetentionTypeOK, PurgeOfDoomed, FetchImage
<1>4. ASSUME UnsharedImages' PROVE UnsharedImages
  <2>1. \A b \in Article : hash[b] # NULL => hash'[b] = hash[b]
    BY <1>1 DEF RetentionTypeOK
  <2>. QED
    BY <1>4, <2>1 DEF UnsharedImages
<1>5. ImagesStay'
  <2>. SUFFICES ASSUME UnsharedImages', NEW b \in Article \ doomed, hash'[b] # NULL
                PROVE  hash'[b] \in files'
    BY <1>1 DEF ImagesStay
  <2>1. CASE hash'[b] = hash[b]
    BY <1>1, <1>4, <2>1 DEF ImagesStay
  <2>2. CASE hash'[b] # hash[b]
    BY <1>1, <2>2 DEF RetentionTypeOK
  <2>. QED
    BY <2>1, <2>2
<1>. QED
  BY <1>2, <1>3, <1>5

\* An article is selected only when it is old; then it may lose its picture.
LEMMA PurgeSelects == ASSUME RetentionIInv, Select PROVE RetentionIInv'
<1>. USE DEF RetentionIInv
<1>1. RetentionTypeOK'
  BY DEF Select, Due, RetentionTypeOK
<1>2. PurgeOfDoomed'
  BY DEF Select, Due, RetentionTypeOK, PurgeOfDoomed
<1>3. ImagesStay'
  BY DEF Select, ImagesStay, UnsharedImages
<1>. QED
  BY <1>1, <1>2, <1>3

\* The file that goes is that of a doomed article, so of nobody else's who shares none.
LEMMA FileUnlinked == ASSUME RetentionIInv, UnlinkFile PROVE RetentionIInv'
<1>. USE DEF RetentionIInv
<1>1. PICK a \in purge.todo : /\ purge' = [purge EXCEPT !.todo = @ \ {a}]
                              /\ files' \in {files, files \ {hash[a]}}
  BY DEF UnlinkFile
<1>2. RetentionTypeOK'
  BY <1>1 DEF UnlinkFile, RetentionTypeOK
<1>3. PurgeOfDoomed'
  BY <1>1 DEF UnlinkFile, RetentionTypeOK, PurgeOfDoomed
<1>4. a \in doomed /\ a \in Article
  BY DEF RetentionTypeOK, PurgeOfDoomed
<1>5. ImagesStay'
  <2>. SUFFICES ASSUME UnsharedImages, NEW b \in Article \ doomed, hash[b] # NULL
                PROVE  hash[b] \in files'
    BY DEF ImagesStay, UnsharedImages, UnlinkFile
  <2>1. hash[b] # hash[a]
    BY <1>4 DEF UnsharedImages
  <2>. QED
    BY <1>1, <2>1 DEF ImagesStay
<1>. QED
  BY <1>2, <1>3, <1>5

\* The purge goes on, deletes what it holds, or ends.
LEMMA PurgeMoves ==
  ASSUME RetentionIInv, UnlinkDone \/ Delete \/ DeleteRefused \/ PurgeDies PROVE RetentionIInv'
<1>. USE DEF RetentionIInv
<1>1. RetentionTypeOK'
  BY RetentionConstantsOK
     DEF RetentionConstantsOK, UnlinkDone, Delete, DeleteRefused, PurgeDies, RetentionTypeOK, Resting
<1>2. PurgeOfDoomed'
  BY DEF UnlinkDone, Delete, DeleteRefused, PurgeDies, RetentionTypeOK, PurgeOfDoomed, Resting
<1>3. ImagesStay'
  BY DEF UnlinkDone, Delete, DeleteRefused, PurgeDies, ImagesStay, UnsharedImages
<1>. QED
  BY <1>1, <1>2, <1>3

\* A toggle changes stars alone.
LEMMA StarMoves ==
  ASSUME RetentionIInv, NEW t \in Tab, ReadStar(t) \/ WriteStar(t) PROVE RetentionIInv'
<1>. USE DEF RetentionIInv
<1>1. RetentionTypeOK'
  <2>1. CASE ReadStar(t)
    <3>1. PICK a \in Stored : tab' = [tab EXCEPT ![t] = [art |-> a, saw |-> a \in starred]]
      BY <2>1 DEF ReadStar
    <3>2. (a \in starred) \in BOOLEAN /\ a \in Article
      BY DEF Stored
    <3>3. [art |-> a, saw |-> a \in starred] \in [art : Article \cup {NULL}, saw : BOOLEAN]
      BY <3>2, Zenon
    <3>4. tab' \in [Tab -> [art : Article \cup {NULL}, saw : BOOLEAN]]
      BY <3>1, <3>3 DEF RetentionTypeOK
    <3>. QED
      BY <2>1, <3>4, RetentionConstantsOK DEF RetentionConstantsOK, ReadStar, RetentionTypeOK
  <2>2. CASE WriteStar(t)
    <3>1. NoToggle \in [art : Article \cup {NULL}, saw : BOOLEAN]
      BY DEF NoToggle
    <3>2. tab' \in [Tab -> [art : Article \cup {NULL}, saw : BOOLEAN]]
      BY <2>2, <3>1 DEF WriteStar, RetentionTypeOK
    <3>3. starred' \subseteq Article
      BY <2>2 DEF WriteStar, RetentionTypeOK, Stored
    <3>. QED
      BY <2>2, <3>2, <3>3 DEF WriteStar, RetentionTypeOK
  <2>. QED
    BY <2>1, <2>2
<1>2. PurgeOfDoomed' /\ ImagesStay'
  BY DEF ReadStar, WriteStar, PurgeOfDoomed, ImagesStay, UnsharedImages
<1>. QED
  BY <1>1, <1>2

\* An article that no purge has selected keeps its picture, whatever is purged, fetched,
\* inserted and starred meanwhile, as long as no two articles share one
\* (retention-purge.ts, image-pipeline.ts).
THEOREM UntouchedKeepImages == RetentionSpec => []RetentionInv
<1>1. RetentionIInv /\ [RetentionNext]_retentionVars => RetentionIInv'
  <2>. SUFFICES ASSUME RetentionIInv, [RetentionNext]_retentionVars PROVE RetentionIInv'
    OBVIOUS
  <2>1. CASE UNCHANGED retentionVars
    BY <2>1 DEF retentionVars, RetentionIInv, RetentionTypeOK, ImagesStay, UnsharedImages, PurgeOfDoomed
  <2>2. CASE RetentionNext
    BY <2>1, <2>2, ArticleMoves, ImageFetched, PurgeSelects, FileUnlinked, PurgeMoves, StarMoves
       DEF RetentionNext, NothingDue
  <2>. QED
    BY <2>1, <2>2
<1>2. RetentionIInv => RetentionInv
  BY DEF RetentionIInv, RetentionInv, ImagesStay, UntouchedHasImage, Stored
<1>. QED
  BY <1>1, <1>2, InitRetention, PTL DEF RetentionSpec
-----------------------------------------------------------------------------
(* local_backup and off_site_backup: what is recorded, swept and shipped. *)

\* The process is up or has ended: what BackupNext knows of it.
UpOrEnded == proc \in {"up", "exited"} /\ (proc = "exited" => restarts < MaxRestarts)
\* A tick whose time has not come has not begun.
NotBegun(t) == clock < Turn(t) => tick[t] = "due" /\ step[t] = "start"
StepOfKind(t) == (OffSite(t) => step[t] \in {"start", "ship"}) /\ (Local(t) => step[t] # "ship")
\* A local backup returns, and is recorded as succeeded, after its sweep only.
SweptFirst(t) == Local(t) /\ (tick[t] = "close" \/ row[t] = "succeeded") => step[t] = "swept"
\* Local backups do not overlap, and none begins ahead of one that runs.
OneLocal == \A t, u \in Flying : Local(t) /\ Local(u) => t = u
NoneAhead == \A t, u \in Tick :
  Local(t) /\ Local(u) /\ tick[t] \in Running /\ Night(t) < Night(u) => step[u] = "start"
\* The files of a night are those its local backup has come to.
DumpThere(t) == \/ File("dump", Night(t), TRUE) \in disk
                \/ \E u \in Tick : Local(u) /\ step[u] = "swept" /\ Night(t) < Night(u) - RetentionNights
FilesOfNight(t) == Local(t) =>
  /\ step[t] = "start" => \A f \in disk : f.night # Night(t)
  /\ step[t] \in {"dump", "images"} => \A f \in disk : FileName(f) # <<"images", Night(t)>>
  /\ step[t] \in {"images", "tar", "sweep", "swept"} => DumpThere(t)

TicksInOrder == /\ UpOrEnded /\ OneLocal /\ NoneAhead
                /\ \A t \in Tick : NotBegun(t) /\ StepOfKind(t) /\ SweptFirst(t)
FilesInOrder == NamesUnique /\ \A t \in Tick : FilesOfNight(t)
NightTypeOK == /\ clock \in 0..(2 * Nights) /\ restarts \in 0..MaxRestarts
               /\ step \in [Tick -> {"start", "dump", "images", "tar", "sweep", "swept", "ship"}]
               /\ disk \subseteq FileType /\ remote \subseteq FileType
ShipOfTicks == DOMAIN ship = Tick
NightIInv == IInv /\ NightTypeOK /\ ShipOfTicks /\ TicksInOrder /\ FilesInOrder

\* Ticks by their kind and night.
LEMMA TicksOfNights ==
  ASSUME NEW t \in Tick
  PROVE  /\ Night(t) \in 1..Nights /\ Night(t) \in Nat /\ Turn(t) \in 1..(2 * Nights) /\ Turn(t) \in Nat
         /\ (OffSite(t) <=> ~Local(t))
         /\ <<"local", Night(t)>> \in Tick
         /\ \A u \in Tick : Local(t) /\ Local(u) => /\ (Night(t) = Night(u) => t = u)
                                                  /\ (Night(t) < Night(u) => Turn(t) < Turn(u))
<1>1. \A u \in Tick : u \in {"local", "off"} \X (1..Nights) /\ Nights \in Nat
  BY BackupConstantsOK DEF BackupConstantsOK
<1>2. \A u \in Tick : u = <<u[1], u[2]>> /\ u[1] \in {"local", "off"} /\ u[2] \in 1..Nights
  BY <1>1
<1>3. <<"local", Night(t)>> \in Tick
  BY <1>2, BackupConstantsOK DEF BackupConstantsOK, Night
<1>. QED
  BY <1>1, <1>2, <1>3 DEF Night, Turn, Local, OffSite

\* To the sidecar, these jobs are bodies: the invariant of its rows and its counter stays.
LEMMA JobsAreBodies == ASSUME IInv, [BackupNext]_nightVars PROVE IInv'
<1>1. [CronNext]_cronvars
  <2>1. CASE UNCHANGED nightVars
    BY <2>1 DEF nightVars
  <2>2. CASE SidecarEnds \/ RestartSidecar \/ TickMissed
    BY <2>2 DEF SidecarEnds, RestartSidecar, TickMissed, CronNext, ProcStep
  <2>3. ASSUME NEW t \in Tick,
               TickFires(t) \/ TickStep(t) \/ JobThrows(t) \/ LocalReturns(t) \/ OffSiteSkips(t) \/ OffSiteReturns(t)
        PROVE  CronNext
    BY <2>3 DEF TickFires, JobThrows, LocalReturns, OffSiteSkips, OffSiteReturns, CronNext, BodyStep
  <2>4. ASSUME NEW t \in Tick,
               \/ DumpBegins(t) \/ DumpEnds(t) \/ TarBegins(t) \/ TarEnds(t) \/ Sweep(t)
               \/ FindFiles(t) \/ Copy(t) \/ CopyFails(t)
        PROVE  UNCHANGED cronvars
    BY <2>4 DEF DumpBegins, DumpEnds, TarBegins, TarEnds, Sweep, FindFiles, Copy, CopyFails
  <2>. QED
    BY <2>1, <2>2, <2>3, <2>4 DEF BackupNext
<1>. QED
  BY <1>1, NextPreserves

-----------------------------------------------------------------------------
(* Ticks. *)

\* A tick in flight moves on: it returns only when its job has swept.
LEMMA TickMoves ==
  ASSUME NightIInv, NEW t \in Tick, NEW s \in State, NEW r, tick[t] \in Running,
         tick' = [tick EXCEPT ![t] = s], row' = [row EXCEPT ![t] = r],
         UNCHANGED <<proc, clock, step, restarts, disk, remote>>,
         Local(t) /\ (s = "close" \/ r = "succeeded") => step[t] = "swept"
  PROVE  NightTypeOK' /\ TicksInOrder' /\ FilesInOrder'
<1>. USE DEF NightIInv
<1>1. NightTypeOK' /\ UpOrEnded'
  BY DEF NightTypeOK, TicksInOrder, UpOrEnded
<1>2. FilesInOrder'
  BY DEF FilesInOrder, NamesUnique, FilesOfNight, DumpThere, Written
<1>3. /\ tick \in [Tick -> State] /\ row \in [Tick -> {"none", "open", "succeeded", "failed"}]
      /\ tick[t] # "due"
  BY DEF IInv, CronTypeOK, State, Running
<1>4. \A u \in Tick : tick'[u] \in Running => tick[u] \in Running
  BY <1>3
<1>5. OneLocal' /\ NoneAhead'
  BY <1>3, <1>4 DEF TicksInOrder, OneLocal, NoneAhead, Flying
<1>6. ASSUME NEW u \in Tick PROVE NotBegun(u)' /\ StepOfKind(u)' /\ SweptFirst(u)'
  <2>1. NotBegun(u) /\ StepOfKind(u) /\ SweptFirst(u) /\ NotBegun(t)
    BY DEF TicksInOrder
  <2>2. CASE u = t
    BY <1>3, <2>1, <2>2 DEF NotBegun, StepOfKind, SweptFirst
  <2>3. CASE u # t
    BY <1>3, <2>1, <2>3 DEF NotBegun, StepOfKind, SweptFirst
  <2>. QED
    BY <2>2, <2>3
<1>. QED
  BY <1>1, <1>2, <1>5, <1>6 DEF TicksInOrder

\* A body goes from one of its steps to the next.
LEMMA BodyMoves ==
  ASSUME NightIInv, NEW t \in Tick, NEW s, tick[t] = "body", step' = [step EXCEPT ![t] = s],
         UNCHANGED <<tick, row, proc, clock, restarts>>,
         step[t] # "swept", IF Local(t) THEN s # "ship" ELSE s \in {"start", "ship"}
  PROVE  TicksInOrder'
<1>. USE DEF NightIInv
<1>1. tick[t] \in Running /\ step'[t] = s /\ \A u \in Tick \ {t} : step'[u] = step[u]
  BY DEF Running, NightTypeOK
<1>2. UpOrEnded' /\ OneLocal'
  BY DEF TicksInOrder, UpOrEnded, OneLocal, Flying
<1>3. NoneAhead'
  <2>. SUFFICES ASSUME NEW v \in Tick, NEW u \in Tick, Local(v), Local(u), tick[v] \in Running, Night(v) < Night(u)
                PROVE  step'[u] = "start"
    BY DEF NoneAhead, Night, Local
  <2>1. u # t
    <3>. SUFFICES ASSUME u = t PROVE FALSE
      OBVIOUS
    <3>1. v = u
      BY <1>1 DEF TicksInOrder, OneLocal, Flying
    <3>2. Night(u) \in Nat
      BY TicksOfNights
    <3>. QED
      BY <3>1, <3>2
  <2>. QED
    BY <1>1, <2>1 DEF TicksInOrder, NoneAhead
<1>4. ASSUME NEW u \in Tick PROVE NotBegun(u)' /\ StepOfKind(u)' /\ SweptFirst(u)'
  <2>1. NotBegun(u) /\ StepOfKind(u) /\ SweptFirst(u) /\ (OffSite(t) <=> ~Local(t))
    BY TicksOfNights DEF TicksInOrder
  <2>2. CASE u = t
    BY <1>1, <2>1, <2>2 DEF NotBegun, StepOfKind, SweptFirst, Local, OffSite, Turn, Night
  <2>3. CASE u # t
    BY <1>1, <2>1, <2>3 DEF NotBegun, StepOfKind, SweptFirst, Local, OffSite, Turn, Night
  <2>. QED
    BY <2>2, <2>3
<1>. QED
  BY <1>2, <1>3, <1>4 DEF TicksInOrder

\* A tick fires when its time has come, and no other local backup runs.
LEMMA FireStep ==
  ASSUME NightIInv, NEW t \in Tick, TickFires(t)
  PROVE  NightTypeOK' /\ TicksInOrder' /\ FilesInOrder'
<1>. USE DEF NightIInv
<1>1. /\ Turn(t) = clock + 1 /\ clock' = clock + 1 /\ tick' = [tick EXCEPT ![t] = "insert"]
      /\ Local(t) => \A u \in Flying : ~Local(u)
      /\ UNCHANGED <<step, disk, ship, remote, restarts, row, proc>>
  BY DEF TickFires, Fire, TicksInOrder, UpOrEnded, shuttingDown
<1>2. NightTypeOK' /\ UpOrEnded'
  <2>1. clock + 1 \in 0..(2 * Nights)
    <3>1. Turn(t) \in 1..(2 * Nights) /\ Turn(t) \in Nat
      BY TicksOfNights
    <3>2. Nights \in Nat
      BY BackupConstantsOK DEF BackupConstantsOK
    <3>. QED
      BY <1>1, <3>1, <3>2
  <2>. QED
    BY <1>1, <2>1 DEF NightTypeOK, TicksInOrder, UpOrEnded
<1>3. FilesInOrder'
  BY <1>1 DEF FilesInOrder, NamesUnique, FilesOfNight, DumpThere
<1>4. /\ tick \in [Tick -> State] /\ clock \in Nat
  BY DEF IInv, CronTypeOK, State, NightTypeOK
<1>5. ASSUME NEW u \in Tick, tick'[u] \in Running PROVE u = t \/ tick[u] \in Running
  BY <1>1, <1>4, <1>5
<1>6. OneLocal'
  <2>. SUFFICES ASSUME NEW v \in Tick, NEW u \in Tick, tick'[v] \in Running, tick'[u] \in Running, Local(v), Local(u)
                PROVE  v = u
    BY DEF OneLocal, Flying
  <2>. QED
    BY <1>1, <1>5 DEF TicksInOrder, OneLocal, Flying
<1>7. NoneAhead'
  <2>. SUFFICES ASSUME NEW v \in Tick, NEW u \in Tick, Local(v), Local(u), tick'[v] \in Running, Night(v) < Night(u)
                PROVE  step[u] = "start"
    BY <1>1 DEF NoneAhead
  <2>1. CASE v = t
    <3>1. Turn(u) > clock /\ NotBegun(u)
      <4>1. Turn(v) < Turn(u) /\ Turn(u) \in Nat
        BY TicksOfNights
      <4>2. Turn(u) > clock
        BY <1>1, <1>4, <2>1, <4>1
      <4>. QED
        BY <4>2 DEF TicksInOrder
    <3>. QED
      BY <1>4, <3>1, TicksOfNights DEF NotBegun
  <2>2. CASE tick[v] \in Running
    BY <2>2 DEF TicksInOrder, NoneAhead
  <2>. QED
    BY <1>5, <2>1, <2>2
<1>8. ASSUME NEW u \in Tick PROVE NotBegun(u)' /\ StepOfKind(u)' /\ SweptFirst(u)'
  <2>1. NotBegun(u) /\ StepOfKind(u) /\ SweptFirst(u) /\ Turn(u) \in Nat
    BY TicksOfNights DEF TicksInOrder
  <2>2. CASE u = t
    BY <1>1, <1>4, <2>1, <2>2 DEF NotBegun, StepOfKind, SweptFirst
  <2>3. CASE u # t
    BY <1>1, <1>4, <2>1, <2>3 DEF NotBegun, StepOfKind, SweptFirst
  <2>. QED
    BY <2>2, <2>3
<1>. QED
  BY <1>2, <1>3, <1>6, <1>7, <1>8 DEF TicksInOrder

\* The process ends or is started again, or time passes while it is down.
LEMMA SidecarStep ==
  ASSUME NightIInv, SidecarEnds \/ RestartSidecar \/ TickMissed
  PROVE  NightTypeOK' /\ TicksInOrder' /\ FilesInOrder'
<1>. USE DEF NightIInv
<1>1. /\ UNCHANGED <<row, step, disk, remote>> /\ clock' \in Nat /\ clock <= clock' /\ clock \in Nat
      /\ \A u \in Tick : tick'[u] = tick[u] \/ (tick[u] \in Running /\ tick'[u] = "killed")
  BY DEF SidecarEnds, RestartSidecar, TickMissed, Crash, Gone, Restart, cronvars, Flying, NightTypeOK, IInv, CronTypeOK
<1>2. NightTypeOK' /\ UpOrEnded'
  BY BackupConstantsOK DEF BackupConstantsOK, SidecarEnds, RestartSidecar, TickMissed, Crash, Gone, Restart,
     Alive, cronvars, NightTypeOK, TicksInOrder, UpOrEnded
<1>3. FilesInOrder'
  BY <1>1 DEF FilesInOrder, NamesUnique, FilesOfNight, DumpThere
<1>4. \A u \in Tick : tick'[u] \in Running => tick[u] \in Running
  BY <1>1 DEF Running
<1>5. OneLocal' /\ NoneAhead'
  BY <1>1, <1>4 DEF TicksInOrder, OneLocal, NoneAhead, Flying
<1>6. ASSUME NEW u \in Tick PROVE NotBegun(u)' /\ StepOfKind(u)' /\ SweptFirst(u)'
  <2>1. NotBegun(u) /\ StepOfKind(u) /\ SweptFirst(u) /\ Turn(u) \in Nat
    BY TicksOfNights DEF TicksInOrder
  <2>2. NotBegun(u)'
    BY <1>1, <2>1 DEF NotBegun, Running
  <2>. QED
    BY <1>1, <2>1, <2>2 DEF StepOfKind, SweptFirst, Running
<1>. QED
  BY <1>2, <1>3, <1>5, <1>6 DEF TicksInOrder

-----------------------------------------------------------------------------
(* Files. *)

\* A local backup changes files of its own night only.
LEMMA FilesMove ==
  ASSUME NightIInv, NEW t \in Tick, Local(t), NEW s, step' = [step EXCEPT ![t] = s], step[t] # "swept",
         \A f \in disk \cup disk' : f.night # Night(t) => (f \in disk <=> f \in disk'),
         \A f, g \in disk' : f.night = Night(t) /\ FileName(f) = FileName(g) => f = g,
         remote' = remote, FilesOfNight(t)'
  PROVE  FilesInOrder'
<1>. USE DEF NightIInv
<1>1. NamesUnique'
  <2>1. ASSUME NEW f \in disk', NEW g \in disk', FileName(f) = FileName(g) PROVE f = g
    <3>1. f.night = g.night
      BY <2>1 DEF FileName
    <3>. QED
      BY <2>1, <3>1 DEF FilesInOrder, NamesUnique
  <2>. QED
    BY <2>1 DEF FilesInOrder, NamesUnique, FileName
<1>2. ASSUME NEW u \in Tick, u # t PROVE FilesOfNight(u)'
  <2>. SUFFICES ASSUME Local(u) PROVE FilesOfNight(u)'
    BY DEF FilesOfNight, Local
  <2>1. Night(u) # Night(t) /\ step'[u] = step[u] /\ FilesOfNight(u)
    BY <1>2, TicksOfNights DEF FilesInOrder, NightTypeOK
  <2>2. ASSUME NEW f \in disk' PROVE f.night = Night(u) => f \in disk
    BY <2>1, <2>2
  <2>3. DumpThere(u) => DumpThere(u)'
    <3>1. File("dump", Night(u), TRUE).night = Night(u)
      BY DEF File
    <3>2. CASE File("dump", Night(u), TRUE) \in disk
      BY <2>1, <3>1, <3>2 DEF DumpThere, Night
    <3>3. ASSUME NEW v \in Tick, Local(v), step[v] = "swept", Night(u) < Night(v) - RetentionNights
          PROVE  DumpThere(u)'
      BY <3>3 DEF DumpThere, NightTypeOK, Local, Night
    <3>. QED
      BY <3>2, <3>3 DEF DumpThere
  <2>. QED
    BY <2>1, <2>2, <2>3 DEF FilesOfNight, FileName
<1>. QED
  BY <1>1, <1>2 DEF FilesInOrder

\* What a body reads is a body of its kind.
LEMMA LocalSteps ==
  ASSUME NightIInv, NEW t \in Tick, step[t] \in {"dump", "images", "tar", "sweep", "swept"} PROVE Local(t)
BY TicksOfNights DEF NightIInv, TicksInOrder, StepOfKind

\* The dump is begun.
LEMMA DumpBeginsStep ==
  ASSUME NightIInv, NEW t \in Tick, DumpBegins(t)
  PROVE  NightTypeOK' /\ TicksInOrder' /\ FilesInOrder'
<1>1. /\ Local(t) /\ tick[t] = "body" /\ step[t] = "start" /\ step' = [step EXCEPT ![t] = "dump"]
      /\ disk' = disk \cup {File("dump", Night(t), FALSE)} /\ UNCHANGED <<cronvars, clock, remote, restarts>>
  BY DEF DumpBegins, At, Onward
<1>2. \A f \in disk : f.night # Night(t)
  BY <1>1 DEF NightIInv, FilesInOrder, FilesOfNight
<1>3. /\ File("dump", Night(t), FALSE) \in FileType /\ File("dump", Night(t), FALSE).night = Night(t)
      /\ FileName(File("dump", Night(t), FALSE)) = <<"dump", Night(t)>>
  BY TicksOfNights DEF File, FileType, FileName
<1>4. NightTypeOK'
  BY <1>1, <1>3 DEF NightIInv, NightTypeOK
<1>5. TicksInOrder'
  BY <1>1, BodyMoves DEF cronvars
<1>6. FilesOfNight(t)'
  <2>1. step'[t] = "dump"
    BY <1>1 DEF NightIInv, NightTypeOK
  <2>2. \A f \in disk' : FileName(f) # <<"images", Night(t)>>
    BY <1>1, <1>2, <1>3 DEF FileName
  <2>. QED
    BY <2>1, <2>2 DEF FilesOfNight, Night, FileName
<1>7. \A f, g \in disk' : f.night = Night(t) /\ FileName(f) = FileName(g) => f = g
  <2>. SUFFICES ASSUME NEW f \in disk', NEW g \in disk', f.night = Night(t), FileName(f) = FileName(g) PROVE f = g
    OBVIOUS
  <2>1. g.night = Night(t)
    BY DEF FileName
  <2>. QED
    BY <1>1, <1>2, <2>1
<1>8. \A f \in disk \cup disk' : f.night # Night(t) => (f \in disk <=> f \in disk')
  BY <1>1, <1>3
<1>9. FilesInOrder'
  BY <1>1, <1>6, <1>7, <1>8, FilesMove DEF cronvars
<1>. QED
  BY <1>4, <1>5, <1>9

\* The dump is whole.
LEMMA DumpEndsStep ==
  ASSUME NightIInv, NEW t \in Tick, DumpEnds(t)
  PROVE  NightTypeOK' /\ TicksInOrder' /\ FilesInOrder'
<1>1. PICK s \in {"images", "sweep"} : step' = [step EXCEPT ![t] = s]
  BY DEF DumpEnds, Onward
<1>2. /\ tick[t] = "body" /\ step[t] = "dump" /\ UNCHANGED <<cronvars, clock, remote, restarts>>
      /\ disk' = (disk \ Written(t, "dump")) \cup {File("dump", Night(t), TRUE)}
  BY DEF DumpEnds, At
<1>3. Local(t) /\ step'[t] = s
  BY <1>1, <1>2, LocalSteps DEF NightIInv, NightTypeOK
<1>4. /\ File("dump", Night(t), TRUE) \in FileType /\ File("dump", Night(t), TRUE).night = Night(t)
      /\ FileName(File("dump", Night(t), TRUE)) = <<"dump", Night(t)>>
  BY TicksOfNights DEF File, FileType, FileName
<1>5. NightTypeOK'
  BY <1>1, <1>2, <1>4 DEF NightIInv, NightTypeOK
<1>6. TicksInOrder'
  BY <1>1, <1>2, <1>3, BodyMoves DEF cronvars
<1>7. \A f \in disk : FileName(f) # <<"images", Night(t)>>
  BY <1>2, <1>3 DEF NightIInv, FilesInOrder, FilesOfNight
<1>8. FilesOfNight(t)'
  <2>1. ASSUME NEW f \in disk' PROVE FileName(f) # <<"images", Night(t)>>
    <3>1. CASE f \in disk
      BY <1>7, <3>1
    <3>2. CASE f = File("dump", Night(t), TRUE)
      <4>1. FileName(f) = <<"dump", Night(t)>>
        BY <1>4, <3>2
      <4>. QED
        BY <4>1
    <3>. QED
      BY <1>2, <3>1, <3>2
  <2>2. DumpThere(t)'
    BY <1>2 DEF DumpThere, Night
  <2>. QED
    BY <1>3, <2>1, <2>2 DEF FilesOfNight, Night, FileName
<1>9. \A f \in disk \cup disk' : f.night # Night(t) => (f \in disk <=> f \in disk')
  BY <1>2, <1>4 DEF Written, FileName
<1>10. \A f, g \in disk' : f.night = Night(t) /\ FileName(f) = FileName(g) => f = g
  <2>. SUFFICES ASSUME NEW f \in disk', NEW g \in disk', FileName(f) = FileName(g) PROVE f = g
    OBVIOUS
  <2>1. CASE FileName(f) = <<"dump", Night(t)>>
    BY <1>2, <2>1 DEF Written
  <2>2. CASE FileName(f) # <<"dump", Night(t)>>
    <3>1. f \in disk /\ g \in disk
      BY <1>2, <1>4, <2>2
    <3>. QED
      BY <3>1 DEF NightIInv, FilesInOrder, NamesUnique
  <2>. QED
    BY <2>1, <2>2
<1>11. FilesInOrder'
  BY <1>1, <1>2, <1>3, <1>8, <1>9, <1>10, FilesMove
<1>. QED
  BY <1>5, <1>6, <1>11

\* The archive is begun.
LEMMA TarBeginsStep ==
  ASSUME NightIInv, NEW t \in Tick, TarBegins(t)
  PROVE  NightTypeOK' /\ TicksInOrder' /\ FilesInOrder'
<1>1. /\ tick[t] = "body" /\ step[t] = "images" /\ step' = [step EXCEPT ![t] = "tar"]
      /\ disk' = disk \cup {File("images", Night(t), FALSE)} /\ UNCHANGED <<cronvars, clock, remote, restarts>>
  BY DEF TarBegins, At, Onward
<1>2. Local(t) /\ step'[t] = "tar"
  BY <1>1, LocalSteps DEF NightIInv, NightTypeOK
<1>3. DumpThere(t) /\ \A f \in disk : FileName(f) # <<"images", Night(t)>>
  BY <1>1, <1>2 DEF NightIInv, FilesInOrder, FilesOfNight
<1>4. /\ File("images", Night(t), FALSE) \in FileType /\ File("images", Night(t), FALSE).night = Night(t)
      /\ FileName(File("images", Night(t), FALSE)) = <<"images", Night(t)>>
  BY TicksOfNights DEF File, FileType, FileName
<1>5. NightTypeOK'
  BY <1>1, <1>4 DEF NightIInv, NightTypeOK
<1>6. TicksInOrder'
  BY <1>1, <1>2, BodyMoves DEF cronvars
<1>7. DumpThere(t)'
  BY <1>1, <1>3 DEF DumpThere, NightIInv, NightTypeOK, Night, Local
<1>8. FilesOfNight(t)'
  BY <1>2, <1>7 DEF FilesOfNight
<1>9. \A f, g \in disk' : f.night = Night(t) /\ FileName(f) = FileName(g) => f = g
  BY <1>1, <1>3, <1>4 DEF NightIInv, FilesInOrder, NamesUnique
<1>10. FilesInOrder'
  BY <1>1, <1>2, <1>4, <1>8, <1>9, FilesMove
<1>. QED
  BY <1>5, <1>6, <1>10

\* The archive is whole.
LEMMA TarEndsStep ==
  ASSUME NightIInv, NEW t \in Tick, TarEnds(t)
  PROVE  NightTypeOK' /\ TicksInOrder' /\ FilesInOrder'
<1>1. /\ tick[t] = "body" /\ step[t] = "tar" /\ step' = [step EXCEPT ![t] = "sweep"]
      /\ UNCHANGED <<cronvars, clock, remote, restarts>>
      /\ disk' = (disk \ Written(t, "images")) \cup {File("images", Night(t), TRUE)}
  BY DEF TarEnds, At, Onward
<1>2. Local(t) /\ step'[t] = "sweep"
  BY <1>1, LocalSteps DEF NightIInv, NightTypeOK
<1>3. /\ File("images", Night(t), TRUE) \in FileType /\ File("images", Night(t), TRUE).night = Night(t)
      /\ FileName(File("images", Night(t), TRUE)) = <<"images", Night(t)>>
      /\ FileName(File("dump", Night(t), TRUE)) = <<"dump", Night(t)>>
  BY TicksOfNights DEF File, FileType, FileName
<1>4. NightTypeOK'
  BY <1>1, <1>3 DEF NightIInv, NightTypeOK
<1>5. TicksInOrder'
  BY <1>1, <1>2, BodyMoves DEF cronvars
<1>6. DumpThere(t)
  BY <1>1, <1>2 DEF NightIInv, FilesInOrder, FilesOfNight
<1>7. DumpThere(t)'
  <2>1. CASE File("dump", Night(t), TRUE) \in disk
    <3>1. File("dump", Night(t), TRUE) \notin Written(t, "images")
      <4>1. <<"dump", Night(t)>> # <<"images", Night(t)>>
        OBVIOUS
      <4>. QED
        BY <1>3, <4>1, Zenon DEF Written
    <3>. QED
      BY <1>1, <2>1, <3>1 DEF DumpThere, Night
  <2>2. CASE ~(File("dump", Night(t), TRUE) \in disk)
    BY <1>1, <1>6, <2>2 DEF DumpThere, NightIInv, NightTypeOK, Night, Local
  <2>. QED
    BY <2>1, <2>2
<1>8. FilesOfNight(t)'
  BY <1>2, <1>7 DEF FilesOfNight
<1>9. \A f \in disk \cup disk' : f.night # Night(t) => (f \in disk <=> f \in disk')
  BY <1>1, <1>3 DEF Written, FileName
<1>10. \A f, g \in disk' : f.night = Night(t) /\ FileName(f) = FileName(g) => f = g
  <2>. SUFFICES ASSUME NEW f \in disk', NEW g \in disk', FileName(f) = FileName(g) PROVE f = g
    OBVIOUS
  <2>1. CASE FileName(f) = <<"images", Night(t)>>
    BY <1>1, <2>1 DEF Written
  <2>2. CASE FileName(f) # <<"images", Night(t)>>
    <3>1. f \in disk /\ g \in disk
      BY <1>1, <1>3, <2>2
    <3>. QED
      BY <3>1 DEF NightIInv, FilesInOrder, NamesUnique
  <2>. QED
    BY <2>1, <2>2
<1>11. FilesInOrder'
  BY <1>1, <1>2, <1>8, <1>9, <1>10, FilesMove
<1>. QED
  BY <1>4, <1>5, <1>11

\* The sweep deletes what is older than the retention of its night.
LEMMA SweepStep ==
  ASSUME NightIInv, NEW t \in Tick, Sweep(t)
  PROVE  NightTypeOK' /\ TicksInOrder' /\ FilesInOrder'
<1>1. /\ tick[t] = "body" /\ step[t] = "sweep" /\ step' = [step EXCEPT ![t] = "swept"]
      /\ UNCHANGED <<cronvars, clock, remote, restarts>>
      /\ disk' \subseteq disk /\ \A f \in disk \ disk' : f.night < Night(t) - RetentionNights
  BY DEF Sweep, At, Onward, TooOld
<1>2. Local(t) /\ step'[t] = "swept" /\ \A u \in Tick \ {t} : step'[u] = step[u]
  BY <1>1, LocalSteps DEF NightIInv, NightTypeOK
<1>3. NightTypeOK'
  BY <1>1 DEF NightIInv, NightTypeOK
<1>4. TicksInOrder'
  BY <1>1, <1>2, BodyMoves DEF cronvars
<1>5. NamesUnique'
  BY <1>1 DEF NightIInv, FilesInOrder, NamesUnique
<1>6. ASSUME NEW u \in Tick, DumpThere(u) PROVE DumpThere(u)'
  <2>1. CASE File("dump", Night(u), TRUE) \in disk'
    BY <2>1 DEF DumpThere, Night
  <2>2. CASE File("dump", Night(u), TRUE) \in disk \ disk'
    <3>1. Night(u) < Night(t) - RetentionNights
      BY <1>1, <2>2 DEF File
    <3>. QED
      BY <1>2, <3>1 DEF DumpThere, Night, Local
  <2>3. ASSUME NEW v \in Tick, Local(v), step[v] = "swept", Night(u) < Night(v) - RetentionNights
        PROVE  DumpThere(u)'
    BY <1>1, <1>2, <2>3 DEF DumpThere, Night, Local
  <2>. QED
    BY <1>6, <2>1, <2>2, <2>3 DEF DumpThere
<1>7. ASSUME NEW u \in Tick PROVE FilesOfNight(u)'
  <2>1. FilesOfNight(u)
    BY DEF NightIInv, FilesInOrder
  <2>2. CASE u = t
    BY <1>1, <1>2, <1>6, <2>1, <2>2 DEF FilesOfNight
  <2>3. CASE u # t
    BY <1>1, <1>2, <1>6, <2>1, <2>3 DEF FilesOfNight, Local, Night, FileName
  <2>. QED
    BY <2>2, <2>3
<1>. QED
  BY <1>3, <1>4, <1>5, <1>7 DEF FilesInOrder

\* Files are looked up and copied, or not: what the remote has under a name is replaced.
LEMMA OffSiteStep ==
  ASSUME NightIInv, NEW t \in Tick, FindFiles(t) \/ Copy(t) \/ CopyFails(t)
  PROVE  NightTypeOK' /\ TicksInOrder' /\ FilesInOrder'
<1>1. CASE FindFiles(t)
  <2>1. /\ tick[t] = "body" /\ step[t] = "start" /\ step' = [step EXCEPT ![t] = "ship"] /\ ~Local(t)
        /\ UNCHANGED <<cronvars, clock, disk, remote, restarts>>
    BY <1>1, TicksOfNights DEF FindFiles, At, Onward
  <2>2. NightTypeOK'
    BY <2>1 DEF NightIInv, NightTypeOK
  <2>3. TicksInOrder'
    BY <2>1, BodyMoves DEF cronvars
  <2>4. \A u \in Tick : Local(u) => step'[u] = step[u]
    BY <2>1 DEF NightIInv, NightTypeOK
  <2>5. ASSUME NEW u \in Tick PROVE FilesOfNight(u)'
    <3>1. FilesOfNight(u)
      BY DEF NightIInv, FilesInOrder
    <3>2. DumpThere(u) => DumpThere(u)'
      BY <2>1, <2>4 DEF DumpThere, Local, Night
    <3>. QED
      BY <2>1, <2>4, <3>1, <3>2 DEF FilesOfNight, Local, Night, FileName
  <2>. QED
    BY <2>1, <2>2, <2>3, <2>5 DEF NightIInv, FilesInOrder, NamesUnique
<1>2. CASE Copy(t) \/ CopyFails(t)
  <2>1. UNCHANGED <<cronvars, clock, step, disk, restarts>>
    BY <1>2 DEF Copy, CopyFails
  <2>2. /\ remote' \subseteq FileType
        /\ \A f, g \in remote' : FileName(f) = FileName(g) => f = g
    <3>1. CASE remote' = remote
      BY <3>1 DEF NightIInv, NightTypeOK, FilesInOrder, NamesUnique
    <3>2. ASSUME NEW f \in disk, remote' = {g \in remote : FileName(g) # FileName(f)} \cup {f}
          PROVE  /\ remote' \subseteq FileType
                 /\ \A h, g \in remote' : FileName(h) = FileName(g) => h = g
      BY <3>2 DEF NightIInv, NightTypeOK, FilesInOrder, NamesUnique
    <3>. QED
      BY <1>2, <3>1, <3>2 DEF Copy, CopyFails
  <2>3. NightTypeOK'
    BY <2>1, <2>2 DEF NightIInv, NightTypeOK
  <2>4. TicksInOrder'
    BY <2>1 DEF cronvars, NightIInv, TicksInOrder, UpOrEnded, OneLocal, NoneAhead, Flying, NotBegun, StepOfKind,
       SweptFirst
  <2>5. NamesUnique'
    BY <2>1, <2>2 DEF NightIInv, FilesInOrder, NamesUnique, FileName
  <2>6. \A u \in Tick : FilesOfNight(u)'
    BY <2>1 DEF NightIInv, FilesInOrder, FilesOfNight, DumpThere
  <2>. QED
    BY <2>3, <2>4, <2>5, <2>6 DEF FilesInOrder
<1>. QED
  BY <1>1, <1>2

\* The ends of a body, and the statements around it.
LEMMA EndStep ==
  ASSUME NightIInv, NEW t \in Tick,
         \/ JobThrows(t) \/ LocalReturns(t) \/ OffSiteSkips(t) \/ OffSiteReturns(t)
         \/ TickStep(t) /\ UNCHANGED backupvars
  PROVE  NightTypeOK' /\ TicksInOrder' /\ FilesInOrder'
<1>1. /\ tick \in [Tick -> State] /\ row \in [Tick -> {"none", "open", "succeeded", "failed"}]
      /\ SweptFirst(t) /\ (OffSite(t) <=> ~Local(t))
  BY TicksOfNights DEF NightIInv, IInv, CronTypeOK, State, TicksInOrder
<1>2. UNCHANGED <<proc, clock, step, restarts, disk, remote>>
  BY DEF JobThrows, LocalReturns, OffSiteSkips, OffSiteReturns, BodyThrows, BodyReturns, backupvars,
     TickStep, OpenRow, OpenFails, CloseRow, CloseFails, RecordFailure, RecordFails, Leave
<1>3. CASE JobThrows(t) \/ LocalReturns(t) \/ OffSiteSkips(t) \/ OffSiteReturns(t)
  <2>1. PICK s \in {"close", "record"} :
          /\ tick[t] = "body" /\ tick' = [tick EXCEPT ![t] = s] /\ row' = [row EXCEPT ![t] = row[t]]
          /\ Local(t) /\ s = "close" => step[t] = "swept"
    <3>1. row' = row /\ row = [row EXCEPT ![t] = row[t]] /\ tick[t] = "body"
      BY <1>1, <1>3 DEF JobThrows, LocalReturns, OffSiteSkips, OffSiteReturns, BodyThrows, BodyReturns
    <3>2. CASE JobThrows(t)
      BY <3>1, <3>2 DEF JobThrows, BodyThrows
    <3>3. CASE LocalReturns(t)
      BY <3>1, <3>3 DEF LocalReturns, BodyReturns
    <3>4. CASE OffSiteSkips(t) \/ OffSiteReturns(t)
      <4>1. ~Local(t)
        BY <1>1, <3>4, LocalSteps DEF OffSiteSkips, OffSiteReturns, At, NightIInv, TicksInOrder, StepOfKind
      <4>. QED
        BY <3>1, <3>4, <4>1 DEF OffSiteSkips, OffSiteReturns, BodyReturns
    <3>. QED
      BY <1>3, <3>2, <3>3, <3>4
  <2>2. Local(t) /\ (s = "close" \/ row[t] = "succeeded") => step[t] = "swept"
    BY <1>1, <2>1 DEF SweptFirst
  <2>3. s \in State /\ tick[t] \in Running
    BY <2>1 DEF State, Running
  <2>. QED
    BY <1>2, <2>1, <2>2, <2>3, TickMoves
<1>4. CASE TickStep(t)
  <2>1. PICK s \in {"body", "leave", "record", "over"}, r \in {"none", "open", "succeeded", "failed"} :
          /\ tick[t] \in Running /\ tick' = [tick EXCEPT ![t] = s] /\ row' = [row EXCEPT ![t] = r]
          /\ r = "succeeded" => tick[t] = "close" \/ row[t] = "succeeded"
    BY <1>1, <1>4 DEF TickStep, OpenRow, OpenFails, CloseRow, CloseFails, RecordFailure, RecordFails, Leave, Running
  <2>2. Local(t) /\ (s = "close" \/ r = "succeeded") => step[t] = "swept"
    BY <1>1, <2>1 DEF SweptFirst
  <2>3. s \in State
    BY DEF State, Running
  <2>. QED
    BY <1>2, <2>1, <2>2, <2>3, TickMoves
<1>. QED
  BY <1>3, <1>4

-----------------------------------------------------------------------------
\* Nothing has fired and no file is there.
LEMMA InitNight == BackupInit => NightIInv
<1>. SUFFICES ASSUME BackupInit PROVE NightIInv
  OBVIOUS
<1>1. IInv /\ Flying = {}
  BY InitInv DEF BackupInit, CronInit, Flying, Running
<1>2. NightTypeOK
  BY BackupConstantsOK DEF BackupConstantsOK, BackupInit, NightTypeOK
<1>3. TicksInOrder
  BY <1>1 DEF BackupInit, CronInit, TicksInOrder, UpOrEnded, OneLocal, NoneAhead, NotBegun,
     StepOfKind, SweptFirst, OffSite
<1>4. FilesInOrder
  BY DEF BackupInit, FilesInOrder, NamesUnique, FilesOfNight
<1>5. ShipOfTicks
  BY DEF BackupInit, ShipOfTicks
<1>. QED
  BY <1>1, <1>2, <1>3, <1>4, <1>5 DEF NightIInv

\* Every step of the jobs, the sidecar and the time keeps the invariant.
LEMMA NightPreserves == NightIInv /\ [BackupNext]_nightVars => NightIInv'
<1>. SUFFICES ASSUME NightIInv, [BackupNext]_nightVars PROVE NightIInv'
  OBVIOUS
<1>1. IInv'
  BY JobsAreBodies DEF NightIInv
<1>2. ShipOfTicks'
  BY DEF NightIInv, ShipOfTicks, BackupNext, nightVars, backupvars, SidecarEnds, RestartSidecar, TickMissed, TickFires,
     DumpBegins, DumpEnds, TarBegins, TarEnds, JobThrows, Sweep, LocalReturns, OffSiteSkips, FindFiles,
     Copy, CopyFails, OffSiteReturns, Shipped
<1>3. NightTypeOK' /\ TicksInOrder' /\ FilesInOrder'
  <2>1. CASE UNCHANGED nightVars
    BY <2>1 DEF nightVars, cronvars, backupvars, NightIInv, NightTypeOK, TicksInOrder, UpOrEnded, OneLocal, NoneAhead,
       Flying, NotBegun, StepOfKind, SweptFirst, FilesInOrder, NamesUnique, FilesOfNight, DumpThere
  <2>2. CASE BackupNext
    BY <2>2, SidecarStep, FireStep, EndStep, DumpBeginsStep, DumpEndsStep, TarBeginsStep, TarEndsStep, SweepStep,
       OffSiteStep DEF BackupNext
  <2>. QED
    BY <2>1, <2>2
<1>. QED
  BY <1>1, <1>2, <1>3 DEF NightIInv

\* What the System page shows of a local backup is there: a run recorded as succeeded has left a
\* whole dump for as long as the retention keeps it, and a name belongs to one file, for any number
\* of nights, whatever retention is set and wherever a job fails or the process ends.
THEOREM RecordedDumpsExist == BackupSpec => []BackupInv
<1>1. NightIInv => BackupInv
  <2>. SUFFICES ASSUME NightIInv PROVE BackupInv
    OBVIOUS
  <2>1. RecordedIsThere
    <3>. SUFFICES ASSUME NEW t \in Tick, Local(t), row[t] = "succeeded" PROVE DumpThere(t)
      BY DEF RecordedIsThere, DumpThere
    <3>. QED
      BY DEF NightIInv, TicksInOrder, SweptFirst, FilesInOrder, FilesOfNight
  <2>. QED
    BY <2>1 DEF NightIInv, BackupInv, BackupTypeOK, NightTypeOK, IInv, FilesInOrder
<1>. QED
  BY <1>1, InitNight, NightPreserves, PTL DEF BackupSpec

\* The newest of some files is one of them, and none is of a later night.
LEMMA NewestIsLatest ==
  ASSUME NEW F, F \subseteq FileType, F # {}
  PROVE  Newest(F) \in F /\ \A g \in F : g.night <= Newest(F).night
<1>. DEFINE ages == {Nights - f.night : f \in F}
<1>1. Nights \in Nat /\ \A f \in F : f.night \in 1..Nights
  BY BackupConstantsOK DEF BackupConstantsOK, FileType
<1>2. ages \subseteq Nat /\ ages # {}
  BY <1>1
<1>. HIDE DEF ages
<1>3. PICK n \in ages : \A m \in ages : ~(<<m, n>> \in OpToRel(<, Nat))
  BY <1>2, NatLessThanWellFounded, WFMin
<1>4. PICK f \in F : n = Nights - f.night
  BY <1>3 DEF ages
<1>5. ASSUME NEW g \in F PROVE g.night <= f.night
  <2>1. Nights - g.night \in ages /\ Nights - g.night \in Nat /\ n \in Nat
    BY <1>1, <1>2, <1>3 DEF ages
  <2>2. ~(Nights - g.night < n)
    BY <1>3, <2>1 DEF OpToRel
  <2>. QED
    BY <1>1, <1>4, <2>1, <2>2
<1>. QED
  BY <1>5 DEF Newest

\* Files are taken away by the end of a dump or an archive, which replaces them, and by a sweep.
LEMMA FilesTaken ==
  ASSUME [BackupNext]_nightVars
  PROVE  disk \subseteq disk' \/ \E t \in Tick : DumpEnds(t) \/ TarEnds(t) \/ Sweep(t)
<1>1. CASE UNCHANGED nightVars
  BY <1>1 DEF nightVars, backupvars
<1>2. CASE SidecarEnds \/ RestartSidecar \/ TickMissed
  BY <1>2 DEF SidecarEnds, RestartSidecar, TickMissed
<1>3. ASSUME NEW t \in Tick,
             \/ TickFires(t)
             \/ TickStep(t) /\ UNCHANGED backupvars
             \/ DumpBegins(t) \/ TarBegins(t) \/ JobThrows(t) \/ LocalReturns(t)
             \/ OffSiteSkips(t) \/ FindFiles(t) \/ Copy(t) \/ CopyFails(t) \/ OffSiteReturns(t)
      PROVE  disk \subseteq disk'
  BY <1>3 DEF TickFires, DumpBegins, TarBegins, JobThrows, LocalReturns, OffSiteSkips,
     FindFiles, Copy, CopyFails, OffSiteReturns, backupvars
<1>. QED
  BY <1>1, <1>2, <1>3 DEF BackupNext

\* A sweep never deletes the newest whole dump: the backup that sweeps has left one of its own night.
THEOREM LastGoodDumpStays == BackupSpec => NewestGoodKept
<1>1. ASSUME NightIInv, [BackupNext]_nightVars, GoodDumps # {} PROVE Newest(GoodDumps) \in disk'
  <2>. DEFINE f == Newest(GoodDumps)
  <2>1. /\ f \in disk /\ f.kind = "dump" /\ f.whole /\ f \in FileType
        /\ \A g \in GoodDumps : g.night <= f.night
    BY <1>1, NewestIsLatest DEF GoodDumps, NightIInv, NightTypeOK
  <2>. HIDE DEF f
  <2>2. ASSUME disk \subseteq disk' PROVE f \in disk'
    BY <2>1, <2>2
  <2>3. ASSUME NEW t \in Tick, DumpEnds(t) PROVE f \in disk'
    <3>1. f \in Written(t, "dump") => f = File("dump", Night(t), TRUE)
      BY <2>1 DEF Written, FileName, File, FileType
    <3>. QED
      BY <2>1, <2>3, <3>1 DEF DumpEnds
  <2>4. ASSUME NEW t \in Tick, TarEnds(t) PROVE f \in disk'
    <3>1. f \notin Written(t, "images")
      BY <2>1 DEF Written, FileName
    <3>. QED
      BY <2>1, <2>4, <3>1 DEF TarEnds
  <2>5. ASSUME NEW t \in Tick, Sweep(t) PROVE f \in disk'
    <3>1. tick[t] = "body" /\ step[t] = "sweep" /\ Local(t) /\ tick[t] \in Running
      BY <1>1, <2>5, LocalSteps DEF Sweep, At, Running
    <3>2. DumpThere(t)
      BY <1>1, <3>1 DEF NightIInv, FilesInOrder, FilesOfNight
    <3>3. ASSUME NEW u \in Tick, Local(u), step[u] = "swept", Night(t) < Night(u) - RetentionNights PROVE FALSE
      <4>1. Night(t) < Night(u)
        <5>1. Night(t) \in Nat /\ Night(u) \in Nat /\ RetentionNights \in Nat
          BY TicksOfNights, BackupConstantsOK DEF BackupConstantsOK
        <5>. QED
          BY <3>3, <5>1
      <4>. QED
        BY <1>1, <3>1, <3>3, <4>1 DEF NightIInv, TicksInOrder, NoneAhead
    <3>4. File("dump", Night(t), TRUE) \in GoodDumps /\ File("dump", Night(t), TRUE).night = Night(t)
      BY <3>2, <3>3 DEF DumpThere, GoodDumps, File
    <3>5. Night(t) <= f.night
      BY <2>1, <3>4
    <3>6. f \notin TooOld(t)
      <4>1. Night(t) \in Nat /\ f.night \in Nat /\ RetentionNights \in Nat
        <5>1. Night(t) \in Nat /\ Nights \in Nat /\ RetentionNights \in Nat
          BY TicksOfNights, BackupConstantsOK DEF BackupConstantsOK
        <5>2. f.night \in 1..Nights
          BY <2>1 DEF FileType
        <5>. QED
          BY <5>1, <5>2
      <4>. QED
        BY <3>5, <4>1 DEF TooOld
    <3>. QED
      BY <2>1, <2>5, <3>6 DEF Sweep
  <2>6. f \in disk'
    BY <1>1, <2>2, <2>3, <2>4, <2>5, FilesTaken
  <2>. QED
    BY <2>6 DEF f
<1>2. NightIInv /\ [BackupNext]_nightVars => [GoodDumps # {} => Newest(GoodDumps) \in disk']_nightVars
  BY <1>1
<1>. QED
  BY <1>2, InitNight, NightPreserves, PTL DEF BackupSpec, NewestGoodKept

\* An off-site tick that looks when the local backup of its night is recorded, and the next has not
\* begun, ships the whole dump of this night.
THEOREM FreshDumpShipped == BackupSpec => FreshShipped
<1>1. ASSUME NightIInv, NEW t \in Tick, FindFiles(t), InTime(t)
      PROVE  \E i \in DOMAIN ship'[t] : ship'[t][i] = <<"dump", Night(t)>>
                                        /\ File("dump", Night(t), TRUE) \in disk
  <2>. DEFINE l == <<"local", Night(t)>>
              d == File("dump", Night(t), TRUE)
  <2>1. l \in Tick /\ Local(l) /\ Night(l) = Night(t) /\ row[l] = "succeeded" /\ Night(t) \in 1..Nights
    BY <1>1, TicksOfNights DEF InTime, Local, Night
  <2>2. DumpThere(l)
    BY <1>1, <2>1 DEF NightIInv, TicksInOrder, SweptFirst, FilesInOrder, FilesOfNight
  <2>3. ASSUME NEW u \in Tick, Local(u), step[u] = "swept", Night(t) < Night(u) - RetentionNights PROVE FALSE
    <3>1. Night(t) < Night(u)
      <4>1. Night(t) \in Nat /\ Night(u) \in Nat /\ RetentionNights \in Nat
        BY TicksOfNights, BackupConstantsOK DEF BackupConstantsOK
      <4>. QED
        BY <2>3, <4>1
    <3>. QED
      BY <1>1, <2>3, <3>1 DEF InTime
  <2>4. d \in disk
    BY <2>1, <2>2, <2>3 DEF DumpThere
  <2>5. d \in Of("dump") /\ Of("dump") \subseteq FileType /\ d.night = Night(t)
    BY <1>1, <2>4 DEF Of, File, NightIInv, NightTypeOK
  <2>6. PICK f \in Of("dump") : f = Newest(Of("dump")) /\ Night(t) <= f.night
    BY <2>5, NewestIsLatest
  <2>7. f.night = Night(t)
    <3>. SUFFICES ASSUME Night(t) < f.night PROVE FALSE
      BY <2>1, <2>5, <2>6 DEF FileType
    <3>1. f \in disk /\ f.night \in 1..Nights
      BY <2>5, <2>6 DEF Of, FileType
    <3>2. <<"local", f.night>> \in Tick /\ Local(<<"local", f.night>>) /\ Night(<<"local", f.night>>) = f.night
      BY <3>1, BackupConstantsOK DEF BackupConstantsOK, Local, Night
    <3>3. step[<<"local", f.night>>] = "start"
      BY <1>1, <3>2 DEF InTime
    <3>. QED
      BY <1>1, <3>1, <3>2, <3>3 DEF NightIInv, FilesInOrder, FilesOfNight
  <2>8. Latest("dump") = << <<"dump", Night(t)>> >>
    BY <2>5, <2>6, <2>7 DEF Latest, FileName, Of
  <2>9. ship'[t] = << <<"dump", Night(t)>> >> \o Latest("images")
    BY <1>1, <2>8 DEF FindFiles, NightIInv, ShipOfTicks
  <2>10. 1 \in DOMAIN ship'[t] /\ ship'[t][1] = <<"dump", Night(t)>>
    <3>1. CASE Latest("images") = <<>>
      BY <2>9, <3>1
    <3>2. ASSUME NEW x, Latest("images") = <<x>> PROVE 1 \in DOMAIN ship'[t] /\ ship'[t][1] = <<"dump", Night(t)>>
      BY <2>9, <3>2
    <3>. QED
      BY <3>1, <3>2 DEF Latest
  <2>. QED
    BY <2>4, <2>10
<1>2. NightIInv => [\A t \in Tick : FindFiles(t) /\ InTime(t) =>
                      \E i \in DOMAIN ship'[t] : ship'[t][i] = <<"dump", Night(t)>>
                                                 /\ File("dump", Night(t), TRUE) \in disk]_nightVars
  BY <1>1
<1>. QED
  BY <1>2, InitNight, NightPreserves, PTL DEF BackupSpec, FreshShipped
=============================================================================
