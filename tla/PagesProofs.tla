----------------------------- MODULE PagesProofs -----------------------------
(***************************************************************************)
(* What parts of pages show is what was asked for, or is stored: the lists *)
(* of a search box are those of its query, no hover card waits for an      *)
(* entry that nobody settles, and no topic is starred and hidden at once,  *)
(* for every number of queries, requests, cards, authors and parts.        *)
(*                                                                         *)
(* A box that waits for no timer waits for its query or shows it           *)
(* (TypeaheadIInv), which holds between a request and its answer too and   *)
(* is what the property of a box at rest follows from. The caches are      *)
(* sequences: a key that is replaced, or dropped to make room, leaves      *)
(* every other entry what it was (PutFits, AnswerFiled).                   *)
(***************************************************************************)
EXTENDS Typeahead, HoverCards, ReaderPrefs, ComposerBody, FiniteSetTheorems, SequenceTheorems, WellFoundedInduction, TLAPS

-----------------------------------------------------------------------------
(* The search box.                                                         *)

\* A set of numbers has a least one.
LEMMA LeastOfNat ==
  ASSUME NEW S \in SUBSET Nat, S # {} PROVE Min(S) \in S /\ \A m \in S : Min(S) <= m
<1>1. PICK n \in S : \A m \in S : ~(<<m, n>> \in OpToRel(<, Nat))
  BY WFMin, NatLessThanWellFounded
<1>2. ASSUME NEW m \in S PROVE n <= m
  <2>1. ~(m < n)
    BY <1>1 DEF OpToRel
  <2>. QED
    BY <2>1
<1>. QED
  BY <1>2 DEF Min

\* The cache keeps to its bound, and holds of every search what it was answered.
AnswersKept == cache \in Seq(CacheEntry) /\ CacheHonest

\* An answer is filed under the search it is of.
LEMMA AnswerFiled ==
  ASSUME TypeaheadConstantsOK, AnswersKept, NEW s \in Search, cache' = Stored(s)
  PROVE  AnswersKept'
<1>. DEFINE kept == IF Len(cache) >= CacheMax THEN Tail(cache) ELSE cache
            I == {j \in 1..Len(kept) : kept[j].key = KeyOf(s)}
            i == SelectInSeq(kept, LAMBDA e : e.key = KeyOf(s))
            entry == [key |-> KeyOf(s), value |-> ListsOf(s)]
<1>1. entry \in CacheEntry /\ entry.value = entry.key
  <2>1. ListsOf(s) = s
    BY DEF ListsOf, DashboardLists, ForumLists, Search, SearchMode
  <2>. QED
    BY <2>1 DEF CacheEntry, KeyOf
<1>2. CacheMax \in Nat \ {0} /\ Len(cache) \in Nat /\ cache \in Seq(CacheEntry) /\ Len(cache) <= CacheMax
      /\ \A j \in 1..Len(cache) : cache[j].value = cache[j].key
  BY DEF TypeaheadConstantsOK, AnswersKept, CacheHonest
<1>3. /\ kept \in Seq(CacheEntry) /\ Len(kept) \in Nat /\ Len(kept) + 1 <= CacheMax
      /\ \A j \in 1..Len(kept) : kept[j].value = kept[j].key
  <2>1. CASE Len(cache) >= CacheMax
    <3>1. cache # <<>>
      BY <1>2, <2>1
    <3>2. kept = Tail(cache)
      BY <2>1
    <3>3. /\ Tail(cache) \in Seq(CacheEntry) /\ Len(Tail(cache)) = Len(cache) - 1
          /\ \A j \in 1..Len(Tail(cache)) : Tail(cache)[j] = cache[j + 1] /\ j + 1 \in 1..Len(cache)
      BY <1>2, <3>1, HeadTailProperties
    <3>. HIDE DEF kept
    <3>. QED
      BY <1>2, <3>2, <3>3
  <2>2. CASE ~(Len(cache) >= CacheMax)
    BY <1>2, <2>2
  <2>. QED
    BY <2>1, <2>2
<1>4. i = (IF I # {} THEN Min(I) ELSE 0)
  BY DEF SelectInSeq
<1>5. i \in 0..Len(kept)
  <2>1. I \in SUBSET Nat
    BY <1>3
  <2>2. I # {} => Min(I) \in I
    BY <2>1, LeastOfNat
  <2>. HIDE DEF i, kept
  <2>. QED
    BY <1>3, <1>4, <2>2
<1>6. cache' = IF i = 0 THEN Append(kept, entry) ELSE [kept EXCEPT ![i] = entry]
  BY DEF Stored
<1>. HIDE DEF i, kept, entry
<1>7. CASE i = 0
  <2>1. /\ cache' \in Seq(CacheEntry) /\ Len(cache') = Len(kept) + 1
        /\ \A j \in 1..Len(kept) : cache'[j] = kept[j]
        /\ cache'[Len(kept) + 1] = entry
    BY <1>1, <1>3, <1>6, <1>7, AppendProperties
  <2>. QED
    BY <1>1, <1>2, <1>3, <2>1 DEF AnswersKept, CacheHonest
<1>8. CASE i # 0
  <2>1. i \in 1..Len(kept)
    BY <1>3, <1>5, <1>8
  <2>2. /\ cache' \in Seq(CacheEntry) /\ Len(cache') = Len(kept)
        /\ \A j \in 1..Len(kept) : cache'[j] = IF j = i THEN entry ELSE kept[j]
    BY <1>1, <1>3, <1>6, <1>8, <2>1, ExceptSeq
  <2>. QED
    BY <1>1, <1>2, <1>3, <2>2 DEF AnswersKept, CacheHonest
<1>. QED
  BY <1>7, <1>8
BoxRec == [mode : Mode, query : QueryText, open : BOOLEAN, loading : BOOLEAN,
           timer : SearchOrNull, latest : Fetch \cup {NULL},
           results : [SearchMode -> SearchOrNull], settings : QueryText \cup {NULL}]
FetchRec == [at : {"idle", "sent", "aborted"}, search : SearchOrNull]

\* What a box b waits for is of its mode, and of its query if that is long enough; its lists
\* are of its mode; the index of the settings is searched without requests.
BoxFits(b) ==
  /\ b \in BoxRec
  /\ b.timer # NULL => b.timer.mode = b.mode /\ (b.query \in LongQuery => b.timer.query = b.query)
  /\ \A m \in SearchMode : b.results[m] # NULL => m = b.mode /\ b.results[m].mode = m

\* A request under way is of the mode of the box, and the one that is heard is the latest; a
\* box that waits for no timer waits for its query, or shows it.
TypeaheadIInv ==
  /\ AnswersKept /\ crossed \in BOOLEAN /\ BoxFits(box)
  /\ fetches \in [Fetch -> FetchRec]
  /\ \A f \in Fetch : Live(f) => /\ box.latest = f /\ fetches[f].search \in Search
                                 /\ fetches[f].search.mode = box.mode
  /\ ~crossed /\ box.query \in LongQuery /\ box.timer = NULL =>
       IF \E f \in Fetch : Live(f)
       THEN \A f \in Fetch : Live(f) => fetches[f].search.query = box.query
       ELSE \A m \in SearchMode : box.results[m] # NULL => box.results[m].query = box.query

\* An empty box.
LEMMA EmptyFits ==
  ASSUME TypeaheadConstantsOK, NEW m \in Mode
  PROVE  BoxFits(EmptyBox(m)) /\ EmptyBox(m).query \notin LongQuery
<1>1. [k \in SearchMode |-> NULL] \in [SearchMode -> SearchOrNull]
  BY DEF SearchOrNull
<1>2. /\ EmptyBox(m) \in BoxRec /\ EmptyBox(m).timer = NULL /\ EmptyBox(m).query = "none"
      /\ EmptyBox(m).results = [k \in SearchMode |-> NULL]
  BY <1>1 DEF EmptyBox, BoxRec, QueryText, SearchOrNull
<1>. QED
  BY <1>2 DEF BoxFits, TypeaheadConstantsOK

\* A box is mounted, and nothing is cached.
LEMMA TypeaheadBegins ==
  ASSUME TypeaheadConstantsOK, TypeaheadInit PROVE TypeaheadIInv
<1>1. NoFetch \in FetchRec /\ NoFetch.at = "idle"
  BY DEF NoFetch, FetchRec, SearchOrNull
<1>2. PICK m \in Mode : box = EmptyBox(m)
  BY DEF TypeaheadInit
<1>3. BoxFits(box) /\ box.query \notin LongQuery
  BY <1>2, EmptyFits
<1>4. AnswersKept
  BY DEF TypeaheadInit, AnswersKept, CacheHonest, TypeaheadConstantsOK
<1>. QED
  BY <1>1, <1>3, <1>4 DEF TypeaheadInit, TypeaheadIInv, Live

\* The user types: the box waits for the new query, or for none.
LEMMA BoxTypes ==
  ASSUME TypeaheadConstantsOK, TypeaheadIInv, NEW q \in QueryText, Type(q)
  PROVE  TypeaheadIInv'
<1>. DEFINE timer == IF box.mode = "settings" \/ q \notin LongQuery THEN NULL
                     ELSE [mode |-> box.mode, query |-> q]
            results == [m \in SearchMode |-> IF m \in Emptied(q) THEN NULL ELSE box.results[m]]
            settings == IF box.mode = "settings" /\ Enough(box.mode, q) THEN q ELSE NULL
<1>1. box \in BoxRec /\ box.mode \in Mode /\ box.results \in [SearchMode -> SearchOrNull]
  BY DEF TypeaheadIInv, BoxFits, BoxRec
<1>2. /\ timer \in SearchOrNull /\ (timer # NULL => timer.mode = box.mode /\ timer.query = q)
      /\ q \in LongQuery /\ timer = NULL => box.mode = "settings"
  BY <1>1 DEF SearchOrNull, Search, SearchMode, Mode, TypeaheadConstantsOK
<1>3. /\ results \in [SearchMode -> SearchOrNull]
      /\ \A m \in SearchMode : results[m] # NULL => results[m] = box.results[m]
  BY <1>1 DEF SearchOrNull
<1>4. settings \in QueryText \cup {NULL} /\ Enough(box.mode, q) \in BOOLEAN
  BY DEF Enough
<1>5. box' = [box EXCEPT !.query = q, !.open = Enough(box.mode, q), !.results = results,
                         !.settings = settings, !.timer = timer]
  BY DEF Type
<1>. HIDE DEF timer, results, settings
<1>6. /\ box' \in BoxRec /\ box'.query = q /\ box'.results = results /\ box'.timer = timer
      /\ box'.mode = box.mode /\ box'.latest = box.latest
  BY <1>1, <1>2, <1>3, <1>4, <1>5 DEF BoxRec
<1>7. BoxFits(box')
  BY <1>2, <1>3, <1>6 DEF TypeaheadIInv, BoxFits
<1>8. box'.query \in LongQuery /\ box'.timer = NULL =>
        (\A f \in Fetch : ~Live(f)) /\ \A m \in SearchMode : box'.results[m] = NULL
  <2>. SUFFICES ASSUME q \in LongQuery, timer = NULL
                PROVE  (\A f \in Fetch : ~Live(f)) /\ \A m \in SearchMode : results[m] = NULL
    BY <1>6
  <2>1. box.mode = "settings" /\ "settings" \notin SearchMode
    BY <1>2 DEF SearchMode
  <2>2. \A f \in Fetch : Live(f) => fetches[f].search.mode \in SearchMode
    BY DEF TypeaheadIInv, Search
  <2>. QED
    BY <1>3, <2>1, <2>2 DEF TypeaheadIInv, BoxFits
<1>9. UNCHANGED <<fetches, cache>> /\ crossed' \in BOOLEAN
  BY DEF Type, TypeaheadIInv
<1>. QED
  BY <1>6, <1>7, <1>8, <1>9 DEF TypeaheadIInv, AnswersKept, CacheHonest, Live

\* The popover opens and closes; a choice blanks the box.
LEMMA BoxTurns ==
  ASSUME TypeaheadConstantsOK, TypeaheadIInv, Focus \/ Flip \/ Choose
  PROVE  TypeaheadIInv'
<1>1. box \in BoxRec
  BY DEF TypeaheadIInv, BoxFits
<1>2. /\ box' \in BoxRec /\ box'.query \in {box.query, "none"} /\ box'.timer = box.timer
      /\ box'.mode = box.mode /\ box'.results = box.results /\ box'.latest = box.latest
  <2>1. CASE Focus
    <3>. DEFINE o == box.open \/ box.mode = "settings" \/ box.query \in LongQuery
                s == IF box.mode # "settings" THEN box.settings
                     ELSE IF Enough(box.mode, box.query) THEN box.query ELSE NULL
    <3>1. o \in BOOLEAN /\ s \in QueryText \cup {NULL} /\ box' = [box EXCEPT !.open = o, !.settings = s]
      BY <1>1, <2>1 DEF Focus, BoxRec
    <3>. HIDE DEF o, s
    <3>. QED
      BY <1>1, <3>1 DEF BoxRec
  <2>2. CASE Flip
    BY <1>1, <2>2 DEF Flip, BoxRec
  <2>3. CASE Choose
    BY <1>1, <2>3 DEF Choose, BoxRec, QueryText
  <2>. QED
    BY <2>1, <2>2, <2>3
<1>3. UNCHANGED <<fetches, cache, crossed>>
  BY DEF Focus, Flip, Choose
<1>4. box'.query \in LongQuery => box'.query = box.query
  BY <1>2 DEF TypeaheadConstantsOK
<1>5. BoxFits(box')
  BY <1>2, <1>4 DEF TypeaheadIInv, BoxFits
<1>. QED
  BY <1>2, <1>3, <1>4, <1>5 DEF TypeaheadIInv, AnswersKept, CacheHonest, Live

\* Another page.
LEMMA BoxMounts ==
  ASSUME TypeaheadConstantsOK, TypeaheadIInv, NEW m \in Mode, Mount(m)
  PROVE  TypeaheadIInv'
<1>1. NoFetch \in FetchRec /\ NoFetch.at = "idle"
  BY DEF NoFetch, FetchRec, SearchOrNull
<1>2. BoxFits(box') /\ box'.query \notin LongQuery
  BY EmptyFits DEF Mount
<1>. QED
  BY <1>1, <1>2 DEF Mount, TypeaheadIInv, AnswersKept, CacheHonest, Live

\* A box b shows lists r of mode m, or none, and waits for the timer t.
ShowsIn(b, m, r, t) == b = [box EXCEPT !.timer = t, !.loading = FALSE, !.results[m] = r]

\* A box that shows lists of its own mode fits.
LEMMA BoxShows ==
  ASSUME BoxFits(box), NEW m \in SearchMode, NEW r \in SearchOrNull, NEW b, NEW t \in {NULL, box.timer},
         r # NULL => r.mode = m /\ m = box.mode,
         ShowsIn(b, m, r, t)
  PROVE  /\ BoxFits(b) /\ b.mode = box.mode /\ b.query = box.query /\ b.latest = box.latest
         /\ b.results[m] = r /\ \A k \in SearchMode \ {m} : b.results[k] = box.results[k]
         /\ b.timer = t
<1>. DEFINE results == [box.results EXCEPT ![m] = r]
<1>1. box \in BoxRec /\ box.results \in [SearchMode -> SearchOrNull]
  BY DEF BoxFits, BoxRec
<1>2. /\ results \in [SearchMode -> SearchOrNull] /\ results[m] = r
      /\ \A k \in SearchMode \ {m} : results[k] = box.results[k]
  BY <1>1
<1>3. b = [box EXCEPT !.timer = t, !.loading = FALSE, !.results = results]
  BY DEF ShowsIn
<1>. HIDE DEF results
<1>4. /\ b \in BoxRec /\ b.mode = box.mode /\ b.query = box.query /\ b.latest = box.latest
      /\ b.results = results /\ b.timer = t
  BY <1>1, <1>2, <1>3 DEF BoxRec, SearchOrNull
<1>5. BoxFits(b)
  BY <1>2, <1>4 DEF BoxFits
<1>. QED
  BY <1>2, <1>4, <1>5

\* The timer finds the answer in the cache.
LEMMA BoxHits ==
  ASSUME TypeaheadConstantsOK, TypeaheadIInv, Hit
  PROVE  TypeaheadIInv'
<1>. DEFINE t == box.timer
<1>1. t \in Search /\ t # NULL /\ t.mode = box.mode /\ t.mode \in SearchMode
  BY DEF Hit, TypeaheadIInv, BoxFits, BoxRec, SearchOrNull, Search
<1>2. PICK v \in Cached(KeyOf(t)) : box' = [box EXCEPT !.timer = NULL, !.loading = FALSE, !.results[t.mode] = v]
  BY DEF Hit
<1>3. v = t
  BY <1>2 DEF Cached, KeyOf, TypeaheadIInv, AnswersKept, CacheHonest
<1>4. /\ BoxFits(box') /\ box'.mode = box.mode /\ box'.query = box.query /\ box'.latest = box.latest
      /\ box'.results[t.mode] = t /\ \A k \in SearchMode \ {t.mode} : box'.results[k] = box.results[k]
  <2>1. BoxFits(box) /\ t.mode \in SearchMode /\ t \in SearchOrNull
    BY <1>1 DEF TypeaheadIInv, SearchOrNull
  <2>2. ShowsIn(box', t.mode, t, NULL)
    BY <1>2, <1>3 DEF ShowsIn
  <2>. HIDE DEF t
  <2>. QED
    BY <1>1, <2>1, <2>2, BoxShows
<1>5. /\ UNCHANGED <<fetches, cache>> /\ crossed' \in BOOLEAN
      /\ ~crossed' => \A f \in Fetch : ~Live(f)
  BY DEF Hit, TypeaheadIInv
<1>6. ASSUME box.query \in LongQuery, NEW m \in SearchMode, box'.results[m] # NULL
      PROVE  box'.results[m].query = box.query
  <2>1. t.query = box.query
    BY <1>1, <1>6 DEF TypeaheadIInv, BoxFits
  <2>2. m = t.mode
    BY <1>1, <1>4, <1>6 DEF TypeaheadIInv, BoxFits
  <2>. QED
    BY <1>4, <2>1, <2>2
<1>. QED
  BY <1>4, <1>5, <1>6 DEF TypeaheadIInv, AnswersKept, CacheHonest, Live

\* The timer starts a request, the only one that is heard.
LEMMA BoxAsks ==
  ASSUME TypeaheadConstantsOK, TypeaheadIInv, NEW g \in Fetch, Miss(g)
  PROVE  TypeaheadIInv'
<1>. DEFINE t == box.timer
<1>1. box \in BoxRec /\ t \in Search /\ t # NULL /\ t.mode = box.mode /\ (box.query \in LongQuery => t.query = box.query)
  BY DEF Miss, TypeaheadIInv, BoxFits, BoxRec, SearchOrNull
<1>2. box' = [box EXCEPT !.timer = NULL, !.loading = TRUE, !.latest = g]
  BY DEF Miss
<1>3. /\ box' \in BoxRec /\ box'.timer = NULL /\ box'.latest = g /\ box'.mode = box.mode
      /\ box'.query = box.query /\ box'.results = box.results
  BY <1>1, <1>2 DEF BoxRec, SearchOrNull
<1>4. BoxFits(box')
  BY <1>3 DEF BoxFits, TypeaheadIInv
<1>5. /\ fetches' \in [Fetch -> FetchRec] /\ fetches'[g].at = "sent" /\ fetches'[g].search = t
      /\ \A f \in Fetch \ {g} : fetches'[f].at # "sent"
  <2>1. fetches \in [Fetch -> FetchRec]
    BY DEF TypeaheadIInv
  <2>2. [at |-> "sent", search |-> t] \in FetchRec
    BY <1>1 DEF FetchRec, SearchOrNull
  <2>3. \A f \in Fetch : /\ [fetches[f] EXCEPT !.at = "aborted"] \in FetchRec
                         /\ [fetches[f] EXCEPT !.at = "aborted"].at = "aborted"
    BY <2>1 DEF FetchRec
  <2>4. fetches' = [f \in Fetch |->
          IF f = g THEN [at |-> "sent", search |-> t]
          ELSE IF Aborted(f) THEN [fetches[f] EXCEPT !.at = "aborted"] ELSE fetches[f]]
    BY DEF Miss
  <2>5. \A f \in Fetch : Live(f) => Aborted(f)
    BY DEF TypeaheadIInv, Aborted
  <2>. QED
    BY <2>1, <2>2, <2>3, <2>4, <2>5 DEF Live
<1>6. UNCHANGED <<cache, crossed>>
  BY DEF Miss
<1>. QED
  BY <1>1, <1>3, <1>4, <1>5, <1>6 DEF TypeaheadIInv, AnswersKept, CacheHonest, Live

\* The request that is heard ends, with lists r of its mode or none.
LEMMA BoxHears ==
  ASSUME TypeaheadConstantsOK, TypeaheadIInv, NEW f \in Fetch, Answer(f) \/ Fail(f)
  PROVE  TypeaheadIInv'
<1>. DEFINE s == fetches[f].search
            m == s.mode
<1>1. s \in Search /\ m = box.mode /\ m \in SearchMode /\ ListsOf(s) = s /\ Live(f)
  BY DEF Answer, Fail, TypeaheadIInv, ListsOf, DashboardLists, ForumLists, Search, SearchMode
<1>2. PICK r \in {s, NULL} : box' = Without([box EXCEPT !.results[m] = r, !.loading = FALSE], f)
  BY <1>1 DEF Answer, Fail, Shows
<1>. DEFINE b == [box EXCEPT !.results[m] = r, !.loading = FALSE]
<1>3. /\ BoxFits(b) /\ b.mode = box.mode /\ b.query = box.query
      /\ b.results[m] = r /\ \A k \in SearchMode \ {m} : b.results[k] = box.results[k]
      /\ b.timer = box.timer
  <2>1. BoxFits(box) /\ m \in SearchMode /\ r \in SearchOrNull /\ (r # NULL => r.mode = m /\ m = box.mode)
    BY <1>1, <1>2 DEF TypeaheadIInv, SearchOrNull
  <2>2. ShowsIn(b, m, r, box.timer)
    <3>1. box \in BoxRec
      BY DEF TypeaheadIInv, BoxFits
    <3>. QED
      BY <3>1 DEF ShowsIn, BoxRec
  <2>. HIDE DEF b, m
  <2>. QED
    BY <2>1, <2>2, BoxShows
<1>. HIDE DEF b, m
<1>4. /\ BoxFits(box') /\ box'.mode = box.mode /\ box'.query = box.query
      /\ box'.results = b.results /\ box'.timer = box.timer
  <2>1. box' = b \/ box' = [b EXCEPT !.latest = NULL]
    BY <1>2 DEF Without, b
  <2>2. LET n == [b EXCEPT !.latest = NULL] IN
        n \in BoxRec /\ n.mode = b.mode /\ n.query = b.query /\ n.results = b.results /\ n.timer = b.timer
    BY <1>3 DEF BoxFits, BoxRec
  <2>3. BoxFits([b EXCEPT !.latest = NULL])
    BY <1>3, <2>2 DEF BoxFits
  <2>. QED
    BY <1>3, <2>1, <2>2, <2>3
<1>5. /\ fetches' \in [Fetch -> FetchRec] /\ \A g \in Fetch : fetches'[g].at # "sent"
  <2>1. NoFetch \in FetchRec /\ NoFetch.at = "idle"
    BY DEF NoFetch, FetchRec, SearchOrNull
  <2>2. fetches' = [fetches EXCEPT ![f] = NoFetch]
    BY DEF Answer, Fail, Finish
  <2>3. \A g \in Fetch \ {f} : ~Live(g)
    BY <1>1 DEF TypeaheadIInv
  <2>. QED
    BY <2>1, <2>2, <2>3 DEF TypeaheadIInv, Live
<1>6. AnswersKept' /\ UNCHANGED crossed
  <2>1. CASE Answer(f)
    BY <1>1, <2>1, AnswerFiled DEF Answer, TypeaheadIInv
  <2>2. CASE Fail(f)
    BY <2>2 DEF Fail, TypeaheadIInv, AnswersKept, CacheHonest
  <2>. QED
    BY <2>1, <2>2
<1>7. ASSUME ~crossed, box.query \in LongQuery, box.timer = NULL, NEW k \in SearchMode, b.results[k] # NULL
      PROVE  b.results[k].query = box.query
  <2>1. s.query = box.query
    BY <1>1, <1>7 DEF TypeaheadIInv
  <2>2. k = m
    BY <1>1, <1>3, <1>7 DEF TypeaheadIInv, BoxFits
  <2>. QED
    BY <1>3, <1>7, <2>1, <2>2
<1>. QED
  BY <1>4, <1>5, <1>6, <1>7 DEF TypeaheadIInv, Live

\* An aborted request ends, and leaves the lists alone.
LEMMA BoxLetsGo ==
  ASSUME TypeaheadConstantsOK, TypeaheadIInv, NEW f \in Fetch, HearAbort(f)
  PROVE  TypeaheadIInv'
<1>1. box \in BoxRec /\ box' = [box EXCEPT !.loading = FALSE]
  BY DEF HearAbort, TypeaheadIInv, BoxFits
<1>2. /\ box' \in BoxRec /\ box'.timer = box.timer /\ box'.latest = box.latest /\ box'.mode = box.mode
      /\ box'.query = box.query /\ box'.results = box.results
  BY <1>1 DEF BoxRec
<1>3. BoxFits(box')
  BY <1>2 DEF BoxFits, TypeaheadIInv
<1>4. /\ fetches' \in [Fetch -> FetchRec] /\ fetches'[f].at # "sent" /\ fetches[f].at # "sent"
      /\ \A g \in Fetch \ {f} : fetches'[g] = fetches[g]
  <2>1. NoFetch \in FetchRec /\ NoFetch.at = "idle"
    BY DEF NoFetch, FetchRec, SearchOrNull
  <2>. QED
    BY <2>1 DEF HearAbort, Finish, TypeaheadIInv
<1>5. \A g \in Fetch : fetches'[g].at = "sent" <=> fetches[g].at = "sent"
  BY <1>4
<1>6. UNCHANGED <<cache, crossed>>
  BY DEF HearAbort
<1>. QED
  BY <1>2, <1>3, <1>4, <1>5, <1>6 DEF TypeaheadIInv, AnswersKept, CacheHonest, Live

\* Every step of the search box.
LEMMA TypeaheadGoes ==
  ASSUME TypeaheadConstantsOK, TypeaheadIInv, [TypeaheadNext]_typeaheadVars PROVE TypeaheadIInv'
<1>1. CASE UNCHANGED typeaheadVars
  BY <1>1 DEF typeaheadVars, TypeaheadIInv, BoxFits, AnswersKept, CacheHonest, Live
<1>. QED
  BY <1>1, BoxTypes, BoxTurns, BoxMounts, BoxHits, BoxAsks, BoxHears, BoxLetsGo DEF TypeaheadNext

\* The invariant is TypeaheadInv, and more.
LEMMA TypeaheadFits ==
  ASSUME TypeaheadConstantsOK, TypeaheadIInv PROVE TypeaheadInv
<1>1. TypeaheadTypeOK
  BY DEF TypeaheadTypeOK, TypeaheadIInv, AnswersKept, BoxFits, BoxRec, FetchRec
<1>2. ASSUME ~SearchPending, ~crossed, box.query \in LongQuery, NEW m \in SearchMode
      PROVE  box.results[m] \in {NULL, [mode |-> m, query |-> box.query]}
  <2>1. box.timer = NULL /\ \A f \in Fetch : ~Live(f)
    BY <1>2 DEF SearchPending, Live
  <2>2. box.results[m] # NULL => /\ box.results[m] \in Search
                                 /\ box.results[m].mode = m /\ box.results[m].query = box.query
    BY <1>2, <2>1 DEF TypeaheadIInv, BoxFits, BoxRec, SearchOrNull
  <2>. QED
    BY <2>2 DEF Search
<1>. QED
  BY <1>1, <1>2 DEF TypeaheadInv, TypeaheadIInv, AnswersKept, OneLive, AtRestShowsQuery

\* The cache has the answers of its keys, one request is heard, and a box at rest shows its
\* query's lists unless a cached answer went past a request (TypeaheadSearch.tsx).
THEOREM SearchesShown ==
  ASSUME TypeaheadConstantsOK
  PROVE  TypeaheadInit /\ [][TypeaheadNext]_typeaheadVars => []TypeaheadInv
<1>1. TypeaheadInit => TypeaheadIInv
  BY TypeaheadBegins
<1>2. TypeaheadIInv /\ [TypeaheadNext]_typeaheadVars => TypeaheadIInv'
  BY TypeaheadGoes
<1>3. TypeaheadIInv => TypeaheadInv
  BY TypeaheadFits
<1>. QED
  BY <1>1, <1>2, <1>3, PTL

-----------------------------------------------------------------------------
(* The hover cards.                                                        *)

\* SlotOf finds the entry of an author, if there is one.
LEMMA SlotFound ==
  ASSUME summaries \in Seq(Entry), NEW a
  PROVE  /\ SlotOf(a) \in 0..Len(summaries)
         /\ SlotOf(a) # 0 => summaries[SlotOf(a)].author = a
         /\ SlotOf(a) = 0 => \A i \in 1..Len(summaries) : summaries[i].author # a
<1>. DEFINE I == {i \in 1..Len(summaries) : summaries[i].author = a}
<1>1. SlotOf(a) = IF I # {} THEN Min(I) ELSE 0
  BY DEF SlotOf, SelectInSeq
<1>2. I \in SUBSET Nat /\ Len(summaries) \in Nat
  OBVIOUS
<1>3. I # {} => Min(I) \in I
  BY <1>2, LeastOfNat
<1>. QED
  BY <1>1, <1>2, <1>3

\* One entry an author, and no more than the cache may hold.
CacheFits == /\ summaries \in Seq(Entry) /\ Len(summaries) <= SummaryMax
             /\ \A i, j \in 1..Len(summaries) : summaries[i].author = summaries[j].author => i = j

\* A put leaves the entries of other authors as they are, or drops one.
LEMMA PutFits ==
  ASSUME HoverConstantsOK, CacheFits, NEW a \in Author, NEW kind \in Kind \cup {"pending"}, Put(a, kind)
  PROVE  /\ CacheFits'
         /\ \A i \in 1..Len(summaries') :
              \/ summaries'[i].author = a /\ summaries'[i].kind = kind
              \/ summaries'[i].author # a /\ \E j \in 1..Len(summaries) : summaries'[i] = summaries[j]
<1>. DEFINE entry == [author |-> a, kind |-> kind]
<1>1. entry \in Entry /\ entry.author = a /\ entry.kind = kind
  BY DEF Entry
<1>2. CASE SlotOf(a) # 0
  <2>1. SlotOf(a) \in 1..Len(summaries) /\ summaries[SlotOf(a)].author = a
    BY <1>2, SlotFound DEF CacheFits
  <2>2. summaries' = [summaries EXCEPT ![SlotOf(a)] = entry]
    BY <1>2 DEF Put
  <2>. HIDE DEF entry
  <2>3. /\ summaries' \in Seq(Entry) /\ Len(summaries') = Len(summaries)
        /\ \A j \in 1..Len(summaries) : summaries'[j] = IF j = SlotOf(a) THEN entry ELSE summaries[j]
    BY <1>1, <2>1, <2>2, ExceptSeq DEF CacheFits
  <2>4. \A j \in 1..Len(summaries) : summaries'[j].author = summaries[j].author
    BY <1>1, <2>1, <2>3
  <2>5. CacheFits'
    BY <2>3, <2>4 DEF CacheFits
  <2>6. \A j \in 1..Len(summaries) : summaries[j].author = a => j = SlotOf(a)
    BY <2>1 DEF CacheFits
  <2>. QED
    BY <1>1, <2>3, <2>5, <2>6
<1>3. CASE SlotOf(a) = 0
  <2>1. \A i \in 1..Len(summaries) : summaries[i].author # a
    BY <1>3, SlotFound DEF CacheFits
  <2>. DEFINE kept == IF Len(summaries) >= SummaryMax THEN Tail(summaries) ELSE summaries
              k == IF Len(summaries) >= SummaryMax THEN 1 ELSE 0
  <2>2. summaries' = Append(kept, entry)
    BY <1>3 DEF Put
  <2>3. SummaryMax \in Nat \ {0} /\ Len(summaries) \in Nat
    BY DEF HoverConstantsOK, CacheFits
  <2>4. /\ kept \in Seq(Entry) /\ Len(kept) = Len(summaries) - k
        /\ \A i \in 1..Len(kept) : kept[i] = summaries[i + k] /\ i + k \in 1..Len(summaries)
    <3>1. CASE Len(summaries) >= SummaryMax
      <4>1. summaries # <<>>
        BY <2>3, <3>1
      <4>. QED
        BY <2>3, <3>1, <4>1, HeadTailProperties DEF CacheFits
    <3>2. CASE ~(Len(summaries) >= SummaryMax)
      BY <2>3, <3>2 DEF CacheFits
    <3>. QED
      BY <3>1, <3>2
  <2>5. Len(kept) \in Nat /\ Len(kept) + 1 <= SummaryMax
    BY <2>3, <2>4 DEF CacheFits
  <2>. HIDE DEF kept, entry
  <2>6. /\ summaries' \in Seq(Entry) /\ Len(summaries') = Len(kept) + 1
        /\ \A i \in 1..Len(kept) : summaries'[i] = kept[i]
        /\ summaries'[Len(kept) + 1] = entry
    BY <1>1, <2>2, <2>4, AppendProperties
  <2>7. ASSUME NEW i \in 1..Len(summaries'), i # Len(kept) + 1
        PROVE  i \in 1..Len(kept) /\ summaries'[i] = summaries[i + k] /\ i + k \in 1..Len(summaries)
    BY <2>4, <2>5, <2>6, <2>7
  <2>8. \A i, j \in 1..Len(summaries') : summaries'[i].author = summaries'[j].author => i = j
    <3>. SUFFICES ASSUME NEW i \in 1..Len(summaries'), NEW j \in 1..Len(summaries'),
                         summaries'[i].author = summaries'[j].author
                  PROVE  i = j
      OBVIOUS
    <3>1. CASE i = Len(kept) + 1 \/ j = Len(kept) + 1
      BY <1>1, <2>1, <2>6, <2>7, <3>1
    <3>2. CASE i # Len(kept) + 1 /\ j # Len(kept) + 1
      <4>1. i + k = j + k
        BY <2>7, <3>2 DEF CacheFits
      <4>. QED
        BY <4>1
    <3>. QED
      BY <3>1, <3>2
  <2>9. CacheFits'
    BY <2>5, <2>6, <2>8 DEF CacheFits
  <2>. HIDE DEF k
  <2>. QED
    BY <1>1, <2>1, <2>6, <2>7, <2>9
<1>. QED
  BY <1>2, <1>3

CardRec == [author : Author \cup {NULL}, open : BOOLEAN, shows : Kind \cup {"pending", NULL}]
SummaryRec == [author : Author \cup {NULL}, by : Card \cup {NULL}]

HoverIInv ==
  /\ hover \in [Card -> CardRec] /\ summary \in [SummaryFetch -> SummaryRec] /\ CacheFits
  /\ \A i \in 1..Len(summaries) :
       summaries[i].kind = "pending" => \E f \in SummaryFetch : summary[f].author = summaries[i].author

\* Nothing is mounted yet.
LEMMA HoverBegins ==
  ASSUME HoverConstantsOK, HoverInit PROVE HoverIInv
<1>1. NoHover \in CardRec /\ NoSummary \in SummaryRec
  BY DEF NoHover, NoSummary, CardRec, SummaryRec
<1>2. <<>> \in Seq(Entry) /\ Len(<<>>) = 0
  OBVIOUS
<1>. QED
  BY <1>1, <1>2 DEF HoverInit, HoverIInv, CacheFits, HoverConstantsOK

\* What the cache knows of an author is a kind of summary, or nothing.
LEMMA KindKnown ==
  ASSUME summaries \in Seq(Entry), NEW a PROVE KindOf(a) \in Kind \cup {"pending", NULL}
<1>1. SlotOf(a) # 0 => SlotOf(a) \in 1..Len(summaries)
  BY SlotFound
<1>2. \A i \in 1..Len(summaries) : summaries[i] \in Entry
  BY ElementOfSeq
<1>. QED
  BY <1>1, <1>2 DEF KindOf, Entry

\* Cards come, go, open on what the cache has, and close.
LEMMA CardMoves ==
  ASSUME HoverConstantsOK, HoverIInv, NEW c \in Card,
         UnmountCard(c) \/ OpenKnown(c) \/ CloseCard(c) \/ \E a \in Author : MountCard(c, a)
  PROVE  HoverIInv'
<1>1. NoHover \in CardRec /\ hover[c] \in CardRec
  BY DEF NoHover, CardRec, HoverIInv
<1>2. PICK h \in CardRec : hover' = [hover EXCEPT ![c] = h]
  <2>1. \A k \in Kind \cup {"pending", NULL} : [hover[c] EXCEPT !.open = TRUE, !.shows = k] \in CardRec
    BY <1>1 DEF CardRec
  <2>2. [hover[c] EXCEPT !.open = FALSE] \in CardRec
    BY <1>1 DEF CardRec
  <2>3. \A a \in Author : [author |-> a, open |-> FALSE, shows |-> KindOf(a)] \in CardRec
    BY KindKnown DEF CardRec, HoverIInv, CacheFits
  <2>4. CASE UnmountCard(c)
    BY <1>1, <2>4 DEF UnmountCard
  <2>5. CASE OpenKnown(c)
    <3>1. hover' = [hover EXCEPT ![c] = [hover[c] EXCEPT !.open = TRUE, !.shows = KindOf(hover[c].author)]]
      BY <2>5 DEF OpenKnown, HoverIInv
    <3>. QED
      BY <2>1, <3>1, KindKnown DEF HoverIInv, CacheFits
  <2>6. CASE CloseCard(c)
    <3>1. hover' = [hover EXCEPT ![c] = [hover[c] EXCEPT !.open = FALSE]]
      BY <2>6 DEF CloseCard, HoverIInv
    <3>. QED
      BY <2>2, <3>1
  <2>7. CASE \E a \in Author : MountCard(c, a)
    BY <2>3, <2>7 DEF MountCard
  <2>. QED
    BY <2>4, <2>5, <2>6, <2>7
<1>3. hover' \in [Card -> CardRec]
  BY <1>2 DEF HoverIInv
<1>4. /\ summary' \in [SummaryFetch -> SummaryRec] /\ UNCHANGED summaries
      /\ \A f \in SummaryFetch : summary'[f].author = summary[f].author
  <2>1. summary \in [SummaryFetch -> SummaryRec]
    BY DEF HoverIInv
  <2>2. \A f \in SummaryFetch : /\ [summary[f] EXCEPT !.by = NULL] \in SummaryRec
                                /\ [summary[f] EXCEPT !.by = NULL].author = summary[f].author
    BY <2>1 DEF SummaryRec
  <2>3. CASE UnmountCard(c)
    BY <2>1, <2>2, <2>3 DEF UnmountCard
  <2>4. CASE UNCHANGED <<summary, summaries>>
    BY <2>1, <2>4
  <2>. QED
    BY <2>3, <2>4 DEF OpenKnown, CloseCard, MountCard
<1>. QED
  BY <1>3, <1>4 DEF HoverIInv, CacheFits

\* A hover that finds nothing starts a request, and the entry that waits for it.
LEMMA HoverAsks ==
  ASSUME HoverConstantsOK, HoverIInv, NEW c \in Card, NEW f \in SummaryFetch, OpenUnknown(c, f)
  PROVE  HoverIInv'
<1>. DEFINE a == hover[c].author
<1>1. hover \in [Card -> CardRec] /\ a \in Author /\ summary \in [SummaryFetch -> SummaryRec]
  BY DEF HoverIInv, CardRec, OpenUnknown
<1>2. hover' \in [Card -> CardRec]
  <2>1. hover' = [hover EXCEPT ![c] = [hover[c] EXCEPT !.open = TRUE, !.shows = "pending"]]
    BY <1>1 DEF OpenUnknown
  <2>2. [hover[c] EXCEPT !.open = TRUE, !.shows = "pending"] \in CardRec
    BY <1>1 DEF CardRec
  <2>. QED
    BY <1>1, <2>1, <2>2
<1>3. /\ summary' \in [SummaryFetch -> SummaryRec] /\ summary'[f].author = a
      /\ \A g \in SummaryFetch \ {f} : summary'[g] = summary[g]
  <2>1. [author |-> a, by |-> c] \in SummaryRec /\ [author |-> a, by |-> c].author = a
    BY <1>1 DEF SummaryRec
  <2>. QED
    BY <1>1, <2>1 DEF OpenUnknown
<1>4. Put(a, "pending") /\ summary[f].author = NULL
  BY DEF OpenUnknown
<1>. HIDE DEF a
<1>5. /\ CacheFits'
      /\ \A i \in 1..Len(summaries') :
           \/ summaries'[i].author = a /\ summaries'[i].kind = "pending"
           \/ summaries'[i].author # a /\ \E j \in 1..Len(summaries) : summaries'[i] = summaries[j]
  BY <1>1, <1>4, PutFits DEF HoverIInv
<1>6. ASSUME NEW i \in 1..Len(summaries'), summaries'[i].kind = "pending"
      PROVE  \E g \in SummaryFetch : summary'[g].author = summaries'[i].author
  <2>1. CASE summaries'[i].author = a
    BY <1>3, <2>1
  <2>2. CASE summaries'[i].author # a
    <3>1. PICK j \in 1..Len(summaries) : summaries'[i] = summaries[j]
      BY <1>5, <2>2
    <3>2. summaries[j].author \in Author
      <4>1. summaries[j] \in Entry
        BY ElementOfSeq DEF HoverIInv, CacheFits
      <4>. QED
        BY <4>1 DEF Entry
    <3>3. PICK g \in SummaryFetch : summary[g].author = summaries[j].author
      BY <1>6, <3>1 DEF HoverIInv
    <3>4. g # f
      BY <1>4, <3>2, <3>3 DEF HoverConstantsOK
    <3>. QED
      BY <1>3, <3>1, <3>3, <3>4
  <2>. QED
    BY <2>1, <2>2
<1>. QED
  BY <1>2, <1>3, <1>5, <1>6 DEF HoverIInv

\* A request ends: the entry of its author waits no longer, whoever else asks for it still.
LEMMA HoverHears ==
  ASSUME HoverConstantsOK, HoverIInv, NEW f \in SummaryFetch, NEW kind \in Kind, EndSummary(f, kind)
  PROVE  HoverIInv'
<1>. DEFINE a == summary[f].author
<1>1. hover \in [Card -> CardRec] /\ summary \in [SummaryFetch -> SummaryRec] /\ a \in Author
  BY DEF HoverIInv, SummaryRec, EndSummary
<1>2. hover' \in [Card -> CardRec]
  <2>1. CASE summary[f].by = NULL
    BY <1>1, <2>1 DEF EndSummary
  <2>2. CASE summary[f].by # NULL
    <3>. DEFINE c == summary[f].by
    <3>1. c \in Card
      BY <1>1, <2>2 DEF SummaryRec
    <3>2. hover' = [hover EXCEPT ![c] = [hover[c] EXCEPT !.shows = kind]]
      BY <1>1, <2>2, <3>1 DEF EndSummary
    <3>3. [hover[c] EXCEPT !.shows = kind] \in CardRec
      BY <1>1, <3>1 DEF CardRec
    <3>. QED
      BY <1>1, <3>1, <3>2, <3>3
  <2>. QED
    BY <2>1, <2>2
<1>3. /\ summary' \in [SummaryFetch -> SummaryRec]
      /\ \A g \in SummaryFetch \ {f} : summary'[g] = summary[g]
  <2>1. NoSummary \in SummaryRec
    BY DEF NoSummary, SummaryRec
  <2>. QED
    BY <1>1, <2>1 DEF EndSummary
<1>4. Put(a, kind)
  BY DEF EndSummary
<1>. HIDE DEF a
<1>5. /\ CacheFits'
      /\ \A i \in 1..Len(summaries') :
           \/ summaries'[i].author = a /\ summaries'[i].kind = kind
           \/ summaries'[i].author # a /\ \E j \in 1..Len(summaries) : summaries'[i] = summaries[j]
  BY <1>1, <1>4, PutFits DEF HoverIInv
<1>6. ASSUME NEW i \in 1..Len(summaries'), summaries'[i].kind = "pending"
      PROVE  \E g \in SummaryFetch : summary'[g].author = summaries'[i].author
  <2>1. summaries'[i].author # a
    BY <1>5, <1>6 DEF Kind
  <2>2. PICK j \in 1..Len(summaries) : summaries'[i] = summaries[j]
    BY <1>5, <2>1
  <2>3. PICK g \in SummaryFetch : summary[g].author = summaries[j].author
    BY <1>6, <2>2 DEF HoverIInv
  <2>4. g # f
    BY <2>1, <2>2, <2>3 DEF a
  <2>. QED
    BY <1>3, <2>2, <2>3, <2>4
<1>. QED
  BY <1>2, <1>3, <1>5, <1>6 DEF HoverIInv

\* Every step of the hover cards.
LEMMA HoverGoes ==
  ASSUME HoverConstantsOK, HoverIInv, [HoverNext]_hoverVars PROVE HoverIInv'
<1>1. CASE UNCHANGED hoverVars
  BY <1>1 DEF hoverVars, HoverIInv, CacheFits
<1>. QED
  BY <1>1, CardMoves, HoverAsks, HoverHears DEF HoverNext

\* The invariant is HoverInv.
LEMMA HoverFits ==
  ASSUME HoverIInv PROVE HoverInv
BY DEF HoverIInv, HoverInv, HoverTypeOK, PendingHasRequest, CacheFits, CardRec, SummaryRec

\* An entry of the cache that is pending has a request, and the cache keeps to its bound, with
\* one entry an author (AuthorHoverCard.tsx).
THEOREM HoversSettle ==
  ASSUME HoverConstantsOK
  PROVE  HoverInit /\ [][HoverNext]_hoverVars => []HoverInv
<1>1. HoverInit => HoverIInv
  BY HoverBegins
<1>2. HoverIInv /\ [HoverNext]_hoverVars => HoverIInv'
  BY HoverGoes
<1>3. HoverIInv => HoverInv
  BY HoverFits
<1>. QED
  BY <1>1, <1>2, <1>3, PTL

-----------------------------------------------------------------------------
(* The preferences of a reader.                                            *)

\* The sets p of a toggle may be stored: no topic of them is starred and hidden.
Apart(p) == p \in Prefs /\ p.starred \cap p.hidden = {}

\* The invariant, with the parts that show something told apart.
PrefsIInv ==
  /\ Apart(stored) /\ passed \subseteq Widget \X Sort
  /\ shown \in [Widget -> Prefs \cup {NULL}]
  /\ \A p \in Widget : shown[p] # NULL => Apart(shown[p])
  /\ WidgetsTrue

\* The writes of a toggle leave one set alone and keep topics apart, after each of them.
LEMMA WritesApart ==
  ASSUME Apart(stored)
  PROVE  /\ \A t \in Topic : \A w \in {StarWrites(t), HideWrites(t)} :
              /\ Len(w) \in {1, 2}
              /\ \A i \in 1..Len(w) : Apart(w[i]) /\ w[i].fancied = stored.fancied
         /\ \A x \in Fancied : /\ Len(FancyWrites(x)) = 1 /\ Apart(FancyWrites(x)[1])
                               /\ FancyWrites(x)[1].starred = stored.starred
                               /\ FancyWrites(x)[1].hidden = stored.hidden
<1>1. PICK s \in SUBSET Topic, h \in SUBSET Topic, f \in SUBSET Fancied :
        stored = [starred |-> s, hidden |-> h, fancied |-> f] /\ s \cap h = {}
  BY DEF Apart, Prefs
<1>. DEFINE P(a, b, c) == [starred |-> a, hidden |-> b, fancied |-> c]
<1>2. ASSUME NEW a \in SUBSET Topic, NEW b \in SUBSET Topic, NEW c \in SUBSET Fancied
      PROVE  /\ P(a, b, c).starred = a /\ P(a, b, c).hidden = b /\ P(a, b, c).fancied = c
             /\ a \cap b = {} => Apart(P(a, b, c))
  BY DEF Apart, Prefs
<1>3. ASSUME NEW a, NEW b, NEW c, NEW x
      PROVE  /\ [P(a, b, c) EXCEPT !.starred = x] = P(x, b, c)
             /\ [P(a, b, c) EXCEPT !.hidden = x] = P(a, x, c)
             /\ [P(a, b, c) EXCEPT !.fancied = x] = P(a, b, x)
  OBVIOUS
<1>4. stored = P(s, h, f) /\ stored.starred = s /\ stored.hidden = h /\ stored.fancied = f
  BY <1>1
<1>. HIDE DEF P
<1>5. ASSUME NEW w, NEW a, w = <<a>>, Apart(a), a.fancied = f
      PROVE  Len(w) \in {1, 2} /\ \A i \in 1..Len(w) : Apart(w[i]) /\ w[i].fancied = f
  <2>. Len(w) = 1 /\ \A i \in 1..1 : w[i] = a
    BY <1>5
  <2>. QED
    BY <1>5
<1>6. ASSUME NEW w, NEW a, NEW b, w = <<a, b>>, Apart(a), a.fancied = f, Apart(b), b.fancied = f
      PROVE  Len(w) \in {1, 2} /\ \A i \in 1..Len(w) : Apart(w[i]) /\ w[i].fancied = f
  <2>. Len(w) = 2 /\ \A i \in 1..2 : w[i] \in {a, b}
    BY <1>6
  <2>. QED
    BY <1>6
<1>7. ASSUME NEW t \in Topic, NEW w, w = StarWrites(t)
      PROVE  Len(w) \in {1, 2} /\ \A i \in 1..Len(w) : Apart(w[i]) /\ w[i].fancied = f
  <2>1. CASE t \notin s /\ t \in h
    <3>1. w = <<P(s, h \ {t}, f), P(s \cup {t}, h \ {t}, f)>>
      <4>1. [stored EXCEPT !.hidden = stored.hidden \ {t}] = P(s, h \ {t}, f)
        BY <1>1 DEF P
      <4>2. [P(s, h \ {t}, f) EXCEPT !.starred = stored.starred \cup {t}] = P(s \cup {t}, h \ {t}, f)
        BY <1>1 DEF P
      <4>. QED
        BY <1>4, <1>7, <2>1, <4>1, <4>2 DEF StarWrites
    <3>2. s \cup {t} \in SUBSET Topic /\ h \ {t} \in SUBSET Topic /\ (s \cup {t}) \cap (h \ {t}) = {}
          /\ s \cap (h \ {t}) = {}
      BY <1>1, <2>1
    <3>. QED
      BY <1>2, <1>6, <3>1, <3>2
  <2>2. CASE ~(t \notin s /\ t \in h)
    <3>1. w = <<P(Topple(s, t), h, f)>>
      BY <1>3, <1>4, <1>7, <2>2 DEF StarWrites
    <3>2. Topple(s, t) \in SUBSET Topic /\ Topple(s, t) \cap h = {}
      BY <1>1, <2>2 DEF Topple
    <3>. QED
      BY <1>2, <1>5, <3>1, <3>2
  <2>. QED
    BY <2>1, <2>2
<1>8. ASSUME NEW t \in Topic, NEW w, w = HideWrites(t)
      PROVE  Len(w) \in {1, 2} /\ \A i \in 1..Len(w) : Apart(w[i]) /\ w[i].fancied = f
  <2>1. CASE t \notin h /\ t \in s
    <3>1. w = <<P(s \ {t}, h, f), P(s \ {t}, h \cup {t}, f)>>
      <4>1. [stored EXCEPT !.starred = stored.starred \ {t}] = P(s \ {t}, h, f)
        BY <1>1 DEF P
      <4>2. [P(s \ {t}, h, f) EXCEPT !.hidden = stored.hidden \cup {t}] = P(s \ {t}, h \cup {t}, f)
        BY <1>1 DEF P
      <4>. QED
        BY <1>4, <1>8, <2>1, <4>1, <4>2 DEF HideWrites
    <3>2. h \cup {t} \in SUBSET Topic /\ s \ {t} \in SUBSET Topic /\ (s \ {t}) \cap (h \cup {t}) = {}
          /\ (s \ {t}) \cap h = {}
      BY <1>1, <2>1
    <3>. QED
      BY <1>2, <1>6, <3>1, <3>2
  <2>2. CASE ~(t \notin h /\ t \in s)
    <3>1. w = <<P(s, Topple(h, t), f)>>
      <4>1. [stored EXCEPT !.hidden = Topple(stored.hidden, t)] = P(s, Topple(h, t), f)
        BY <1>1 DEF P
      <4>. QED
        BY <1>4, <1>8, <2>2, <4>1 DEF HideWrites
    <3>2. Topple(h, t) \in SUBSET Topic /\ s \cap Topple(h, t) = {}
      BY <1>1, <2>2 DEF Topple
    <3>. QED
      BY <1>2, <1>5, <3>1, <3>2
  <2>. QED
    BY <2>1, <2>2
<1>9. ASSUME NEW x \in Fancied
      PROVE  /\ Len(FancyWrites(x)) = 1 /\ Apart(FancyWrites(x)[1])
             /\ FancyWrites(x)[1].starred = s /\ FancyWrites(x)[1].hidden = h
  <2>1. FancyWrites(x) = <<P(s, h, Topple(f, x))>>
    <3>1. [stored EXCEPT !.fancied = Topple(stored.fancied, x)] = P(s, h, Topple(f, x))
      BY <1>1 DEF P
    <3>. QED
      BY <3>1 DEF FancyWrites
  <2>2. Topple(f, x) \in SUBSET Fancied
    BY DEF Topple
  <2>. QED
    BY <1>1, <1>2, <2>1, <2>2
<1>. QED
  BY <1>4, <1>7, <1>8, <1>9

\* No part is mounted yet.
LEMMA PrefsBegins ==
  ASSUME PrefsInit PROVE PrefsIInv
BY DEF PrefsInit, PrefsIInv, Apart, WidgetsTrue

\* A toggle: of every other part the sort it is about is passed, and of the part itself as
\* well when a write of it throws.
LEMMA Toggles ==
  ASSUME PrefsIInv, NEW p \in Widget, NEW sort \in Sort, NEW writes, Toggled(p, sort, writes),
         Len(writes) \in {1, 2}, \A i \in 1..Len(writes) : Apart(writes[i]),
         \A i \in 1..Len(writes) :
            IF sort = "topics" THEN writes[i].fancied = stored.fancied
            ELSE writes[i].starred = stored.starred /\ writes[i].hidden = stored.hidden
  PROVE  PrefsIInv'
<1>1. /\ Apart(stored') /\ sort \in {"topics", "fancied"}
      /\ IF sort = "topics" THEN stored'.fancied = stored.fancied
         ELSE stored'.starred = stored.starred /\ stored'.hidden = stored.hidden
  <2>1. \E i \in 1..Len(writes) : stored' = writes[i]
    BY DEF Toggled
  <2>. QED
    BY <2>1 DEF Sort
<1>2. PICK r : /\ shown' = [shown EXCEPT ![p] = r] /\ Apart(r)
               /\ \/ r = shown[p] /\ passed' = passed \cup (({p} \cup Others(p)) \X {sort})
                  \/ /\ passed' = (passed \ {<<p, sort>>}) \cup (Others(p) \X {sort})
                     /\ IF sort = "topics"
                        THEN /\ r.starred = stored'.starred /\ r.hidden = stored'.hidden
                             /\ r.fancied = shown[p].fancied
                        ELSE /\ r.fancied = stored'.fancied /\ r.starred = shown[p].starred
                             /\ r.hidden = shown[p].hidden
  <2>1. Apart(shown[p]) /\ shown[p] # NULL
    BY DEF Toggled, PrefsIInv
  <2>2. CASE UNCHANGED shown /\ passed' = passed \cup (({p} \cup Others(p)) \X {sort})
    <3>1. shown = [shown EXCEPT ![p] = shown[p]]
      BY DEF PrefsIInv
    <3>. QED
      BY <2>1, <2>2, <3>1
  <2>3. CASE shown' = Reread(p, sort) /\ passed' = (passed \ {<<p, sort>>}) \cup (Others(p) \X {sort})
    <3>1. CASE sort = "topics"
      <4>. DEFINE r == [shown[p] EXCEPT !.starred = stored'.starred, !.hidden = stored'.hidden]
      <4>1. shown' = [shown EXCEPT ![p] = r]
        BY <2>3, <3>1 DEF Reread
      <4>2. Apart(r) /\ r.starred = stored'.starred /\ r.hidden = stored'.hidden /\ r.fancied = shown[p].fancied
        BY <1>1, <2>1 DEF Apart, Prefs
      <4>. QED
        BY <2>3, <3>1, <4>1, <4>2
    <3>2. CASE sort # "topics"
      <4>. DEFINE r == [shown[p] EXCEPT !.fancied = stored'.fancied]
      <4>1. shown' = [shown EXCEPT ![p] = r]
        BY <2>3, <3>2 DEF Reread
      <4>2. Apart(r) /\ r.fancied = stored'.fancied /\ r.starred = shown[p].starred /\ r.hidden = shown[p].hidden
        BY <1>1, <2>1 DEF Apart, Prefs
      <4>. QED
        BY <2>3, <3>2, <4>1, <4>2
    <3>. QED
      BY <3>1, <3>2
  <2>. QED
    BY <2>2, <2>3 DEF Toggled
<1>3. shown \in [Widget -> Prefs \cup {NULL}] /\ r \in Prefs /\ shown[p] # NULL
  BY <1>2 DEF Apart, PrefsIInv, Toggled
<1>4. /\ shown' \in [Widget -> Prefs \cup {NULL}] /\ shown'[p] = r
      /\ \A q \in Widget \ {p} : shown'[q] = shown[q]
  BY <1>2, <1>3
<1>5. passed' \subseteq Widget \X Sort
  BY <1>2 DEF PrefsIInv, Others
<1>6. ASSUME NEW q \in Widget, shown'[q] # NULL
      PROVE  /\ <<q, "topics">> \notin passed' =>
                  shown'[q].starred = stored'.starred /\ shown'[q].hidden = stored'.hidden
             /\ <<q, "fancied">> \notin passed' => shown'[q].fancied = stored'.fancied
  <2>1. CASE q = p
    <3>1. sort = "topics" => (<<p, "fancied">> \in passed' <=> <<p, "fancied">> \in passed)
      BY <1>2 DEF Others
    <3>2. sort = "fancied" => (<<p, "topics">> \in passed' <=> <<p, "topics">> \in passed)
      BY <1>2 DEF Others
    <3>3. /\ <<p, "topics">> \notin passed =>
                shown[p].starred = stored.starred /\ shown[p].hidden = stored.hidden
          /\ <<p, "fancied">> \notin passed => shown[p].fancied = stored.fancied
      BY <1>3 DEF PrefsIInv, WidgetsTrue
    <3>4. <<p, sort>> \notin passed' => r # shown[p] \/ passed' # passed \cup (({p} \cup Others(p)) \X {sort})
      OBVIOUS
    <3>. QED
      BY <1>1, <1>2, <1>4, <2>1, <3>1, <3>2, <3>3, <3>4
  <2>2. CASE q # p
    <3>1. q \in Others(p) /\ shown'[q] = shown[q]
      BY <1>4, <1>6, <2>2 DEF Others
    <3>2. <<q, sort>> \in passed'
      BY <1>2, <3>1
    <3>3. \A k \in Sort : <<q, k>> \in passed => <<q, k>> \in passed'
      BY <1>2, <2>2
    <3>4. /\ <<q, "topics">> \notin passed =>
                shown[q].starred = stored.starred /\ shown[q].hidden = stored.hidden
          /\ <<q, "fancied">> \notin passed => shown[q].fancied = stored.fancied
      BY <1>6, <3>1 DEF PrefsIInv, WidgetsTrue
    <3>. QED
      BY <1>1, <3>1, <3>2, <3>3, <3>4 DEF Sort
  <2>. QED
    BY <2>1, <2>2
<1>7. \A q \in Widget : shown'[q] # NULL => Apart(shown'[q])
  BY <1>2, <1>4 DEF PrefsIInv
<1>. QED
  BY <1>1, <1>4, <1>5, <1>6, <1>7 DEF PrefsIInv, WidgetsTrue, Apart

\* A part of a page comes and goes.
LEMMA WidgetsMove ==
  ASSUME PrefsIInv, NEW p \in Widget, MountWidget(p) \/ UnmountWidget(p)
  PROVE  PrefsIInv'
<1>1. PICK r \in {stored, NULL} : shown' = [shown EXCEPT ![p] = r] /\ passed' = passed \ ({p} \X Sort)
                                 /\ UNCHANGED stored
  BY DEF MountWidget, UnmountWidget
<1>2. /\ shown' \in [Widget -> Prefs \cup {NULL}] /\ shown'[p] = r
      /\ \A q \in Widget \ {p} : shown'[q] = shown[q]
  BY <1>1 DEF PrefsIInv, Apart
<1>3. \A q \in Widget \ {p}, k \in Sort : <<q, k>> \in passed' <=> <<q, k>> \in passed
  BY <1>1
<1>4. WidgetsTrue'
  BY <1>1, <1>2, <1>3 DEF PrefsIInv, WidgetsTrue, Sort
<1>5. \A q \in Widget : shown'[q] # NULL => Apart(shown'[q])
  BY <1>1, <1>2 DEF PrefsIInv
<1>. QED
  BY <1>1, <1>2, <1>4, <1>5 DEF PrefsIInv, Apart

\* Every step of the preferences.
LEMMA PrefsGoes ==
  ASSUME PrefsIInv, [PrefsNext]_prefsVars PROVE PrefsIInv'
<1>1. CASE UNCHANGED prefsVars
  BY <1>1 DEF prefsVars, PrefsIInv, Apart, WidgetsTrue
<1>2. ASSUME NEW p \in Widget, NEW t \in Topic, ToggleStar(p, t) \/ RestoreTopic(p, t) PROVE PrefsIInv'
  <2>1. PICK w \in {StarWrites(t), HideWrites(t)} : Toggled(p, "topics", w)
    BY <1>2 DEF ToggleStar, RestoreTopic
  <2>2. Len(w) \in {1, 2} /\ \A i \in 1..Len(w) : Apart(w[i]) /\ w[i].fancied = stored.fancied
    BY WritesApart DEF PrefsIInv
  <2>. QED
    BY <2>1, <2>2, Toggles DEF Sort
<1>3. ASSUME NEW p \in Widget, NEW x \in Fancied, ToggleFancied(p, x) PROVE PrefsIInv'
  <2>. DEFINE w == FancyWrites(x)
  <2>1. Toggled(p, "fancied", w)
    BY <1>3 DEF ToggleFancied
  <2>2. /\ Len(w) = 1 /\ Apart(w[1])
        /\ w[1].starred = stored.starred /\ w[1].hidden = stored.hidden
    BY WritesApart DEF PrefsIInv
  <2>. HIDE DEF w
  <2>3. Len(w) \in {1, 2} /\ \A i \in 1..Len(w) : i = 1
    BY <2>2
  <2>. QED
    BY <2>1, <2>2, <2>3, Toggles DEF Sort
<1>. QED
  BY <1>1, <1>2, <1>3, WidgetsMove DEF PrefsNext

\* The invariant is PrefsInv.
LEMMA PrefsFit ==
  ASSUME PrefsIInv PROVE PrefsInv
BY DEF PrefsIInv, PrefsInv, PrefsTypeOK, NeverBoth, Apart

\* No topic is starred and hidden, in the storage or as a part shows it, and a part that no
\* write has passed shows the storage (topic-prefs.ts, article-prefs.ts).
THEOREM PrefsKept ==
  PrefsInit /\ [][PrefsNext]_prefsVars => []PrefsInv
<1>1. PrefsInit => PrefsIInv
  BY PrefsBegins
<1>2. PrefsIInv /\ [PrefsNext]_prefsVars => PrefsIInv'
  BY PrefsGoes
<1>3. PrefsIInv => PrefsInv
  BY PrefsFit
<1>. QED
  BY <1>1, <1>2, <1>3, PTL

-----------------------------------------------------------------------------
(* The text of a post.                                                     *)

\* The tokens of a text mean the posts they were picked for.
TokensTrue(b, slots) == \A t \in Tokens(b) :
  t.kind = "post" /\ t.picked # NULL => {c.post : c \in {d \in slots : d.n = t.n}} = {t.picked}

\* The drops of a text: what each remembers is as true as the text, its slots began within the
\* cap, and a reply has none.
DropsFit(drops, slots, reply) ==
  /\ drops \in [FileDrop -> Drop]
  /\ \A d \in FileDrop :
       /\ TokensTrue(drops[d].body, slots)
       /\ drops[d].on =>
            drops[d].base + drops[d].files <= MaxImages /\ drops[d].sent < drops[d].files
       /\ reply => ~drops[d].on

\* The slot at i awaits a file that is still to come, and alone.
SlotSettles(images, drops, i) ==
  images[i].by # NULL =>
    /\ images[i].state = "uploading" /\ drops[images[i].by].on
    /\ images[i].file \in drops[images[i].by].sent + 1 .. drops[images[i].by].files
    /\ \A j \in 1..Len(images) :
         images[j].by = images[i].by /\ images[j].file = images[i].file => j = i
SlotsSettle(images, drops) == \A i \in 1..Len(images) : SlotSettles(images, drops, i)

\* The invariant: the text is true, its drops fit, and its slots settle.
BodyIInv ==
  /\ field \in FieldState
  /\ TokensTrue(field.body, field.slots)
  /\ DropsFit(field.drops, field.slots, field.reply)
  /\ SlotsSettle(field.images, field.drops)

\* The greatest of bounded numbers is one of them.
LEMMA GreatestOfNat ==
  ASSUME NEW S \in SUBSET Nat, S # {}, NEW k \in Nat, \A x \in S : x <= k
  PROVE  Max(S) \in S /\ \A y \in S : y <= Max(S)
<1>. DEFINE D == {k - x : x \in S}
<1>1. \A x \in S : k - x \in D /\ k - x \in Nat
  OBVIOUS
<1>2. D \in SUBSET Nat /\ D # {}
  BY <1>1
<1>3. Min(D) \in D /\ \A d \in D : Min(D) <= d
  BY <1>2, LeastOfNat
<1>4. PICK x \in S : k - x = Min(D)
  BY <1>3
<1>5. \A y \in S : k - x <= k - y
  BY <1>1, <1>3, <1>4
<1>. HIDE DEF D
<1>6. \A y \in S : x >= y
  BY <1>5
<1>. QED
  BY <1>6 DEF Max

\* What inserting, removing and replacing a piece leaves of a text.
LEMMA TextInserted ==
  ASSUME NEW S, NEW b \in Seq(S), NEW i \in 1..Len(b) + 1, NEW p \in S
  PROVE  /\ InsertAt(b, i, p) \in Seq(S) /\ Len(InsertAt(b, i, p)) = Len(b) + 1
         /\ Tokens(InsertAt(b, i, p)) \subseteq Tokens(b) \cup {p}
<1>. DEFINE u == SubSeq(b, 1, i - 1)  w == SubSeq(b, i, Len(b))
<1>0. Len(b) \in Nat /\ \A j \in 1..Len(b) : b[j] \in Tokens(b) /\ b[j] \in S
  BY DEF Tokens
<1>1. /\ u \in Seq(S) /\ Len(u) = i - 1 /\ \A j \in 1..Len(u) : u[j] = b[j]
      /\ w \in Seq(S) /\ Len(w) = Len(b) - i + 1 /\ \A j \in 1..Len(w) : w[j] = b[i + j - 1]
  BY <1>0, SubSeqProperties
<1>2. <<p>> \in Seq(S) /\ Len(<<p>>) = 1 /\ <<p>>[1] = p
  OBVIOUS
<1>. HIDE DEF u, w
<1>3. /\ u \o <<p>> \in Seq(S) /\ Len(u \o <<p>>) = i
      /\ \A j \in 1..i : (u \o <<p>>)[j] = IF j <= i - 1 THEN u[j] ELSE <<p>>[j - (i - 1)]
  BY <1>1, <1>2, ConcatProperties
<1>4. \A j \in 1..i : (u \o <<p>>)[j] \in Tokens(b) \cup {p}
  <2>1. \A j \in 1..i - 1 : u[j] \in Tokens(b)
    BY <1>0, <1>1
  <2>. QED
    BY <1>2, <1>3, <2>1
<1>5. /\ (u \o <<p>>) \o w \in Seq(S) /\ Len((u \o <<p>>) \o w) = i + Len(w)
      /\ \A j \in 1..i + Len(w) : ((u \o <<p>>) \o w)[j] = IF j <= i THEN (u \o <<p>>)[j] ELSE w[j - i]
  BY <1>1, <1>3, ConcatProperties
<1>6. \A j \in 1..Len(w) : w[j] \in Tokens(b)
  BY <1>0, <1>1
<1>7. InsertAt(b, i, p) = (u \o <<p>>) \o w
  BY DEF InsertAt, u, w
<1>8. ASSUME NEW j \in 1..Len(b) + 1 PROVE InsertAt(b, i, p)[j] \in Tokens(b) \cup {p}
  BY <1>1, <1>4, <1>5, <1>6, <1>7
<1>9. InsertAt(b, i, p) \in Seq(S) /\ Len(InsertAt(b, i, p)) = Len(b) + 1
  BY <1>1, <1>5, <1>7
<1>. QED
  BY <1>8, <1>9 DEF Tokens

\* A text without one of its pieces.
LEMMA TextRemoved ==
  ASSUME NEW S, NEW b \in Seq(S), NEW i \in 1..Len(b)
  PROVE  /\ RemoveAt(b, i) \in Seq(S) /\ Len(RemoveAt(b, i)) = Len(b) - 1
         /\ Tokens(RemoveAt(b, i)) \subseteq Tokens(b)
<1>. DEFINE u == SubSeq(b, 1, i - 1)  w == SubSeq(b, i + 1, Len(b))
<1>0. Len(b) \in Nat /\ \A j \in 1..Len(b) : b[j] \in Tokens(b) /\ b[j] \in S
  BY DEF Tokens
<1>1. /\ u \in Seq(S) /\ Len(u) = i - 1 /\ \A j \in 1..Len(u) : u[j] = b[j]
      /\ w \in Seq(S) /\ Len(w) = Len(b) - i /\ \A j \in 1..Len(w) : w[j] = b[i + j]
  BY <1>0, SubSeqProperties
<1>. HIDE DEF u, w
<1>2. /\ u \o w \in Seq(S) /\ Len(u \o w) = Len(u) + Len(w)
      /\ \A j \in 1..Len(u) + Len(w) : (u \o w)[j] = IF j <= Len(u) THEN u[j] ELSE w[j - Len(u)]
  BY <1>1, ConcatProperties
<1>3. \A j \in 1..Len(u) : u[j] \in Tokens(b)
  BY <1>0, <1>1
<1>4. \A j \in 1..Len(w) : w[j] \in Tokens(b)
  BY <1>0, <1>1
<1>5. RemoveAt(b, i) = u \o w
  BY DEF RemoveAt, u, w
<1>6. ASSUME NEW j \in 1..Len(b) - 1 PROVE RemoveAt(b, i)[j] \in Tokens(b)
  BY <1>0, <1>1, <1>2, <1>3, <1>4, <1>5
<1>7. RemoveAt(b, i) \in Seq(S) /\ Len(RemoveAt(b, i)) = Len(b) - 1
  <2>1. Len(u) + Len(w) = Len(b) - 1
    BY <1>0, <1>1
  <2>. QED
    BY <1>2, <1>5, <2>1
<1>. QED
  BY <1>6, <1>7 DEF Tokens

\* A text with another piece in the place of one.
LEMMA TextReplaced ==
  ASSUME NEW S, NEW b \in Seq(S), NEW i \in 1..Len(b), NEW p \in S
  PROVE  /\ ReplaceAt(b, i, p) \in Seq(S) /\ Len(ReplaceAt(b, i, p)) = Len(b)
         /\ Tokens(ReplaceAt(b, i, p)) \subseteq Tokens(b) \cup {p}
<1>1. /\ ReplaceAt(b, i, p) \in Seq(S) /\ Len(ReplaceAt(b, i, p)) = Len(b)
      /\ \A j \in 1..Len(b) : ReplaceAt(b, i, p)[j] = IF j = i THEN p ELSE b[j]
  BY ExceptSeq DEF ReplaceAt
<1>. QED
  BY <1>1 DEF Tokens

\* A text with a piece at its end.
LEMMA TextAppended ==
  ASSUME NEW S, NEW b \in Seq(S), NEW p \in S
  PROVE  /\ Append(b, p) \in Seq(S) /\ Len(Append(b, p)) = Len(b) + 1
         /\ Tokens(Append(b, p)) \subseteq Tokens(b) \cup {p}
<1>1. /\ Append(b, p) \in Seq(S) /\ Len(Append(b, p)) = Len(b) + 1
      /\ \A j \in 1..Len(b) : Append(b, p)[j] = b[j]
      /\ Append(b, p)[Len(b) + 1] = p
  BY AppendProperties
<1>2. ASSUME NEW j \in 1..Len(b) + 1 PROVE Append(b, p)[j] \in Tokens(b) \cup {p}
  BY <1>1, <1>2 DEF Tokens
<1>. QED
  BY <1>1, <1>2 DEF Tokens

\* A list of images that is not too long.
LEMMA ImagesBounded ==
  ASSUME BodyConstantsOK, NEW s
  PROVE  s \in BoundedSeq(ImageSlot, MaxImages) <=> s \in Seq(ImageSlot) /\ Len(s) <= MaxImages
<1>1. MaxImages \in Nat
  BY DEF BodyConstantsOK
<1>2. ASSUME s \in BoundedSeq(ImageSlot, MaxImages) PROVE s \in Seq(ImageSlot) /\ Len(s) <= MaxImages
  <2>1. PICK m \in 0..MaxImages : s \in [1..m -> ImageSlot]
    BY <1>2 DEF BoundedSeq, SeqOf
  <2>. QED
    BY <1>1, <2>1
<1>3. ASSUME s \in Seq(ImageSlot), Len(s) <= MaxImages PROVE s \in BoundedSeq(ImageSlot, MaxImages)
  <2>1. Len(s) \in 0..MaxImages /\ s \in [1..Len(s) -> ImageSlot]
    BY <1>1, <1>3, LenProperties
  <2>. QED
    BY <2>1 DEF BoundedSeq, SeqOf
<1>. QED
  BY <1>2, <1>3

\* The slots of images that stand in a list.
LEMMA SlotParts ==
  ASSUME BodyConstantsOK, NEW images \in Seq(ImageSlot)
  PROVE  \A i \in 1..Len(images) : images[i] \in ImageSlot /\ images[i].by \in FileDrop \cup {NULL}
<1>1. \A i \in 1..Len(images) : images[i] \in ImageSlot
  OBVIOUS
<1>2. \A slot \in ImageSlot : slot.by \in FileDrop \cup {NULL}
  BY DEF ImageSlot
<1>. QED
  BY <1>1, <1>2

\* A settled slot awaits nothing.
LEMMA SettledFits ==
  ASSUME BodyConstantsOK, NEW state \in {"uploading", "ready", "error"}
  PROVE  Settled(state) \in ImageSlot /\ Settled(state).by = NULL
BY DEF Settled, ImageSlot, BodyConstantsOK

\* The parts of the state of a text.
LEMMA FieldParts ==
  ASSUME BodyConstantsOK, NEW s \in FieldState
  PROVE  /\ s.body \in Seq(Piece) /\ Len(s.body) \in Nat /\ Len(s.body) <= MaxPieces
         /\ s.images \in Seq(ImageSlot) /\ Len(s.images) \in Nat /\ Len(s.images) <= MaxImages
         /\ \A d \in FileDrop : /\ s.drops[d].body \in Seq(Piece) /\ Len(s.drops[d].body) \in Nat
                                /\ Len(s.drops[d].body) <= MaxPieces
<1>1. s.body \in Body /\ s.images \in BoundedSeq(ImageSlot, MaxImages) /\ s.drops \in [FileDrop -> Drop]
  BY DEF FieldState
<1>2. \A d \in FileDrop : s.drops[d].body \in Body
  BY <1>1 DEF Drop
<1>3. s.images \in Seq(ImageSlot) /\ Len(s.images) <= MaxImages
  BY <1>1, ImagesBounded
<1>. QED
  BY <1>1, <1>2, <1>3 DEF Body

\* A piece that was not picked changes no token's meaning, nor does a token that is erased.
LEMMA TokensStay ==
  ASSUME NEW b, NEW c, NEW slots, NEW p, TokensTrue(b, slots), Tokens(c) \subseteq Tokens(b) \cup {p},
         p.kind = "post" => p.picked = NULL
  PROVE  TokensTrue(c, slots)
BY DEF TokensTrue

\* The caret moves into another text, whose tokens are true.
LEMMA CaretFits ==
  ASSUME BodyConstantsOK, BodyIInv, NEW b \in Seq(Piece), Len(b) <= MaxPieces, NEW i \in Nat,
         TokensTrue(b, field.slots), field' = AtCaret(field, b, i)
  PROVE  BodyIInv'
<1>1. b \in Body /\ Len(b) \in Nat
  BY DEF Body
<1>2. field \in FieldState
  BY DEF BodyIInv
<1>3. CASE i \in 1..Len(b) /\ b[i].kind # "word"
  <2>1. field' = [field EXCEPT !.body = b, !.menu = TRUE, !.range = i]
    BY <1>3 DEF AtCaret
  <2>2. i \in 0..MaxPieces
    BY <1>1, <1>3 DEF BodyConstantsOK
  <2>3. /\ field' \in FieldState /\ field'.body = b /\ field'.range = i /\ field'.slots = field.slots
        /\ field'.drops = field.drops /\ field'.images = field.images /\ field'.reply = field.reply
    BY <1>1, <1>2, <2>1, <2>2 DEF FieldState
  <2>. QED
    BY <1>3, <2>3 DEF BodyIInv
<1>4. CASE ~(i \in 1..Len(b) /\ b[i].kind # "word")
  <2>1. field' = [field EXCEPT !.body = b, !.menu = FALSE, !.range = 0]
    BY <1>4 DEF AtCaret
  <2>2. 0 \in 0..MaxPieces
    BY DEF BodyConstantsOK
  <2>3. /\ field' \in FieldState /\ field'.body = b /\ ~field'.menu /\ field'.slots = field.slots
        /\ field'.drops = field.drops /\ field'.images = field.images /\ field'.reply = field.reply
    BY <1>1, <1>2, <2>1, <2>2 DEF FieldState
  <2>. QED
    BY <2>3 DEF BodyIInv
<1>. QED
  BY <1>3, <1>4

\* The user types, erases, and moves the caret.
LEMMA TextTyped ==
  ASSUME BodyConstantsOK, BodyIInv,
         \E i \in 0..MaxPieces : TypeWords(i) \/ Erase(i) \/ MoveCaret(i)
  PROVE  BodyIInv'
<1>0. /\ field.body \in Seq(Piece) /\ Len(field.body) \in Nat /\ Len(field.body) <= MaxPieces
      /\ MaxPieces \in Nat /\ TokensTrue(field.body, field.slots)
  BY FieldParts DEF BodyIInv, BodyConstantsOK
<1>1. ASSUME NEW i \in 0..MaxPieces, TypeWords(i) PROVE BodyIInv'
  <2>1. PICK p \in Piece : /\ p.kind = "post" => p.picked = NULL
                           /\ field' = AtCaret(field, InsertAt(field.body, i, p), i)
    <3>1. PICK p \in Word \cup Query \cup UserToken \cup ImageToken \cup {t \in PostToken : t.picked = NULL} :
            field' = AtCaret(field, InsertAt(field.body, i, p), i)
      BY <1>1 DEF TypeWords
    <3>2. p \in Piece
      BY <3>1 DEF Piece
    <3>3. p.kind = "post" => p.picked = NULL
      BY <3>1 DEF Word, Query, UserToken, ImageToken
    <3>. QED
      BY <3>1, <3>2, <3>3
  <2>2. i \in 1..Len(field.body) + 1 /\ Len(field.body) < MaxPieces
    BY <1>1 DEF TypeWords
  <2>. DEFINE b == InsertAt(field.body, i, p)
  <2>3. b \in Seq(Piece) /\ Len(b) = Len(field.body) + 1 /\ Tokens(b) \subseteq Tokens(field.body) \cup {p}
    BY <1>0, <2>2, TextInserted
  <2>. HIDE DEF b
  <2>4. TokensTrue(b, field.slots)
    BY <1>0, <2>1, <2>3, TokensStay
  <2>5. Len(b) <= MaxPieces /\ i \in Nat
    BY <1>0, <2>2, <2>3
  <2>6. field' = AtCaret(field, b, i)
    BY <2>1 DEF b
  <2>. QED
    BY <2>3, <2>4, <2>5, <2>6, CaretFits
<1>2. ASSUME NEW i \in 0..MaxPieces, Erase(i) PROVE BodyIInv'
  <2>. DEFINE b == RemoveAt(field.body, i)
  <2>1. i \in 1..Len(field.body) /\ field' = AtCaret(field, b, i - 1)
    BY <1>2 DEF Erase
  <2>2. b \in Seq(Piece) /\ Len(b) = Len(field.body) - 1 /\ Tokens(b) \subseteq Tokens(field.body)
    BY <1>0, <2>1, TextRemoved
  <2>. HIDE DEF b
  <2>3. TokensTrue(b, field.slots)
    BY <1>0, <2>2 DEF TokensTrue
  <2>4. Len(b) <= MaxPieces /\ i - 1 \in Nat
    BY <1>0, <2>1, <2>2
  <2>. QED
    BY <2>1, <2>2, <2>3, <2>4, CaretFits
<1>3. ASSUME NEW i \in 0..MaxPieces, MoveCaret(i) PROVE BodyIInv'
  <2>1. field' = AtCaret(field, field.body, i) /\ i \in Nat
    BY <1>3 DEF MoveCaret
  <2>. QED
    BY <1>0, <2>1, CaretFits
<1>. QED
  BY <1>1, <1>2, <1>3

\* The menu closes.
LEMMA MenuCloses ==
  ASSUME BodyConstantsOK, BodyIInv, CloseMenu PROVE BodyIInv'
<1>1. field' = [field EXCEPT !.menu = FALSE, !.range = 0] /\ field \in FieldState
  BY DEF CloseMenu, MenuClosed, BodyIInv
<1>2. 0 \in 0..MaxPieces
  BY DEF BodyConstantsOK
<1>3. /\ field' \in FieldState /\ field'.body = field.body /\ ~field'.menu /\ field'.slots = field.slots
      /\ field'.drops = field.drops /\ field'.images = field.images /\ field'.reply = field.reply
  BY <1>1, <1>2 DEF FieldState
<1>. QED
  BY <1>3 DEF BodyIInv

\* The number of a pick is that of no slot.
LEMMA NumberIsNew ==
  ASSUME BodyConstantsOK, NEW s \in FieldState
  PROVE  NextNumber(s) \in Nat \ {0} /\ \A c \in s.slots : c.n # NextNumber(s)
<1>. DEFINE N == {0} \cup {c.n : c \in s.slots}
<1>1. MaxPicks \in Nat /\ \A c \in s.slots : c.n \in 1..MaxPicks
  BY DEF BodyConstantsOK, FieldState, CitationSlot
<1>2. N \in SUBSET Nat /\ N # {} /\ \A x \in N : x <= MaxPicks
  BY <1>1
<1>3. Max(N) \in N /\ \A y \in N : y <= Max(N)
  BY <1>1, <1>2, GreatestOfNat
<1>4. NextNumber(s) = Max(N) + 1
  BY DEF NextNumber
<1>5. \A c \in s.slots : c.n \in N
  OBVIOUS
<1>. DEFINE k == Max(N)
<1>6. k \in Nat /\ \A c \in s.slots : c.n \in Nat /\ c.n <= k
  BY <1>1, <1>2, <1>3, <1>5
<1>7. NextNumber(s) = k + 1
  BY <1>4
<1>. HIDE DEF N, k
<1>. QED
  BY <1>6, <1>7

\* A pick puts its token into the text, and closes the menu.
LEMMA PickFits ==
  ASSUME BodyConstantsOK, NEW s \in FieldState, Fits(s), NEW p \in Piece
  PROVE  /\ Picked(s, p) \in FieldState /\ ~Picked(s, p).menu
         /\ Picked(s, p).reply = s.reply /\ Picked(s, p).drops = s.drops /\ Picked(s, p).images = s.images
         /\ Picked(s, p).slots = s.slots /\ Picked(s, p).mentions = s.mentions
         /\ Tokens(Picked(s, p).body) \subseteq Tokens(s.body) \cup {p}
<1>. DEFINE b == Replaced(s, p)
<1>0. s.body \in Seq(Piece) /\ Len(s.body) \in Nat /\ Len(s.body) <= MaxPieces /\ MaxPieces \in Nat
  BY FieldParts DEF BodyConstantsOK
<1>1. b \in Seq(Piece) /\ Len(b) <= MaxPieces /\ Tokens(b) \subseteq Tokens(s.body) \cup {p}
  <2>1. CASE s.range \in 1..Len(s.body)
    <3>1. b = ReplaceAt(s.body, s.range, p)
      BY <2>1 DEF Replaced
    <3>. QED
      BY <1>0, <2>1, <3>1, TextReplaced
  <2>2. CASE s.range \notin 1..Len(s.body)
    <3>1. b = Append(s.body, p) /\ Len(s.body) < MaxPieces
      BY <2>2 DEF Replaced, Fits
    <3>2. b \in Seq(Piece) /\ Len(b) = Len(s.body) + 1 /\ Tokens(b) \subseteq Tokens(s.body) \cup {p}
      BY <1>0, <3>1, TextAppended
    <3>. QED
      BY <1>0, <3>1, <3>2
  <2>. QED
    BY <2>1, <2>2
<1>2. b \in Body /\ 0 \in 0..MaxPieces
  BY <1>0, <1>1 DEF Body
<1>3. Picked(s, p) = [[s EXCEPT !.body = b] EXCEPT !.menu = FALSE, !.range = 0]
  BY DEF Picked, MenuClosed
<1>. HIDE DEF b
<1>4. /\ [s EXCEPT !.body = b] \in FieldState /\ [s EXCEPT !.body = b].body = b
      /\ [s EXCEPT !.body = b].reply = s.reply /\ [s EXCEPT !.body = b].drops = s.drops
      /\ [s EXCEPT !.body = b].images = s.images
      /\ [s EXCEPT !.body = b].slots = s.slots /\ [s EXCEPT !.body = b].mentions = s.mentions
  BY <1>2 DEF FieldState
<1>. DEFINE q == [s EXCEPT !.body = b]
<1>. HIDE DEF q
<1>5. /\ Picked(s, p) \in FieldState /\ Picked(s, p).body = q.body /\ ~Picked(s, p).menu
      /\ Picked(s, p).reply = q.reply /\ Picked(s, p).drops = q.drops /\ Picked(s, p).images = q.images
      /\ Picked(s, p).slots = q.slots /\ Picked(s, p).mentions = q.mentions
  <2>1. Picked(s, p) = [q EXCEPT !.menu = FALSE, !.range = 0] /\ q \in FieldState
    BY <1>3, <1>4 DEF q
  <2>. QED
    BY <1>2, <2>1 DEF FieldState
<1>. QED
  BY <1>1, <1>4, <1>5 DEF q

\* A pick of a post has its own number: the tokens of the text, and of a text that a drop
\* remembers, go on meaning what they were picked for.
LEMMA PostPicked ==
  ASSUME BodyConstantsOK, BodyIInv, NEW post \in Citable, PickPost(post) PROVE BodyIInv'
<1>. DEFINE n == NextNumber(field)
            p == [kind |-> "post", n |-> n, picked |-> post]
            x == [n |-> n, post |-> post]
            q == Picked(field, p)
<1>1. n \in 1..MaxPicks /\ (\A c \in field.slots : c.n # n) /\ field \in FieldState
  <2>1. n <= MaxPicks /\ field \in FieldState
    BY DEF PickPost, BodyIInv
  <2>2. n \in Nat \ {0} /\ \A c \in field.slots : c.n # n
    BY <2>1, NumberIsNew
  <2>. QED
    BY <2>1, <2>2 DEF BodyConstantsOK
<1>2. p \in Piece /\ p.kind = "post" /\ p.n = n /\ p.picked = post
  BY <1>1 DEF Piece, PostToken
<1>3. x \in CitationSlot /\ x.n = n /\ x.post = post
  BY <1>1 DEF CitationSlot
<1>4. field' = [q EXCEPT !.slots = field.slots \cup {x}] /\ Fits(field)
  BY DEF PickPost
<1>. HIDE DEF n, p, x
<1>5. /\ q \in FieldState /\ ~q.menu /\ q.reply = field.reply /\ q.drops = field.drops /\ q.images = field.images
      /\ q.slots = field.slots /\ Tokens(q.body) \subseteq Tokens(field.body) \cup {p}
  BY <1>1, <1>2, <1>4, PickFits
<1>. HIDE DEF q
<1>6. /\ field' \in FieldState /\ ~field'.menu /\ field'.reply = field.reply /\ field'.drops = field.drops /\ field'.images = field.images
      /\ field'.slots = field.slots \cup {x} /\ field'.body = q.body
  <2>1. field.slots \cup {x} \subseteq CitationSlot
    BY <1>1, <1>3 DEF FieldState
  <2>. QED
    BY <1>4, <1>5, <2>1 DEF FieldState
<1>7. ASSUME NEW b, TokensTrue(b, field.slots) PROVE TokensTrue(b, field.slots \cup {x})
  <2>. SUFFICES ASSUME NEW t \in Tokens(b), t.kind = "post", t.picked # NULL
                PROVE  {c.post : c \in {d \in field.slots \cup {x} : d.n = t.n}} = {t.picked}
    BY DEF TokensTrue
  <2>1. {c.post : c \in {d \in field.slots : d.n = t.n}} = {t.picked}
    BY <1>7 DEF TokensTrue
  <2>2. PICK e \in field.slots : e.n = t.n
    BY <2>1
  <2>3. {d \in field.slots \cup {x} : d.n = t.n} = {d \in field.slots : d.n = t.n}
    BY <1>1, <1>3, <2>2
  <2>. QED
    BY <2>1, <2>3
<1>8. TokensTrue(q.body, field.slots \cup {x})
  <2>1. TokensTrue(field.body, field.slots \cup {x})
    BY <1>7 DEF BodyIInv
  <2>2. {d \in field.slots \cup {x} : d.n = n} = {x}
    BY <1>1, <1>3
  <2>3. {c.post : c \in {d \in field.slots \cup {x} : d.n = p.n}} = {p.picked}
    BY <1>2, <1>3, <2>2
  <2>. QED
    BY <1>5, <2>1, <2>3 DEF TokensTrue
<1>9. DropsFit(field.drops, field.slots \cup {x}, field.reply)
  BY <1>7 DEF BodyIInv, DropsFit
<1>. QED
  BY <1>6, <1>8, <1>9 DEF BodyIInv

\* A pick of a member or an image.
LEMMA OthersPicked ==
  ASSUME BodyConstantsOK, BodyIInv,
         \/ \E m \in Mentionable : PickUser(m)
         \/ \E n \in 1..MaxImages : PickImage(n)
  PROVE  BodyIInv'
<1>0. field \in FieldState /\ TokensTrue(field.body, field.slots)
  BY DEF BodyIInv
<1>1. ASSUME NEW m \in Mentionable, PickUser(m) PROVE BodyIInv'
  <2>. DEFINE p == [kind |-> "user", who |-> m]  q == Picked(field, p)
  <2>1. p \in Piece /\ p.kind = "user"
    BY DEF Piece, UserToken
  <2>2. field' = [q EXCEPT !.mentions = field.mentions \cup {m}] /\ Fits(field)
    BY <1>1 DEF PickUser
  <2>. HIDE DEF p
  <2>3. /\ q \in FieldState /\ ~q.menu /\ q.reply = field.reply /\ q.drops = field.drops /\ q.images = field.images
        /\ q.slots = field.slots /\ Tokens(q.body) \subseteq Tokens(field.body) \cup {p}
    BY <1>0, <2>1, <2>2, PickFits
  <2>. HIDE DEF q
  <2>4. /\ field' \in FieldState /\ ~field'.menu /\ field'.reply = field.reply /\ field'.drops = field.drops /\ field'.images = field.images
        /\ field'.slots = field.slots /\ field'.body = q.body
    <3>1. field.mentions \cup {m} \subseteq Mentionable
      BY <1>0 DEF FieldState
    <3>. QED
      BY <2>2, <2>3, <3>1 DEF FieldState
  <2>5. TokensTrue(q.body, field.slots)
    BY <1>0, <2>1, <2>3, TokensStay
  <2>. QED
    BY <2>4, <2>5 DEF BodyIInv
<1>2. ASSUME NEW n \in 1..MaxImages, PickImage(n) PROVE BodyIInv'
  <2>. DEFINE p == [kind |-> "image", n |-> n]
  <2>1. p \in Piece /\ p.kind = "image"
    BY DEF Piece, ImageToken
  <2>2. field' = Picked(field, p) /\ Fits(field)
    BY <1>2 DEF PickImage
  <2>. HIDE DEF p
  <2>3. /\ field' \in FieldState /\ ~field'.menu /\ field'.reply = field.reply /\ field'.drops = field.drops /\ field'.images = field.images
        /\ field'.slots = field.slots /\ Tokens(field'.body) \subseteq Tokens(field.body) \cup {p}
    BY <1>0, <2>1, <2>2, PickFits
  <2>4. TokensTrue(field'.body, field.slots)
    BY <1>0, <2>1, <2>3, TokensStay
  <2>. QED
    BY <2>3, <2>4 DEF BodyIInv
<1>. QED
  BY <1>1, <1>2

\* The images of a payload are such a list, and await nothing.
LEMMA ReadyFew ==
  ASSUME BodyConstantsOK, NEW images \in Seq(ImageSlot)
  PROVE  /\ ReadyOf(images) \in Seq(ImageSlot) /\ Len(ReadyOf(images)) <= Len(images)
         /\ \A drops : SlotsSettle(ReadyOf(images), drops)
<1>. DEFINE R == {j \in 1..Len(images) : images[j].state = "ready"}
<1>1. Len(images) \in Nat /\ IsFiniteSet(1..Len(images)) /\ Cardinality(1..Len(images)) = Len(images)
  <2>1. Len(images) \in Int /\ Len(images) \in Nat /\ 1 \in Int
    OBVIOUS
  <2>. QED
    BY <2>1, FS_Interval
<1>2. Cardinality(R) \in Nat /\ Cardinality(R) <= Len(images)
  BY <1>1, FS_Subset, FS_CardinalityType
<1>. DEFINE k == Cardinality(R)
<1>3. ReadyOf(images) = [i \in 1..k |-> Settled("ready")]
  BY DEF ReadyOf
<1>. HIDE DEF k
<1>4. Settled("ready") \in ImageSlot /\ Settled("ready").by = NULL
  BY SettledFits
<1>5. [i \in 1..k |-> Settled("ready")] \in [1..k -> ImageSlot] /\ k \in Nat
  BY <1>2, <1>4 DEF k
<1>6. ReadyOf(images) \in Seq(ImageSlot) /\ Len(ReadyOf(images)) = k
  BY <1>3, <1>5
<1>7. \A i \in 1..k : ReadyOf(images)[i].by = NULL
  BY <1>3, <1>4
<1>. QED
  BY <1>2, <1>6, <1>7 DEF k, SlotsSettle, SlotSettles

\* No drop.
LEMMA NoDropFits ==
  ASSUME BodyConstantsOK
  PROVE  /\ NoDrop \in Drop /\ ~NoDrop.on /\ \A slots : TokensTrue(NoDrop.body, slots)
         /\ \A slots, reply : DropsFit(NoDrops, slots, reply)
<1>1. <<>> \in Body /\ Tokens(<<>>) = {}
  BY DEF Body, Tokens, BodyConstantsOK
<1>2. NoDrop.body = <<>> /\ ~NoDrop.on
  BY DEF NoDrop
<1>3. NoDrop \in Drop /\ \A slots : TokensTrue(NoDrop.body, slots)
  BY <1>1, <1>2 DEF NoDrop, Drop, TokensTrue, BodyConstantsOK
<1>. QED
  BY <1>2, <1>3 DEF DropsFit, NoDrops

\* A drop goes on to its next file, or has come to its end.
LEMMA DropGoesOn ==
  ASSUME BodyConstantsOK, NEW drop \in Drop, NEW slots, TokensTrue(drop.body, slots),
         drop.base + drop.files <= MaxImages, drop.sent < drop.files
  PROVE  /\ NextFile(drop) \in Drop /\ TokensTrue(NextFile(drop).body, slots)
         /\ NextFile(drop).on =>
              /\ NextFile(drop).base + NextFile(drop).files <= MaxImages
              /\ NextFile(drop).sent < NextFile(drop).files
         /\ \A f \in drop.sent + 1 .. drop.files : f # drop.sent + 1 =>
              /\ drop.on => NextFile(drop).on
              /\ f \in NextFile(drop).sent + 1 .. NextFile(drop).files
<1>1. /\ drop.base \in Nat /\ drop.files \in 0..MaxImages /\ drop.sent \in Nat /\ drop.files \in Nat
      /\ MaxImages \in Nat
  BY DEF Drop, BodyConstantsOK
<1>2. CASE drop.sent + 1 = drop.files
  <2>1. \A f \in drop.sent + 1 .. drop.files : f = drop.sent + 1
    BY <1>1, <1>2
  <2>. QED
    BY <1>2, <2>1, NoDropFits DEF NextFile
<1>3. CASE drop.sent + 1 # drop.files
  <2>. DEFINE n == drop.sent + 1
  <2>1. NextFile(drop) = [drop EXCEPT !.sent = n]
    BY <1>3 DEF NextFile
  <2>2. n \in 0..MaxImages /\ n < drop.files
    BY <1>1, <1>3
  <2>3. \A f \in n .. drop.files : f # n => f \in n + 1 .. drop.files
    BY <1>1, <2>2
  <2>. HIDE DEF n
  <2>4. /\ [drop EXCEPT !.sent = n] \in Drop
        /\ [drop EXCEPT !.sent = n].base = drop.base /\ [drop EXCEPT !.sent = n].on = drop.on
        /\ [drop EXCEPT !.sent = n].files = drop.files /\ [drop EXCEPT !.sent = n].sent = n
        /\ [drop EXCEPT !.sent = n].body = drop.body
    BY <1>1, <2>2 DEF Drop
  <2>5. /\ NextFile(drop).base = drop.base /\ NextFile(drop).on = drop.on
        /\ NextFile(drop).files = drop.files /\ NextFile(drop).sent = n /\ NextFile(drop).body = drop.body
        /\ NextFile(drop) \in Drop
    BY <2>1, <2>4
  <2>6. drop.sent + 1 = n
    BY DEF n
  <2>. QED
    BY <2>2, <2>3, <2>5, <2>6
<1>. QED
  BY <1>2, <1>3

\* One drop changes, and the others stay.
LEMMA OneDropChanges ==
  ASSUME NEW drops, NEW slots, NEW reply, DropsFit(drops, slots, reply), NEW d \in FileDrop, NEW e \in Drop,
         TokensTrue(e.body, slots), e.on => e.base + e.files <= MaxImages /\ e.sent < e.files, ~reply
  PROVE  /\ DropsFit([drops EXCEPT ![d] = e], slots, reply)
         /\ [drops EXCEPT ![d] = e][d] = e
         /\ \A c \in FileDrop : c # d => [drops EXCEPT ![d] = e][c] = drops[c]
BY DEF DropsFit

\* Files are queued: a drop that is not on has no slots yet, and gets its own.
LEMMA FilesQueued ==
  ASSUME BodyConstantsOK, BodyIInv, NEW d \in FileDrop, NEW k \in 1..MaxImages, NEW b \in BOOLEAN,
         QueueImages(d, k, b)
  PROVE  BodyIInv'
<1>. DEFINE slot(i) == [state |-> "uploading", by |-> IF i = 1 /\ ~b THEN NULL ELSE d,
                        file |-> IF i = 1 /\ ~b THEN 0 ELSE i]
            more == [i \in 1..k |-> slot(i)]
            e == [on |-> TRUE, base |-> Len(field.images), files |-> k, sent |-> 0,
                  body |-> field.body]
            drops == [field.drops EXCEPT ![d] = e]
            n == Len(field.images)
            images == field.images \o more
<1>1. /\ field' = [field EXCEPT !.images = images, !.drops = drops]
      /\ ~field.reply /\ n + k <= MaxImages /\ ~field.drops[d].on
  <2>1. field' = [field EXCEPT !.images = images, !.drops[d] = e]
    BY DEF QueueImages
  <2>2. [field EXCEPT !.images = images, !.drops[d] = e] = [field EXCEPT !.images = images, !.drops = drops]
    BY DEF BodyIInv, FieldState
  <2>. QED
    BY <2>1, <2>2 DEF QueueImages
<1>2. /\ field \in FieldState /\ field.images \in Seq(ImageSlot) /\ n \in Nat
      /\ field.body \in Body /\ MaxImages \in Nat /\ k \in Nat
  BY FieldParts DEF BodyIInv, BodyConstantsOK, FieldState
<1>3. /\ more \in Seq(ImageSlot) /\ Len(more) = k
      /\ \A i \in 1..k : more[i] = slot(i)
  <2>1. \A i \in 1..k : slot(i) \in ImageSlot
    BY <1>2 DEF ImageSlot
  <2>. HIDE DEF slot
  <2>2. more \in [1..k -> ImageSlot] /\ \A i \in 1..k : more[i] = slot(i)
    BY <2>1
  <2>. QED
    BY <1>2, <2>2
<1>4. \A i \in 1..k : /\ more[i].by # NULL => more[i].by = d /\ more[i].file = i
                      /\ more[i].state = "uploading"
  BY <1>3
<1>. HIDE DEF more
<1>5. /\ images \in Seq(ImageSlot) /\ Len(images) = n + k
      /\ \A i \in 1..n + k : images[i] = IF i <= n THEN field.images[i] ELSE more[i - n]
  BY <1>2, <1>3, ConcatProperties
<1>. HIDE DEF images
<1>6. images \in BoundedSeq(ImageSlot, MaxImages)
  BY <1>1, <1>5, ImagesBounded
<1>7. e \in Drop /\ e.base + e.files <= MaxImages /\ e.sent < e.files /\ TokensTrue(e.body, field.slots)
  <2>1. n \in 0..MaxImages /\ k \in 0..MaxImages /\ 0 \in 0..MaxImages
    BY <1>1, <1>2
  <2>. QED
    BY <1>1, <1>2, <2>1 DEF Drop, BodyIInv
<1>8. e.on /\ e.sent + 1 = 1 /\ e.files = k
  OBVIOUS
<1>. HIDE DEF e
<1>9. /\ DropsFit(drops, field.slots, field.reply) /\ drops[d] = e
      /\ \A c \in FileDrop : c # d => drops[c] = field.drops[c]
  BY <1>1, <1>7, OneDropChanges DEF BodyIInv
<1>10. SlotsSettle(images, drops)
  <2>. HIDE DEF drops, n
  <2>1. \A i \in 1..n : /\ images[i] = field.images[i] /\ SlotSettles(field.images, field.drops, i)
                        /\ images[i].by # NULL => images[i].by \in FileDrop /\ images[i].by # d
    <3>1. ASSUME NEW i \in 1..n PROVE images[i] = field.images[i] /\ SlotSettles(field.images, field.drops, i)
      BY <1>2, <1>5 DEF BodyIInv, SlotsSettle, n
    <3>2. \A i \in 1..n : field.images[i].by \in FileDrop \cup {NULL}
      BY <1>2, SlotParts DEF n
    <3>. QED
      BY <1>1, <3>1, <3>2 DEF SlotSettles
  <2>2. \A i \in n + 1..n + k : /\ i - n \in 1..k /\ images[i] = more[i - n]
                                /\ images[i].by # NULL => images[i].by = d /\ images[i].file = i - n
                                /\ images[i].state = "uploading"
    BY <1>2, <1>4, <1>5
  <2>3. ASSUME NEW i \in 1..n, images[i].by # NULL PROVE SlotSettles(images, drops, i)
    <3>1. ASSUME NEW j \in 1..n + k, images[j].by = images[i].by, images[j].file = images[i].file PROVE j = i
      <4>1. CASE j \in 1..n
        BY <2>1, <2>3, <3>1, <4>1 DEF SlotSettles, n
      <4>2. CASE j \notin 1..n
        <5>1. j \in n + 1..n + k
          BY <1>2, <4>2
        <5>. QED
          BY <2>1, <2>2, <2>3, <3>1, <5>1
      <4>. QED
        BY <4>1, <4>2
    <3>2. /\ images[i].state = "uploading" /\ drops[images[i].by].on
          /\ images[i].file \in drops[images[i].by].sent + 1 .. drops[images[i].by].files
      BY <1>9, <2>1, <2>3 DEF SlotSettles
    <3>. QED
      BY <1>5, <3>1, <3>2 DEF SlotSettles
  <2>4. ASSUME NEW i \in n + 1..n + k, images[i].by # NULL PROVE SlotSettles(images, drops, i)
    <3>1. ASSUME NEW j \in 1..n + k, images[j].by = images[i].by, images[j].file = images[i].file PROVE j = i
      <4>1. CASE j \in 1..n
        BY <2>1, <2>2, <2>4, <3>1, <4>1
      <4>2. CASE j \notin 1..n
        <5>1. j \in n + 1..n + k
          BY <1>2, <4>2
        <5>2. j - n = i - n
          BY <2>2, <2>4, <3>1, <5>1
        <5>. QED
          BY <1>2, <5>2
      <4>. QED
        BY <4>1, <4>2
    <3>2. /\ images[i].state = "uploading" /\ images[i].by = d /\ images[i].file \in 1..k
      BY <2>2, <2>4
    <3>. QED
      BY <1>5, <1>8, <1>9, <3>1, <3>2 DEF SlotSettles
  <2>5. \A i \in 1..n + k : i \in 1..n \/ i \in n + 1..n + k
    BY <1>2
  <2>6. \A i \in 1..n + k : images[i].by = NULL => SlotSettles(images, drops, i)
    BY DEF SlotSettles
  <2>. QED
    BY <1>5, <2>3, <2>4, <2>5, <2>6 DEF SlotsSettle
<1>11. drops \in [FileDrop -> Drop]
  BY <1>9 DEF DropsFit
<1>. HIDE DEF drops
<1>12. /\ field' \in FieldState /\ field'.body = field.body /\ field'.slots = field.slots
       /\ field'.drops = drops /\ field'.reply = field.reply /\ field'.images = images
  BY <1>1, <1>2, <1>6, <1>11 DEF FieldState
<1>. QED
  BY <1>9, <1>10, <1>12 DEF BodyIInv

\* The slot of an upload is settled, and the others await what they did.
LEMMA SlotsGoOn ==
  ASSUME BodyConstantsOK, BodyIInv, NEW d \in FileDrop, field.drops[d].on,
         NEW state \in {"uploading", "ready", "error"}
  PROVE  /\ SlotsAfter(field, d, state) \in BoundedSeq(ImageSlot, MaxImages)
         /\ SlotsSettle(SlotsAfter(field, d, state),
                        [field.drops EXCEPT ![d] = NextFile(field.drops[d])])
         /\ DropsFit([field.drops EXCEPT ![d] = NextFile(field.drops[d])], field.slots, field.reply)
<1>. DEFINE images == SlotsAfter(field, d, state)
            e == NextFile(field.drops[d])
            drops == [field.drops EXCEPT ![d] = e]
            n == Len(field.images)
            now == field.drops[d].sent + 1
<1>1. /\ field.images \in Seq(ImageSlot) /\ n \in Nat /\ n <= MaxImages
      /\ field.drops \in [FileDrop -> Drop] /\ ~field.reply
      /\ DropsFit(field.drops, field.slots, field.reply) /\ SlotsSettle(field.images, field.drops)
  BY FieldParts DEF BodyIInv, DropsFit
<1>2. /\ e \in Drop /\ TokensTrue(e.body, field.slots)
      /\ e.on => e.base + e.files <= MaxImages /\ e.sent < e.files
      /\ \A f \in now .. field.drops[d].files : f # now => e.on /\ f \in e.sent + 1 .. e.files
  <2>1. /\ field.drops[d] \in Drop /\ TokensTrue(field.drops[d].body, field.slots)
        /\ field.drops[d].base + field.drops[d].files <= MaxImages
        /\ field.drops[d].sent < field.drops[d].files
    BY <1>1 DEF DropsFit
  <2>. QED
    BY <2>1, DropGoesOn
<1>. HIDE DEF e
<1>3. /\ DropsFit(drops, field.slots, field.reply) /\ drops[d] = e
      /\ \A c \in FileDrop : c # d => drops[c] = field.drops[c]
  BY <1>1, <1>2, OneDropChanges
<1>4. /\ Settled(state) \in ImageSlot /\ Settled(state).by = NULL
      /\ \A i \in 1..n : field.images[i] \in ImageSlot /\ field.images[i].by \in FileDrop \cup {NULL}
  BY <1>1, SlotParts, SettledFits
<1>5. images = [i \in 1..n |-> IF field.images[i].by = d /\ field.images[i].file = now
                               THEN Settled(state) ELSE field.images[i]]
  BY DEF SlotsAfter
<1>. HIDE DEF images, now, n
<1>6. images \in [1..n -> ImageSlot]
  BY <1>4, <1>5
<1>7. images \in Seq(ImageSlot) /\ Len(images) = n
  BY <1>1, <1>6
<1>8. images \in BoundedSeq(ImageSlot, MaxImages)
  BY <1>1, <1>7, ImagesBounded
<1>9. \A i \in 1..n : images[i].by # NULL =>
        /\ images[i] = field.images[i] /\ images[i].by \in FileDrop
        /\ ~(images[i].by = d /\ images[i].file = now)
  BY <1>4, <1>5
<1>10. ASSUME NEW i \in 1..n, images[i].by # NULL PROVE SlotSettles(images, drops, i)
  <2>1. /\ images[i] = field.images[i] /\ images[i].by \in FileDrop
        /\ ~(images[i].by = d /\ images[i].file = now)
    BY <1>9, <1>10
  <2>2. SlotSettles(field.images, field.drops, i)
    BY <1>1 DEF SlotsSettle, n
  <2>3. ASSUME NEW j \in 1..n, images[j].by = images[i].by, images[j].file = images[i].file PROVE j = i
    <3>1. images[j] = field.images[j]
      BY <1>9, <1>10, <2>3
    <3>. QED
      BY <1>10, <2>1, <2>2, <2>3, <3>1 DEF SlotSettles, n
  <2>4. /\ images[i].state = "uploading" /\ field.drops[images[i].by].on
        /\ images[i].file \in field.drops[images[i].by].sent + 1 .. field.drops[images[i].by].files
    BY <1>10, <2>1, <2>2 DEF SlotSettles
  <2>5. drops[images[i].by].on /\ images[i].file \in drops[images[i].by].sent + 1 .. drops[images[i].by].files
    <3>. HIDE DEF drops
    <3>1. CASE images[i].by = d
      <4>1. images[i].file \in now .. field.drops[d].files /\ images[i].file # now
        BY <2>1, <2>4, <3>1 DEF now
      <4>. QED
        BY <1>2, <1>3, <3>1, <4>1
    <3>2. CASE images[i].by # d
      BY <1>3, <2>1, <2>4, <3>2
    <3>. QED
      BY <3>1, <3>2
  <2>. HIDE DEF drops
  <2>. QED
    BY <1>7, <2>3, <2>4, <2>5 DEF SlotSettles
<1>11. SlotsSettle(images, drops)
  <2>. HIDE DEF drops
  <2>1. \A i \in 1..n : images[i].by = NULL => SlotSettles(images, drops, i)
    BY DEF SlotSettles
  <2>. QED
    BY <1>7, <1>10, <2>1 DEF SlotsSettle
<1>. QED
  BY <1>3, <1>8, <1>11 DEF images, e

\* An upload ends, and its token goes into the text that the drop remembers.
LEMMA UploadsEnd ==
  ASSUME BodyConstantsOK, BodyIInv, NEW d \in FileDrop,
         UploadFails(d) \/ \E at \in 1..MaxPieces : UploadSucceeds(d, at)
  PROVE  BodyIInv'
<1>. DEFINE drop == field.drops[d]
            drops == [field.drops EXCEPT ![d] = NextFile(field.drops[d])]
<1>1. drop.on
  BY DEF UploadFails, UploadSucceeds
<1>2. field \in FieldState /\ field.drops \in [FileDrop -> Drop] /\ drop \in Drop
  BY DEF BodyIInv, FieldState
<1>3. DropsFit(drops, field.slots, field.reply) /\ drops \in [FileDrop -> Drop]
  BY <1>1, SlotsGoOn DEF DropsFit
<1>4. CASE UploadFails(d)
  <2>. DEFINE images == SlotsAfter(field, d, "error")
  <2>1. field' = [field EXCEPT !.images = images, !.drops = drops]
    <3>1. field' = [field EXCEPT !.images = images, !.drops[d] = NextFile(field.drops[d])]
      BY <1>4 DEF UploadFails
    <3>. QED
      BY <1>2, <3>1 DEF FieldState
  <2>2. images \in BoundedSeq(ImageSlot, MaxImages) /\ SlotsSettle(images, drops)
    BY <1>1, SlotsGoOn
  <2>. HIDE DEF drops, images
  <2>3. /\ field' \in FieldState /\ field'.body = field.body /\ field'.slots = field.slots
        /\ field'.drops = drops /\ field'.reply = field.reply /\ field'.images = images
    BY <1>2, <1>3, <2>1, <2>2 DEF FieldState
  <2>. QED
    BY <1>3, <2>2, <2>3 DEF BodyIInv
<1>5. ASSUME NEW at \in 1..MaxPieces, UploadSucceeds(d, at) PROVE BodyIInv'
  <2>. DEFINE images == SlotsAfter(field, d, "ready")
              p == [kind |-> "image", n |-> drop.base + drop.sent + 1]
              b == InsertAt(drop.body, at, p)
  <2>1. /\ field' = [field EXCEPT !.images = images, !.drops = drops, !.body = b]
        /\ at \in 1..Len(drop.body) + 1 /\ Len(drop.body) < MaxPieces
    <3>1. field' = [field EXCEPT !.images = images, !.drops[d] = NextFile(field.drops[d]), !.body = b]
      BY <1>5 DEF UploadSucceeds, InsertInto
    <3>. QED
      BY <1>2, <1>5, <3>1 DEF FieldState, UploadSucceeds
  <2>2. images \in BoundedSeq(ImageSlot, MaxImages) /\ SlotsSettle(images, drops)
    BY <1>1, SlotsGoOn
  <2>3. p \in Piece /\ p.kind = "image"
    <3>1. /\ drop.base \in Nat /\ drop.sent \in Nat /\ drop.files \in Nat /\ MaxImages \in Nat
      BY <1>2 DEF Drop, BodyConstantsOK
    <3>2. drop.base + drop.files <= MaxImages /\ drop.sent < drop.files
      BY <1>1 DEF BodyIInv, DropsFit
    <3>3. drop.base + drop.sent + 1 \in 1..MaxImages
      BY <3>1, <3>2
    <3>. QED
      BY <3>3 DEF Piece, ImageToken
  <2>4. drop.body \in Seq(Piece) /\ Len(drop.body) \in Nat /\ MaxPieces \in Nat
    BY <1>2, FieldParts DEF BodyConstantsOK
  <2>5. TokensTrue(drop.body, field.slots)
    BY DEF BodyIInv, DropsFit
  <2>. HIDE DEF p, drop
  <2>6. b \in Seq(Piece) /\ Len(b) = Len(drop.body) + 1 /\ Tokens(b) \subseteq Tokens(drop.body) \cup {p}
    BY <2>1, <2>3, <2>4, TextInserted
  <2>. HIDE DEF b, drops, images
  <2>7. b \in Body /\ TokensTrue(b, field.slots)
    <3>1. TokensTrue(b, field.slots)
      BY <2>3, <2>5, <2>6, TokensStay
    <3>2. Len(b) <= MaxPieces
      BY <2>1, <2>4, <2>6
    <3>. QED
      BY <2>6, <3>1, <3>2 DEF Body
  <2>8. /\ field' \in FieldState /\ field'.body = b /\ field'.slots = field.slots
        /\ field'.drops = drops /\ field'.reply = field.reply /\ field'.images = images
    BY <1>2, <1>3, <2>1, <2>2, <2>7 DEF FieldState
  <2>. QED
    BY <1>3, <2>2, <2>7, <2>8 DEF BodyIInv
<1>. QED
  BY <1>4, <1>5

\* An image is removed: the others await what they did.
LEMMA SlotsWithout ==
  ASSUME NEW images \in Seq(ImageSlot), NEW drops, SlotsSettle(images, drops), NEW n \in 1..Len(images)
  PROVE  /\ RemoveAt(images, n) \in Seq(ImageSlot) /\ Len(RemoveAt(images, n)) = Len(images) - 1
         /\ SlotsSettle(RemoveAt(images, n), drops)
<1>. DEFINE rest == RemoveAt(images, n)
            from(i) == IF i < n THEN i ELSE i + 1
            u == SubSeq(images, 1, n - 1)  w == SubSeq(images, n + 1, Len(images))
<1>0. Len(images) \in Nat
  OBVIOUS
<1>1. /\ u \in Seq(ImageSlot) /\ Len(u) = n - 1 /\ \A j \in 1..Len(u) : u[j] = images[j]
      /\ w \in Seq(ImageSlot) /\ Len(w) = Len(images) - n /\ \A j \in 1..Len(w) : w[j] = images[n + j]
  BY <1>0, SubSeqProperties
<1>. HIDE DEF u, w
<1>2. /\ u \o w \in Seq(ImageSlot) /\ Len(u \o w) = Len(u) + Len(w)
      /\ \A j \in 1..Len(u) + Len(w) : (u \o w)[j] = IF j <= Len(u) THEN u[j] ELSE w[j - Len(u)]
  BY <1>1, ConcatProperties
<1>3. rest = u \o w
  BY DEF RemoveAt, u, w
<1>. HIDE DEF rest
<1>4. rest \in Seq(ImageSlot) /\ Len(rest) = Len(images) - 1
  <2>1. Len(u) + Len(w) = Len(images) - 1
    BY <1>0, <1>1
  <2>. QED
    BY <1>2, <1>3, <2>1
<1>5. \A i \in 1..Len(images) - 1 : rest[i] = images[from(i)] /\ from(i) \in 1..Len(images)
  <2>1. ASSUME NEW i \in 1..Len(images) - 1, i < n PROVE rest[i] = images[from(i)] /\ from(i) \in 1..Len(images)
    BY <1>0, <1>1, <1>2, <1>3, <2>1
  <2>2. ASSUME NEW i \in 1..Len(images) - 1, ~(i < n) PROVE rest[i] = images[from(i)] /\ from(i) \in 1..Len(images)
    <3>1. i \in 1..Len(u) + Len(w) /\ ~(i <= Len(u)) /\ i - Len(u) \in 1..Len(w) /\ n + (i - Len(u)) = i + 1
      BY <1>0, <1>1, <2>2
    <3>2. rest[i] = w[i - Len(u)]
      BY <1>2, <1>3, <3>1
    <3>3. w[i - Len(u)] = images[i + 1]
      BY <1>1, <3>1
    <3>. QED
      BY <1>0, <2>2, <3>2, <3>3
  <2>. QED
    BY <2>1, <2>2
<1>6. \A i, j \in 1..Len(images) - 1 : from(i) = from(j) => i = j
  BY <1>0
<1>. HIDE DEF from
<1>7. ASSUME NEW i \in 1..Len(images) - 1 PROVE SlotSettles(rest, drops, i)
  <2>1. SlotSettles(images, drops, from(i)) /\ rest[i] = images[from(i)]
    BY <1>5 DEF SlotsSettle
  <2>2. ASSUME NEW j \in 1..Len(images) - 1, rest[i].by # NULL,
               rest[j].by = rest[i].by, rest[j].file = rest[i].file PROVE j = i
    <3>1. from(j) = from(i)
      BY <1>5, <2>1, <2>2 DEF SlotSettles
    <3>. QED
      BY <1>6, <3>1
  <2>. QED
    BY <1>4, <2>1, <2>2 DEF SlotSettles
<1>. QED
  BY <1>4, <1>7 DEF SlotsSettle, rest

\* An image is removed, or the post is opened again: its slots are those its tokens use.
LEMMA PostReopened ==
  ASSUME BodyConstantsOK, BodyIInv, Reopen \/ \E n \in 1..MaxImages : RemoveImage(n) PROVE BodyIInv'
<1>1. field \in FieldState /\ NoDrops \in [FileDrop -> Drop]
  BY NoDropFits DEF BodyIInv, NoDrops
<1>2. field.images \in Seq(ImageSlot) /\ Len(field.images) \in Nat /\ Len(field.images) <= MaxImages
  BY <1>1, FieldParts
<1>3. ASSUME NEW n \in 1..MaxImages, RemoveImage(n) PROVE BodyIInv'
  <2>. DEFINE images == RemoveAt(field.images, n)
  <2>1. field' = [field EXCEPT !.images = images] /\ n \in 1..Len(field.images)
    BY <1>3 DEF RemoveImage
  <2>2. /\ images \in Seq(ImageSlot) /\ Len(images) = Len(field.images) - 1
        /\ SlotsSettle(images, field.drops)
    BY <1>2, <2>1, SlotsWithout DEF BodyIInv
  <2>. HIDE DEF images
  <2>3. images \in BoundedSeq(ImageSlot, MaxImages)
    <3>1. Len(images) <= MaxImages
      BY <1>2, <2>2 DEF BodyConstantsOK
    <3>. QED
      BY <2>2, <3>1, ImagesBounded
  <2>4. /\ field' \in FieldState /\ field'.body = field.body /\ field'.slots = field.slots
        /\ field'.drops = field.drops /\ field'.reply = field.reply /\ field'.images = images
    BY <1>1, <2>1, <2>3 DEF FieldState
  <2>. QED
    BY <2>2, <2>4 DEF BodyIInv
<1>4. CASE Reopen
  <2>. DEFINE images == ReadyOf(field.images)  q == MenuClosed(field)
              slots == LiveCitations(field)  mentions == LiveMentions(field)
  <2>1. field' = [q EXCEPT !.slots = slots, !.mentions = mentions, !.images = images, !.drops = NoDrops]
    BY <1>4 DEF Reopen
  <2>2. images \in BoundedSeq(ImageSlot, MaxImages) /\ SlotsSettle(images, NoDrops)
    <3>1. /\ images \in Seq(ImageSlot) /\ Len(images) <= Len(field.images)
          /\ SlotsSettle(images, NoDrops)
      BY <1>2, ReadyFew
    <3>2. Len(images) \in Nat /\ MaxImages \in Nat
      BY <3>1 DEF BodyConstantsOK
    <3>. HIDE DEF images
    <3>3. Len(images) <= MaxImages
      BY <1>2, <3>1, <3>2
    <3>. QED
      BY <3>1, <3>3, ImagesBounded
  <2>3. slots \subseteq field.slots /\ mentions \subseteq field.mentions
    BY DEF LiveCitations, LiveMentions
  <2>4. q \in FieldState /\ ~q.menu /\ q.body = field.body
    <3>1. 0 \in 0..MaxPieces
      BY DEF BodyConstantsOK
    <3>. QED
      BY <1>1, <3>1 DEF MenuClosed, FieldState
  <2>. HIDE DEF images, q, slots, mentions
  <2>5. /\ field' \in FieldState /\ field'.body = field.body /\ field'.slots = slots
        /\ field'.drops = NoDrops /\ field'.images = images
    <3>1. slots \in SUBSET CitationSlot /\ mentions \in SUBSET Mentionable
      BY <1>1, <2>3 DEF FieldState
    <3>. QED
      BY <1>1, <2>1, <2>2, <2>4, <3>1 DEF FieldState
  <2>6. TokensTrue(field.body, slots)
    <3>. SUFFICES ASSUME NEW t \in Tokens(field.body), t.kind = "post", t.picked # NULL
                  PROVE  {c.post : c \in {d \in slots : d.n = t.n}} = {t.picked}
      BY DEF TokensTrue
    <3>1. {c.post : c \in {d \in field.slots : d.n = t.n}} = {t.picked}
      BY DEF BodyIInv, TokensTrue
    <3>2. t.n \in CitedNumbers(field.body)
      BY DEF CitedNumbers
    <3>3. {d \in slots : d.n = t.n} = {d \in field.slots : d.n = t.n}
      BY <3>2 DEF slots, LiveCitations
    <3>. QED
      BY <3>1, <3>3
  <2>. QED
    BY <1>1, <2>2, <2>5, <2>6, NoDropFits DEF BodyIInv
<1>. QED
  BY <1>3, <1>4

\* The text is empty.
LEMMA BodyBegins ==
  ASSUME BodyConstantsOK, BodyInit PROVE BodyIInv
<1>1. PICK r \in BOOLEAN : field = [reply |-> r, body |-> <<>>, menu |-> FALSE, range |-> 0, slots |-> {},
                                    mentions |-> {}, images |-> <<>>, drops |-> NoDrops]
  BY DEF BodyInit
<1>2. <<>> \in Body /\ Tokens(<<>>) = {} /\ 0 \in 0..MaxPieces
  BY DEF Body, Tokens, BodyConstantsOK
<1>3. <<>> \in BoundedSeq(ImageSlot, MaxImages)
  <2>1. <<>> \in Seq(ImageSlot) /\ Len(<<>>) <= MaxImages
    BY DEF BodyConstantsOK
  <2>. QED
    BY <2>1, ImagesBounded
<1>4. field \in FieldState
  BY <1>1, <1>2, <1>3, NoDropFits DEF FieldState, NoDrops
<1>5. SlotsSettle(field.images, field.drops)
  BY <1>1 DEF SlotsSettle
<1>. QED
  BY <1>1, <1>2, <1>4, <1>5, NoDropFits DEF BodyIInv, TokensTrue

\* Every step of the text.
LEMMA BodyGoes ==
  ASSUME BodyConstantsOK, BodyIInv, [BodyNext]_bodyVars PROVE BodyIInv'
<1>1. CASE UNCHANGED bodyVars
  BY <1>1 DEF bodyVars, BodyIInv
<1>2. CASE BodyNext
  BY <1>2, TextTyped, MenuCloses, PostPicked, OthersPicked, FilesQueued, UploadsEnd, PostReopened
     DEF BodyNext
<1>. QED
  BY <1>1, <1>2

\* The invariant is BodyInv.
LEMMA BodyFits ==
  ASSUME BodyIInv PROVE BodyInv
BY DEF BodyIInv, BodyInv, BodyTypeOK, TokenMeansPick, TokensTrue, UploadsSettle, SlotsSettle, SlotSettles

\* A token of a text means the post it was picked for, through deletions, later picks, late
\* insertions and reopening (PostComposer.tsx, RepliesPane.tsx).
THEOREM TokensKept ==
  ASSUME BodyConstantsOK
  PROVE  BodyInit /\ [][BodyNext]_bodyVars => []BodyInv
<1>1. BodyInit => BodyIInv
  BY BodyBegins
<1>2. BodyIInv /\ [BodyNext]_bodyVars => BodyIInv'
  BY BodyGoes
<1>3. BodyIInv => BodyInv
  BY BodyFits
<1>. QED
  BY <1>1, <1>2, <1>3, PTL
=============================================================================
