----------------------------- MODULE WriteBatch -----------------------------
(***************************************************************************)
(* Pass 1 and pass 3 of write_articles: which articles of a batch are new, *)
(* and their INSERTs in one transaction with a savepoint each, so that one *)
(* bad article does not take its siblings along. Two calls write to the    *)
(* same target and the same table of slugs. A row has the slug of its      *)
(* title (and day); on a collision the code means to try once more with    *)
(* the slug that carries a hash of the URL.                                *)
(*                                                                         *)
(* The database: an INSERT waits for an uncommitted row with its URL or    *)
(* slug; once a statement of a savepoint has failed, every further         *)
(* statement of that savepoint fails too, and it can only be rolled back.  *)
(***************************************************************************)
EXTENDS FiniteSets, Sequences, Integers, Sql

CONSTANTS
  Writer,
  Batches,      \* batches a call may bring: sequences of [url, title, badge]
  CodeVisible,  \* whether the error carries the code 23505 itself: either, by the version of the library
  MaxBatchFaults  \* bound: statements that fail for another reason

ASSUME BatchConstantsOK ==
  /\ \A b \in Batches : b \in Seq([url : STRING \cup {NULL}, title : STRING, badge : BOOLEAN])
  /\ CodeVisible \subseteq BOOLEAN /\ MaxBatchFaults \in Nat

VARIABLES
  rows,     \* committed articles
  pend,     \* rows each transaction has inserted and not committed
  sugg,     \* the suggestion of the unknown badge: "none", or the article it is anchored to
  call,     \* each call: where it is, its batch, and what it will report
  batchFaults

batchVars == <<rows, pend, sugg, call, batchFaults>>

Ids == Writer \X Nat
Waiting == [at |-> "idle", batch |-> <<>>, i |-> 1, todo |-> {}, inserted |-> {}, deduped |-> {}, failed |-> {}]
BatchInit ==
  /\ rows = {} /\ sugg = "none" /\ batchFaults = 0
  /\ pend = [w \in Writer |-> {}]
  /\ call = [w \in Writer |-> Waiting]

Articles(w) == DOMAIN call[w].batch
RowOf(w, i) == LET a == call[w].batch[i]
               IN [id |-> <<w, i>>, url |-> a.url, slug |-> <<a.title>>, badge |-> a.badge]
Stored(url) == {r \in rows : r.url = url}
Alike(r, s) == r.url = s.url \/ r.slug = s.slug
First(S) == CHOOSE i \in S : \A j \in S : i <= j

-----------------------------------------------------------------------------
(* The call. *)

Start(w) ==
  /\ call[w].at = "idle"
  /\ \E b \in Batches : call' = [call EXCEPT ![w] = [Waiting EXCEPT !.at = "plan", !.batch = b]]
  /\ UNCHANGED <<rows, pend, sugg, batchFaults>>

\* Pass 1: an unusable URL fails, a stored one is deduped, anything else is inserted later.
Plan(w) ==
  /\ call[w].at = "plan" /\ call[w].i \in Articles(w)
  /\ LET c == call[w]
         url == c.batch[c.i].url
     IN call' = [call EXCEPT ![w] =
          [c EXCEPT !.i = @ + 1,
                    !.failed = @ \cup {i \in {c.i} : url = NULL},
                    !.deduped = @ \cup {<<c.i, r.id>> : r \in Stored(url)},
                    !.todo = @ \cup {i \in {c.i} : url # NULL /\ Stored(url) = {}}]]
  /\ UNCHANGED <<rows, pend, sugg, batchFaults>>

Planned(w) ==
  /\ call[w].at = "plan" /\ call[w].i \notin Articles(w)
  /\ call' = [call EXCEPT ![w].at = "insert"]
  /\ UNCHANGED <<rows, pend, sugg, batchFaults>>

-----------------------------------------------------------------------------
(* Pass 3. *)

NextRow(w) == RowOf(w, First(call[w].todo))
Inserting(w) == call[w].at = "insert" /\ call[w].todo # {}
\* Another transaction has a row like it, and may still roll it back.
WaitsFor(w, q) == Inserting(w) /\ q # w /\ \E r \in pend[q] : Alike(r, NextRow(w))
Free(w) == Inserting(w) /\ \A q \in Writer : ~WaitsFor(w, q)
Clashes(w) == \E r \in rows \cup pend[w] : Alike(r, NextRow(w))

Insert(w) ==
  /\ Free(w) /\ ~Clashes(w)
  /\ pend' = [pend EXCEPT ![w] = @ \cup {NextRow(w)}]
  /\ call' = [call EXCEPT ![w].todo = @ \ {First(@)}, ![w].inserted = @ \cup {First(call[w].todo)}]
  /\ UNCHANGED <<rows, sugg, batchFaults>>


\* 23505. The lookup goes through another connection and sees committed rows; a row it
\* finds is reported as deduped, otherwise the INSERT is tried again with the longer slug.
\* Either way the savepoint is lost: the second INSERT fails, and so does its release.
Collide(w) ==
  /\ Free(w) /\ Clashes(w)
  /\ \E seen \in CodeVisible : LET i == First(call[w].todo)
         found == {r \in Stored(NextRow(w).url) : seen}
     IN call' = [call EXCEPT ![w].todo = @ \ {i},
                             ![w].deduped = @ \cup {<<i, r.id>> : r \in found},
                             ![w].failed = @ \cup {i}]
  /\ UNCHANGED <<rows, pend, sugg, batchFaults>>

\* Two transactions wait for each other: one INSERT is the victim, and only its savepoint.
Deadlock(w) ==
  /\ \E q \in Writer : WaitsFor(w, q) /\ WaitsFor(q, w)
  /\ call' = [call EXCEPT ![w].todo = @ \ {First(@)}, ![w].failed = @ \cup {First(call[w].todo)}]
  /\ UNCHANGED <<rows, pend, sugg, batchFaults>>

InsertFails(w) ==
  /\ Inserting(w) /\ batchFaults < MaxBatchFaults
  /\ batchFaults' = batchFaults + 1
  /\ call' = [call EXCEPT ![w].todo = @ \ {First(@)}, ![w].failed = @ \cup {First(call[w].todo)}]
  /\ UNCHANGED <<rows, pend, sugg>>

\* The first article that carries the badge and was inserted by this call.
Anchor(w) == LET carry == {i \in call[w].inserted : call[w].batch[i].badge}
             IN IF carry = {} THEN NULL ELSE <<w, First(carry)>>
BringsBadge(w) == \E i \in Articles(w) : call[w].batch[i].badge

\* The suggestion is upserted (an existing one keeps its article), and the transaction commits.
Commit(w) ==
  /\ call[w].at = "insert" /\ call[w].todo = {}
  /\ rows' = rows \cup pend[w]
  /\ pend' = [pend EXCEPT ![w] = {}]
  /\ sugg' = IF sugg = "none" /\ BringsBadge(w) THEN Anchor(w) ELSE sugg
  /\ call' = [call EXCEPT ![w].at = "done"]
  /\ UNCHANGED batchFaults

Failed(w) == /\ call[w].at \in {"plan", "insert"} /\ batchFaults < MaxBatchFaults
             /\ batchFaults' = batchFaults + 1
             /\ pend' = [pend EXCEPT ![w] = {}]
             /\ UNCHANGED <<rows, sugg>>
\* Mutant: the failed transaction is taken for a finished one.
ReportAnyway(w) == Failed(w) /\ call' = [call EXCEPT ![w].at = "done", ![w].todo = {}]
\* Outside a savepoint a failure rolls everything back, and the call throws.
Throw(w) == Failed(w) /\ call' = [call EXCEPT ![w] = [Waiting EXCEPT !.at = "thrown"]]

BatchNext == \E w \in Writer :
  \/ Start(w) \/ Plan(w) \/ Planned(w)
  \/ Insert(w) \/ Collide(w) \/ Deadlock(w) \/ InsertFails(w) \/ Commit(w) \/ Throw(w)

BatchSpec == BatchInit /\ [][BatchNext]_batchVars

-----------------------------------------------------------------------------
(* Properties. *)

Returned == {w \in Writer : call[w].at = "done"}

BatchTypeOK ==
  /\ rows \subseteq [id : Ids, url : STRING, slug : Seq(STRING), badge : BOOLEAN]
  /\ \A w \in Writer : pend[w] \subseteq [id : Ids, url : STRING, slug : Seq(STRING), badge : BOOLEAN]
  /\ sugg = "none" \/ sugg = NULL \/ sugg \in Ids
  /\ batchFaults \in 0..MaxBatchFaults

\* What a call reports as written is what it wrote: neither a savepoint that was rolled
\* back nor an article lost with the transaction is counted as accepted.
ReportTrue == \A w \in Returned :
  /\ {<<w, i>> : i \in call[w].inserted} = {r.id : r \in {r \in rows : r.id[1] = w}}
  /\ \A d \in call[w].deduped : \E r \in rows : r.id = d[2] /\ r.url = call[w].batch[d[1]].url

\* Every article of the batch is answered for, and none both as written and as failed.
Accounted == \A w \in Returned :
  LET c == call[w]
  IN /\ Articles(w) = c.inserted \cup c.failed \cup {d[1] : d \in c.deduped}
     /\ c.inserted \cap (c.failed \cup {d[1] : d \in c.deduped}) = {}

\* A suggestion is anchored to a stored article that does carry the badge, not to one
\* that was merely deduped.
AnchorCarriesBadge == sugg # "none" /\ sugg # NULL => \E r \in rows : r.id = sugg /\ r.badge

BatchInv == BatchTypeOK /\ ReportTrue /\ Accounted /\ AnchorCarriesBadge

\* write-articles.ts:41-43, write-articles.test.ts:10-13: a collision of slugs is retried with the
\* disambiguated one and succeeds; a collision of URLs is reported as deduped.
CollisionsResolved == \A w \in Returned : batchFaults = 0 =>
  \A i \in call[w].failed : call[w].batch[i].url = NULL
=============================================================================
