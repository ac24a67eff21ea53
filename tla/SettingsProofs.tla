--------------------------- MODULE SettingsProofs ---------------------------
(***************************************************************************)
(* The panels of the settings, for every value of the constants: the pages *)
(* of invites and tokens (InvitePanels), the badges and their suggestions  *)
(* (Badges), the inbox (InboxPanel), the forms and their dialogs           *)
(* (SettingsForms) and the posting limits (PostingForm).  For each there   *)
(* is an invariant that begins, goes on and gives what the run checks; the *)
(* lemmas about lists and orders that the inbox and the badges share come  *)
(* first.                                                                  *)
(***************************************************************************)
EXTENDS InvitePanels, Badges, InboxPanel, SettingsForms, PostingForm, Sql,
        FiniteSetTheorems, SequenceTheorems, WellFoundedInduction, TLAPS

-----------------------------------------------------------------------------
(* Lists and orders.                                                       *)

\* What RemoveAt leaves.
LEMMA RemovedAt ==
  ASSUME NEW S, NEW s \in Seq(S), NEW i \in 1..Len(s)
  PROVE  /\ RemoveAt(s, i) \in Seq(S)
         /\ Len(RemoveAt(s, i)) = Len(s) - 1
         /\ \A j \in 1..(Len(s) - 1) : RemoveAt(s, i)[j] = IF j < i THEN s[j] ELSE s[j + 1]
<1>. DEFINE before == SubSeq(s, 1, i - 1)
            after == SubSeq(s, i + 1, Len(s))
<1>1. Len(s) \in Nat /\ \A j \in 1..Len(s) : s[j] \in S
  BY ElementOfSeq
<1>2. /\ before \in Seq(S) /\ Len(before) = i - 1
      /\ \A j \in 1..(i - 1) : before[j] = s[j]
  <2>1. 1 \in Int /\ i - 1 \in Int /\ \A j \in 1..(i - 1) : s[j] \in S
    BY <1>1
  <2>. QED
    BY <2>1, SubSeqProperties, <1>1
<1>3. /\ after \in Seq(S) /\ Len(after) = Len(s) - i
      /\ \A j \in 1..(Len(s) - i) : after[j] = s[i + j]
  <2>1. i + 1 \in Int /\ Len(s) \in Int /\ \A j \in (i + 1)..Len(s) : s[j] \in S
    BY <1>1
  <2>. HIDE DEF after
  <2>2. /\ after \in Seq(S) /\ Len(after) = IF i + 1 <= Len(s) THEN Len(s) - (i + 1) + 1 ELSE 0
        /\ \A j \in 1..(Len(s) - (i + 1) + 1) : after[j] = s[(i + 1) + j - 1]
    BY <2>1, SubSeqProperties DEF after
  <2>. QED
    BY <2>2, <1>1
<1>. HIDE DEF before, after
<1>4. /\ before \o after \in Seq(S) /\ Len(before \o after) = Len(before) + Len(after)
      /\ \A j \in 1..(Len(before) + Len(after)) :
           (before \o after)[j] = IF j <= Len(before) THEN before[j] ELSE after[j - Len(before)]
  BY <1>2, <1>3, ConcatProperties
<1>5. RemoveAt(s, i) = before \o after
  BY DEF RemoveAt, before, after
<1>6. Len(before) + Len(after) = Len(s) - 1
  BY <1>1, <1>2, <1>3
<1>7. ASSUME NEW j \in 1..(Len(s) - 1)
      PROVE  (before \o after)[j] = IF j < i THEN s[j] ELSE s[j + 1]
  <2>1. (before \o after)[j] = IF j <= i - 1 THEN before[j] ELSE after[j - (i - 1)]
    BY <1>2, <1>4, <1>6
  <2>2. CASE j < i
    BY <2>1, <2>2, <1>1, <1>2
  <2>3. CASE ~(j < i)
    <3>1. j - (i - 1) \in 1..(Len(s) - i) /\ i + (j - (i - 1)) = j + 1
      BY <2>3, <1>1
    <3>2. after[j - (i - 1)] = s[i + (j - (i - 1))]
      BY <3>1, <1>3
    <3>. QED
      BY <2>1, <2>3, <3>1, <3>2
  <2>. QED
    BY <2>2, <2>3
<1>. QED
  BY <1>4, <1>5, <1>6, <1>7

\* What InsertAt makes.
GrownAt(s, i, e, r) ==
  /\ Len(r) = Len(s) + 1
  /\ \A j \in 1..(Len(s) + 1) : r[j] = IF j < i THEN s[j] ELSE IF j = i THEN e ELSE s[j - 1]
LEMMA InsertedAt ==
  ASSUME NEW S, NEW s \in Seq(S), NEW i \in 1..(Len(s) + 1), NEW e \in S
  PROVE  InsertAt(s, i, e) \in Seq(S) /\ GrownAt(s, i, e, InsertAt(s, i, e))
<1>. DEFINE before == SubSeq(s, 1, i - 1)
            after == SubSeq(s, i, Len(s))
            begin == before \o <<e>>
<1>1. Len(s) \in Nat /\ \A j \in 1..Len(s) : s[j] \in S
  BY ElementOfSeq
<1>2. /\ before \in Seq(S) /\ Len(before) = i - 1
      /\ \A j \in 1..(i - 1) : before[j] = s[j]
  <2>1. 1 \in Int /\ i - 1 \in Int /\ \A j \in 1..(i - 1) : s[j] \in S
    BY <1>1
  <2>. QED
    BY <2>1, SubSeqProperties, <1>1
<1>3. /\ after \in Seq(S) /\ Len(after) = Len(s) + 1 - i
      /\ \A j \in 1..(Len(s) + 1 - i) : after[j] = s[i + j - 1]
  <2>1. i \in Int /\ Len(s) \in Int /\ \A j \in i..Len(s) : s[j] \in S
    BY <1>1
  <2>. HIDE DEF after
  <2>2. /\ after \in Seq(S) /\ Len(after) = IF i <= Len(s) THEN Len(s) - i + 1 ELSE 0
        /\ \A j \in 1..(Len(s) - i + 1) : after[j] = s[i + j - 1]
    BY <2>1, SubSeqProperties DEF after
  <2>. QED
    BY <2>2, <1>1
<1>. HIDE DEF before, after
<1>4. <<e>> \in Seq(S) /\ Len(<<e>>) = 1 /\ <<e>>[1] = e
  OBVIOUS
<1>5. /\ begin \in Seq(S) /\ Len(begin) = i
      /\ \A j \in 1..i : begin[j] = IF j < i THEN s[j] ELSE e
  <2>1. /\ begin \in Seq(S) /\ Len(begin) = Len(before) + Len(<<e>>)
        /\ \A j \in 1..(Len(before) + Len(<<e>>)) :
             begin[j] = IF j <= Len(before) THEN before[j] ELSE <<e>>[j - Len(before)]
    BY <1>2, <1>4, ConcatProperties
  <2>. QED
    BY <2>1, <1>2, <1>4
<1>. HIDE DEF begin
<1>6. /\ begin \o after \in Seq(S) /\ Len(begin \o after) = Len(begin) + Len(after)
      /\ \A j \in 1..(Len(begin) + Len(after)) :
           (begin \o after)[j] = IF j <= Len(begin) THEN begin[j] ELSE after[j - Len(begin)]
  BY <1>3, <1>5, ConcatProperties
<1>7. InsertAt(s, i, e) = begin \o after
  BY DEF InsertAt, before, after, begin
<1>8. /\ InsertAt(s, i, e) \in Seq(S) /\ Len(InsertAt(s, i, e)) = Len(s) + 1
      /\ \A j \in 1..(Len(s) + 1) :
           InsertAt(s, i, e)[j] = IF j < i THEN s[j] ELSE IF j = i THEN e ELSE s[j - 1]
  BY <1>1, <1>3, <1>5, <1>6, <1>7
<1>. QED
  BY <1>8, Zenon DEF GrownAt

\* A list without repetitions stays so without one of its elements, which is the one it loses.
LEMMA OneLess ==
  ASSUME NEW S, NEW s \in Seq(S), IsInjective(s), NEW i \in 1..Len(s)
  PROVE  /\ RemoveAt(s, i) \in Seq(S) /\ IsInjective(RemoveAt(s, i))
         /\ \A m : Contains(RemoveAt(s, i), m) <=> Contains(s, m) /\ m # s[i]
<1>. DEFINE r == RemoveAt(s, i)
<1>1. /\ r \in Seq(S) /\ Len(r) = Len(s) - 1
      /\ \A j \in 1..(Len(s) - 1) : r[j] = IF j < i THEN s[j] ELSE s[j + 1]
  BY RemovedAt
<1>2. Len(s) \in Nat /\ DOMAIN s = 1..Len(s) /\ DOMAIN r = 1..Len(r)
  BY <1>1
<1>. HIDE DEF r
<1>3. IsInjective(r)
  <2>. SUFFICES ASSUME NEW j \in 1..(Len(s) - 1), NEW h \in 1..(Len(s) - 1), r[j] = r[h] PROVE j = h
    BY <1>1, <1>2 DEF IsInjective
  <2>1. \A x, y \in 1..Len(s) : s[x] = s[y] => x = y
    BY <1>2 DEF IsInjective
  <2>2. j \in 1..Len(s) /\ j + 1 \in 1..Len(s) /\ h \in 1..Len(s) /\ h + 1 \in 1..Len(s)
    BY <1>2
  <2>3. /\ r[j] = IF j < i THEN s[j] ELSE s[j + 1]
        /\ r[h] = IF h < i THEN s[h] ELSE s[h + 1]
    BY <1>1
  <2>4. CASE j < i /\ h < i
    BY <2>1, <2>2, <2>3, <2>4
  <2>5. CASE ~(j < i) /\ ~(h < i)
    <3>1. j + 1 = h + 1
      BY <2>1, <2>2, <2>3, <2>5
    <3>. QED
      BY <3>1
  <2>6. CASE j < i /\ ~(h < i)
    <3>1. j = h + 1
      BY <2>1, <2>2, <2>3, <2>6
    <3>. QED
      BY <2>6, <3>1
  <2>7. CASE ~(j < i) /\ h < i
    <3>1. j + 1 = h
      BY <2>1, <2>2, <2>3, <2>7
    <3>. QED
      BY <2>7, <3>1
  <2>. QED
    BY <2>4, <2>5, <2>6, <2>7
<1>4. ASSUME NEW m, Contains(r, m) PROVE Contains(s, m) /\ m # s[i]
  <2>1. PICK j \in 1..(Len(s) - 1) : r[j] = m
    BY <1>1, <1>2, <1>4 DEF Contains
  <2>2. PICK h \in 1..Len(s) : h # i /\ m = s[h]
    <3>1. CASE j < i
      BY <2>1, <3>1, <1>1, <1>2
    <3>2. CASE ~(j < i)
      <4>1. j + 1 \in 1..Len(s) /\ j + 1 # i /\ m = s[j + 1]
        BY <2>1, <3>2, <1>1, <1>2
      <4>. QED
        BY <4>1
    <3>. QED
      BY <3>1, <3>2
  <2>. QED
    BY <2>2, <1>2 DEF Contains, IsInjective
<1>5. ASSUME NEW m, Contains(s, m), m # s[i] PROVE Contains(r, m)
  <2>1. PICK j \in 1..Len(s) : s[j] = m
    BY <1>5 DEF Contains
  <2>2. CASE j < i
    BY <2>1, <2>2, <1>1, <1>2 DEF Contains
  <2>3. CASE j > i
    <3>1. j - 1 \in 1..Len(r) /\ r[j - 1] = m
      BY <2>1, <2>3, <1>1, <1>2
    <3>. QED
      BY <3>1 DEF Contains
  <2>. QED
    BY <2>1, <2>2, <2>3, <1>5
<1>. QED
  BY <1>1, <1>3, <1>4, <1>5 DEF r

\* Nor do they come by an element that is new to it.
LEMMA OneMore ==
  ASSUME NEW S, NEW s \in Seq(S), IsInjective(s), NEW i \in 1..(Len(s) + 1), NEW e \in S,
         ~Contains(s, e)
  PROVE  /\ InsertAt(s, i, e) \in Seq(S) /\ IsInjective(InsertAt(s, i, e))
         /\ \A m : Contains(InsertAt(s, i, e), m) <=> Contains(s, m) \/ m = e
<1>. DEFINE r == InsertAt(s, i, e)
<1>1. /\ r \in Seq(S) /\ Len(r) = Len(s) + 1
      /\ \A j \in 1..(Len(s) + 1) : r[j] = IF j < i THEN s[j] ELSE IF j = i THEN e ELSE s[j - 1]
  <2>1. r \in Seq(S) /\ GrownAt(s, i, e, r)
    BY InsertedAt
  <2>. QED
    BY <2>1, Zenon DEF GrownAt
<1>2. Len(s) \in Nat /\ DOMAIN s = 1..Len(s) /\ DOMAIN r = 1..Len(r)
  BY <1>1
<1>. HIDE DEF r
<1>3. IsInjective(r)
  <2>. SUFFICES ASSUME NEW j \in 1..(Len(s) + 1), NEW h \in 1..(Len(s) + 1), r[j] = r[h] PROVE j = h
    BY <1>1, <1>2 DEF IsInjective
  <2>1. \A g \in 1..Len(s) : s[g] # e
    BY DEF Contains
  <2>2. CASE j = i \/ h = i
    BY <2>1, <2>2, <1>1, <1>2
  <2>3. CASE j # i /\ h # i
    <3>. DEFINE x == IF j < i THEN j ELSE j - 1
                y == IF h < i THEN h ELSE h - 1
    <3>1. x \in 1..Len(s) /\ y \in 1..Len(s) /\ (x = y => j = h)
      BY <1>2, <2>3
    <3>2. r[j] = s[x] /\ r[h] = s[y]
      BY <1>1, <2>3
    <3>. HIDE DEF x, y
    <3>3. x = y
      BY <1>2, <3>1, <3>2 DEF IsInjective
    <3>. QED
      BY <3>1, <3>3
  <2>. QED
    BY <2>2, <2>3
<1>4. ASSUME NEW m, Contains(r, m) PROVE Contains(s, m) \/ m = e
  BY <1>1, <1>2, <1>4 DEF Contains
<1>5. ASSUME NEW m, Contains(s, m) \/ m = e PROVE Contains(r, m)
  <2>1. CASE m = e
    BY <2>1, <1>1, <1>2 DEF Contains
  <2>2. CASE Contains(s, m)
    <3>1. PICK j \in 1..Len(s) : s[j] = m
      BY <2>2 DEF Contains
    <3>2. CASE j < i
      BY <3>1, <3>2, <1>1, <1>2 DEF Contains
    <3>3. CASE j >= i
      <4>1. j + 1 \in 1..Len(r) /\ r[j + 1] = m
        BY <3>1, <3>3, <1>1, <1>2
      <4>. QED
        BY <4>1 DEF Contains
    <3>. QED
      BY <3>1, <3>2, <3>3, <1>2
  <2>. QED
    BY <1>5, <2>1, <2>2
<1>. QED
  BY <1>1, <1>3, <1>4, <1>5 DEF r
\* Two lists with nothing in common make one.
LEMMA OneAfterTheOther ==
  ASSUME NEW S, NEW s \in Seq(S), NEW t \in Seq(S), IsInjective(s), IsInjective(t),
         \A m \in S : ~(Contains(s, m) /\ Contains(t, m))
  PROVE  /\ s \o t \in Seq(S) /\ IsInjective(s \o t)
         /\ \A m : Contains(s \o t, m) <=> Contains(s, m) \/ Contains(t, m)
<1>. DEFINE r == s \o t
<1>1. /\ r \in Seq(S) /\ Len(r) = Len(s) + Len(t)
      /\ \A j \in 1..(Len(s) + Len(t)) : r[j] = IF j <= Len(s) THEN s[j] ELSE t[j - Len(s)]
  BY ConcatProperties
<1>2. /\ Len(s) \in Nat /\ DOMAIN s = 1..Len(s) /\ Len(t) \in Nat /\ DOMAIN t = 1..Len(t)
      /\ DOMAIN r = 1..Len(r)
      /\ \A j \in 1..Len(s) : s[j] \in S
      /\ \A j \in 1..Len(t) : t[j] \in S
  BY <1>1, ElementOfSeq, LenProperties
<1>. HIDE DEF r
<1>3. ASSUME NEW j \in 1..Len(s), NEW h \in 1..Len(t) PROVE s[j] # t[h]
  <2>1. Contains(s, s[j]) /\ Contains(t, t[h])
    BY DEF Contains
  <2>. QED
    BY <2>1, <1>2
<1>4. IsInjective(r)
  <2>. SUFFICES ASSUME NEW j \in 1..(Len(s) + Len(t)), NEW h \in 1..(Len(s) + Len(t)), r[j] = r[h]
                PROVE  j = h
    BY <1>1, <1>2 DEF IsInjective
  <2>1. CASE j <= Len(s) /\ h <= Len(s)
    BY <2>1, <1>1, <1>2 DEF IsInjective
  <2>2. CASE j > Len(s) /\ h > Len(s)
    <3>1. j - Len(s) \in 1..Len(t) /\ h - Len(s) \in 1..Len(t) /\ t[j - Len(s)] = t[h - Len(s)]
      BY <2>2, <1>1, <1>2
    <3>2. j - Len(s) = h - Len(s)
      BY <3>1, <1>2 DEF IsInjective
    <3>. QED
      BY <3>2, <1>2
  <2>3. CASE j <= Len(s) /\ h > Len(s)
    <3>1. h - Len(s) \in 1..Len(t) /\ j \in 1..Len(s) /\ s[j] = t[h - Len(s)]
      BY <2>3, <1>1, <1>2
    <3>. QED
      BY <3>1, <1>3
  <2>4. CASE j > Len(s) /\ h <= Len(s)
    <3>1. j - Len(s) \in 1..Len(t) /\ h \in 1..Len(s) /\ s[h] = t[j - Len(s)]
      BY <2>4, <1>1, <1>2
    <3>. QED
      BY <3>1, <1>3
  <2>. QED
    BY <2>1, <2>2, <2>3, <2>4, <1>2
<1>5. ASSUME NEW m, Contains(r, m) PROVE Contains(s, m) \/ Contains(t, m)
  <2>1. PICK j \in 1..(Len(s) + Len(t)) : r[j] = m
    BY <1>1, <1>5 DEF Contains
  <2>2. CASE j <= Len(s)
    BY <2>1, <2>2, <1>1, <1>2 DEF Contains
  <2>3. CASE j > Len(s)
    <3>1. j - Len(s) \in 1..Len(t) /\ t[j - Len(s)] = m
      BY <2>1, <2>3, <1>1, <1>2
    <3>. QED
      BY <3>1 DEF Contains
  <2>. QED
    BY <2>2, <2>3, <1>2
<1>6. ASSUME NEW m, Contains(s, m) PROVE Contains(r, m)
  BY <1>1, <1>2, <1>6 DEF Contains
<1>7. ASSUME NEW m, Contains(t, m) PROVE Contains(r, m)
  <2>1. PICK h \in 1..Len(t) : t[h] = m
    BY <1>7 DEF Contains
  <2>2. Len(s) + h \in 1..Len(r) /\ r[Len(s) + h] = m
    <3>1. Len(s) + h \in 1..(Len(s) + Len(t)) /\ ~(Len(s) + h <= Len(s)) /\ (Len(s) + h) - Len(s) = h
      BY <1>2
    <3>. QED
      BY <3>1, <2>1, <1>1
  <2>. QED
    BY <2>2 DEF Contains
<1>. QED
  BY <1>1, <1>4, <1>5, <1>6, <1>7 DEF r

\* A list without repetitions is no longer than what it is of.
LEMMA NoLonger ==
  ASSUME NEW S, IsFiniteSet(S), NEW s \in Seq(S), IsInjective(s)
  PROVE  Len(s) \in Nat /\ Cardinality(S) \in Nat /\ Len(s) <= Cardinality(S)
<1>1. Len(s) \in Nat /\ s \in [1..Len(s) -> S]
  BY LenProperties
<1>2. s \in Injection(1..Len(s), S)
  BY <1>1 DEF Injection
<1>3. Cardinality(1..Len(s)) <= Cardinality(S)
  BY <1>2, FS_Injection
<1>4. Cardinality(1..Len(s)) = Len(s)
  <2>1. 1 \in Int /\ Len(s) \in Int
    BY <1>1
  <2>. QED
    BY <1>1, <2>1, FS_Interval
<1>5. Cardinality(S) \in Nat
  BY FS_CardinalityType
<1>. QED
  BY <1>1, <1>3, <1>4, <1>5

StrictOrder(rows, before) ==
  /\ \A x \in rows : <<x, x>> \notin before
  /\ \A x, y, z \in rows : <<x, y>> \in before /\ <<y, z>> \in before => <<x, z>> \in before
  /\ \A x, y \in rows : x = y \/ <<x, y>> \in before \/ <<y, x>> \in before

\* Every rank belongs to one row, and rises along the order.
LEMMA RanksFit ==
  ASSUME NEW rows, IsFiniteSet(rows), NEW before, StrictOrder(rows, before)
  PROVE  /\ Cardinality(rows) \in Nat
         /\ \A x \in rows : RankOf(x, rows, before) \in 1..Cardinality(rows)
         /\ \A x, y \in rows : <<x, y>> \in before => RankOf(x, rows, before) < RankOf(y, rows, before)
         /\ \A x, y \in rows : RankOf(x, rows, before) = RankOf(y, rows, before) => x = y
         /\ \A i \in 1..Cardinality(rows) : \E x \in rows : RankOf(x, rows, before) = i
<1>. DEFINE Below(x) == {y \in rows : <<y, x>> \in before}
            n == Cardinality(rows)
            rank == [x \in rows |-> RankOf(x, rows, before)]
<1>1. n \in Nat
  BY FS_CardinalityType
<1>2. ASSUME NEW x \in rows
      PROVE  /\ Below(x) \in SUBSET rows /\ IsFiniteSet(Below(x)) /\ Cardinality(Below(x)) \in Nat
             /\ Cardinality(Below(x)) + 1 <= n
  <2>1. Below(x) \in SUBSET (rows \ {x})
    BY DEF StrictOrder
  <2>2. IsFiniteSet(rows \ {x}) /\ Cardinality(rows \ {x}) = n - 1
    BY FS_RemoveElement
  <2>3. IsFiniteSet(Below(x)) /\ Cardinality(Below(x)) <= Cardinality(rows \ {x})
    BY <2>1, <2>2, FS_Subset
  <2>4. Cardinality(Below(x)) \in Nat
    BY <2>3, FS_CardinalityType
  <2>. HIDE DEF Below
  <2>5. Cardinality(Below(x)) + 1 <= n
    BY <1>1, <2>2, <2>3, <2>4
  <2>6. Below(x) \in SUBSET rows
    BY <2>1
  <2>. QED
    BY <2>3, <2>4, <2>5, <2>6
<1>3. ASSUME NEW x \in rows, NEW y \in rows, <<x, y>> \in before
      PROVE  Cardinality(Below(x)) < Cardinality(Below(y))
  <2>1. Below(x) \in SUBSET Below(y) /\ x \in Below(y) /\ x \notin Below(x)
    BY <1>3 DEF StrictOrder
  <2>2. /\ Cardinality(Below(x)) <= Cardinality(Below(y))
        /\ Cardinality(Below(x)) # Cardinality(Below(y))
    BY <2>1, <1>2, FS_Subset
  <2>3. Cardinality(Below(x)) \in Nat /\ Cardinality(Below(y)) \in Nat
    BY <1>2
  <2>. HIDE DEF Below
  <2>. QED
    BY <2>2, <2>3
<1>4. \A x \in rows : RankOf(x, rows, before) = Cardinality(Below(x)) + 1
  BY DEF RankOf
<1>. HIDE DEF Below
<1>5. \A x \in rows : RankOf(x, rows, before) \in 1..n
  BY <1>1, <1>2, <1>4
<1>6. \A x, y \in rows : <<x, y>> \in before => RankOf(x, rows, before) < RankOf(y, rows, before)
  BY <1>2, <1>3, <1>4
<1>7. ASSUME NEW x \in rows, NEW y \in rows, RankOf(x, rows, before) = RankOf(y, rows, before)
      PROVE  x = y
  <2>1. RankOf(x, rows, before) \in Nat /\ RankOf(y, rows, before) \in Nat
    BY <1>1, <1>5
  <2>2. <<x, y>> \notin before /\ <<y, x>> \notin before
    BY <2>1, <1>6, <1>7
  <2>. QED
    BY <2>2 DEF StrictOrder
<1>8. rank \in Injection(rows, 1..n)
  BY <1>5, <1>7 DEF Injection, IsInjective
<1>9. IsFiniteSet(1..n) /\ Cardinality(1..n) = n
  <2>1. 1 \in Int /\ n \in Int
    BY <1>1
  <2>. QED
    BY <1>1, <2>1, FS_Interval
<1>10. rank \in Surjection(rows, 1..n)
  BY <1>8, <1>9, FS_Injection
<1>11. \A i \in 1..n : \E x \in rows : rank[x] = i
  BY <1>10 DEF Surjection
<1>. QED
  BY <1>1, <1>5, <1>6, <1>7, <1>11

\* The list of a set has every row once, in its order.
LEMMA RankedFits ==
  ASSUME NEW rows, IsFiniteSet(rows), NEW before, StrictOrder(rows, before)
  PROVE  LET line == Ranked(rows, before) IN
         /\ Cardinality(rows) \in Nat /\ line \in Seq(rows) /\ Len(line) = Cardinality(rows)
         /\ IsInjective(line)
         /\ \A i \in 1..Cardinality(rows) : RankOf(line[i], rows, before) = i
         /\ \A x \in rows : /\ RankOf(x, rows, before) \in 1..Cardinality(rows)
                            /\ line[RankOf(x, rows, before)] = x
<1>. DEFINE line == Ranked(rows, before)
            n == Cardinality(rows)
<1>1. /\ n \in Nat
      /\ \A x \in rows : RankOf(x, rows, before) \in 1..n
      /\ \A x, y \in rows : RankOf(x, rows, before) = RankOf(y, rows, before) => x = y
      /\ \A i \in 1..n : \E x \in rows : RankOf(x, rows, before) = i
  BY RanksFit
<1>2. DOMAIN line = 1..n /\ \A i \in 1..n : line[i] = CHOOSE x \in rows : RankOf(x, rows, before) = i
  BY DEF Ranked
<1>3. \A i \in 1..n : line[i] \in rows /\ RankOf(line[i], rows, before) = i
  BY <1>1, <1>2
<1>4. line \in [1..n -> rows]
  <2>1. line = [i \in 1..n |-> line[i]]
    BY DEF Ranked
  <2>. HIDE DEF line
  <2>. QED
    BY <2>1, <1>3
<1>. HIDE DEF line
<1>5. line \in Seq(rows) /\ Len(line) = n
  BY <1>1, <1>4
<1>6. IsInjective(line)
  BY <1>2, <1>3 DEF IsInjective
<1>7. \A x \in rows : line[RankOf(x, rows, before)] = x
  BY <1>1, <1>3
<1>. QED
  BY <1>1, <1>3, <1>5, <1>6, <1>7 DEF line

\* Some number is the least of a set, some the greatest.
LEMMA EndsOfNumbers ==
  ASSUME NEW n \in Nat, NEW S \in SUBSET (0..n), S # {}
  PROVE  /\ \E x \in S : \A y \in S : x <= y
         /\ \E x \in S : \A y \in S : y <= x
<1>1. ASSUME NEW T \in SUBSET Nat, T # {} PROVE \E x \in T : \A y \in T : x <= y
  <2>1. PICK x \in T : \A y \in T : ~(<<y, x>> \in OpToRel(<, Nat))
    BY <1>1, WFMin, NatLessThanWellFounded
  <2>2. ASSUME NEW y \in T PROVE x <= y
    <3>1. ~(y < x)
      BY <2>1 DEF OpToRel
    <3>. QED
      BY <3>1
  <2>. QED
    BY <2>2
<1>. DEFINE T == {n - x : x \in S}
<1>2. T \in SUBSET Nat /\ T # {}
  <2>1. \A x \in S : n - x \in Nat
    OBVIOUS
  <2>. QED
    BY <2>1
<1>3. PICK t \in T : \A u \in T : t <= u
  BY <1>1, <1>2
<1>4. PICK x \in S : t = n - x
  OBVIOUS
<1>5. ASSUME NEW y \in S PROVE y <= x
  <2>1. n - y \in T
    OBVIOUS
  <2>2. n - x <= n - y
    BY <1>3, <1>4, <2>1
  <2>. QED
    BY <2>2
<1>6. S \in SUBSET Nat
  OBVIOUS
<1>. QED
  BY <1>1, <1>5, <1>6

\* The first numbers, counted.
LEMMA UpTo ==
  ASSUME NEW n \in Nat PROVE IsFiniteSet(1..n) /\ Cardinality(1..n) = n
<1>1. 1 \in Int /\ n \in Int
  OBVIOUS
<1>. QED
  BY <1>1, FS_Interval

\* A list that has every row once, in the order, is the list of the set.
LEMMA RankedIs ==
  ASSUME NEW rows, IsFiniteSet(rows), NEW before, StrictOrder(rows, before),
         NEW line \in Seq(rows), \A x \in rows : Contains(line, x),
         \A i, j \in 1..Len(line) : i < j => <<line[i], line[j]>> \in before
  PROVE  Ranked(rows, before) = line
<1>1. Len(line) \in Nat /\ DOMAIN line = 1..Len(line) /\ \A i \in 1..Len(line) : line[i] \in rows
  BY ElementOfSeq, LenProperties
<1>2. \A i, j \in 1..Len(line) : <<line[i], line[j]>> \in before => i < j
  <2>. SUFFICES ASSUME NEW i \in 1..Len(line), NEW j \in 1..Len(line),
                       <<line[i], line[j]>> \in before, ~(i < j)
                PROVE  FALSE
    OBVIOUS
  <2>1. i = j \/ j < i
    BY <1>1
  <2>2. line[i] = line[j] \/ <<line[j], line[i]>> \in before
    BY <2>1
  <2>3. line[i] \in rows /\ line[j] \in rows
    BY <1>1
  <2>4. <<line[i], line[i]>> \in before
    BY <2>2, <2>3 DEF StrictOrder
  <2>. QED
    BY <2>3, <2>4 DEF StrictOrder
<1>3. \A i, j \in 1..Len(line) : line[i] = line[j] => i = j
  <2>. SUFFICES ASSUME NEW i \in 1..Len(line), NEW j \in 1..Len(line), line[i] = line[j], i # j
                PROVE  FALSE
    OBVIOUS
  <2>1. i < j \/ j < i
    BY <1>1
  <2>2. <<line[i], line[i]>> \in before
    BY <2>1
  <2>. QED
    BY <1>1, <2>2 DEF StrictOrder
<1>4. ASSUME NEW i \in 1..Len(line) PROVE RankOf(line[i], rows, before) = i
  <2>. DEFINE Below == {y \in rows : <<y, line[i]>> \in before}
              f == [j \in 1..(i - 1) |-> line[j]]
  <2>1. i \in Nat /\ i - 1 \in Nat /\ 1 \in Int /\ i - 1 \in Int /\ 1..(i - 1) \in SUBSET (1..Len(line))
    BY <1>1
  <2>2. \A j \in 1..(i - 1) : f[j] \in Below
    BY <1>1, <2>1
  <2>3. \A y \in Below : \E j \in 1..(i - 1) : f[j] = y
    <3>. SUFFICES ASSUME NEW y \in Below PROVE \E j \in 1..(i - 1) : line[j] = y
      OBVIOUS
    <3>1. PICK j \in 1..Len(line) : line[j] = y
      BY DEF Contains
    <3>2. j < i
      BY <1>2, <3>1
    <3>. QED
      BY <1>1, <3>1, <3>2
  <2>4. \A j, h \in 1..(i - 1) : f[j] = f[h] => j = h
    BY <1>3, <2>1
  <2>. HIDE DEF Below
  <2>5. f \in Bijection(1..(i - 1), Below)
    BY <2>2, <2>3, <2>4 DEF Bijection, Injection, Surjection, IsInjective
  <2>6. IsFiniteSet(1..(i - 1)) /\ Cardinality(1..(i - 1)) = i - 1
    BY <2>1, UpTo
  <2>7. Cardinality(Below) = i - 1
    BY <2>5, <2>6, FS_Bijection DEF ExistsBijection
  <2>8. RankOf(line[i], rows, before) = Cardinality(Below) + 1
    BY DEF RankOf, Below
  <2>. QED
    BY <2>1, <2>7, <2>8
<1>. DEFINE sorted == Ranked(rows, before)
<1>5. /\ Cardinality(rows) \in Nat /\ sorted \in Seq(rows) /\ Len(sorted) = Cardinality(rows)
      /\ \A x \in rows : /\ RankOf(x, rows, before) \in 1..Cardinality(rows)
                         /\ sorted[RankOf(x, rows, before)] = x
  BY RankedFits
<1>6. Cardinality(rows) = Len(line)
  <2>1. line \in Bijection(1..Len(line), rows)
    <3>1. line \in [1..Len(line) -> rows]
      BY <1>1, LenProperties
    <3>2. \A x \in rows : \E j \in 1..Len(line) : line[j] = x
      BY DEF Contains
    <3>. QED
      BY <1>3, <3>1, <3>2 DEF Bijection, Injection, Surjection, IsInjective
  <2>2. IsFiniteSet(1..Len(line)) /\ Cardinality(1..Len(line)) = Len(line)
    BY <1>1, UpTo
  <2>. QED
    BY <2>1, <2>2, FS_Bijection DEF ExistsBijection
<1>. HIDE DEF sorted
<1>7. \A i \in 1..Len(line) : sorted[i] = line[i]
  BY <1>1, <1>4, <1>5
<1>8. sorted = line
  BY <1>1, <1>5, <1>6, <1>7, SeqEqual
<1>. QED
  BY <1>8 DEF sorted

-----------------------------------------------------------------------------
(* The posting limits.                                                     *)

ReadingRec == [at : {"idle", "select", "insert", "reread", "done"}, for : PostTab \cup {NULL},
               got : Limits \cup {NULL}, last : BOOLEAN, held : SUBSET Limits]
PostingRec == [open : BOOLEAN, values : Limits \cup {NULL}, busy : BOOLEAN]
ChangeRec == [by : PostTab \cup {NULL}, op : {"none", "save", "reset"}, value : Limits \cup {NULL},
              at : {"sent", "ok", "failed"}, live : BOOLEAN, last : BOOLEAN]

\* A reader q holds what the row has been since it began.
ReadFits(q) ==
  /\ q.at # "idle" /\ limitsRow # NULL => limitsRow \in q.held
  /\ q.at = "reread" => limitsRow # NULL
  /\ q.at = "done" => q.got \in q.held
  /\ q.last => q.at = "done" /\ q.got = limitsRow
\* A request k is known to the form that awaits it, which nobody edits until then.
ChangeFits(k) == k.op # "none" =>
  /\ k.value \in Limits /\ k.by \in PostTab
  /\ k.last => k.value = limitsRow
  /\ k.live => /\ posting[k.by].open /\ posting[k.by].busy
               /\ k.op = "save" => posting[k.by].values = k.value
               /\ k.at = "ok" => k.last \/ k.by \notin fresh
OneChange == \A c, d \in LimitSave :
  /\ change[c].op # "none" /\ change[c].live /\ change[d].op # "none" /\ change[d].live
  /\ change[c].by = change[d].by
  => c = d
OpenFits(p) == p.open => p.values \in Limits

PostingIInv ==
  /\ limitsRow \in Limits \cup {NULL} /\ saved \in Limits \cup {NULL} /\ fresh \subseteq PostTab
  /\ reading \in [LimitRead -> ReadingRec] /\ posting \in [PostTab -> PostingRec]
  /\ change \in [LimitSave -> ChangeRec]
  /\ \A r \in LimitRead : ReadFits(reading[r])
  /\ \A t \in PostTab : OpenFits(posting[t])
  /\ \A c \in LimitSave : ChangeFits(change[c])
  /\ \A t \in fresh : posting[t].open
  /\ OneChange /\ SeedSparesSaves /\ FormsFresh

\* No tab, no reader and no request yet.
LEMMA PostingBegins ==
  ASSUME PostingConstantsOK, PostingInit PROVE PostingIInv
<1>1. NotReading \in ReadingRec /\ NoPosting \in PostingRec /\ NoChange \in ChangeRec
  BY DEF NotReading, NoPosting, NoChange, ReadingRec, PostingRec, ChangeRec
<1>2. /\ NotReading.at = "idle" /\ ~NotReading.last /\ ~NoPosting.open /\ NoChange.op = "none"
  BY DEF NotReading, NoPosting, NoChange
<1>3. /\ \A r \in LimitRead : reading[r] = NotReading
      /\ \A t \in PostTab : posting[t] = NoPosting
      /\ \A c \in LimitSave : change[c] = NoChange
  BY DEF PostingInit
<1>4. /\ \A r \in LimitRead : ReadFits(reading[r])
      /\ \A t \in PostTab : OpenFits(posting[t])
      /\ \A c \in LimitSave : ChangeFits(change[c])
      /\ OneChange
  BY <1>2, <1>3 DEF ReadFits, OpenFits, ChangeFits, OneChange
<1>5. /\ reading \in [LimitRead -> ReadingRec] /\ posting \in [PostTab -> PostingRec]
      /\ change \in [LimitSave -> ChangeRec]
  BY <1>1 DEF PostingInit
<1>. QED
  BY <1>4, <1>5 DEF PostingInit, PostingIInv, SeedSparesSaves, FormsFresh

\* A reader goes on while the row, the forms and the requests stay.
LEMMA ReaderMoves ==
  ASSUME PostingIInv, UNCHANGED <<limitsRow, posting, change, saved, fresh>>,
         NEW r \in LimitRead, NEW q \in ReadingRec, ReadFits(q), reading' = [reading EXCEPT ![r] = q]
  PROVE  PostingIInv'
<1>1. /\ reading' \in [LimitRead -> ReadingRec] /\ reading'[r] = q
      /\ \A s \in LimitRead \ {r} : reading'[s] = reading[s]
  BY DEF PostingIInv
<1>2. \A s \in LimitRead : ReadFits(reading[s])'
  BY <1>1 DEF PostingIInv, ReadFits
<1>. QED
  BY <1>1, <1>2 DEF PostingIInv, OpenFits, ChangeFits, OneChange, SeedSparesSaves, FormsFresh

\* The readers: the row is made only where there is none, so that no save is undone.
LEMMA ReadersGo ==
  ASSUME PostingConstantsOK, PostingIInv, NEW r \in LimitRead,
         \/ \E t \in PostTab \cup {NULL} : BeginRead(r, t)
         \/ SelectRow(r) \/ SeedRow(r) \/ Reread(r)
  PROVE  PostingIInv'
<1>0. /\ reading[r] \in ReadingRec /\ ReadFits(reading[r]) /\ reading \in [LimitRead -> ReadingRec]
      /\ limitsRow \in Limits \cup {NULL} /\ DefaultLimits \in Limits /\ NULL \notin Limits
  BY DEF PostingIInv, PostingConstantsOK
<1>1. ASSUME NEW t \in PostTab \cup {NULL}, BeginRead(r, t) PROVE PostingIInv'
  <2>. DEFINE q == [NotReading EXCEPT !.at = "select", !.for = t, !.held = {limitsRow} \ {NULL}]
  <2>1. q \in ReadingRec /\ q.at = "select" /\ q.held = {limitsRow} \ {NULL} /\ ~q.last
    BY <1>0 DEF NotReading, ReadingRec
  <2>2. reading' = [reading EXCEPT ![r] = q] /\ UNCHANGED <<limitsRow, posting, change, saved, fresh>>
    BY <1>1 DEF BeginRead
  <2>. HIDE DEF q
  <2>3. ReadFits(q)
    BY <2>1 DEF ReadFits
  <2>. QED
    BY <2>1, <2>2, <2>3, ReaderMoves
<1>. DEFINE f == [reading[r] EXCEPT !.at = "done", !.got = limitsRow, !.last = TRUE]
<1>2. ASSUME limitsRow # NULL, reading[r].at # "idle" PROVE f \in ReadingRec /\ ReadFits(f)
  <2>1. /\ f \in ReadingRec /\ f.at = "done" /\ f.got = limitsRow /\ f.held = reading[r].held
    BY <1>0, <1>2 DEF ReadingRec
  <2>2. limitsRow \in reading[r].held
    BY <1>0, <1>2 DEF ReadFits
  <2>. QED
    BY <1>2, <2>1, <2>2 DEF ReadFits
<1>3. Found(r) = [reading EXCEPT ![r] = f]
  BY <1>0 DEF Found
<1>4. ASSUME NEW at \in {"insert", "reread"}, at = "reread" => limitsRow # NULL,
             reading[r].at \in {"select", "insert"}
      PROVE  /\ [reading[r] EXCEPT !.at = at] \in ReadingRec
             /\ ReadFits([reading[r] EXCEPT !.at = at])
  <2>. DEFINE q == [reading[r] EXCEPT !.at = at]
  <2>1. q \in ReadingRec /\ q.at = at /\ q.held = reading[r].held /\ q.last = reading[r].last
    BY <1>0 DEF ReadingRec
  <2>. HIDE DEF q
  <2>2. ReadFits(q)
    BY <1>0, <1>4, <2>1 DEF ReadFits
  <2>. QED
    BY <2>1, <2>2 DEF q
<1>5. CASE SelectRow(r)
  <2>1. CASE limitsRow = NULL
    <3>1. reading' = [reading EXCEPT ![r] = [reading[r] EXCEPT !.at = "insert"]]
      BY <1>0, <1>5, <2>1 DEF SelectRow
    <3>. QED
      BY <1>4, <1>5, <3>1, ReaderMoves DEF SelectRow
  <2>2. CASE limitsRow # NULL
    <3>1. reading' = [reading EXCEPT ![r] = f]
      BY <1>3, <1>5, <2>2 DEF SelectRow
    <3>2. f \in ReadingRec /\ ReadFits(f)
      BY <1>2, <1>5, <2>2 DEF SelectRow
    <3>. HIDE DEF f
    <3>. QED
      BY <1>5, <3>1, <3>2, ReaderMoves DEF SelectRow
  <2>. QED
    BY <2>1, <2>2
<1>6. CASE Reread(r)
  <2>1. limitsRow # NULL
    BY <1>0, <1>6 DEF ReadFits, Reread
  <2>2. reading' = [reading EXCEPT ![r] = f]
    BY <1>3, <1>6, <2>1 DEF Reread
  <2>3. f \in ReadingRec /\ ReadFits(f)
    BY <1>2, <1>6, <2>1 DEF Reread
  <2>. HIDE DEF f
  <2>. QED
    BY <1>6, <2>2, <2>3, ReaderMoves DEF Reread
<1>7. CASE SeedRow(r) /\ limitsRow # NULL
  <2>1. reading' = [reading EXCEPT ![r] = [reading[r] EXCEPT !.at = "reread"]]
    BY <1>0, <1>7 DEF SeedRow
  <2>. QED
    BY <1>4, <1>7, <2>1, ReaderMoves DEF SeedRow
<1>8. CASE SeedRow(r) /\ limitsRow = NULL
  <2>. DEFINE v == DefaultLimits
              q == [[reading[r] EXCEPT !.last = FALSE, !.held = @ \cup {v}]
                      EXCEPT !.at = "done", !.got = v, !.last = TRUE]
  <2>1. /\ limitsRow' = v /\ fresh' = {} /\ UNCHANGED <<posting, change, saved>>
        /\ reading' = [Outdated(v) EXCEPT ![r] = q] /\ reading[r].at = "insert"
    <3>1. Outdated(v)[r] = [reading[r] EXCEPT !.last = FALSE, !.held = @ \cup {v}]
      BY <1>8 DEF SeedRow, Outdated
    <3>2. reading' = [Outdated(v) EXCEPT ![r].at = "done", ![r].got = v, ![r].last = TRUE]
      BY <1>8 DEF SeedRow
    <3>. QED
      BY <1>8, <3>1, <3>2 DEF SeedRow, Overtaken, Outdated
  <2>2. q \in ReadingRec /\ q.at = "done" /\ q.got = v /\ q.held = reading[r].held \cup {v}
    BY <1>0 DEF ReadingRec
  <2>3. saved = NULL /\ \A c \in LimitSave : change[c].op # "none" => ~change[c].last
    <3>1. SeedSparesSaves /\ \A c \in LimitSave : ChangeFits(change[c]) /\ change[c] \in ChangeRec
      BY DEF PostingIInv
    <3>. QED
      BY <1>0, <1>8, <3>1 DEF SeedSparesSaves, ChangeFits
  <2>. HIDE DEF q
  <2>4. ASSUME NEW s \in LimitRead
        PROVE  reading'[s] \in ReadingRec /\ ReadFits(reading[s])'
    <3>0. reading[s] \in ReadingRec /\ ReadFits(reading[s])
      BY DEF PostingIInv
    <3>1. CASE s = r
      <4>1. reading'[s] = q
        BY <2>1, <3>1 DEF Outdated
      <4>. QED
        BY <2>1, <2>2, <4>1 DEF ReadFits
    <3>2. CASE s # r /\ reading[s].at = "idle"
      <4>1. reading'[s] = reading[s]
        BY <2>1, <3>2 DEF Outdated
      <4>. QED
        BY <3>0, <3>2, <4>1 DEF ReadFits
    <3>3. CASE s # r /\ reading[s].at # "idle"
      <4>. DEFINE w == [reading[s] EXCEPT !.last = FALSE, !.held = @ \cup {v}]
      <4>1. reading'[s] = w
        BY <2>1, <3>3 DEF Outdated
      <4>2. w \in ReadingRec /\ w.at = reading[s].at /\ w.got = reading[s].got /\ ~w.last
            /\ w.held = reading[s].held \cup {v}
        BY <1>0, <3>0 DEF ReadingRec
      <4>. HIDE DEF w
      <4>. QED
        BY <1>0, <2>1, <3>0, <4>1, <4>2 DEF ReadFits
    <3>. QED
      BY <3>1, <3>2, <3>3
  <2>5. reading' \in [LimitRead -> ReadingRec]
    <3>1. DOMAIN reading' = LimitRead /\ reading' = [s \in LimitRead |-> reading'[s]]
      BY <2>1 DEF Outdated
    <3>. QED
      BY <2>4, <3>1
  <2>6. \A c \in LimitSave : ChangeFits(change[c])'
    BY <2>1, <2>3 DEF PostingIInv, ChangeFits
  <2>. QED
    BY <1>0, <2>1, <2>3, <2>4, <2>5, <2>6
       DEF PostingIInv, OpenFits, OneChange, SeedSparesSaves, FormsFresh
<1>. QED
  BY <1>1, <1>5, <1>6, <1>7, <1>8

\* A page takes what its reader has got.
LEMMA LimitsUsed ==
  ASSUME PostingConstantsOK, PostingIInv, NEW r \in LimitRead, UseLimits(r) PROVE PostingIInv'
<1>0. /\ reading[r] \in ReadingRec /\ ReadFits(reading[r]) /\ NotReading \in ReadingRec
      /\ ReadFits(NotReading)
  BY DEF PostingIInv, NotReading, ReadingRec, ReadFits
<1>1. reading' = [reading EXCEPT ![r] = NotReading] /\ UNCHANGED <<limitsRow, change, saved>>
  BY DEF UseLimits
<1>2. /\ reading' \in [LimitRead -> ReadingRec]
      /\ \A s \in LimitRead : ReadFits(reading[s])'
  <2>1. /\ reading' \in [LimitRead -> ReadingRec] /\ reading'[r] = NotReading
        /\ \A s \in LimitRead \ {r} : reading'[s] = reading[s]
    BY <1>0, <1>1 DEF PostingIInv
  <2>. QED
    BY <1>0, <1>1, <2>1 DEF PostingIInv, ReadFits
<1>3. CASE UNCHANGED <<posting, fresh>>
  BY <1>1, <1>2, <1>3 DEF PostingIInv, OpenFits, ChangeFits, OneChange, SeedSparesSaves, FormsFresh
<1>4. CASE reading[r].for # NULL /\ ~posting[reading[r].for].open
  <2>. DEFINE t == reading[r].for  p == [open |-> TRUE, values |-> reading[r].got, busy |-> FALSE]
  <2>1. /\ t \in PostTab /\ posting' = [posting EXCEPT ![t] = p]
        /\ fresh' = IF reading[r].last THEN fresh \cup {t} ELSE fresh
    BY <1>0, <1>4 DEF UseLimits, ReadingRec
  <2>2. reading[r].got \in Limits /\ (reading[r].last => reading[r].got = limitsRow)
    BY <1>0 DEF UseLimits, ReadFits, ReadingRec
  <2>3. p \in PostingRec /\ OpenFits(p) /\ p.values = reading[r].got /\ p.open
    BY <2>2 DEF PostingRec, OpenFits
  <2>4. ~posting[t].open
    BY <1>4
  <2>. HIDE DEF t, p
  <2>5. /\ posting' \in [PostTab -> PostingRec] /\ posting'[t] = p
        /\ \A u \in PostTab \ {t} : posting'[u] = posting[u]
    BY <2>1, <2>3 DEF PostingIInv
  <2>6. \A c \in LimitSave : ChangeFits(change[c])'
    <3>1. \A c \in LimitSave : change[c].op # "none" /\ change[c].live => change[c].by # t
      BY <2>4 DEF PostingIInv, ChangeFits
    <3>2. \A u \in PostTab \ {t} : u \in fresh' => u \in fresh
      BY <2>1
    <3>3. ASSUME NEW c \in LimitSave PROVE ChangeFits(change[c])'
      <4>1. ChangeFits(change[c])
        BY DEF PostingIInv
      <4>. QED
        BY <1>1, <2>5, <3>1, <3>2, <4>1 DEF ChangeFits
    <3>. QED
      BY <3>3
  <2>7. FormsFresh'
    <3>1. t \notin fresh
      BY <2>4 DEF PostingIInv
    <3>. QED
      BY <1>1, <2>1, <2>2, <2>3, <2>5, <3>1 DEF PostingIInv, FormsFresh
  <2>. QED
    BY <1>1, <1>2, <2>1, <2>3, <2>5, <2>6, <2>7 DEF PostingIInv, OpenFits, OneChange, SeedSparesSaves
<1>. QED
  BY <1>3, <1>4 DEF UseLimits

\* The form is edited, sends its values, and is left.
LEMMA FormWorks ==
  ASSUME PostingConstantsOK, PostingIInv, NEW t \in PostTab,
         \/ \E v \in Limits : TypeLimits(t, v)
         \/ \E c \in LimitSave : SaveLimits(t, c) \/ ResetLimits(t, c)
         \/ LeavePosting(t)
  PROVE  PostingIInv'
<1>0. /\ posting[t] \in PostingRec /\ posting \in [PostTab -> PostingRec] /\ OpenFits(posting[t])
      /\ change \in [LimitSave -> ChangeRec]
      /\ \A c \in LimitSave : ChangeFits(change[c])
  BY DEF PostingIInv
<1>1. UNCHANGED <<limitsRow, reading, saved>> /\ posting[t].open
  BY DEF TypeLimits, SaveLimits, ResetLimits, Sends, LeavePosting
<1>2. \A r \in LimitRead : ReadFits(reading[r])'
  BY <1>1 DEF PostingIInv, ReadFits
<1>3. ASSUME NEW v \in Limits, TypeLimits(t, v) PROVE PostingIInv'
  <2>. DEFINE p == [posting[t] EXCEPT !.values = v]
  <2>1. p \in PostingRec /\ p.open /\ p.values = v
    BY <1>0, <1>1 DEF PostingRec
  <2>2. posting' = [posting EXCEPT ![t] = p] /\ fresh' = fresh \ {t} /\ UNCHANGED change /\ ~posting[t].busy
    BY <1>3 DEF TypeLimits
  <2>. HIDE DEF p
  <2>3. /\ posting' \in [PostTab -> PostingRec] /\ posting'[t] = p
        /\ \A u \in PostTab \ {t} : posting'[u] = posting[u]
    BY <1>0, <2>1, <2>2
  <2>4. \A c \in LimitSave : ChangeFits(change[c])'
    BY <1>0, <1>1, <2>2, <2>3 DEF ChangeFits
  <2>5. \A u \in PostTab : OpenFits(posting[u])'
    BY <2>1, <2>3 DEF PostingIInv, OpenFits
  <2>6. FormsFresh' /\ \A u \in fresh' : posting'[u].open
    BY <1>1, <2>2, <2>3 DEF PostingIInv, FormsFresh
  <2>. QED
    BY <1>1, <1>2, <2>2, <2>3, <2>4, <2>5, <2>6 DEF PostingIInv, OneChange, SeedSparesSaves
<1>4. ASSUME NEW c \in LimitSave, NEW op \in {"save", "reset"}, NEW v \in Limits, Sends(t, c, op, v),
             op = "save" => v = posting[t].values
      PROVE  PostingIInv'
  <2>. DEFINE p == [posting[t] EXCEPT !.busy = TRUE]
              k == [NoChange EXCEPT !.by = t, !.op = op, !.value = v, !.live = TRUE]
  <2>1. /\ p \in PostingRec /\ p.open /\ p.values = posting[t].values /\ p.busy
        /\ k \in ChangeRec /\ k.by = t /\ k.op = op /\ k.value = v /\ k.live /\ ~k.last /\ k.at = "sent"
    BY <1>0, <1>1 DEF PostingRec, ChangeRec, NoChange
  <2>2. /\ posting' = [posting EXCEPT ![t] = p] /\ change' = [change EXCEPT ![c] = k] /\ UNCHANGED fresh
        /\ ~posting[t].busy
    BY <1>4 DEF Sends
  <2>. HIDE DEF p, k
  <2>3. /\ posting' \in [PostTab -> PostingRec] /\ posting'[t] = p
        /\ \A u \in PostTab \ {t} : posting'[u] = posting[u]
        /\ change' \in [LimitSave -> ChangeRec] /\ change'[c] = k
        /\ \A d \in LimitSave \ {c} : change'[d] = change[d]
    BY <1>0, <2>1, <2>2
  <2>4. \A d \in LimitSave : change[d].op # "none" /\ change[d].live => change[d].by # t
    BY <1>0, <2>2 DEF ChangeFits
  <2>5. \A d \in LimitSave : ChangeFits(change[d])'
    <3>1. ChangeFits(change[c])'
      BY <1>4, <2>1, <2>3 DEF ChangeFits
    <3>2. ASSUME NEW d \in LimitSave \ {c} PROVE ChangeFits(change[d])'
      BY <1>0, <1>1, <2>2, <2>3, <2>4 DEF ChangeFits
    <3>. QED
      BY <3>1, <3>2
  <2>6. OneChange'
    BY <2>1, <2>3, <2>4 DEF PostingIInv, OneChange
  <2>7. ASSUME NEW u \in PostTab
        PROVE  posting'[u].values = posting[u].values /\ posting'[u].open = posting[u].open
    <3>1. CASE u = t
      BY <1>1, <2>1, <2>3, <3>1
    <3>2. CASE u # t
      BY <2>3, <3>2
    <3>. QED
      BY <3>1, <3>2
  <2>. QED
    BY <1>1, <1>2, <2>2, <2>3, <2>5, <2>6, <2>7 DEF PostingIInv, OpenFits, SeedSparesSaves, FormsFresh
<1>5. ASSUME NEW c \in LimitSave, SaveLimits(t, c) \/ ResetLimits(t, c) PROVE PostingIInv'
  <2>1. posting[t].values \in Limits /\ DefaultLimits \in Limits
    BY <1>0, <1>1 DEF OpenFits, PostingConstantsOK
  <2>. QED
    BY <1>4, <1>5, <2>1 DEF SaveLimits, ResetLimits
<1>6. CASE LeavePosting(t)
  <2>1. /\ NoPosting \in PostingRec /\ ~NoPosting.open
    BY DEF NoPosting, PostingRec
  <2>2. /\ posting' = [posting EXCEPT ![t] = NoPosting] /\ fresh' = fresh \ {t}
        /\ change' = [c \in LimitSave |-> IF change[c].by = t THEN [change[c] EXCEPT !.live = FALSE] ELSE change[c]]
    BY <1>6 DEF LeavePosting
  <2>3. /\ posting' \in [PostTab -> PostingRec] /\ posting'[t] = NoPosting
        /\ \A u \in PostTab \ {t} : posting'[u] = posting[u]
    BY <1>0, <2>1, <2>2
  <2>4. ASSUME NEW c \in LimitSave
        PROVE  /\ change'[c] \in ChangeRec /\ change'[c].op = change[c].op /\ change'[c].by = change[c].by
               /\ change'[c].value = change[c].value /\ change'[c].last = change[c].last
               /\ change'[c].live => change[c].live /\ change[c].by # t
               /\ change'[c].at = change[c].at
    <3>0. change[c] \in ChangeRec
      BY <1>0
    <3>1. CASE change[c].by = t
      <4>1. change'[c] = [change[c] EXCEPT !.live = FALSE]
        BY <2>2, <3>1
      <4>. QED
        BY <3>0, <4>1 DEF ChangeRec
    <3>2. CASE change[c].by # t
      BY <2>2, <3>0, <3>2
    <3>. QED
      BY <3>1, <3>2
  <2>5. change' \in [LimitSave -> ChangeRec]
    <3>1. change' = [c \in LimitSave |-> change'[c]]
      BY <2>2
    <3>. QED
      BY <2>4, <3>1
  <2>6. \A c \in LimitSave : ChangeFits(change[c])'
    BY <1>0, <1>1, <2>2, <2>3, <2>4 DEF ChangeFits
  <2>7. OneChange'
    BY <2>4 DEF PostingIInv, OneChange
  <2>8. \A u \in PostTab : OpenFits(posting[u])'
    BY <2>1, <2>3 DEF PostingIInv, OpenFits
  <2>9. FormsFresh' /\ \A u \in fresh' : posting'[u].open
    BY <1>1, <2>2, <2>3 DEF PostingIInv, FormsFresh
  <2>. QED
    BY <1>1, <1>2, <2>2, <2>3, <2>5, <2>6, <2>7, <2>8, <2>9 DEF PostingIInv, SeedSparesSaves
<1>. QED
  BY <1>3, <1>5, <1>6

\* The whole row is written, and nobody holds it but who is told.
LEMMA LimitsWritten ==
  ASSUME PostingConstantsOK, PostingIInv, NEW c \in LimitSave, WriteLimits(c) PROVE PostingIInv'
<1>. DEFINE v == change[c].value
<1>0. /\ change[c] \in ChangeRec /\ change[c].op # "none" /\ v \in Limits /\ NULL \notin Limits
      /\ \A d \in LimitSave : change[d] \in ChangeRec /\ ChangeFits(change[d])
  BY DEF PostingIInv, WriteLimits, ChangeFits, PostingConstantsOK
<1>1. /\ limitsRow' = v /\ fresh' = {} /\ reading' = Outdated(v) /\ saved' = v /\ UNCHANGED posting
      /\ change' = [o \in LimitSave |-> IF o = c THEN [change[o] EXCEPT !.at = "ok", !.last = TRUE]
                                        ELSE [change[o] EXCEPT !.last = FALSE]]
  BY DEF WriteLimits, Overtaken
<1>. HIDE DEF v
<1>2. ASSUME NEW s \in LimitRead PROVE reading'[s] \in ReadingRec /\ ReadFits(reading[s])'
  <2>0. reading[s] \in ReadingRec /\ ReadFits(reading[s])
    BY DEF PostingIInv
  <2>1. CASE reading[s].at = "idle"
    <3>1. reading'[s] = reading[s]
      BY <1>1, <2>1 DEF Outdated
    <3>. QED
      BY <2>0, <2>1, <3>1 DEF ReadFits
  <2>2. CASE reading[s].at # "idle"
    <3>. DEFINE w == [reading[s] EXCEPT !.last = FALSE, !.held = @ \cup {v}]
    <3>1. reading'[s] = w
      BY <1>1, <2>2 DEF Outdated
    <3>2. w \in ReadingRec /\ w.at = reading[s].at /\ w.got = reading[s].got /\ ~w.last
          /\ w.held = reading[s].held \cup {v}
      BY <1>0, <2>0 DEF ReadingRec
    <3>. HIDE DEF w
    <3>. QED
      BY <1>0, <1>1, <2>0, <3>1, <3>2 DEF ReadFits
  <2>. QED
    BY <2>1, <2>2
<1>3. reading' \in [LimitRead -> ReadingRec]
  <2>1. reading' = [s \in LimitRead |-> reading'[s]]
    BY <1>1 DEF Outdated
  <2>. QED
    BY <1>2, <2>1
<1>4. ASSUME NEW d \in LimitSave
      PROVE  /\ change'[d] \in ChangeRec /\ change'[d].op = change[d].op /\ change'[d].by = change[d].by
             /\ change'[d].value = change[d].value /\ change'[d].live = change[d].live
             /\ change'[d].last => d = c
  <2>1. CASE d = c
    <3>1. change'[d] = [change[d] EXCEPT !.at = "ok", !.last = TRUE]
      BY <1>1, <2>1
    <3>. QED
      BY <1>0, <2>1, <3>1 DEF ChangeRec
  <2>2. CASE d # c
    <3>1. change'[d] = [change[d] EXCEPT !.last = FALSE]
      BY <1>1, <2>2
    <3>. QED
      BY <1>0, <3>1 DEF ChangeRec
  <2>. QED
    BY <2>1, <2>2
<1>5. change' \in [LimitSave -> ChangeRec]
  <2>1. change' = [d \in LimitSave |-> change'[d]]
    BY <1>1
  <2>. QED
    BY <1>4, <2>1
<1>6. ASSUME NEW d \in LimitSave PROVE ChangeFits(change[d])'
  <2>1. change[d] \in ChangeRec /\ ChangeFits(change[d])
    BY <1>0
  <2>2. change'[d].last => change'[d].value = limitsRow'
    BY <1>1, <1>4 DEF v
  <2>3. UNCHANGED posting /\ fresh' = {}
    BY <1>1
  <2>4. /\ change'[d].op = change[d].op /\ change'[d].by = change[d].by
        /\ change'[d].value = change[d].value /\ change'[d].live = change[d].live
    BY <1>4
  <2>. QED
    BY <2>1, <2>2, <2>3, <2>4 DEF ChangeFits
<1>7. OneChange'
  BY <1>4 DEF PostingIInv, OneChange
<1>. QED
  BY <1>0, <1>1, <1>2, <1>3, <1>5, <1>6, <1>7 DEF PostingIInv, OpenFits, SeedSparesSaves, FormsFresh

\* A request fails, or its answer is heard.
LEMMA ChangesEnd ==
  ASSUME PostingConstantsOK, PostingIInv, NEW c \in LimitSave, FailChange(c) \/ Answered(c)
  PROVE  PostingIInv'
<1>0. /\ change[c] \in ChangeRec /\ change[c].op # "none" /\ ChangeFits(change[c])
      /\ change \in [LimitSave -> ChangeRec] /\ UNCHANGED <<limitsRow, reading, saved>>
      /\ \A d \in LimitSave : ChangeFits(change[d])
  BY DEF PostingIInv, FailChange, Answered
<1>1. \A r \in LimitRead : ReadFits(reading[r])'
  BY <1>0 DEF PostingIInv, ReadFits
<1>2. CASE FailChange(c)
  <2>. DEFINE k == [change[c] EXCEPT !.at = "failed"]
  <2>1. /\ k \in ChangeRec /\ k.op = change[c].op /\ k.by = change[c].by /\ k.value = change[c].value
        /\ k.live = change[c].live /\ k.last = change[c].last /\ k.at = "failed"
    BY <1>0 DEF ChangeRec
  <2>2. change' = [change EXCEPT ![c] = k] /\ UNCHANGED <<posting, fresh>>
    BY <1>2 DEF FailChange
  <2>. HIDE DEF k
  <2>3. /\ change' \in [LimitSave -> ChangeRec] /\ change'[c] = k
        /\ \A d \in LimitSave \ {c} : change'[d] = change[d]
    BY <1>0, <2>1, <2>2
  <2>4. \A d \in LimitSave : ChangeFits(change[d])'
    BY <1>0, <2>1, <2>2, <2>3 DEF ChangeFits
  <2>5. OneChange'
    BY <2>1, <2>3 DEF PostingIInv, OneChange
  <2>. QED
    BY <1>0, <1>1, <2>2, <2>3, <2>4, <2>5 DEF PostingIInv, OpenFits, SeedSparesSaves, FormsFresh
<1>3. CASE Answered(c)
  <2>0. NoChange \in ChangeRec /\ NoChange.op = "none"
    BY DEF NoChange, ChangeRec
  <2>1. change' = [change EXCEPT ![c] = NoChange] /\ change[c].at # "sent"
    BY <1>3 DEF Answered
  <2>2. /\ change' \in [LimitSave -> ChangeRec] /\ change'[c] = NoChange
        /\ \A d \in LimitSave \ {c} : change'[d] = change[d]
    BY <1>0, <2>0, <2>1
  <2>3. OneChange'
    BY <2>0, <2>2 DEF PostingIInv, OneChange
  <2>4. CASE ~change[c].live
    <3>1. UNCHANGED <<posting, fresh>>
      BY <1>3, <2>4 DEF Answered
    <3>2. \A d \in LimitSave : ChangeFits(change[d])'
      BY <1>0, <2>0, <2>2, <3>1 DEF ChangeFits
    <3>. QED
      BY <1>0, <1>1, <2>2, <2>3, <3>1, <3>2 DEF PostingIInv, OpenFits, SeedSparesSaves, FormsFresh
  <2>5. CASE change[c].live
    <3>. DEFINE t == change[c].by
                values == IF change[c].op = "reset" /\ change[c].at = "ok" THEN change[c].value
                          ELSE posting[t].values
    <3>1. /\ t \in PostTab /\ posting[t].open /\ posting[t] \in PostingRec /\ OpenFits(posting[t])
          /\ change[c].value \in Limits
      BY <1>0, <2>5 DEF ChangeFits, PostingIInv
    <3>2. PICK p : /\ posting' = [posting EXCEPT ![t] = p] /\ p \in PostingRec
                   /\ p.open /\ p.values = values
      <4>1. CASE change[c].op = "reset" /\ change[c].at = "ok"
        <5>. DEFINE p == [posting[t] EXCEPT !.busy = FALSE, !.values = change[c].value]
        <5>1. posting' = [posting EXCEPT ![t] = p]
          BY <1>3, <2>5, <4>1 DEF Answered
        <5>2. p \in PostingRec /\ p.open /\ p.values = change[c].value
          BY <3>1 DEF PostingRec
        <5>. QED
          BY <4>1, <5>1, <5>2
      <4>2. CASE ~(change[c].op = "reset" /\ change[c].at = "ok")
        <5>. DEFINE p == [posting[t] EXCEPT !.busy = FALSE]
        <5>1. posting' = [posting EXCEPT ![t] = p]
          BY <1>3, <2>5, <4>2 DEF Answered
        <5>2. p \in PostingRec /\ p.open /\ p.values = posting[t].values
          BY <3>1 DEF PostingRec
        <5>. QED
          BY <4>2, <5>1, <5>2
      <4>. QED
        BY <4>1, <4>2
    <3>3. fresh' = IF change[c].at = "ok" /\ change[c].last THEN fresh \cup {t} ELSE fresh
      BY <1>3, <2>5 DEF Answered
    <3>4. values \in Limits
      BY <3>1 DEF OpenFits
    <3>5. change[c].at = "ok" /\ change[c].last => values = limitsRow
      BY <1>0, <2>5 DEF ChangeFits, ChangeRec
    <3>6. ASSUME t \in fresh, ~(change[c].at = "ok" /\ change[c].last) PROVE values = limitsRow
      <4>1. change[c].at # "ok"
        BY <1>0, <2>5, <3>6 DEF ChangeFits
      <4>. QED
        BY <3>6, <4>1 DEF PostingIInv, FormsFresh
    <3>. HIDE DEF t, values
    <3>7. /\ posting' \in [PostTab -> PostingRec] /\ posting'[t] = p
          /\ \A u \in PostTab \ {t} : posting'[u] = posting[u]
      BY <3>1, <3>2 DEF PostingIInv
    <3>8. ASSUME NEW d \in LimitSave PROVE ChangeFits(change[d])'
      <4>1. CASE d = c
        BY <2>0, <2>2, <4>1 DEF ChangeFits
      <4>2. CASE d # c /\ change[d].op # "none" /\ change[d].live
        <5>1. change'[d] = change[d] /\ change[d].by # t
          BY <1>0, <2>2, <2>5, <4>2 DEF PostingIInv, OneChange, t
        <5>2. change[d].by \in fresh' => change[d].by \in fresh
          BY <3>3, <5>1
        <5>. QED
          BY <1>0, <3>7, <4>2, <5>1, <5>2 DEF ChangeFits
      <4>3. CASE d # c /\ ~(change[d].op # "none" /\ change[d].live)
        BY <1>0, <2>2, <4>3 DEF ChangeFits
      <4>. QED
        BY <4>1, <4>2, <4>3
    <3>9. \A u \in PostTab : OpenFits(posting[u])'
      BY <3>2, <3>4, <3>7 DEF PostingIInv, OpenFits
    <3>10. FormsFresh' /\ fresh' \subseteq PostTab /\ \A u \in fresh' : posting'[u].open
      BY <1>0, <3>1, <3>2, <3>3, <3>5, <3>6, <3>7 DEF PostingIInv, FormsFresh
    <3>. QED
      BY <1>0, <1>1, <2>2, <2>3, <3>7, <3>8, <3>9, <3>10 DEF PostingIInv, SeedSparesSaves
  <2>. QED
    BY <2>4, <2>5
<1>. QED
  BY <1>2, <1>3

\* A step of the part that stutters.
LEMMA PostingWaits ==
  ASSUME PostingIInv, UNCHANGED postingVars PROVE PostingIInv'
BY DEF PostingIInv, postingVars, ReadFits, OpenFits, ChangeFits, OneChange, SeedSparesSaves, FormsFresh

\* Every step of the limits.
LEMMA PostingGoes ==
  ASSUME PostingConstantsOK, PostingIInv, [PostingNext]_postingVars PROVE PostingIInv'
<1>1. CASE UNCHANGED postingVars
  BY <1>1, PostingWaits
<1>2. ASSUME NEW r \in LimitRead,
             \/ \E t \in PostTab \cup {NULL} : BeginRead(r, t)
             \/ SelectRow(r) \/ SeedRow(r) \/ Reread(r) \/ UseLimits(r)
      PROVE  PostingIInv'
  <2>1. CASE UseLimits(r)
    BY <2>1, LimitsUsed
  <2>. QED
    BY <1>2, <2>1, ReadersGo
<1>3. ASSUME NEW t \in PostTab,
             \/ \E v \in Limits : TypeLimits(t, v)
             \/ \E c \in LimitSave : SaveLimits(t, c) \/ ResetLimits(t, c)
             \/ LeavePosting(t)
      PROVE  PostingIInv'
  BY <1>3, FormWorks
<1>4. ASSUME NEW c \in LimitSave, WriteLimits(c) \/ FailChange(c) \/ Answered(c) PROVE PostingIInv'
  <2>1. CASE WriteLimits(c)
    BY <2>1, LimitsWritten
  <2>. QED
    BY <1>4, <2>1, ChangesEnd
<1>5. CASE PostingNext
  BY <1>2, <1>3, <1>4, <1>5 DEF PostingNext
<1>. QED
  BY <1>1, <1>5

\* What the run checks follows.
LEMMA PostingFits ==
  ASSUME PostingIInv PROVE PostingInv
<1>1. PostingTypeOK
  BY DEF PostingIInv, PostingTypeOK, ReadingRec, PostingRec, ChangeRec
<1>2. ReadsHold
  BY DEF PostingIInv, ReadFits, ReadsHold
<1>. QED
  BY <1>1, <1>2 DEF PostingIInv, PostingInv

\* The posting limits: a reader that makes the row undoes no save, every reader got what the
\* row was during its call, and a form that was told of the last write shows the row
\* (posting-repo.ts, PostingPanel.tsx).
THEOREM LimitsKept ==
  ASSUME PostingConstantsOK
  PROVE  PostingInit /\ [][PostingNext]_postingVars => []PostingInv
<1>1. PostingInit => PostingIInv
  BY PostingBegins
<1>2. PostingIInv /\ [PostingNext]_postingVars => PostingIInv'
  BY PostingGoes
<1>3. PostingIInv => PostingInv
  BY PostingFits
<1>. QED
  BY <1>1, <1>2, <1>3, PTL

-----------------------------------------------------------------------------
(* The dialogs of the settings.                                            *)

TableRec == [SettingsRow -> RowName \cup {NULL}]
ShownRec == [rows : TableRec, refresh : BOOLEAN]
FormRec == [of : SettingsRow \cup {NULL, NewRow}, name : RowName \cup {NULL}, busy : BOOLEAN,
            made : SUBSET SettingsRow, unsure : BOOLEAN]
SaveRec == [op : {"none", "create", "edit", "toggle"}, by : FormTab \cup {NULL},
            of : SettingsRow \cup {NULL}, name : RowName \cup {NULL},
            at : {"check", "write", "ok", "refused", "threw", "lost"}, live : BOOLEAN]

\* A dialog d has made nothing between its requests, and shows the slug of its template.
DialogFits(d) ==
  /\ d.made = {} \/ d.unsure \/ (d.busy /\ \E r \in SettingsRow : d.made = {r})
  /\ page = "templates" /\ d.of \in SettingsRow => table[d.of] # NULL /\ d.name = table[d.of]
\* A page p shows the slugs that are stored.
ShownFits(p) ==
  page = "templates" => \A r \in SettingsRow : p.rows[r] # NULL => p.rows[r] = table[r]
\* A request k is for the dialog that awaits it, which has made nothing until the INSERT.
SaveFits(k) ==
  /\ k.live => k.op \in {"create", "edit"}
  /\ k.op # "none" => k.by \in FormTab
  /\ k.op \in {"create", "edit"} => k.name \in RowName
  /\ k.op \in {"toggle", "edit"} => k.of \in SettingsRow
  /\ page = "templates" /\ k.op = "edit" => table[k.of] = k.name
  /\ k.live => /\ form[k.by].busy
               /\ form[k.by].of = IF k.op = "create" THEN NewRow ELSE k.of
               /\ k.op = "edit" \/ k.at \notin {"ok", "lost"} => form[k.by].made = {} \/ form[k.by].unsure
OneLive == \A c, d \in SaveCall :
  /\ saving[c].live /\ saving[d].live /\ saving[c].by = saving[d].by
  => c = d

FormIInv ==
  /\ page \in {"targets", "templates", "sources"} /\ table \in TableRec
  /\ shownRows \in [FormTab -> ShownRec] /\ form \in [FormTab -> FormRec]
  /\ saving \in [SaveCall -> SaveRec]
  /\ \A t \in FormTab : DialogFits(form[t]) /\ ShownFits(shownRows[t])
  /\ \A c \in SaveCall : SaveFits(saving[c])
  /\ OneLive

\* No row, no dialog, no request.
LEMMA FormsBegin ==
  ASSUME FormConstantsOK, FormInit PROVE FormIInv
<1>1. Closed \in FormRec /\ Closed.made = {} /\ Closed.of = NULL /\ IdleSave \in SaveRec
      /\ IdleSave.op = "none" /\ ~IdleSave.live
  BY DEF Closed, FormRec, IdleSave, SaveRec
<1>2. table \in TableRec /\ \A r \in SettingsRow : table[r] = NULL
  BY DEF FormInit, TableRec
<1>3. [rows |-> table, refresh |-> FALSE] \in ShownRec
  BY <1>2 DEF ShownRec
<1>4. /\ \A t \in FormTab : form[t] = Closed /\ shownRows[t] = [rows |-> table, refresh |-> FALSE]
      /\ \A c \in SaveCall : saving[c] = IdleSave
  BY DEF FormInit
<1>5. /\ shownRows \in [FormTab -> ShownRec] /\ form \in [FormTab -> FormRec]
      /\ saving \in [SaveCall -> SaveRec]
  BY <1>1, <1>3 DEF FormInit
<1>6. \A t \in FormTab : DialogFits(form[t]) /\ ShownFits(shownRows[t])
  BY <1>1, <1>2, <1>4 DEF DialogFits, ShownFits, FormConstantsOK
<1>7. \A c \in SaveCall : SaveFits(saving[c])
  BY <1>1, <1>4 DEF SaveFits
<1>8. OneLive
  BY <1>1, <1>4 DEF OneLive
<1>. QED
  BY <1>2, <1>5, <1>6, <1>7, <1>8 DEF FormInit, FormIInv

\* The page is rendered, or one of its dialogs opens on what it shows.
LEMMA PageTurns ==
  ASSUME FormConstantsOK, FormIInv, NEW t \in FormTab, Rendered(t) \/ OpenAdd(t) \/ OpenEdit(t)
  PROVE  FormIInv'
<1>0. /\ UNCHANGED <<page, table, saving>> /\ table \in TableRec
      /\ form \in [FormTab -> FormRec] /\ shownRows \in [FormTab -> ShownRec]
      /\ saving \in [SaveCall -> SaveRec]
  BY DEF FormIInv, Rendered, OpenAdd, OpenEdit, Opened
<1>1. CASE Rendered(t)
  <2>. DEFINE p == [rows |-> table, refresh |-> FALSE]
  <2>1. p \in ShownRec /\ p.rows = table
    BY <1>0 DEF ShownRec
  <2>2. shownRows' = [shownRows EXCEPT ![t] = p] /\ UNCHANGED form
    BY <1>1 DEF Rendered
  <2>. HIDE DEF p
  <2>3. /\ shownRows' \in [FormTab -> ShownRec] /\ shownRows'[t] = p
        /\ \A u \in FormTab \ {t} : shownRows'[u] = shownRows[u]
    BY <1>0, <2>1, <2>2
  <2>4. \A u \in FormTab : ShownFits(shownRows[u])'
    BY <1>0, <2>1, <2>3 DEF FormIInv, ShownFits
  <2>. QED
    BY <1>0, <2>2, <2>3, <2>4 DEF FormIInv, DialogFits, SaveFits, OneLive
<1>2. ASSUME NEW r \in SettingsRow \cup {NewRow}, NEW name \in RowName \cup {NULL},
             Opened(t, r, name),
             page = "templates" /\ r \in SettingsRow => table[r] # NULL /\ name = table[r]
      PROVE  FormIInv'
  <2>. DEFINE d == [Closed EXCEPT !.of = r, !.name = name]
  <2>1. d \in FormRec /\ d.made = {} /\ d.of = r /\ d.name = name
    BY DEF Closed, FormRec
  <2>2. form' = [form EXCEPT ![t] = d] /\ UNCHANGED shownRows /\ form[t].of = NULL
    BY <1>2 DEF Opened
  <2>. HIDE DEF d
  <2>3. /\ form' \in [FormTab -> FormRec] /\ form'[t] = d
        /\ \A u \in FormTab \ {t} : form'[u] = form[u]
    BY <1>0, <2>1, <2>2
  <2>4. DialogFits(d)'
    BY <1>0, <1>2, <2>1 DEF DialogFits
  <2>5. \A u \in FormTab : DialogFits(form[u])' /\ ShownFits(shownRows[u])'
    BY <1>0, <2>2, <2>3, <2>4 DEF FormIInv, DialogFits, ShownFits
  <2>6. ASSUME NEW c \in SaveCall PROVE SaveFits(saving[c])'
    <3>1. SaveFits(saving[c]) /\ (saving[c].live => saving[c].by # t)
      <4>1. NewRow # NULL
        BY DEF FormConstantsOK
      <4>. QED
        BY <2>2, <4>1 DEF FormIInv, SaveFits, FormConstantsOK
    <3>. QED
      BY <1>0, <2>3, <3>1 DEF SaveFits
  <2>. QED
    BY <1>0, <2>2, <2>3, <2>5, <2>6 DEF FormIInv, OneLive
<1>3. CASE OpenAdd(t)
  BY <1>2, <1>3 DEF OpenAdd, FormConstantsOK
<1>4. CASE OpenEdit(t)
  <2>1. PICK r \in SettingsRow : shownRows[t].rows[r] # NULL /\ Opened(t, r, shownRows[t].rows[r])
    BY <1>4 DEF OpenEdit
  <2>2. shownRows[t].rows[r] \in RowName \cup {NULL}
    BY <1>0 DEF ShownRec, TableRec
  <2>3. page = "templates" => table[r] # NULL /\ shownRows[t].rows[r] = table[r]
    BY <2>1 DEF FormIInv, ShownFits
  <2>. QED
    BY <1>2, <2>1, <2>2, <2>3
<1>. QED
  BY <1>1, <1>3, <1>4

\* A request of another dialog, or of none, is left alone by a change of one dialog.
LEMMA DialogCloses ==
  ASSUME FormConstantsOK, FormIInv, NEW t \in FormTab, CloseDialog(t) PROVE FormIInv'
<1>0. /\ UNCHANGED <<page, table, shownRows>> /\ form \in [FormTab -> FormRec]
      /\ saving \in [SaveCall -> SaveRec] /\ \A c \in SaveCall : SaveFits(saving[c])
      /\ form' = [form EXCEPT ![t] = Closed] /\ saving' = Forgotten(t)
  BY DEF FormIInv, CloseDialog
<1>1. Closed \in FormRec /\ Closed.made = {} /\ Closed.of = NULL
  BY DEF Closed, FormRec
<1>2. /\ form' \in [FormTab -> FormRec] /\ form'[t] = Closed
      /\ \A u \in FormTab \ {t} : form'[u] = form[u]
  BY <1>0, <1>1
<1>3. ASSUME NEW c \in SaveCall
      PROVE  /\ saving'[c] \in SaveRec /\ saving'[c].op = saving[c].op /\ saving'[c].by = saving[c].by
             /\ saving'[c].of = saving[c].of /\ saving'[c].name = saving[c].name
             /\ saving'[c].at = saving[c].at
             /\ saving'[c].live => saving[c].live /\ saving[c].by # t
  <2>0. saving[c] \in SaveRec
    BY <1>0
  <2>1. CASE saving[c].by = t
    <3>1. saving'[c] = [saving[c] EXCEPT !.live = FALSE]
      BY <1>0, <2>1 DEF Forgotten
    <3>. QED
      BY <2>0, <3>1 DEF SaveRec
  <2>2. CASE saving[c].by # t
    BY <1>0, <2>0, <2>2 DEF Forgotten
  <2>. QED
    BY <2>1, <2>2
<1>4. saving' \in [SaveCall -> SaveRec]
  <2>1. saving' = [c \in SaveCall |-> saving'[c]]
    BY <1>0 DEF Forgotten
  <2>. QED
    BY <1>3, <2>1
<1>5. ASSUME NEW c \in SaveCall PROVE SaveFits(saving[c])'
  <2>1. SaveFits(saving[c])
    BY <1>0
  <2>2. saving[c].live => form'[saving[c].by] = form[saving[c].by] \/ saving[c].by = t
    BY <1>2, <2>1 DEF SaveFits
  <2>. QED
    BY <1>0, <1>3, <2>1, <2>2 DEF SaveFits
<1>6. OneLive'
  BY <1>3 DEF FormIInv, OneLive
<1>7. \A u \in FormTab : DialogFits(form[u])' /\ ShownFits(shownRows[u])'
  BY <1>0, <1>1, <1>2 DEF FormIInv, DialogFits, ShownFits, FormConstantsOK
<1>. QED
  BY <1>0, <1>2, <1>4, <1>5, <1>6, <1>7 DEF FormIInv

\* A request c goes on while the tables and the dialogs stay.
LEMMA SaveMoves ==
  ASSUME FormIInv, UNCHANGED <<page, table, form>>, NEW c \in SaveCall, NEW k \in SaveRec, SaveFits(k),
         k.live => saving[c].live /\ k.by = saving[c].by, saving' = [saving EXCEPT ![c] = k],
         shownRows' \in [FormTab -> ShownRec],
         \A t \in FormTab : shownRows'[t].rows = shownRows[t].rows
  PROVE  FormIInv'
<1>1. /\ saving' \in [SaveCall -> SaveRec] /\ saving'[c] = k
      /\ \A d \in SaveCall \ {c} : saving'[d] = saving[d]
  BY DEF FormIInv
<1>2. ASSUME NEW d \in SaveCall PROVE SaveFits(saving[d])'
  BY <1>1 DEF FormIInv, SaveFits
<1>3. OneLive'
  BY <1>1 DEF FormIInv, OneLive
<1>4. \A t \in FormTab : DialogFits(form[t])' /\ ShownFits(shownRows[t])'
  BY DEF FormIInv, DialogFits, ShownFits
<1>. QED
  BY <1>1, <1>2, <1>3, <1>4 DEF FormIInv

\* A button of a row, the checks of a route, a request that is lost, the answer to a button.
LEMMA SavesGoOn ==
  ASSUME FormConstantsOK, FormIInv, NEW c \in SaveCall,
         \/ \E t \in FormTab, r \in SettingsRow : PauseResume(t, c, r) \/ Deactivate(t, c, r)
         \/ CheckTarget(c) \/ CheckTemplate(c) \/ CheckSource(c) \/ LoseSave(c) \/ ToggleAnswered(c)
  PROVE  FormIInv'
<1>0. saving[c] \in SaveRec /\ SaveFits(saving[c]) /\ shownRows \in [FormTab -> ShownRec]
  BY DEF FormIInv
<1>1. ASSUME NEW t \in FormTab, NEW r \in SettingsRow, RowButton(t, c, r) PROVE FormIInv'
  <2>. DEFINE k == [IdleSave EXCEPT !.op = "toggle", !.by = t, !.of = r]
  <2>1. k \in SaveRec /\ k.op = "toggle" /\ k.by = t /\ k.of = r /\ ~k.live
    BY DEF IdleSave, SaveRec
  <2>2. saving' = [saving EXCEPT ![c] = k] /\ UNCHANGED <<page, table, form, shownRows>>
    BY <1>1 DEF RowButton
  <2>. HIDE DEF k
  <2>3. SaveFits(k)
    BY <2>1 DEF SaveFits
  <2>. QED
    BY <1>0, <2>1, <2>2, <2>3, SaveMoves
<1>2. ASSUME NEW at \in {"write", "refused", "lost"}, saving' = [saving EXCEPT ![c].at = at],
             at = "lost" \/ saving[c].at = "check", UNCHANGED <<page, table, form, shownRows>>
      PROVE  FormIInv'
  <2>. DEFINE k == [saving[c] EXCEPT !.at = at]
  <2>1. /\ k \in SaveRec /\ k.op = saving[c].op /\ k.by = saving[c].by /\ k.of = saving[c].of
        /\ k.name = saving[c].name /\ k.live = saving[c].live /\ k.at = at
    BY <1>0 DEF SaveRec
  <2>2. saving' = [saving EXCEPT ![c] = k]
    BY <1>2
  <2>. HIDE DEF k
  <2>3. SaveFits(k)
    BY <1>0, <1>2, <2>1 DEF SaveFits
  <2>. QED
    BY <1>0, <1>2, <2>1, <2>2, <2>3, SaveMoves
<1>3. CASE CheckTarget(c) \/ CheckTemplate(c) \/ CheckSource(c)
  <2>1. PICK mayWrite \in BOOLEAN : FormChecked(c, mayWrite)
    BY <1>3 DEF CheckTarget, CheckTemplate, CheckSource, SlugTaken
  <2>. QED
    BY <1>2, <2>1 DEF FormChecked
<1>4. CASE LoseSave(c)
  BY <1>2, <1>4 DEF LoseSave
<1>5. CASE ToggleAnswered(c)
  <2>1. IdleSave \in SaveRec /\ SaveFits(IdleSave) /\ ~IdleSave.live
    BY DEF IdleSave, SaveRec, SaveFits
  <2>2. saving' = [saving EXCEPT ![c] = IdleSave] /\ UNCHANGED <<page, table, form>>
    BY <1>5 DEF ToggleAnswered, Freed
  <2>3. /\ shownRows' \in [FormTab -> ShownRec]
        /\ \A t \in FormTab : shownRows'[t].rows = shownRows[t].rows
    <3>. DEFINE b == saving[c].by  p == [shownRows[b] EXCEPT !.refresh = TRUE]
    <3>1. b \in FormTab
      BY <1>0, <1>5 DEF SaveFits, ToggleAnswered, SaveOver
    <3>2. p \in ShownRec /\ p.rows = shownRows[b].rows
      BY <1>0, <3>1 DEF ShownRec
    <3>3. shownRows' = [shownRows EXCEPT ![b] = p] \/ shownRows' = shownRows
      BY <1>5 DEF ToggleAnswered
    <3>. HIDE DEF b, p
    <3>. QED
      BY <1>0, <3>1, <3>2, <3>3
  <2>. QED
    BY <2>1, <2>2, <2>3, SaveMoves
<1>. QED
  BY <1>1, <1>3, <1>4, <1>5 DEF PauseResume, Deactivate

\* A dialog sends what it shows, once at a time.
LEMMA FormSubmits ==
  ASSUME FormConstantsOK, FormIInv, NEW t \in FormTab, NEW c \in SaveCall, NEW name \in RowName,
         SubmitTarget(t, c, name) \/ SubmitTemplate(t, c, name) \/ SubmitSource(t, c, name)
  PROVE  FormIInv'
<1>. DEFINE new == form[t].of = NewRow
            d == [form[t] EXCEPT !.busy = TRUE]
            k == [op |-> IF new THEN "create" ELSE "edit", by |-> t, name |-> name,
                  of |-> IF new THEN NULL ELSE form[t].of, at |-> "check", live |-> TRUE]
<1>0. /\ form[t] \in FormRec /\ form \in [FormTab -> FormRec] /\ saving \in [SaveCall -> SaveRec]
      /\ DialogFits(form[t]) /\ \A e \in SaveCall : SaveFits(saving[e])
  BY DEF FormIInv
<1>1. /\ UNCHANGED <<page, table, shownRows>> /\ form' = [form EXCEPT ![t] = d]
      /\ saving' = [saving EXCEPT ![c] = k] /\ form[t].of # NULL /\ ~form[t].busy
  BY DEF SubmitTarget, SubmitTemplate, SubmitSource, SubmitForm
<1>2. /\ d \in FormRec /\ d.of = form[t].of /\ d.name = form[t].name /\ d.busy
      /\ d.made = form[t].made /\ d.unsure = form[t].unsure
  BY <1>0 DEF FormRec
<1>3. /\ k \in SaveRec /\ k.by = t /\ k.name = name /\ k.live /\ k.at = "check"
      /\ IF new THEN k.op = "create" ELSE k.op = "edit" /\ k.of = form[t].of /\ k.of \in SettingsRow
  <2>1. CASE new
    BY <2>1 DEF SaveRec
  <2>2. CASE ~new
    BY <1>0, <1>1, <2>2 DEF SaveRec, FormRec
  <2>. QED
    BY <2>1, <2>2
<1>4. page = "templates" /\ k.op = "edit" => table[k.of] = name
  BY <1>0, <1>3 DEF SubmitTarget, SubmitTemplate, SubmitSource, DialogFits
<1>. HIDE DEF d, k
<1>5. /\ form' \in [FormTab -> FormRec] /\ form'[t] = d
      /\ \A u \in FormTab \ {t} : form'[u] = form[u]
      /\ saving' \in [SaveCall -> SaveRec] /\ saving'[c] = k
      /\ \A e \in SaveCall \ {c} : saving'[e] = saving[e]
  BY <1>0, <1>1, <1>2, <1>3
<1>6. \A e \in SaveCall : saving[e].live => saving[e].by # t
  BY <1>0, <1>1 DEF SaveFits
<1>7. SaveFits(saving[c])'
  BY <1>0, <1>1, <1>2, <1>3, <1>4, <1>5 DEF SaveFits, DialogFits
<1>8. ASSUME NEW e \in SaveCall \ {c} PROVE SaveFits(saving[e])'
  BY <1>0, <1>1, <1>5, <1>6 DEF SaveFits
<1>9. OneLive'
  BY <1>3, <1>5, <1>6 DEF FormIInv, OneLive
<1>10. \A u \in FormTab : DialogFits(form[u])' /\ ShownFits(shownRows[u])'
  BY <1>0, <1>1, <1>2, <1>5 DEF FormIInv, DialogFits, ShownFits
<1>. QED
  BY <1>1, <1>5, <1>7, <1>8, <1>9, <1>10 DEF FormIInv

\* The write of a request: an INSERT fills a row that is not there, an edit of a template
\* stores the slug that is stored.
LEMMA SaveWritten ==
  ASSUME FormConstantsOK, FormIInv, NEW c \in SaveCall, WriteSave(c) PROVE FormIInv'
<1>0. /\ saving[c] \in SaveRec /\ SaveFits(saving[c]) /\ saving[c].at = "write" /\ table \in TableRec
      /\ UNCHANGED <<page, shownRows>> /\ saving \in [SaveCall -> SaveRec]
      /\ form \in [FormTab -> FormRec] /\ \A e \in SaveCall : SaveFits(saving[e])
  BY DEF FormIInv, WriteSave
<1>. DEFINE k(at) == [saving[c] EXCEPT !.at = at]
<1>1. ASSUME NEW at \in {"ok", "threw"}
      PROVE  /\ k(at) \in SaveRec /\ k(at).op = saving[c].op /\ k(at).by = saving[c].by
             /\ k(at).of = saving[c].of /\ k(at).name = saving[c].name
             /\ k(at).live = saving[c].live /\ k(at).at = at
  BY <1>0 DEF SaveRec
<1>2. CASE saving' = [saving EXCEPT ![c] = k("threw")] /\ UNCHANGED <<table, form>>
  <2>1. PICK q \in SaveRec : q = k("threw")
    BY <1>1
  <2>2. /\ q.op = saving[c].op /\ q.by = saving[c].by /\ q.of = saving[c].of
        /\ q.name = saving[c].name /\ q.live = saving[c].live /\ q.at = "threw"
    BY <1>1, <2>1
  <2>3. SaveFits(q) /\ saving' = [saving EXCEPT ![c] = q]
    BY <1>0, <1>2, <2>1, <2>2 DEF SaveFits
  <2>4. shownRows' \in [FormTab -> ShownRec]
    BY <1>0 DEF FormIInv
  <2>. HIDE DEF k
  <2>. QED
    BY <1>0, <1>2, <2>2, <2>3, <2>4, SaveMoves
<1>3. CASE saving' = [saving EXCEPT ![c] = k("ok")] /\ Updates(c)
  <2>1. PICK q \in SaveRec : q = k("ok")
    BY <1>1
  <2>2. /\ q.op = saving[c].op /\ q.by = saving[c].by /\ q.of = saving[c].of
        /\ q.name = saving[c].name /\ q.live = saving[c].live /\ q.at = "ok"
    BY <1>1, <2>1
  <2>3. saving' = [saving EXCEPT ![c] = q] /\ UNCHANGED form /\ q.op \in {"edit", "toggle"}
    BY <1>3, <2>1, <2>2 DEF Updates
  <2>. HIDE DEF k
  <2>4. /\ saving' \in [SaveCall -> SaveRec] /\ saving'[c] = q
        /\ \A e \in SaveCall \ {c} : saving'[e] = saving[e]
    BY <1>0, <2>3
  <2>5. table' \in TableRec /\ (page = "templates" => table' = table)
    BY <1>0, <1>3, <2>2, <2>3 DEF Updates, SaveFits, TableRec
  <2>6. ASSUME NEW e \in SaveCall PROVE SaveFits(saving[e])'
    <3>0. SaveFits(saving[e])
      BY <1>0
    <3>1. CASE e = c
      BY <1>0, <2>2, <2>3, <2>4, <2>5, <3>0, <3>1 DEF SaveFits
    <3>2. CASE e # c
      BY <1>0, <2>3, <2>4, <2>5, <3>0, <3>2 DEF SaveFits
    <3>. QED
      BY <3>1, <3>2
  <2>7. OneLive'
    BY <2>2, <2>4 DEF FormIInv, OneLive
  <2>8. \A t \in FormTab : DialogFits(form[t])' /\ ShownFits(shownRows[t])'
    BY <1>0, <2>3, <2>5 DEF FormIInv, DialogFits, ShownFits
  <2>. QED
    BY <1>0, <2>3, <2>4, <2>5, <2>6, <2>7, <2>8 DEF FormIInv
<1>4. ASSUME NEW r \in SettingsRow, saving' = [saving EXCEPT ![c] = k("ok")], InsertsRow(c, r)
      PROVE  FormIInv'
  <2>1. PICK q \in SaveRec : q = k("ok")
    BY <1>1
  <2>2. /\ q.op = saving[c].op /\ q.by = saving[c].by /\ q.of = saving[c].of
        /\ q.name = saving[c].name /\ q.live = saving[c].live /\ q.at = "ok" /\ q.op = "create"
    BY <1>1, <1>4, <2>1 DEF InsertsRow
  <2>. DEFINE b == saving[c].by
  <2>3. /\ saving' = [saving EXCEPT ![c] = q] /\ table[r] = NULL
        /\ table' = [table EXCEPT ![r] = saving[c].name]
        /\ form' = [t \in FormTab |-> IF t = b /\ saving[c].live
                                      THEN [form[t] EXCEPT !.made = @ \cup {r}] ELSE form[t]]
    BY <1>4, <2>1 DEF InsertsRow
  <2>. HIDE DEF k, b
  <2>4. /\ saving' \in [SaveCall -> SaveRec] /\ saving'[c] = q
        /\ \A e \in SaveCall \ {c} : saving'[e] = saving[e]
    BY <1>0, <2>3
  <2>5. /\ table' \in TableRec /\ table'[r] \in RowName
        /\ \A o \in SettingsRow \ {r} : table'[o] = table[o]
    BY <1>0, <2>2, <2>3 DEF SaveFits, TableRec
  <2>6. ASSUME NEW t \in FormTab
        PROVE  /\ form'[t] \in FormRec /\ form'[t].of = form[t].of /\ form'[t].name = form[t].name
               /\ form'[t].busy = form[t].busy /\ form'[t].unsure = form[t].unsure
               /\ IF t = b /\ saving[c].live THEN form'[t].made = form[t].made \cup {r}
                                            ELSE form'[t].made = form[t].made
    <3>0. form[t] \in FormRec
      BY <1>0
    <3>1. CASE t = b /\ saving[c].live
      <4>1. form'[t] = [form[t] EXCEPT !.made = @ \cup {r}]
        BY <2>3, <3>1
      <4>. QED
        BY <3>0, <3>1, <4>1 DEF FormRec
    <3>2. CASE ~(t = b /\ saving[c].live)
      BY <2>3, <3>0, <3>2
    <3>. QED
      BY <3>1, <3>2
  <2>7. form' \in [FormTab -> FormRec]
    <3>1. form' = [t \in FormTab |-> form'[t]]
      BY <2>3
    <3>. QED
      BY <2>6, <3>1
  <2>8. ASSUME NEW t \in FormTab PROVE DialogFits(form[t])' /\ ShownFits(shownRows[t])'
    <3>0. DialogFits(form[t]) /\ ShownFits(shownRows[t])
      BY DEF FormIInv
    <3>1. t = b /\ saving[c].live => form[t].busy /\ (form[t].made = {} \/ form[t].unsure)
      BY <1>0, <2>2 DEF SaveFits, b
    <3>2. form'[t].made = {} \/ form'[t].unsure \/ (form'[t].busy /\ \E o \in SettingsRow : form'[t].made = {o})
      BY <2>6, <3>0, <3>1 DEF DialogFits
    <3>3. DialogFits(form[t])'
      <4>1. form'[t].of \in SettingsRow /\ table[form[t].of] # NULL => table'[form'[t].of] = table[form[t].of]
        BY <2>3, <2>5, <2>6
      <4>2. UNCHANGED page
        BY <1>0
      <4>. QED
        BY <2>6, <3>0, <3>2, <4>1, <4>2 DEF DialogFits
    <3>4. ShownFits(shownRows[t])'
      BY <1>0, <2>3, <2>5, <3>0 DEF ShownFits
    <3>. QED
      BY <3>3, <3>4
  <2>9. ASSUME NEW e \in SaveCall PROVE SaveFits(saving[e])'
    <3>0. SaveFits(saving[e])
      BY <1>0
    <3>1. CASE e = c
      BY <1>0, <2>2, <2>4, <2>6, <3>0, <3>1 DEF SaveFits
    <3>2. CASE e # c
      <4>1. page = "templates" /\ saving[e].op = "edit" => table'[saving[e].of] = saving[e].name
        BY <2>3, <2>5, <3>0 DEF SaveFits, FormConstantsOK
      <4>2. ~(saving[e].live /\ saving[c].live /\ saving[e].by = b)
        BY <3>2 DEF FormIInv, OneLive, b
      <4>. QED
        BY <1>0, <2>4, <2>6, <3>0, <3>2, <4>1, <4>2 DEF SaveFits
    <3>. QED
      BY <3>1, <3>2
  <2>10. OneLive'
    BY <2>2, <2>4 DEF FormIInv, OneLive
  <2>. QED
    BY <1>0, <2>4, <2>5, <2>7, <2>8, <2>9, <2>10 DEF FormIInv
<1>. QED
  BY <1>2, <1>3, <1>4 DEF WriteSave

\* A success closes the dialog of its row, whichever it is; an error frees the one that awaits it.
LEMMA SavesEnd ==
  ASSUME FormConstantsOK, FormIInv, NEW c \in SaveCall, SaveSucceeds(c) \/ SaveFails(c)
  PROVE  FormIInv'
<1>. DEFINE t == saving[c].by
<1>0. /\ saving[c] \in SaveRec /\ SaveFits(saving[c]) /\ t \in FormTab
      /\ UNCHANGED <<page, table>> /\ saving \in [SaveCall -> SaveRec] /\ form \in [FormTab -> FormRec]
      /\ shownRows \in [FormTab -> ShownRec] /\ \A e \in SaveCall : SaveFits(saving[e])
      /\ form[t] \in FormRec /\ DialogFits(form[t])
  BY DEF FormIInv, SaveSucceeds, SaveFails, SaveOver, SaveFits
<1>1. IdleSave \in SaveRec /\ IdleSave.op = "none" /\ ~IdleSave.live /\ SaveFits(IdleSave)
  BY DEF IdleSave, SaveRec, SaveFits
<1>2. /\ shownRows' \in [FormTab -> ShownRec]
      /\ \A u \in FormTab : shownRows'[u].rows = shownRows[u].rows
  <2>. DEFINE p == [shownRows[t] EXCEPT !.refresh = TRUE]
  <2>1. p \in ShownRec /\ p.rows = shownRows[t].rows
    BY <1>0 DEF ShownRec
  <2>2. shownRows' = [shownRows EXCEPT ![t] = p] \/ shownRows' = shownRows
    BY DEF SaveSucceeds, SaveFails
  <2>. HIDE DEF t, p
  <2>. QED
    BY <1>0, <2>1, <2>2
<1>3. CASE SaveSucceeds(c) /\ form[t].of # IF saving[c].op = "create" THEN NewRow ELSE saving[c].of
  <2>1. UNCHANGED form /\ saving' = [e \in SaveCall |-> IF e = c THEN IdleSave ELSE saving[e]]
    BY <1>3 DEF SaveSucceeds
  <2>2. saving' = [saving EXCEPT ![c] = IdleSave]
    BY <1>0, <2>1
  <2>. QED
    BY <1>0, <1>1, <1>2, <2>1, <2>2, SaveMoves
<1>4. CASE SaveSucceeds(c) /\ form[t].of = IF saving[c].op = "create" THEN NewRow ELSE saving[c].of
  <2>1. /\ form' = [form EXCEPT ![t] = Closed]
        /\ saving' = [e \in SaveCall |-> IF e = c THEN IdleSave ELSE Forgotten(t)[e]]
    BY <1>4 DEF SaveSucceeds
  <2>. HIDE DEF t
  <2>2. Closed \in FormRec /\ Closed.made = {} /\ Closed.of = NULL
    BY DEF Closed, FormRec
  <2>3. /\ form' \in [FormTab -> FormRec] /\ form'[t] = Closed
        /\ \A u \in FormTab \ {t} : form'[u] = form[u]
    BY <1>0, <2>1, <2>2
  <2>4. ASSUME NEW e \in SaveCall \ {c}
        PROVE  /\ saving'[e] \in SaveRec /\ saving'[e].op = saving[e].op /\ saving'[e].by = saving[e].by
               /\ saving'[e].of = saving[e].of /\ saving'[e].name = saving[e].name
               /\ saving'[e].at = saving[e].at
               /\ saving'[e].live => saving[e].live /\ saving[e].by # t
    <3>0. saving[e] \in SaveRec
      BY <1>0
    <3>1. CASE saving[e].by = t
      <4>1. saving'[e] = [saving[e] EXCEPT !.live = FALSE]
        BY <2>1, <3>1 DEF Forgotten
      <4>. QED
        BY <3>0, <4>1 DEF SaveRec
    <3>2. CASE saving[e].by # t
      BY <2>1, <3>0, <3>2 DEF Forgotten
    <3>. QED
      BY <3>1, <3>2
  <2>5. saving'[c] = IdleSave
    BY <2>1
  <2>6. saving' \in [SaveCall -> SaveRec]
    <3>1. saving' = [e \in SaveCall |-> saving'[e]]
      BY <2>1
    <3>. QED
      BY <1>1, <2>4, <2>5, <3>1
  <2>7. SaveFits(saving[c])'
    BY <1>1, <2>5 DEF SaveFits
  <2>8. ASSUME NEW e \in SaveCall \ {c} PROVE SaveFits(saving[e])'
    <3>1. SaveFits(saving[e])
      BY <1>0
    <3>2. saving[e].live => form'[saving[e].by] = form[saving[e].by] \/ saving[e].by = t
      BY <2>3, <3>1 DEF SaveFits
    <3>. QED
      BY <1>0, <2>4, <3>1, <3>2 DEF SaveFits
  <2>9. OneLive'
    BY <1>1, <2>4, <2>5 DEF FormIInv, OneLive
  <2>10. \A u \in FormTab : DialogFits(form[u])' /\ ShownFits(shownRows[u])'
    BY <1>0, <1>2, <2>2, <2>3 DEF FormIInv, DialogFits, ShownFits, FormConstantsOK
  <2>. QED
    BY <1>0, <1>2, <2>3, <2>6, <2>7, <2>8, <2>9, <2>10 DEF FormIInv
<1>5. CASE SaveFails(c)
  <2>1. /\ saving' = [saving EXCEPT ![c] = IdleSave] /\ saving[c].op # "toggle" /\ saving[c].at # "ok"
    BY <1>5 DEF SaveFails, Freed
  <2>2. CASE ~saving[c].live
    <3>1. UNCHANGED form
      BY <1>5, <2>2 DEF SaveFails
    <3>. QED
      BY <1>0, <1>1, <1>2, <2>1, <3>1, SaveMoves
  <2>3. CASE saving[c].live
    <3>. DEFINE d == [form[t] EXCEPT !.busy = FALSE, !.unsure = @ \/ saving[c].at = "lost"]
    <3>1. form' = [form EXCEPT ![t] = d]
      BY <1>5, <2>3 DEF SaveFails
    <3>2. /\ d \in FormRec /\ d.of = form[t].of /\ d.name = form[t].name /\ d.made = form[t].made
          /\ ~d.busy /\ d.unsure = (form[t].unsure \/ saving[c].at = "lost")
      BY <1>0 DEF FormRec
    <3>3. d.made = {} \/ d.unsure
      BY <1>0, <2>1, <2>3, <3>2 DEF SaveFits
    <3>4. \A e \in SaveCall \ {c} : saving[e].live => saving[e].by # t
      BY <2>3 DEF FormIInv, OneLive
    <3>. HIDE DEF t, d
    <3>5. /\ form' \in [FormTab -> FormRec] /\ form'[t] = d
          /\ \A u \in FormTab \ {t} : form'[u] = form[u]
          /\ saving' \in [SaveCall -> SaveRec] /\ saving'[c] = IdleSave
          /\ \A e \in SaveCall \ {c} : saving'[e] = saving[e]
      BY <1>0, <1>1, <2>1, <3>1, <3>2
    <3>6. SaveFits(saving[c])'
      BY <1>1, <3>5 DEF SaveFits
    <3>7. ASSUME NEW e \in SaveCall \ {c} PROVE SaveFits(saving[e])'
      BY <1>0, <3>4, <3>5 DEF SaveFits
    <3>8. OneLive'
      BY <1>1, <3>5 DEF FormIInv, OneLive
    <3>9. \A u \in FormTab : DialogFits(form[u])' /\ ShownFits(shownRows[u])'
      BY <1>0, <1>2, <3>2, <3>3, <3>5 DEF FormIInv, DialogFits, ShownFits
    <3>. QED
      BY <1>0, <1>2, <3>5, <3>6, <3>7, <3>8, <3>9 DEF FormIInv
  <2>. QED
    BY <2>2, <2>3
<1>. QED
  BY <1>3, <1>4, <1>5

\* Every step of the dialogs.
LEMMA FormsGo ==
  ASSUME FormConstantsOK, FormIInv, [FormNext]_formVars PROVE FormIInv'
<1>1. CASE UNCHANGED formVars
  BY <1>1 DEF FormIInv, formVars, DialogFits, ShownFits, SaveFits, OneLive
<1>2. ASSUME NEW t \in FormTab,
             \/ Rendered(t) \/ OpenAdd(t) \/ OpenEdit(t) \/ CloseDialog(t)
             \/ \E c \in SaveCall : \/ \E r \in SettingsRow : PauseResume(t, c, r) \/ Deactivate(t, c, r)
                                    \/ \E name \in RowName : \/ SubmitTarget(t, c, name)
                                                             \/ SubmitTemplate(t, c, name)
                                                             \/ SubmitSource(t, c, name)
      PROVE  FormIInv'
  <2>1. ASSUME NEW c \in SaveCall, NEW name \in RowName,
               SubmitTarget(t, c, name) \/ SubmitTemplate(t, c, name) \/ SubmitSource(t, c, name)
        PROVE  FormIInv'
    BY <2>1, FormSubmits
  <2>2. ASSUME NEW c \in SaveCall, \E r \in SettingsRow : PauseResume(t, c, r) \/ Deactivate(t, c, r)
        PROVE  FormIInv'
    BY <2>2, SavesGoOn
  <2>3. CASE Rendered(t) \/ OpenAdd(t) \/ OpenEdit(t)
    BY <2>3, PageTurns
  <2>4. CASE CloseDialog(t)
    BY <2>4, DialogCloses
  <2>. QED
    BY <1>2, <2>1, <2>2, <2>3, <2>4
<1>3. ASSUME NEW c \in SaveCall,
             \/ CheckTarget(c) \/ CheckTemplate(c) \/ CheckSource(c) \/ WriteSave(c) \/ LoseSave(c)
             \/ SaveSucceeds(c) \/ SaveFails(c) \/ ToggleAnswered(c)
      PROVE  FormIInv'
  <2>1. CASE WriteSave(c)
    BY <2>1, SaveWritten
  <2>2. CASE SaveSucceeds(c) \/ SaveFails(c)
    BY <2>2, SavesEnd
  <2>. QED
    BY <1>3, <2>1, <2>2, SavesGoOn
<1>4. CASE FormNext
  BY <1>2, <1>3, <1>4 DEF FormNext
<1>. QED
  BY <1>1, <1>4

\* What the run checks follows.
LEMMA FormsFit ==
  ASSUME FormConstantsOK, FormIInv PROVE FormsInv
<1>1. FormTypeOK
  BY DEF FormIInv, FormTypeOK, TableRec, ShownRec, FormRec, SaveRec
<1>2. CreatedOnce
  <2>1. ASSUME NEW t \in FormTab, ~form[t].unsure PROVE ~(Cardinality(form[t].made) > 1)
    <3>1. form[t].made = {} \/ \E r \in SettingsRow : form[t].made = {r}
      BY <2>1 DEF FormIInv, DialogFits
    <3>2. Cardinality({}) = 0 /\ \A r \in SettingsRow : Cardinality({r}) = 1
      BY FS_EmptySet, FS_Singleton
    <3>3. Cardinality(form[t].made) \in {0, 1}
      BY <3>1, <3>2
    <3>. QED
      BY <3>3
  <2>. QED
    BY <2>1 DEF CreatedOnce
<1>3. SlugsStay
  BY DEF FormIInv, SlugsStay, DialogFits, ShownFits
<1>. QED
  BY <1>1, <1>2, <1>3 DEF FormsInv

\* A dialog stores one row however often it is sent, unless an answer was lost, and the slug of
\* a template never changes under a page or a dialog, however old (TargetForm.tsx,
\* TemplateForm.tsx, templates-repo.ts).
THEOREM DialogsStoreOnce ==
  ASSUME FormConstantsOK
  PROVE  FormInit /\ [][FormNext]_formVars => []FormsInv
<1>1. FormInit => FormIInv
  BY FormsBegin
<1>2. FormIInv /\ [FormNext]_formVars => FormIInv'
  BY FormsGo
<1>3. FormIInv => FormsInv
  BY FormsFit
<1>. QED
  BY <1>1, <1>2, <1>3, PTL

-----------------------------------------------------------------------------
(* The pages of invites and tokens.                                        *)

RefreshRec == [wanted : BOOLEAN, read : [Slip -> Slips] \cup {NULL}]
DialogRec == [open : BOOLEAN, mode : {"form", "share"}, code : Slip \cup {NULL}, island : BOOLEAN]
CardRec == [token : Slip \cup {NULL}, copied : BOOLEAN, timers : Nat]
ErrandRec == [at : {"idle", "sent", "looked", "done", "refused", "over"},
              op : RowOp \cup {"clean", "issue", NULL}, of : Slip \cup {NULL},
              warned : BOOLEAN, page : BOOLEAN, button : BOOLEAN]

\* A request that works on a row has one.
ErrandFits(k) == k.at \in {"sent", "looked", "done", "refused"} =>
  /\ k.op \in RowOp => k.of \in Slip
  /\ k.at = "looked" => k.op \in RowOp
\* A form awaits the request that k is.
Awaits(k) == k.at \in {"sent", "looked", "done", "refused"} /\ k.op = "issue" /\ k.button

PanelTypes ==
  /\ panel \in PanelKind /\ slips \in [Slip -> Slips] /\ list \in [Slip -> Slips]
  /\ refresh \in RefreshRec /\ dialog \in DialogRec /\ card \in CardRec
  /\ errand \in [Errand -> ErrandRec]
  /\ elsewhere \in 0..LastElse /\ stale \in BOOLEAN /\ unwarned \subseteq Slip
ErrandsFit == \A a \in Errand : ErrandFits(errand[a])
\* A form that is awaited is there, one at a time; the pane with the code is in a dialog.
DialogTrue ==
  /\ \A a, b \in Errand : Awaits(errand[a]) /\ Awaits(errand[b]) => a = b
  /\ dialog.mode = "share" => dialog.open
  /\ panel # "tokens" => \A a \in Errand : Awaits(errand[a]) => dialog.open /\ dialog.mode = "form"
\* What was written here is about to be fetched, or the list or the refresh under way has it.
Fetching == \E a \in Errand : errand[a].at = "done" /\ errand[a].page
RestExcused ==
  \/ stale \/ refresh.wanted \/ dialog.mode = "share" \/ Fetching
  \/ IF refresh.read = NULL THEN list = slips ELSE refresh.read = slips
PanelIInv == PanelTypes /\ ErrandsFit /\ DialogTrue /\ RestExcused

\* An empty table, shown.
LEMMA PanelBegins ==
  ASSUME PanelConstantsOK, PanelInit PROVE PanelIInv
<1>1. NoSlip \in Slips /\ NoRefresh \in RefreshRec /\ NoDialog \in DialogRec /\ NoCard \in CardRec
      /\ NoErrand \in ErrandRec /\ NoErrand.at = "idle" /\ NoDialog.mode = "form" /\ NoRefresh.read = NULL
  BY DEF NoSlip, Slips, NoRefresh, RefreshRec, NoDialog, DialogRec, NoCard, CardRec, NoErrand, ErrandRec
<1>2. PanelTypes
  <2>1. /\ slips \in [Slip -> Slips] /\ list \in [Slip -> Slips] /\ errand \in [Errand -> ErrandRec]
    BY <1>1 DEF PanelInit
  <2>2. elsewhere \in 0..LastElse /\ stale \in BOOLEAN /\ unwarned \subseteq Slip
    <3>1. LastElse \in Nat
      BY DEF PanelConstantsOK
    <3>2. elsewhere = 0 /\ stale = FALSE /\ unwarned = {}
      BY DEF PanelInit
    <3>3. elsewhere \in 0..LastElse
      BY <3>1, <3>2
    <3>4. stale \in BOOLEAN
      BY <3>2
    <3>. QED
      BY <3>2, <3>3, <3>4
  <2>3. refresh \in RefreshRec /\ dialog \in DialogRec /\ card \in CardRec /\ panel \in PanelKind
    BY <1>1 DEF PanelInit
  <2>. QED
    BY <2>1, <2>2, <2>3 DEF PanelTypes
<1>3. \A a \in Errand : errand[a].at = "idle"
  BY <1>1 DEF PanelInit
<1>4. ErrandsFit /\ DialogTrue
  BY <1>1, <1>3 DEF PanelInit, ErrandsFit, ErrandFits, DialogTrue, Awaits
<1>5. RestExcused
  BY <1>1 DEF PanelInit, RestExcused
<1>. QED
  BY <1>2, <1>4, <1>5 DEF PanelIInv

\* One request turns to k, and no form begins to await it.
LEMMA ErrandTurns ==
  ASSUME PanelIInv, NEW a \in Errand, NEW k \in ErrandRec, ErrandFits(k), errand' = [errand EXCEPT ![a] = k]
  PROVE  /\ errand' \in [Errand -> ErrandRec] /\ errand'[a] = k
         /\ \A b \in Errand \ {a} : errand'[b] = errand[b]
         /\ ErrandsFit'
         /\ UNCHANGED <<panel, dialog>> /\ (Awaits(k) => Awaits(errand[a])) => DialogTrue'
         /\ errand[a].at # "done" /\ Fetching => Fetching'
<1>1. /\ errand' \in [Errand -> ErrandRec] /\ errand'[a] = k
      /\ \A b \in Errand \ {a} : errand'[b] = errand[b]
  BY DEF PanelIInv, PanelTypes
<1>2. ErrandsFit'
  BY <1>1 DEF PanelIInv, ErrandsFit, ErrandFits
<1>3. ASSUME UNCHANGED <<panel, dialog>>, Awaits(k) => Awaits(errand[a]) PROVE DialogTrue'
  <2>1. ASSUME NEW b \in Errand PROVE Awaits(errand[b])' => Awaits(errand[b])
    BY <1>1, <1>3 DEF Awaits
  <2>. QED
    BY <1>3, <2>1 DEF PanelIInv, DialogTrue
<1>4. ASSUME errand[a].at # "done", Fetching PROVE Fetching'
  BY <1>1, <1>4 DEF Fetching
<1>. QED
  BY <1>1, <1>2, <1>3, <1>4

\* Buttons that go away: every request stays what it is.
LEMMA ButtonsGo ==
  ASSUME PanelIInv, errand' \in [Errand -> ErrandRec],
         \A a \in Errand : /\ errand'[a].at = errand[a].at /\ errand'[a].op = errand[a].op
                           /\ errand'[a].of = errand[a].of
                           /\ errand'[a].button => errand[a].button
  PROVE  /\ ErrandsFit'
         /\ \A a \in Errand : Awaits(errand[a])' => Awaits(errand[a])
BY DEF PanelIInv, ErrandsFit, ErrandFits, Awaits

\* A button of the list is pressed: the request is sent.
LEMMA PanelPressed ==
  ASSUME PanelConstantsOK, PanelIInv, NEW a \in Errand, NEW op \in RowOp \cup {"clean"},
         NEW i \in Slip \cup {NULL}, op \in RowOp => i \in Slip, NEW warned \in BOOLEAN, Press(a, op, i, warned)
  PROVE  PanelIInv'
<1>. DEFINE k == [at |-> "sent", op |-> op, of |-> i, warned |-> panel = "forum" /\ warned,
                  page |-> TRUE, button |-> TRUE]
<1>1. k \in ErrandRec /\ ErrandFits(k) /\ ~Awaits(k)
  <2>1. (panel = "forum" /\ warned) \in BOOLEAN
    OBVIOUS
  <2>2. k \in ErrandRec
    BY <2>1, Zenon DEF ErrandRec
  <2>. QED
    BY <2>2 DEF ErrandFits, Awaits, RowOp
<1>2. /\ errand' = [errand EXCEPT ![a] = k] /\ errand[a].at = "idle"
      /\ UNCHANGED <<panel, slips, list, refresh, dialog, card, elsewhere, stale, unwarned>>
  BY DEF Press
<1>. HIDE DEF k
<1>3. /\ errand' \in [Errand -> ErrandRec] /\ ErrandsFit' /\ DialogTrue' /\ (Fetching => Fetching')
  BY <1>1, <1>2, ErrandTurns
<1>. QED
  BY <1>2, <1>3 DEF PanelIInv, PanelTypes, RestExcused

\* The form posts a row, once at a time.
LEMMA PanelSubmits ==
  ASSUME PanelConstantsOK, PanelIInv, NEW a \in Errand,
         SubmitForum(a) \/ SubmitAgent(a) \/ SubmitDashboard(a) \/ SubmitToken(a)
  PROVE  PanelIInv'
<1>. DEFINE k == [at |-> "sent", op |-> "issue", of |-> NULL, warned |-> FALSE,
                  page |-> TRUE, button |-> TRUE]
<1>1. k \in ErrandRec /\ ErrandFits(k)
  BY DEF ErrandRec, ErrandFits, RowOp
<1>2. /\ errand' = [errand EXCEPT ![a] = k] /\ errand[a].at = "idle" /\ ~Saving
      /\ dialog.open /\ dialog.mode = "form"
      /\ UNCHANGED <<panel, slips, list, refresh, dialog, card, elsewhere, stale, unwarned>>
  BY DEF SubmitForum, SubmitAgent, SubmitDashboard, SubmitToken, SubmitInvite
<1>. HIDE DEF k
<1>3. /\ errand' \in [Errand -> ErrandRec] /\ ErrandsFit' /\ (Fetching => Fetching')
      /\ \A b \in Errand \ {a} : errand'[b] = errand[b]
  BY <1>1, <1>2, ErrandTurns
<1>4. \A b \in Errand : ~Awaits(errand[b])
  BY <1>2 DEF Saving, UnderWay, Awaits
<1>5. \A b \in Errand \ {a} : ~Awaits(errand[b])'
  BY <1>3, <1>4 DEF Awaits
<1>6. DialogTrue'
  BY <1>2, <1>5 DEF PanelIInv, DialogTrue
<1>. QED
  BY <1>2, <1>3, <1>6 DEF PanelIInv, PanelTypes, RestExcused

\* The server reads the row of a request, or refuses it.
LEMMA PanelLooks ==
  ASSUME PanelConstantsOK, PanelIInv, NEW a \in Errand,
         LookUpForum(a) \/ LookUpAgent(a) \/ LookUpDashboard(a) \/ LookUpToken(a) \/ Refuse(a)
  PROVE  PanelIInv'
<1>0. errand[a] \in ErrandRec /\ ErrandFits(errand[a]) /\ errand[a].at \in {"sent", "looked"}
  BY DEF PanelIInv, PanelTypes, ErrandsFit, LookUpForum, LookUpAgent, LookUpDashboard, LookUpToken, LookUp, Refuse
<1>1. ASSUME NEW stage \in {"looked", "done", "refused"}, Finds(a, stage),
             stage = "looked" => errand[a].op \in RowOp
      PROVE  PanelIInv'
  <2>. DEFINE k == [errand[a] EXCEPT !.at = stage]
  <2>1. /\ k \in ErrandRec /\ k.at = stage /\ k.op = errand[a].op /\ k.of = errand[a].of
        /\ k.button = errand[a].button
    BY <1>0 DEF ErrandRec
  <2>2. /\ errand' = [errand EXCEPT ![a] = k]
        /\ UNCHANGED <<panel, slips, list, refresh, dialog, card, elsewhere, stale, unwarned>>
    BY <1>1 DEF Finds, Goes, Alone
  <2>. HIDE DEF k
  <2>3. ErrandFits(k) /\ (Awaits(k) => Awaits(errand[a]))
    BY <1>0, <1>1, <2>1 DEF ErrandFits, Awaits
  <2>4. /\ errand' \in [Errand -> ErrandRec] /\ ErrandsFit' /\ DialogTrue' /\ (Fetching => Fetching')
    BY <1>0, <2>1, <2>2, <2>3, ErrandTurns
  <2>. QED
    BY <2>2, <2>4 DEF PanelIInv, PanelTypes, RestExcused
<1>2. CASE Refuse(a)
  BY <1>1, <1>2 DEF Refuse
<1>3. CASE LookUp(a)
  <2>1. errand[a].op \in RowOp
    BY <1>3 DEF LookUp
  <2>2. PICK stage \in {"looked", "done", "refused"} : Finds(a, stage)
    <3>1. CASE slips[errand[a].of].at = "none" /\ Finds(a, "refused")
      BY <3>1
    <3>2. CASE slips[errand[a].of].at = "issued" /\ ~(slips[errand[a].of].at = "none")
      BY <1>3, <2>1, <3>2 DEF LookUp, RowOp
    <3>. QED
      BY <1>3, <3>1, <3>2 DEF LookUp
  <2>. QED
    BY <1>1, <2>1, <2>2
<1>. QED
  BY <1>2, <1>3 DEF LookUpForum, LookUpAgent, LookUpDashboard, LookUpToken

\* The table is written: the page is told, or will not fetch it.
LEMMA PanelWrites ==
  ASSUME PanelConstantsOK, PanelIInv, NEW a \in Errand,
         \/ WriteRow(a) \/ Clean(a)
         \/ \E i \in Slip : InsertForum(a, i) \/ InsertAgent(a, i) \/ InsertDashboard(a, i) \/ InsertToken(a, i)
  PROVE  PanelIInv'
<1>0. /\ errand[a] \in ErrandRec /\ ErrandFits(errand[a]) /\ errand[a].at \in {"sent", "looked"}
      /\ slips \in [Slip -> Slips] /\ NoSlip \in Slips /\ NewSlip \in Slips
  BY DEF PanelIInv, PanelTypes, ErrandsFit, WriteRow, Clean, InsertForum, InsertAgent, InsertDashboard,
         InsertToken, InsertRow, NoSlip, NewSlip, Slips
<1>1. ASSUME NEW k \in ErrandRec, errand' = [errand EXCEPT ![a] = k], k.at = "done", k.op = errand[a].op,
             k.op \in RowOp => k.of \in Slip, k.button = errand[a].button, k.page = errand[a].page,
             slips' \in [Slip -> Slips], stale' = (stale \/ ~errand[a].page), unwarned' \subseteq Slip, Alone
      PROVE  PanelIInv'
  <2>1. ErrandFits(k) /\ (Awaits(k) => Awaits(errand[a]))
    BY <1>0, <1>1 DEF ErrandFits, Awaits
  <2>2. UNCHANGED <<panel, list, refresh, dialog, card, elsewhere>>
    BY <1>1 DEF Alone
  <2>3. /\ errand' \in [Errand -> ErrandRec] /\ ErrandsFit' /\ DialogTrue' /\ errand'[a] = k
    BY <1>1, <2>1, <2>2, ErrandTurns
  <2>4. stale' \in BOOLEAN /\ (stale' \/ Fetching')
    BY <1>0, <1>1, <2>3 DEF Fetching, ErrandRec
  <2>. QED
    BY <1>1, <2>2, <2>3, <2>4 DEF PanelIInv, PanelTypes, RestExcused
<1>2. ASSUME NEW rows \in [Slip -> Slips], Writes(a, rows) PROVE PanelIInv'
  <2>. DEFINE k == [errand[a] EXCEPT !.at = "done"]
  <2>1. /\ k \in ErrandRec /\ k.at = "done" /\ k.op = errand[a].op /\ k.of = errand[a].of
        /\ k.button = errand[a].button /\ k.page = errand[a].page
    BY <1>0 DEF ErrandRec
  <2>2. /\ errand' = [errand EXCEPT ![a] = k] /\ slips' = rows /\ stale' = (stale \/ ~errand[a].page) /\ Alone
    BY <1>2 DEF Writes, Goes
  <2>3. unwarned' \subseteq Slip
    BY <1>2 DEF Writes, PanelIInv, PanelTypes
  <2>4. k.op \in RowOp => k.of \in Slip
    BY <1>0, <2>1 DEF ErrandFits
  <2>. HIDE DEF k
  <2>. QED
    BY <1>1, <2>1, <2>2, <2>3, <2>4
<1>3. CASE WriteRow(a)
  <2>. DEFINE i == errand[a].of  op == errand[a].op
              rows == IF ~Issued(i) THEN slips
                      ELSE CASE op = "revoke" -> [slips EXCEPT ![i].revoked = TRUE]
                             [] op = "unrevoke" -> [slips EXCEPT ![i].revoked = FALSE]
                             [] op = "delete" -> [slips EXCEPT ![i] = NoSlip]
                             [] op = "revokeToken" -> [slips EXCEPT ![i].token = "revoked"]
  <2>1. op \in RowOp /\ i \in Slip /\ slips[i] \in Slips
    BY <1>0, <1>3 DEF WriteRow, ErrandFits
  <2>2. /\ [slips[i] EXCEPT !.revoked = TRUE] \in Slips /\ [slips[i] EXCEPT !.revoked = FALSE] \in Slips
        /\ [slips[i] EXCEPT !.token = "revoked"] \in Slips
    BY <2>1 DEF Slips
  <2>3. \A row \in Slips : [slips EXCEPT ![i] = row] \in [Slip -> Slips]
    BY <1>0, <2>1
  <2>4. rows \in [Slip -> Slips]
    <3>1. CASE ~Issued(i)
      BY <1>0, <3>1
    <3>2. CASE Issued(i) /\ op = "revoke"
      BY <2>2, <2>3, <3>2
    <3>3. CASE Issued(i) /\ op = "unrevoke"
      BY <2>2, <2>3, <3>3
    <3>4. CASE Issued(i) /\ op = "delete"
      BY <1>0, <2>3, <3>4
    <3>5. CASE Issued(i) /\ op = "revokeToken"
      BY <2>2, <2>3, <3>5
    <3>. QED
      BY <2>1, <3>1, <3>2, <3>3, <3>4, <3>5 DEF RowOp
  <2>5. Writes(a, rows)
    BY <1>3 DEF WriteRow
  <2>. HIDE DEF rows
  <2>. QED
    BY <1>2, <2>4, <2>5
<1>4. CASE Clean(a)
  <2>. DEFINE rows == [i \in Slip |-> IF InactiveSlip(slips[i]) THEN NoSlip ELSE slips[i]]
  <2>1. rows \in [Slip -> Slips] /\ Writes(a, rows)
    BY <1>0, <1>4 DEF Clean
  <2>. HIDE DEF rows
  <2>. QED
    BY <1>2, <2>1
<1>5. ASSUME NEW i \in Slip, InsertRow(a, i) PROVE PanelIInv'
  <2>. DEFINE k == [errand[a] EXCEPT !.at = "done", !.of = i]
  <2>1. /\ k \in ErrandRec /\ k.at = "done" /\ k.op = errand[a].op /\ k.of = i
        /\ k.button = errand[a].button /\ k.page = errand[a].page
    BY <1>0 DEF ErrandRec
  <2>2. /\ errand' = [errand EXCEPT ![a] = k] /\ slips' = [slips EXCEPT ![i] = NewSlip]
        /\ stale' = (stale \/ ~errand[a].page) /\ Alone /\ UNCHANGED unwarned
    BY <1>5 DEF InsertRow
  <2>3. slips' \in [Slip -> Slips] /\ unwarned' \subseteq Slip
    BY <1>0, <2>2 DEF PanelIInv, PanelTypes
  <2>. HIDE DEF k
  <2>. QED
    BY <1>1, <2>1, <2>2, <2>3
<1>. QED
  BY <1>3, <1>4, <1>5 DEF InsertForum, InsertAgent, InsertDashboard, InsertToken

\* Another tab or a redeemer changes the table, and nothing here will fetch it.
LEMMA OthersWrite ==
  ASSUME PanelConstantsOK, PanelIInv, NEW i \in Slip, Redeem(i) \/ OtherTab(i)
  PROVE  PanelIInv'
<1>0. slips \in [Slip -> Slips] /\ slips[i] \in Slips /\ elsewhere \in 0..LastElse /\ LastElse \in Nat
  BY DEF PanelIInv, PanelTypes, PanelConstantsOK
<1>1. ASSUME NEW row \in Slips, Elsewhere(i, row) PROVE PanelIInv'
  <2>1. /\ slips' = [slips EXCEPT ![i] = row] /\ stale' = TRUE /\ elsewhere' = elsewhere + 1
        /\ elsewhere < LastElse /\ UNCHANGED <<panel, list, refresh, dialog, card, errand, unwarned>>
    BY <1>1 DEF Elsewhere
  <2>2. slips' \in [Slip -> Slips] /\ elsewhere' \in 0..LastElse
    BY <1>0, <2>1
  <2>3. PanelTypes' /\ RestExcused'
    BY <2>1, <2>2 DEF PanelIInv, PanelTypes, RestExcused
  <2>4. ErrandsFit' /\ DialogTrue'
    BY <2>1 DEF PanelIInv, ErrandsFit, DialogTrue
  <2>. QED
    BY <2>3, <2>4 DEF PanelIInv
<1>2. CASE Redeem(i)
  <2>1. \A token \in {"none", "live"} : [slips[i] EXCEPT !.redeemed = TRUE, !.token = token] \in Slips
    BY <1>0 DEF Slips
  <2>2. \E token \in {"none", "live"} : Elsewhere(i, [slips[i] EXCEPT !.redeemed = TRUE, !.token = token])
    BY <1>2 DEF Redeem
  <2>. QED
    BY <1>1, <2>1, <2>2
<1>3. CASE OtherTab(i)
  <2>1. /\ NewSlip \in Slips /\ NoSlip \in Slips
        /\ [slips[i] EXCEPT !.revoked = TRUE] \in Slips /\ [slips[i] EXCEPT !.revoked = FALSE] \in Slips
    BY <1>0 DEF Slips, NewSlip, NoSlip
  <2>. QED
    BY <1>1, <1>3, <2>1 DEF OtherTab
<1>. QED
  BY <1>2, <1>3

\* The dialog opens and closes; what it showed of the table is fetched, or known not to be.
LEMMA DialogTurns ==
  ASSUME PanelConstantsOK, PanelIInv, (\E island \in BOOLEAN : OpenDialog(island)) \/ Done \/ DismissDialog
  PROVE  PanelIInv'
<1>0. /\ NoDialog \in DialogRec /\ NoDialog.mode = "form" /\ ~NoDialog.open /\ refresh \in RefreshRec
      /\ errand \in [Errand -> ErrandRec]
  BY DEF PanelIInv, PanelTypes, NoDialog, DialogRec
<1>1. ASSUME NEW island \in BOOLEAN, OpenDialog(island) PROVE PanelIInv'
  <2>. DEFINE d == [NoDialog EXCEPT !.open = TRUE, !.island = island]
  <2>1. d \in DialogRec /\ d.mode = "form" /\ d.open
    BY <1>0, <1>1 DEF DialogRec
  <2>2. dialog' = d /\ ~dialog.open /\ UNCHANGED <<panel, slips, list, refresh, card, errand, elsewhere, stale, unwarned>>
    BY <1>1 DEF OpenDialog
  <2>. HIDE DEF d
  <2>3. PanelTypes' /\ ErrandsFit'
    BY <2>1, <2>2 DEF PanelIInv, PanelTypes, ErrandsFit
  <2>4. DialogTrue'
    BY <2>1, <2>2 DEF PanelIInv, DialogTrue
  <2>5. RestExcused'
    BY <2>2 DEF PanelIInv, DialogTrue, RestExcused, Fetching
  <2>. QED
    BY <2>3, <2>4, <2>5 DEF PanelIInv
<1>2. CASE Done
  <2>. DEFINE f == [refresh EXCEPT !.wanted = TRUE]
  <2>1. f \in RefreshRec /\ f.wanted
    BY <1>0 DEF RefreshRec
  <2>2. /\ refresh' = f /\ dialog' = NoDialog /\ dialog.mode = "share"
        /\ UNCHANGED <<panel, slips, list, card, errand, elsewhere, stale, unwarned>>
    BY <1>2 DEF Done, Refreshed
  <2>. HIDE DEF f
  <2>3. PanelTypes' /\ ErrandsFit' /\ RestExcused'
    BY <1>0, <2>1, <2>2 DEF PanelIInv, PanelTypes, ErrandsFit, RestExcused
  <2>4. DialogTrue'
    <3>1. panel # "tokens" => \A a \in Errand : ~Awaits(errand[a])
      BY <2>2 DEF PanelIInv, DialogTrue
    <3>. QED
      BY <1>0, <2>2, <3>1 DEF PanelIInv, DialogTrue
  <2>. QED
    BY <2>3, <2>4 DEF PanelIInv
<1>3. CASE DismissDialog
  <2>1. /\ dialog' = NoDialog /\ stale' = (stale \/ dialog.mode = "share")
        /\ errand' = [a \in Errand |-> IF errand[a].op = "issue" THEN [errand[a] EXCEPT !.button = FALSE] ELSE errand[a]]
        /\ UNCHANGED <<panel, slips, list, refresh, card, elsewhere, unwarned>>
    BY <1>3 DEF DismissDialog
  <2>2. ASSUME NEW a \in Errand
        PROVE  /\ errand'[a] \in ErrandRec /\ errand'[a].at = errand[a].at /\ errand'[a].op = errand[a].op
               /\ errand'[a].of = errand[a].of /\ errand'[a].page = errand[a].page
               /\ errand'[a].button => errand[a].button /\ errand[a].op # "issue"
    <3>0. errand[a] \in ErrandRec
      BY <1>0
    <3>1. CASE errand[a].op = "issue"
      <4>1. errand'[a] = [errand[a] EXCEPT !.button = FALSE]
        BY <2>1, <3>1
      <4>. QED
        BY <3>0, <4>1 DEF ErrandRec
    <3>2. CASE errand[a].op # "issue"
      BY <2>1, <3>0, <3>2
    <3>. QED
      BY <3>1, <3>2
  <2>3. errand' \in [Errand -> ErrandRec]
    <3>1. errand' = [a \in Errand |-> errand'[a]]
      BY <2>1
    <3>. QED
      BY <2>2, <3>1
  <2>4. ErrandsFit'
    BY <2>2, <2>3, ButtonsGo
  <2>5. \A a \in Errand : ~Awaits(errand[a])'
    BY <2>2 DEF Awaits
  <2>6. DialogTrue'
    BY <1>0, <2>1, <2>5 DEF DialogTrue
  <2>7. RestExcused'
    <3>1. Fetching => Fetching'
      BY <2>2 DEF Fetching
    <3>. QED
      BY <2>1, <3>1 DEF PanelIInv, RestExcused
  <2>8. stale' \in BOOLEAN
    BY <2>1 DEF PanelIInv, PanelTypes
  <2>. QED
    BY <1>0, <2>1, <2>3, <2>4, <2>6, <2>7, <2>8 DEF PanelIInv, PanelTypes
<1>. QED
  BY <1>1, <1>2, <1>3

\* The page hears an answer, or none.
LEMMA PanelHears ==
  ASSUME PanelConstantsOK, PanelIInv, NEW a \in Errand,
         RowAnswered(a) \/ CodeAnswered(a) \/ TokenAnswered(a) \/ Refused(a) \/ ConnectionLost(a)
  PROVE  PanelIInv'
<1>. DEFINE over == [NoErrand EXCEPT !.at = "over"]
            f == [refresh EXCEPT !.wanted = TRUE]
<1>0. /\ errand[a] \in ErrandRec /\ ErrandFits(errand[a]) /\ refresh \in RefreshRec /\ dialog \in DialogRec
      /\ card \in CardRec /\ stale \in BOOLEAN
  BY DEF PanelIInv, PanelTypes, ErrandsFit
<1>1. over \in ErrandRec /\ ErrandFits(over) /\ ~Awaits(over) /\ over.at = "over"
  BY DEF NoErrand, ErrandRec, ErrandFits, Awaits
<1>2. f \in RefreshRec /\ f.wanted
  BY <1>0 DEF RefreshRec
<1>3. ASSUME Heard(a)
      PROVE  /\ errand' \in [Errand -> ErrandRec] /\ ErrandsFit' /\ errand'[a] = over
             /\ \A b \in Errand \ {a} : errand'[b] = errand[b]
             /\ UNCHANGED <<panel, dialog>> => DialogTrue'
             /\ errand[a].at # "done" /\ Fetching => Fetching'
  <2>1. errand' = [errand EXCEPT ![a] = over]
    BY <1>3 DEF Heard
  <2>. HIDE DEF over
  <2>. QED
    BY <1>1, <2>1, ErrandTurns
<1>. HIDE DEF over, f
<1>4. CASE RowAnswered(a)
  <2>1. refresh' = f /\ Heard(a) /\ UNCHANGED <<panel, slips, list, dialog, card, elsewhere, stale, unwarned>>
    BY <1>4 DEF RowAnswered, Refreshed, f
  <2>. QED
    BY <1>2, <1>3, <2>1 DEF PanelIInv, PanelTypes, RestExcused
<1>5. CASE Refused(a)
  <2>1. /\ Heard(a) /\ errand[a].at = "refused"
        /\ UNCHANGED <<panel, slips, list, refresh, dialog, card, elsewhere, stale, unwarned>>
    BY <1>5 DEF Refused
  <2>. QED
    BY <1>3, <2>1 DEF PanelIInv, PanelTypes, RestExcused
<1>6. CASE CodeAnswered(a)
  <2>1. /\ Heard(a) /\ errand[a].op = "issue" /\ errand[a].at = "done" /\ panel # "tokens"
        /\ dialog' = IF errand[a].button THEN [dialog EXCEPT !.mode = "share", !.code = errand[a].of] ELSE dialog
        /\ stale' = (stale \/ ~errand[a].button) /\ UNCHANGED <<panel, slips, list, refresh, card, elsewhere, unwarned>>
    BY <1>6 DEF CodeAnswered
  <2>2. CASE errand[a].button
    <3>. DEFINE d == [dialog EXCEPT !.mode = "share", !.code = errand[a].of]
    <3>1. d \in DialogRec /\ d.mode = "share" /\ d.open = dialog.open /\ dialog' = d
      BY <1>0, <2>1, <2>2 DEF DialogRec, ErrandRec
    <3>. HIDE DEF d
    <3>2. Awaits(errand[a])
      BY <2>1, <2>2 DEF Awaits
    <3>3. \A b \in Errand : ~Awaits(errand[b])'
      <4>1. ~Awaits(errand[a])'
        BY <1>1, <1>3, <2>1 DEF Awaits
      <4>2. ASSUME NEW b \in Errand \ {a} PROVE ~Awaits(errand[b])'
        BY <1>3, <2>1, <3>2 DEF PanelIInv, DialogTrue, Awaits
      <4>. QED
        BY <4>1, <4>2
    <3>4. dialog.open
      BY <2>1, <3>2 DEF PanelIInv, DialogTrue
    <3>5. DialogTrue' /\ RestExcused'
      BY <3>1, <3>3, <3>4 DEF DialogTrue, RestExcused
    <3>6. PanelTypes'
      BY <1>3, <2>1, <2>2, <3>1 DEF PanelIInv, PanelTypes
    <3>. QED
      BY <1>3, <2>1, <3>5, <3>6 DEF PanelIInv
  <2>3. CASE ~errand[a].button
    <3>1. dialog' = dialog /\ stale'
      BY <2>1, <2>3
    <3>2. DialogTrue'
      BY <1>3, <2>1, <3>1
    <3>3. PanelTypes' /\ RestExcused'
      BY <1>3, <2>1, <2>3, <3>1 DEF PanelIInv, PanelTypes, RestExcused
    <3>. QED
      BY <1>3, <2>1, <3>2, <3>3 DEF PanelIInv
  <2>. QED
    BY <2>2, <2>3
<1>7. CASE TokenAnswered(a)
  <2>. DEFINE c == [card EXCEPT !.token = errand[a].of]
  <2>1. c \in CardRec
    BY <1>0 DEF CardRec, ErrandRec
  <2>2. /\ Heard(a) /\ card' = c /\ dialog' = NoDialog /\ refresh' = f /\ panel = "tokens"
        /\ UNCHANGED <<panel, slips, list, elsewhere, stale, unwarned>>
    BY <1>7 DEF TokenAnswered, Refreshed, f
  <2>. HIDE DEF c
  <2>3. NoDialog \in DialogRec /\ NoDialog.mode = "form"
    BY DEF NoDialog, DialogRec
  <2>4. DialogTrue'
    <3>1. ASSUME NEW b \in Errand PROVE Awaits(errand[b])' => Awaits(errand[b])
      <4>1. CASE b = a
        BY <1>1, <1>3, <2>2, <4>1 DEF Awaits
      <4>2. CASE b # a
        BY <1>3, <2>2, <4>2 DEF Awaits
      <4>. QED
        BY <4>1, <4>2
    <3>. QED
      BY <2>2, <2>3, <3>1 DEF PanelIInv, DialogTrue
  <2>5. PanelTypes' /\ RestExcused'
    BY <1>2, <1>3, <2>1, <2>2, <2>3 DEF PanelIInv, PanelTypes, RestExcused
  <2>. QED
    BY <1>3, <2>2, <2>4, <2>5 DEF PanelIInv
<1>8. CASE ConnectionLost(a)
  <2>. DEFINE k == [errand[a] EXCEPT !.page = FALSE, !.button = FALSE]
  <2>1. /\ k \in ErrandRec /\ k.at = errand[a].at /\ k.op = errand[a].op /\ k.of = errand[a].of /\ ~k.button
    BY <1>0 DEF ErrandRec
  <2>2. /\ errand' = [errand EXCEPT ![a] = k] /\ stale' = (stale \/ errand[a].at = "done")
        /\ UNCHANGED <<panel, slips, list, refresh, dialog, card, elsewhere, unwarned>>
    BY <1>8 DEF ConnectionLost, PanelIInv, PanelTypes
  <2>. HIDE DEF k
  <2>3. ErrandFits(k) /\ ~Awaits(k)
    BY <1>0, <2>1 DEF ErrandFits, Awaits
  <2>4. /\ errand' \in [Errand -> ErrandRec] /\ ErrandsFit' /\ DialogTrue'
        /\ errand[a].at # "done" /\ Fetching => Fetching'
    BY <2>1, <2>2, <2>3, ErrandTurns
  <2>5. stale' \in BOOLEAN /\ RestExcused'
    BY <1>0, <2>2, <2>4 DEF PanelIInv, RestExcused
  <2>. QED
    BY <2>2, <2>4, <2>5 DEF PanelIInv, PanelTypes
<1>. QED
  BY <1>4, <1>5, <1>6, <1>7, <1>8

\* A token is copied and its card dismissed.
LEMMA CardTurns ==
  ASSUME PanelIInv, CopyToken \/ DismissToken PROVE PanelIInv'
<1>0. card \in CardRec
  BY DEF PanelIInv, PanelTypes
<1>1. UNCHANGED <<panel, slips, list, refresh, dialog, errand, elsewhere, stale, unwarned>>
  BY DEF CopyToken, DismissToken
<1>2. card' \in CardRec
  <2>1. CASE CopyToken
    <3>1. card.timers + 1 \in Nat
      BY <1>0 DEF CardRec
    <3>2. \A n \in Nat : [card EXCEPT !.copied = TRUE, !.timers = n] \in CardRec
      BY <1>0 DEF CardRec
    <3>. QED
      BY <2>1, <3>1, <3>2 DEF CopyToken
  <2>2. CASE DismissToken
    <3>1. card.timers - 1 \in Nat
      BY <1>0, <2>2 DEF CardRec, DismissToken
    <3>2. \A n \in Nat : [NoCard EXCEPT !.timers = n] \in CardRec
      BY DEF NoCard, CardRec
    <3>. QED
      BY <2>2, <3>1, <3>2 DEF DismissToken
  <2>. QED
    BY <2>1, <2>2
<1>3. PanelTypes' /\ ErrandsFit'
  BY <1>1, <1>2 DEF PanelIInv, PanelTypes, ErrandsFit
<1>4. DialogTrue' /\ RestExcused'
  BY <1>1 DEF PanelIInv, DialogTrue, RestExcused, Fetching
<1>. QED
  BY <1>3, <1>4 DEF PanelIInv

\* The table is read, the list is rendered with it, or the page opened anew.
LEMMA ListTurns ==
  ASSUME PanelConstantsOK, PanelIInv, ReadTable \/ ShowTable \/ Visit PROVE PanelIInv'
<1>0. /\ refresh \in RefreshRec /\ errand \in [Errand -> ErrandRec] /\ slips \in [Slip -> Slips] /\ slips # NULL
      /\ NoDialog \in DialogRec /\ NoDialog.mode = "form" /\ ~NoDialog.open /\ NoCard \in CardRec
      /\ NoRefresh \in RefreshRec /\ NoRefresh.read = NULL /\ stale \in BOOLEAN
  BY DEF PanelIInv, PanelTypes, PanelConstantsOK, NoDialog, DialogRec, NoCard, CardRec, NoRefresh, RefreshRec
<1>1. CASE ReadTable
  <2>. DEFINE f == [wanted |-> FALSE, read |-> slips]
  <2>1. f \in RefreshRec /\ f.read = slips
    BY <1>0 DEF RefreshRec
  <2>2. refresh' = f /\ stale' = FALSE /\ UNCHANGED <<panel, slips, list, dialog, card, errand, elsewhere, unwarned>>
    BY <1>1 DEF ReadTable
  <2>. HIDE DEF f
  <2>3. PanelTypes' /\ ErrandsFit'
    BY <1>0, <2>1, <2>2 DEF PanelIInv, PanelTypes, ErrandsFit
  <2>4. DialogTrue' /\ RestExcused'
    BY <1>0, <2>1, <2>2 DEF PanelIInv, DialogTrue, RestExcused
  <2>. QED
    BY <2>3, <2>4 DEF PanelIInv
<1>2. CASE ShowTable
  <2>. DEFINE f == [refresh EXCEPT !.read = NULL]
  <2>1. f \in RefreshRec /\ f.read = NULL /\ f.wanted = refresh.wanted
    BY <1>0 DEF RefreshRec
  <2>2. /\ refresh' = f /\ list' = refresh.read /\ refresh.read # NULL
        /\ IF IslandGoes(refresh.read) THEN dialog' = NoDialog /\ stale' = (stale \/ dialog.mode = "share")
           ELSE UNCHANGED <<dialog, stale>>
        /\ errand' = [a \in Errand |-> IF ButtonStays(refresh.read, a) THEN errand[a]
                                     ELSE [errand[a] EXCEPT !.button = FALSE]]
        /\ UNCHANGED <<panel, slips, card, elsewhere, unwarned>>
    BY <1>2 DEF ShowTable
  <2>. HIDE DEF f
  <2>3. ASSUME NEW a \in Errand
        PROVE  /\ errand'[a] \in ErrandRec /\ errand'[a].at = errand[a].at /\ errand'[a].op = errand[a].op
               /\ errand'[a].of = errand[a].of /\ errand'[a].page = errand[a].page
               /\ errand'[a].button => errand[a].button /\ ButtonStays(refresh.read, a)
    <3>0. errand[a] \in ErrandRec
      BY <1>0
    <3>1. CASE ~ButtonStays(refresh.read, a)
      <4>1. errand'[a] = [errand[a] EXCEPT !.button = FALSE]
        BY <2>2, <3>1
      <4>. QED
        BY <3>0, <4>1 DEF ErrandRec
    <3>2. CASE ButtonStays(refresh.read, a)
      BY <2>2, <3>0, <3>2
    <3>. QED
      BY <3>1, <3>2
  <2>4. errand' \in [Errand -> ErrandRec]
    <3>1. errand' = [a \in Errand |-> errand'[a]]
      BY <2>2
    <3>. QED
      BY <2>3, <3>1
  <2>5. ErrandsFit' /\ \A a \in Errand : Awaits(errand[a])' => Awaits(errand[a])
    BY <2>3, <2>4, ButtonsGo
  <2>6. Fetching => Fetching'
    BY <2>3 DEF Fetching
  <2>7. list' \in [Slip -> Slips]
    BY <1>0, <2>2 DEF RefreshRec
  <2>8. refresh.read = slips => list' = slips'
    BY <2>2
  <2>9. CASE IslandGoes(refresh.read)
    <3>1. dialog' = NoDialog /\ stale' = (stale \/ dialog.mode = "share")
      BY <2>2, <2>9
    <3>2. \A a \in Errand : ~Awaits(errand[a])'
      <4>1. ASSUME NEW a \in Errand, errand[a].op = "issue" PROVE ~ButtonStays(refresh.read, a)
        BY <2>9, <4>1 DEF ButtonStays
      <4>. QED
        BY <2>3, <4>1 DEF Awaits
    <3>3. DialogTrue'
      BY <1>0, <3>1, <3>2 DEF DialogTrue
    <3>4. RestExcused'
      BY <2>1, <2>2, <2>6, <2>8, <3>1 DEF PanelIInv, RestExcused
    <3>5. stale' \in BOOLEAN
      BY <1>0, <3>1
    <3>6. PanelTypes'
      BY <1>0, <2>1, <2>2, <2>4, <2>7, <3>1, <3>5 DEF PanelIInv, PanelTypes
    <3>. QED
      BY <2>5, <3>3, <3>4, <3>6 DEF PanelIInv
  <2>10. CASE ~IslandGoes(refresh.read)
    <3>1. UNCHANGED <<dialog, stale>>
      BY <2>2, <2>10
    <3>2. DialogTrue'
      BY <2>2, <2>5, <3>1 DEF PanelIInv, DialogTrue
    <3>3. RestExcused'
      BY <2>1, <2>2, <2>6, <2>8, <3>1 DEF PanelIInv, RestExcused
    <3>4. PanelTypes'
      BY <2>1, <2>2, <2>4, <2>7, <3>1 DEF PanelIInv, PanelTypes
    <3>. QED
      BY <2>5, <3>2, <3>3, <3>4 DEF PanelIInv
  <2>. QED
    BY <2>9, <2>10
<1>3. CASE Visit
  <2>1. /\ list' = slips /\ stale' = FALSE /\ refresh' = NoRefresh /\ dialog' = NoDialog /\ card' = NoCard
        /\ errand' = [a \in Errand |-> [errand[a] EXCEPT !.page = FALSE, !.button = FALSE]]
        /\ UNCHANGED <<panel, slips, elsewhere, unwarned>>
    BY <1>3 DEF Visit
  <2>2. ASSUME NEW a \in Errand
        PROVE  /\ errand'[a] \in ErrandRec /\ errand'[a].at = errand[a].at /\ errand'[a].op = errand[a].op
               /\ errand'[a].of = errand[a].of /\ ~errand'[a].button
    <3>0. errand[a] \in ErrandRec /\ errand'[a] = [errand[a] EXCEPT !.page = FALSE, !.button = FALSE]
      BY <1>0, <2>1
    <3>. QED
      BY <3>0 DEF ErrandRec
  <2>3. errand' \in [Errand -> ErrandRec]
    <3>1. errand' = [a \in Errand |-> errand'[a]]
      BY <2>1
    <3>. QED
      BY <2>2, <3>1
  <2>4. ErrandsFit'
    BY <2>2, <2>3, ButtonsGo
  <2>5. DialogTrue'
    BY <1>0, <2>1, <2>2 DEF DialogTrue, Awaits
  <2>6. RestExcused'
    BY <1>0, <2>1 DEF RestExcused
  <2>. QED
    BY <1>0, <2>1, <2>3, <2>4, <2>5, <2>6 DEF PanelIInv, PanelTypes
<1>. QED
  BY <1>1, <1>2, <1>3

\* Every step of the pages.
LEMMA PanelsGo ==
  ASSUME PanelConstantsOK, PanelIInv, [PanelNext]_panelVars PROVE PanelIInv'
<1>1. CASE UNCHANGED panelVars
  <2>1. PanelTypes' /\ ErrandsFit'
    BY <1>1 DEF PanelIInv, PanelTypes, ErrandsFit, panelVars
  <2>2. DialogTrue' /\ RestExcused'
    BY <1>1 DEF PanelIInv, DialogTrue, RestExcused, Fetching, panelVars
  <2>. QED
    BY <2>1, <2>2 DEF PanelIInv
<1>2. CASE \/ Done \/ DismissDialog \/ ReadTable \/ ShowTable \/ Visit \/ CopyToken \/ DismissToken
           \/ \E island \in BOOLEAN : OpenDialog(island)
  BY <1>2, DialogTurns, ListTurns, CardTurns
<1>3. ASSUME NEW i \in Slip, Redeem(i) \/ OtherTab(i) PROVE PanelIInv'
  BY <1>3, OthersWrite
<1>4. ASSUME NEW a \in Errand, ClearForum(a) \/ ClearAgent(a) \/ ClearDashboard(a) PROVE PanelIInv'
  <2>1. PICK warned \in BOOLEAN : Press(a, "clean", NULL, warned)
    BY <1>4 DEF ClearForum, ClearAgent, ClearDashboard, PressClear
  <2>. QED
    BY <2>1, PanelPressed DEF RowOp
<1>5. ASSUME NEW a \in Errand, SubmitForum(a) \/ SubmitAgent(a) \/ SubmitDashboard(a) \/ SubmitToken(a)
      PROVE  PanelIInv'
  BY <1>5, PanelSubmits
<1>6. ASSUME NEW a \in Errand, LookUpForum(a) \/ LookUpAgent(a) \/ LookUpDashboard(a) \/ LookUpToken(a) \/ Refuse(a)
      PROVE  PanelIInv'
  BY <1>6, PanelLooks
<1>7. ASSUME NEW a \in Errand,
             \/ WriteRow(a) \/ Clean(a)
             \/ \E i \in Slip : InsertForum(a, i) \/ InsertAgent(a, i) \/ InsertDashboard(a, i) \/ InsertToken(a, i)
      PROVE  PanelIInv'
  BY <1>7, PanelWrites
<1>8. ASSUME NEW a \in Errand, RowAnswered(a) \/ CodeAnswered(a) \/ TokenAnswered(a) \/ Refused(a) \/ ConnectionLost(a)
      PROVE  PanelIInv'
  BY <1>8, PanelHears
<1>9. ASSUME NEW a \in Errand, NEW i \in Slip,
             \/ RevokeForum(a, i) \/ RestoreForum(a, i) \/ DeleteForum(a, i)
             \/ RevokeAgent(a, i) \/ RevokeTokenOf(a, i) \/ RestoreAgent(a, i) \/ DeleteAgent(a, i)
             \/ RevokeDashboard(a, i) \/ RestoreDashboard(a, i) \/ DeleteDashboard(a, i)
             \/ RevokeToken(a, i)
      PROVE  PanelIInv'
  <2>0. list[i] \in Slips
    BY DEF PanelIInv, PanelTypes
  <2>1. PICK op \in RowOp : Press(a, op, i, op = "delete" /\ list[i].redeemed)
    BY <1>9 DEF RevokeForum, RestoreForum, DeleteForum, RevokeAgent, RevokeTokenOf, RestoreAgent, DeleteAgent,
                RevokeDashboard, RestoreDashboard, DeleteDashboard, RevokeToken, PressRow, RowOp
  <2>2. (op = "delete" /\ list[i].redeemed) \in BOOLEAN
    OBVIOUS
  <2>3. PICK warned \in BOOLEAN : Press(a, op, i, warned)
    BY <2>1, <2>2
  <2>. QED
    BY <2>3, PanelPressed
<1>10. CASE PanelNext
  BY <1>2, <1>3, <1>4, <1>5, <1>6, <1>7, <1>8, <1>9, <1>10 DEF PanelNext
<1>. QED
  BY <1>1, <1>10

\* What the run checks follows.
LEMMA PanelsFit ==
  ASSUME PanelIInv PROVE PanelInv
<1>1. PanelTypeOK
  BY DEF PanelIInv, PanelTypes, PanelTypeOK, RefreshRec, DialogRec, CardRec, ErrandRec
<1>2. RestIsTrue
  <2>1. ASSUME refresh = NoRefresh PROVE ~refresh.wanted /\ refresh.read = NULL
    BY <2>1 DEF NoRefresh
  <2>2. Fetching => \E a \in Errand : UnderWay(a) /\ errand[a].page
    BY DEF Fetching, UnderWay
  <2>. QED
    BY <2>1, <2>2 DEF PanelIInv, RestExcused, RestIsTrue
<1>. QED
  BY <1>1, <1>2 DEF PanelInv

\* A page of invites or tokens at rest shows the table, unless somebody else changed it, an
\* answer was lost or the dialog was dismissed (the panels and their routes).
THEOREM RestedPanelsTrue ==
  ASSUME PanelConstantsOK
  PROVE  PanelInit /\ [][PanelNext]_panelVars => []PanelInv
<1>1. PanelInit => PanelIInv
  BY PanelBegins
<1>2. PanelIInv /\ [PanelNext]_panelVars => PanelIInv'
  BY PanelsGo
<1>3. PanelIInv => PanelInv
  BY PanelsFit
<1>. QED
  BY <1>1, <1>2, <1>3, PTL

-----------------------------------------------------------------------------
(* The inbox.                                                              *)

PageRec == [items : Seq(NoticeNo), fresh : SUBSET NoticeNo, next : NoticeNo \cup {NULL}]
CallRec == [op : {"none", "read", "delete", "more", "clear", "count"}, id : NoticeNo \cup {NULL},
            mine : BOOLEAN, at : {"sent", "ok", "bad", "lost"}, was : BOOLEAN, index : Nat \ {0},
            data : {NULL} \cup (SUBSET NoticeNo) \cup Nat \cup PageRec]
ViewRec == [open : BOOLEAN, shown : Seq(NoticeNo), fresh : SUBSET NoticeNo,
            cursor : NoticeNo \cup {NULL}, loading : BOOLEAN, dialog : {"no", "asks", "clears"},
            newest : Nat, held : Seq(NoticeNo), heldCursor : NoticeNo \cup {NULL},
            lost : SUBSET NoticeNo, uncleared : BOOLEAN]

\* What a request carries is of its kind, and the page's own requests end with the page.
CallFits(k) ==
  /\ k.op \in {"read", "delete", "more"} => k.id \in NoticeNo
  /\ k.op = "more" /\ k.at = "ok" => k.data \in PageRec
  /\ k.op = "count" /\ k.at = "ok" => k.data \in 0..LastNotice
  /\ k.op = "clear" /\ k.at \in {"sent", "bad"} => k.data \in SUBSET NoticeNo
  /\ k.op = "delete" /\ k.at = "ok" => mail[k.id] = "gone"
  /\ k.mine => inboxView.open

\* Nothing is left of what the page could show.
Emptied == \A n \in NoticeNo : n <= inboxView.newest => mail[n] = "gone"
Swept == inboxView.uncleared \/ Emptied

Mine(c, op) == call[c].mine /\ call[c].op = op

\* One Clear all at a time; when it has run, nothing is left.
ClearFits(c) ==
  Mine(c, "clear") =>
    /\ inboxView.dialog = "clears" /\ inboxView.uncleared
    /\ call[c].at = "ok" => Emptied
\* A second page begins below what the list has, and holds all that was stored there.
AboveOnly(id, line) == \A m \in NoticeNo : Contains(line, m) => m >= id
NextPage(id, data) ==
  /\ IsInjective(data.items)
  /\ \A m \in NoticeNo : Contains(data.items, m) => m < id /\ (data.next # NULL => m >= data.next)
  /\ data.next # NULL => data.next < id
  /\ \A n \in Kept : n < id /\ (data.next = NULL \/ n >= data.next) => Contains(data.items, n)
MoreFits(c) ==
  Mine(c, "more") =>
    /\ inboxView.loading /\ call[c].id <= inboxView.newest
    /\ Swept \/ inboxView.cursor = call[c].id
    /\ AboveOnly(call[c].id, inboxView.shown) /\ AboveOnly(call[c].id, inboxView.held)
    /\ \A d \in InboxCall : Mine(d, "delete") => call[d].id >= call[c].id
    /\ call[c].at = "ok" => NextPage(call[c].id, call[c].data)
\* What is being deleted is on neither list.
DeleteFits(c) ==
  Mine(c, "delete") =>
    /\ ~Contains(inboxView.shown, call[c].id) /\ ~Contains(inboxView.held, call[c].id)
    /\ inboxView.cursor # NULL => call[c].id >= inboxView.cursor
    /\ inboxView.heldCursor # NULL => call[c].id >= inboxView.heldCursor
OneAtATime ==
  \A c, d \in InboxCall :
    \/ c = d
    \/ /\ ~(Mine(c, "more") /\ Mine(d, "more")) /\ ~(Mine(c, "clear") /\ Mine(d, "clear"))
       /\ ~(Mine(c, "delete") /\ Mine(d, "delete") /\ call[c].id = call[d].id)
\* The lists, and where they end.
ListFits(line, cursor) ==
  /\ IsInjective(line)
  /\ cursor # NULL => cursor <= inboxView.newest /\ AboveOnly(cursor, line)
ListsFit ==
  /\ ListFits(inboxView.shown, inboxView.cursor) /\ ListFits(inboxView.held, inboxView.heldCursor)
  /\ inboxView.dialog # "clears" => inboxView.held = <<>> /\ inboxView.heldCursor = NULL
  /\ inboxView.dialog = "asks" => inboxView.open
MailFits ==
  /\ mail \in [NoticeNo -> {"unsent", "unread", "read", "gone"}]
  /\ \A n, m \in NoticeNo : m <= n /\ mail[n] # "unsent" => mail[m] # "unsent"
  /\ \A n \in NoticeNo : n <= inboxView.newest => mail[n] # "unsent"

InboxTypes ==
  /\ MailFits /\ inboxView \in ViewRec /\ unread \in 0..LastNotice /\ call \in [InboxCall -> CallRec]
InboxCalls ==
  /\ \A c \in InboxCall : CallFits(call[c])
  /\ \A c \in InboxCall : ClearFits(c)
  /\ \A c \in InboxCall : MoreFits(c)
  /\ \A c \in InboxCall : DeleteFits(c)
  /\ OneAtATime
InboxIInv == InboxTypes /\ InboxCalls /\ ListsFit /\ NothingHidden

-----------------------------------------------------------------------------
\* Some notification is the least of a set, some the greatest.
LEMMA EndsOfNotices ==
  ASSUME InboxConstantsOK, NEW S \in SUBSET NoticeNo, S # {}
  PROVE  /\ \E n \in S : \A m \in S : n <= m
         /\ \E n \in S : \A m \in S : m <= n
<1>1. ASSUME NEW T \in SUBSET Nat, T # {} PROVE \E n \in T : \A m \in T : n <= m
  <2>1. PICK n \in T : \A m \in T : ~(<<m, n>> \in OpToRel(<, Nat))
    BY <1>1, WFMin, NatLessThanWellFounded
  <2>2. ASSUME NEW m \in T PROVE n <= m
    <3>1. ~(m < n)
      BY <2>1 DEF OpToRel
    <3>. QED
      BY <3>1
  <2>. QED
    BY <2>2
<1>2. LastNotice \in Nat /\ S \in SUBSET Nat /\ \A n \in S : n <= LastNotice
  BY DEF InboxConstantsOK, NoticeNo
<1>. DEFINE T == {LastNotice - x : x \in S}
<1>3. T \in SUBSET Nat /\ T # {}
  BY <1>2
<1>4. PICK t \in T : \A u \in T : t <= u
  BY <1>1, <1>3
<1>5. PICK n \in S : t = LastNotice - n
  OBVIOUS
<1>6. ASSUME NEW m \in S PROVE m <= n
  <2>1. LastNotice - m \in T
    OBVIOUS
  <2>2. LastNotice - n <= LastNotice - m
    BY <1>4, <1>5, <2>1
  <2>. QED
    BY <1>2, <2>2
<1>. QED
  BY <1>1, <1>2, <1>6

LEMMA NoticesFinite ==
  ASSUME InboxConstantsOK
  PROVE  /\ IsFiniteSet(NoticeNo) /\ Cardinality(NoticeNo) = LastNotice
         /\ \A S \in SUBSET NoticeNo : /\ IsFiniteSet(S) /\ Cardinality(S) \in Nat
                                       /\ Cardinality(S) <= LastNotice
<1>1. LastNotice \in Nat /\ 1 \in Int /\ LastNotice \in Int
  BY DEF InboxConstantsOK
<1>2. IsFiniteSet(NoticeNo) /\ Cardinality(NoticeNo) = LastNotice
  BY <1>1, FS_Interval DEF NoticeNo
<1>3. ASSUME NEW S \in SUBSET NoticeNo
      PROVE  IsFiniteSet(S) /\ Cardinality(S) \in Nat /\ Cardinality(S) <= LastNotice
  BY <1>2, FS_Subset, FS_CardinalityType
<1>. QED
  BY <1>2, <1>3

\* A page is a list without repetitions of what is stored below its cursor, down to the next one.
LEMMA PageFits ==
  ASSUME InboxConstantsOK, NEW c \in NoticeNo \cup {NULL}, NEW p, p = PageBelow(c)
  PROVE  /\ p \in PageRec /\ IsInjective(p.items)
         /\ \A m \in NoticeNo : Contains(p.items, m) =>
              /\ m \in Kept /\ (c # NULL => m < c) /\ (p.next # NULL => m >= p.next)
         /\ p.next # NULL => Contains(p.items, p.next) /\ (c # NULL => p.next < c)
         /\ \A n \in Kept : (c = NULL \/ n < c) /\ (p.next = NULL \/ n >= p.next) => Contains(p.items, n)
         /\ p.items # <<>> => /\ Head(p.items) \in NoticeNo /\ Contains(p.items, Head(p.items))
                              /\ \A m \in NoticeNo : Contains(p.items, m) => m <= Head(p.items)
<1>. DEFINE below == {n \in Kept : c = NULL \/ n < c}
            Above(n) == {m \in below : m > n}
            group == {n \in below : Cardinality(Above(n)) < InboxPage}
            line == Ranked(group, NewestFirst)
            next == IF below = group THEN NULL ELSE CHOOSE n \in group : \A m \in group : n <= m
<1>1. /\ \A n : n \in below <=> n \in Kept /\ (c = NULL \/ n < c)
      /\ \A n : n \in group <=> n \in below /\ Cardinality(Above(n)) < InboxPage
      /\ \A n, m : m \in Above(n) <=> m \in below /\ m > n
  OBVIOUS
<1>2. /\ Kept \in SUBSET NoticeNo /\ below \in SUBSET NoticeNo /\ group \in SUBSET below
      /\ group \in SUBSET NoticeNo
  BY DEF Kept
<1>3. NoticeNo \in SUBSET Nat /\ InboxPage \in Nat \ {0} /\ NULL \notin NoticeNo
  BY DEF InboxConstantsOK, NoticeNo
<1>4. p = [items |-> line, fresh |-> group \cap Unread, next |-> next]
  BY DEF PageBelow
<1>5. \A n : Above(n) \in SUBSET NoticeNo
  BY <1>1, <1>2
<1>. HIDE DEF Above
<1>6. /\ below = group => next = NULL
      /\ below # group => next = CHOOSE n \in group : \A m \in group : n <= m
  OBVIOUS
<1>. HIDE DEF below, group, next
<1>7. IsFiniteSet(group) /\ Cardinality(group) \in Nat
  BY <1>2, NoticesFinite
<1>8. StrictOrder(group, NewestFirst)
  BY <1>2, <1>3 DEF StrictOrder, NewestFirst
<1>9. /\ line \in Seq(group) /\ Len(line) = Cardinality(group) /\ IsInjective(line)
      /\ \A i \in 1..Cardinality(group) : RankOf(line[i], group, NewestFirst) = i
      /\ \A x \in group : /\ RankOf(x, group, NewestFirst) \in 1..Cardinality(group)
                          /\ line[RankOf(x, group, NewestFirst)] = x
  BY <1>7, <1>8, RankedFits
<1>. HIDE DEF line
<1>10. \A n : IsFiniteSet(Above(n)) /\ Cardinality(Above(n)) \in Nat
  BY <1>5, NoticesFinite
<1>11. \A m : Contains(line, m) <=> m \in group
  <2>1. ASSUME NEW m, Contains(line, m) PROVE m \in group
    <3>1. PICK i \in 1..Len(line) : line[i] = m
      BY <2>1 DEF Contains
    <3>. QED
      BY <3>1, <1>9, ElementOfSeq
  <2>2. ASSUME NEW m \in group PROVE Contains(line, m)
    BY <1>9 DEF Contains
  <2>. QED
    BY <2>1, <2>2
<1>12. below # group => /\ next \in group /\ \A m \in group : next <= m
  <2>. SUFFICES ASSUME below # group PROVE next \in group /\ \A m \in group : next <= m
    OBVIOUS
  <2>1. PICK x \in below : \A m \in below : m <= x
    <3>1. below # {}
      BY <1>2
    <3>. QED
      BY <1>2, <3>1, EndsOfNotices
  <2>2. Above(x) = {}
    <3>1. ASSUME NEW m \in Above(x) PROVE FALSE
      <4>1. m \in below /\ m > x
        BY <1>1
      <4>2. m <= x /\ m \in Nat /\ x \in Nat
        BY <2>1, <4>1, <1>2, <1>3
      <4>. QED
        BY <4>1, <4>2
    <3>. QED
      BY <3>1
  <2>3. x \in group
    <3>1. Cardinality(Above(x)) = 0
      BY <2>2, FS_EmptySet
    <3>2. Cardinality(Above(x)) < InboxPage
      BY <1>3, <3>1
    <3>. QED
      BY <1>1, <3>2
  <2>4. \E n \in group : \A m \in group : n <= m
    BY <1>2, <2>3, EndsOfNotices
  <2>. QED
    BY <2>4, <1>6
<1>13. ASSUME NEW n \in below, NEW k \in group, k <= n PROVE n \in group
  <2>1. ASSUME NEW m \in Above(n) PROVE m \in Above(k)
    <3>1. m \in below /\ m > n /\ m \in Nat /\ n \in Nat /\ k \in Nat
      BY <1>1, <1>2, <1>3
    <3>2. m > k
      BY <3>1, <1>13
    <3>. QED
      BY <3>1, <3>2, <1>1
  <2>2. Cardinality(Above(n)) <= Cardinality(Above(k))
    BY <2>1, <1>10, FS_Subset
  <2>3. Cardinality(Above(k)) < InboxPage
    BY <1>1
  <2>4. Cardinality(Above(n)) < InboxPage
    BY <2>2, <2>3, <1>3, <1>10
  <2>. QED
    BY <2>4, <1>1
<1>14. next \in NoticeNo \cup {NULL} /\ (next = NULL => below = group) /\ (next # NULL => below # group)
  BY <1>2, <1>3, <1>6, <1>12
<1>15. line \in Seq(NoticeNo)
  BY <1>2, <1>9, SeqMonotonic
<1>16. p.items = line /\ p.next = next
  BY <1>4
<1>17. p \in PageRec
  BY <1>2, <1>4, <1>14, <1>15 DEF PageRec
<1>18. IsInjective(p.items)
  BY <1>9, <1>16
<1>19. ASSUME NEW m \in NoticeNo, Contains(p.items, m)
       PROVE  m \in Kept /\ (c # NULL => m < c) /\ (p.next # NULL => m >= p.next)
  <2>1. m \in group
    BY <1>11, <1>16, <1>19
  <2>2. m \in Kept /\ (c # NULL => m < c)
    BY <2>1, <1>1
  <2>3. next # NULL => next \in NoticeNo /\ next <= m
    BY <1>2, <1>12, <1>14, <2>1
  <2>4. p.next # NULL => m >= p.next
    BY <2>3, <1>16, <1>3
  <2>. QED
    BY <2>2, <2>4
<1>20. p.next # NULL => Contains(p.items, p.next) /\ (c # NULL => p.next < c)
  <2>. SUFFICES ASSUME p.next # NULL PROVE Contains(p.items, p.next) /\ (c # NULL => p.next < c)
    OBVIOUS
  <2>1. p.next \in group
    BY <1>12, <1>14, <1>16
  <2>. QED
    BY <2>1, <1>1, <1>11, <1>16
<1>21. ASSUME NEW n \in Kept, c = NULL \/ n < c, p.next = NULL \/ n >= p.next
       PROVE  Contains(p.items, n)
  <2>1. n \in below
    BY <1>1, <1>21
  <2>2. n \in group
    <3>1. CASE below = group
      BY <2>1, <3>1
    <3>2. CASE below # group
      <4>1. next \in group /\ next # NULL /\ next \in NoticeNo
        BY <3>2, <1>2, <1>3, <1>12
      <4>2. next <= n
        BY <4>1, <1>2, <1>3, <1>16, <1>21
      <4>. QED
        BY <4>1, <4>2, <2>1, <1>13
    <3>. QED
      BY <3>1, <3>2
  <2>. QED
    BY <2>2, <1>11, <1>16
<1>22. ASSUME p.items # <<>>
       PROVE  /\ Head(p.items) \in NoticeNo /\ Contains(p.items, Head(p.items))
              /\ \A m \in NoticeNo : Contains(p.items, m) => m <= Head(p.items)
  <2>1. line # <<>> /\ Len(line) \in Nat /\ Len(line) # 0
    BY <1>15, <1>16, <1>22
  <2>2. Head(line) = line[1] /\ 1 \in 1..Cardinality(group) /\ 1 \in 1..Len(line)
    BY <2>1, <1>9, <1>15
  <2>3. line[1] \in group
    BY <1>9, <2>2, ElementOfSeq
  <2>4. RankOf(line[1], group, NewestFirst) = 1
    BY <2>2, <1>9
  <2>5. ASSUME NEW m \in group PROVE m <= line[1]
    <3>. DEFINE over == {y \in group : <<y, line[1]>> \in NewestFirst}
    <3>1. over \in SUBSET NoticeNo
      BY <1>2
    <3>2. IsFiniteSet(over) /\ Cardinality(over) \in Nat
      BY <3>1, NoticesFinite
    <3>3. Cardinality(over) = 0
      BY <2>4, <3>2 DEF RankOf
    <3>4. m \notin over
      BY <3>2, <3>3, FS_EmptySet
    <3>5. m \in NoticeNo /\ line[1] \in NoticeNo /\ m \in Nat /\ line[1] \in Nat
      BY <2>3, <1>2, <1>3
    <3>6. ~(m > line[1])
      BY <3>4, <3>5 DEF NewestFirst
    <3>. QED
      BY <3>5, <3>6
  <2>6. line[1] \in NoticeNo
    BY <2>3, <1>2
  <2>. QED
    BY <2>1, <2>2, <2>3, <2>5, <2>6, <1>2, <1>11, <1>16
<1>. QED
  BY <1>17, <1>18, <1>19, <1>20, <1>21, <1>22
\* A step that leaves the lists alone: requests go on, end or fail, new ones are of no consequence.
ViewStays ==
  /\ inboxView' \in ViewRec /\ inboxView'.open = inboxView.open
  /\ inboxView'.shown = inboxView.shown /\ inboxView'.cursor = inboxView.cursor
  /\ inboxView'.held = inboxView.held /\ inboxView'.heldCursor = inboxView.heldCursor
  /\ inboxView'.newest = inboxView.newest /\ inboxView'.uncleared = inboxView.uncleared
  /\ inboxView.lost \subseteq inboxView'.lost
  /\ \/ inboxView'.dialog = inboxView.dialog
     \/ /\ inboxView.dialog # "clears" /\ inboxView'.dialog # "clears"
        /\ inboxView'.dialog = "asks" => inboxView.open
  /\ inboxView'.loading = inboxView.loading \/ \A d \in InboxCall : ~Mine(d, "more")'
Carried(d) ==
  /\ call'[d].op = call[d].op /\ call'[d].id = call[d].id /\ call'[d].mine = call[d].mine
  /\ call'[d].at = "ok" => call[d].at = "ok" /\ call'[d].data = call[d].data
Harmless(d) ==
  /\ ~Mine(d, "delete")' /\ ~Mine(d, "more")' /\ ~Mine(d, "clear")'
  /\ Mine(d, "delete") => \/ call[d].id \notin Kept \/ Contains(inboxView.shown, call[d].id)
                          \/ call[d].id \in inboxView'.lost

LEMMA QuietSteps ==
  ASSUME InboxConstantsOK, InboxIInv, mail' = mail, unread' \in 0..LastNotice,
         call' \in [InboxCall -> CallRec], ViewStays,
         \A d \in InboxCall : CallFits(call[d])', \A d \in InboxCall : Carried(d) \/ Harmless(d)
  PROVE  InboxIInv'
<1>. USE DEF InboxIInv
<1>1. InboxTypes'
  BY DEF InboxTypes, MailFits, ViewStays
<1>2. ListsFit'
  BY DEF ListsFit, ListFits, AboveOnly, ViewStays
<1>3. (Emptied' <=> Emptied) /\ (Swept' <=> Swept) /\ Kept' = Kept
  BY DEF Emptied, Swept, Kept, ViewStays
<1>4. \A d \in InboxCall : ClearFits(d)'
  <2>. SUFFICES ASSUME NEW d \in InboxCall, Mine(d, "clear")'
                PROVE  /\ inboxView'.dialog = "clears" /\ inboxView'.uncleared
                       /\ call'[d].at = "ok" => Emptied'
    BY DEF ClearFits
  <2>1. Carried(d)
    BY DEF Harmless
  <2>2. Mine(d, "clear")
    BY <2>1 DEF Carried, Mine
  <2>. QED
    BY <1>3, <2>1, <2>2 DEF InboxCalls, ClearFits, Carried, ViewStays
<1>5. \A d \in InboxCall : Mine(d, "delete")' => Mine(d, "delete") /\ call'[d].id = call[d].id
  BY DEF Harmless, Carried, Mine
<1>6. \A d \in InboxCall : Mine(d, "more")' => Mine(d, "more") /\ call'[d].id = call[d].id
  BY DEF Harmless, Carried, Mine
<1>7. \A d \in InboxCall : Mine(d, "clear")' => Mine(d, "clear")
  BY DEF Harmless, Carried, Mine
<1>8. \A d \in InboxCall : DeleteFits(d)'
  BY <1>5 DEF InboxCalls, DeleteFits, ViewStays
<1>9. OneAtATime'
  BY <1>5, <1>6, <1>7 DEF InboxCalls, OneAtATime
<1>10. \A d \in InboxCall : MoreFits(d)'
  <2>. SUFFICES ASSUME NEW d \in InboxCall, Mine(d, "more")' PROVE MoreFits(d)'
    BY DEF MoreFits
  <2>1. Carried(d) /\ Mine(d, "more")
    BY <1>6 DEF Harmless
  <2>2. MoreFits(d)
    BY DEF InboxCalls
  <2>3. inboxView'.loading /\ call'[d].id <= inboxView'.newest
    BY <2>1, <2>2 DEF MoreFits, ViewStays, Carried
  <2>4. Swept' \/ inboxView'.cursor = call'[d].id
    BY <1>3, <2>1, <2>2 DEF MoreFits, ViewStays, Carried
  <2>5. AboveOnly(call[d].id, inboxView.shown)' /\ AboveOnly(call[d].id, inboxView.held)'
    BY <2>1, <2>2 DEF MoreFits, ViewStays, Carried, AboveOnly
  <2>6. \A e \in InboxCall : Mine(e, "delete")' => call'[e].id >= call'[d].id
    BY <1>5, <2>1, <2>2 DEF MoreFits, Carried
  <2>7. (call[d].at = "ok" => NextPage(call[d].id, call[d].data))'
    BY <1>3, <2>1, <2>2 DEF MoreFits, Carried, NextPage
  <2>. QED
    BY <2>3, <2>4, <2>5, <2>6, <2>7 DEF MoreFits
<1>11. InboxCalls'
  BY <1>4, <1>8, <1>9, <1>10 DEF InboxCalls
<1>12. NothingHidden'
  <2>. SUFFICES ASSUME inboxView.open, ~inboxView.uncleared, NEW n \in Kept, n <= inboxView.newest,
                       inboxView.cursor = NULL \/ n >= inboxView.cursor
                PROVE  Contains(inboxView.shown, n) \/ Outstanding("delete", n)' \/ n \in inboxView'.lost
    BY <1>3 DEF NothingHidden, ViewStays
  <2>1. Contains(inboxView.shown, n) \/ Outstanding("delete", n) \/ n \in inboxView.lost
    BY DEF NothingHidden
  <2>2. ASSUME NEW d \in InboxCall, call[d].op = "delete", call[d].id = n, call[d].mine
        PROVE  Contains(inboxView.shown, n) \/ Outstanding("delete", n)' \/ n \in inboxView'.lost
    BY <2>2 DEF Carried, Harmless, Outstanding, Mine
  <2>. QED
    BY <2>1, <2>2 DEF Outstanding, ViewStays
<1>. QED
  BY <1>1, <1>2, <1>11, <1>12
\* The requests, as they are made, repeated and dropped.
LEMMA RequestsTyped ==
  ASSUME InboxConstantsOK
  PROVE  /\ NULL \notin NoticeNo /\ NoticeNo \in SUBSET Nat
         /\ NoCall \in CallRec /\ NoCall.op = "none" /\ NoCall.mine = FALSE
         /\ \A op \in {"read", "delete", "more", "clear", "count"}, id \in NoticeNo \cup {NULL} :
              LET k == Ask(op, id) IN
              k \in CallRec /\ k.op = op /\ k.id = id /\ k.mine = TRUE /\ k.at = "sent"
<1>1. NULL \notin NoticeNo /\ NoticeNo \in SUBSET Nat
  BY DEF InboxConstantsOK, NoticeNo
<1>2. NoCall \in CallRec /\ NoCall.op = "none" /\ NoCall.mine = FALSE
  <2>1. FALSE \in BOOLEAN /\ 1 \in Nat \ {0}
    OBVIOUS
  <2>. QED
    BY <2>1 DEF NoCall, CallRec
<1>3. ASSUME NEW op \in {"read", "delete", "more", "clear", "count"}, NEW id \in NoticeNo \cup {NULL}
      PROVE  LET k == Ask(op, id) IN
             k \in CallRec /\ k.op = op /\ k.id = id /\ k.mine = TRUE /\ k.at = "sent"
  <2>1. TRUE \in BOOLEAN
    OBVIOUS
  <2>2. /\ Ask(op, id).op = op /\ Ask(op, id).id = id /\ Ask(op, id).mine = TRUE
        /\ Ask(op, id).at = "sent"
    BY DEF Ask, NoCall
  <2>3. Ask(op, id) \in CallRec
    BY <1>2, <2>1 DEF Ask, CallRec
  <2>. QED
    BY <2>2, <2>3
<1>. QED
  BY <1>1, <1>2, <1>3

LEMMA RequestTurns ==
  ASSUME InboxTypes, NEW c \in InboxCall, NEW r \in CallRec, call' = [call EXCEPT ![c] = r]
  PROVE  /\ call' \in [InboxCall -> CallRec] /\ call'[c] = r
         /\ \A d \in InboxCall : d # c => call'[d] = call[d]
BY DEF InboxTypes

\* What the requests carry goes on fitting while the table and the page stay.
LEMMA OthersFit ==
  ASSUME InboxIInv, mail' = mail, inboxView'.open = inboxView.open, NEW d \in InboxCall,
         call'[d] = call[d]
  PROVE  CallFits(call[d])'
BY DEF InboxIInv, InboxCalls, CallFits

\* An answer that has been heard is off the table, and the badge may be told.
LEMMA InboxHeard ==
  ASSUME InboxConstantsOK, InboxIInv, NEW c \in InboxCall, NEW tell, call' = Notified(c, tell),
         mail' = mail, inboxView'.open = inboxView.open
  PROVE  /\ call' \in [InboxCall -> CallRec] /\ \A d \in InboxCall : CallFits(call[d])'
         /\ \A d \in InboxCall : d # c => call'[d] = call[d] /\ Carried(d)
         /\ ~Mine(c, "delete")' /\ ~Mine(c, "more")' /\ ~Mine(c, "clear")'
<1>1. PICK r \in CallRec :
        /\ call' = [call EXCEPT ![c] = r] /\ r.op \in {"none", "count"} /\ (r.op = "count" => r.at = "sent")
        /\ r.mine => inboxView.open
  <2>1. CASE tell /\ inboxView.open
    <3>1. call' = [call EXCEPT ![c] = Ask("count", NULL)]
      BY <2>1 DEF Notified
    <3>2. /\ Ask("count", NULL) \in CallRec /\ Ask("count", NULL).op = "count"
          /\ Ask("count", NULL).at = "sent"
      BY RequestsTyped
    <3>. QED
      BY <2>1, <3>1, <3>2
  <2>2. CASE ~(tell /\ inboxView.open)
    <3>1. call' = [call EXCEPT ![c] = NoCall]
      BY <2>2 DEF Notified
    <3>. QED
      BY <3>1, RequestsTyped
  <2>. QED
    BY <2>1, <2>2
<1>2. call' \in [InboxCall -> CallRec] /\ call'[c] = r /\ \A d \in InboxCall : d # c => call'[d] = call[d]
  BY <1>1, RequestTurns DEF InboxIInv
<1>3. CallFits(call[c])'
  BY <1>1, <1>2 DEF CallFits
<1>4. \A d \in InboxCall : CallFits(call[d])'
  BY <1>2, <1>3, OthersFit
<1>. QED
  BY <1>1, <1>2, <1>4 DEF Mine, Carried

\* A view stays what it is when nothing of it changes.
LEMMA ViewKept ==
  ASSUME InboxIInv, inboxView' = inboxView PROVE ViewStays
BY DEF InboxIInv, InboxTypes, ViewStays

\* A request that fails or is lost changes no more than its stage.
LEMMA RequestFails ==
  ASSUME InboxConstantsOK, InboxIInv, NEW c \in InboxCall, RefuseCall(c) \/ LoseCall(c)
  PROVE  InboxIInv'
<1>1. PICK stage \in {"bad", "lost"} :
        /\ call' = [call EXCEPT ![c].at = stage]
        /\ stage = "bad" => call[c].at = "sent"
  BY DEF RefuseCall, LoseCall
<1>2. mail' = mail /\ unread' = unread /\ inboxView' = inboxView
  BY DEF RefuseCall, LoseCall
<1>3. call \in [InboxCall -> CallRec] /\ call[c] \in CallRec
  BY DEF InboxIInv, InboxTypes
<1>. DEFINE r == [call[c] EXCEPT !.at = stage]
<1>4. /\ r \in CallRec /\ r.op = call[c].op /\ r.id = call[c].id /\ r.mine = call[c].mine
      /\ r.at = stage /\ r.data = call[c].data
  BY <1>3 DEF CallRec
<1>5. call' = [call EXCEPT ![c] = r]
  BY <1>1, <1>3
<1>. HIDE DEF r
<1>6. call' \in [InboxCall -> CallRec] /\ call'[c] = r /\ \A d \in InboxCall : d # c => call'[d] = call[d]
  BY <1>4, <1>5, RequestTurns DEF InboxIInv
<1>7. CallFits(call[c])'
  BY <1>1, <1>2, <1>4, <1>6 DEF CallFits, InboxIInv, InboxCalls
<1>8. \A d \in InboxCall : CallFits(call[d])'
  BY <1>2, <1>6, <1>7, OthersFit
<1>9. \A d \in InboxCall : Carried(d)
  BY <1>4, <1>6 DEF Carried
<1>10. unread' \in 0..LastNotice
  BY <1>2 DEF InboxIInv, InboxTypes
<1>. QED
  BY <1>2, <1>6, <1>8, <1>9, <1>10, ViewKept, QuietSteps

\* The answers that leave the lists as they are.
LEMMA QuietAnswers ==
  ASSUME InboxConstantsOK, InboxIInv, NEW c \in InboxCall,
         \/ ReadAnswered(c) \/ CountAnswered(c)
         \/ DeleteAnswered(c) /\ ~(call[c].mine /\ call[c].at = "bad")
         \/ MoreAnswered(c) /\ ~(call[c].mine /\ call[c].at = "ok")
         \/ ClearAnswered(c) /\ (~call[c].mine \/ call[c].at = "lost")
  PROVE  InboxIInv'
<1>. USE DEF InboxIInv
<1>1. /\ inboxView \in ViewRec /\ call[c] \in CallRec /\ unread \in 0..LastNotice
      /\ CallFits(call[c])
  BY DEF InboxTypes, InboxCalls
<1>2. mail' = mail /\ \E tell : call' = Notified(c, tell)
  BY DEF ReadAnswered, CountAnswered, DeleteAnswered, MoreAnswered, ClearAnswered
<1>3. unread' \in 0..LastNotice
  <2>1. CASE CountAnswered(c)
    <3>1. call[c].at = "ok" => call[c].data \in 0..LastNotice
      BY <1>1, <2>1 DEF CountAnswered, CallFits
    <3>2. 0 \in 0..LastNotice
      BY DEF InboxConstantsOK
    <3>. QED
      BY <1>1, <2>1, <3>1, <3>2 DEF CountAnswered
  <2>2. CASE unread' = unread
    BY <1>1, <2>2
  <2>. QED
    BY <2>1, <2>2 DEF ReadAnswered, DeleteAnswered, MoreAnswered, ClearAnswered
<1>4. inboxView'.open = inboxView.open
  BY <1>1 DEF ReadAnswered, CountAnswered, DeleteAnswered, MoreAnswered, ClearAnswered, ViewRec
<1>5. /\ call' \in [InboxCall -> CallRec] /\ \A d \in InboxCall : CallFits(call[d])'
      /\ \A d \in InboxCall : d # c => call'[d] = call[d] /\ Carried(d)
      /\ ~Mine(c, "delete")' /\ ~Mine(c, "more")' /\ ~Mine(c, "clear")'
  BY <1>2, <1>4, InboxHeard
<1>6. ViewStays
  <2>1. CASE inboxView' = inboxView
    BY <2>1, ViewKept
  <2>2. CASE ReadAnswered(c) /\ inboxView' # inboxView
    <3>1. inboxView' = [inboxView EXCEPT !.fresh = @ \cup {call[c].id}] /\ call[c].id \in NoticeNo
      BY <1>1, <2>2 DEF ReadAnswered, CallFits
    <3>. QED
      BY <1>1, <3>1 DEF ViewStays, ViewRec
  <2>3. CASE DeleteAnswered(c) /\ inboxView' # inboxView
    <3>1. /\ inboxView' = [inboxView EXCEPT !.lost = @ \cup {n \in {call[c].id} : call[c].at = "lost"}]
          /\ call[c].id \in NoticeNo
      BY <1>1, <2>3 DEF DeleteAnswered, CallFits, ReadAnswered, CountAnswered, MoreAnswered, ClearAnswered
    <3>. QED
      BY <1>1, <3>1 DEF ViewStays, ViewRec
  <2>4. CASE MoreAnswered(c) /\ inboxView' # inboxView
    <3>1. inboxView' = [inboxView EXCEPT !.loading = FALSE] /\ Mine(c, "more")
      BY <2>4 DEF MoreAnswered, Mine, ReadAnswered, CountAnswered, DeleteAnswered, ClearAnswered
    <3>2. \A d \in InboxCall : ~Mine(d, "more")'
      BY <1>5, <3>1 DEF InboxCalls, OneAtATime, Mine
    <3>. QED
      BY <1>1, <3>1, <3>2 DEF ViewStays, ViewRec
  <2>. QED
    BY <2>1, <2>2, <2>3, <2>4 DEF CountAnswered, ClearAnswered
<1>7. Harmless(c)
  <2>1. ASSUME Mine(c, "delete") PROVE call[c].id \notin Kept \/ call[c].id \in inboxView'.lost
    <3>1. DeleteAnswered(c) /\ call[c].at \in {"ok", "lost"}
      BY <2>1, <1>1 DEF Mine, ReadAnswered, CountAnswered, MoreAnswered, ClearAnswered, DeleteAnswered, CallRec
    <3>2. CASE call[c].at = "ok"
      BY <1>1, <2>1, <3>1, <3>2 DEF CallFits, Mine, Kept
    <3>3. CASE call[c].at = "lost"
      BY <1>1, <2>1, <3>1, <3>3 DEF DeleteAnswered, Mine, ViewRec
    <3>. QED
      BY <3>1, <3>2, <3>3
  <2>. QED
    BY <1>5, <2>1 DEF Harmless
<1>. QED
  BY <1>2, <1>3, <1>5, <1>6, <1>7, QuietSteps
\* Two requests made at once.
LEMMA TwoTurn ==
  ASSUME InboxTypes, NEW b \in InboxCall, NEW c \in InboxCall, NEW r \in CallRec, NEW s \in CallRec,
         call' = [call EXCEPT ![b] = r, ![c] = s]
  PROVE  /\ call' \in [InboxCall -> CallRec] /\ call'[c] = s /\ (b # c => call'[b] = r)
         /\ \A d \in InboxCall : d # b /\ d # c => call'[d] = call[d]
BY DEF InboxTypes

\* What the buttons ask.
IsAsk(k, op, id) == k \in CallRec /\ k.op = op /\ k.id = id /\ k.mine = TRUE /\ k.at = "sent"
LEMMA RowAsked ==
  ASSUME InboxConstantsOK, NEW n \in NoticeNo
  PROVE  /\ IsAsk(Ask("read", n), "read", n) /\ IsAsk(Ask("delete", n), "delete", n)
         /\ IsAsk(Ask("more", n), "more", n)
         /\ IsAsk(Ask("count", NULL), "count", NULL) /\ IsAsk(Ask("clear", NULL), "clear", NULL)
<1>1. n \in NoticeNo \cup {NULL} /\ NULL \in NoticeNo \cup {NULL}
  OBVIOUS
<1>2. \A op \in {"read", "delete", "more", "clear", "count"}, id \in NoticeNo \cup {NULL} :
        IsAsk(Ask(op, id), op, id)
  BY RequestsTyped DEF IsAsk
<1>. QED
  BY <1>1, <1>2

\* A row that is read.
LEMMA RowClicked ==
  ASSUME InboxConstantsOK, InboxIInv, NEW n \in NoticeNo, NEW c \in InboxCall, NEW b \in InboxCall,
         ClickRow(n, c, b)
  PROVE  InboxIInv'
<1>. USE DEF InboxIInv
<1>1. /\ inboxView \in ViewRec /\ unread \in 0..LastNotice
  BY DEF InboxTypes
<1>2. /\ Ask("count", NULL) \in CallRec /\ Ask("count", NULL).op = "count" /\ Ask("count", NULL).at = "sent"
      /\ Ask("read", n) \in CallRec /\ Ask("read", n).op = "read" /\ Ask("read", n).id = n
  BY RowAsked DEF IsAsk
<1>3. /\ call' \in [InboxCall -> CallRec] /\ call'[c] = Ask("read", n) /\ call'[b] = Ask("count", NULL)
      /\ \A d \in InboxCall : d # b /\ d # c => call'[d] = call[d]
  BY <1>2, TwoTurn DEF ClickRow
<1>4. /\ inboxView' = [inboxView EXCEPT !.fresh = @ \ {n}] /\ inboxView.open /\ mail' = mail
      /\ unread' = unread /\ call[b].op = "none" /\ call[c].op = "none" /\ b # c
  BY DEF ClickRow, Usable, IdleCall
<1>5. ViewStays
  BY <1>1, <1>4 DEF ViewStays, ViewRec
<1>6. \A d \in InboxCall : CallFits(call[d])'
  <2>1. CallFits(call[b])' /\ CallFits(call[c])'
    BY <1>2, <1>3, <1>4, <1>5 DEF CallFits, ViewStays
  <2>2. inboxView'.open = inboxView.open
    BY <1>5 DEF ViewStays
  <2>. QED
    BY <1>3, <1>4, <2>1, <2>2, OthersFit
<1>7. \A d \in InboxCall : Carried(d) \/ Harmless(d)
  <2>1. Harmless(b) /\ Harmless(c)
    BY <1>2, <1>3, <1>4 DEF Harmless, Mine
  <2>. QED
    BY <1>3, <2>1 DEF Carried
<1>. QED
  BY <1>1, <1>3, <1>4, <1>5, <1>6, <1>7, QuietSteps

\* The question before Clear all.
LEMMA ClearAsked ==
  ASSUME InboxConstantsOK, InboxIInv, AskClear \/ CancelClear
  PROVE  InboxIInv'
<1>. USE DEF InboxIInv
<1>1. PICK answer \in {"no", "asks"} :
        inboxView' = [inboxView EXCEPT !.dialog = answer] /\ (answer = "asks" => inboxView.open)
  BY DEF AskClear, CancelClear, Usable
<1>2. mail' = mail /\ unread' = unread /\ call' = call /\ inboxView.dialog # "clears"
  BY DEF AskClear, CancelClear, Usable
<1>3. inboxView \in ViewRec /\ unread \in 0..LastNotice /\ call \in [InboxCall -> CallRec]
  BY DEF InboxTypes
<1>4. ViewStays
  BY <1>1, <1>2, <1>3 DEF ViewStays, ViewRec
<1>5. \A d \in InboxCall : CallFits(call[d])' /\ Carried(d)
  BY <1>2, <1>4, OthersFit DEF ViewStays, Carried
<1>. QED
  BY <1>2, <1>3, <1>4, <1>5, QuietSteps

\* A page that is not there, or only just: none of its requests is under way.
LEMMA NoneMine ==
  ASSUME InboxConstantsOK, InboxIInv, mail' = mail, unread' \in 0..LastNotice, inboxView' \in ViewRec,
         call' \in [InboxCall -> CallRec], \A d \in InboxCall : CallFits(call[d])',
         \A d \in InboxCall : ~Mine(d, "delete")' /\ ~Mine(d, "more")' /\ ~Mine(d, "clear")',
         \A n \in NoticeNo : n <= inboxView'.newest => mail[n] # "unsent",
         ListsFit', NothingHidden'
  PROVE  InboxIInv'
<1>. USE DEF InboxIInv
<1>1. InboxTypes'
  BY DEF InboxTypes, MailFits
<1>2. InboxCalls'
  BY DEF InboxCalls, ClearFits, MoreFits, DeleteFits, OneAtATime
<1>. QED
  BY <1>1, <1>2

LEMMA EmptyPage ==
  ASSUME InboxConstantsOK
  PROVE  NoPage \in ViewRec /\ IsInjective(<<>>) /\ \A m : ~Contains(<<>>, m)
<1>1. IsInjective(<<>>) /\ \A m : ~Contains(<<>>, m)
  BY DEF IsInjective, Contains
<1>2. <<>> \in Seq(NoticeNo) /\ {} \in SUBSET NoticeNo /\ FALSE \in BOOLEAN /\ 0 \in Nat
  OBVIOUS
<1>3. NoPage \in ViewRec
  BY <1>2 DEF NoPage, ViewRec
<1>. QED
  BY <1>1, <1>3

LEMMA PageLeft ==
  ASSUME InboxConstantsOK, InboxIInv,
         LeaveInbox \/ \E n \in NoticeNo, c \in InboxCall : FollowRow(n, c)
  PROVE  InboxIInv'
<1>. USE DEF InboxIInv
<1>1. inboxView' = NoPage /\ unread' = 0 /\ mail' = mail
  BY DEF LeaveInbox, FollowRow
<1>2. call \in [InboxCall -> CallRec] /\ 0 \in 0..LastNotice
  BY DEF InboxTypes, InboxConstantsOK
<1>3. /\ Disowned \in [InboxCall -> CallRec]
      /\ \A d \in InboxCall : Disowned[d].mine = FALSE /\ CallFits(Disowned[d])
  <2>1. ASSUME NEW d \in InboxCall
        PROVE  [call[d] EXCEPT !.mine = FALSE] \in CallRec
    <3>1. FALSE \in BOOLEAN /\ call[d] \in CallRec
      BY <1>2
    <3>. QED
      BY <3>1 DEF CallRec
  <2>2. ASSUME NEW d \in InboxCall
        PROVE  Disowned[d].mine = FALSE /\ CallFits(Disowned[d])
    <3>1. call[d] \in CallRec /\ CallFits(call[d])
      BY <1>2 DEF InboxCalls
    <3>2. Disowned[d] = [call[d] EXCEPT !.mine = FALSE]
      BY DEF Disowned
    <3>3. /\ Disowned[d].mine = FALSE /\ Disowned[d].op = call[d].op /\ Disowned[d].at = call[d].at
          /\ Disowned[d].id = call[d].id /\ Disowned[d].data = call[d].data
      BY <3>1, <3>2 DEF CallRec
    <3>. QED
      BY <3>1, <3>3 DEF CallFits
  <2>. QED
    BY <2>1, <2>2 DEF Disowned
<1>4. /\ call' \in [InboxCall -> CallRec]
      /\ \A d \in InboxCall : call'[d].mine = FALSE /\ CallFits(call[d])'
  <2>1. CASE LeaveInbox
    BY <1>1, <1>3, <2>1 DEF LeaveInbox, CallFits
  <2>2. ASSUME NEW n \in NoticeNo, NEW c \in InboxCall, FollowRow(n, c)
        PROVE  /\ call' \in [InboxCall -> CallRec]
               /\ \A d \in InboxCall : call'[d].mine = FALSE /\ CallFits(call[d])'
    <3>. DEFINE r == [Ask("read", n) EXCEPT !.mine = FALSE]
    <3>1. r \in CallRec /\ r.mine = FALSE /\ r.op = "read" /\ r.id = n
      <4>1. Ask("read", n) \in CallRec /\ Ask("read", n).op = "read" /\ Ask("read", n).id = n
        BY RowAsked DEF IsAsk
      <4>. QED
        BY <4>1 DEF CallRec
    <3>2. call' = [Disowned EXCEPT ![c] = r]
      BY <2>2 DEF FollowRow
    <3>. HIDE DEF r
    <3>3. /\ call' \in [InboxCall -> CallRec] /\ call'[c] = r
          /\ \A d \in InboxCall : d # c => call'[d] = Disowned[d]
      BY <1>3, <3>1, <3>2
    <3>4. CallFits(call[c])'
      BY <3>1, <3>3 DEF CallFits
    <3>. QED
      BY <1>1, <1>3, <3>1, <3>3, <3>4 DEF CallFits
  <2>. QED
    BY <2>1, <2>2
<1>5. ListsFit' /\ NothingHidden' /\ inboxView'.newest = 0
  BY <1>1, EmptyPage DEF NoPage, ListsFit, ListFits, NothingHidden
<1>6. \A n \in NoticeNo : ~(n <= inboxView'.newest)
  BY <1>5 DEF NoticeNo
<1>. QED
  BY <1>1, <1>2, <1>4, <1>5, <1>6, EmptyPage, NoneMine DEF Mine

LEMMA PageOpened ==
  ASSUME InboxConstantsOK, InboxIInv, NEW c \in InboxCall, OpenInbox(c)
  PROVE  InboxIInv'
<1>. USE DEF InboxIInv
<1>. DEFINE leaf == PageBelow(NULL)
            newest == IF leaf.items = <<>> THEN 0 ELSE Head(leaf.items)
<1>. HIDE DEF leaf
<1>1. /\ leaf \in PageRec /\ IsInjective(leaf.items)
      /\ \A m \in NoticeNo : Contains(leaf.items, m) => m \in Kept /\ (leaf.next # NULL => m >= leaf.next)
      /\ leaf.next # NULL => Contains(leaf.items, leaf.next)
      /\ \A n \in Kept : leaf.next = NULL \/ n >= leaf.next => Contains(leaf.items, n)
      /\ leaf.items # <<>> => /\ Head(leaf.items) \in NoticeNo /\ Contains(leaf.items, Head(leaf.items))
                              /\ \A m \in NoticeNo : Contains(leaf.items, m) => m <= Head(leaf.items)
  BY PageFits DEF leaf
<1>2. /\ inboxView' = [NoPage EXCEPT !.open = TRUE, !.shown = leaf.items, !.fresh = leaf.fresh,
                                     !.cursor = leaf.next, !.newest = newest]
      /\ call' = [call EXCEPT ![c] = Ask("count", NULL)] /\ mail' = mail /\ unread' = unread
      /\ ~inboxView.open
  BY DEF OpenInbox, leaf
<1>3. newest \in Nat /\ (newest # 0 => newest \in NoticeNo /\ Contains(leaf.items, newest))
  <2>1. NoticeNo \in SUBSET Nat /\ 0 \notin NoticeNo
    BY RequestsTyped DEF NoticeNo
  <2>. QED
    BY <1>1, <2>1
<1>4. leaf.items = <<>> => \A m : ~Contains(leaf.items, m)
  BY EmptyPage
<1>5. \A m \in NoticeNo : Contains(leaf.items, m) => m <= newest
  BY <1>1, <1>4
<1>. HIDE DEF newest
<1>6. /\ leaf.items \in Seq(NoticeNo) /\ leaf.fresh \in SUBSET NoticeNo /\ leaf.next \in NoticeNo \cup {NULL}
  BY <1>1 DEF PageRec
<1>7. /\ inboxView' \in ViewRec /\ inboxView'.open = TRUE /\ inboxView'.shown = leaf.items
      /\ inboxView'.cursor = leaf.next /\ inboxView'.newest = newest /\ inboxView'.held = <<>>
      /\ inboxView'.heldCursor = NULL /\ inboxView'.dialog = "no"
  <2>1. NoPage \in ViewRec /\ TRUE \in BOOLEAN
    BY EmptyPage
  <2>2. inboxView' \in ViewRec
    BY <1>2, <1>3, <1>6, <2>1 DEF ViewRec
  <2>. QED
    BY <1>2, <2>2 DEF NoPage
<1>8. /\ Ask("count", NULL) \in CallRec /\ Ask("count", NULL).op = "count" /\ Ask("count", NULL).at = "sent"
  BY RequestsTyped
<1>9. /\ call' \in [InboxCall -> CallRec] /\ call'[c] = Ask("count", NULL)
      /\ \A d \in InboxCall : d # c => call'[d] = call[d]
  BY <1>2, <1>8, RequestTurns
<1>10. \A d \in InboxCall : CallFits(call[d])'
  <2>1. CallFits(call[c])'
    BY <1>7, <1>8, <1>9 DEF CallFits
  <2>2. ASSUME NEW d \in InboxCall, d # c PROVE CallFits(call[d])'
    BY <1>2, <1>7, <1>9, <2>2 DEF CallFits, InboxCalls
  <2>. QED
    BY <2>1, <2>2
<1>11. \A d \in InboxCall : ~Mine(d, "delete")' /\ ~Mine(d, "more")' /\ ~Mine(d, "clear")'
  BY <1>2, <1>8, <1>9 DEF Mine, InboxCalls, CallFits
<1>12. \A n \in NoticeNo : n <= newest => mail[n] # "unsent"
  <2>. SUFFICES ASSUME NEW n \in NoticeNo, n <= newest PROVE mail[n] # "unsent"
    OBVIOUS
  <2>1. newest \in NoticeNo /\ newest \in Kept
    <3>1. n \in Nat /\ n # 0
      BY DEF NoticeNo
    <3>2. newest # 0
      BY <1>3, <3>1
    <3>. QED
      BY <1>1, <1>3, <3>2
  <2>2. mail[newest] # "unsent"
    BY <2>1 DEF Kept
  <2>. QED
    BY <2>1, <2>2 DEF InboxTypes, MailFits
<1>13. ListsFit'
  <2>1. ListFits(inboxView.shown, inboxView.cursor)'
    <3>1. leaf.next # NULL => leaf.next <= newest
      BY <1>1, <1>5, <1>6
    <3>. QED
      BY <1>1, <1>7, <3>1 DEF ListFits, AboveOnly
  <2>2. ListFits(inboxView.held, inboxView.heldCursor)'
    BY <1>7, EmptyPage DEF ListFits
  <2>. QED
    BY <1>7, <2>1, <2>2 DEF ListsFit
<1>14. NothingHidden'
  <2>1. Kept' = Kept
    BY <1>2 DEF Kept
  <2>. QED
    BY <1>1, <1>7, <2>1 DEF NothingHidden
<1>15. unread' \in 0..LastNotice
  BY <1>2 DEF InboxTypes
<1>. QED
  BY <1>2, <1>7, <1>9, <1>10, <1>11, <1>12, <1>13, <1>14, <1>15, NoneMine
\* A notification that arrives is above everything the page has come to.
LEMMA NoticeArrives ==
  ASSUME InboxConstantsOK, InboxIInv, Arrive
  PROVE  InboxIInv'
<1>. USE DEF InboxIInv
<1>1. PICK n \in NoticeNo : /\ mail[n] = "unsent" /\ \A m \in 1..(n - 1) : mail[m] # "unsent"
                            /\ mail' = [mail EXCEPT ![n] = "unread"] /\ UNCHANGED <<inboxView, unread, call>>
  BY DEF Arrive
<1>2. NoticeNo \in SUBSET Nat /\ \A m \in NoticeNo : m < n => m \in 1..(n - 1)
  BY RequestsTyped DEF NoticeNo
<1>3. MailFits /\ \A m \in NoticeNo : mail'[m] = IF m = n THEN "unread" ELSE mail[m]
  BY <1>1 DEF InboxTypes, MailFits
<1>4. \A m \in NoticeNo : m <= inboxView.newest => m < n
  BY <1>1, <1>2, <1>3 DEF MailFits, InboxTypes, ViewRec
<1>5. MailFits'
  <2>1. mail' \in [NoticeNo -> {"unsent", "unread", "read", "gone"}]
    BY <1>1, <1>3 DEF MailFits
  <2>2. ASSUME NEW k \in NoticeNo, NEW m \in NoticeNo, m <= k, mail'[k] # "unsent" PROVE mail'[m] # "unsent"
    BY <1>1, <1>2, <1>3, <2>2 DEF MailFits
  <2>3. \A k \in NoticeNo : k <= inboxView'.newest => mail'[k] # "unsent"
    BY <1>1, <1>3 DEF MailFits
  <2>. QED
    BY <2>1, <2>2, <2>3 DEF MailFits
<1>6. InboxTypes'
  BY <1>1, <1>5 DEF InboxTypes
<1>7. ListsFit'
  BY <1>1 DEF ListsFit, ListFits, AboveOnly
<1>8. Emptied <=> Emptied'
  BY <1>1, <1>3, <1>4 DEF Emptied
<1>9. \A m : m \in Kept' => m \in Kept \/ m = n
  BY <1>3 DEF Kept
<1>10. InboxCalls'
  <2>1. \A c \in InboxCall : CallFits(call[c])'
    BY <1>1, <1>3 DEF InboxCalls, CallFits, InboxTypes
  <2>2. \A c \in InboxCall : ClearFits(c)'
    BY <1>1, <1>8 DEF InboxCalls, ClearFits, Mine
  <2>3. \A c \in InboxCall : DeleteFits(c)'
    BY <1>1 DEF InboxCalls, DeleteFits, Mine
  <2>4. OneAtATime'
    BY <1>1 DEF InboxCalls, OneAtATime, Mine
  <2>5. \A c \in InboxCall : MoreFits(c)'
    <3>. SUFFICES ASSUME NEW c \in InboxCall, Mine(c, "more") PROVE MoreFits(c)'
      BY <1>1 DEF MoreFits, Mine
    <3>1. MoreFits(c) /\ CallFits(call[c])
      BY DEF InboxCalls
    <3>2. call[c].id \in NoticeNo /\ call[c].id <= inboxView.newest
      BY <3>1 DEF CallFits, Mine, MoreFits
    <3>3. ~(n < call[c].id)
      <4>1. call[c].id < n /\ n \in Nat /\ call[c].id \in Nat
        BY <3>2, <1>2, <1>4
      <4>. QED
        BY <4>1
    <3>4. (call[c].at = "ok" => NextPage(call[c].id, call[c].data))'
      BY <1>1, <1>9, <3>1, <3>3 DEF MoreFits, NextPage
    <3>5. Swept \/ inboxView.cursor = call[c].id => (Swept \/ inboxView.cursor = call[c].id)'
      BY <1>1, <1>8 DEF Swept
    <3>6. /\ (AboveOnly(call[c].id, inboxView.shown) /\ AboveOnly(call[c].id, inboxView.held))'
          /\ (\A d \in InboxCall : Mine(d, "delete") => call[d].id >= call[c].id)'
      BY <1>1, <3>1 DEF MoreFits, AboveOnly, Mine
    <3>. QED
      BY <1>1, <3>1, <3>4, <3>5, <3>6 DEF MoreFits, Mine
  <2>. QED
    BY <2>1, <2>2, <2>3, <2>4, <2>5 DEF InboxCalls
<1>11. NothingHidden'
  <2>1. \A m \in Kept' : m <= inboxView.newest => m \in Kept
    BY <1>2, <1>4, <1>9
  <2>. QED
    BY <1>1, <2>1 DEF NothingHidden, Outstanding
<1>. QED
  BY <1>6, <1>7, <1>10, <1>11

\* The table loses, and never gets back, what requests do to it.
LEMMA RequestServed ==
  ASSUME InboxConstantsOK, InboxIInv, NEW c \in InboxCall, Serve(c)
  PROVE  InboxIInv'
<1>. USE DEF InboxIInv
<1>. DEFINE k == call[c]
            r == [k EXCEPT !.at = IF FoundRow(k) THEN "ok" ELSE "bad", !.data = Reply(k)]
<1>1. /\ call[c].op # "none" /\ call[c].at = "sent" /\ mail' = Applied(call[c])
      /\ inboxView' = inboxView /\ unread' = unread
  BY DEF Serve
<1>2. /\ call \in [InboxCall -> CallRec] /\ call[c] \in CallRec /\ CallFits(call[c])
      /\ mail \in [NoticeNo -> {"unsent", "unread", "read", "gone"}] /\ MailFits
      /\ NoticeNo \in SUBSET Nat /\ NULL \notin NoticeNo
  BY RequestsTyped DEF InboxTypes, InboxCalls, MailFits
<1>3. \A n \in NoticeNo :
        mail'[n] = IF n \notin Kept THEN mail[n]
                   ELSE IF k.op = "clear" \/ (k.op = "delete" /\ k.id = n) THEN "gone"
                   ELSE IF k.op = "read" /\ k.id = n THEN "read" ELSE mail[n]
  BY <1>1 DEF Applied
<1>4. mail' \in [NoticeNo -> {"unsent", "unread", "read", "gone"}]
  BY <1>1, <1>2 DEF Applied
<1>5. \A n \in NoticeNo : /\ (mail'[n] = "unsent" <=> mail[n] = "unsent")
                          /\ (mail[n] = "gone" => mail'[n] = "gone")
                          /\ (n \in Kept' => n \in Kept)
  BY <1>2, <1>3, <1>4 DEF Kept
<1>6. MailFits'
  BY <1>1, <1>2, <1>4, <1>5 DEF MailFits
<1>7. Emptied => Emptied'
  BY <1>1, <1>5 DEF Emptied
<1>8. k.op = "more" => PageBelow(k.id) \in PageRec /\ NextPage(k.id, PageBelow(k.id))
  <2>. SUFFICES ASSUME k.op = "more" PROVE PageBelow(k.id) \in PageRec /\ NextPage(k.id, PageBelow(k.id))
    OBVIOUS
  <2>1. k.id \in NoticeNo /\ k.id # NULL
    BY <1>2 DEF CallFits
  <2>2. k.id \in NoticeNo \cup {NULL}
    BY <2>1
  <2>. DEFINE p == PageBelow(k.id)
  <2>. HIDE DEF p, k
  <2>3. /\ p \in PageRec /\ IsInjective(p.items)
        /\ \A m \in NoticeNo : Contains(p.items, m) =>
              /\ m \in Kept /\ (k.id # NULL => m < k.id) /\ (p.next # NULL => m >= p.next)
        /\ p.next # NULL => Contains(p.items, p.next) /\ (k.id # NULL => p.next < k.id)
        /\ \A n \in Kept : (k.id = NULL \/ n < k.id) /\ (p.next = NULL \/ n >= p.next) => Contains(p.items, n)
    BY <2>2, PageFits DEF p
  <2>. QED
    BY <2>1, <2>3 DEF NextPage, p
<1>9. k.op = "count" => Reply(k) \in 0..LastNotice
  <2>1. Unread \in SUBSET NoticeNo
    BY DEF Unread
  <2>2. Cardinality(Unread) \in Nat /\ Cardinality(Unread) <= LastNotice
    BY <2>1, NoticesFinite
  <2>3. Cardinality(Unread) \in 0..LastNotice
    BY <2>2 DEF InboxConstantsOK
  <2>. QED
    BY <2>3 DEF Reply
<1>10. Reply(k) \in {NULL} \cup (SUBSET NoticeNo) \cup Nat \cup PageRec
  <2>1. k.op = "more" => Reply(k) = PageBelow(k.id)
    BY DEF Reply
  <2>2. k.op # "more" /\ k.op # "count" => Reply(k) = NULL
    BY DEF Reply
  <2>3. k.op = "count" => Reply(k) \in Nat
    BY <1>9
  <2>. DEFINE reply == Reply(k)
  <2>4. CASE k.op = "more"
    <3>1. reply \in PageRec
      BY <1>8, <2>1, <2>4
    <3>. HIDE DEF reply
    <3>2. reply \in {NULL} \cup (SUBSET NoticeNo) \cup Nat \cup PageRec
      BY <3>1
    <3>. QED
      BY <3>2 DEF reply
  <2>5. CASE k.op = "count"
    <3>1. reply \in Nat
      BY <2>3, <2>5
    <3>. HIDE DEF reply
    <3>2. reply \in {NULL} \cup (SUBSET NoticeNo) \cup Nat \cup PageRec
      BY <3>1
    <3>. QED
      BY <3>2 DEF reply
  <2>. QED
    BY <2>2, <2>4, <2>5
<1>11. /\ r \in CallRec /\ r.op = k.op /\ r.id = k.id /\ r.mine = k.mine /\ r.data = Reply(k)
       /\ r.at = IF FoundRow(k) THEN "ok" ELSE "bad"
  BY <1>2, <1>10 DEF CallRec
<1>12. call' = [call EXCEPT ![c] = r]
  BY <1>1, <1>2 DEF Serve
<1>. HIDE DEF r
<1>13. /\ call' \in [InboxCall -> CallRec] /\ call'[c] = r
       /\ \A d \in InboxCall : d # c => call'[d] = call[d]
  BY <1>11, <1>12, RequestTurns
<1>14. \A d \in InboxCall : call'[d].op = call[d].op /\ call'[d].id = call[d].id /\ call'[d].mine = call[d].mine
  BY <1>11, <1>13
<1>15. InboxTypes'
  BY <1>1, <1>6, <1>13 DEF InboxTypes
<1>16. ListsFit'
  BY <1>1 DEF ListsFit, ListFits, AboveOnly
<1>17. \A d \in InboxCall : \A op : Mine(d, op)' <=> Mine(d, op)
  BY <1>14 DEF Mine
<1>18. \A d \in InboxCall : CallFits(call[d])'
  <2>1. ASSUME NEW d \in InboxCall, d # c PROVE CallFits(call[d])'
    BY <1>1, <1>5, <1>13, <2>1 DEF InboxCalls, CallFits
  <2>2. CallFits(call[c])'
    <3>1. k.op = "delete" /\ FoundRow(k) => mail'[k.id] = "gone"
      BY <1>2, <1>3 DEF FoundRow, CallFits
    <3>2. k.op = "clear" => FoundRow(k)
      BY DEF FoundRow
    <3>3. k.op = "more" => Reply(k) \in PageRec
      BY <1>8 DEF Reply
    <3>. QED
      BY <1>1, <1>2, <1>9, <1>11, <1>13, <3>1, <3>2, <3>3 DEF CallFits
  <2>. QED
    BY <2>1, <2>2
<1>19. \A d \in InboxCall : ClearFits(d)'
  <2>1. ASSUME NEW d \in InboxCall, d # c PROVE ClearFits(d)'
    BY <1>1, <1>7, <1>13, <1>17, <2>1 DEF InboxCalls, ClearFits
  <2>2. ClearFits(c)'
    <3>1. k.op = "clear" => Emptied'
      BY <1>1, <1>2, <1>3, <1>5 DEF Emptied, MailFits, Kept
    <3>. QED
      BY <1>1, <1>17, <3>1 DEF InboxCalls, ClearFits, Mine
  <2>. QED
    BY <2>1, <2>2
<1>20. \A d \in InboxCall : DeleteFits(d)'
  BY <1>1, <1>14, <1>17 DEF InboxCalls, DeleteFits
<1>21. OneAtATime'
  BY <1>14, <1>17 DEF InboxCalls, OneAtATime
<1>22. \A d \in InboxCall : MoreFits(d)'
  <2>. SUFFICES ASSUME NEW d \in InboxCall, Mine(d, "more") PROVE MoreFits(d)'
    BY <1>17 DEF MoreFits
  <2>1. MoreFits(d)
    BY DEF InboxCalls
  <2>2. call'[d].id = call[d].id /\ inboxView' = inboxView
    BY <1>1, <1>14
  <2>3. (Swept \/ inboxView.cursor = call[d].id)'
    BY <1>7, <2>1, <2>2 DEF MoreFits, Swept
  <2>4. /\ (AboveOnly(call[d].id, inboxView.shown) /\ AboveOnly(call[d].id, inboxView.held))'
        /\ (\A e \in InboxCall : Mine(e, "delete") => call[e].id >= call[d].id)'
    BY <1>14, <1>17, <2>1, <2>2 DEF MoreFits, AboveOnly
  <2>5. (call[d].at = "ok" => NextPage(call[d].id, call[d].data))'
    <3>. SUFFICES ASSUME call'[d].at = "ok" PROVE NextPage(call[d].id, call[d].data)'
      OBVIOUS
    <3>1. CASE d = c
      <4>1. call'[c].data = PageBelow(k.id) /\ NextPage(k.id, PageBelow(k.id)) /\ call'[c].id = k.id
        BY <1>8, <1>11, <1>13, <3>1 DEF Mine, Reply
      <4>. DEFINE p == PageBelow(k.id)
      <4>. HIDE DEF p
      <4>2. call'[c].data = p /\ NextPage(k.id, p)
        BY <4>1 DEF p
      <4>3. \A n \in Kept' : n \in Kept
        BY <1>5 DEF Kept
      <4>. QED
        BY <3>1, <4>1, <4>2, <4>3 DEF NextPage
    <3>2. CASE d # c
      <4>1. call'[d] = call[d] /\ NextPage(call[d].id, call[d].data)
        BY <1>13, <2>1, <3>2 DEF MoreFits
      <4>2. \A n \in Kept' : n \in Kept
        BY <1>5 DEF Kept
      <4>. QED
        BY <4>1, <4>2 DEF NextPage
    <3>. QED
      BY <3>1, <3>2
  <2>. QED
    BY <1>17, <2>1, <2>2, <2>3, <2>4, <2>5 DEF MoreFits
<1>23. InboxCalls'
  BY <1>18, <1>19, <1>20, <1>21, <1>22 DEF InboxCalls
<1>24. NothingHidden'
  <2>. SUFFICES ASSUME inboxView.open, ~inboxView.uncleared, NEW n \in Kept', n <= inboxView.newest,
                       inboxView.cursor = NULL \/ n >= inboxView.cursor
                PROVE  Contains(inboxView.shown, n) \/ Outstanding("delete", n)' \/ n \in inboxView.lost
    BY <1>1 DEF NothingHidden
  <2>1. n \in Kept
    BY <1>5 DEF Kept
  <2>2. Outstanding("delete", n) => Outstanding("delete", n)'
    BY <1>14 DEF Outstanding
  <2>. QED
    BY <2>1, <2>2 DEF NothingHidden
<1>. QED
  BY <1>15, <1>16, <1>23, <1>24
\* The next page is asked for below all that the list has.
LEMMA MoreAsked ==
  ASSUME InboxConstantsOK, InboxIInv, NEW c \in InboxCall, MoreRows(c)
  PROVE  InboxIInv'
<1>. USE DEF InboxIInv
<1>1. /\ inboxView' = [inboxView EXCEPT !.loading = TRUE] /\ mail' = mail /\ unread' = unread
      /\ call' = [call EXCEPT ![c] = Ask("more", inboxView.cursor)]
      /\ inboxView.open /\ inboxView.dialog = "no" /\ inboxView.cursor # NULL /\ ~inboxView.loading
  BY DEF MoreRows, Usable
<1>2. inboxView \in ViewRec /\ inboxView.cursor \in NoticeNo
  BY <1>1 DEF InboxTypes, ViewRec
<1>3. IsAsk(Ask("more", inboxView.cursor), "more", inboxView.cursor)
  BY <1>2, RowAsked
<1>. DEFINE r == Ask("more", inboxView.cursor)
<1>. HIDE DEF r
<1>4. /\ call' \in [InboxCall -> CallRec] /\ call'[c] = r /\ IsAsk(r, "more", inboxView.cursor)
      /\ \A d \in InboxCall : d # c => call'[d] = call[d]
  <2>1. r \in CallRec /\ call' = [call EXCEPT ![c] = r]
    BY <1>1, <1>3 DEF r, IsAsk
  <2>. QED
    BY <2>1, <1>3, RequestTurns DEF r
<1>5. /\ inboxView' \in ViewRec /\ inboxView'.open = inboxView.open /\ inboxView'.shown = inboxView.shown
      /\ inboxView'.cursor = inboxView.cursor /\ inboxView'.held = inboxView.held
      /\ inboxView'.heldCursor = inboxView.heldCursor /\ inboxView'.newest = inboxView.newest
      /\ inboxView'.uncleared = inboxView.uncleared /\ inboxView'.lost = inboxView.lost
      /\ inboxView'.dialog = inboxView.dialog /\ inboxView'.loading = TRUE
  BY <1>1, <1>2 DEF ViewRec
<1>6. InboxTypes'
  BY <1>1, <1>4, <1>5 DEF InboxTypes, MailFits
<1>7. ListsFit'
  BY <1>5 DEF ListsFit, ListFits, AboveOnly
<1>8. \A d \in InboxCall : ~Mine(d, "more")
  BY <1>1 DEF InboxCalls, MoreFits
<1>9. \A d \in InboxCall : Mine(d, "delete")' => Mine(d, "delete") /\ call'[d] = call[d]
  BY <1>4 DEF Mine, IsAsk
<1>10. \A d \in InboxCall : Mine(d, "clear")' => Mine(d, "clear") /\ call'[d] = call[d]
  BY <1>4 DEF Mine, IsAsk
<1>11. \A d \in InboxCall : Mine(d, "more")' => d = c
  BY <1>4, <1>8 DEF Mine
<1>12. InboxCalls'
  <2>1. \A d \in InboxCall : CallFits(call[d])'
    <3>1. CallFits(call[c])'
      BY <1>1, <1>2, <1>4, <1>5 DEF CallFits, IsAsk
    <3>. QED
      BY <1>1, <1>4, <1>5, <3>1, OthersFit
  <2>2. \A d \in InboxCall : ClearFits(d)'
    BY <1>1, <1>5, <1>10 DEF InboxCalls, ClearFits, Emptied
  <2>3. \A d \in InboxCall : DeleteFits(d)'
    BY <1>5, <1>9 DEF InboxCalls, DeleteFits
  <2>4. OneAtATime'
    BY <1>9, <1>10, <1>11 DEF InboxCalls, OneAtATime
  <2>5. \A d \in InboxCall : MoreFits(d)'
    <3>. SUFFICES MoreFits(c)'
      BY <1>11 DEF MoreFits
    <3>1. call'[c].id = inboxView.cursor /\ call'[c].at = "sent"
      BY <1>4 DEF IsAsk
    <3>2. inboxView.cursor <= inboxView.newest /\ AboveOnly(inboxView.cursor, inboxView.shown)
      BY <1>1 DEF ListsFit, ListFits
    <3>3. AboveOnly(call[c].id, inboxView.shown)' /\ AboveOnly(call[c].id, inboxView.held)'
      <4>1. inboxView.held = <<>>
        BY <1>1 DEF ListsFit
      <4>. QED
        BY <1>5, <3>1, <3>2, <4>1, EmptyPage DEF AboveOnly
    <3>4. \A d \in InboxCall : Mine(d, "delete")' => call'[d].id >= call'[c].id
      BY <1>1, <1>9, <3>1 DEF InboxCalls, DeleteFits
    <3>. QED
      BY <1>5, <3>1, <3>2, <3>3, <3>4 DEF MoreFits
  <2>. QED
    BY <2>1, <2>2, <2>3, <2>4, <2>5 DEF InboxCalls
<1>13. NothingHidden'
  <2>1. \A n : Outstanding("delete", n) => Outstanding("delete", n)'
    BY <1>4, <1>1, <1>8 DEF Outstanding, Mine, MoreRows, IdleCall
  <2>2. Kept' = Kept
    BY <1>1 DEF Kept
  <2>. QED
    BY <1>5, <2>1, <2>2 DEF NothingHidden
<1>. QED
  BY <1>6, <1>7, <1>12, <1>13

\* A row that is deleted leaves the list for the request that deletes it.
LEMMA RowDeleted ==
  ASSUME InboxConstantsOK, InboxIInv, NEW n \in NoticeNo, NEW c \in InboxCall, NEW b \in InboxCall,
         DeleteRow(n, c, b)
  PROVE  InboxIInv'
<1>. USE DEF InboxIInv
<1>. DEFINE i == RowOf(n)
            line == RemoveAt(inboxView.shown, i)
            r == [Ask("delete", n) EXCEPT !.was = n \in inboxView.fresh, !.index = i]
<1>1. /\ inboxView' = [inboxView EXCEPT !.shown = line, !.fresh = @ \ {n}]
      /\ call' = [call EXCEPT ![b] = Ask("count", NULL), ![c] = r]
      /\ inboxView.open /\ inboxView.dialog = "no" /\ Contains(inboxView.shown, n)
      /\ call[c].op = "none" /\ call[b].op = "none" /\ mail' = mail /\ unread' = unread
  BY DEF DeleteRow, Usable, IdleCall
<1>2. inboxView \in ViewRec /\ inboxView.shown \in Seq(NoticeNo) /\ IsInjective(inboxView.shown)
  BY DEF InboxTypes, ViewRec, ListsFit, ListFits
<1>3. i \in 1..Len(inboxView.shown) /\ inboxView.shown[i] = n
  <2>1. DOMAIN inboxView.shown = 1..Len(inboxView.shown)
    BY <1>2
  <2>2. \E j \in DOMAIN inboxView.shown : inboxView.shown[j] = n
    BY <1>1, <2>1 DEF Contains
  <2>. QED
    BY <2>1, <2>2 DEF RowOf
<1>. HIDE DEF i
<1>4. /\ line \in Seq(NoticeNo) /\ IsInjective(line)
      /\ \A m : Contains(line, m) <=> Contains(inboxView.shown, m) /\ m # n
  BY <1>2, <1>3, OneLess
<1>5. r \in CallRec /\ r.op = "delete" /\ r.id = n /\ r.mine = TRUE /\ r.at = "sent"
  <2>1. /\ Ask("delete", n) \in CallRec /\ Ask("delete", n).op = "delete" /\ Ask("delete", n).id = n
        /\ Ask("delete", n).mine = TRUE /\ Ask("delete", n).at = "sent"
    BY RowAsked DEF IsAsk
  <2>2. i \in Nat \ {0} /\ (n \in inboxView.fresh) \in BOOLEAN
    BY <1>2, <1>3
  <2>. QED
    BY <2>1, <2>2 DEF CallRec
<1>6. Ask("count", NULL) \in CallRec /\ Ask("count", NULL).op = "count" /\ Ask("count", NULL).at = "sent"
  BY RowAsked DEF IsAsk
<1>. HIDE DEF r, line
<1>7. /\ call' \in [InboxCall -> CallRec] /\ call'[c] = r /\ (b # c => call'[b] = Ask("count", NULL))
      /\ \A d \in InboxCall : d # b /\ d # c => call'[d] = call[d]
  BY <1>1, <1>5, <1>6, TwoTurn
<1>8. /\ inboxView' \in ViewRec /\ inboxView'.open = inboxView.open /\ inboxView'.shown = line
      /\ inboxView'.cursor = inboxView.cursor /\ inboxView'.held = inboxView.held
      /\ inboxView'.heldCursor = inboxView.heldCursor /\ inboxView'.newest = inboxView.newest
      /\ inboxView'.uncleared = inboxView.uncleared /\ inboxView'.lost = inboxView.lost
      /\ inboxView'.dialog = inboxView.dialog /\ inboxView'.loading = inboxView.loading
  BY <1>1, <1>2, <1>4 DEF ViewRec
<1>9. InboxTypes'
  BY <1>1, <1>7, <1>8 DEF InboxTypes, MailFits
<1>10. ListsFit'
  BY <1>4, <1>8 DEF ListsFit, ListFits, AboveOnly
<1>11. inboxView.held = <<>> /\ inboxView.heldCursor = NULL /\ \A m : ~Contains(inboxView.held, m)
  BY <1>1, EmptyPage DEF ListsFit
<1>12. ASSUME NEW d \in InboxCall, Mine(d, "delete")', d # c PROVE Mine(d, "delete") /\ call'[d] = call[d]
  <2>1. call'[d].op = "delete"
    BY <1>12 DEF Mine
  <2>2. d # b
    BY <1>6, <1>7, <1>12, <2>1
  <2>. QED
    BY <1>7, <1>12, <2>2 DEF Mine
<1>13. \A d \in InboxCall : Mine(d, "more")' => Mine(d, "more") /\ call'[d] = call[d]
  BY <1>5, <1>6, <1>7 DEF Mine
<1>14. \A d \in InboxCall : Mine(d, "clear")' => Mine(d, "clear") /\ call'[d] = call[d]
  BY <1>5, <1>6, <1>7 DEF Mine
<1>15. \A d \in InboxCall : CallFits(call[d])'
  <2>1. CallFits(call[c])' /\ CallFits(call[b])'
    BY <1>1, <1>5, <1>6, <1>7, <1>8 DEF CallFits
  <2>. QED
    BY <1>1, <1>7, <1>8, <2>1, OthersFit
<1>16. \A d \in InboxCall : ClearFits(d)'
  BY <1>1, <1>8, <1>14 DEF InboxCalls, ClearFits, Emptied
<1>17. \A d \in InboxCall : DeleteFits(d)'
  <2>1. ASSUME NEW d \in InboxCall, Mine(d, "delete"), call'[d] = call[d] PROVE DeleteFits(d)'
    BY <1>4, <1>8, <2>1 DEF InboxCalls, DeleteFits
  <2>2. DeleteFits(c)'
    BY <1>1, <1>4, <1>5, <1>7, <1>8, <1>11 DEF DeleteFits, ListsFit, ListFits, AboveOnly
  <2>. QED
    BY <1>12, <2>1, <2>2 DEF DeleteFits
<1>18. OneAtATime'
  <2>1. \A d \in InboxCall : Mine(d, "delete") => call[d].id # n
    BY <1>1 DEF InboxCalls, DeleteFits
  <2>. QED
    BY <1>5, <1>7, <1>12, <1>13, <1>14, <2>1 DEF InboxCalls, OneAtATime
<1>19. \A d \in InboxCall : MoreFits(d)'
  <2>. SUFFICES ASSUME NEW d \in InboxCall, Mine(d, "more"), call'[d] = call[d] PROVE MoreFits(d)'
    BY <1>13 DEF MoreFits
  <2>1. MoreFits(d)
    BY DEF InboxCalls
  <2>2. (Swept \/ inboxView.cursor = call[d].id)'
    BY <1>1, <1>8, <2>1 DEF MoreFits, Swept, Emptied
  <2>3. AboveOnly(call[d].id, inboxView.shown)' /\ AboveOnly(call[d].id, inboxView.held)'
    BY <1>4, <1>8, <2>1 DEF MoreFits, AboveOnly
  <2>4. \A e \in InboxCall : Mine(e, "delete")' => call'[e].id >= call'[d].id
    BY <1>1, <1>5, <1>7, <1>12, <2>1 DEF MoreFits, AboveOnly
  <2>5. (call[d].at = "ok" => NextPage(call[d].id, call[d].data))'
    BY <1>1, <2>1 DEF MoreFits, NextPage, Kept
  <2>. QED
    BY <1>8, <2>1, <2>2, <2>3, <2>4, <2>5 DEF MoreFits
<1>20. InboxCalls'
  BY <1>15, <1>16, <1>17, <1>18, <1>19 DEF InboxCalls
<1>21. NothingHidden'
  <2>1. \A m : Outstanding("delete", m) => Outstanding("delete", m)'
    BY <1>1, <1>7 DEF Outstanding
  <2>2. Outstanding("delete", n)'
    BY <1>5, <1>7 DEF Outstanding
  <2>3. Kept' = Kept
    BY <1>1 DEF Kept
  <2>. QED
    BY <1>4, <1>8, <2>1, <2>2, <2>3 DEF NothingHidden
<1>. QED
  BY <1>9, <1>10, <1>20, <1>21

\* Clear all holds the list it empties.
LEMMA ClearConfirmed ==
  ASSUME InboxConstantsOK, InboxIInv, NEW c \in InboxCall, ConfirmClear(c)
  PROVE  InboxIInv'
<1>. USE DEF InboxIInv
<1>. DEFINE r == [Ask("clear", NULL) EXCEPT !.data = inboxView.fresh]
<1>1. /\ inboxView' = [inboxView EXCEPT !.dialog = "clears", !.held = inboxView.shown,
                                        !.heldCursor = inboxView.cursor, !.shown = <<>>, !.fresh = {},
                                        !.cursor = NULL, !.uncleared = TRUE]
      /\ call' = [call EXCEPT ![c] = r] /\ mail' = mail /\ unread' = unread
      /\ inboxView.dialog = "asks" /\ call[c].op = "none"
  BY DEF ConfirmClear, IdleCall
<1>2. inboxView \in ViewRec /\ inboxView.fresh \in SUBSET NoticeNo
  BY DEF InboxTypes, ViewRec
<1>3. /\ r \in CallRec /\ r.op = "clear" /\ r.mine = TRUE /\ r.at = "sent"
      /\ r.data \in SUBSET NoticeNo
  <2>1. /\ Ask("clear", NULL) \in CallRec /\ Ask("clear", NULL).op = "clear"
        /\ Ask("clear", NULL).mine = TRUE /\ Ask("clear", NULL).at = "sent"
    <3>1. NULL \in NoticeNo \cup {NULL} /\ "clear" \in {"read", "delete", "more", "clear", "count"}
      OBVIOUS
    <3>. QED
      BY <3>1, RequestsTyped
  <2>. QED
    BY <1>2, <2>1 DEF CallRec
<1>. HIDE DEF r
<1>4. /\ call' \in [InboxCall -> CallRec] /\ call'[c] = r
      /\ \A d \in InboxCall : d # c => call'[d] = call[d]
  BY <1>1, <1>3, RequestTurns
<1>5. /\ inboxView' \in ViewRec /\ inboxView'.open = inboxView.open /\ inboxView'.shown = <<>>
      /\ inboxView'.cursor = NULL /\ inboxView'.held = inboxView.shown
      /\ inboxView'.heldCursor = inboxView.cursor /\ inboxView'.newest = inboxView.newest
      /\ inboxView'.uncleared = TRUE /\ inboxView'.lost = inboxView.lost
      /\ inboxView'.dialog = "clears" /\ inboxView'.loading = inboxView.loading
  <2>1. TRUE \in BOOLEAN /\ <<>> \in Seq(NoticeNo)
    OBVIOUS
  <2>. QED
    BY <1>1, <1>2, <2>1 DEF ViewRec
<1>6. InboxTypes'
  BY <1>1, <1>4, <1>5 DEF InboxTypes, MailFits
<1>7. ListsFit'
  BY <1>5, EmptyPage DEF ListsFit, ListFits, AboveOnly
<1>8. \A d \in InboxCall : ~Mine(d, "clear")
  BY <1>1 DEF InboxCalls, ClearFits
<1>9. \A d \in InboxCall : Mine(d, "delete")' => Mine(d, "delete") /\ call'[d] = call[d]
  BY <1>3, <1>4 DEF Mine
<1>10. \A d \in InboxCall : Mine(d, "more")' => Mine(d, "more") /\ call'[d] = call[d]
  BY <1>3, <1>4 DEF Mine
<1>11. \A d \in InboxCall : Mine(d, "clear")' => d = c
  BY <1>4, <1>8 DEF Mine
<1>12. inboxView.open
  BY <1>1 DEF ListsFit
<1>13. inboxView.held = <<>> /\ inboxView.heldCursor = NULL /\ \A m : ~Contains(<<>>, m)
  BY <1>1, EmptyPage DEF ListsFit
<1>14. \A d \in InboxCall : CallFits(call[d])'
  <2>1. CallFits(call[c])'
    BY <1>3, <1>4, <1>5, <1>12 DEF CallFits
  <2>. QED
    BY <1>1, <1>4, <1>5, <2>1, OthersFit
<1>15. \A d \in InboxCall : ClearFits(d)'
  <2>1. ClearFits(c)'
    BY <1>3, <1>4, <1>5 DEF ClearFits
  <2>. QED
    BY <1>11, <2>1 DEF ClearFits
<1>16. \A d \in InboxCall : DeleteFits(d)'
  BY <1>5, <1>9, <1>13 DEF InboxCalls, DeleteFits
<1>17. OneAtATime'
  BY <1>9, <1>10, <1>11 DEF InboxCalls, OneAtATime
<1>18. \A d \in InboxCall : MoreFits(d)'
  <2>. SUFFICES ASSUME NEW d \in InboxCall, Mine(d, "more"), call'[d] = call[d] PROVE MoreFits(d)'
    BY <1>10 DEF MoreFits
  <2>1. MoreFits(d)
    BY DEF InboxCalls
  <2>2. Swept'
    BY <1>5 DEF Swept
  <2>3. AboveOnly(call[d].id, inboxView.shown)' /\ AboveOnly(call[d].id, inboxView.held)'
    BY <1>5, <1>13, <2>1 DEF MoreFits, AboveOnly
  <2>4. \A e \in InboxCall : Mine(e, "delete")' => call'[e].id >= call'[d].id
    BY <1>9, <2>1 DEF MoreFits
  <2>5. (call[d].at = "ok" => NextPage(call[d].id, call[d].data))'
    BY <1>1, <2>1 DEF MoreFits, NextPage, Kept
  <2>. QED
    BY <1>5, <2>1, <2>2, <2>3, <2>4, <2>5 DEF MoreFits
<1>19. InboxCalls'
  BY <1>14, <1>15, <1>16, <1>17, <1>18 DEF InboxCalls
<1>20. NothingHidden'
  BY <1>5 DEF NothingHidden
<1>. QED
  BY <1>6, <1>7, <1>19, <1>20
\* A deletion that is refused puts its row back.
LEMMA DeleteRefused ==
  ASSUME InboxConstantsOK, InboxIInv, NEW c \in InboxCall, DeleteAnswered(c), call[c].mine,
         call[c].at = "bad"
  PROVE  InboxIInv'
<1>. USE DEF InboxIInv
<1>. DEFINE id == call[c].id
            place == IF call[c].index > Len(inboxView.shown) THEN Len(inboxView.shown) + 1
                     ELSE call[c].index
            line == InsertAt(inboxView.shown, place, id)
            back == {n \in {id} : call[c].was}
<1>1. /\ inboxView' = [inboxView EXCEPT !.shown = line, !.fresh = @ \cup back]
      /\ call' = Notified(c, call[c].at = "bad" /\ call[c].was) /\ mail' = mail /\ unread' = unread
      /\ Mine(c, "delete")
  BY DEF DeleteAnswered, SplicedIn, Mine
<1>2. /\ inboxView \in ViewRec /\ inboxView.shown \in Seq(NoticeNo) /\ IsInjective(inboxView.shown)
      /\ call[c] \in CallRec /\ CallFits(call[c]) /\ DeleteFits(c) /\ Len(inboxView.shown) \in Nat
  BY DEF InboxTypes, InboxCalls, ViewRec, ListsFit, ListFits
<1>3. id \in NoticeNo /\ call[c].index \in Nat \ {0} /\ ~Contains(inboxView.shown, id)
  BY <1>1, <1>2 DEF CallRec, CallFits, DeleteFits, Mine
<1>4. place \in 1..(Len(inboxView.shown) + 1)
  BY <1>2, <1>3
<1>. HIDE DEF place
<1>5. /\ line \in Seq(NoticeNo) /\ IsInjective(line)
      /\ \A m : Contains(line, m) <=> Contains(inboxView.shown, m) \/ m = id
  BY <1>2, <1>3, <1>4, OneMore
<1>6. back \in SUBSET NoticeNo
  BY <1>3
<1>. HIDE DEF line, back
<1>7. /\ inboxView' \in ViewRec /\ inboxView'.open = inboxView.open /\ inboxView'.shown = line
      /\ inboxView'.cursor = inboxView.cursor /\ inboxView'.held = inboxView.held
      /\ inboxView'.heldCursor = inboxView.heldCursor /\ inboxView'.newest = inboxView.newest
      /\ inboxView'.uncleared = inboxView.uncleared /\ inboxView'.lost = inboxView.lost
      /\ inboxView'.dialog = inboxView.dialog /\ inboxView'.loading = inboxView.loading
  BY <1>1, <1>2, <1>5, <1>6 DEF ViewRec
<1>8. /\ call' \in [InboxCall -> CallRec] /\ \A d \in InboxCall : CallFits(call[d])'
      /\ \A d \in InboxCall : d # c => call'[d] = call[d] /\ Carried(d)
      /\ ~Mine(c, "delete")' /\ ~Mine(c, "more")' /\ ~Mine(c, "clear")'
  BY <1>1, <1>7, InboxHeard
<1>9. InboxTypes'
  BY <1>1, <1>7, <1>8 DEF InboxTypes, MailFits
<1>10. ListsFit'
  BY <1>1, <1>2, <1>5, <1>7 DEF ListsFit, ListFits, AboveOnly, DeleteFits
<1>11. \A d \in InboxCall : Mine(d, "delete")' => d # c /\ Mine(d, "delete") /\ call'[d] = call[d]
  BY <1>8 DEF Mine
<1>12. \A d \in InboxCall : Mine(d, "more")' => Mine(d, "more") /\ call'[d] = call[d]
  BY <1>8 DEF Mine
<1>13. \A d \in InboxCall : Mine(d, "clear")' => Mine(d, "clear") /\ call'[d] = call[d]
  BY <1>8 DEF Mine
<1>14. \A d \in InboxCall : ClearFits(d)'
  BY <1>1, <1>7, <1>13 DEF InboxCalls, ClearFits, Emptied
<1>15. \A d \in InboxCall : DeleteFits(d)'
  <2>. SUFFICES ASSUME NEW d \in InboxCall, d # c, Mine(d, "delete"), call'[d] = call[d]
                PROVE  DeleteFits(d)'
    BY <1>11 DEF DeleteFits
  <2>1. call[d].id # id
    BY <1>1 DEF InboxCalls, OneAtATime
  <2>. QED
    BY <1>5, <1>7, <2>1 DEF InboxCalls, DeleteFits
<1>16. OneAtATime'
  BY <1>11, <1>12, <1>13 DEF InboxCalls, OneAtATime
<1>17. \A d \in InboxCall : MoreFits(d)'
  <2>. SUFFICES ASSUME NEW d \in InboxCall, Mine(d, "more"), call'[d] = call[d] PROVE MoreFits(d)'
    BY <1>12 DEF MoreFits
  <2>1. MoreFits(d)
    BY DEF InboxCalls
  <2>2. (Swept \/ inboxView.cursor = call[d].id)'
    BY <1>1, <1>7, <2>1 DEF MoreFits, Swept, Emptied
  <2>3. AboveOnly(call[d].id, inboxView.shown)' /\ AboveOnly(call[d].id, inboxView.held)'
    BY <1>1, <1>5, <1>7, <2>1 DEF MoreFits, AboveOnly
  <2>4. \A e \in InboxCall : Mine(e, "delete")' => call'[e].id >= call'[d].id
    BY <1>11, <2>1 DEF MoreFits
  <2>5. (call[d].at = "ok" => NextPage(call[d].id, call[d].data))'
    BY <1>1, <2>1 DEF MoreFits, NextPage, Kept
  <2>. QED
    BY <1>7, <2>1, <2>2, <2>3, <2>4, <2>5 DEF MoreFits
<1>18. InboxCalls'
  BY <1>8, <1>14, <1>15, <1>16, <1>17 DEF InboxCalls
<1>19. NothingHidden'
  <2>1. \A m : Outstanding("delete", m) => m = id \/ Outstanding("delete", m)'
    BY <1>8 DEF Outstanding
  <2>2. Kept' = Kept
    BY <1>1 DEF Kept
  <2>. QED
    BY <1>5, <1>7, <2>1, <2>2 DEF NothingHidden
<1>. QED
  BY <1>9, <1>10, <1>18, <1>19

\* The next page goes below all that the list has.
LEMMA MoreArrives ==
  ASSUME InboxConstantsOK, InboxIInv, NEW c \in InboxCall, MoreAnswered(c), call[c].mine,
         call[c].at = "ok"
  PROVE  InboxIInv'
<1>. USE DEF InboxIInv
<1>. DEFINE id == call[c].id
            data == call[c].data
            line == inboxView.shown \o data.items
<1>1. /\ inboxView' = [inboxView EXCEPT !.shown = line, !.fresh = @ \cup data.fresh,
                                        !.cursor = data.next, !.loading = FALSE]
      /\ call' = Notified(c, FALSE) /\ mail' = mail /\ unread' = unread /\ Mine(c, "more")
  BY DEF MoreAnswered, Mine
<1>2. /\ inboxView \in ViewRec /\ inboxView.shown \in Seq(NoticeNo) /\ IsInjective(inboxView.shown)
      /\ call[c] \in CallRec /\ CallFits(call[c]) /\ MoreFits(c)
      /\ NULL \notin NoticeNo /\ NoticeNo \in SUBSET Nat
  BY RequestsTyped DEF InboxTypes, InboxCalls, ViewRec, ListsFit, ListFits
<1>3. id \in NoticeNo /\ data \in PageRec
  BY <1>1, <1>2 DEF CallFits, Mine
<1>4. /\ IsInjective(data.items)
      /\ \A m \in NoticeNo : Contains(data.items, m) => m < id /\ (data.next # NULL => m >= data.next)
      /\ data.next # NULL => data.next < id
      /\ \A n \in Kept : n < id /\ (data.next = NULL \/ n >= data.next) => Contains(data.items, n)
      /\ id <= inboxView.newest /\ (Swept \/ inboxView.cursor = id)
      /\ \A m \in NoticeNo : Contains(inboxView.shown, m) => m >= id
      /\ \A d \in InboxCall : Mine(d, "delete") => call[d].id >= id
  BY <1>1, <1>2 DEF MoreFits, NextPage, AboveOnly
<1>5. /\ data.items \in Seq(NoticeNo) /\ data.fresh \in SUBSET NoticeNo
      /\ data.next \in NoticeNo \cup {NULL} /\ id \in Nat /\ (data.next # NULL => data.next \in Nat)
  BY <1>2, <1>3 DEF PageRec
<1>. HIDE DEF id
<1>6. /\ line \in Seq(NoticeNo) /\ IsInjective(line)
      /\ \A m : Contains(line, m) <=> Contains(inboxView.shown, m) \/ Contains(data.items, m)
  <2>1. ASSUME NEW m \in NoticeNo, Contains(inboxView.shown, m), Contains(data.items, m) PROVE FALSE
    <3>1. m >= id /\ m < id /\ m \in Nat
      BY <1>2, <1>4, <2>1
    <3>. QED
      BY <1>5, <3>1
  <2>. QED
    <3>. HIDE DEF data
    <3>1. \A m \in NoticeNo : ~(Contains(inboxView.shown, m) /\ Contains(data.items, m))
      BY <2>1
    <3>2. IsInjective(data.items) /\ data.items \in Seq(NoticeNo)
      BY <1>4, <1>5
    <3>. QED
      BY <1>2, <3>1, <3>2, OneAfterTheOther
<1>. HIDE DEF line, data
<1>7. /\ inboxView' \in ViewRec /\ inboxView'.open = inboxView.open /\ inboxView'.shown = line
      /\ inboxView'.cursor = data.next /\ inboxView'.held = inboxView.held
      /\ inboxView'.heldCursor = inboxView.heldCursor /\ inboxView'.newest = inboxView.newest
      /\ inboxView'.uncleared = inboxView.uncleared /\ inboxView'.lost = inboxView.lost
      /\ inboxView'.dialog = inboxView.dialog
  <2>1. FALSE \in BOOLEAN
    OBVIOUS
  <2>. QED
    BY <1>1, <1>2, <1>5, <1>6, <2>1 DEF ViewRec
<1>8. /\ call' \in [InboxCall -> CallRec] /\ \A d \in InboxCall : CallFits(call[d])'
      /\ \A d \in InboxCall : d # c => call'[d] = call[d] /\ Carried(d)
      /\ ~Mine(c, "delete")' /\ ~Mine(c, "more")' /\ ~Mine(c, "clear")'
  BY <1>1, <1>7, InboxHeard
<1>9. InboxTypes'
  BY <1>1, <1>7, <1>8 DEF InboxTypes, MailFits
<1>10. \A m \in NoticeNo : Contains(line, m) => (data.next # NULL => m >= data.next)
  <2>. SUFFICES ASSUME NEW m \in NoticeNo, Contains(line, m), data.next # NULL PROVE m >= data.next
    OBVIOUS
  <2>1. CASE Contains(inboxView.shown, m)
    <3>1. m >= id /\ data.next < id /\ m \in Nat
      BY <1>2, <1>4, <2>1
    <3>. QED
      BY <1>5, <3>1
  <2>2. CASE Contains(data.items, m)
    BY <1>4, <2>2
  <2>. QED
    BY <1>6, <2>1, <2>2
<1>11. data.next # NULL => data.next <= inboxView.newest
  <2>1. inboxView.newest \in Nat /\ (data.next # NULL => data.next < id) /\ id <= inboxView.newest
    BY <1>2, <1>4 DEF ViewRec
  <2>. QED
    BY <1>5, <2>1
<1>12. ListsFit'
  BY <1>6, <1>7, <1>10, <1>11 DEF ListsFit, ListFits, AboveOnly
<1>13. \A d \in InboxCall : Mine(d, "delete")' => d # c /\ Mine(d, "delete") /\ call'[d] = call[d]
  BY <1>8 DEF Mine
<1>14. \A d \in InboxCall : Mine(d, "clear")' => Mine(d, "clear") /\ call'[d] = call[d]
  BY <1>8 DEF Mine
<1>15. \A d \in InboxCall : ~Mine(d, "more")'
  BY <1>1, <1>8 DEF InboxCalls, OneAtATime, Mine
<1>16. \A d \in InboxCall : ClearFits(d)'
  BY <1>1, <1>7, <1>14 DEF InboxCalls, ClearFits, Emptied
<1>17. \A d \in InboxCall : DeleteFits(d)'
  <2>. SUFFICES ASSUME NEW d \in InboxCall, Mine(d, "delete"), call'[d] = call[d] PROVE DeleteFits(d)'
    BY <1>13 DEF DeleteFits
  <2>1. DeleteFits(d) /\ CallFits(call[d])
    BY DEF InboxCalls
  <2>2. call[d].id \in NoticeNo /\ call[d].id >= id
    BY <1>4, <2>1 DEF CallFits, Mine
  <2>3. ~Contains(data.items, call[d].id) /\ (data.next # NULL => call[d].id >= data.next)
    <3>1. call[d].id \in Nat
      BY <1>2, <2>2
    <3>2. ASSUME Contains(data.items, call[d].id) PROVE FALSE
      <4>1. call[d].id < id
        BY <1>4, <2>2, <3>2
      <4>. QED
        BY <1>5, <2>2, <3>1, <4>1
    <3>3. data.next # NULL => call[d].id >= data.next
      BY <1>4, <1>5, <2>2, <3>1
    <3>. QED
      BY <3>2, <3>3
  <2>. QED
    BY <1>6, <1>7, <2>1, <2>3 DEF DeleteFits
<1>18. OneAtATime'
  BY <1>13, <1>14, <1>15 DEF InboxCalls, OneAtATime
<1>19. InboxCalls'
  BY <1>8, <1>15, <1>16, <1>17, <1>18 DEF InboxCalls, MoreFits
<1>20. NothingHidden'
  <2>. SUFFICES ASSUME inboxView.open, ~inboxView.uncleared, NEW n \in Kept, n <= inboxView.newest,
                       data.next = NULL \/ n >= data.next
                PROVE  Contains(line, n) \/ Outstanding("delete", n)' \/ n \in inboxView.lost
    BY <1>1, <1>7 DEF NothingHidden, Kept
  <2>1. n \in NoticeNo /\ mail[n] # "gone"
    BY DEF Kept
  <2>2. inboxView.cursor = id
    BY <1>4, <2>1 DEF Swept, Emptied
  <2>3. CASE n < id
    BY <1>4, <1>6, <2>3
  <2>4. CASE ~(n < id)
    <3>1. n >= inboxView.cursor
      <4>1. n \in Nat
        BY <1>2, <2>1
      <4>. QED
        BY <1>5, <2>2, <2>4, <4>1
    <3>2. Contains(inboxView.shown, n) \/ Outstanding("delete", n) \/ n \in inboxView.lost
      BY <3>1 DEF NothingHidden
    <3>3. Outstanding("delete", n) => Outstanding("delete", n)'
      BY <1>1, <1>8 DEF Outstanding, Mine
    <3>. QED
      BY <1>6, <3>2, <3>3
  <2>. QED
    BY <2>3, <2>4
<1>. QED
  BY <1>9, <1>12, <1>19, <1>20

\* A Clear all that is answered gives back what it held, or nothing when there is nothing left.
LEMMA ClearEnds ==
  ASSUME InboxConstantsOK, InboxIInv, NEW c \in InboxCall, ClearAnswered(c), call[c].mine,
         call[c].at \in {"ok", "bad"}
  PROVE  InboxIInv'
<1>. USE DEF InboxIInv
<1>1. /\ call' = Notified(c, call[c].at = "ok") /\ mail' = mail /\ unread' = unread /\ Mine(c, "clear")
  BY DEF ClearAnswered, Mine
<1>2. /\ inboxView \in ViewRec /\ call[c] \in CallRec /\ CallFits(call[c]) /\ ClearFits(c)
      /\ <<>> \in Seq(NoticeNo) /\ FALSE \in BOOLEAN /\ \A m : ~Contains(<<>>, m)
  BY EmptyPage DEF InboxTypes, InboxCalls
<1>3. inboxView.uncleared /\ (call[c].at = "ok" => Emptied)
  BY <1>1, <1>2 DEF ClearFits
<1>4. /\ inboxView' \in ViewRec /\ inboxView'.open = inboxView.open
      /\ inboxView'.newest = inboxView.newest /\ inboxView'.lost = inboxView.lost
      /\ inboxView'.dialog = "no" /\ inboxView'.loading = inboxView.loading
      /\ inboxView'.held = <<>> /\ inboxView'.heldCursor = NULL
      /\ \/ /\ inboxView'.shown = inboxView.shown /\ inboxView'.cursor = inboxView.cursor
            /\ Emptied
         \/ /\ inboxView'.shown = inboxView.held /\ inboxView'.cursor = inboxView.heldCursor
            /\ inboxView'.uncleared
  <2>1. CASE call[c].at = "ok"
    <3>1. inboxView' = [inboxView EXCEPT !.dialog = "no", !.uncleared = FALSE, !.held = <<>>,
                                         !.heldCursor = NULL]
      BY <2>1 DEF ClearAnswered
    <3>. QED
      BY <1>2, <1>3, <2>1, <3>1 DEF ViewRec
  <2>2. CASE call[c].at = "bad"
    <3>1. inboxView' = [inboxView EXCEPT !.dialog = "no", !.shown = inboxView.held,
                                         !.fresh = call[c].data, !.cursor = inboxView.heldCursor,
                                         !.held = <<>>, !.heldCursor = NULL]
      BY <2>2 DEF ClearAnswered
    <3>2. call[c].data \in SUBSET NoticeNo
      BY <1>1, <1>2, <2>2 DEF CallFits, Mine
    <3>3. /\ inboxView.held \in Seq(NoticeNo) /\ inboxView.heldCursor \in NoticeNo \cup {NULL}
      BY <1>2 DEF ViewRec
    <3>. QED
      BY <1>2, <1>3, <3>1, <3>2, <3>3 DEF ViewRec
  <2>. QED
    BY <2>1, <2>2
<1>5. /\ call' \in [InboxCall -> CallRec] /\ \A d \in InboxCall : CallFits(call[d])'
      /\ \A d \in InboxCall : d # c => call'[d] = call[d] /\ Carried(d)
      /\ ~Mine(c, "delete")' /\ ~Mine(c, "more")' /\ ~Mine(c, "clear")'
  BY <1>1, <1>4, InboxHeard
<1>6. InboxTypes'
  BY <1>1, <1>4, <1>5 DEF InboxTypes, MailFits
<1>7. IsInjective(<<>>)
  BY EmptyPage DEF ListsFit, ListFits, Contains, IsInjective
<1>8. ListsFit'
  BY <1>2, <1>4, <1>7 DEF ListsFit, ListFits, AboveOnly
<1>9. \A d \in InboxCall : Mine(d, "delete")' => Mine(d, "delete") /\ call'[d] = call[d]
  BY <1>5 DEF Mine
<1>10. \A d \in InboxCall : Mine(d, "more")' => Mine(d, "more") /\ call'[d] = call[d]
  BY <1>5 DEF Mine
<1>11. \A d \in InboxCall : ~Mine(d, "clear")'
  BY <1>1, <1>5 DEF InboxCalls, OneAtATime, Mine
<1>12. Swept'
  BY <1>1, <1>4 DEF Swept, Emptied
<1>13. \A d \in InboxCall : DeleteFits(d)'
  BY <1>2, <1>4, <1>9 DEF InboxCalls, DeleteFits
<1>14. OneAtATime'
  BY <1>9, <1>10, <1>11 DEF InboxCalls, OneAtATime
<1>15. \A d \in InboxCall : MoreFits(d)'
  <2>. SUFFICES ASSUME NEW d \in InboxCall, Mine(d, "more"), call'[d] = call[d] PROVE MoreFits(d)'
    BY <1>10 DEF MoreFits
  <2>1. MoreFits(d)
    BY DEF InboxCalls
  <2>2. AboveOnly(call[d].id, inboxView.shown)' /\ AboveOnly(call[d].id, inboxView.held)'
    BY <1>2, <1>4, <2>1 DEF MoreFits, AboveOnly
  <2>3. \A e \in InboxCall : Mine(e, "delete")' => call'[e].id >= call'[d].id
    BY <1>9, <2>1 DEF MoreFits
  <2>4. (call[d].at = "ok" => NextPage(call[d].id, call[d].data))'
    BY <1>1, <2>1 DEF MoreFits, NextPage, Kept
  <2>. QED
    BY <1>4, <1>12, <2>1, <2>2, <2>3, <2>4 DEF MoreFits
<1>16. InboxCalls'
  BY <1>5, <1>11, <1>13, <1>14, <1>15 DEF InboxCalls, ClearFits
<1>17. NothingHidden'
  BY <1>1, <1>4 DEF NothingHidden, Emptied, Kept
<1>. QED
  BY <1>6, <1>8, <1>16, <1>17

-----------------------------------------------------------------------------
\* The inbox at the start.
LEMMA InboxBegins ==
  ASSUME InboxConstantsOK, InboxInit PROVE InboxIInv
<1>1. /\ mail = [n \in NoticeNo |-> "unsent"] /\ inboxView = NoPage /\ unread = 0
      /\ call = [c \in InboxCall |-> NoCall]
  BY DEF InboxInit
<1>2. NoCall \in CallRec /\ NoCall.op = "none" /\ NoCall.mine = FALSE
  BY RequestsTyped
<1>3. /\ NoPage \in ViewRec /\ NoPage.open = FALSE /\ NoPage.dialog = "no" /\ NoPage.newest = 0
      /\ NoPage.shown = <<>> /\ NoPage.held = <<>> /\ NoPage.cursor = NULL /\ NoPage.heldCursor = NULL
  BY EmptyPage DEF NoPage
<1>4. InboxTypes
  <2>1. 0 \in 0..LastNotice
    BY DEF InboxConstantsOK
  <2>2. \A n \in NoticeNo : ~(n <= 0)
    BY DEF NoticeNo
  <2>. QED
    BY <1>1, <1>2, <1>3, <2>1, <2>2 DEF InboxTypes, MailFits
<1>5. InboxCalls
  BY <1>1, <1>2 DEF InboxCalls, CallFits, ClearFits, MoreFits, DeleteFits, OneAtATime, Mine
<1>6. ListsFit
  BY <1>1, <1>3, EmptyPage DEF ListsFit, ListFits
<1>7. NothingHidden
  BY <1>1, <1>3 DEF NothingHidden
<1>. QED
  BY <1>4, <1>5, <1>6, <1>7 DEF InboxIInv

\* It goes on fitting with every step.
LEMMA InboxGoes ==
  ASSUME InboxConstantsOK, InboxIInv, [InboxPanelNext]_inboxVars PROVE InboxIInv'
<1>1. CASE UNCHANGED inboxVars
  BY <1>1 DEF inboxVars, InboxIInv, InboxTypes, InboxCalls, ListsFit, NothingHidden, MailFits, CallFits,
       ClearFits, MoreFits, DeleteFits, OneAtATime, ListFits, AboveOnly, NextPage, Mine, Emptied,
       Swept, Kept, Outstanding
<1>2. CASE Arrive
  BY <1>2, NoticeArrives
<1>3. CASE LeaveInbox
  BY <1>3, PageLeft
<1>4. CASE AskClear \/ CancelClear
  BY <1>4, ClearAsked
<1>5. ASSUME NEW c \in InboxCall,
             \/ Serve(c) \/ RefuseCall(c) \/ LoseCall(c)
             \/ OpenInbox(c) \/ MoreRows(c) \/ ConfirmClear(c)
      PROVE  InboxIInv'
  BY <1>5, RequestServed, RequestFails, PageOpened, MoreAsked, ClearConfirmed
<1>6. ASSUME NEW c \in InboxCall,
             \/ ReadAnswered(c) \/ DeleteAnswered(c) \/ MoreAnswered(c)
             \/ ClearAnswered(c) \/ CountAnswered(c)
      PROVE  InboxIInv'
  <2>1. CASE DeleteAnswered(c) /\ call[c].mine /\ call[c].at = "bad"
    BY <2>1, DeleteRefused
  <2>2. CASE MoreAnswered(c) /\ call[c].mine /\ call[c].at = "ok"
    BY <2>2, MoreArrives
  <2>3. CASE ClearAnswered(c) /\ call[c].mine /\ call[c].at # "lost"
    <3>1. call[c].at \in {"ok", "bad"}
      BY <2>3 DEF InboxIInv, InboxTypes, CallRec, ClearAnswered
    <3>. QED
      BY <2>3, <3>1, ClearEnds
  <2>. QED
    BY <1>6, <2>1, <2>2, <2>3, QuietAnswers
<1>7. ASSUME NEW c \in InboxCall, NEW n \in NoticeNo, FollowRow(n, c) PROVE InboxIInv'
  BY <1>7, PageLeft
<1>8. ASSUME NEW c \in InboxCall, NEW n \in NoticeNo, NEW b \in InboxCall,
             ClickRow(n, c, b) \/ DeleteRow(n, c, b)
      PROVE  InboxIInv'
  BY <1>8, RowClicked, RowDeleted
<1>9. CASE InboxPanelNext
  BY <1>9, <1>2, <1>3, <1>4, <1>5, <1>6, <1>7, <1>8 DEF InboxPanelNext
<1>. QED
  BY <1>1, <1>9

\* What the inbox promises follows.
LEMMA InboxFits ==
  ASSUME InboxConstantsOK, InboxIInv PROVE InboxPanelInv
<1>1. inboxView \in ViewRec /\ IsInjective(inboxView.shown) /\ IsInjective(inboxView.held)
  BY DEF InboxIInv, InboxTypes, ListsFit, ListFits
<1>2. ASSUME NEW s \in Seq(NoticeNo), IsInjective(s) PROVE s \in BoundedSeq(NoticeNo, LastNotice)
  <2>1. IsFiniteSet(NoticeNo) /\ Cardinality(NoticeNo) = LastNotice
    BY NoticesFinite
  <2>2. Len(s) \in Nat /\ Len(s) <= LastNotice
    BY <1>2, <2>1, NoLonger
  <2>3. Len(s) \in 0..LastNotice /\ s \in [1..Len(s) -> NoticeNo]
    BY <2>2 DEF InboxConstantsOK
  <2>. QED
    BY <2>3 DEF BoundedSeq, SeqOf
<1>3. InboxTypeOK
  BY <1>1, <1>2 DEF InboxIInv, InboxTypes, MailFits, InboxTypeOK, ViewRec, CallRec
<1>. QED
  BY <1>1, <1>3 DEF InboxIInv, InboxPanelInv, NoNoticeTwice

\* The inbox hides nothing it has come to and shows nothing twice, whatever deletions are refused,
\* answered late or not at all (NotificationsPanel.tsx).
THEOREM InboxShowsAll ==
  ASSUME InboxConstantsOK
  PROVE  InboxInit /\ [][InboxPanelNext]_inboxVars => []InboxPanelInv
<1>1. InboxInit => InboxIInv
  BY InboxBegins
<1>2. InboxIInv /\ [InboxPanelNext]_inboxVars => InboxIInv'
  BY InboxGoes
<1>3. InboxIInv => InboxPanelInv
  BY InboxFits
<1>. QED
  BY <1>1, <1>2, <1>3, PTL

-----------------------------------------------------------------------------
(* The badges.                                                             *)

Table == Seq([name : Title, order : Nat, hidden : BOOLEAN])
ActRec == [at : {"idle", "sent", "read", "done", "refused", "over"}, op : ActOp \cup {NULL}, id : Nat,
           name : Title \cup {NULL}, hidden : BOOLEAN, ids : Seq(Nat), rows : Nat, page : BOOLEAN]
BulkRec == [todo : SUBSET Title, ask : {"approve", "reject", NULL}, of : Act \cup {NULL},
            single : BOOLEAN, before : SUBSET Title]
RenderRec == [wanted : BOOLEAN, read : {NULL} \cup PageRead]
VerdictRec == [rejected : SUBSET Title, made : SUBSET Title, crossed : SUBSET Title]

\* The tables and the page; no place in the order is beyond the number of badges.
TableFits ==
  /\ curated \in Table /\ Len(curated) <= MaxBadges
  /\ \A b \in Badge : curated[b].order < Len(curated)
RowsFit(line) == Len(line) <= Len(curated) /\ \A i \in DOMAIN line : line[i].id \in Badge
BadgeTypes ==
  /\ TableFits /\ proposals \in [Title -> {"none", "open", "resolved"}]
  /\ items \in Seq(Item) /\ RowsFit(items)
  /\ pending \in SUBSET Title /\ picked \in SUBSET Title /\ bulk \in BulkRec
  /\ render \in RenderRec /\ (render.read # NULL => RowsFit(render.read.items))
  /\ act \in [Act -> ActRec] /\ verdict \in VerdictRec /\ apart \in BOOLEAN

\* What a request carries is of its kind.
ActFits(k) ==
  /\ k.at = "read" => k.op \in {"approve", "reject"}
  /\ k.at \in {"sent", "read", "done", "refused"} =>
       /\ k.op \in ActOp
       /\ k.op \in {"create", "rename", "approve", "reject"} => k.name \in Title
       /\ k.op \in {"rename", "hide"} => k.id \in Badge
       /\ k.op = "reorder" => Len(k.ids) <= Len(curated)
\* The run of handleBulk or handleSingle; the latter has one suggestion.
BulkFits ==
  /\ bulk.todo # {} => bulk.ask \in {"approve", "reject"}
  /\ bulk.single /\ bulk.of # NULL => bulk.todo = {}
  /\ bulk.single => \A t, u \in bulk.todo : t = u
  /\ bulk.of # NULL => /\ Going(bulk.of) /\ act[bulk.of].page
                       /\ act[bulk.of].op \in {"approve", "reject"}
\* A suggestion that two requests have read, or that is resolved since one has, is crossed.
ReadsFit ==
  \A a \in Act : act[a].at = "read" =>
    /\ proposals[act[a].name] = "resolved" => act[a].name \in verdict.crossed
    /\ \A c \in Act : c # a /\ act[c].at = "read" /\ act[c].name = act[a].name =>
         act[a].name \in verdict.crossed
\* One reorder at a time and no page under way with it, unless the page has come apart.
Reorders(a) == Going(a) /\ act[a].op = "reorder"
OrdersFit ==
  ~apart => /\ \A a, c \in Act : Reorders(a) /\ Reorders(c) => a = c
            /\ render.read # NULL => \A a \in Act : ~Reorders(a)
            /\ \A a \in Act : Reorders(a) /\ ~act[a].page => render.wanted

\* The page will be read again, or has an answer to come that makes it so.
Due(k) == k.page /\ ((k.at = "done" /\ k.op # "reorder") \/ (k.at = "refused" /\ k.op = "reorder"))
Unseen == render.wanted \/ (Busy /\ ~bulk.single) \/ \E a \in Act : Due(act[a])
\* The list has every badge once, as it is stored.
Faithful(line) ==
  /\ IsInjective(line) /\ Len(line) = Len(curated)
  /\ \A m : Contains(line, m) <=> \E b \in Badge : m = RowShown(curated, b)
Sending(a) == act[a].at = "sent" /\ act[a].op = "reorder"
IdsOf(line) == [i \in DOMAIN line |-> line[i].id]
\* Otherwise it shows the tables, or the order that is being saved, or is about to.
Shown ==
  IF render.read # NULL THEN render.read = PageShows
  ELSE /\ pending = PageShows.pending
       /\ \A a \in Act : Sending(a) => Faithful(items) /\ act[a].ids = IdsOf(items)
       /\ (\A a \in Act : ~Sending(a)) => items = PageShows.items
PageFitsTables == apart \/ Unseen \/ Shown

BadgeCalls ==
  /\ \A a \in Act : ActFits(act[a])
  /\ BulkFits /\ ReadsFit /\ OrdersFit
BadgeIInv == BadgeTypes /\ BadgeCalls /\ OneVerdict /\ PageFitsTables
-----------------------------------------------------------------------------
\* The order of the table is one.
LEMMA PlacesFit ==
  ASSUME NEW rows \in Table
  PROVE  /\ IsFiniteSet(DOMAIN rows) /\ Cardinality(DOMAIN rows) = Len(rows)
         /\ Len(rows) \in Nat /\ DOMAIN rows = 1..Len(rows)
         /\ \A b \in DOMAIN rows : /\ rows[b].name \in Title /\ rows[b].order \in Nat
                                   /\ rows[b].hidden \in BOOLEAN
         /\ StrictOrder(DOMAIN rows, PlacedBefore(rows))
<1>1. Len(rows) \in Nat /\ DOMAIN rows = 1..Len(rows) /\ 1 \in Int /\ Len(rows) \in Int
  BY DEF Table
<1>2. \A b \in DOMAIN rows : rows[b] \in [name : Title, order : Nat, hidden : BOOLEAN]
  BY <1>1, ElementOfSeq DEF Table
<1>3. IsFiniteSet(DOMAIN rows) /\ Cardinality(DOMAIN rows) = Len(rows)
  BY <1>1, UpTo
<1>4. \A b \in DOMAIN rows : /\ rows[b].name \in Title /\ rows[b].order \in Nat
                             /\ rows[b].hidden \in BOOLEAN
  BY <1>2
<1>5. \A b \in DOMAIN rows : b \in Nat /\ rows[b].order \in Nat
  BY <1>1, <1>4
<1>6. \A b, c \in DOMAIN rows : <<b, c>> \in PlacedBefore(rows) <=>
         \/ rows[b].order < rows[c].order
         \/ (rows[b].order = rows[c].order /\ b < c)
  BY DEF PlacedBefore
<1>7. StrictOrder(DOMAIN rows, PlacedBefore(rows))
  BY <1>5, <1>6 DEF StrictOrder
<1>. QED
  BY <1>1, <1>3, <1>4, <1>7

\* What the page shows of a table: every badge once.
ListOf(rows) == [i \in 1..Len(rows) |-> RowShown(rows, InOrder(rows)[i])]
LEMMA ListsFitTable ==
  ASSUME BadgeConstantsOK, NEW rows \in Table, Len(rows) <= MaxBadges
  PROVE  /\ ListOf(rows) \in Seq(Item) /\ Len(ListOf(rows)) = Len(rows)
         /\ \A i \in 1..Len(rows) : ListOf(rows)[i].id \in 1..Len(rows)
         /\ IsInjective(ListOf(rows))
         /\ \A m : Contains(ListOf(rows), m) <=> \E b \in 1..Len(rows) : m = RowShown(rows, b)
<1>. DEFINE order == InOrder(rows)
<1>1. /\ Len(rows) \in Nat /\ DOMAIN rows = 1..Len(rows) /\ IsFiniteSet(DOMAIN rows)
      /\ Cardinality(DOMAIN rows) = Len(rows) /\ StrictOrder(DOMAIN rows, PlacedBefore(rows))
      /\ \A b \in DOMAIN rows : rows[b].name \in Title /\ rows[b].hidden \in BOOLEAN
  BY PlacesFit
<1>2. /\ order \in Seq(DOMAIN rows) /\ Len(order) = Len(rows) /\ IsInjective(order)
      /\ \A x \in DOMAIN rows : /\ RankOf(x, DOMAIN rows, PlacedBefore(rows)) \in 1..Len(rows)
                                /\ order[RankOf(x, DOMAIN rows, PlacedBefore(rows))] = x
  BY <1>1, RankedFits DEF InOrder
<1>3. \A i \in 1..Len(rows) : order[i] \in 1..Len(rows)
  BY <1>1, <1>2, ElementOfSeq
<1>4. DOMAIN order = 1..Len(rows)
  BY <1>2
<1>5. \A x \in 1..Len(rows) : \E i \in 1..Len(rows) : order[i] = x
  BY <1>1, <1>2
<1>6. \A i, j \in 1..Len(rows) : order[i] = order[j] => i = j
  BY <1>2, <1>4 DEF IsInjective
<1>. HIDE DEF order
<1>. DEFINE line == [i \in 1..Len(rows) |-> RowShown(rows, order[i])]
<1>7. line = ListOf(rows)
  BY DEF ListOf, order
<1>8. MaxBadges \in Nat
  BY DEF BadgeConstantsOK
<1>9. \A b \in 1..Len(rows) : RowShown(rows, b) \in Item /\ RowShown(rows, b).id = b
  BY <1>1, <1>8 DEF RowShown, Item
<1>10. /\ \A i \in 1..Len(rows) : line[i] \in Item /\ line[i].id = order[i]
       /\ DOMAIN line = 1..Len(rows)
  BY <1>3, <1>9
<1>11. line \in Seq(Item) /\ Len(line) = Len(rows)
  <2>1. line \in [1..Len(rows) -> Item]
    BY <1>10
  <2>. QED
    BY <1>1, <2>1, SeqDef, LenProperties
<1>12. IsInjective(line)
  BY <1>6, <1>10 DEF IsInjective
<1>13. ASSUME NEW m, Contains(line, m) PROVE \E b \in 1..Len(rows) : m = RowShown(rows, b)
  BY <1>3, <1>10, <1>11, <1>13 DEF Contains
<1>14. ASSUME NEW b \in 1..Len(rows) PROVE Contains(line, RowShown(rows, b))
  BY <1>5, <1>11 DEF Contains
<1>. QED
  BY <1>3, <1>7, <1>10, <1>11, <1>12, <1>13, <1>14

\* What the page would show now.
LEMMA PageFitsNow ==
  ASSUME BadgeConstantsOK, BadgeTypes
  PROVE  /\ PageShows = [items |-> ListOf(curated), pending |-> {t \in Title : proposals[t] = "open"}]
         /\ PageShows.items = ListOf(curated) /\ PageShows.pending = {t \in Title : proposals[t] = "open"}
         /\ PageShows \in PageRead /\ RowsFit(PageShows.items) /\ Faithful(PageShows.items)
<1>1. /\ ListOf(curated) \in Seq(Item) /\ Len(ListOf(curated)) = Len(curated)
      /\ \A i \in 1..Len(curated) : ListOf(curated)[i].id \in 1..Len(curated)
      /\ IsInjective(ListOf(curated))
      /\ \A m : Contains(ListOf(curated), m) <=> \E b \in 1..Len(curated) : m = RowShown(curated, b)
  BY ListsFitTable DEF BadgeTypes, TableFits
<1>2. PageShows = [items |-> ListOf(curated), pending |-> {t \in Title : proposals[t] = "open"}]
  BY DEF PageShows, ListOf, Badge
<1>3. Len(curated) \in Nat /\ DOMAIN ListOf(curated) = 1..Len(curated)
  BY <1>1 DEF BadgeTypes, TableFits, Table
<1>. QED
  BY <1>1, <1>2, <1>3 DEF PageRead, RowsFit, Faithful, Badge
-----------------------------------------------------------------------------
\* One request goes on.
LEMMA ActTurned ==
  ASSUME BadgeTypes, NEW a \in Act, NEW r \in ActRec, act' = [act EXCEPT ![a] = r]
  PROVE  /\ act' \in [Act -> ActRec] /\ act'[a] = r /\ \A c \in Act : c # a => act'[c] = act[c]
BY DEF BadgeTypes

\* One stage of it, to be precise.
LEMMA StageTurned ==
  ASSUME BadgeTypes, NEW a \in Act, NEW stage \in {"sent", "read", "done", "refused"}, Turns(a, stage)
  PROVE  LET r == [act[a] EXCEPT !.at = stage] IN
         /\ act' = [act EXCEPT ![a] = r] /\ r \in ActRec /\ r.at = stage /\ r.op = act[a].op
         /\ r.id = act[a].id /\ r.name = act[a].name /\ r.ids = act[a].ids /\ r.page = act[a].page
<1>1. act \in [Act -> ActRec] /\ act[a] \in ActRec
  BY DEF BadgeTypes
<1>2. act' = [act EXCEPT ![a] = [act[a] EXCEPT !.at = stage]]
  BY <1>1 DEF Turns
<1>3. [act[a] EXCEPT !.at = stage] \in ActRec
  BY <1>1 DEF ActRec
<1>. QED
  BY <1>1, <1>2, <1>3 DEF ActRec

\* The requests go on fitting while the table does not shrink.
LEMMA ActsGo ==
  ASSUME BadgeTypes, BadgeCalls, NEW a \in Act, \A c \in Act : c # a => act'[c] = act[c],
         Len(curated') \in Nat, Len(curated) <= Len(curated'), ActFits(act[a])'
  PROVE  \A c \in Act : ActFits(act[c])'
<1>1. Len(curated) \in Nat /\ act \in [Act -> ActRec]
  BY DEF BadgeTypes, TableFits, Table
<1>2. ASSUME NEW c \in Act, c # a PROVE ActFits(act[c])'
  <2>1. ActFits(act[c]) /\ act'[c] = act[c] /\ Len(act[c].ids) \in Nat
    BY <1>1, <1>2 DEF BadgeCalls, ActRec
  <2>2. act[c].id \in Badge => act[c].id \in Badge'
    BY <1>1 DEF Badge
  <2>3. Len(act[c].ids) <= Len(curated) => Len(act[c].ids) <= Len(curated')
    BY <1>1, <2>1
  <2>. HIDE DEF Badge
  <2>. QED
    BY <2>1, <2>2, <2>3 DEF ActFits
<1>. QED
  BY <1>2

\* A request that is no new reorder.
LEMMA OrdersGo ==
  ASSUME OrdersFit, NEW a \in Act, \A c \in Act : c # a => act'[c] = act[c],
         apart => apart', render'.read = render.read, render.wanted => render'.wanted,
         Reorders(a)' => Reorders(a) /\ (~act'[a].page => ~act[a].page \/ render'.wanted)
  PROVE  OrdersFit'
<1>1. \A c \in Act : c # a => (Reorders(c)' <=> Reorders(c))
  BY DEF Reorders, Going
<1>. QED
  BY <1>1 DEF OrdersFit

\* The run of the bulk actions, when it is not its request that goes on or this goes on for it.
LEMMA BulkGoes ==
  ASSUME BadgeTypes, BulkFits, bulk' = bulk, NEW a \in Act, \A c \in Act : c # a => act'[c] = act[c],
         bulk.of = a => /\ act'[a].at \in {"sent", "read", "done", "refused"}
                        /\ act'[a].page = act[a].page /\ act'[a].op = act[a].op
  PROVE  BulkFits'
<1>1. bulk.of \in Act \cup {NULL}
  BY DEF BadgeTypes, BulkRec
<1>2. bulk.of # NULL => /\ act'[bulk.of].at \in {"sent", "read", "done", "refused"}
                        /\ act'[bulk.of].page /\ act'[bulk.of].op \in {"approve", "reject"}
  BY <1>1 DEF BulkFits, Going
<1>. QED
  BY <1>2 DEF BulkFits, Going

\* A request that reads no suggestion.
LEMMA ReadsGo ==
  ASSUME ReadsFit, proposals' = proposals, NEW a \in Act, \A c \in Act : c # a => act'[c] = act[c],
         verdict.crossed \subseteq verdict'.crossed,
         act'[a].at = "read" => act[a].at = "read" /\ act'[a].name = act[a].name
  PROVE  ReadsFit'
BY DEF ReadsFit

\* A step that leaves the tables and the lists of the page alone.
PageQuiet ==
  /\ curated' = curated /\ proposals' = proposals /\ items' = items /\ pending' = pending
  /\ picked' \in SUBSET Title /\ bulk' \in BulkRec
  /\ render' \in RenderRec /\ render'.read = render.read /\ (render.wanted => render'.wanted)
  /\ verdict' \in VerdictRec /\ verdict'.rejected = verdict.rejected /\ verdict'.made = verdict.made
  /\ verdict.crossed \subseteq verdict'.crossed
  /\ apart' \in BOOLEAN /\ (apart => apart')

LEMMA BadgeQuiet ==
  ASSUME BadgeConstantsOK, BadgeIInv, PageQuiet, NEW a \in Act, NEW r \in ActRec,
         act' = [act EXCEPT ![a] = r], ActFits(r), BulkFits', ReadsFit',
         Reorders(a)' => Reorders(a) /\ (~act'[a].page => ~act[a].page \/ render'.wanted),
         Sending(a)' => Sending(a) /\ act'[a].ids = act[a].ids,
         (Busy /\ ~bulk.single) \/ Due(act[a]) \/ (Sending(a) /\ ~Sending(a)') => apart' \/ Unseen'
  PROVE  BadgeIInv'
<1>. USE DEF BadgeIInv
<1>1. act' \in [Act -> ActRec] /\ act'[a] = r /\ \A c \in Act : c # a => act'[c] = act[c]
  BY ActTurned
<1>2. BadgeTypes'
  BY <1>1 DEF BadgeTypes, TableFits, RowsFit, PageQuiet, Badge
<1>3. \A c \in Act : ActFits(act[c])'
  <2>1. Len(curated') \in Nat /\ Len(curated) <= Len(curated')
    BY DEF BadgeTypes, TableFits, Table, PageQuiet
  <2>2. ActFits(act[a])'
    BY <1>1 DEF ActFits, PageQuiet, Badge
  <2>. QED
    BY <1>1, <2>1, <2>2, ActsGo
<1>4. OrdersFit'
  BY <1>1, OrdersGo DEF BadgeCalls, PageQuiet
<1>5. OneVerdict'
  BY DEF OneVerdict, PageQuiet
<1>6. PageFitsTables'
  <2>. SUFFICES ASSUME ~apart', ~Unseen' PROVE Shown'
    BY DEF PageFitsTables
  <2>1. ~apart /\ ~render.wanted /\ ~(Busy /\ ~bulk.single) /\ ~Due(act[a])
    BY DEF PageQuiet, Unseen
  <2>2. \A c \in Act : c # a => ~Due(act[c])
    BY <1>1 DEF Unseen
  <2>3. Shown
    BY <2>1, <2>2 DEF PageFitsTables, Unseen
  <2>4. \A c \in Act : c # a => (Sending(c)' <=> Sending(c)) /\ act'[c].ids = act[c].ids
    BY <1>1 DEF Sending
  <2>5. Sending(a)' <=> Sending(a)
    OBVIOUS
  <2>6. PageShows' = PageShows
    BY DEF PageShows, PageQuiet, Badge
  <2>7. Faithful(items)' <=> Faithful(items)
    BY DEF Faithful, PageQuiet, Badge
  <2>. QED
    BY <2>3, <2>4, <2>5, <2>6, <2>7 DEF Shown, PageQuiet
<1>. QED
  BY <1>2, <1>3, <1>4, <1>5, <1>6 DEF BadgeCalls

\* A step that writes the tables for the page, or for another tab.
LEMMA BadgeWrites ==
  ASSUME BadgeConstantsOK, BadgeIInv, NEW a \in Act, act[a].at \in {"sent", "read"},
         act[a].op # "reorder", ActEnds(a, "done"), TableFits', Len(curated) <= Len(curated'),
         proposals' \in [Title -> {"none", "open", "resolved"}], verdict' \in VerdictRec,
         UNCHANGED Page, OneVerdict', ReadsFit'
  PROVE  BadgeIInv'
<1>. USE DEF BadgeIInv
<1>. DEFINE r == [act[a] EXCEPT !.at = "done"]
<1>1. /\ act' = [act EXCEPT ![a] = r] /\ r \in ActRec /\ r.at = "done" /\ r.op = act[a].op
      /\ r.id = act[a].id /\ r.name = act[a].name /\ r.ids = act[a].ids /\ r.page = act[a].page
  BY StageTurned DEF ActEnds
<1>2. /\ apart' = (apart \/ ~act[a].page) /\ items' = items /\ pending' = pending /\ picked' = picked
      /\ bulk' = bulk /\ render' = render
  BY DEF ActEnds, Page
<1>. HIDE DEF r
<1>3. act' \in [Act -> ActRec] /\ act'[a] = r /\ \A c \in Act : c # a => act'[c] = act[c]
  BY <1>1, ActTurned
<1>4. Len(curated) \in Nat /\ Len(curated') \in Nat /\ act \in [Act -> ActRec]
  BY DEF BadgeTypes, TableFits, Table
<1>5. \A line \in Seq(Item) : RowsFit(line) => RowsFit(line)'
  BY <1>4 DEF RowsFit, Badge
<1>6. render.read # NULL => render.read.items \in Seq(Item)
  BY DEF BadgeTypes, RenderRec, PageRead
<1>7. BadgeTypes'
  <2>1. apart' \in BOOLEAN
    BY <1>2
  <2>2. RowsFit(items)' /\ (render.read # NULL => RowsFit(render.read.items))'
    BY <1>2, <1>5, <1>6 DEF BadgeTypes, RowsFit
  <2>. QED
    BY <1>2, <1>3, <2>1, <2>2 DEF BadgeTypes
<1>8. \A c \in Act : ActFits(act[c])'
  <2>1. ActFits(act[a])'
    <3>1. ActFits(act[a]) /\ Len(act[a].ids) \in Nat
      BY <1>4 DEF BadgeCalls, ActRec
    <3>2. act[a].id \in Badge => act[a].id \in Badge'
      BY <1>4 DEF Badge
    <3>. HIDE DEF Badge
    <3>. QED
      BY <1>1, <1>3, <3>1, <3>2 DEF ActFits
  <2>. QED
    BY <1>3, <1>4, <2>1, ActsGo
<1>9. BulkFits'
  BY <1>1, <1>2, <1>3, BulkGoes DEF BadgeCalls
<1>10. OrdersFit'
  BY <1>1, <1>2, <1>3, OrdersGo DEF BadgeCalls, Reorders
<1>11. PageFitsTables'
  <2>1. act[a].page => Due(act[a])'
    BY <1>1, <1>3 DEF Due
  <2>. QED
    BY <1>2, <2>1 DEF PageFitsTables, Unseen
<1>. QED
  BY <1>7, <1>8, <1>9, <1>10, <1>11 DEF BadgeCalls
-----------------------------------------------------------------------------
\* What a request is before it is of any kind.
LEMMA RequestsFit ==
  /\ NoAct \in ActRec
  /\ \A op \in ActOp :
       /\ Sent(op) \in ActRec /\ Sent(op).at = "sent" /\ Sent(op).op = op /\ Sent(op).page = FALSE
<1>1. NoAct \in ActRec
  <2>1. <<>> \in Seq(Nat) /\ FALSE \in BOOLEAN /\ 0 \in Nat
    OBVIOUS
  <2>. QED
    BY <2>1 DEF NoAct, ActRec
<1>. QED
  BY <1>1 DEF Sent, NoAct, ActRec

\* A request of the page or of another tab that is no reorder.
LEMMA Requested ==
  ASSUME BadgeConstantsOK, BadgeIInv, NEW a \in Act, act[a].at = "idle", NEW r \in ActRec,
         r.at = "sent", r.op # "reorder", ActFits(r), act' = [act EXCEPT ![a] = r],
         UNCHANGED <<curated, proposals, items, pending, picked, render, verdict, apart>>,
         bulk' \in BulkRec, BulkFits', bulk' = bulk \/ (Busy /\ ~bulk.single => Busy' /\ ~bulk'.single)
  PROVE  BadgeIInv'
<1>. USE DEF BadgeIInv
<1>1. act' \in [Act -> ActRec] /\ act'[a] = r /\ \A c \in Act : c # a => act'[c] = act[c]
  BY ActTurned
<1>2. PageQuiet
  BY DEF PageQuiet, BadgeTypes
<1>3. ReadsFit'
  BY <1>1, ReadsGo DEF BadgeCalls
<1>4. ~Reorders(a)' /\ ~Sending(a)' /\ ~Sending(a) /\ ~Due(act[a])
  BY <1>1 DEF Reorders, Sending, Due
<1>5. Busy /\ ~bulk.single => Unseen'
  BY DEF Unseen, Busy
<1>. QED
  BY <1>2, <1>3, <1>4, <1>5, BadgeQuiet

\* What the rows, the forms and another tab ask for.
LEMMA BadgeAsked ==
  ASSUME BadgeConstantsOK, BadgeIInv, NEW a \in Act,
         \/ \E i \in 1..MaxBadges : ToggleHidden(a, i) \/ \E t \in Title : SubmitEdit(a, i, t)
         \/ \E t \in Title : \/ SubmitNew(a, t)
                             \/ \E ask \in {"approve", "reject"} : ResolveElsewhere(a, t, ask)
  PROVE  BadgeIInv'
<1>. USE DEF BadgeIInv
<1>1. \A i \in DOMAIN items : items[i].id \in Nat /\ items[i].id \in Badge /\ items[i].hidden \in BOOLEAN
  <2>. SUFFICES ASSUME NEW i \in DOMAIN items
                PROVE  /\ items[i].id \in Nat /\ items[i].id \in Badge /\ items[i].hidden \in BOOLEAN
    OBVIOUS
  <2>1. i \in 1..Len(items)
    BY DEF BadgeTypes
  <2>2. items[i] \in Item
    BY <2>1, ElementOfSeq DEF BadgeTypes
  <2>3. items[i].id \in Badge
    BY DEF BadgeTypes, RowsFit
  <2>. QED
    BY <2>2, <2>3 DEF Item
<1>2. /\ act[a].at = "idle"
      /\ UNCHANGED <<curated, proposals, items, pending, picked, bulk, render, verdict, apart>>
  BY DEF ToggleHidden, SubmitEdit, SubmitNew, ResolveElsewhere, Asks, Tables, Page
<1>3. ASSUME NEW i \in DOMAIN items, ToggleHidden(a, i)
      PROVE  \E r \in ActRec : /\ r.at = "sent" /\ r.op # "reorder" /\ ActFits(r)
                               /\ act' = [act EXCEPT ![a] = r]
  <2>. DEFINE r == [Sent("hide") EXCEPT !.id = items[i].id, !.hidden = ~items[i].hidden, !.page = TRUE]
  <2>1. "hide" \in ActOp /\ TRUE \in BOOLEAN /\ (~items[i].hidden) \in BOOLEAN
    BY DEF ActOp
  <2>2. Sent("hide") \in ActRec /\ Sent("hide").at = "sent" /\ Sent("hide").op = "hide"
    BY <2>1, RequestsFit
  <2>3. r \in ActRec /\ r.at = "sent" /\ r.op = "hide" /\ r.id = items[i].id
    BY <1>1, <2>1, <2>2 DEF ActRec
  <2>4. act' = [act EXCEPT ![a] = r]
    BY <1>3 DEF ToggleHidden, Asks
  <2>. HIDE DEF r
  <2>5. ActFits(r)
    BY <1>1, <2>1, <2>3 DEF ActFits
  <2>. QED
    BY <2>3, <2>4, <2>5
<1>4. ASSUME NEW i \in DOMAIN items, NEW t \in Title, SubmitEdit(a, i, t)
      PROVE  \E r \in ActRec : /\ r.at = "sent" /\ r.op # "reorder" /\ ActFits(r)
                               /\ act' = [act EXCEPT ![a] = r]
  <2>. DEFINE r == [Sent("rename") EXCEPT !.id = items[i].id, !.name = t, !.page = TRUE]
  <2>1. "rename" \in ActOp /\ TRUE \in BOOLEAN
    BY DEF ActOp
  <2>2. Sent("rename") \in ActRec /\ Sent("rename").at = "sent" /\ Sent("rename").op = "rename"
    BY <2>1, RequestsFit
  <2>3. r \in ActRec /\ r.at = "sent" /\ r.op = "rename" /\ r.id = items[i].id /\ r.name = t
    BY <1>1, <2>1, <2>2 DEF ActRec
  <2>4. act' = [act EXCEPT ![a] = r]
    BY <1>4 DEF SubmitEdit, Asks
  <2>. HIDE DEF r
  <2>5. ActFits(r)
    BY <1>1, <2>1, <2>3 DEF ActFits
  <2>. QED
    BY <2>3, <2>4, <2>5
<1>5. ASSUME NEW t \in Title, SubmitNew(a, t)
      PROVE  \E r \in ActRec : /\ r.at = "sent" /\ r.op # "reorder" /\ ActFits(r)
                               /\ act' = [act EXCEPT ![a] = r]
  <2>. DEFINE r == [Sent("create") EXCEPT !.name = t, !.page = TRUE]
  <2>1. "create" \in ActOp /\ TRUE \in BOOLEAN
    BY DEF ActOp
  <2>2. Sent("create") \in ActRec /\ Sent("create").at = "sent" /\ Sent("create").op = "create"
    BY <2>1, RequestsFit
  <2>3. r \in ActRec /\ r.at = "sent" /\ r.op = "create" /\ r.name = t
    BY <2>1, <2>2 DEF ActRec
  <2>4. act' = [act EXCEPT ![a] = r]
    BY <1>5 DEF SubmitNew, Asks
  <2>. HIDE DEF r
  <2>5. ActFits(r)
    BY <2>1, <2>3 DEF ActFits
  <2>. QED
    BY <2>3, <2>4, <2>5
<1>6. ASSUME NEW t \in Title, NEW ask \in {"approve", "reject"}, ResolveElsewhere(a, t, ask)
      PROVE  \E r \in ActRec : /\ r.at = "sent" /\ r.op # "reorder" /\ ActFits(r)
                               /\ act' = [act EXCEPT ![a] = r]
  <2>. DEFINE r == [Sent(ask) EXCEPT !.name = t]
  <2>1. ask \in ActOp
    BY DEF ActOp
  <2>2. Sent(ask) \in ActRec /\ Sent(ask).at = "sent" /\ Sent(ask).op = ask
    BY <2>1, RequestsFit
  <2>3. r \in ActRec /\ r.at = "sent" /\ r.op = ask /\ r.name = t
    BY <2>1, <2>2 DEF ActRec
  <2>4. act' = [act EXCEPT ![a] = r]
    BY <1>6 DEF ResolveElsewhere, Asks
  <2>. HIDE DEF r
  <2>5. ActFits(r)
    BY <2>1, <2>3 DEF ActFits
  <2>. QED
    BY <2>3, <2>4, <2>5
<1>7. PICK r \in ActRec : r.at = "sent" /\ r.op # "reorder" /\ ActFits(r) /\ act' = [act EXCEPT ![a] = r]
  BY <1>3, <1>4, <1>5, <1>6 DEF ToggleHidden, SubmitEdit
<1>8. act' \in [Act -> ActRec] /\ act'[a] = r /\ \A c \in Act : c # a => act'[c] = act[c]
  BY <1>7, ActTurned
<1>9. BulkFits' /\ bulk' \in BulkRec
  <2>1. bulk.of # a
    BY <1>2 DEF BadgeCalls, BulkFits, Going, BadgeConstantsOK
  <2>. QED
    BY <1>2, <1>8, <2>1, BulkGoes DEF BadgeCalls, BadgeTypes
<1>. QED
  BY <1>2, <1>7, <1>9, Requested

\* The next of the bulk.
LEMMA NextResolved ==
  ASSUME BadgeConstantsOK, BadgeIInv, NEW a \in Act, NEW t \in Title, ResolveNext(a, t)
  PROVE  BadgeIInv'
<1>. USE DEF BadgeIInv
<1>. DEFINE r == [Sent(bulk.ask) EXCEPT !.name = t, !.page = TRUE]
<1>1. /\ bulk.of = NULL /\ t \in bulk.todo /\ act[a].at = "idle" /\ act' = [act EXCEPT ![a] = r]
      /\ bulk' = [bulk EXCEPT !.of = a, !.todo = bulk.todo \ {t}]
      /\ UNCHANGED <<curated, proposals, items, pending, picked, render, verdict, apart>>
  BY DEF ResolveNext, Asks, Tables
<1>2. bulk.ask \in {"approve", "reject"} /\ bulk.ask \in ActOp /\ TRUE \in BOOLEAN
  BY <1>1 DEF BadgeCalls, BulkFits, ActOp
<1>3. /\ r \in ActRec /\ r.at = "sent" /\ r.op = bulk.ask /\ r.name = t /\ r.page = TRUE
  <2>1. Sent(bulk.ask) \in ActRec /\ Sent(bulk.ask).at = "sent" /\ Sent(bulk.ask).op = bulk.ask
    BY <1>2, RequestsFit
  <2>. QED
    BY <1>2, <2>1 DEF ActRec
<1>. HIDE DEF r
<1>4. act' \in [Act -> ActRec] /\ act'[a] = r
  BY <1>1, <1>3, ActTurned
<1>5. bulk \in BulkRec
  BY DEF BadgeTypes
<1>6. /\ bulk' \in BulkRec /\ bulk'.of = a /\ bulk'.todo = bulk.todo \ {t} /\ bulk'.ask = bulk.ask
      /\ bulk'.single = bulk.single
  <2>1. bulk.todo \ {t} \in SUBSET Title /\ a \in Act \cup {NULL}
    BY <1>5 DEF BulkRec
  <2>. QED
    BY <1>1, <1>5, <2>1 DEF BulkRec
<1>7. BulkFits'
  <2>1. bulk'.single => bulk'.todo = {}
    BY <1>1, <1>6 DEF BadgeCalls, BulkFits
  <2>2. Going(a)' /\ act'[a].page /\ act'[a].op \in {"approve", "reject"}
    BY <1>2, <1>3, <1>4 DEF Going
  <2>. QED
    BY <1>2, <1>6, <2>1, <2>2 DEF BulkFits
<1>8. Busy'
  <2>1. NoBulk.of = NULL /\ a # NULL
    BY DEF NoBulk, BadgeConstantsOK
  <2>. QED
    BY <1>6, <2>1 DEF Busy, NoBulk
<1>9. ActFits(r)
  BY <1>2, <1>3 DEF ActFits
<1>10. r.op # "reorder"
  BY <1>2, <1>3
<1>. QED
  BY <1>1, <1>3, <1>6, <1>7, <1>8, <1>9, <1>10, Requested
\* What is picked, and the start of a run.
LEMMA BulkStarts ==
  ASSUME BadgeConstantsOK, BadgeIInv,
         \/ TickAll \/ \E t \in Title : Tick(t)
         \/ \E ask \in {"approve", "reject"} : StartBulk(ask) \/ \E t \in Title : StartSingle(t, ask)
  PROVE  BadgeIInv'
<1>. USE DEF BadgeIInv
<1>1. UNCHANGED <<curated, proposals, items, pending, render, act, verdict, apart>>
  BY DEF TickAll, Tick, StartBulk, StartSingle, Tables
<1>2. pending \in SUBSET Title /\ picked \in SUBSET Title /\ bulk \in BulkRec
  BY DEF BadgeTypes
<1>3. picked' \in SUBSET Title
  BY <1>2 DEF TickAll, Tick, StartBulk, StartSingle
<1>4. bulk' = bulk \/ (~Busy /\ bulk' \in BulkRec /\ BulkFits')
  <2>1. CASE \E ask \in {"approve", "reject"} : StartBulk(ask)
    <3>1. PICK ask \in {"approve", "reject"} : StartBulk(ask)
      BY <2>1
    <3>2. NoBulk \in BulkRec /\ NoBulk.of = NULL /\ NoBulk.single = FALSE
      <4>1. FALSE \in BOOLEAN /\ {} \in SUBSET Title
        OBVIOUS
      <4>. QED
        BY <4>1 DEF NoBulk, BulkRec
    <3>3. bulk' = [NoBulk EXCEPT !.todo = picked, !.ask = ask] /\ ~Busy
      BY <3>1 DEF StartBulk
    <3>4. bulk' \in BulkRec /\ bulk'.ask = ask /\ bulk'.of = NULL /\ bulk'.single = FALSE
      BY <1>2, <3>2, <3>3 DEF BulkRec
    <3>. QED
      BY <3>3, <3>4 DEF BulkFits
  <2>2. CASE \E ask \in {"approve", "reject"}, t \in Title : StartSingle(t, ask)
    <3>1. PICK ask \in {"approve", "reject"}, t \in Title : StartSingle(t, ask)
      BY <2>2
    <3>2. /\ bulk' = [todo |-> {t}, ask |-> ask, of |-> NULL, single |-> TRUE, before |-> picked]
          /\ ~Busy
      BY <3>1 DEF StartSingle
    <3>3. bulk' \in BulkRec /\ bulk'.ask = ask /\ bulk'.of = NULL /\ bulk'.todo = {t}
      <4>1. TRUE \in BOOLEAN /\ {t} \in SUBSET Title
        OBVIOUS
      <4>. QED
        BY <1>2, <3>2, <4>1 DEF BulkRec
    <3>. QED
      BY <3>2, <3>3 DEF BulkFits
  <2>. QED
    BY <2>1, <2>2 DEF TickAll, Tick
<1>5. BadgeTypes'
  BY <1>1, <1>2, <1>3, <1>4 DEF BadgeTypes, TableFits, RowsFit, Badge
<1>6. BadgeCalls'
  <2>1. BulkFits'
    BY <1>1, <1>4 DEF BadgeCalls, BulkFits, Going
  <2>. QED
    BY <1>1, <2>1 DEF BadgeCalls, ActFits, ReadsFit, OrdersFit, Reorders, Going, Badge
<1>7. OneVerdict'
  BY <1>1 DEF OneVerdict
<1>8. Unseen => Unseen'
  BY <1>1, <1>4 DEF Unseen, Busy
<1>9. Shown => Shown'
  <2>1. PageShows' = PageShows /\ (Faithful(items)' <=> Faithful(items))
    BY <1>1 DEF PageShows, Faithful, Badge
  <2>. QED
    BY <1>1, <2>1 DEF Shown, Sending
<1>. QED
  BY <1>1, <1>5, <1>6, <1>7, <1>8, <1>9 DEF PageFitsTables

\* A new name among the suggestions.
LEMMA Suggested ==
  ASSUME BadgeConstantsOK, BadgeIInv, NEW t \in Title, Suggest(t)
  PROVE  BadgeIInv'
<1>. USE DEF BadgeIInv
<1>1. /\ proposals[t] = "none" /\ proposals' = [proposals EXCEPT ![t] = "open"] /\ apart' = TRUE
      /\ UNCHANGED <<curated, items, pending, picked, bulk, render, act, verdict>>
  BY DEF Suggest, Page
<1>2. proposals \in [Title -> {"none", "open", "resolved"}]
  BY DEF BadgeTypes
<1>3. \A u \in Title : proposals'[u] = "resolved" <=> proposals[u] = "resolved"
  BY <1>1, <1>2
<1>4. BadgeTypes'
  <2>1. proposals' \in [Title -> {"none", "open", "resolved"}] /\ apart' \in BOOLEAN
    BY <1>1, <1>2
  <2>. QED
    BY <1>1, <2>1 DEF BadgeTypes, TableFits, RowsFit, Badge
<1>5. BadgeCalls'
  <2>1. ReadsFit'
    <3>1. \A c \in Act : act[c].at = "read" => act[c].name \in Title
      BY DEF BadgeCalls, ActFits
    <3>. QED
      BY <1>1, <1>3, <3>1 DEF BadgeCalls, ReadsFit
  <2>. QED
    BY <1>1, <2>1 DEF BadgeCalls, ActFits, BulkFits, OrdersFit, Going, Badge
<1>6. OneVerdict'
  BY <1>1, <1>3 DEF OneVerdict
<1>. QED
  BY <1>1, <1>4, <1>5, <1>6 DEF PageFitsTables

\* A request that fails leaves the tables alone; a reorder that fails is read again.
LEMMA BadgeFails ==
  ASSUME BadgeConstantsOK, BadgeIInv, NEW a \in Act, act[a].at \in {"sent", "read"},
         Turns(a, "refused"), UNCHANGED <<curated, proposals, Page, verdict, apart>>
  PROVE  BadgeIInv'
<1>. USE DEF BadgeIInv
<1>. DEFINE r == [act[a] EXCEPT !.at = "refused"]
<1>1. /\ act' = [act EXCEPT ![a] = r] /\ r \in ActRec /\ r.at = "refused" /\ r.op = act[a].op
      /\ r.id = act[a].id /\ r.name = act[a].name /\ r.ids = act[a].ids /\ r.page = act[a].page
  BY StageTurned
<1>. HIDE DEF r
<1>2. act' \in [Act -> ActRec] /\ act'[a] = r /\ \A c \in Act : c # a => act'[c] = act[c]
  BY <1>1, ActTurned
<1>3. PageQuiet
  BY DEF PageQuiet, BadgeTypes, Page
<1>4. bulk' = bulk /\ render' = render /\ apart' = apart /\ verdict' = verdict /\ proposals' = proposals
  BY DEF Page
<1>5. BulkFits'
  BY <1>1, <1>2, <1>4, BulkGoes DEF BadgeCalls
<1>6. ReadsFit'
  BY <1>1, <1>2, <1>4, ReadsGo DEF BadgeCalls
<1>7. ActFits(r)
  BY <1>1 DEF BadgeCalls, ActFits
<1>8. ~Sending(a)' /\ (Reorders(a)' => Reorders(a)) /\ act'[a].page = act[a].page /\ ~Due(act[a])
  BY <1>1, <1>2 DEF Sending, Reorders, Going, Due
<1>9. Busy /\ ~bulk.single => Unseen'
  BY <1>4 DEF Busy, Unseen
<1>10. ASSUME Sending(a) PROVE apart' \/ Unseen'
  <2>1. CASE act[a].page
    BY <1>1, <1>2, <1>10, <2>1 DEF Sending, Unseen, Due
  <2>2. CASE ~act[a].page
    BY <1>4, <1>10, <2>2 DEF BadgeCalls, OrdersFit, Reorders, Sending, Going, Unseen
  <2>. QED
    BY <2>1, <2>2
<1>. QED
  BY <1>1, <1>3, <1>5, <1>6, <1>7, <1>8, <1>9, <1>10, BadgeQuiet

LEMMA RowUpdated ==
  ASSUME BadgeConstantsOK, BadgeIInv, NEW a \in Act, UpdateRow(a)
  PROVE  BadgeIInv'
<1>. USE DEF BadgeIInv
<1>. DEFINE r == [act[a] EXCEPT !.rows = @ + 1]
<1>1. act \in [Act -> ActRec] /\ act[a] \in ActRec
  BY DEF BadgeTypes
<1>2. /\ r \in ActRec /\ r.at = act[a].at /\ r.op = act[a].op /\ r.id = act[a].id
      /\ r.name = act[a].name /\ r.ids = act[a].ids /\ r.page = act[a].page
  <2>1. act[a].rows \in Nat
    BY <1>1 DEF ActRec
  <2>2. act[a].rows + 1 \in Nat
    BY <2>1
  <2>. QED
    BY <1>1, <2>2 DEF ActRec
<1>3. act' = [act EXCEPT ![a] = r] /\ act[a].at = "sent"
  BY <1>1 DEF UpdateRow, WantsRow
<1>. HIDE DEF r
<1>4. act' \in [Act -> ActRec] /\ act'[a] = r /\ \A c \in Act : c # a => act'[c] = act[c]
  BY <1>2, <1>3, ActTurned
<1>5. /\ UNCHANGED <<curated, proposals, items, pending, picked, bulk, render, verdict, apart>>
  BY DEF UpdateRow, Tables, Page
<1>6. PageQuiet
  BY <1>5 DEF PageQuiet, BadgeTypes
<1>7. BulkFits'
  BY <1>2, <1>3, <1>4, <1>5, BulkGoes DEF BadgeCalls
<1>8. ReadsFit'
  BY <1>2, <1>3, <1>4, <1>5, ReadsGo DEF BadgeCalls
<1>9. ActFits(r)
  BY <1>2 DEF BadgeCalls, ActFits
<1>10. /\ (Sending(a)' <=> Sending(a)) /\ act'[a].ids = act[a].ids /\ (Reorders(a)' => Reorders(a))
       /\ act'[a].page = act[a].page /\ ~Due(act[a])
  BY <1>2, <1>3, <1>4 DEF Sending, Reorders, Going, Due
<1>11. Busy /\ ~bulk.single => Unseen'
  BY <1>5 DEF Busy, Unseen
<1>. QED
  BY <1>2, <1>3, <1>6, <1>7, <1>8, <1>9, <1>10, <1>11, BadgeQuiet

\* A suggestion that is read; one that another request has read is crossed.
LEMMA SuggestionRead ==
  ASSUME BadgeConstantsOK, BadgeIInv, NEW a \in Act, ReadSuggestion(a)
  PROVE  BadgeIInv'
<1>. USE DEF BadgeIInv
<1>1. PICK stage \in {"done", "read"} :
        /\ Turns(a, stage) /\ (stage = "read" => proposals[act[a].name] # "resolved")
        /\ act[a].at = "sent" /\ act[a].op \in {"approve", "reject"}
        /\ verdict' = [verdict EXCEPT !.crossed = verdict.crossed \cup
             {t \in {act[a].name} : \E c \in Act \ {a} : act[c].at = "read" /\ act[c].name = t}]
        /\ UNCHANGED <<curated, proposals, items, pending, picked, bulk, render, apart>>
  BY DEF ReadSuggestion, Tables, Page
<1>. DEFINE r == [act[a] EXCEPT !.at = stage]
<1>2. /\ act' = [act EXCEPT ![a] = r] /\ r \in ActRec /\ r.at = stage /\ r.op = act[a].op
      /\ r.id = act[a].id /\ r.name = act[a].name /\ r.ids = act[a].ids /\ r.page = act[a].page
  <2>1. stage \in {"sent", "read", "done", "refused"}
    OBVIOUS
  <2>. QED
    BY <1>1, <2>1, StageTurned
<1>. HIDE DEF r
<1>3. act' \in [Act -> ActRec] /\ act'[a] = r /\ \A c \in Act : c # a => act'[c] = act[c]
  BY <1>2, ActTurned
<1>4. ActFits(act[a]) /\ act[a].name \in Title /\ verdict \in VerdictRec
  BY <1>1 DEF BadgeCalls, ActFits, BadgeTypes
<1>5. /\ verdict' \in VerdictRec /\ verdict'.rejected = verdict.rejected /\ verdict'.made = verdict.made
      /\ \A t : t \in verdict'.crossed <=>
           \/ t \in verdict.crossed
           \/ (t = act[a].name /\ \E c \in Act \ {a} : act[c].at = "read" /\ act[c].name = t)
  <2>. DEFINE new == {t \in {act[a].name} : \E c \in Act \ {a} : act[c].at = "read" /\ act[c].name = t}
  <2>1. new \in SUBSET Title
    BY <1>4
  <2>2. \A t : t \in new <=> (t = act[a].name /\ \E c \in Act \ {a} : act[c].at = "read" /\ act[c].name = t)
    OBVIOUS
  <2>. HIDE DEF new
  <2>3. verdict' = [verdict EXCEPT !.crossed = verdict.crossed \cup new]
    BY <1>1 DEF new
  <2>4. /\ verdict' \in VerdictRec /\ verdict'.rejected = verdict.rejected /\ verdict'.made = verdict.made
        /\ verdict'.crossed = verdict.crossed \cup new
    BY <1>4, <2>1, <2>3 DEF VerdictRec
  <2>. QED
    BY <2>2, <2>4
<1>6. PageQuiet
  BY <1>1, <1>5 DEF PageQuiet, BadgeTypes
<1>7. BulkFits'
  BY <1>1, <1>2, <1>3, BulkGoes DEF BadgeCalls
<1>8. ReadsFit'
  <2>. SUFFICES ASSUME NEW c \in Act, act'[c].at = "read"
                PROVE  /\ proposals[act'[c].name] = "resolved" => act'[c].name \in verdict'.crossed
                       /\ \A d \in Act : d # c /\ act'[d].at = "read" /\ act'[d].name = act'[c].name =>
                            act'[c].name \in verdict'.crossed
    BY <1>1 DEF ReadsFit
  <2>1. CASE c = a
    BY <1>1, <1>2, <1>3, <1>5, <2>1
  <2>2. CASE c # a
    BY <1>2, <1>3, <1>5, <2>2 DEF BadgeCalls, ReadsFit
  <2>. QED
    BY <2>1, <2>2
<1>9. ActFits(r)
  BY <1>1, <1>2, <1>4 DEF ActFits
<1>10. ~Sending(a)' /\ ~Sending(a) /\ ~Reorders(a)' /\ ~Due(act[a])
  BY <1>1, <1>2, <1>3 DEF Sending, Reorders, Due
<1>11. Busy /\ ~bulk.single => Unseen'
  BY <1>1 DEF Busy, Unseen
<1>. QED
  BY <1>2, <1>6, <1>7, <1>8, <1>9, <1>10, <1>11, BadgeQuiet
-----------------------------------------------------------------------------
\* A new row, in its place.
LEMMA RowInserted ==
  ASSUME BadgeConstantsOK, BadgeTypes, NEW name \in Title, NEW place \in 0..Len(curated),
         Len(curated) < MaxBadges, Inserts([name |-> name, order |-> place, hidden |-> FALSE])
  PROVE  TableFits' /\ Len(curated') \in Nat /\ Len(curated) <= Len(curated')
<1>. DEFINE row == [name |-> name, order |-> place, hidden |-> FALSE]
            BadgeCols == [name : Title, order : Nat, hidden : BOOLEAN]
<1>1. /\ curated \in Seq(BadgeCols) /\ Len(curated) \in Nat /\ MaxBadges \in Nat
      /\ \A b \in 1..Len(curated) : curated[b].order < Len(curated)
  BY DEF BadgeTypes, TableFits, Table, Badge, BadgeConstantsOK
<1>2. row \in BadgeCols /\ row.order = place
  BY <1>1
<1>3. curated' = Append(curated, row)
  BY DEF Inserts
<1>. HIDE DEF row, BadgeCols
<1>4. /\ curated' \in Seq(BadgeCols) /\ Len(curated') = Len(curated) + 1
      /\ \A b \in 1..Len(curated) : curated'[b] = curated[b]
      /\ curated'[Len(curated) + 1] = row
  BY <1>1, <1>2, <1>3
<1>5. ASSUME NEW b \in 1..Len(curated') PROVE curated'[b].order < Len(curated')
  <2>1. CASE b = Len(curated) + 1
    BY <1>1, <1>2, <1>4, <2>1
  <2>2. CASE b # Len(curated) + 1
    <3>1. b \in 1..Len(curated)
      BY <1>1, <1>4, <2>2
    <3>2. curated'[b] = curated[b] /\ curated[b].order < Len(curated)
      BY <1>1, <1>4, <3>1
    <3>3. curated[b].order \in Nat
      <4>1. curated[b] \in BadgeCols
        BY <1>1, <3>1, ElementOfSeq
      <4>. QED
        BY <4>1 DEF BadgeCols
    <3>. QED
      BY <1>1, <1>4, <3>2, <3>3
  <2>. QED
    BY <2>1, <2>2
<1>6. Len(curated') <= MaxBadges
  BY <1>1, <1>4
<1>7. curated' \in Table
  BY <1>4 DEF Table, BadgeCols
<1>. QED
  BY <1>1, <1>4, <1>5, <1>6, <1>7 DEF TableFits, Badge

\* The place after the last.
LEMMA LastPlaceFits ==
  ASSUME BadgeTypes PROVE LastPlace \in 0..Len(curated)
<1>1. /\ curated \in Table /\ Len(curated) \in Nat
      /\ \A b \in Badge : curated[b].order < Len(curated) /\ curated[b].order \in Nat
  <2>1. curated \in Table /\ \A b \in Badge : curated[b].order < Len(curated)
    BY DEF BadgeTypes, TableFits
  <2>2. Len(curated) \in Nat /\ \A b \in 1..Len(curated) : curated[b].order \in Nat
    BY <2>1, PlacesFit
  <2>. QED
    BY <2>1, <2>2 DEF Badge
<1>2. CASE curated = <<>>
  BY <1>1, <1>2 DEF LastPlace
<1>3. CASE curated # <<>>
  <2>. DEFINE S == {curated[b].order : b \in Badge}
              n == Len(curated)
  <2>1. 1 \in Badge /\ n # 0
    BY <1>1, <1>3 DEF Badge, Table
  <2>2. S \in SUBSET (0..n) /\ S # {} /\ \A x \in S : x < n
    BY <1>1, <2>1
  <2>. HIDE DEF S
  <2>3. \E x \in S : \A y \in S : y <= x
    BY <1>1, <2>2, EndsOfNumbers
  <2>4. \E x \in S : \A y \in S : x >= y
    BY <1>1, <2>2, <2>3
  <2>5. Max(S) \in S
    BY <2>4 DEF Max
  <2>6. Max(S) \in Nat /\ Max(S) < n
    BY <1>1, <2>2, <2>5
  <2>7. LastPlace = Max(S) + 1
    BY <1>3 DEF LastPlace, S
  <2>. QED
    BY <1>1, <2>6, <2>7
<1>. QED
  BY <1>2, <1>3

\* A badge that is created, or not because there is one of its name.
LEMMA BadgeCreated ==
  ASSUME BadgeConstantsOK, BadgeIInv, NEW a \in Act, CreateBadge(a)
  PROVE  BadgeIInv'
<1>. USE DEF BadgeIInv
<1>1. act[a].at = "sent" /\ act[a].op = "create" /\ proposals' = proposals /\ verdict' = verdict /\ UNCHANGED Page
  BY DEF CreateBadge
<1>2. CASE BadgeNamed(act[a].name)
  <2>1. Turns(a, "refused") /\ apart' = apart /\ curated' = curated
    BY <1>2 DEF CreateBadge, ActEnds, BadgeTypes
  <2>. QED
    BY <1>1, <2>1, BadgeFails
<1>3. CASE ~BadgeNamed(act[a].name)
  <2>1. /\ Len(curated) < MaxBadges /\ ActEnds(a, "done") /\ act[a].name \in Title
        /\ Inserts([name |-> act[a].name, order |-> LastPlace, hidden |-> FALSE])
    BY <1>1, <1>3 DEF CreateBadge, BadgeCalls, ActFits
  <2>2. TableFits' /\ Len(curated') \in Nat /\ Len(curated) <= Len(curated')
    BY <2>1, LastPlaceFits, RowInserted
  <2>3. act'[a].at = "done" /\ \A c \in Act : c # a => act'[c] = act[c]
    BY <2>1 DEF ActEnds, Turns, BadgeTypes
  <2>4. ReadsFit'
    BY <1>1, <2>3, ReadsGo DEF BadgeCalls
  <2>5. OneVerdict'
    BY <1>1 DEF OneVerdict
  <2>6. proposals' \in [Title -> {"none", "open", "resolved"}] /\ verdict' \in VerdictRec
    BY <1>1 DEF BadgeTypes
  <2>. QED
    BY <1>1, <2>1, <2>2, <2>4, <2>5, <2>6, BadgeWrites
<1>. QED
  BY <1>2, <1>3

\* A badge that is renamed, hidden or shown.
LEMMA BadgePatched ==
  ASSUME BadgeConstantsOK, BadgeIInv, NEW a \in Act, PatchBadge(a)
  PROVE  BadgeIInv'
<1>. USE DEF BadgeIInv
<1>. DEFINE b == act[a].id
<1>1. /\ act[a].at = "sent" /\ act[a].op \in {"rename", "hide"} /\ proposals' = proposals
      /\ verdict' = verdict /\ UNCHANGED Page
  BY DEF PatchBadge
<1>2. ActFits(act[a]) /\ act[a] \in ActRec
  BY DEF BadgeCalls, BadgeTypes
<1>3. b \in Badge /\ act[a].hidden \in BOOLEAN /\ (act[a].op = "rename" => act[a].name \in Title)
  BY <1>1, <1>2 DEF ActFits, ActRec
<1>4. /\ curated \in Table /\ Len(curated) \in Nat /\ DOMAIN curated = Badge
      /\ \A c \in Badge : curated[c].order < Len(curated) /\ Len(curated) <= MaxBadges
      /\ \A c \in Badge : curated[c] \in [name : Title, order : Nat, hidden : BOOLEAN]
  <2>1. curated \in Table /\ TableFits
    BY DEF BadgeTypes, TableFits
  <2>2. Len(curated) \in Nat /\ DOMAIN curated = 1..Len(curated)
    BY <2>1 DEF Table
  <2>3. \A c \in 1..Len(curated) : curated[c] \in [name : Title, order : Nat, hidden : BOOLEAN]
    BY <2>1, <2>2, ElementOfSeq DEF Table
  <2>. QED
    BY <2>1, <2>2, <2>3 DEF TableFits, Badge
<1>5. CASE act[a].op = "rename" /\ \E c \in Badge \ {b} : curated[c].name = act[a].name
  <2>1. Turns(a, "refused") /\ apart' = apart /\ curated' = curated
    BY <1>5 DEF PatchBadge, ActEnds, BadgeTypes
  <2>. QED
    BY <1>1, <2>1, BadgeFails
<1>6. CASE ~(act[a].op = "rename" /\ \E c \in Badge \ {b} : curated[c].name = act[a].name)
  <2>1. ActEnds(a, "done")
    BY <1>1, <1>6 DEF PatchBadge
  <2>2. \E row \in [name : Title, order : Nat, hidden : BOOLEAN] :
          row.order = curated[b].order /\ curated' = [curated EXCEPT ![b] = row]
    <3>1. CASE act[a].op = "hide"
      <4>. DEFINE row == [curated[b] EXCEPT !.hidden = act[a].hidden]
      <4>1. row \in [name : Title, order : Nat, hidden : BOOLEAN] /\ row.order = curated[b].order
        BY <1>3, <1>4
      <4>2. curated' = [curated EXCEPT ![b] = row]
        BY <1>3, <1>4, <3>1 DEF PatchBadge
      <4>. QED
        BY <4>1, <4>2
    <3>2. CASE act[a].op = "rename"
      <4>. DEFINE row == [curated[b] EXCEPT !.name = act[a].name]
      <4>1. row \in [name : Title, order : Nat, hidden : BOOLEAN] /\ row.order = curated[b].order
        BY <1>3, <1>4, <3>2
      <4>2. curated' = [curated EXCEPT ![b] = row]
        BY <1>3, <1>4, <1>6, <3>2 DEF PatchBadge
      <4>. QED
        BY <4>1, <4>2
    <3>. QED
      BY <1>1, <3>1, <3>2
  <2>3. PICK row \in [name : Title, order : Nat, hidden : BOOLEAN] :
          row.order = curated[b].order /\ curated' = [curated EXCEPT ![b] = row]
    BY <2>2
  <2>4. /\ curated' \in Table /\ Len(curated') = Len(curated)
        /\ \A c \in Badge : curated'[c] = IF c = b THEN row ELSE curated[c]
    <3>1. curated' \in Seq([name : Title, order : Nat, hidden : BOOLEAN]) /\ Len(curated') = Len(curated)
      BY <1>3, <1>4, <2>3, ExceptSeq DEF Table
    <3>. QED
      BY <1>4, <2>3, <3>1 DEF Table
  <2>5. TableFits'
    <3>1. Badge' = Badge
      BY <2>4 DEF Badge
    <3>2. ASSUME NEW c \in Badge PROVE curated'[c].order < Len(curated)
      <4>1. curated'[c].order = curated[c].order
        BY <2>3, <2>4
      <4>. QED
        BY <1>4, <4>1
    <3>3. Len(curated) <= MaxBadges
      BY <1>3, <1>4
    <3>. QED
      BY <2>4, <3>1, <3>2, <3>3 DEF TableFits
  <2>6. act'[a].at = "done" /\ \A c \in Act : c # a => act'[c] = act[c]
    BY <2>1 DEF ActEnds, Turns, BadgeTypes
  <2>7. ReadsFit'
    BY <1>1, <2>6, ReadsGo DEF BadgeCalls
  <2>8. OneVerdict'
    BY <1>1 DEF OneVerdict
  <2>9. proposals' \in [Title -> {"none", "open", "resolved"}] /\ verdict' \in VerdictRec
    BY <1>1 DEF BadgeTypes
  <2>10. Len(curated) <= Len(curated')
    BY <1>4, <2>4
  <2>. QED
    BY <1>1, <2>1, <2>5, <2>7, <2>8, <2>9, <2>10, BadgeWrites
<1>. QED
  BY <1>5, <1>6
\* A suggestion that is rejected; a badge was not made of it, unless the two crossed.
LEMMA SuggestionRejected ==
  ASSUME BadgeConstantsOK, BadgeIInv, NEW a \in Act, RejectSuggestion(a)
  PROVE  BadgeIInv'
<1>. USE DEF BadgeIInv
<1>. DEFINE t == act[a].name
<1>1. /\ act[a].at = "read" /\ act[a].op = "reject" /\ proposals' = [proposals EXCEPT ![t] = "resolved"]
      /\ ActEnds(a, "done") /\ curated' = curated /\ UNCHANGED Page
      /\ verdict' = IF proposals[t] = "resolved" THEN verdict
                    ELSE [verdict EXCEPT !.rejected = verdict.rejected \cup {t}]
  BY DEF RejectSuggestion
<1>2. /\ t \in Title /\ proposals \in [Title -> {"none", "open", "resolved"}] /\ verdict \in VerdictRec
  BY <1>1 DEF BadgeCalls, ActFits, BadgeTypes
<1>3. act'[a].at = "done" /\ \A c \in Act : c # a => act'[c] = act[c]
  BY <1>1 DEF ActEnds, Turns, BadgeTypes
<1>. HIDE DEF t
<1>4. /\ verdict' \in VerdictRec /\ verdict'.made = verdict.made /\ verdict'.crossed = verdict.crossed
      /\ verdict'.rejected = IF proposals[t] = "resolved" THEN verdict.rejected
                             ELSE verdict.rejected \cup {t}
  <2>1. CASE proposals[t] = "resolved"
    BY <1>1, <1>2, <2>1
  <2>2. CASE proposals[t] # "resolved"
    <3>1. verdict.rejected \cup {t} \in SUBSET Title
      BY <1>2 DEF VerdictRec
    <3>2. verdict' = [verdict EXCEPT !.rejected = verdict.rejected \cup {t}]
      BY <1>1, <2>2
    <3>. QED
      BY <1>2, <2>2, <3>1, <3>2 DEF VerdictRec
  <2>. QED
    BY <2>1, <2>2
<1>5. /\ proposals' \in [Title -> {"none", "open", "resolved"}]
      /\ \A u \in Title : proposals'[u] = IF u = t THEN "resolved" ELSE proposals[u]
  BY <1>1, <1>2
<1>6. OneVerdict'
  BY <1>2, <1>4, <1>5 DEF OneVerdict
<1>7. ReadsFit'
  <2>. SUFFICES ASSUME NEW c \in Act, c # a, act[c].at = "read"
                PROVE  /\ proposals'[act[c].name] = "resolved" => act[c].name \in verdict.crossed
                       /\ \A d \in Act : d # c /\ d # a /\ act[d].at = "read" /\ act[d].name = act[c].name =>
                            act[c].name \in verdict.crossed
    BY <1>3, <1>4 DEF ReadsFit
  <2>1. act[c].name \in Title
    BY DEF BadgeCalls, ActFits
  <2>2. act[c].name = t => act[c].name \in verdict.crossed
    BY <1>1 DEF BadgeCalls, ReadsFit, t
  <2>. QED
    BY <1>5, <2>1, <2>2 DEF BadgeCalls, ReadsFit
<1>8. TableFits' /\ Len(curated) <= Len(curated')
  BY <1>1 DEF BadgeTypes, TableFits, Table, Badge
<1>. QED
  BY <1>1, <1>4, <1>5, <1>6, <1>7, <1>8, BadgeWrites

\* A suggestion that is approved; it was not rejected, unless the two crossed.
LEMMA SuggestionApproved ==
  ASSUME BadgeConstantsOK, BadgeIInv, NEW a \in Act, ApproveSuggestion(a)
  PROVE  BadgeIInv'
<1>. USE DEF BadgeIInv
<1>. DEFINE t == act[a].name
<1>1. act[a].at = "read" /\ act[a].op = "approve" /\ UNCHANGED Page
  BY DEF ApproveSuggestion
<1>2. /\ t \in Title /\ proposals \in [Title -> {"none", "open", "resolved"}] /\ verdict \in VerdictRec
  BY <1>1 DEF BadgeCalls, ActFits, BadgeTypes
<1>3. CASE BadgeNamed(t)
  <2>1. /\ Turns(a, "refused") /\ apart' = apart /\ curated' = curated /\ proposals' = proposals
        /\ verdict' = verdict
    BY <1>3 DEF ApproveSuggestion, ActEnds, BadgeTypes
  <2>. QED
    BY <1>1, <2>1, BadgeFails
<1>4. CASE ~BadgeNamed(t)
  <2>1. /\ Len(curated) < MaxBadges /\ ActEnds(a, "done")
        /\ Inserts([name |-> t, order |-> 0, hidden |-> FALSE])
        /\ proposals' = [proposals EXCEPT ![t] = "resolved"]
        /\ verdict' = [verdict EXCEPT !.made = verdict.made \cup {t}]
    BY <1>4 DEF ApproveSuggestion
  <2>2. TableFits' /\ Len(curated') \in Nat /\ Len(curated) <= Len(curated')
    <3>1. 0 \in 0..Len(curated)
      BY DEF BadgeTypes, TableFits, Table
    <3>. QED
      BY <1>2, <2>1, <3>1, RowInserted
  <2>3. act'[a].at = "done" /\ \A c \in Act : c # a => act'[c] = act[c]
    BY <2>1 DEF ActEnds, Turns, BadgeTypes
  <2>4. act[a].name = t
    OBVIOUS
  <2>. HIDE DEF t
  <2>5. /\ verdict' \in VerdictRec /\ verdict'.made = verdict.made \cup {t}
        /\ verdict'.crossed = verdict.crossed /\ verdict'.rejected = verdict.rejected
    <3>1. verdict.made \cup {t} \in SUBSET Title
      BY <1>2 DEF VerdictRec
    <3>. QED
      BY <1>2, <2>1, <3>1 DEF VerdictRec
  <2>6. /\ proposals' \in [Title -> {"none", "open", "resolved"}]
        /\ \A u \in Title : proposals'[u] = IF u = t THEN "resolved" ELSE proposals[u]
    BY <1>2, <2>1
  <2>7. OneVerdict'
    <3>1. t \in verdict.rejected => t \in verdict.crossed
      BY <1>1, <1>2, <2>4 DEF BadgeCalls, ReadsFit, OneVerdict
    <3>. QED
      BY <1>2, <2>5, <2>6, <3>1 DEF OneVerdict
  <2>8. ReadsFit'
    <3>. SUFFICES ASSUME NEW c \in Act, c # a, act[c].at = "read"
                  PROVE  /\ proposals'[act[c].name] = "resolved" => act[c].name \in verdict.crossed
                         /\ \A d \in Act : d # c /\ d # a /\ act[d].at = "read" /\ act[d].name = act[c].name =>
                              act[c].name \in verdict.crossed
      BY <2>3, <2>5 DEF ReadsFit
    <3>1. act[c].name \in Title
      BY DEF BadgeCalls, ActFits
    <3>2. act[c].name = t => act[c].name \in verdict.crossed
      BY <1>1, <2>4 DEF BadgeCalls, ReadsFit
    <3>. QED
      BY <2>6, <3>1, <3>2 DEF BadgeCalls, ReadsFit
  <2>. QED
    BY <1>1, <2>1, <2>2, <2>5, <2>6, <2>7, <2>8, BadgeWrites
<1>. QED
  BY <1>3, <1>4

\* An answer that the page hears: the request is over.
LEMMA AnswerHeard ==
  ASSUME BadgeConstantsOK, BadgeIInv, NEW a \in Act, Succeeded(a) \/ OrderSaved(a) \/ ActRefused(a)
  PROVE  BadgeIInv'
<1>. USE DEF BadgeIInv
<1>. DEFINE r == [NoAct EXCEPT !.at = "over"]
<1>1. /\ act[a].page /\ act' = [act EXCEPT ![a] = r] /\ act[a].op \notin {"approve", "reject"}
      /\ act[a].at \in {"done", "refused"}
      /\ UNCHANGED <<curated, proposals, items, pending, picked, bulk, verdict, apart>>
  BY DEF Succeeded, OrderSaved, ActRefused, Over, Tables, Page
<1>2. r \in ActRec /\ r.at = "over"
  BY RequestsFit DEF ActRec
<1>. HIDE DEF r
<1>3. act' \in [Act -> ActRec] /\ act'[a] = r /\ \A c \in Act : c # a => act'[c] = act[c]
  BY <1>1, <1>2, ActTurned
<1>4. /\ render' \in RenderRec /\ render'.read = render.read /\ (render.wanted => render'.wanted)
      /\ (Due(act[a]) => render'.wanted)
  <2>1. render \in RenderRec
    BY DEF BadgeTypes
  <2>2. Refresh => /\ render' \in RenderRec /\ render'.read = render.read /\ render'.wanted
    BY <2>1 DEF Refresh, RenderRec
  <2>3. CASE Succeeded(a)
    BY <2>2, <2>3 DEF Succeeded
  <2>4. CASE OrderSaved(a)
    <3>1. ~Due(act[a]) /\ render' = render
      BY <2>4 DEF OrderSaved, Due, Page
    <3>. QED
      BY <2>1, <3>1
  <2>5. CASE ActRefused(a)
    <3>1. CASE act[a].op = "reorder"
      BY <2>2, <2>5, <3>1 DEF ActRefused
    <3>2. CASE act[a].op # "reorder"
      <4>1. ~Due(act[a]) /\ render' = render
        BY <2>5, <3>2 DEF ActRefused, Due
      <4>. QED
        BY <2>1, <4>1
    <3>. QED
      BY <3>1, <3>2
  <2>. QED
    BY <2>3, <2>4, <2>5
<1>5. PageQuiet
  BY <1>1, <1>4 DEF PageQuiet, BadgeTypes
<1>6. BulkFits'
  <2>1. bulk.of # a
    BY <1>1 DEF BadgeCalls, BulkFits, BadgeConstantsOK
  <2>. QED
    BY <1>1, <1>3, <2>1, BulkGoes DEF BadgeCalls
<1>7. ReadsFit'
  BY <1>1, <1>2, <1>3, ReadsGo DEF BadgeCalls
<1>8. ActFits(r)
  BY <1>2 DEF ActFits
<1>9. ~Sending(a)' /\ ~Sending(a) /\ ~Reorders(a)'
  BY <1>1, <1>2, <1>3 DEF Sending, Reorders, Going
<1>10. (Busy /\ ~bulk.single) \/ Due(act[a]) => Unseen'
  BY <1>1, <1>4 DEF Busy, Unseen
<1>. QED
  BY <1>1, <1>2, <1>5, <1>6, <1>7, <1>8, <1>9, <1>10, BadgeQuiet

\* An answer that does not come.
LEMMA AnswerLost ==
  ASSUME BadgeConstantsOK, BadgeIInv, NEW a \in Act, NoAnswer(a)
  PROVE  BadgeIInv'
<1>. USE DEF BadgeIInv
<1>. DEFINE r == [act[a] EXCEPT !.page = FALSE]
<1>1. act \in [Act -> ActRec] /\ act[a] \in ActRec /\ FALSE \in BOOLEAN /\ render \in RenderRec /\ apart \in BOOLEAN
  BY DEF BadgeTypes
<1>2. /\ act' = [act EXCEPT ![a] = r] /\ act[a].page /\ act[a].op \notin {"approve", "reject"}
      /\ Going(a) /\ apart' = (apart \/ act[a].at = "done")
      /\ UNCHANGED <<curated, proposals, items, pending, picked, bulk, verdict>>
  BY <1>1 DEF NoAnswer, Tables
<1>3. /\ r \in ActRec /\ r.at = act[a].at /\ r.op = act[a].op /\ r.id = act[a].id
      /\ r.name = act[a].name /\ r.ids = act[a].ids /\ r.page = FALSE
  BY <1>1 DEF ActRec
<1>. HIDE DEF r
<1>4. act' \in [Act -> ActRec] /\ act'[a] = r /\ \A c \in Act : c # a => act'[c] = act[c]
  BY <1>2, <1>3, ActTurned
<1>5. /\ render' \in RenderRec /\ render'.read = render.read /\ (render.wanted => render'.wanted)
      /\ (act[a].op = "reorder" => render'.wanted)
  BY <1>1 DEF NoAnswer, Refresh, RenderRec
<1>6. PageQuiet
  BY <1>1, <1>2, <1>5 DEF PageQuiet, BadgeTypes
<1>7. act[a].at # "read"
  BY <1>2 DEF BadgeCalls, ActFits
<1>8. BulkFits'
  <2>1. bulk.of # a
    BY <1>2 DEF BadgeCalls, BulkFits, BadgeConstantsOK
  <2>. QED
    BY <1>2, <1>4, <2>1, BulkGoes DEF BadgeCalls
<1>9. ReadsFit'
  BY <1>2, <1>3, <1>4, <1>7, ReadsGo DEF BadgeCalls
<1>10. ActFits(r)
  BY <1>3 DEF BadgeCalls, ActFits
<1>11. /\ (Sending(a)' <=> Sending(a)) /\ act'[a].ids = act[a].ids
       /\ (Reorders(a)' => Reorders(a) /\ render'.wanted)
  BY <1>3, <1>4, <1>5 DEF Sending, Reorders, Going
<1>12. Busy /\ ~bulk.single => Unseen'
  BY <1>2 DEF Busy, Unseen
<1>13. Due(act[a]) => apart' \/ Unseen'
  BY <1>2, <1>5 DEF Due, Unseen
<1>. QED
  BY <1>2, <1>3, <1>6, <1>8, <1>9, <1>10, <1>11, <1>12, <1>13, BadgeQuiet

\* The end of one of the bulk, or of the only one; the page is read again after the last.
LEMMA BulkResolved ==
  ASSUME BadgeConstantsOK, BadgeIInv, NEW a \in Act, NEW heard \in BOOLEAN, Resolved(a, heard)
  PROVE  BadgeIInv'
<1>. USE DEF BadgeIInv
<1>1. /\ bulk.of = a /\ Going(a) /\ (heard => act[a].at \in {"done", "refused"}) /\ a # NULL
      /\ act[a].page /\ act[a].op \in {"approve", "reject"} /\ (bulk.single => bulk.todo = {})
      /\ (bulk.todo # {} => bulk.ask \in {"approve", "reject"})
      /\ apart' = (apart \/ ~heard)
      /\ UNCHANGED <<curated, proposals, items, pending, verdict>>
  BY DEF Resolved, BadgeCalls, BulkFits, BadgeConstantsOK, Tables
<1>2. /\ act \in [Act -> ActRec] /\ act[a] \in ActRec /\ FALSE \in BOOLEAN /\ render \in RenderRec
      /\ bulk \in BulkRec /\ picked \in SUBSET Title /\ apart \in BOOLEAN
  BY DEF BadgeTypes
<1>3. PICK r \in ActRec :
        /\ act' = [act EXCEPT ![a] = r]
        /\ (heard => r.at = "over")
        /\ (~heard => r.at = act[a].at /\ r.name = act[a].name /\ r.op = act[a].op)
  <2>1. CASE heard
    <3>. DEFINE r == [NoAct EXCEPT !.at = "over"]
    <3>1. r \in ActRec /\ r.at = "over"
      BY RequestsFit DEF ActRec
    <3>2. act' = [act EXCEPT ![a] = r]
      BY <2>1 DEF Resolved
    <3>. QED
      BY <2>1, <3>1, <3>2
  <2>2. CASE ~heard
    <3>. DEFINE r == [act[a] EXCEPT !.page = FALSE]
    <3>1. r \in ActRec /\ r.at = act[a].at /\ r.name = act[a].name /\ r.op = act[a].op
      BY <1>2 DEF ActRec
    <3>2. act' = [act EXCEPT ![a] = r]
      BY <1>2, <2>2 DEF Resolved
    <3>. QED
      BY <2>2, <3>1, <3>2
  <2>. QED
    BY <2>1, <2>2
<1>4. act' \in [Act -> ActRec] /\ act'[a] = r /\ \A c \in Act : c # a => act'[c] = act[c]
  BY <1>3, ActTurned
<1>5. /\ bulk' \in BulkRec /\ bulk'.of = NULL /\ (~bulk'.single \/ bulk'.todo = {})
      /\ (bulk'.todo # {} => bulk'.ask \in {"approve", "reject"})
      /\ (bulk.todo # {} => bulk'.todo # {} /\ bulk'.single = bulk.single)
  <2>1. CASE bulk.todo # {}
    <3>1. bulk' = [bulk EXCEPT !.of = NULL]
      BY <2>1 DEF Resolved
    <3>2. /\ bulk' \in BulkRec /\ bulk'.of = NULL /\ bulk'.single = bulk.single
          /\ bulk'.todo = bulk.todo /\ bulk'.ask = bulk.ask
      BY <1>2, <3>1 DEF BulkRec
    <3>. QED
      BY <1>1, <2>1, <3>2
  <2>2. CASE bulk.todo = {}
    <3>1. bulk' = NoBulk
      BY <2>2 DEF Resolved
    <3>2. NoBulk \in BulkRec /\ NoBulk.of = NULL /\ ~NoBulk.single /\ NoBulk.todo = {}
      <4>1. FALSE \in BOOLEAN /\ {} \in SUBSET Title
        OBVIOUS
      <4>. QED
        BY <4>1 DEF NoBulk, BulkRec
    <3>. QED
      BY <2>2, <3>1, <3>2
  <2>. QED
    BY <2>1, <2>2
<1>6. /\ picked' \in SUBSET Title /\ render' \in RenderRec /\ render'.read = render.read
      /\ (render.wanted => render'.wanted)
      /\ (bulk.todo = {} /\ ~bulk.single => render'.wanted)
      /\ (bulk.todo = {} /\ heard /\ act[a].at = "done" => render'.wanted)
  <2>1. Refresh => render' \in RenderRec /\ render'.read = render.read /\ render'.wanted
    BY <1>2 DEF Refresh, RenderRec
  <2>2. bulk.before \in SUBSET Title
    BY <1>2 DEF BulkRec
  <2>3. CASE bulk.todo # {}
    <3>1. picked' = picked /\ render' = render
      BY <2>3 DEF Resolved
    <3>. QED
      BY <1>2, <2>3, <3>1
  <2>4. CASE bulk.todo = {} /\ ~bulk.single
    <3>1. picked' = {} /\ Refresh
      BY <2>4 DEF Resolved
    <3>. QED
      BY <2>1, <3>1
  <2>5. CASE bulk.todo = {} /\ bulk.single /\ (~heard \/ act[a].at = "refused")
    <3>1. picked' = picked /\ render' = render
      BY <2>5 DEF Resolved
    <3>. QED
      BY <1>2, <2>5, <3>1
  <2>6. CASE bulk.todo = {} /\ bulk.single /\ ~(~heard \/ act[a].at = "refused")
    <3>1. Refresh /\ (picked' = bulk.before \ {act[a].name} \/ picked' = picked)
      BY <2>6 DEF Resolved
    <3>. QED
      BY <1>2, <2>1, <2>2, <3>1
  <2>. QED
    BY <2>3, <2>4, <2>5, <2>6
<1>7. PageQuiet
  BY <1>1, <1>2, <1>5, <1>6 DEF PageQuiet, BadgeTypes
<1>8. BulkFits'
  <2>1. bulk'.single => \A t, u \in bulk'.todo : t = u
    BY <1>5
  <2>. QED
    BY <1>5, <2>1 DEF BulkFits
<1>9. ReadsFit'
  BY <1>1, <1>3, <1>4, ReadsGo DEF BadgeCalls
<1>10. ActFits(r)
  BY <1>1, <1>3 DEF BadgeCalls, ActFits
<1>11. ~Sending(a)' /\ ~Sending(a) /\ ~Reorders(a)'
  BY <1>1, <1>3, <1>4 DEF Sending, Reorders, Going
<1>12. bulk.todo # {} => Busy'
  BY <1>5 DEF Busy, NoBulk
<1>13. ASSUME ~bulk.single PROVE apart' \/ Unseen'
  BY <1>5, <1>6, <1>12, <1>13 DEF Unseen
<1>14. ASSUME bulk.single, Due(act[a]) PROVE apart' \/ Unseen'
  BY <1>1, <1>6, <1>14 DEF Unseen, Due
<1>. QED
  BY <1>3, <1>7, <1>8, <1>9, <1>10, <1>11, <1>13, <1>14, BadgeQuiet
-----------------------------------------------------------------------------
\* The page that is read again is what the tables hold.
LEMMA PageReadAgain ==
  ASSUME BadgeConstantsOK, BadgeIInv, ReadPage
  PROVE  BadgeIInv'
<1>. USE DEF BadgeIInv
<1>1. /\ render' = [wanted |-> FALSE, read |-> PageShows]
      /\ apart' = \E a \in Act : Reorders(a)
      /\ UNCHANGED <<curated, proposals, items, pending, picked, bulk, act, verdict>>
  BY DEF ReadPage, Tables, Reorders
<1>2. PageShows \in PageRead /\ RowsFit(PageShows.items) /\ PageShows # NULL
  BY PageFitsNow DEF BadgeConstantsOK
<1>3. PageShows' = PageShows
  BY <1>1 DEF PageShows, Badge
<1>. HIDE DEF PageShows
<1>4. render' \in RenderRec /\ render'.read = PageShows
  BY <1>1, <1>2 DEF RenderRec
<1>5. BadgeTypes'
  <2>1. RowsFit(items)' /\ (render.read # NULL => RowsFit(render.read.items))'
    BY <1>1, <1>2, <1>4 DEF BadgeTypes, RowsFit, Badge
  <2>2. apart' \in BOOLEAN
    BY <1>1
  <2>. QED
    BY <1>1, <1>4, <2>1, <2>2 DEF BadgeTypes, TableFits, Badge
<1>6. BadgeCalls'
  <2>1. \A a \in Act : Reorders(a)' <=> Reorders(a)
    BY <1>1 DEF Reorders, Going
  <2>2. OrdersFit'
    BY <1>1, <2>1 DEF OrdersFit
  <2>. QED
    BY <1>1, <2>2 DEF BadgeCalls, ActFits, BulkFits, ReadsFit, Going, Badge
<1>7. OneVerdict'
  BY <1>1 DEF OneVerdict
<1>8. Shown'
  BY <1>2, <1>3, <1>4 DEF Shown
<1>. QED
  BY <1>5, <1>6, <1>7, <1>8 DEF PageFitsTables

\* What was read is shown.
LEMMA PageShown ==
  ASSUME BadgeConstantsOK, BadgeIInv, ShowPage
  PROVE  BadgeIInv'
<1>. USE DEF BadgeIInv
<1>1. /\ render.read # NULL /\ items' = render.read.items /\ pending' = render.read.pending
      /\ render' = [render EXCEPT !.read = NULL]
      /\ apart' = (apart \/ \E a \in Act : Reorders(a))
      /\ UNCHANGED <<curated, proposals, picked, bulk, act, verdict>>
  BY DEF ShowPage, Tables, Reorders
<1>2. /\ render \in RenderRec /\ render.read \in PageRead /\ RowsFit(render.read.items)
      /\ apart \in BOOLEAN
  BY <1>1 DEF BadgeTypes, RenderRec
<1>3. render' \in RenderRec /\ render'.read = NULL /\ render'.wanted = render.wanted
  BY <1>1, <1>2 DEF RenderRec
<1>4. BadgeTypes'
  <2>1. items' \in Seq(Item) /\ pending' \in SUBSET Title /\ RowsFit(items)'
    BY <1>1, <1>2 DEF PageRead, RowsFit, Badge
  <2>2. apart' \in BOOLEAN
    BY <1>1, <1>2
  <2>. QED
    BY <1>1, <1>3, <2>1, <2>2 DEF BadgeTypes, TableFits, Badge
<1>5. BadgeCalls'
  <2>1. \A a \in Act : Reorders(a)' <=> Reorders(a)
    BY <1>1 DEF Reorders, Going
  <2>2. OrdersFit'
    BY <1>1, <1>3, <2>1 DEF OrdersFit
  <2>. QED
    BY <1>1, <2>2 DEF BadgeCalls, ActFits, BulkFits, ReadsFit, Going, Badge
<1>6. OneVerdict'
  BY <1>1 DEF OneVerdict
<1>7. PageFitsTables'
  <2>. SUFFICES ASSUME ~apart', ~Unseen' PROVE Shown'
    BY DEF PageFitsTables
  <2>1. ~apart /\ ~Unseen /\ \A a \in Act : ~Reorders(a)
    BY <1>1, <1>3 DEF Unseen, Busy
  <2>2. render.read = PageShows
    BY <1>1, <2>1 DEF PageFitsTables, Shown
  <2>3. PageShows' = PageShows
    BY <1>1 DEF PageShows, Badge
  <2>4. \A a \in Act : ~Sending(a)'
    BY <1>1, <2>1 DEF Sending, Reorders, Going
  <2>. HIDE DEF PageShows
  <2>. QED
    BY <1>1, <1>3, <2>2, <2>3, <2>4 DEF Shown
<1>. QED
  BY <1>4, <1>5, <1>6, <1>7 DEF BadgeCalls
-----------------------------------------------------------------------------
\* A row of a list, moved: the same rows.
LEMMA RowMoved ==
  ASSUME NEW S, NEW s \in Seq(S), NEW from \in 1..Len(s), NEW to \in 1..Len(s)
  PROVE  LET moved == InsertAt(RemoveAt(s, from), to, s[from]) IN
         /\ moved \in Seq(S) /\ Len(moved) = Len(s)
         /\ \A i \in 1..Len(s) : Contains(s, moved[i])
         /\ IsInjective(s) => IsInjective(moved) /\ \A m : Contains(moved, m) <=> Contains(s, m)
<1>. DEFINE rest == RemoveAt(s, from)
            moved == InsertAt(rest, to, s[from])
<1>1. Len(s) \in Nat /\ s[from] \in S
  BY ElementOfSeq
<1>2. /\ rest \in Seq(S) /\ Len(rest) = Len(s) - 1
      /\ \A j \in 1..(Len(s) - 1) : rest[j] = IF j < from THEN s[j] ELSE s[j + 1]
  BY RemovedAt
<1>3. to \in 1..(Len(rest) + 1)
  BY <1>1, <1>2
<1>4. IsInjective(s) => IsInjective(rest) /\ \A m : Contains(rest, m) <=> Contains(s, m) /\ m # s[from]
  BY OneLess
<1>. HIDE DEF rest
<1>5. /\ moved \in Seq(S) /\ Len(moved) = Len(rest) + 1
      /\ \A j \in 1..(Len(rest) + 1) :
           moved[j] = IF j < to THEN rest[j] ELSE IF j = to THEN s[from] ELSE rest[j - 1]
  <2>1. rest \in Seq(S) /\ s[from] \in S
    BY <1>1, <1>2
  <2>2. moved \in Seq(S) /\ GrownAt(rest, to, s[from], moved)
    BY <1>3, <2>1, InsertedAt
  <2>. QED
    BY <2>2, Zenon DEF GrownAt
<1>6. IsInjective(s) => IsInjective(moved) /\ \A m : Contains(moved, m) <=> Contains(s, m)
  <2>. SUFFICES ASSUME IsInjective(s)
                PROVE  IsInjective(moved) /\ \A m : Contains(moved, m) <=> Contains(s, m)
    OBVIOUS
  <2>1. ~Contains(rest, s[from]) /\ Contains(s, s[from])
    BY <1>4 DEF Contains
  <2>2. IsInjective(moved) /\ \A m : Contains(moved, m) <=> Contains(rest, m) \/ m = s[from]
    BY <1>1, <1>2, <1>3, <1>4, <2>1, OneMore
  <2>. QED
    BY <1>4, <2>1, <2>2
<1>. HIDE DEF moved
<1>7. Len(moved) = Len(s)
  BY <1>1, <1>2, <1>5
<1>8. \A j \in 1..(Len(s) - 1) : Contains(s, rest[j])
  <2>. SUFFICES ASSUME NEW j \in 1..(Len(s) - 1) PROVE Contains(s, rest[j])
    OBVIOUS
  <2>1. j \in 1..Len(s) /\ j + 1 \in 1..Len(s)
    BY <1>1
  <2>. QED
    BY <1>2, <2>1 DEF Contains
<1>9. ASSUME NEW i \in 1..Len(s) PROVE Contains(s, moved[i])
  <2>1. CASE i = to
    <3>1. moved[i] = s[from]
      BY <1>1, <1>2, <1>5, <2>1
    <3>. QED
      BY <3>1 DEF Contains
  <2>2. CASE i < to
    <3>1. i \in 1..(Len(s) - 1)
      BY <1>1, <2>2
    <3>2. moved[i] = rest[i]
      BY <1>1, <1>2, <1>5, <2>2
    <3>. QED
      BY <1>8, <3>1, <3>2
  <2>3. CASE i > to
    <3>1. i - 1 \in 1..(Len(s) - 1)
      BY <1>1, <2>3
    <3>2. moved[i] = rest[i - 1]
      BY <1>1, <1>2, <1>5, <2>3
    <3>. QED
      BY <1>8, <3>1, <3>2
  <2>. QED
    BY <1>1, <2>1, <2>2, <2>3
<1>. QED
  BY <1>5, <1>6, <1>7, <1>9 DEF moved, rest

\* A badge that is dragged: the page shows the order that it asks for.
LEMMA BadgeDragged ==
  ASSUME BadgeConstantsOK, BadgeIInv, NEW a \in Act, NEW from \in Nat, NEW to \in Nat, Drag(a, from, to)
  PROVE  BadgeIInv'
<1>. USE DEF BadgeIInv
<1>. DEFINE moved == InsertAt(RemoveAt(items, from), to, items[from])
            ids == [i \in DOMAIN moved |-> moved[i].id]
            r == [Sent("reorder") EXCEPT !.ids = ids, !.page = TRUE]
<1>1. /\ act[a].at = "idle" /\ act' = [act EXCEPT ![a] = r] /\ items' = moved
      /\ from \in DOMAIN items /\ to \in DOMAIN items
      /\ apart' = (apart \/ render.read # NULL \/ \E o \in Act : Reorders(o))
      /\ UNCHANGED <<curated, proposals, pending, picked, bulk, render, verdict>>
  BY DEF Drag, Asks, Tables, Reorders
<1>2. /\ items \in Seq(Item) /\ Len(items) \in Nat /\ DOMAIN items = 1..Len(items)
      /\ Len(items) <= Len(curated) /\ \A i \in 1..Len(items) : items[i].id \in Badge
      /\ apart \in BOOLEAN /\ Len(curated) \in Nat /\ act \in [Act -> ActRec]
  BY DEF BadgeTypes, RowsFit, TableFits, Table
<1>3. /\ moved \in Seq(Item) /\ Len(moved) = Len(items)
      /\ \A i \in 1..Len(items) : Contains(items, moved[i])
      /\ IsInjective(items) => IsInjective(moved) /\ \A m : Contains(moved, m) <=> Contains(items, m)
  BY <1>1, <1>2, RowMoved
<1>. HIDE DEF moved
<1>4. DOMAIN moved = 1..Len(items) /\ \A i \in 1..Len(items) : moved[i].id \in Badge
  <2>1. DOMAIN moved = 1..Len(items)
    BY <1>3
  <2>. QED
    BY <1>2, <1>3, <2>1 DEF Contains
<1>5. ids \in Seq(Nat) /\ Len(ids) = Len(items) /\ ids = IdsOf(moved)
  <2>1. \A i \in 1..Len(items) : moved[i].id \in Nat
    BY <1>4 DEF Badge
  <2>2. ids \in [1..Len(items) -> Nat]
    BY <1>4, <2>1
  <2>. QED
    BY <1>2, <2>2, SeqDef, LenProperties DEF IdsOf
<1>. HIDE DEF ids
<1>6. r \in ActRec /\ r.at = "sent" /\ r.op = "reorder" /\ r.ids = ids /\ r.page
  <2>1. "reorder" \in ActOp /\ TRUE \in BOOLEAN
    BY DEF ActOp
  <2>2. Sent("reorder") \in ActRec /\ Sent("reorder").at = "sent" /\ Sent("reorder").op = "reorder"
    BY <2>1, RequestsFit
  <2>. QED
    BY <1>5, <2>1, <2>2 DEF ActRec
<1>. HIDE DEF r
<1>7. act' \in [Act -> ActRec] /\ act'[a] = r /\ \A c \in Act : c # a => act'[c] = act[c]
  BY <1>1, <1>6, ActTurned
<1>8. BadgeTypes'
  <2>1. RowsFit(items)' /\ (render.read # NULL => RowsFit(render.read.items))'
    BY <1>1, <1>2, <1>3, <1>4 DEF BadgeTypes, RowsFit, Badge
  <2>2. apart' \in BOOLEAN /\ items' \in Seq(Item)
    BY <1>1, <1>2, <1>3
  <2>. QED
    BY <1>1, <1>7, <2>1, <2>2 DEF BadgeTypes, TableFits, Badge
<1>9. \A c \in Act : ActFits(act[c])'
  <2>1. ActFits(act[a])'
    <3>1. Len(ids) <= Len(curated') /\ "reorder" \in ActOp
      BY <1>1, <1>2, <1>5 DEF ActOp
    <3>. QED
      BY <1>6, <1>7, <3>1 DEF ActFits
  <2>2. Len(curated') \in Nat /\ Len(curated) <= Len(curated')
    BY <1>1, <1>2
  <2>. QED
    BY <1>7, <2>1, <2>2, ActsGo
<1>10. BulkFits'
  <2>1. bulk.of # a
    BY <1>1 DEF BadgeCalls, BulkFits, Going, BadgeConstantsOK
  <2>. QED
    BY <1>1, <1>7, <2>1, BulkGoes DEF BadgeCalls
<1>11. ReadsFit'
  BY <1>1, <1>6, <1>7, ReadsGo DEF BadgeCalls
<1>12. OneVerdict'
  BY <1>1 DEF OneVerdict
<1>13. \A c \in Act : c # a => (Reorders(c)' <=> Reorders(c))
  BY <1>7 DEF Reorders, Going
<1>14. OrdersFit'
  BY <1>1, <1>6, <1>7, <1>13 DEF OrdersFit
<1>15. PageFitsTables'
  <2>. SUFFICES ASSUME ~apart', ~Unseen' PROVE Shown'
    BY DEF PageFitsTables
  <2>1. ~apart /\ render.read = NULL /\ \A c \in Act : ~Reorders(c)
    BY <1>1
  <2>2. ~Unseen
    BY <1>1, <1>7 DEF Unseen, Busy, Due
  <2>3. Shown /\ \A c \in Act : ~Sending(c)
    BY <2>1, <2>2 DEF PageFitsTables, Sending, Reorders, Going
  <2>4. pending = PageShows.pending /\ items = PageShows.items
    BY <2>1, <2>3 DEF Shown
  <2>5. Faithful(items)
    BY <2>4, PageFitsNow
  <2>6. Faithful(items)'
    BY <1>1, <1>3, <2>5 DEF Faithful, Badge
  <2>7. PageShows' = PageShows
    BY <1>1 DEF PageShows, Badge
  <2>8. Sending(a)' /\ act'[a].ids = IdsOf(items)'
    BY <1>1, <1>5, <1>6, <1>7 DEF Sending, IdsOf
  <2>9. \A c \in Act : c # a => ~Sending(c)'
    BY <1>7, <2>3 DEF Sending
  <2>. HIDE DEF PageShows
  <2>. QED
    BY <1>1, <2>1, <2>4, <2>6, <2>7, <2>8, <2>9 DEF Shown
<1>. QED
  BY <1>8, <1>9, <1>10, <1>11, <1>12, <1>14, <1>15 DEF BadgeCalls
-----------------------------------------------------------------------------
\* A table whose badges have the places of a list: the list is what the page shows of it.
LEMMA OrderIsKept ==
  ASSUME BadgeConstantsOK, BadgeTypes, Faithful(items), NEW rows \in Table,
         Len(rows) = Len(curated),
         \A b \in 1..Len(curated) : /\ rows[b].name = curated[b].name
                                    /\ rows[b].hidden = curated[b].hidden,
         \A i \in 1..Len(items) : rows[items[i].id].order = i - 1
  PROVE  ListOf(rows) = items
<1>. DEFINE ids == [i \in 1..Len(items) |-> items[i].id]
<1>1. /\ DOMAIN rows = 1..Len(rows) /\ Len(rows) \in Nat /\ IsFiniteSet(DOMAIN rows)
      /\ StrictOrder(DOMAIN rows, PlacedBefore(rows))
  BY PlacesFit
<1>2. /\ items \in Seq(Item) /\ Len(items) \in Nat /\ DOMAIN items = 1..Len(items)
      /\ Len(items) = Len(rows) /\ \A i \in 1..Len(items) : items[i].id \in 1..Len(rows)
  BY DEF BadgeTypes, RowsFit, Faithful, Badge
<1>3. \A i \in 1..Len(items) : items[i] = RowShown(curated, items[i].id)
  <2>. SUFFICES ASSUME NEW i \in 1..Len(items) PROVE items[i] = RowShown(curated, items[i].id)
    OBVIOUS
  <2>1. PICK b \in Badge : items[i] = RowShown(curated, b)
    BY DEF Faithful, Contains
  <2>2. RowShown(curated, b).id = b
    BY DEF RowShown
  <2>. QED
    BY <2>1, <2>2
<1>4. \A x \in 1..Len(rows) : \E i \in 1..Len(items) : items[i].id = x
  <2>. SUFFICES ASSUME NEW x \in 1..Len(rows) PROVE \E i \in 1..Len(items) : items[i].id = x
    OBVIOUS
  <2>1. Contains(items, RowShown(curated, x)) /\ RowShown(curated, x).id = x
    BY DEF Faithful, Badge, RowShown
  <2>. QED
    BY <2>1 DEF Contains
<1>5. ids \in Seq(DOMAIN rows) /\ Len(ids) = Len(items)
  <2>1. ids \in [1..Len(items) -> DOMAIN rows]
    BY <1>1, <1>2
  <2>. QED
    BY <1>2, <2>1, SeqDef, LenProperties
<1>6. \A x \in DOMAIN rows : Contains(ids, x)
  BY <1>1, <1>4, <1>5 DEF Contains
<1>7. \A i, j \in 1..Len(ids) : i < j => <<ids[i], ids[j]>> \in PlacedBefore(rows)
  <2>. SUFFICES ASSUME NEW i \in 1..Len(items), NEW j \in 1..Len(items), i < j
                PROVE  <<ids[i], ids[j]>> \in PlacedBefore(rows)
    BY <1>5
  <2>1. rows[ids[i]].order < rows[ids[j]].order
    BY <1>2
  <2>2. ids[i] \in DOMAIN rows /\ ids[j] \in DOMAIN rows
    BY <1>1, <1>2
  <2>. HIDE DEF ids
  <2>. QED
    BY <2>1, <2>2 DEF PlacedBefore
<1>. HIDE DEF ids
<1>8. InOrder(rows) = ids
  BY <1>1, <1>5, <1>6, <1>7, RankedIs DEF InOrder
<1>9. \A i \in 1..Len(items) : RowShown(rows, ids[i]) = items[i]
  BY <1>2, <1>3 DEF RowShown, ids
<1>10. ListOf(rows) = [i \in 1..Len(items) |-> items[i]]
  BY <1>2, <1>8, <1>9 DEF ListOf
<1>. QED
  BY <1>2, <1>10

\* The order that is saved is the one that the page shows.
LEMMA OrderCommitted ==
  ASSUME BadgeConstantsOK, BadgeIInv, NEW a \in Act, CommitOrder(a)
  PROVE  BadgeIInv'
<1>. USE DEF BadgeIInv
<1>. DEFINE ids == act[a].ids
            Place(b) == CHOOSE i \in DOMAIN ids : ids[i] = b
            Row(b) == IF b \in ToSet(ids) THEN [curated[b] EXCEPT !.order = Place(b) - 1] ELSE curated[b]
            BadgeCols == [name : Title, order : Nat, hidden : BOOLEAN]
            r == [act[a] EXCEPT !.at = "done"]
<1>1. /\ act[a].at = "sent" /\ act[a].op = "reorder" /\ curated' = [b \in Badge |-> Row(b)]
      /\ Turns(a, "done") /\ apart' = (apart \/ ~act[a].page)
      /\ UNCHANGED <<proposals, items, pending, picked, bulk, render, verdict>>
  BY DEF CommitOrder, ActEnds, Page
<1>2. /\ act' = [act EXCEPT ![a] = r] /\ r \in ActRec /\ r.at = "done" /\ r.op = act[a].op
      /\ r.id = act[a].id /\ r.name = act[a].name /\ r.ids = act[a].ids /\ r.page = act[a].page
  BY <1>1, StageTurned
<1>. HIDE DEF r
<1>3. act' \in [Act -> ActRec] /\ act'[a] = r /\ \A c \in Act : c # a => act'[c] = act[c]
  BY <1>2, ActTurned
<1>4. /\ Len(curated) \in Nat /\ act[a] \in ActRec /\ apart \in BOOLEAN /\ Badge = 1..Len(curated)
      /\ \A b \in Badge : curated[b] \in BadgeCols /\ curated[b].order < Len(curated)
      /\ Len(curated) <= MaxBadges
  <2>1. curated \in Table /\ TableFits /\ act[a] \in ActRec /\ apart \in BOOLEAN
    BY DEF BadgeTypes, TableFits
  <2>2. Len(curated) \in Nat
    BY <2>1 DEF Table
  <2>3. \A b \in 1..Len(curated) : curated[b] \in BadgeCols
    BY <2>1, <2>2, ElementOfSeq DEF Table
  <2>. QED
    BY <2>1, <2>2, <2>3 DEF TableFits, Badge
<1>5. ids \in Seq(Nat) /\ Len(ids) \in Nat /\ DOMAIN ids = 1..Len(ids) /\ Len(ids) <= Len(curated)
  <2>1. ids \in Seq(Nat)
    BY <1>4 DEF ActRec
  <2>2. Len(ids) <= Len(curated)
    BY <1>1 DEF BadgeCalls, ActFits
  <2>. QED
    BY <2>1, <2>2
<1>6. \A b \in ToSet(ids) : Place(b) \in 1..Len(ids) /\ ids[Place(b)] = b
  BY <1>5 DEF ToSet
<1>. HIDE DEF Place
<1>7. ASSUME NEW b \in Badge
      PROVE  /\ Row(b) \in BadgeCols /\ Row(b).order < Len(curated)
             /\ Row(b).name = curated[b].name /\ Row(b).hidden = curated[b].hidden
             /\ (b \in ToSet(ids) => Row(b).order = Place(b) - 1)
  <2>1. CASE b \in ToSet(ids)
    <3>1. Place(b) - 1 \in Nat /\ Place(b) - 1 < Len(curated)
      BY <1>4, <1>5, <1>6, <2>1
    <3>. QED
      BY <1>4, <2>1, <3>1
  <2>2. CASE b \notin ToSet(ids)
    BY <1>4, <2>2
  <2>. QED
    BY <2>1, <2>2
<1>. HIDE DEF Row, ids
<1>8. curated' \in Table /\ Len(curated') = Len(curated) /\ \A b \in Badge : curated'[b] = Row(b)
  <2>1. curated' \in [1..Len(curated) -> BadgeCols]
    BY <1>1, <1>4, <1>7
  <2>. HIDE DEF BadgeCols
  <2>2. curated' \in Seq(BadgeCols) /\ Len(curated') = Len(curated)
    BY <1>4, <2>1, SeqDef, LenProperties
  <2>. QED
    BY <1>1, <2>2 DEF Table, BadgeCols
<1>9. Badge' = Badge
  BY <1>8 DEF Badge
<1>10. BadgeTypes'
  <2>1. TableFits'
    BY <1>4, <1>7, <1>8, <1>9 DEF TableFits
  <2>2. RowsFit(items)' /\ (render.read # NULL => RowsFit(render.read.items))'
    BY <1>1, <1>8, <1>9 DEF BadgeTypes, RowsFit
  <2>3. apart' \in BOOLEAN
    BY <1>1, <1>4
  <2>. QED
    BY <1>1, <1>3, <2>1, <2>2, <2>3 DEF BadgeTypes
<1>11. \A c \in Act : ActFits(act[c])'
  <2>1. ActFits(act[a])'
    <3>1. act'[a].at = "done" /\ act'[a].op = "reorder" /\ act'[a].ids = ids
      BY <1>1, <1>2, <1>3 DEF ids
    <3>2. Len(ids) <= Len(curated') /\ "reorder" \in ActOp
      BY <1>5, <1>8 DEF ActOp
    <3>. QED
      BY <3>1, <3>2 DEF ActFits
  <2>2. Len(curated') \in Nat /\ Len(curated) <= Len(curated')
    BY <1>4, <1>8
  <2>. QED
    BY <1>3, <2>1, <2>2, ActsGo
<1>12. BulkFits'
  BY <1>1, <1>2, <1>3, BulkGoes DEF BadgeCalls
<1>13. ReadsFit'
  BY <1>1, <1>2, <1>3, ReadsGo DEF BadgeCalls
<1>14. Reorders(a) /\ Sending(a)
  BY <1>1 DEF Reorders, Sending, Going
<1>15. OrdersFit'
  BY <1>1, <1>2, <1>3, <1>14, OrdersGo DEF BadgeCalls
<1>16. OneVerdict'
  BY <1>1 DEF OneVerdict
<1>17. PageFitsTables'
  <2>. SUFFICES ASSUME ~apart', ~Unseen' PROVE Shown'
    BY DEF PageFitsTables
  <2>1. ~apart /\ ~render.wanted /\ ~(Busy /\ ~bulk.single)
    BY <1>1 DEF Unseen, Busy
  <2>2. \A c \in Act : c # a => ~Due(act[c])
    BY <1>3 DEF Unseen
  <2>3. ~Due(act[a])
    BY <1>1 DEF Due
  <2>4. Shown /\ render.read = NULL
    BY <1>14, <2>1, <2>2, <2>3 DEF PageFitsTables, Unseen, BadgeCalls, OrdersFit
  <2>5. Faithful(items) /\ ids = IdsOf(items) /\ pending = PageShows.pending
    BY <1>14, <2>4 DEF Shown, ids
  <2>6. \A c \in Act : ~Sending(c)'
    BY <1>2, <1>3, <1>14, <2>1 DEF BadgeCalls, OrdersFit, Reorders, Sending, Going
  <2>7. /\ items \in Seq(Item) /\ Len(items) \in Nat /\ DOMAIN items = 1..Len(items)
        /\ IsInjective(items) /\ \A i \in 1..Len(items) : items[i].id \in Badge
    BY <2>5 DEF BadgeTypes, RowsFit, Faithful
  <2>8. \A i, j \in 1..Len(items) : items[i].id = items[j].id => i = j
    <3>. SUFFICES ASSUME NEW i \in 1..Len(items), NEW j \in 1..Len(items), items[i].id = items[j].id
                  PROVE  i = j
      OBVIOUS
    <3>1. PICK b \in Badge : items[i] = RowShown(curated, b)
      BY <2>5 DEF Faithful, Contains
    <3>2. PICK c \in Badge : items[j] = RowShown(curated, c)
      BY <2>5 DEF Faithful, Contains
    <3>3. b = c
      BY <3>1, <3>2 DEF RowShown
    <3>. QED
      BY <2>7, <3>1, <3>2, <3>3 DEF IsInjective
  <2>9. ASSUME NEW i \in 1..Len(items) PROVE curated'[items[i].id].order = i - 1
    <3>1. DOMAIN ids = 1..Len(items) /\ ids[i] = items[i].id /\ Len(ids) = Len(items)
      BY <1>5, <2>5, <2>7 DEF IdsOf
    <3>2. items[i].id \in ToSet(ids)
      BY <3>1 DEF ToSet
    <3>3. Place(items[i].id) \in 1..Len(items) /\ items[Place(items[i].id)].id = items[i].id
      BY <1>6, <2>5, <3>1, <3>2 DEF IdsOf
    <3>4. Place(items[i].id) = i
      BY <2>8, <3>3
    <3>. QED
      BY <1>7, <1>8, <2>7, <3>2, <3>4
  <2>10. \A b \in 1..Len(curated) : /\ curated'[b].name = curated[b].name
                                    /\ curated'[b].hidden = curated[b].hidden
    BY <1>4, <1>7, <1>8
  <2>11. ListOf(curated') = items
    BY <1>8, <2>5, <2>9, <2>10, OrderIsKept
  <2>12. PageShows'.items = ListOf(curated') /\ PageShows'.pending = PageShows.pending
    BY <1>1 DEF PageShows, ListOf, Badge
  <2>. HIDE DEF PageShows
  <2>. QED
    BY <1>1, <2>4, <2>5, <2>6, <2>11, <2>12 DEF Shown
<1>. QED
  BY <1>10, <1>11, <1>12, <1>13, <1>15, <1>16, <1>17 DEF BadgeCalls
-----------------------------------------------------------------------------
LEMMA BadgeBegins ==
  ASSUME BadgeConstantsOK, BadgeInit PROVE BadgeIInv
<1>1. PICK names \in [1..2 -> Title] :
        curated = [b \in 1..2 |-> [name |-> names[b], order |-> b - 1, hidden |-> FALSE]]
  BY DEF BadgeInit
<1>2. /\ proposals = [t \in Title |-> "none"] /\ items = PageShows.items /\ pending = {}
      /\ picked = {} /\ bulk = NoBulk /\ render = NoRender /\ act = [a \in Act |-> NoAct]
      /\ apart = FALSE /\ verdict = [rejected |-> {}, made |-> {}, crossed |-> {}]
  BY DEF BadgeInit
<1>3. MaxBadges \in Nat /\ 2 <= MaxBadges
  BY DEF BadgeConstantsOK
<1>4. TableFits
  <2>. DEFINE BadgeCols == [name : Title, order : Nat, hidden : BOOLEAN]
  <2>1. \A b \in 1..2 : curated[b] \in BadgeCols /\ curated[b].order < 2
    BY <1>1
  <2>2. curated \in [1..2 -> BadgeCols]
    BY <1>1, <2>1
  <2>. HIDE DEF BadgeCols
  <2>3. curated \in Seq(BadgeCols) /\ Len(curated) = 2
    <3>1. 2 \in Nat /\ DOMAIN curated = 1..2
      BY <2>2
    <3>2. curated \in Seq(BadgeCols)
      BY <2>2, <3>1, SeqDef
    <3>. QED
      BY <3>1, <3>2, LenProperties
  <2>4. curated \in Table
    BY <2>3 DEF Table, BadgeCols
  <2>. QED
    BY <1>3, <2>1, <2>3, <2>4 DEF TableFits, Badge
<1>5. /\ PageShows.items = ListOf(curated) /\ PageShows.pending = {t \in Title : proposals[t] = "open"}
  BY DEF PageShows, ListOf, Badge
<1>6. ListOf(curated) \in Seq(Item) /\ RowsFit(ListOf(curated))
  <2>1. /\ ListOf(curated) \in Seq(Item) /\ Len(ListOf(curated)) = Len(curated) /\ Len(curated) \in Nat
        /\ \A i \in 1..Len(curated) : ListOf(curated)[i].id \in 1..Len(curated)
    <3>1. curated \in Table /\ Len(curated) <= MaxBadges /\ Len(curated) \in Nat
      BY <1>4 DEF TableFits, Table
    <3>. QED
      BY <3>1, ListsFitTable
  <2>. QED
    BY <2>1 DEF RowsFit, Badge
<1>7. BadgeTypes
  <2>1. proposals \in [Title -> {"none", "open", "resolved"}]
    BY <1>2
  <2>2. bulk \in BulkRec
    <3>1. FALSE \in BOOLEAN /\ {} \in SUBSET Title
      OBVIOUS
    <3>. QED
      BY <1>2, <3>1 DEF NoBulk, BulkRec
  <2>3. render \in RenderRec /\ render.read = NULL
    BY <1>2 DEF NoRender, RenderRec
  <2>4. act \in [Act -> ActRec]
    BY <1>2, RequestsFit
  <2>5. verdict \in VerdictRec
    <3>1. {} \in SUBSET Title
      OBVIOUS
    <3>. QED
      BY <1>2, <3>1 DEF VerdictRec
  <2>. QED
    BY <1>2, <1>4, <1>5, <1>6, <2>1, <2>2, <2>3, <2>4, <2>5 DEF BadgeTypes
<1>8. \A a \in Act : act[a].at = "idle"
  BY <1>2 DEF NoAct
<1>9. BadgeCalls
  <2>1. BulkFits
    BY <1>2 DEF BulkFits, NoBulk
  <2>. QED
    BY <1>8, <2>1 DEF BadgeCalls, ActFits, ReadsFit, OrdersFit, Reorders, Going
<1>10. OneVerdict
  BY <1>2 DEF OneVerdict
<1>11. PageFitsTables
  <2>1. render.read = NULL
    BY <1>2 DEF NoRender
  <2>2. pending = PageShows.pending
    BY <1>2, <1>5
  <2>3. \A a \in Act : ~Sending(a)
    BY <1>8 DEF Sending
  <2>. QED
    BY <1>2, <2>1, <2>2, <2>3 DEF PageFitsTables, Shown
<1>. QED
  BY <1>7, <1>9, <1>10, <1>11 DEF BadgeIInv

LEMMA BadgesGo ==
  ASSUME BadgeConstantsOK, BadgeIInv, [BadgeNext]_badgeVars PROVE BadgeIInv'
<1>1. CASE UNCHANGED badgeVars
  <2>1. PageShows' = PageShows /\ (Faithful(items)' <=> Faithful(items))
    BY <1>1 DEF badgeVars, PageShows, Faithful, Badge
  <2>2. BadgeTypes' /\ BadgeCalls' /\ OneVerdict'
    BY <1>1 DEF badgeVars, BadgeIInv, BadgeTypes, TableFits, RowsFit, Badge, BadgeCalls, ActFits,
       BulkFits, ReadsFit, OrdersFit, Reorders, Going, OneVerdict
  <2>3. PageFitsTables'
    BY <1>1, <2>1 DEF badgeVars, BadgeIInv, PageFitsTables, Unseen, Busy, Shown, Sending
  <2>. QED
    BY <2>2, <2>3 DEF BadgeIInv
<1>2. CASE TickAll \/ ReadPage \/ ShowPage
  BY <1>2, BulkStarts, PageReadAgain, PageShown
<1>3. ASSUME NEW t \in Title, Tick(t) \/ Suggest(t) PROVE BadgeIInv'
  BY <1>3, BulkStarts, Suggested
<1>4. ASSUME NEW ask \in {"approve", "reject"},
             StartBulk(ask) \/ \E t \in Title : StartSingle(t, ask)
      PROVE  BadgeIInv'
  BY <1>4, BulkStarts
<1>5. ASSUME NEW a \in Act, \E i, j \in 1..MaxBadges : Drag(a, i, j) PROVE BadgeIInv'
  <2>1. PICK i \in 1..MaxBadges, j \in 1..MaxBadges : Drag(a, i, j)
    BY <1>5
  <2>2. i \in Nat /\ j \in Nat
    OBVIOUS
  <2>. QED
    BY <2>1, <2>2, BadgeDragged
<1>6. ASSUME NEW a \in Act,
             \E i \in 1..MaxBadges : ToggleHidden(a, i) \/ \E t \in Title : SubmitEdit(a, i, t)
      PROVE  BadgeIInv'
  BY <1>6, BadgeAsked
<1>7. ASSUME NEW a \in Act,
             \E t \in Title : \/ SubmitNew(a, t) \/ ResolveNext(a, t)
                              \/ \E ask \in {"approve", "reject"} : ResolveElsewhere(a, t, ask)
      PROVE  BadgeIInv'
  BY <1>7, BadgeAsked, NextResolved
<1>8. ASSUME NEW a \in Act, CreateBadge(a) \/ PatchBadge(a) \/ UpdateRow(a) \/ CommitOrder(a) PROVE BadgeIInv'
  BY <1>8, BadgeCreated, BadgePatched, RowUpdated, OrderCommitted
<1>9. ASSUME NEW a \in Act, ReadSuggestion(a) \/ RejectSuggestion(a) \/ ApproveSuggestion(a) PROVE BadgeIInv'
  BY <1>9, SuggestionRead, SuggestionRejected, SuggestionApproved
<1>10. ASSUME NEW a \in Act, BreakDeadlock(a) \/ ActFails(a) PROVE BadgeIInv'
  BY <1>10, BadgeFails DEF BreakDeadlock, WantsRow, ActFails, Tables
<1>11. ASSUME NEW a \in Act, Succeeded(a) \/ OrderSaved(a) \/ ActRefused(a) \/ NoAnswer(a) PROVE BadgeIInv'
  BY <1>11, AnswerHeard, AnswerLost
<1>12. ASSUME NEW a \in Act, \E heard \in BOOLEAN : Resolved(a, heard) PROVE BadgeIInv'
  BY <1>12, BulkResolved
<1>13. CASE BadgeNext
  BY <1>2, <1>3, <1>4, <1>5, <1>6, <1>7, <1>8, <1>9, <1>10, <1>11, <1>12, <1>13 DEF BadgeNext
<1>. QED
  BY <1>1, <1>13

LEMMA BadgesFit ==
  ASSUME BadgeConstantsOK, BadgeIInv PROVE BadgesInv
<1>. USE DEF BadgeIInv
<1>1. BadgeTypeOK
  <2>1. \A b \in Badge : curated[b] \in BadgeRow
    <3>. SUFFICES ASSUME NEW b \in Badge PROVE curated[b] \in BadgeRow
      OBVIOUS
    <3>1. curated \in Table /\ Len(curated) <= MaxBadges /\ curated[b].order < Len(curated)
      BY DEF BadgeTypes, TableFits
    <3>2. Len(curated) \in Nat /\ b \in 1..Len(curated)
      BY <3>1 DEF Table, Badge
    <3>3. curated[b] \in [name : Title, order : Nat, hidden : BOOLEAN]
      BY <3>1, <3>2, ElementOfSeq DEF Table
    <3>4. curated[b].order \in 0..MaxBadges
      BY <3>1, <3>2, <3>3 DEF BadgeConstantsOK
    <3>. QED
      BY <3>3, <3>4 DEF BadgeRow
  <2>2. \A i \in DOMAIN items : items[i] \in Item
    BY ElementOfSeq DEF BadgeTypes
  <2>3. bulk.todo \subseteq Title /\ bulk.ask \in {"approve", "reject", NULL} /\ render.wanted \in BOOLEAN
    BY DEF BadgeTypes, BulkRec, RenderRec
  <2>4. \A a \in Act : act[a].at \in {"idle", "sent", "read", "done", "refused", "over"}
    BY DEF BadgeTypes, ActRec
  <2>. QED
    BY <2>1, <2>2, <2>3, <2>4 DEF BadgeTypeOK, BadgeTypes, VerdictRec
<1>2. PageIsTrue
  <2>. SUFFICES ASSUME ~apart, ~Busy, render = NoRender, \A a \in Act : ~(Going(a) /\ act[a].page)
                PROVE  [items |-> items, pending |-> pending] = PageShows
    BY DEF PageIsTrue
  <2>1. ~render.wanted /\ render.read = NULL
    BY DEF NoRender
  <2>2. \A a \in Act : ~Due(act[a])
    BY DEF Due, Going
  <2>3. \A a \in Act : ~Sending(a)
    <3>. SUFFICES ASSUME NEW a \in Act, Sending(a) PROVE FALSE
      OBVIOUS
    <3>1. Reorders(a) /\ Going(a)
      BY DEF Sending, Reorders, Going
    <3>. QED
      BY <2>1, <3>1 DEF BadgeCalls, OrdersFit
  <2>4. Shown
    BY <2>1, <2>2 DEF PageFitsTables, Unseen
  <2>5. pending = PageShows.pending /\ items = PageShows.items
    BY <2>1, <2>3, <2>4 DEF Shown
  <2>6. PageShows = [items |-> PageShows.items, pending |-> PageShows.pending]
    BY DEF PageShows
  <2>. QED
    BY <2>5, <2>6
<1>. QED
  BY <1>1, <1>2 DEF BadgesInv

\* The badges of the page, at rest, are those of the table in its order, and a suggestion has one
\* verdict, for any number of badges, tabs and requests (BadgesPanel.tsx, api/settings/badges).
THEOREM BadgesStayTrue ==
  ASSUME BadgeConstantsOK PROVE BadgeInit /\ [][BadgeNext]_badgeVars => []BadgesInv
<1>1. BadgeInit => BadgeIInv
  BY BadgeBegins
<1>2. BadgeIInv /\ [BadgeNext]_badgeVars => BadgeIInv'
  BY BadgesGo
<1>3. BadgeIInv => BadgesInv
  BY BadgesFit
<1>. QED
  BY <1>1, <1>2, <1>3, PTL
=============================================================================
