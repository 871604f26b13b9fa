-------------------------- MODULE PhoneInboxProofs --------------------------
(***************************************************************************)
(* Proofs about the phone's inbox, for any size of a page and of a poll's  *)
(* answer, any number of messages, requests, loads and clears.             *)
(***************************************************************************)
EXTENDS PhoneInbox, SequenceTheorems, SequenceLemmas

-----------------------------------------------------------------------------
(* The inductive invariant.                                                *)

\* Ids are given out in order, and rows go only all at once.
LogInv ==
  /\ log.sequence \in Nat /\ arrived \in Nat
  /\ DOMAIN log.rows = 1 .. log.sequence
  /\ \A id \in DOMAIN log.rows : log.rows[id] \in Nat

RowAt(id) == [id |-> id, content |-> log.rows[id]]

\* Rows that follow an id, and rows that precede one.
Upward(rows, id) ==
  \A i \in 1 .. Len(rows) : id + i \in DOMAIN log.rows /\ rows[i] = RowAt(id + i)

Downward(rows, id) ==
  \A i \in 1 .. Len(rows) : id - i \in DOMAIN log.rows /\ rows[i] = RowAt(id - i)

\* Rows as the server gives them: an id is never zero.
Numbered == {row \in Row : row.id # NoId}

\* A message opened or none; only list requests bring more than one row.
Single == {d \in Seq(Numbered) : Len(d) <= 1}

Kinds == ListKinds \cup {"open", "reply"}
Purposes == {"boot", "user", "timer", "reply"}

Requested ==
  {r \in [kind : Kinds, about : Nat, purpose : Purposes,
          read : Single, answered : BOOLEAN, rows : Seq(Numbered), epoch : Nat] :
     /\ r.kind \notin ListKinds => r.rows \in Single
     /\ ~r.answered => r.rows = <<>>
     /\ r.epoch <= clears}

Slots == [Slot -> {<<>>} \cup {<<r>> : r \in Requested}]

PageInv ==
  /\ live \in BOOLEAN /\ shown \in Seq(Numbered) /\ detail \in Single
  /\ newest \in Nat /\ oldest \in 0 .. newest
  /\ shown = <<>> <=> oldest = NoId
  /\ oldest = NoId => newest = NoId
  /\ loads \in 0 .. MaxLoads /\ clears \in 0 .. MaxClears
  /\ loadedAt \in 0 .. clears /\ crossed \subseteq ListKinds

Has(s, kinds) == requests[s] # <<>> /\ requests[s][1].kind \in kinds

\* A load that meets another list request is crossed, and so are two others.
AloneInv ==
  /\ "load" \notin crossed =>
       \A s, u \in Slot : Has(s, {"load"}) /\ Has(u, ListKinds) => s = u
  /\ crossed = {} =>
       \A s, u \in Slot : Has(s, ListKinds) /\ Has(u, ListKinds) => s = u

\* A load is answered with the rows from the top down.
LoadInv ==
  \A s \in Slot :
    Has(s, {"load"}) /\ requests[s][1].epoch = clears /\ requests[s][1].rows # <<>>
      => Downward(requests[s][1].rows, requests[s][1].rows[1].id + 1)

Fresh == loadedAt = clears /\ "load" \notin crossed

\* What the list goes by: the rows from the oldest to the newest id are in it,
\* and what is under way was asked from an id in between, of the same log.
Whole ==
  oldest # NoId =>
    \A id \in oldest .. newest : \E i \in 1 .. Len(shown) : shown[i] = RowAt(id)

Joins(r) ==
  /\ oldest # NoId /\ r.about \in oldest .. newest
  /\ r.kind = "poll" => Upward(r.rows, r.about)
  /\ r.kind = "more" => Downward(r.rows, r.about)

ListInv ==
  Fresh =>
    /\ newest <= log.sequence /\ Whole
    /\ \A s \in Slot : Has(s, {"poll", "more"}) => Joins(requests[s][1])

\* While nothing crosses, the list goes down one by one, and what is under way
\* was asked from its ends.
InLine ==
  /\ \A i \in 1 .. Len(shown) : shown[i].id = newest - i + 1
  /\ shown # <<>> => Len(shown) = newest - oldest + 1

Ends(r) ==
  (r.kind = "poll" => r.about = newest) /\ (r.kind = "more" => r.about = oldest)

OrderInv ==
  loadedAt = clears /\ crossed = {} =>
    InLine /\ \A s \in Slot : Has(s, {"poll", "more"}) => Ends(requests[s][1])

PhoneInv ==
  /\ LogInv /\ requests \in Slots /\ PageInv
  /\ AloneInv /\ LoadInv /\ ListInv /\ OrderInv

-----------------------------------------------------------------------------
(* The log.                                                                *)

LEMMA InOrderIs ==
  ASSUME NEW a \in Nat, NEW b \in Nat, a <= b + 1, NEW ids, ids = a .. b
  PROVE  /\ InOrder(ids) \in Seq(Nat) /\ Len(InOrder(ids)) = b - a + 1
         /\ \A k \in 1 .. b - a + 1 : InOrder(ids)[k] = a + k - 1
<1> DEFINE size == b - a + 1
           At(k) == CHOOSE id \in a .. b : Cardinality({i \in a .. b : i < id}) = k - 1
<1>1. size \in Nat /\ Cardinality(a .. b) = size
  <2>1. Cardinality(a .. b) = IF a > b THEN 0 ELSE b - a + 1
    BY FS_Interval
  <2>2. QED BY <2>1
<1>2. ASSUME NEW k \in 1 .. size PROVE At(k) = a + k - 1
  <2>1. ASSUME NEW id \in a .. b PROVE Cardinality({i \in a .. b : i < id}) = id - a
    <3> DEFINE less == {i \in a .. b : i < id}
               last == id - 1
    <3>1. less = a .. last /\ last \in Int
      OBVIOUS
    <3>2. Cardinality(a .. last) = IF a > last THEN 0 ELSE last - a + 1
      BY <3>1, FS_Interval
    <3>3. (IF a > last THEN 0 ELSE last - a + 1) = id - a
      OBVIOUS
    <3> HIDE DEF last, less
    <3>4. Cardinality(less) = id - a
      BY <3>1, <3>2, <3>3
    <3>5. QED BY <3>4 DEF less
  <2>2. a + k - 1 \in a .. b
    OBVIOUS
  <2>3. ASSUME NEW id \in a .. b
        PROVE  (Cardinality({i \in a .. b : i < id}) = k - 1) <=> (id = a + k - 1)
    BY <2>1
  <2>4. QED BY <2>2, <2>3
<1>3. InOrder(a .. b) = [k \in 1 .. size |-> At(k)]
  BY <1>1 DEF InOrder
<1> HIDE DEF At, size
<1>4. \A k \in 1 .. size : At(k) = a + k - 1
  BY <1>2
<1>5. InOrder(a .. b) = [k \in 1 .. size |-> a + k - 1]
  BY <1>3, <1>4
<1>6. \A k \in 1 .. size : a + k - 1 \in Nat
  BY <1>1
<1>7. /\ InOrder(a .. b) \in Seq(Nat) /\ Len(InOrder(a .. b)) = size
      /\ \A k \in 1 .. size : InOrder(a .. b)[k] = a + k - 1
  BY <1>1, <1>5, <1>6
<1>8. QED BY <1>7 DEF size

LEMMA FirstOfIs ==
  ASSUME NEW S, NEW s \in Seq(S), NEW limit \in Nat
  PROVE  /\ FirstOf(s, limit) \in Seq(S) /\ Len(FirstOf(s, limit)) <= Len(s)
         /\ \A i \in 1 .. Len(FirstOf(s, limit)) : FirstOf(s, limit)[i] = s[i]
<1> DEFINE n == IF Len(s) < limit THEN Len(s) ELSE limit
<1>1. n \in 0 .. Len(s)
  OBVIOUS
<1>2. \A i \in 1 .. n : s[i] \in S
  BY <1>1
<1>3. /\ SubSeq(s, 1, n) \in Seq(S)
      /\ Len(SubSeq(s, 1, n)) = IF 1 <= n THEN n - 1 + 1 ELSE 0
      /\ \A i \in 1 .. n - 1 + 1 : SubSeq(s, 1, n)[i] = s[1 + i - 1]
  BY <1>1, <1>2, SubSeqProperties
<1>4. FirstOf(s, limit) = SubSeq(s, 1, n)
  BY DEF FirstOf
<1> HIDE DEF n
<1>5. Len(SubSeq(s, 1, n)) = n
  BY <1>1, <1>3
<1>6. \A i \in 1 .. n : SubSeq(s, 1, n)[i] = s[i]
  BY <1>1, <1>3
<1>7. QED BY <1>1, <1>3, <1>4, <1>5, <1>6

LEMMA ReverseIs ==
  ASSUME NEW S, NEW s \in Seq(S)
  PROVE  /\ Reverse(s) \in Seq(S) /\ Len(Reverse(s)) = Len(s)
         /\ \A i \in 1 .. Len(s) : Reverse(s)[i] = s[Len(s) - i + 1]
<1>1. \A i \in 1 .. Len(s) : Len(s) - i + 1 \in 1 .. Len(s)
  OBVIOUS
<1>2. Reverse(s) \in [1 .. Len(s) -> S]
  BY <1>1 DEF Reverse
<1>3. QED BY <1>2 DEF Reverse

LEMMA RowsAre ==
  ASSUME LogInv, NEW ids \in Seq(Nat),
         \A i \in 1 .. Len(ids) : ids[i] \in DOMAIN log.rows
  PROVE  /\ Rows(log, ids) \in Seq(Numbered) /\ Len(Rows(log, ids)) = Len(ids)
         /\ \A i \in 1 .. Len(ids) : Rows(log, ids)[i] = RowAt(ids[i])
<1>1. DOMAIN ids = 1 .. Len(ids)
  OBVIOUS
<1>2. \A i \in 1 .. Len(ids) : RowAt(ids[i]) \in Numbered
  BY DEF LogInv, RowAt, Numbered, Row, NoId
<1>3. Rows(log, ids) = [i \in 1 .. Len(ids) |-> RowAt(ids[i])]
  BY <1>1 DEF Rows, RowAt
<1>4. QED BY <1>2, <1>3

\* The first rows after an id, in order and with none left out.
LEMMA RowsSinceIs ==
  ASSUME LogInv, NEW since \in Nat, NEW limit \in Nat
  PROVE  /\ RowsSince(log, since, limit) \in Seq(Numbered)
         /\ Upward(RowsSince(log, since, limit), since)
<1> DEFINE set == {id \in DOMAIN log.rows : id > since}
           above == InOrder(set)
           ids == FirstOf(above, limit)
<1>1. above \in Seq(Nat) /\ \A k \in 1 .. Len(above) : /\ above[k] = since + k
                                                    /\ since + k <= log.sequence
  <2>1. set = (since + 1) .. log.sequence
    BY DEF LogInv
  <2>2. CASE since <= log.sequence
    <3> HIDE DEF above
    <3>5. since + 1 \in Nat /\ log.sequence \in Nat
      BY DEF LogInv
    <3>1. PICK a \in Nat, b \in Nat : a = since + 1 /\ b = log.sequence
      BY <3>5
    <3>2. set = a .. b /\ a <= b + 1
      BY <2>1, <2>2, <3>1
    <3> HIDE DEF set
    <3>3. /\ above \in Seq(Nat) /\ Len(above) = b - a + 1
          /\ \A k \in 1 .. b - a + 1 : above[k] = a + k - 1
      BY <3>2, InOrderIs, ZenonT(60) DEF above
    <3>4. QED BY <3>1, <3>3
  <2>3. CASE ~(since <= log.sequence)
    <3>1. set = 1 .. 0
      BY <2>1, <2>3 DEF LogInv
    <3> HIDE DEF set
    <3>2. above \in Seq(Nat) /\ Len(above) = 0 - 1 + 1
      BY <3>1, InOrderIs
    <3> HIDE DEF above
    <3>3. QED BY <3>2
  <2>4. QED BY <2>2, <2>3
<1> HIDE DEF above
<1>4. /\ ids \in Seq(Nat) /\ Len(ids) <= Len(above)
      /\ \A i \in 1 .. Len(ids) : ids[i] = above[i]
  BY <1>1, FirstOfIs
<1> HIDE DEF ids
<1>5. \A i \in 1 .. Len(ids) : ids[i] = since + i /\ ids[i] \in DOMAIN log.rows
  BY <1>1, <1>4, SMTT(30) DEF LogInv
<1>6. QED BY <1>4, <1>5, RowsAre DEF RowsSince, Upward, above, ids, set

\* The rows before an id or, with a log that has been cleared, from its top.
LEMMA RowsBeforeIs ==
  ASSUME LogInv, NEW before \in Nat, NEW limit \in Nat
  PROVE  /\ RowsBefore(log, before, limit) \in Seq(Numbered)
         /\ before <= NextId(log) => Downward(RowsBefore(log, before, limit), before)
<1> DEFINE set == {id \in DOMAIN log.rows : id < before}
           below == InOrder(set)
           ids == FirstOf(Reverse(below), limit)
           top == IF before <= log.sequence THEN before - 1 ELSE log.sequence
<1>1. PICK n \in Nat : /\ set = 1 .. n
                       /\ n <= log.sequence
                       /\ before <= NextId(log) /\ before # 0 => n = before - 1
                       /\ before = 0 => n = 0
  <2>1. CASE before = 0
    <3>1. set = 1 .. 0
      BY <2>1 DEF LogInv
    <3>2. QED BY <2>1, <3>1 DEF LogInv
  <2>2. CASE before # 0
    <3>1. top \in Nat /\ top <= log.sequence
          /\ (before <= NextId(log) => top = before - 1)
      BY <2>2 DEF LogInv, NextId
    <3>2. set = 1 .. top
      BY <2>2 DEF LogInv
    <3>3. QED BY <2>2, <3>1, <3>2
  <2>3. QED BY <2>1, <2>2
<1> HIDE DEF set
<1>2. /\ below \in Seq(Nat) /\ Len(below) = n - 1 + 1
      /\ \A k \in 1 .. n - 1 + 1 : below[k] = 1 + k - 1
  <2>1. PICK a \in Nat : a = 1
    OBVIOUS
  <2>2. a <= n + 1 /\ set = a .. n
    BY <1>1, <2>1
  <2>3. /\ below \in Seq(Nat) /\ Len(below) = n - a + 1
        /\ \A k \in 1 .. n - a + 1 : below[k] = a + k - 1
    BY <2>2, InOrderIs, ZenonT(60)
  <2>4. QED BY <2>1, <2>3
<1> HIDE DEF below
<1>3. below \in Seq(Nat) /\ Len(below) = n /\ \A k \in 1 .. n : below[k] = k
  BY <1>2
<1>4. /\ Reverse(below) \in Seq(Nat) /\ Len(Reverse(below)) = n
      /\ \A k \in 1 .. n : Reverse(below)[k] = below[n - k + 1]
  BY <1>3, ReverseIs
<1>5. \A k \in 1 .. n : Reverse(below)[k] = n - k + 1
  BY <1>3, <1>4
<1>6. /\ ids \in Seq(Nat) /\ Len(ids) <= n
      /\ \A i \in 1 .. Len(ids) : ids[i] = Reverse(below)[i]
  BY <1>4, FirstOfIs
<1> HIDE DEF ids
<1>7. \A i \in 1 .. Len(ids) : ids[i] = n - i + 1 /\ ids[i] \in DOMAIN log.rows
  <2>1. Len(ids) \in Nat
    BY <1>6
  <2>2. ASSUME NEW i \in 1 .. Len(ids)
        PROVE  i \in 1 .. n /\ n - i + 1 \in 1 .. n /\ ids[i] = n - i + 1
    BY <1>5, <1>6, <2>1
  <2>3. QED BY <1>1, <2>2 DEF LogInv
<1>8. RowsBefore(log, before, limit) = Rows(log, ids)
  BY DEF RowsBefore, below, ids, set
<1>9. /\ Rows(log, ids) \in Seq(Numbered) /\ Len(Rows(log, ids)) = Len(ids)
      /\ \A i \in 1 .. Len(ids) : Rows(log, ids)[i] = RowAt(ids[i])
  BY <1>6, <1>7, RowsAre
<1>10. before <= NextId(log) => \A i \in 1 .. Len(ids) : ids[i] = before - i
  <2>1. CASE before = 0
    BY <1>1, <1>6, <2>1
  <2>2. CASE before # 0
    BY <1>1, <1>7, <2>2
  <2>3. QED BY <2>1, <2>2
<1>11. QED BY <1>7, <1>8, <1>9, <1>10 DEF Downward

-----------------------------------------------------------------------------
(* The page's newest and oldest ids.                                       *)

Beyond(S, x) == {y \in S : y > x}

\* A finite set of ids that has one has a greatest.
LEMMA GreatestId ==
  ASSUME NEW S \in SUBSET Nat, IsFiniteSet(S), S # {}
  PROVE  \E m \in S : \A k \in S : k <= m
<1> DEFINE T == {Beyond(S, x) : x \in S}
<1>1. IsWellFoundedOn(StrictSubsetOrdering(S), FiniteSubsetsOf(S))
  BY FS_StrictSubsetOrderingWellFounded
<1>2. T \subseteq FiniteSubsetsOf(S) /\ T # {}
  <2>1. ASSUME NEW x \in S PROVE Beyond(S, x) \in FiniteSubsetsOf(S)
    <3>1. Beyond(S, x) \in SUBSET S
      BY DEF Beyond
    <3>2. IsFiniteSet(Beyond(S, x))
      BY <3>1, FS_Subset
    <3>3. QED BY <3>1, <3>2 DEF FiniteSubsetsOf
  <2>2. QED BY <2>1
<1>3. PICK X \in T : \A Y \in T : <<Y, X>> \notin StrictSubsetOrdering(S)
  <2> HIDE DEF T
  <2>1. QED BY <1>1, <1>2, WFMin
<1>4. PICK m \in S : X = Beyond(S, m)
  OBVIOUS
<1>5. ASSUME NEW k \in S, k > m PROVE FALSE
  <2>1. /\ Beyond(S, k) \subseteq Beyond(S, m)
        /\ k \in Beyond(S, m) /\ k \notin Beyond(S, k)
        /\ Beyond(S, k) \in SUBSET S /\ Beyond(S, m) \in SUBSET S
    <3>1. \A y \in S : y > k => y > m
      BY <1>5
    <3>2. ~(k > k)
      OBVIOUS
    <3>3. QED BY <1>5, <3>1, <3>2, ZenonT(20) DEF Beyond
  <2>2. <<Beyond(S, k), Beyond(S, m)>> \in StrictSubsetOrdering(S)
    BY <2>1 DEF StrictSubsetOrdering
  <2>3. QED BY <1>3, <1>4, <2>2
<1>6. QED BY <1>5

LEMMA IdsAre ==
  ASSUME NEW rows \in Seq(Numbered)
  PROVE  /\ IdsOf(rows) \in SUBSET (Nat \ {NoId}) /\ IsFiniteSet(IdsOf(rows))
         /\ IdsOf(rows) = {rows[i].id : i \in 1 .. Len(rows)}
         /\ rows = <<>> <=> IdsOf(rows) = {}
<1> DEFINE f == [i \in 1 .. Len(rows) |-> rows[i].id]
<1>1. DOMAIN rows = 1 .. Len(rows) /\ \A i \in 1 .. Len(rows) : rows[i] \in Numbered
  OBVIOUS
<1>2. IdsOf(rows) = {rows[i].id : i \in 1 .. Len(rows)}
  BY <1>1 DEF IdsOf
<1>3. IsFiniteSet(IdsOf(rows))
  <2>1. IsFiniteSet(1 .. Len(rows))
    BY FS_Interval
  <2>2. f \in Surjection(1 .. Len(rows), IdsOf(rows))
    BY <1>2 DEF Surjection
  <2>3. QED BY <2>1, <2>2, FS_Surjection
<1>4. IdsOf(rows) \in SUBSET (Nat \ {NoId})
  BY <1>1, <1>2 DEF Numbered, Row
<1>5. rows = <<>> <=> IdsOf(rows) = {}
  <2>1. CASE Len(rows) = 0
    BY <1>2, <2>1
  <2>2. CASE Len(rows) # 0
    <3>1. 1 \in 1 .. Len(rows) /\ rows # <<>>
      BY <2>2
    <3>2. rows[1].id \in IdsOf(rows)
      BY <1>2, <3>1
    <3>3. QED BY <3>1, <3>2
  <2>3. QED BY <2>1, <2>2
<1>6. QED BY <1>2, <1>3, <1>4, <1>5

\* The newest id is the greatest of those known.
LEMMA NewestIs ==
  ASSUME NEW id \in Nat, NEW rows \in Seq(Numbered)
  PROVE  /\ NewestOf(id, rows) \in {id} \cup IdsOf(rows) /\ NewestOf(id, rows) \in Nat
         /\ \A k \in {id} \cup IdsOf(rows) : k <= NewestOf(id, rows)
<1> DEFINE S == {id} \cup IdsOf(rows)
<1>1. S \in SUBSET Nat /\ IsFiniteSet(S) /\ S # {}
  BY IdsAre, FS_AddElement, FS_Singleton, FS_Union
<1> HIDE DEF S
<1>2. \E m \in S : \A k \in S : k <= m
  BY <1>1, GreatestId
<1>3. Max(S) \in S /\ \A k \in S : k <= Max(S)
  BY <1>1, <1>2 DEF Max
<1>4. QED BY <1>1, <1>3 DEF S, NewestOf

\* The oldest id is the least of those known.
LEMMA OldestIs ==
  ASSUME NEW id \in Nat, NEW rows \in Seq(Numbered)
  PROVE  /\ rows = <<>> => OldestOf(id, rows) = id
         /\ rows # <<>> =>
              /\ OldestOf(id, rows) \in ({id} \cup IdsOf(rows)) \ {NoId}
              /\ \A k \in ({id} \cup IdsOf(rows)) \ {NoId} : OldestOf(id, rows) <= k
<1> DEFINE S == (IF id = NoId THEN {} ELSE {id}) \cup IdsOf(rows)
<1>1. CASE rows = <<>>
  BY <1>1 DEF OldestOf
<1>2. CASE rows # <<>>
  <2>1. S \in SUBSET Nat /\ S # {} /\ S = ({id} \cup IdsOf(rows)) \ {NoId}
    BY <1>2, IdsAre
  <2>2. IsFiniteSet(S)
    BY <2>1, IdsAre, FS_AddElement, FS_Singleton, FS_Union, FS_EmptySet
  <2> HIDE DEF S
  <2>3. \E m \in S : \A k \in S : m <= k
    BY <2>1, <2>2, HasLeast
  <2>4. Min(S) \in S /\ \A k \in S : Min(S) <= k
    BY <2>3 DEF Min
  <2>5. OldestOf(id, rows) = Min(S)
    BY <1>2 DEF OldestOf, S
  <2>6. QED BY <1>2, <2>1, <2>4, <2>5
<1>3. QED BY <1>1, <1>2

-----------------------------------------------------------------------------
(* Steps, by what they do to the page and to the requests.                 *)

\* The table keeps its rows.
Grown ==
  /\ log'.sequence >= log.sequence /\ DOMAIN log.rows \subseteq DOMAIN log'.rows
  /\ \A id \in DOMAIN log.rows : log'.rows[id] = log.rows[id]

LEMMA InsertGrows ==
  ASSUME LogInv, NEW c \in Nat, log' = Insert(log, c), arrived' \in Nat
  PROVE  LogInv' /\ Grown
<1>1. NextId(log) = log.sequence + 1 /\ NextId(log) \notin DOMAIN log.rows
  BY DEF LogInv, NextId
<1>2. /\ log'.sequence = log.sequence + 1
      /\ DOMAIN log'.rows = DOMAIN log.rows \cup {NextId(log)}
      /\ log'.rows[NextId(log)] = c
      /\ \A id \in DOMAIN log.rows : log'.rows[id] = log.rows[id]
  BY <1>1 DEF Insert
<1>3. QED BY <1>1, <1>2 DEF LogInv, Grown

LEMMA SameGrows ==
  ASSUME LogInv, UNCHANGED <<log, arrived>>
  PROVE  LogInv' /\ Grown
BY DEF LogInv, Grown

LEMMA RowKeeps ==
  ASSUME Grown, NEW id \in DOMAIN log.rows
  PROVE  id \in DOMAIN log'.rows /\ RowAt(id)' = RowAt(id)
BY DEF Grown, RowAt

LEMMA UpwardKeeps ==
  ASSUME Grown, NEW rows, NEW id, Upward(rows, id)
  PROVE  Upward(rows, id)'
BY RowKeeps DEF Upward

LEMMA DownwardKeeps ==
  ASSUME Grown, NEW rows, NEW id, Downward(rows, id)
  PROVE  Downward(rows, id)'
BY RowKeeps DEF Downward

\* Nothing happens to the page or to its requests.
LEMMA StoreKeeps ==
  ASSUME PhoneInv, LogInv', Grown,
         UNCHANGED <<list, requests, clears, loadedAt, crossed>>
  PROVE  AloneInv' /\ LoadInv' /\ ListInv' /\ OrderInv'
<1>1. AloneInv' /\ OrderInv'
  BY DEF PhoneInv, list, AloneInv, OrderInv, Has, InLine, Ends
<1>2. LoadInv'
  <2>1. SUFFICES ASSUME NEW s \in Slot, Has(s, {"load"}), requests[s][1].epoch = clears,
                        requests[s][1].rows # <<>>
                 PROVE  Downward(requests[s][1].rows, requests[s][1].rows[1].id + 1)'
    BY DEF LoadInv, Has
  <2>2. PICK rows, id : rows = requests[s][1].rows /\ id = rows[1].id + 1
    OBVIOUS
  <2>3. Downward(rows, id)
    BY <2>1, <2>2 DEF PhoneInv, LoadInv
  <2>4. Downward(rows, id)'
    BY <2>3, DownwardKeeps
  <2>5. QED BY <2>2, <2>4 DEF Downward, RowAt
<1>3. ListInv'
  <2>1. SUFFICES ASSUME Fresh
                 PROVE  /\ newest <= log'.sequence /\ Whole'
                        /\ \A s \in Slot : Has(s, {"poll", "more"})
                             => Joins(requests[s][1])'
    BY DEF ListInv, Fresh, Has, list
  <2>2. newest <= log.sequence /\ Whole
    BY <2>1 DEF PhoneInv, ListInv
  <2>3. newest <= log'.sequence
    BY <2>2 DEF Grown, PhoneInv, PageInv, LogInv
  <2>4. Whole'
    <3>1. SUFFICES ASSUME oldest # NoId, NEW id \in oldest .. newest
                   PROVE  \E i \in 1 .. Len(shown) : shown[i] = RowAt(id)'
      BY DEF Whole, list
    <3>2. id \in DOMAIN log.rows
      BY <2>2, <3>1 DEF PhoneInv, PageInv, LogInv, NoId
    <3>3. RowAt(id)' = RowAt(id)
      BY <3>2, RowKeeps
    <3>4. QED BY <2>2, <3>1, <3>3 DEF Whole
  <2>5. ASSUME NEW s \in Slot, Has(s, {"poll", "more"}) PROVE Joins(requests[s][1])'
    <3>1. PICK r : r = requests[s][1]
      OBVIOUS
    <3>2. Joins(r)
      BY <2>1, <2>5, <3>1 DEF PhoneInv, ListInv
    <3>3. Joins(r)'
      BY <3>2, UpwardKeeps, DownwardKeeps DEF Joins, list
    <3>4. requests[s][1]' = r
      BY <3>1
    <3>5. QED BY <3>3, <3>4 DEF Joins, Upward, Downward, RowAt
  <2>6. QED BY <2>3, <2>4, <2>5
<1>4. QED BY <1>1, <1>2, <1>3

\* Loads under way that hold rows of the log go on doing so.
LEMMA LoadsStay ==
  ASSUME log' = log, clears' = clears,
         \A u \in Slot :
           Has(u, {"load"})' /\ requests'[u][1].epoch = clears /\ requests'[u][1].rows # <<>>
             => Downward(requests'[u][1].rows, requests'[u][1].rows[1].id + 1)
  PROVE  LoadInv'
<1>1. ASSUME NEW u \in Slot, Has(u, {"load"})', requests'[u][1].epoch = clears,
             requests'[u][1].rows # <<>>
      PROVE  Downward(requests[u][1].rows, requests[u][1].rows[1].id + 1)'
  <2>1. Downward(requests'[u][1].rows, requests'[u][1].rows[1].id + 1)
    BY <1>1
  <2>2. QED BY <2>1 DEF Downward, RowAt
<1>2. QED BY <1>1 DEF LoadInv

\* A request goes away, and the page stays as it is.
LEMMA DropKeeps ==
  ASSUME PhoneInv, NEW s \in Slot, requests' = [requests EXCEPT ![s] = <<>>],
         UNCHANGED <<log, list, clears, loadedAt, crossed>>
  PROVE  AloneInv' /\ LoadInv' /\ ListInv' /\ OrderInv'
<1>1. /\ requests'[s] = <<>>
      /\ \A u \in Slot : u # s => requests'[u] = requests[u]
  BY DEF PhoneInv, Slots
<1>2. \A u \in Slot : \A kinds : Has(u, kinds)' => u # s /\ Has(u, kinds)
  BY <1>1 DEF Has
<1>3. AloneInv'
  BY <1>2 DEF PhoneInv, AloneInv
<1>4. LoadInv'
  <2>1. ASSUME NEW u \in Slot, Has(u, {"load"})', requests'[u][1].epoch = clears,
               requests'[u][1].rows # <<>>
        PROVE  Downward(requests'[u][1].rows, requests'[u][1].rows[1].id + 1)
    <3>1. Has(u, {"load"}) /\ requests'[u] = requests[u]
      BY <1>1, <1>2, <2>1
    <3>2. QED BY <2>1, <3>1 DEF PhoneInv, LoadInv
  <2>2. QED BY <2>1, LoadsStay
<1>5. ListInv'
  <2>1. SUFFICES ASSUME Fresh
                 PROVE  /\ newest <= log.sequence /\ Whole'
                        /\ \A u \in Slot : Has(u, {"poll", "more"})'
                             => Joins(requests[u][1])'
    BY DEF ListInv, Fresh, list
  <2>2. newest <= log.sequence /\ Whole'
    BY <2>1 DEF PhoneInv, ListInv, Whole, RowAt, list
  <2>3. ASSUME NEW u \in Slot, Has(u, {"poll", "more"})' PROVE Joins(requests[u][1])'
    <3>1. Has(u, {"poll", "more"}) /\ requests'[u] = requests[u]
      BY <1>1, <1>2, <2>3
    <3>2. PICK r : r = requests[u][1]
      OBVIOUS
    <3>3. Joins(r)
      BY <2>1, <3>1, <3>2 DEF PhoneInv, ListInv
    <3>4. Joins(r)'
      BY <3>3 DEF Joins, Upward, Downward, RowAt, list
    <3>5. requests[u][1]' = r
      BY <3>1, <3>2
    <3>6. QED BY <3>4, <3>5 DEF Joins, Upward, Downward, RowAt
  <2>4. QED BY <2>2, <2>3
<1>6. OrderInv'
  BY <1>1, <1>2 DEF PhoneInv, OrderInv, InLine, Ends, list
<1>7. QED BY <1>3, <1>4, <1>5, <1>6

Crossing(kind) ==
  crossed' = IF kind \in ListKinds /\ UnderWay(ListKinds) # {}
             THEN crossed \cup {kind} \cup
                  {requests[r][1].kind : r \in UnderWay(ListKinds)}
             ELSE crossed

\* A request is sent, and the page stays as it is.
LEMMA SendKeeps ==
  ASSUME PhoneInv, NEW s \in Slot, NEW r, ~Has(s, ListKinds),
         requests' = [requests EXCEPT ![s] = <<r>>],
         r.rows = <<>>, Crossing(r.kind),
         r.kind \in {"poll", "more"} => oldest # NoId /\ Ends(r),
         UNCHANGED <<log, list, clears, loadedAt>>
  PROVE  AloneInv' /\ LoadInv' /\ ListInv' /\ OrderInv'
<1>1. /\ requests'[s] = <<r>> /\ requests'[s][1] = r
      /\ \A u \in Slot : u # s => requests'[u] = requests[u]
  BY DEF PhoneInv, Slots
<1>2. \A u \in Slot : \A kinds : Has(u, kinds)' <=> IF u = s THEN r.kind \in kinds
                                                          ELSE Has(u, kinds)
  BY <1>1 DEF Has
<1>3. /\ crossed \subseteq crossed'
      /\ r.kind \in ListKinds =>
           \A u \in Slot : Has(u, ListKinds) =>
             crossed' # {} /\ r.kind \in crossed' /\ requests[u][1].kind \in crossed'
  BY DEF Crossing, UnderWay, Has
<1>4. AloneInv'
  <2>1. ASSUME "load" \notin crossed', NEW u \in Slot, NEW v \in Slot,
               Has(u, {"load"})', Has(v, ListKinds)'
        PROVE  u = v
    <3>1. u # s /\ v # s => Has(u, {"load"}) /\ Has(v, ListKinds)
      BY <1>2, <2>1
    <3>2. u = s /\ v # s => FALSE
      BY <1>2, <1>3, <2>1 DEF ListKinds
    <3>3. u # s /\ v = s => FALSE
      BY <1>2, <1>3, <2>1 DEF ListKinds, Has
    <3>4. QED BY <1>3, <2>1, <3>1, <3>2, <3>3 DEF PhoneInv, AloneInv
  <2>2. ASSUME crossed' = {}, NEW u \in Slot, NEW v \in Slot,
               Has(u, ListKinds)', Has(v, ListKinds)'
        PROVE  u = v
    BY <1>2, <1>3, <2>2 DEF PhoneInv, AloneInv
  <2>3. QED BY <2>1, <2>2 DEF AloneInv
<1>5. LoadInv'
  <2>1. ASSUME NEW u \in Slot, Has(u, {"load"})', requests'[u][1].epoch = clears,
               requests'[u][1].rows # <<>>
        PROVE  Downward(requests[u][1].rows, requests[u][1].rows[1].id + 1)
               /\ requests'[u] = requests[u]
    BY <1>1, <1>2, <2>1 DEF PhoneInv, LoadInv
  <2>2. QED BY <2>1, LoadsStay
<1>6. ListInv'
  <2>1. SUFFICES ASSUME Fresh'
                 PROVE  /\ newest <= log.sequence /\ Whole'
                        /\ \A u \in Slot : Has(u, {"poll", "more"})'
                             => Joins(requests[u][1])'
    BY DEF ListInv, list
  <2>2. Fresh
    BY <1>3, <2>1 DEF Fresh
  <2>3. newest <= log.sequence /\ Whole'
    BY <2>2 DEF PhoneInv, ListInv, Whole, RowAt, list
  <2>4. ASSUME NEW u \in Slot, Has(u, {"poll", "more"})', u # s
        PROVE  Joins(requests[u][1])'
    BY <1>1, <1>2, <2>2, <2>4
       DEF PhoneInv, ListInv, Joins, Upward, Downward, RowAt, list
  <2>5. ASSUME Has(s, {"poll", "more"})' PROVE Joins(requests[s][1])'
    <3>1. r.kind \in {"poll", "more"}
      BY <1>2, <2>5
    <3>2. oldest # NoId /\ r.about \in oldest .. newest
      BY <3>1 DEF Ends, PhoneInv, PageInv
    <3>3. QED BY <1>1, <3>2 DEF Joins, Upward, Downward, list
  <2>6. QED BY <2>3, <2>4, <2>5
<1>7. OrderInv'
  <2>1. ASSUME loadedAt = clears, crossed' = {} PROVE loadedAt = clears /\ crossed = {}
    BY <1>3, <2>1
  <2>2. ASSUME crossed' = {}, loadedAt = clears, NEW u \in Slot,
               Has(u, {"poll", "more"})'
        PROVE  Ends(requests[u][1])'
    <3>1. CASE u = s
      BY <1>1, <1>2, <2>2, <3>1 DEF Ends, list
    <3>2. CASE u # s
      BY <1>1, <1>2, <2>1, <2>2, <3>2 DEF PhoneInv, OrderInv, Ends, list
    <3>3. QED BY <3>1, <3>2
  <2>3. QED BY <2>1, <2>2 DEF PhoneInv, OrderInv, InLine, list
<1>8. QED BY <1>4, <1>5, <1>6, <1>7

-----------------------------------------------------------------------------
(* Types.                                                                  *)

LEMMA RequestIs ==
  ASSUME PhoneInv, NEW s \in Slot, requests[s] # <<>>
  PROVE  requests[s][1] \in Requested /\ requests[s] = <<requests[s][1]>>
BY DEF PhoneInv, Slots

\* The bound on epochs is all of a request that changes with the log.
LEMMA SlotsKeep ==
  ASSUME PhoneInv, clears' \in Nat, clears' >= clears
  PROVE  requests \in Slots' /\ Requested \subseteq Requested'
<1>1. Requested \subseteq Requested'
  BY DEF Requested, PhoneInv, PageInv
<1>2. QED BY <1>1 DEF PhoneInv, Slots

LEMMA SlotTaken ==
  ASSUME PhoneInv, NEW s \in Slot, NEW h \in {<<>>} \cup {<<r>> : r \in Requested},
         requests' = [requests EXCEPT ![s] = h], clears' = clears
  PROVE  requests' \in Slots'
<1>1. requests' \in Slots
  BY DEF PhoneInv, Slots
<1>2. QED BY <1>1 DEF Slots, Requested

LEMMA NewRequest ==
  ASSUME PhoneInv, NEW kind \in Kinds, NEW about \in Nat, NEW purpose \in Purposes
  PROVE  /\ Request(kind, about, purpose) \in Requested
         /\ Request(kind, about, purpose).rows = <<>>
         /\ Request(kind, about, purpose).kind = kind
         /\ Request(kind, about, purpose).about = about
<1>1. <<>> \in Single /\ detail \in Single
  BY DEF Single, PhoneInv, PageInv
<1>2. <<>> \in Seq(Numbered) /\ clears \in Nat
  BY DEF PhoneInv, PageInv
<1>3. QED BY <1>1, <1>2 DEF Request, Requested

\* The server's rows are well formed, whatever was asked.
LEMMA AnswerRowsAre ==
  ASSUME PhoneInv, InboxAssumption, NEW r \in Requested
  PROVE  /\ AnswerRows(r) \in Seq(Numbered)
         /\ r.kind \notin ListKinds => AnswerRows(r) \in Single
<1>1. /\ PageLimit \in Nat /\ PollLimit \in Nat /\ r.about \in Nat
      /\ LogInv /\ NextId(log) \in Nat
  <2>1. PageLimit \in Nat /\ PollLimit \in Nat
    BY DEF InboxAssumption
  <2>2. LogInv /\ r.about \in Nat
    BY DEF PhoneInv, Requested
  <2>3. NextId(log) \in Nat
    BY <2>2 DEF LogInv, NextId
  <2>4. QED BY <2>1, <2>2, <2>3
<1>2. CASE r.kind = "poll"
  BY <1>1, <1>2, RowsSinceIs DEF AnswerRows, ListKinds
<1>3. CASE r.kind = "more"
  BY <1>1, <1>3, RowsBeforeIs DEF AnswerRows, ListKinds
<1>4. CASE r.kind = "load"
  BY <1>1, <1>4, RowsBeforeIs DEF AnswerRows, ListKinds, RowsNewest
<1>5. CASE r.kind \notin ListKinds
  <2>1. AnswerRows(r) \in {<<>>, <<RowAt(r.about)>>}
        /\ (AnswerRows(r) = <<RowAt(r.about)>> \/ AnswerRows(r) = <<>>)
        /\ (AnswerRows(r) # <<>> => r.about \in DOMAIN log.rows)
    BY <1>5 DEF AnswerRows, ListKinds, RowAt
  <2>2. r.about \in DOMAIN log.rows => RowAt(r.about) \in Numbered
    BY <1>1 DEF LogInv, RowAt, Numbered, Row, NoId
  <2>3. CASE AnswerRows(r) = <<>>
    BY <2>3 DEF Single
  <2>4. CASE AnswerRows(r) # <<>>
    <3>1. PICK row : row = RowAt(r.about)
      OBVIOUS
    <3>2. row \in Numbered /\ AnswerRows(r) = <<row>>
      BY <2>1, <2>2, <2>4, <3>1
    <3>3. <<row>> \in Seq(Numbered) /\ Len(<<row>>) = 1
      BY <3>2
    <3>4. QED BY <3>2, <3>3 DEF Single
  <2>5. QED BY <2>3, <2>4
<1>6. QED BY <1>2, <1>3, <1>4, <1>5 DEF ListKinds

\* The page after rows came in.
LEMMA PageTakes ==
  ASSUME PhoneInv, NEW rows \in Seq(Numbered), NEW n \in Nat, NEW o \in 0 .. n,
         o = NoId => n = NoId, NEW listed,
         listed = <<>> <=> (rows = <<>> /\ o = NoId)
  PROVE  /\ NewestOf(n, rows) \in Nat
         /\ OldestOf(o, rows) \in 0 .. NewestOf(n, rows)
         /\ listed = <<>> <=> OldestOf(o, rows) = NoId
         /\ OldestOf(o, rows) = NoId => NewestOf(n, rows) = NoId
<1>1. o \in Nat /\ IdsOf(rows) \in SUBSET (Nat \ {NoId}) /\ NoId = 0
      /\ (rows = <<>> <=> IdsOf(rows) = {})
  BY IdsAre DEF NoId
<1>2. /\ NewestOf(n, rows) \in {n} \cup IdsOf(rows) /\ NewestOf(n, rows) \in Nat
      /\ \A k \in {n} \cup IdsOf(rows) : k <= NewestOf(n, rows)
  BY NewestIs
<1>3. CASE rows = <<>>
  <2>1. OldestOf(o, rows) = o /\ NewestOf(n, rows) = n
    BY <1>1, <1>2, <1>3, OldestIs
  <2>2. QED BY <1>1, <1>3, <2>1
<1>4. CASE rows # <<>>
  <2>1. /\ OldestOf(o, rows) \in ({o} \cup IdsOf(rows)) \ {NoId}
        /\ \A k \in ({o} \cup IdsOf(rows)) \ {NoId} : OldestOf(o, rows) <= k
    BY <1>1, <1>4, OldestIs
  <2>2. PICK k : k \in IdsOf(rows)
    BY <1>1, <1>4
  <2>3. k \in Nat \ {NoId} /\ OldestOf(o, rows) <= k /\ k <= NewestOf(n, rows)
    BY <1>1, <1>2, <2>1, <2>2
  <2>4. OldestOf(o, rows) \in Nat \ {NoId}
    BY <1>1, <2>1
  <2>5. QED BY <1>1, <1>2, <1>4, <2>3, <2>4
<1>5. QED BY <1>3, <1>4

LEMMA StoreTypes ==
  ASSUME PhoneInv, InboxAssumption, Arrive \/ Clear \/ CloseDetail
  PROVE  LogInv' /\ requests' \in Slots' /\ PageInv'
<1>1. CASE Arrive
  <2>1. LogInv'
    BY <1>1, InsertGrows DEF Arrive, PhoneInv, LogInv
  <2>2. UNCHANGED <<list, detail, requests, loads, clears, loadedAt, crossed>>
    BY <1>1 DEF Arrive, history
  <2>3. requests' \in Slots'
    BY <2>2 DEF PhoneInv, Slots, Requested
  <2>4. QED BY <2>1, <2>2, <2>3 DEF PhoneInv, PageInv, list
<1>2. CASE Clear
  <2>1. UNCHANGED <<arrived, list, detail, requests, loads, loadedAt, crossed>>
        /\ log' = EmptyLog /\ clears' = clears + 1 /\ clears < MaxClears
    BY <1>2 DEF Clear, history
  <2>2. LogInv'
    <3>1. log'.sequence = 0 /\ log'.rows = <<>>
      BY <2>1 DEF EmptyLog
    <3>2. QED BY <2>1, <3>1 DEF PhoneInv, LogInv
  <2>3. requests' \in Slots'
    BY <2>1, SlotsKeep DEF PhoneInv, PageInv
  <2>4. clears' \in 0 .. MaxClears /\ loadedAt \in 0 .. clears'
    BY <2>1 DEF PhoneInv, PageInv, InboxAssumption
  <2>5. QED BY <2>1, <2>2, <2>3, <2>4 DEF PhoneInv, PageInv, list
<1>3. CASE CloseDetail
  <2>1. UNCHANGED <<log, arrived, list, requests, loads, clears, loadedAt, crossed>>
        /\ detail' = <<>>
    BY <1>3 DEF CloseDetail, store, history
  <2>2. detail' \in Single
    BY <2>1 DEF Single
  <2>3. requests' \in Slots' /\ LogInv'
    BY <2>1 DEF PhoneInv, Slots, Requested, LogInv
  <2>4. QED BY <2>1, <2>2, <2>3 DEF PhoneInv, PageInv, list
<1>4. QED BY <1>1, <1>2, <1>3

\* What the page sends, as a request in a free slot.
Sends(s, r) ==
  /\ r \in Requested /\ r.rows = <<>> /\ requests[s] = <<>>
  /\ requests' = [requests EXCEPT ![s] = <<r>>] /\ Crossing(r.kind)
  /\ r.kind \in {"poll", "more"} => oldest # NoId /\ Ends(r)
  /\ UNCHANGED <<log, arrived, list, detail, clears, loadedAt>>

LEMMA SendIs ==
  ASSUME PhoneInv, NEW s \in Slot, NEW kind \in Kinds, NEW about \in Nat,
         NEW purpose \in Purposes,
         Send(s, kind, about, purpose),
         UNCHANGED <<store, list, detail, clears, loadedAt>>,
         kind = "poll" => oldest # NoId /\ about = newest,
         kind = "more" => oldest # NoId /\ about = oldest
  PROVE  \E r : Sends(s, r)
<1> DEFINE r == Request(kind, about, purpose)
<1>1. r \in Requested /\ r.rows = <<>> /\ r.kind = kind /\ r.about = about
  BY NewRequest
<1> HIDE DEF r
<1>2. /\ requests[s] = <<>> /\ requests' = [requests EXCEPT ![s] = <<r>>]
      /\ Crossing(kind)
  BY DEF Send, r, Crossing
<1>3. QED BY <1>1, <1>2 DEF Sends, Ends, store

LEMMA SendersSend ==
  ASSUME PhoneInv, InboxAssumption, NEW s \in Slot,
         \/ SendLoad(s) \/ SendPoll(s) \/ SendMore(s) \/ SendReply(s)
         \/ \E i \in DOMAIN shown : SendOpen(s, i)
  PROVE  (\E r : Sends(s, r)) /\ loads' \in 0 .. MaxLoads
<1>1. CASE SendLoad(s)
  <2>1. loads' \in 0 .. MaxLoads
    <3>1. loads \in 0 .. MaxLoads /\ MaxLoads \in Nat
      BY DEF PhoneInv, PageInv, InboxAssumption
    <3>2. loads < MaxLoads /\ loads' = loads + 1
      BY <1>1 DEF SendLoad
    <3>3. QED BY <3>1, <3>2
  <2>2. PICK purpose \in {"boot", "user"} : Send(s, "load", NoId, purpose)
    BY <1>1 DEF SendLoad
  <2>3. UNCHANGED <<store, list, detail, clears, loadedAt>>
    BY <1>1 DEF SendLoad
  <2>4. \E r : Sends(s, r)
    BY <2>2, <2>3, SendIs DEF ListKinds, Kinds, Purposes, NoId
  <2>5. QED BY <2>1, <2>4
<1>2. CASE SendPoll(s)
  <2>1. /\ Send(s, "poll", newest, "timer")
        /\ UNCHANGED <<store, list, detail, clears, loadedAt>>
        /\ newest \in Nat /\ oldest # NoId /\ loads' \in 0 .. MaxLoads
    BY <1>2 DEF SendPoll, PhoneInv, PageInv
  <2>2. QED BY <2>1, SendIs DEF ListKinds, Kinds, Purposes
<1>3. CASE SendMore(s)
  <2>1. /\ Send(s, "more", oldest, "user")
        /\ UNCHANGED <<store, list, detail, clears, loadedAt>>
        /\ oldest \in Nat /\ oldest # NoId /\ loads' \in 0 .. MaxLoads
    BY <1>3 DEF SendMore, PhoneInv, PageInv
  <2>2. QED BY <2>1, SendIs DEF ListKinds, Kinds, Purposes
<1>4. CASE SendReply(s)
  <2>1. detail \in Single /\ detail # <<>> /\ loads' \in 0 .. MaxLoads
    BY <1>4 DEF SendReply, PhoneInv, PageInv
  <2>2. detail[1].id \in Nat
    BY <2>1 DEF Single, Numbered, Row
  <2>3. /\ Send(s, "reply", detail[1].id, "reply")
        /\ UNCHANGED <<store, list, detail, clears, loadedAt>>
    BY <1>4 DEF SendReply
  <2>4. QED BY <2>1, <2>2, <2>3, SendIs DEF Kinds, Purposes
<1>5. CASE \E i \in DOMAIN shown : SendOpen(s, i)
  <2>1. PICK i \in DOMAIN shown : SendOpen(s, i)
    BY <1>5
  <2>2. shown[i].id \in Nat
    BY <2>1 DEF PhoneInv, PageInv, Numbered, Row
  <2>3. /\ Send(s, "open", shown[i].id, "user") /\ loads' \in 0 .. MaxLoads
        /\ UNCHANGED <<store, list, detail, clears, loadedAt>>
    BY <2>1 DEF SendOpen, PhoneInv, PageInv
  <2>4. QED BY <2>2, <2>3, SendIs DEF Kinds, Purposes
<1>6. QED BY <1>1, <1>2, <1>3, <1>4, <1>5

\* A request's slot is taken by another, or given up.
LEMMA SlotTypes ==
  ASSUME PhoneInv, NEW s \in Slot, NEW h \in {<<>>} \cup {<<r>> : r \in Requested},
         requests' = [requests EXCEPT ![s] = h], detail' \in Single,
         loads' \in 0 .. MaxLoads, crossed' \subseteq ListKinds,
         UNCHANGED <<log, arrived, list, clears, loadedAt>>
  PROVE  LogInv' /\ requests' \in Slots' /\ PageInv'
<1>1. requests' \in Slots'
  BY SlotTaken
<1>2. LogInv'
  BY SameGrows DEF PhoneInv
<1>3. PageInv'
  BY DEF PhoneInv, PageInv, list
<1>4. QED BY <1>1, <1>2, <1>3

LEMMA CrossingTypes ==
  ASSUME PhoneInv, NEW kind \in Kinds, Crossing(kind)
  PROVE  crossed' \subseteq ListKinds
<1>1. \A u \in UnderWay(ListKinds) : requests[u][1].kind \in ListKinds
  BY DEF UnderWay
<1>2. QED BY <1>1 DEF Crossing, PhoneInv, PageInv

LEMMA SentKeeps ==
  ASSUME PhoneInv, NEW s \in Slot, NEW r, Sends(s, r), loads' \in 0 .. MaxLoads
  PROVE  PhoneInv'
<1>1. LogInv' /\ requests' \in Slots' /\ PageInv'
  <2>1. crossed' \subseteq ListKinds
    BY CrossingTypes DEF Sends, Requested
  <2>2. detail' \in Single /\ <<r>> \in {<<>>} \cup {<<q>> : q \in Requested}
    BY DEF Sends, PhoneInv, PageInv
  <2>3. QED BY <2>1, <2>2, SlotTypes DEF Sends
<1>2. AloneInv' /\ LoadInv' /\ ListInv' /\ OrderInv'
  BY SendKeeps DEF Sends, Has
<1>3. QED BY <1>1, <1>2 DEF PhoneInv

LEMMA RepliedKeeps ==
  ASSUME PhoneInv, InboxAssumption, NEW s \in Slot, Replied(s)
  PROVE  PhoneInv'
<1> DEFINE r == Request("load", NoId, "reply")
<1>1. r \in Requested /\ r.rows = <<>> /\ r.kind = "load"
  BY NewRequest DEF ListKinds, Kinds, Purposes, NoId
<1> HIDE DEF r
<1>2. /\ requests' = [requests EXCEPT ![s] = <<r>>] /\ detail' = <<>>
      /\ UNCHANGED <<log, arrived, list, loads, clears, loadedAt>>
      /\ requests[s][1].kind = "reply"
  BY DEF Replied, r, Answered, store
<1>3. Crossing("load") /\ ~Has(s, ListKinds)
  BY <1>2 DEF Replied, Crossing, ListKinds, Has
<1>4. LogInv' /\ requests' \in Slots' /\ PageInv'
  <2>1. crossed' \subseteq ListKinds
    BY <1>3, CrossingTypes DEF ListKinds, Kinds
  <2>2. /\ detail' \in Single /\ loads' \in 0 .. MaxLoads
        /\ <<r>> \in {<<>>} \cup {<<q>> : q \in Requested}
    BY <1>1, <1>2 DEF Single, PhoneInv, PageInv
  <2>3. QED BY <1>2, <2>1, <2>2, SlotTypes
<1>5. AloneInv' /\ LoadInv' /\ ListInv' /\ OrderInv'
  BY <1>1, <1>2, <1>3, SendKeeps
<1>6. QED BY <1>4, <1>5 DEF PhoneInv

\* A message opened, and a request that got no answer.
LEMMA DroppedKeeps ==
  ASSUME PhoneInv, NEW s \in Slot, Opened(s) \/ Fails(s)
  PROVE  PhoneInv'
<1>1. requests[s] # <<>> /\ requests' = [requests EXCEPT ![s] = <<>>]
      /\ UNCHANGED <<log, arrived, list, loads, clears, loadedAt, crossed>>
  BY DEF Opened, Fails, Answered, Done, store, history
<1>2. detail' \in Single
  <2>1. requests[s][1] \in Requested
    BY <1>1, RequestIs
  <2>2. CASE Opened(s)
    BY <2>1, <2>2 DEF Opened, Answered, Requested, ListKinds
  <2>3. CASE Fails(s)
    BY <2>3 DEF Fails, PhoneInv, PageInv
  <2>4. QED BY <2>2, <2>3
<1>3. loads' \in 0 .. MaxLoads /\ crossed' \subseteq ListKinds
  BY <1>1 DEF PhoneInv, PageInv
<1>4. LogInv' /\ requests' \in Slots' /\ PageInv'
  BY <1>1, <1>2, <1>3, SlotTypes
<1>5. AloneInv' /\ LoadInv' /\ ListInv' /\ OrderInv'
  BY <1>1, DropKeeps
<1>6. QED BY <1>4, <1>5 DEF PhoneInv


LEMMA StoreKept ==
  ASSUME PhoneInv, InboxAssumption, Arrive \/ Clear \/ CloseDetail
  PROVE  PhoneInv'
<1>1. LogInv' /\ requests' \in Slots' /\ PageInv'
  BY StoreTypes
<1>2. CASE Arrive
  <2>1. Grown
    BY <1>2, InsertGrows DEF Arrive, PhoneInv, LogInv
  <2>2. UNCHANGED <<list, requests, clears, loadedAt, crossed>>
    BY <1>2 DEF Arrive, history
  <2>3. QED BY <1>1, <2>1, <2>2, StoreKeeps DEF PhoneInv
<1>3. CASE CloseDetail
  <2>1. Grown
    BY <1>3, SameGrows DEF CloseDetail, PhoneInv, store
  <2>2. UNCHANGED <<list, requests, clears, loadedAt, crossed>>
    BY <1>3 DEF CloseDetail, history
  <2>3. QED BY <1>1, <2>1, <2>2, StoreKeeps DEF PhoneInv
<1>4. CASE Clear
  <2>1. UNCHANGED <<requests, loadedAt, crossed>> /\ clears' = clears + 1
    BY <1>4 DEF Clear, history
  <2>2. loadedAt # clears'
    BY <2>1 DEF PhoneInv, PageInv
  <2>3. \A s \in Slot : requests[s] # <<>> => requests[s][1].epoch # clears'
    <3>1. ASSUME NEW s \in Slot, requests[s] # <<>> PROVE requests[s][1].epoch # clears'
      <4>1. requests[s][1].epoch \in Nat /\ requests[s][1].epoch <= clears
        BY <3>1, RequestIs DEF Requested
      <4>2. QED BY <2>1, <4>1 DEF PhoneInv, PageInv
    <3>2. QED BY <3>1
  <2>4. AloneInv'
    BY <2>1 DEF PhoneInv, AloneInv, Has
  <2>5. LoadInv'
    BY <2>1, <2>3 DEF LoadInv, Has
  <2>6. ListInv' /\ OrderInv'
    BY <2>1, <2>2 DEF ListInv, OrderInv, Fresh
  <2>7. QED BY <1>1, <2>4, <2>5, <2>6 DEF PhoneInv
<1>5. QED BY <1>2, <1>3, <1>4

-----------------------------------------------------------------------------
(* The server answers.                                                     *)

\* What the server gives continues the list where it was asked from.
LEMMA AnswerRowsJoin ==
  ASSUME PhoneInv, InboxAssumption, NEW r \in Requested
  PROVE  /\ r.kind = "poll" => Upward(AnswerRows(r), r.about)
         /\ r.kind = "more" /\ r.about <= log.sequence
              => Downward(AnswerRows(r), r.about)
         /\ r.kind = "load" => Downward(AnswerRows(r), NextId(log))
<1>1. /\ PageLimit \in Nat /\ PollLimit \in Nat /\ r.about \in Nat /\ LogInv
      /\ NextId(log) \in Nat /\ NextId(log) = log.sequence + 1 /\ log.sequence \in Nat
  <2>1. PageLimit \in Nat /\ PollLimit \in Nat
    BY DEF InboxAssumption
  <2>2. LogInv /\ r.about \in Nat
    BY DEF PhoneInv, Requested
  <2>3. NextId(log) = log.sequence + 1 /\ log.sequence \in Nat
    BY <2>2 DEF LogInv, NextId
  <2>4. QED BY <2>1, <2>2, <2>3
<1>2. CASE r.kind = "poll"
  BY <1>1, <1>2, RowsSinceIs DEF AnswerRows
<1>3. CASE r.kind = "more"
  <2>1. r.about <= log.sequence => r.about <= NextId(log)
    BY <1>1
  <2>2. QED BY <1>1, <1>3, <2>1, RowsBeforeIs DEF AnswerRows
<1>4. CASE r.kind = "load"
  <2>1. NextId(log) <= NextId(log)
    BY <1>1
  <2>2. QED BY <1>1, <1>4, <2>1, RowsBeforeIs DEF AnswerRows, RowsNewest
<1>5. QED BY <1>2, <1>3, <1>4

LEMMA AnswerStore ==
  ASSUME PhoneInv, NEW s \in Slot, Answer(s)
  PROVE  LogInv' /\ Grown
         /\ (requests[s][1].kind # "reply" => UNCHANGED <<log, arrived>>)
<1>1. CASE UNCHANGED <<log, arrived>>
  BY <1>1, SameGrows DEF PhoneInv
<1>2. CASE /\ log' = Insert(log, arrived + 1) /\ arrived' = arrived + 1
           /\ requests[s][1].kind = "reply"
  BY <1>2, InsertGrows DEF PhoneInv, LogInv
<1>3. QED BY <1>1, <1>2 DEF Answer, store

LEMMA AnswerKeeps ==
  ASSUME PhoneInv, InboxAssumption, NEW s \in Slot, Answer(s)
  PROVE  PhoneInv'
<1>a. PICK r : r = requests[s][1]
  OBVIOUS
<1>b. PICK a :
        a = [r EXCEPT !.answered = TRUE, !.rows = AnswerRows(r), !.epoch = clears]
  OBVIOUS
<1>1. /\ r = requests[s][1]
      /\ a = [r EXCEPT !.answered = TRUE, !.rows = AnswerRows(r), !.epoch = clears]
      /\ requests' = [requests EXCEPT ![s] = <<a>>] /\ requests[s] # <<>>
      /\ UNCHANGED <<list, detail, loads, clears, loadedAt, crossed>>
  BY <1>a, <1>b DEF Answer
<1>2. r \in Requested
  BY <1>1, RequestIs
<1>3. /\ AnswerRows(r) \in Seq(Numbered)
      /\ r.kind \notin ListKinds => AnswerRows(r) \in Single
  BY <1>2, AnswerRowsAre
<1>4. /\ a \in Requested /\ a.kind = r.kind /\ a.about = r.about
      /\ a.rows = AnswerRows(r) /\ a.epoch = clears
  <2>1. PICK got : got = AnswerRows(r)
    OBVIOUS
  <2>2. /\ got \in Seq(Numbered)
        /\ r.kind \notin ListKinds => got \in Single
        /\ a = [r EXCEPT !.answered = TRUE, !.rows = got, !.epoch = clears]
    BY <1>1, <1>3, <2>1
  <2>3. clears \in Nat
    BY DEF PhoneInv, PageInv
  <2>4. /\ a.kind = r.kind /\ a.about = r.about /\ a.rows = got /\ a.epoch = clears
        /\ a.answered = TRUE
    BY <1>2, <2>2 DEF Requested
  <2>5. a \in [kind : Kinds, about : Nat, purpose : Purposes, read : Single,
               answered : BOOLEAN, rows : Seq(Numbered), epoch : Nat]
    <3>1. r \in [kind : Kinds, about : Nat, purpose : Purposes, read : Single,
                 answered : BOOLEAN, rows : Seq(Numbered), epoch : Nat]
      BY <1>2 DEF Requested
    <3>2. got \in Seq(Numbered)
      BY <2>2
    <3>3. QED BY <2>2, <2>3, <3>1, <3>2
  <2>6. a \in Requested
    <3>1. a.kind \notin ListKinds => a.rows \in Single
      BY <2>2, <2>4
    <3>2. (~a.answered => a.rows = <<>>) /\ a.epoch <= clears
      BY <2>3, <2>4
    <3>3. QED BY <2>5, <3>1, <3>2 DEF Requested
  <2>7. QED BY <2>1, <2>4, <2>6
<1>5. /\ requests'[s] = <<a>> /\ requests'[s][1] = a
      /\ \A u \in Slot : u # s => requests'[u] = requests[u]
  BY <1>1 DEF PhoneInv, Slots
<1>6. \A u \in Slot : \A kinds : Has(u, kinds)' <=> Has(u, kinds)
  BY <1>1, <1>4, <1>5 DEF Has
<1>7. LogInv' /\ Grown /\ (r.kind # "reply" => UNCHANGED <<log, arrived>>)
  BY <1>1, AnswerStore
<1>8. requests' \in Slots' /\ PageInv'
  <2>1. requests' \in Slots'
    BY <1>1, <1>4, SlotTaken
  <2>2. PageInv'
    BY <1>1 DEF PhoneInv, PageInv, list
  <2>3. QED BY <2>1, <2>2
<1>9. AloneInv'
  BY <1>1, <1>6 DEF PhoneInv, AloneInv
<1>10. LoadInv'
  <2>1. ASSUME NEW u \in Slot, Has(u, {"load"})', requests'[u][1].epoch = clears,
               requests'[u][1].rows # <<>>
        PROVE  Downward(requests[u][1].rows, requests[u][1].rows[1].id + 1)'
    <3>1. CASE u = s
      <4>1. r.kind = "load" /\ a.rows # <<>> /\ log' = log
        BY <1>4, <1>5, <1>7, <2>1, <3>1 DEF Has
      <4>2. Downward(a.rows, NextId(log))
        BY <1>2, <1>4, <4>1, AnswerRowsJoin
      <4>3. a.rows[1].id + 1 = NextId(log)
        <5>1. 1 \in 1 .. Len(a.rows)
          BY <1>3, <1>4, <4>1
        <5>2. a.rows[1] = RowAt(NextId(log) - 1)
          BY <4>2, <5>1 DEF Downward
        <5>3. a.rows[1].id = NextId(log) - 1
          BY <5>2 DEF RowAt
        <5>4. QED BY <5>3 DEF NextId, PhoneInv, LogInv
      <4>4. Downward(a.rows, a.rows[1].id + 1)
        BY <4>2, <4>3
      <4>5. QED BY <1>5, <3>1, <4>1, <4>4 DEF Downward, RowAt
    <3>2. CASE u # s
      <4>1. PICK rows, id : rows = requests[u][1].rows /\ id = rows[1].id + 1
        OBVIOUS
      <4>2. Downward(rows, id)
        BY <1>1, <1>5, <1>6, <2>1, <3>2, <4>1 DEF PhoneInv, LoadInv
      <4>3. Downward(rows, id)'
        BY <1>7, <4>2, DownwardKeeps
      <4>4. QED BY <1>5, <3>2, <4>1, <4>3 DEF Downward, RowAt
    <3>3. QED BY <3>1, <3>2
  <2>2. QED BY <1>1, <2>1 DEF LoadInv
<1>11. ListInv'
  <2>1. SUFFICES ASSUME Fresh
                 PROVE  /\ newest <= log'.sequence /\ Whole'
                        /\ \A u \in Slot : Has(u, {"poll", "more"})'
                             => Joins(requests[u][1])'
    BY <1>1 DEF ListInv, Fresh, list
  <2>2. newest <= log.sequence /\ Whole
    BY <2>1 DEF PhoneInv, ListInv
  <2>3. newest <= log'.sequence
    BY <1>7, <2>2 DEF Grown, PhoneInv, PageInv, LogInv
  <2>4. Whole'
    <3>1. SUFFICES ASSUME oldest # NoId, NEW id \in oldest .. newest
                   PROVE  \E i \in 1 .. Len(shown) : shown[i] = RowAt(id)'
      BY <1>1 DEF Whole, list
    <3>2. id \in DOMAIN log.rows
      BY <2>2, <3>1 DEF PhoneInv, PageInv, LogInv, NoId
    <3>3. RowAt(id)' = RowAt(id)
      BY <1>7, <3>2, RowKeeps
    <3>4. QED BY <2>2, <3>1, <3>3 DEF Whole
  <2>5. ASSUME NEW u \in Slot, Has(u, {"poll", "more"})' PROVE Joins(requests[u][1])'
    <3>1. Has(u, {"poll", "more"}) /\ Joins(requests[u][1])
      BY <1>6, <2>1, <2>5 DEF PhoneInv, ListInv
    <3>2. CASE u = s
      <4>1. Joins(r) /\ r.kind \in {"poll", "more"} /\ log' = log
        BY <1>1, <1>7, <3>1, <3>2 DEF Has
      <4>2. r.about <= log.sequence
        BY <2>2, <4>1 DEF Joins, PhoneInv, PageInv, LogInv
      <4>3. /\ r.kind = "poll" => Upward(a.rows, a.about)
            /\ r.kind = "more" => Downward(a.rows, a.about)
        BY <1>2, <1>4, <4>2, AnswerRowsJoin
      <4>4. Joins(a)
        <5>1. oldest # NoId /\ a.about \in oldest .. newest
          BY <1>4, <4>1 DEF Joins
        <5>2. /\ a.kind = "poll" => Upward(a.rows, a.about)
              /\ a.kind = "more" => Downward(a.rows, a.about)
          BY <1>4, <4>3
        <5>3. QED BY <5>1, <5>2 DEF Joins
      <4>5. /\ requests'[u][1] = a /\ log' = log
            /\ newest' = newest /\ oldest' = oldest
        BY <1>1, <1>5, <3>2, <4>1 DEF list
      <4>6. QED BY <4>4, <4>5 DEF Joins, Upward, Downward, RowAt
    <3>3. CASE u # s
      <4>1. PICK q : q = requests[u][1] /\ requests'[u][1] = q
        BY <1>5, <3>3
      <4>2. Joins(q)'
        BY <1>1, <1>7, <3>1, <4>1, UpwardKeeps, DownwardKeeps DEF Joins, list
      <4>3. QED BY <4>1, <4>2 DEF Joins, Upward, Downward, RowAt
    <3>4. QED BY <3>2, <3>3
  <2>6. QED BY <2>3, <2>4, <2>5
<1>12. OrderInv'
  <2>1. ASSUME loadedAt = clears, crossed = {}, NEW u \in Slot,
               Has(u, {"poll", "more"})'
        PROVE  Ends(requests[u][1])'
    <3>1. Ends(requests[u][1])
      BY <1>6, <2>1 DEF PhoneInv, OrderInv
    <3>2. requests'[u][1].kind = requests[u][1].kind
          /\ requests'[u][1].about = requests[u][1].about
      BY <1>1, <1>4, <1>5
    <3>3. QED BY <1>1, <3>1, <3>2 DEF Ends, list
  <2>2. QED BY <1>1, <2>1 DEF PhoneInv, OrderInv, InLine, list
<1>13. QED BY <1>7, <1>8, <1>9, <1>10, <1>11, <1>12 DEF PhoneInv

-----------------------------------------------------------------------------
(* The page receives.                                                      *)

LEMMA UpwardEnds ==
  ASSUME LogInv, NEW rows \in Seq(Numbered), NEW id \in Nat, Upward(rows, id)
  PROVE  /\ IdsOf(rows) = (id + 1) .. (id + Len(rows))
         /\ \A i \in 1 .. Len(rows) : rows[i].id = id + i /\ rows[i] = RowAt(id + i)
         /\ rows # <<>> => id + Len(rows) <= log.sequence
<1>1. \A i \in 1 .. Len(rows) : rows[i].id = id + i /\ rows[i] = RowAt(id + i)
                                /\ id + i \in 1 .. log.sequence
  BY DEF Upward, RowAt, LogInv
<1>2. IdsOf(rows) = {rows[i].id : i \in 1 .. Len(rows)} /\ Len(rows) \in Nat
  BY IdsAre
<1>3. {rows[i].id : i \in 1 .. Len(rows)} = (id + 1) .. (id + Len(rows))
  <2>1. ASSUME NEW k \in (id + 1) .. (id + Len(rows))
        PROVE  \E i \in 1 .. Len(rows) : k = rows[i].id
    <3>1. k - id \in 1 .. Len(rows) /\ id + (k - id) = k
      BY <1>2
    <3>2. QED BY <1>1, <3>1
  <2>2. ASSUME NEW i \in 1 .. Len(rows)
        PROVE  rows[i].id \in (id + 1) .. (id + Len(rows))
    BY <1>1, <1>2
  <2>3. QED BY <2>1, <2>2
<1>4. rows # <<>> => Len(rows) \in 1 .. Len(rows)
  BY <1>2
<1>5. QED BY <1>1, <1>2, <1>3, <1>4

LEMMA DownwardEnds ==
  ASSUME LogInv, NEW rows \in Seq(Numbered), NEW id \in Nat, Downward(rows, id)
  PROVE  /\ IdsOf(rows) = (id - Len(rows)) .. (id - 1)
         /\ \A i \in 1 .. Len(rows) : rows[i].id = id - i /\ rows[i] = RowAt(id - i)
         /\ rows # <<>> => id - Len(rows) >= 1 /\ id - 1 <= log.sequence
<1>1. \A i \in 1 .. Len(rows) : rows[i].id = id - i /\ rows[i] = RowAt(id - i)
                                /\ id - i \in 1 .. log.sequence
  BY DEF Downward, RowAt, LogInv
<1>2. IdsOf(rows) = {rows[i].id : i \in 1 .. Len(rows)} /\ Len(rows) \in Nat
  BY IdsAre
<1>3. {rows[i].id : i \in 1 .. Len(rows)} = (id - Len(rows)) .. (id - 1)
  <2>1. ASSUME NEW k \in (id - Len(rows)) .. (id - 1)
        PROVE  \E i \in 1 .. Len(rows) : k = rows[i].id
    <3>1. id - k \in 1 .. Len(rows) /\ id - (id - k) = k
      BY <1>2
    <3>2. QED BY <1>1, <3>1
  <2>2. ASSUME NEW i \in 1 .. Len(rows)
        PROVE  rows[i].id \in (id - Len(rows)) .. (id - 1)
    BY <1>1, <1>2
  <2>3. QED BY <2>1, <2>2
<1>4. rows # <<>> => Len(rows) \in 1 .. Len(rows) /\ 1 \in 1 .. Len(rows)
  BY <1>2
<1>5. rows # <<>> => id - Len(rows) >= 1 /\ id - 1 <= log.sequence
  BY <1>1, <1>4 DEF LogInv
<1>6. QED BY <1>1, <1>2, <1>3, <1>5


\* Once rows were taken, the other requests are as they were.
LEMMA OthersStay ==
  ASSUME PhoneInv, NEW s \in Slot, Done(s)
  PROVE  /\ \A u \in Slot : requests'[u] # <<>> => u # s /\ requests'[u] = requests[u]
         /\ \A u \in Slot : \A kinds : Has(u, kinds)' => u # s /\ Has(u, kinds)
<1>1. /\ requests'[s] = <<>>
      /\ \A u \in Slot : u # s => requests'[u] = requests[u]
  BY DEF PhoneInv, Slots, Done
<1>2. QED BY <1>1 DEF Has

\* Rows are taken from a list request in a slot that is free then.
LEMMA TakenKeeps ==
  ASSUME PhoneInv, NEW s \in Slot, Done(s), Has(s, ListKinds),
         NEW rows \in Seq(Numbered), NEW n \in Nat, NEW o \in 0 .. n,
         o = NoId => n = NoId,
         newest' = NewestOf(n, rows), oldest' = OldestOf(o, rows), live' \in BOOLEAN,
         shown' \in Seq(Numbered), shown' = <<>> <=> (rows = <<>> /\ o = NoId),
         UNCHANGED <<log, arrived, detail, loads, clears>>,
         loadedAt' \in 0 .. clears,
         crossed' = crossed \/ (crossed' = {} /\ UnderWay(ListKinds) = {s})
  PROVE  LogInv' /\ requests' \in Slots' /\ PageInv' /\ AloneInv' /\ LoadInv'
<1>1. LogInv'
  BY SameGrows DEF PhoneInv
<1>2. requests' \in Slots'
  BY SlotTaken DEF Done
<1>3. PageInv'
  <2>1. /\ newest' \in Nat /\ oldest' \in 0 .. newest'
        /\ shown' = <<>> <=> oldest' = NoId
        /\ oldest' = NoId => newest' = NoId
    BY PageTakes
  <2>2. crossed' \subseteq ListKinds
    BY DEF PhoneInv, PageInv
  <2>3. QED BY <2>1, <2>2 DEF PhoneInv, PageInv
<1>4. AloneInv'
  <2>1. CASE crossed' = crossed
    BY <2>1, OthersStay DEF PhoneInv, AloneInv
  <2>2. CASE UnderWay(ListKinds) = {s}
    <3>1. \A u \in Slot : Has(u, ListKinds) => u = s
      BY <2>2 DEF UnderWay, Has
    <3>2. \A u \in Slot : ~Has(u, ListKinds)' /\ ~Has(u, {"load"})'
      BY <3>1, OthersStay DEF Has, ListKinds
    <3>3. QED BY <3>2 DEF AloneInv
  <2>3. QED BY <2>1, <2>2
<1>5. LoadInv'
  <2>1. ASSUME NEW u \in Slot, Has(u, {"load"})', requests'[u][1].epoch = clears,
               requests'[u][1].rows # <<>>
        PROVE  Downward(requests[u][1].rows, requests[u][1].rows[1].id + 1)
               /\ requests'[u] = requests[u]
    <3>1. Has(u, {"load"}) /\ requests'[u] = requests[u]
      BY <2>1, OthersStay DEF Has
    <3>2. QED BY <2>1, <3>1 DEF PhoneInv, LoadInv
  <2>2. QED BY <2>1, LoadsStay
<1>6. QED BY <1>1, <1>2, <1>3, <1>4, <1>5

LEMMA LoadedKeeps ==
  ASSUME PhoneInv, NEW s \in Slot, Loaded(s)
  PROVE  PhoneInv'
<1> DEFINE rows == requests[s][1].rows
<1>1. /\ requests[s][1] \in Requested /\ rows \in Seq(Numbered)
      /\ requests[s][1].epoch \in 0 .. clears /\ Has(s, {"load"}) /\ Has(s, ListKinds)
  BY RequestIs DEF Loaded, Answered, Requested, Has, ListKinds, PhoneInv, PageInv
<1>2. /\ shown' = rows /\ newest' = NewestOf(NoId, rows)
      /\ oldest' = OldestOf(NoId, rows)
      /\ live' \in BOOLEAN /\ loadedAt' = requests[s][1].epoch /\ Done(s)
      /\ crossed' = (IF UnderWay(ListKinds) = {s} THEN {} ELSE crossed)
      /\ UNCHANGED <<log, arrived, detail, loads, clears>>
  BY DEF Loaded, store, PhoneInv, PageInv
<1>3. LogInv' /\ requests' \in Slots' /\ PageInv' /\ AloneInv' /\ LoadInv'
  <2>1. NoId \in Nat /\ NoId \in 0 .. NoId
    BY DEF NoId
  <2>2. crossed' = crossed \/ (crossed' = {} /\ UnderWay(ListKinds) = {s})
    BY <1>2
  <2>3. loadedAt' \in 0 .. clears
    BY <1>1, <1>2
  <2> HIDE DEF rows
  <2>4. shown' \in Seq(Numbered) /\ (shown' = <<>> <=> (rows = <<>> /\ NoId = NoId))
    BY <1>1, <1>2
  <2>5. QED BY <1>1, <1>2, <2>1, <2>2, <2>3, <2>4, TakenKeeps
<1>4. "load" \notin crossed' => \A u \in Slot : ~Has(u, {"poll", "more"})'
  <2>1. SUFFICES ASSUME "load" \notin crossed', NEW u \in Slot,
                        Has(u, {"poll", "more"})'
                 PROVE  FALSE
    OBVIOUS
  <2>2. u # s /\ Has(u, ListKinds)
    <3>1. u # s /\ Has(u, {"poll", "more"})
      BY <1>2, <2>1, OthersStay
    <3>2. QED BY <3>1 DEF Has, ListKinds
  <2>3. UnderWay(ListKinds) # {s}
    BY <2>2 DEF UnderWay, Has
  <2>4. QED BY <1>1, <1>2, <2>1, <2>2, <2>3 DEF PhoneInv, AloneInv
<1> HIDE DEF rows
<1>5. CASE rows = <<>>
  <2>1. NewestOf(NoId, rows) = NoId /\ OldestOf(NoId, rows) = NoId
    <3>1. IdsOf(rows) = {} /\ NoId \in Nat
      BY <1>1, <1>5, IdsAre DEF NoId
    <3>2. QED BY <1>1, <1>5, <3>1, NewestIs, OldestIs
  <2>2. newest' = 0 /\ oldest' = NoId /\ shown' = <<>>
    BY <1>2, <1>5, <2>1 DEF NoId
  <2>3. ListInv'
    <3>1. newest' <= log'.sequence
      BY <1>3, <2>2 DEF LogInv
    <3>2. QED BY <1>4, <2>2, <3>1 DEF ListInv, Whole, Fresh
  <2>4. OrderInv'
    BY <1>4, <2>2 DEF OrderInv, InLine
  <2>5. QED BY <1>3, <2>3, <2>4 DEF PhoneInv
<1>6. CASE rows # <<>>
  <2>1. SUFFICES ASSUME loadedAt' = clears'
                 PROVE  /\ newest' <= log'.sequence /\ Whole' /\ InLine'
    BY <1>3, <1>4 DEF PhoneInv, ListInv, OrderInv, Fresh
  <2>2. PICK top \in Nat, size \in Nat :
         top = rows[1].id /\ size = Len(rows) /\ size >= 1
    <3>1. 1 \in 1 .. Len(rows) /\ Len(rows) \in Nat
      BY <1>1, <1>6
    <3>2. rows[1].id \in Nat
      BY <1>1, <3>1 DEF Numbered, Row
    <3>3. QED BY <3>1, <3>2
  <2>3. Downward(rows, top + 1)
    BY <1>1, <1>2, <1>6, <2>1, <2>2 DEF PhoneInv, LoadInv, rows
  <2>4. /\ IdsOf(rows) = (top + 1 - size) .. (top + 1 - 1)
        /\ \A i \in 1 .. size : rows[i].id = top + 1 - i /\ rows[i] = RowAt(top + 1 - i)
        /\ top + 1 - size >= 1 /\ top + 1 - 1 <= log.sequence
    <3>1. PICK id \in Nat : id = top + 1
      OBVIOUS
    <3>2. LogInv /\ Downward(rows, id) /\ rows \in Seq(Numbered)
      BY <1>1, <2>3, <3>1 DEF PhoneInv
    <3>3. /\ IdsOf(rows) = (id - Len(rows)) .. (id - 1)
          /\ \A i \in 1 .. Len(rows) : rows[i].id = id - i /\ rows[i] = RowAt(id - i)
          /\ rows # <<>> => id - Len(rows) >= 1 /\ id - 1 <= log.sequence
      BY <3>2, DownwardEnds
    <3>4. Len(rows) = size /\ rows # <<>>
      BY <1>6, <2>2
    <3>5. IdsOf(rows) = (top + 1 - size) .. (top + 1 - 1)
      BY <3>1, <3>3, <3>4
    <3>6. \A i \in 1 .. size : rows[i].id = top + 1 - i /\ rows[i] = RowAt(top + 1 - i)
      BY <3>1, <3>3, <3>4
    <3>7. top + 1 - size >= 1 /\ top + 1 - 1 <= log.sequence
      BY <3>1, <3>3, <3>4
    <3>8. QED BY <3>5, <3>6, <3>7
  <2>5. newest' = top /\ oldest' = top + 1 - size
    <3>1. top \in IdsOf(rows) /\ top + 1 - size \in IdsOf(rows)
          /\ \A k \in IdsOf(rows) : k <= top /\ top + 1 - size <= k
      BY <2>2, <2>4
    <3>2. newest' \in {NoId} \cup IdsOf(rows)
          /\ \A k \in {NoId} \cup IdsOf(rows) : k <= newest'
      BY <1>1, <1>2, NewestIs DEF NoId
    <3>3. /\ oldest' \in ({NoId} \cup IdsOf(rows)) \ {NoId}
          /\ \A k \in ({NoId} \cup IdsOf(rows)) \ {NoId} : oldest' <= k
      BY <1>1, <1>2, <1>6, OldestIs DEF NoId
    <3>4. IdsOf(rows) \in SUBSET (Nat \ {NoId}) /\ NoId = 0
      BY <1>1, IdsAre DEF NoId
    <3>5. newest' = top
      BY <3>1, <3>2, <3>4
    <3>6. oldest' = top + 1 - size
      BY <2>4, <3>1, <3>3, <3>4
    <3>7. QED BY <3>5, <3>6
  <2>6. newest' <= log'.sequence
    BY <1>2, <2>4, <2>5
  <2>7. Whole'
    <3>1. ASSUME NEW id \in oldest' .. newest'
          PROVE  \E i \in 1 .. Len(rows) : rows[i] = RowAt(id)
      <4>1. top + 1 - id \in 1 .. size /\ top + 1 - (top + 1 - id) = id
        BY <2>2, <2>5, <3>1, SMTT(30)
      <4>2. QED BY <2>2, <2>4, <4>1
    <3>2. QED BY <1>2, <3>1 DEF Whole, RowAt
  <2>8. InLine'
    <3>1. \A i \in 1 .. Len(shown') : shown'[i].id = newest' - i + 1
      BY <1>2, <2>2, <2>4, <2>5
    <3>2. Len(shown') = newest' - oldest' + 1
      <4>1. shown' = rows /\ Len(rows) = size
        BY <1>2, <2>2
      <4>2. size = top - (top + 1 - size) + 1
        BY <2>2
      <4>3. QED BY <2>5, <4>1, <4>2
    <3>3. QED BY <3>1, <3>2 DEF InLine
  <2>9. QED BY <2>6, <2>7, <2>8
<1>7. QED BY <1>5, <1>6


\* While nothing crosses, a request of the list is the only one.
LEMMA AloneEnds ==
  ASSUME PhoneInv, NEW s \in Slot, Has(s, ListKinds), Done(s), crossed = {}
  PROVE  \A u \in Slot : ~Has(u, {"poll", "more"})'
<1>1. \A u \in Slot : Has(u, {"poll", "more"}) => Has(u, ListKinds)
  BY DEF Has, ListKinds
<1>2. QED BY <1>1, OthersStay DEF PhoneInv, AloneInv

LEMMA PolledKeeps ==
  ASSUME PhoneInv, NEW s \in Slot, Polled(s)
  PROVE  PhoneInv'
<1> DEFINE r == requests[s][1]
           rows == Reverse(r.rows)
<1>1. /\ r \in Requested /\ r.rows \in Seq(Numbered) /\ r.about \in Nat
      /\ r.kind = "poll"
      /\ Has(s, {"poll", "more"}) /\ Has(s, ListKinds)
  BY RequestIs DEF Polled, Answered, Requested, Has, ListKinds
<1>2. /\ shown' = rows \o shown /\ newest' = NewestOf(newest, rows)
      /\ oldest' = OldestOf(oldest, rows) /\ Done(s)
      /\ UNCHANGED <<log, arrived, live, detail, loads, clears, loadedAt, crossed>>
  BY DEF Polled, store, history
<1>3. /\ rows \in Seq(Numbered) /\ Len(rows) = Len(r.rows)
      /\ \A i \in 1 .. Len(r.rows) : rows[i] = r.rows[Len(r.rows) - i + 1]
  BY <1>1, ReverseIs
<1> HIDE DEF rows
<1>4. /\ shown \in Seq(Numbered) /\ newest \in Nat /\ oldest \in 0 .. newest
      /\ (oldest = NoId => newest = NoId) /\ (shown = <<>> <=> oldest = NoId)
      /\ live \in BOOLEAN /\ loadedAt \in 0 .. clears
  BY DEF PhoneInv, PageInv
<1>5. /\ shown' \in Seq(Numbered) /\ Len(shown') = Len(rows) + Len(shown)
      /\ \A i \in 1 .. Len(rows) + Len(shown) :
           shown'[i] = IF i <= Len(rows) THEN rows[i] ELSE shown[i - Len(rows)]
      /\ Len(rows) \in Nat /\ Len(shown) \in Nat
  <2>1. rows \in Seq(Numbered) /\ shown \in Seq(Numbered) /\ shown' = rows \o shown
    BY <1>2, <1>3, <1>4
  <2>2. QED BY <2>1, ConcatProperties
<1>6. shown' = <<>> <=> (rows = <<>> /\ oldest = NoId)
  BY <1>3, <1>4, <1>5
<1>7. LogInv' /\ requests' \in Slots' /\ PageInv' /\ AloneInv' /\ LoadInv'
  BY <1>1, <1>2, <1>3, <1>4, <1>5, <1>6, TakenKeeps
<1>8. SUFFICES ASSUME Fresh
               PROVE  /\ newest' <= log.sequence /\ Whole'
                      /\ \A u \in Slot : Has(u, {"poll", "more"})'
                           => Joins(requests[u][1])'
                      /\ crossed = {} => InLine'
  <2>1. OrderInv'
    <3>1. ASSUME loadedAt = clears, crossed = {}
          PROVE  InLine' /\ \A u \in Slot : ~Has(u, {"poll", "more"})'
      <4>1. Fresh
        BY <3>1 DEF Fresh
      <4>2. QED BY <1>1, <1>2, <1>8, <3>1, <4>1, AloneEnds
    <3>2. QED BY <1>2, <3>1 DEF OrderInv
  <2>2. ListInv'
    BY <1>2, <1>8 DEF ListInv, Fresh
  <2>3. QED BY <1>7, <2>1, <2>2 DEF PhoneInv
<1>9. /\ newest <= log.sequence /\ Whole /\ Joins(r)
      /\ \A u \in Slot : Has(u, {"poll", "more"}) => Joins(requests[u][1])
  BY <1>1, <1>8 DEF PhoneInv, ListInv
<1>10. PICK n \in Nat, about \in Nat :
         n = Len(r.rows) /\ about = r.about /\ oldest <= about /\ about <= newest
         /\ oldest # NoId /\ Upward(r.rows, about)
  BY <1>1, <1>4, <1>9 DEF Joins
<1>11. /\ IdsOf(r.rows) = (about + 1) .. (about + n)
       /\ \A i \in 1 .. n : r.rows[i].id = about + i /\ r.rows[i] = RowAt(about + i)
       /\ n # 0 => about + n <= log.sequence
  <2>1. LogInv
    BY DEF PhoneInv
  <2>2. /\ IdsOf(r.rows) = (about + 1) .. (about + Len(r.rows))
        /\ \A i \in 1 .. Len(r.rows) :
             r.rows[i].id = about + i /\ r.rows[i] = RowAt(about + i)
        /\ r.rows # <<>> => about + Len(r.rows) <= log.sequence
    BY <1>1, <1>10, <2>1, UpwardEnds
  <2>3. n # 0 => r.rows # <<>>
    BY <1>10
  <2>4. QED BY <1>10, <2>2, <2>3
<1> HIDE DEF r
<1>12. \A i \in 1 .. n :
         rows[i].id = about + n - i + 1 /\ rows[i] = RowAt(about + n - i + 1)
  <2>1. ASSUME NEW i \in 1 .. n
        PROVE  rows[i].id = about + n - i + 1 /\ rows[i] = RowAt(about + n - i + 1)
    <3>1. n - i + 1 \in 1 .. n /\ about + (n - i + 1) = about + n - i + 1
      OBVIOUS
    <3>2. rows[i] = r.rows[n - i + 1]
      BY <1>3, <1>10
    <3>3. QED BY <1>11, <3>1, <3>2
  <2>2. QED BY <2>1
<1>13. IdsOf(rows) = (about + 1) .. (about + n)
  <2>1. IdsOf(rows) = {rows[i].id : i \in 1 .. n}
    BY <1>3, <1>10, IdsAre
  <2>2. ASSUME NEW k \in (about + 1) .. (about + n)
        PROVE  \E i \in 1 .. n : rows[i].id = k
    <3>1. about + n - k + 1 \in 1 .. n /\ about + n - (about + n - k + 1) + 1 = k
      OBVIOUS
    <3>2. QED BY <1>12, <3>1
  <2>3. ASSUME NEW i \in 1 .. n PROVE rows[i].id \in (about + 1) .. (about + n)
    <3>1. about + n - i + 1 \in (about + 1) .. (about + n)
      OBVIOUS
    <3>2. QED BY <1>12, <3>1
  <2>4. QED BY <2>1, <2>2, <2>3
<1>14. /\ newest' = IF n # 0 /\ about + n > newest THEN about + n ELSE newest
       /\ oldest' = oldest
  <2>1. newest' \in {newest} \cup IdsOf(rows)
        /\ \A k \in {newest} \cup IdsOf(rows) : k <= newest'
    BY <1>2, <1>3, <1>4, NewestIs
  <2>2. newest' = IF n # 0 /\ about + n > newest THEN about + n ELSE newest
    <3>1. n # 0 => about + n \in IdsOf(rows)
      BY <1>13
    <3>2. \A k \in IdsOf(rows) : k \in Nat /\ n # 0 /\ k <= about + n
      BY <1>13
    <3>3. PICK new : new = newest'
      OBVIOUS
    <3>4. new \in Nat /\ newest <= new /\ (n # 0 => about + n <= new)
      BY <1>4, <2>1, <3>1, <3>2, <3>3
    <3>5. new = newest \/ (n # 0 /\ new <= about + n)
      BY <2>1, <3>2, <3>3
    <3>6. new = IF n # 0 /\ about + n > newest THEN about + n ELSE newest
      BY <1>4, <3>4, <3>5
    <3>7. QED BY <3>3, <3>6
  <2>3. oldest' = oldest
    <3>1. CASE rows = <<>>
      BY <1>2, <3>1 DEF OldestOf
    <3>2. CASE rows # <<>>
      <4>1. /\ oldest' \in ({oldest} \cup IdsOf(rows)) \ {NoId}
            /\ \A k \in ({oldest} \cup IdsOf(rows)) \ {NoId} : oldest' <= k
        BY <1>2, <1>3, <1>4, <3>2, OldestIs
      <4>2. \A k \in IdsOf(rows) : k > oldest
        BY <1>4, <1>10, <1>13
      <4>3. QED BY <1>4, <1>10, <4>1, <4>2
    <3>3. QED BY <3>1, <3>2
  <2>4. QED BY <2>2, <2>3
<1>15. newest' <= log.sequence
  BY <1>9, <1>11, <1>14
<1>16. Whole'
  <2>1. ASSUME NEW id \in oldest .. newest'
        PROVE  \E i \in 1 .. Len(shown') : shown'[i] = RowAt(id)
    <3>1. CASE id <= newest
      <4>1. PICK i \in 1 .. Len(shown) : shown[i] = RowAt(id)
        BY <1>4, <1>9, <1>10, <1>14, <2>1, <3>1 DEF Whole
      <4>2. /\ Len(rows) + i \in 1 .. Len(rows) + Len(shown)
            /\ ~(Len(rows) + i <= Len(rows)) /\ Len(rows) + i - Len(rows) = i
        BY <1>5
      <4>3. shown'[Len(rows) + i] = shown[i]
        BY <1>5, <4>2
      <4>4. QED BY <1>5, <4>1, <4>2, <4>3
    <3>2. CASE ~(id <= newest)
      <4>1. PICK i \in 1 .. n : about + n - i + 1 = id
        <5>1. about + n - id + 1 \in 1 .. n /\ about + n - (about + n - id + 1) + 1 = id
          <6>1. id \in Int /\ id > newest /\ id <= newest'
            BY <1>4, <2>1, <3>2
          <6>2. n # 0 /\ newest' = about + n
            BY <1>4, <1>14, <6>1
          <6>3. id > about /\ id <= about + n
            BY <1>4, <1>10, <6>1, <6>2
          <6>4. QED BY <6>1, <6>3
        <5>2. QED BY <5>1
      <4>2. rows[i] = RowAt(id) /\ n = Len(rows)
        BY <1>3, <1>10, <1>12, <4>1
      <4>3. i \in 1 .. Len(rows) + Len(shown) /\ i <= Len(rows)
        BY <1>5, <4>1, <4>2
      <4>4. shown'[i] = rows[i]
        BY <1>5, <4>3
      <4>5. QED BY <1>5, <4>2, <4>3, <4>4
    <3>3. QED BY <3>1, <3>2
  <2>2. QED BY <1>2, <1>14, <2>1 DEF Whole, RowAt
<1>17. ASSUME NEW u \in Slot, Has(u, {"poll", "more"})' PROVE Joins(requests[u][1])'
  <2>1. requests'[u] = requests[u] /\ Joins(requests[u][1])
    BY <1>2, <1>9, <1>17, OthersStay DEF Has
  <2>2. oldest' .. newest' = oldest .. newest' /\ newest <= newest'
    BY <1>4, <1>10, <1>14
  <2>3. \A k \in oldest .. newest : k \in oldest' .. newest'
    BY <1>4, <1>10, <1>14
  <2>4. QED BY <1>2, <1>14, <2>1, <2>3 DEF Joins, Upward, Downward, RowAt
<1>18. ASSUME crossed = {} PROVE InLine'
  <2>1. InLine /\ about = newest
    BY <1>1, <1>8, <1>10, <1>18 DEF PhoneInv, OrderInv, Fresh, Ends, r
  <2>2. newest' = newest + n /\ Len(rows) = n
    BY <1>3, <1>4, <1>10, <1>14, <2>1
  <2>3. shown # <<>> /\ Len(shown) = newest - oldest + 1
    BY <1>4, <1>10, <2>1 DEF InLine
  <2>4. ASSUME NEW i \in 1 .. Len(shown') PROVE shown'[i].id = newest' - i + 1
    <3>1. CASE i <= n
      <4>1. i \in 1 .. n /\ i \in 1 .. Len(rows) + Len(shown)
        BY <1>5, <2>4, <3>1
      <4>2. shown'[i] = rows[i]
        BY <1>5, <2>2, <3>1, <4>1
      <4>3. rows[i].id = about + n - i + 1
        BY <1>12, <4>1
      <4>4. QED BY <2>1, <2>2, <4>2, <4>3
    <3>2. CASE ~(i <= n)
      <4>1. i - n \in 1 .. Len(shown) /\ i \in 1 .. Len(rows) + Len(shown)
        BY <1>5, <2>2, <2>4, <3>2
      <4>2. shown'[i] = shown[i - n]
        BY <1>5, <2>2, <3>2, <4>1
      <4>3. shown[i - n].id = newest - (i - n) + 1
        BY <2>1, <4>1 DEF InLine
      <4>4. newest - (i - n) + 1 = newest + n - i + 1
        <5>1. PICK top \in Int : top = newest
          BY <1>4
        <5>2. i \in Int
          OBVIOUS
        <5>3. top - (i - n) + 1 = top + n - i + 1
          BY <5>2
        <5>4. QED BY <5>1, <5>3
      <4>5. shown'[i].id = newest + n - i + 1
        BY <4>2, <4>3, <4>4
      <4>6. PICK top \in Int : top = newest /\ newest' = top + n
        BY <1>4, <2>2
      <4>7. i \in Int /\ shown'[i].id = top + n - i + 1
        BY <4>5, <4>6
      <4>8. QED BY <4>6, <4>7
    <3>3. QED BY <3>1, <3>2
  <2>5. Len(shown') = newest' - oldest' + 1
    BY <1>4, <1>5, <1>14, <2>2, <2>3
  <2>6. QED BY <2>4, <2>5 DEF InLine
<1>19. QED BY <1>15, <1>16, <1>17, <1>18

LEMMA MoreKeeps ==
  ASSUME PhoneInv, NEW s \in Slot, MoreLoaded(s)
  PROVE  PhoneInv'
<1> DEFINE r == requests[s][1]
           rows == r.rows
<1>1. /\ r \in Requested /\ rows \in Seq(Numbered) /\ r.about \in Nat /\ r.kind = "more"
      /\ Has(s, {"poll", "more"}) /\ Has(s, ListKinds)
  BY RequestIs DEF MoreLoaded, Answered, Requested, Has, ListKinds
<1>2. /\ shown' = shown \o rows /\ newest' = NewestOf(newest, rows)
      /\ oldest' = OldestOf(oldest, rows) /\ Done(s)
      /\ UNCHANGED <<log, arrived, live, detail, loads, clears, loadedAt, crossed>>
  BY DEF MoreLoaded, store, history
<1> HIDE DEF rows
<1>3. rows = r.rows
  BY DEF rows
<1>4. /\ shown \in Seq(Numbered) /\ newest \in Nat /\ oldest \in 0 .. newest
      /\ (oldest = NoId => newest = NoId) /\ (shown = <<>> <=> oldest = NoId)
      /\ live \in BOOLEAN /\ loadedAt \in 0 .. clears
  BY DEF PhoneInv, PageInv
<1>5. /\ shown' \in Seq(Numbered) /\ Len(shown') = Len(shown) + Len(rows)
      /\ \A i \in 1 .. Len(shown) + Len(rows) :
           shown'[i] = IF i <= Len(shown) THEN shown[i] ELSE rows[i - Len(shown)]
      /\ Len(rows) \in Nat /\ Len(shown) \in Nat
  BY <1>1, <1>2, <1>4, ConcatProperties
<1>6. shown' = <<>> <=> (rows = <<>> /\ oldest = NoId)
  BY <1>1, <1>4, <1>5
<1>7. LogInv' /\ requests' \in Slots' /\ PageInv' /\ AloneInv' /\ LoadInv'
  BY <1>1, <1>2, <1>4, <1>5, <1>6, TakenKeeps
<1>8. SUFFICES ASSUME Fresh
               PROVE  /\ newest' <= log.sequence /\ Whole'
                      /\ \A u \in Slot : Has(u, {"poll", "more"})'
                           => Joins(requests[u][1])'
                      /\ crossed = {} => InLine'
  <2>1. OrderInv'
    <3>1. ASSUME loadedAt = clears, crossed = {}
          PROVE  InLine' /\ \A u \in Slot : ~Has(u, {"poll", "more"})'
      <4>1. Fresh
        BY <3>1 DEF Fresh
      <4>2. QED BY <1>1, <1>2, <1>8, <3>1, <4>1, AloneEnds
    <3>2. QED BY <1>2, <3>1 DEF OrderInv
  <2>2. ListInv'
    BY <1>2, <1>8 DEF ListInv, Fresh
  <2>3. QED BY <1>7, <2>1, <2>2 DEF PhoneInv
<1>9. /\ newest <= log.sequence /\ Whole /\ Joins(r)
      /\ \A u \in Slot : Has(u, {"poll", "more"}) => Joins(requests[u][1])
  BY <1>1, <1>8 DEF PhoneInv, ListInv
<1>10. PICK n \in Nat, about \in Nat :
         n = Len(rows) /\ about = r.about /\ oldest <= about /\ about <= newest
         /\ oldest # NoId /\ Downward(rows, about)
  BY <1>1, <1>3, <1>4, <1>5, <1>9 DEF Joins
<1>11. /\ IdsOf(rows) = (about - n) .. (about - 1)
       /\ \A i \in 1 .. n : rows[i].id = about - i /\ rows[i] = RowAt(about - i)
       /\ n # 0 => about - n >= 1
  <2>1. LogInv /\ rows \in Seq(Numbered) /\ Downward(rows, about)
    BY <1>1, <1>10 DEF PhoneInv
  <2>2. /\ IdsOf(rows) = (about - Len(rows)) .. (about - 1)
        /\ \A i \in 1 .. Len(rows) :
             rows[i].id = about - i /\ rows[i] = RowAt(about - i)
        /\ rows # <<>> => about - Len(rows) >= 1
    BY <2>1, DownwardEnds
  <2>3. n # 0 => rows # <<>>
    BY <1>10
  <2>4. QED BY <1>10, <2>2, <2>3
<1> HIDE DEF r
<1>12. /\ newest' = newest
       /\ oldest' = IF n # 0 /\ about - n < oldest THEN about - n ELSE oldest
  <2>1. newest' = newest
    <3>1. newest' \in {newest} \cup IdsOf(rows)
          /\ \A k \in {newest} \cup IdsOf(rows) : k <= newest'
      BY <1>1, <1>2, <1>4, NewestIs
    <3>2. \A k \in IdsOf(rows) : k < newest
      BY <1>4, <1>10, <1>11
    <3>3. QED BY <1>4, <3>1, <3>2
  <2>2. CASE n = 0
    <3>1. rows = <<>>
      <4>1. rows \in Seq(Numbered) /\ Len(rows) = 0
        BY <1>1, <1>3, <1>10, <2>2
      <4>2. QED BY <4>1
    <3>2. oldest' = oldest
      BY <1>2, <3>1 DEF OldestOf
    <3>3. QED BY <2>1, <2>2, <3>2
  <2>3. CASE n # 0
    <3>1. rows # <<>>
      BY <1>1, <1>10, <2>3
    <3>2. /\ oldest' \in ({oldest} \cup IdsOf(rows)) \ {NoId}
          /\ \A k \in ({oldest} \cup IdsOf(rows)) \ {NoId} : oldest' <= k
      BY <1>1, <1>2, <1>4, <3>1, OldestIs
    <3>3. about - n \in IdsOf(rows) /\ about - n # NoId
          /\ \A k \in IdsOf(rows) : about - n <= k
      BY <1>11, <2>3 DEF NoId
    <3>4. oldest' = IF about - n < oldest THEN about - n ELSE oldest
      BY <1>4, <1>10, <1>11, <3>2, <3>3
    <3>5. QED BY <2>1, <2>3, <3>4
  <2>4. QED BY <2>2, <2>3
<1>13. /\ oldest' \in Nat /\ oldest' # NoId /\ oldest' <= oldest /\ oldest \in Nat
       /\ NoId = 0
  BY <1>4, <1>10, <1>11, <1>12 DEF NoId
<1>14. Whole'
  <2>1. ASSUME NEW id \in oldest' .. newest
        PROVE  \E i \in 1 .. Len(shown') : shown'[i] = RowAt(id)
    <3>1. CASE id >= oldest
      <4>1. PICK i \in 1 .. Len(shown) : shown[i] = RowAt(id)
        BY <1>9, <1>10, <1>13, <2>1, <3>1 DEF Whole
      <4>2. i \in 1 .. Len(shown) + Len(rows) /\ i <= Len(shown)
        BY <1>5
      <4>3. shown'[i] = shown[i]
        BY <1>5, <4>2
      <4>4. QED BY <1>5, <4>1, <4>2, <4>3
    <3>2. CASE ~(id >= oldest)
      <4>1. PICK i \in 1 .. n : about - i = id
        <5>1. about - id \in 1 .. n /\ about - (about - id) = id
          BY <1>10, <1>12, <1>13, <2>1, <3>2
        <5>2. QED BY <5>1
      <4>2. rows[i] = RowAt(id)
        BY <1>11, <4>1
      <4>3. /\ Len(shown) + i \in 1 .. Len(shown) + Len(rows)
            /\ ~(Len(shown) + i <= Len(shown)) /\ Len(shown) + i - Len(shown) = i
        BY <1>5, <1>10, <4>1
      <4>4. shown'[Len(shown) + i] = rows[i]
        BY <1>5, <4>3
      <4>5. QED BY <1>5, <4>2, <4>3, <4>4
    <3>3. QED BY <1>13, <2>1, <3>1, <3>2
  <2>2. QED BY <1>2, <1>12, <2>1 DEF Whole, RowAt
<1>15. ASSUME NEW u \in Slot, Has(u, {"poll", "more"})' PROVE Joins(requests[u][1])'
  <2>1. requests'[u] = requests[u] /\ Joins(requests[u][1])
    BY <1>2, <1>9, <1>15, OthersStay DEF Has
  <2>2. \A k \in oldest .. newest : k \in oldest' .. newest'
    BY <1>4, <1>12, <1>13
  <2>3. QED BY <1>2, <1>13, <2>1, <2>2 DEF Joins, Upward, Downward, RowAt
<1>16. ASSUME crossed = {} PROVE InLine'
  <2>1. InLine /\ about = oldest
    BY <1>1, <1>8, <1>10, <1>16 DEF PhoneInv, OrderInv, Fresh, Ends, r
  <2>2. shown # <<>> /\ Len(shown) = newest - oldest + 1
    BY <1>4, <1>10, <2>1 DEF InLine
  <2>3. ASSUME NEW i \in 1 .. Len(shown') PROVE shown'[i].id = newest - i + 1
    <3>1. CASE i <= Len(shown)
      <4>1. i \in 1 .. Len(shown) /\ i \in 1 .. Len(shown) + Len(rows)
        BY <1>5, <2>3, <3>1
      <4>2. shown'[i] = shown[i]
        BY <1>5, <3>1, <4>1
      <4>3. QED BY <2>1, <4>1, <4>2 DEF InLine
    <3>2. CASE ~(i <= Len(shown))
      <4>1. i - Len(shown) \in 1 .. n /\ i \in 1 .. Len(shown) + Len(rows)
        BY <1>5, <1>10, <2>3, <3>2
      <4>2. shown'[i] = rows[i - Len(shown)]
        BY <1>5, <3>2, <4>1
      <4>3. rows[i - Len(shown)].id = about - (i - Len(shown))
        BY <1>11, <4>1
      <4>4. about - (i - Len(shown)) = newest - i + 1
        BY <1>4, <1>5, <1>13, <2>1, <2>2, <2>3
      <4>5. QED BY <4>2, <4>3, <4>4
    <3>3. QED BY <3>1, <3>2
  <2>4. Len(shown') = newest - oldest' + 1
    <3>1. oldest' = oldest - n
      BY <1>10, <1>12, <1>13, <2>1
    <3>2. Len(shown') = (newest - oldest + 1) + n
      BY <1>5, <1>10, <2>2
    <3>3. newest - (oldest - n) + 1 = (newest - oldest + 1) + n
      BY <1>4, <1>13
    <3>4. QED BY <3>1, <3>2, <3>3
  <2>5. QED BY <1>12, <2>3, <2>4 DEF InLine
<1>17. QED BY <1>9, <1>12, <1>14, <1>15, <1>16

-----------------------------------------------------------------------------
(* The theorems.                                                           *)

LEMMA PhoneStarts ==
  ASSUME InboxAssumption, Init
  PROVE  PhoneInv
<1>1. LogInv
  BY DEF Init, EmptyLog, LogInv
<1>2. requests \in Slots
  BY DEF Init, Slots
<1>3. PageInv
  <2>1. MaxLoads \in Nat /\ MaxClears \in Nat
    BY DEF InboxAssumption
  <2>2. <<>> \in Single
    BY DEF Single
  <2>3. shown \in Seq(Numbered) /\ detail \in Single
    BY <2>2 DEF Init
  <2>0. live \in BOOLEAN
    BY DEF Init
  <2>4. /\ newest \in Nat /\ oldest \in 0 .. newest
        /\ shown = <<>> /\ oldest = NoId /\ newest = NoId
    BY DEF Init, NoId
  <2>5. /\ loads \in 0 .. MaxLoads /\ clears \in 0 .. MaxClears
        /\ loadedAt \in 0 .. clears /\ crossed \subseteq ListKinds
    BY <2>1 DEF Init
  <2>6. QED BY <2>0, <2>3, <2>4, <2>5 DEF PageInv
<1>4. AloneInv /\ LoadInv /\ ListInv /\ OrderInv
  BY <1>1 DEF Init, AloneInv, LoadInv, ListInv, OrderInv, Has,
                 Whole, InLine, NoId, LogInv
<1>5. QED BY <1>1, <1>2, <1>3, <1>4 DEF PhoneInv

LEMMA PhoneKeeps ==
  ASSUME InboxAssumption, PhoneInv, [Next]_vars
  PROVE  PhoneInv'
<1>1. CASE Arrive \/ Clear \/ CloseDetail
  BY <1>1, StoreKept
<1>2. ASSUME NEW s \in Slot,
             \/ SendLoad(s) \/ SendPoll(s) \/ SendMore(s) \/ SendReply(s)
             \/ \E i \in DOMAIN shown : SendOpen(s, i)
      PROVE  PhoneInv'
  BY <1>2, SendersSend, SentKeeps
<1>3. ASSUME NEW s \in Slot, Answer(s) PROVE PhoneInv'
  BY <1>3, AnswerKeeps
<1>4. ASSUME NEW s \in Slot, Received(s) \/ Fails(s) PROVE PhoneInv'
  BY <1>4, LoadedKeeps, PolledKeeps, MoreKeeps, RepliedKeeps, DroppedKeeps DEF Received
<1>5. CASE UNCHANGED vars
  <2>1. UNCHANGED <<log, arrived, list, detail, requests, loads, clears,
                    loadedAt, crossed>>
    BY <1>5 DEF vars, store, history
  <2>2. LogInv' /\ Grown
    BY <2>1, SameGrows DEF PhoneInv
  <2>3. requests' \in Slots' /\ PageInv'
    BY <2>1 DEF PhoneInv, Slots, Requested, PageInv, list
  <2>4. QED BY <2>1, <2>2, <2>3, StoreKeeps DEF PhoneInv
<1>6. QED BY <1>1, <1>2, <1>3, <1>4, <1>5 DEF Next

\* The inductive invariant of the page and its requests: what the page knows
\* of the table, and what each request under way was asked from.
THEOREM PhoneInvariant == Spec => []PhoneInv
BY InboxAssumption, PhoneStarts, PhoneKeeps, PTL DEF Spec

\* A row between the oldest and the newest id is in the list (app.js, the poll
\* and "load more"), for any number of requests that overlap, fail or overtake
\* each other, and any page and poll limits, while no load crosses them and the
\* log is not cleared under the page.
THEOREM InboxKeepsRows == Spec => []InboxHasNoGap
<1>1. ASSUME PhoneInv PROVE InboxHasNoGap
  <2>1. SUFFICES ASSUME loadedAt = clears, "load" \notin crossed,
                        NEW id \in DOMAIN log.rows, oldest <= id, id <= newest,
                        oldest # NoId
                 PROVE  \E i \in DOMAIN shown :
                          shown[i] = [id |-> id, content |-> log.rows[id]]
    BY DEF InboxHasNoGap, Current
  <2>2. Whole
    BY <1>1, <2>1 DEF PhoneInv, ListInv, Fresh
  <2>3. id \in oldest .. newest
    BY <1>1, <2>1 DEF PhoneInv, PageInv, LogInv
  <2>4. DOMAIN shown = 1 .. Len(shown)
    BY <1>1 DEF PhoneInv, PageInv
  <2>5. QED BY <2>1, <2>2, <2>3, <2>4 DEF Whole, RowAt
<1>2. QED BY <1>1, PhoneInvariant, PTL

\* The list is newest first with no row twice (app.js, renderMessages), for any
\* number of messages, while its requests come one at a time and the log is not
\* cleared under the page.
THEOREM InboxStaysInOrder == Spec => []InboxInOrder
<1>1. ASSUME PhoneInv PROVE InboxInOrder
  <2>1. SUFFICES ASSUME loadedAt = clears, crossed = {},
                        NEW i \in DOMAIN shown, NEW k \in DOMAIN shown, i < k
                 PROVE  shown[i].id > shown[k].id
    BY DEF InboxInOrder, Current
  <2>2. InLine
    BY <1>1, <2>1 DEF PhoneInv, OrderInv
  <2>3. i \in 1 .. Len(shown) /\ k \in 1 .. Len(shown) /\ newest \in Nat
    BY <1>1, <2>1 DEF PhoneInv, PageInv
  <2>4. shown[i].id = newest - i + 1 /\ shown[k].id = newest - k + 1
    BY <2>2, <2>3 DEF InLine
  <2>5. QED BY <2>1, <2>3, <2>4
<1>2. QED BY <1>1, PhoneInvariant, PTL

-----------------------------------------------------------------------------
(* Types.                                                                  *)

ArrivedInv == arrived \in 0 .. MaxArrivals

LEMMA ArrivedKeeps ==
  ASSUME InboxAssumption, ArrivedInv, [Next]_vars
  PROVE  ArrivedInv'
<1>1. MaxArrivals \in Nat /\ arrived \in Nat /\ arrived <= MaxArrivals
  BY DEF InboxAssumption, ArrivedInv
<1>2. arrived' = arrived \/ (arrived < MaxArrivals /\ arrived' = arrived + 1)
  <2>1. CASE Arrive \/ Clear \/ CloseDetail
    BY <2>1 DEF Arrive, Clear, CloseDetail, store
  <2>2. ASSUME NEW s \in Slot,
               \/ SendLoad(s) \/ SendPoll(s) \/ SendMore(s) \/ SendReply(s)
               \/ \E i \in DOMAIN shown : SendOpen(s, i)
        PROVE  arrived' = arrived
    BY <2>2 DEF SendLoad, SendPoll, SendMore, SendReply, SendOpen, store
  <2>3. ASSUME NEW s \in Slot, Answer(s)
        PROVE  arrived' = arrived \/ (arrived < MaxArrivals /\ arrived' = arrived + 1)
    BY <2>3 DEF Answer, store
  <2>4. ASSUME NEW s \in Slot, Received(s) \/ Fails(s) PROVE arrived' = arrived
    BY <2>4 DEF Received, Loaded, Polled, MoreLoaded, Opened, Replied, Fails, store
  <2>5. CASE UNCHANGED vars
    BY <2>5 DEF vars, store
  <2>6. QED BY <2>1, <2>2, <2>3, <2>4, <2>5 DEF Next
<1>3. QED BY <1>1, <1>2 DEF ArrivedInv

LEMMA TypesFollow ==
  ASSUME PhoneInv, ArrivedInv
  PROVE  TypeOK
<1>1. ASSUME NEW d \in Single PROVE d = <<>> \/ (Len(d) = 1 /\ d[1] \in Row)
  <2>1. d \in Seq(Numbered) /\ Len(d) <= 1
    BY DEF Single
  <2>2. Numbered \subseteq Row
    BY DEF Numbered
  <2>3. CASE Len(d) = 0
    BY <2>1, <2>3
  <2>4. CASE Len(d) # 0
    <3>0. PICK k \in Nat : k = Len(d)
      BY <2>1
    <3>1. k = 1
      <4>1. k <= 1 /\ k # 0
        BY <2>1, <2>4, <3>0
      <4>2. QED BY <4>1
    <3>2. d[1] \in Numbered
      <4>1. 1 \in 1 .. Len(d)
        BY <3>0, <3>1
      <4>2. d \in Seq(Numbered)
        BY <2>1
      <4>3. QED BY <4>1, <4>2
    <3>3. QED BY <2>2, <3>0, <3>1, <3>2
  <2>5. QED BY <2>3, <2>4
<1>2. shown \in Seq(Row)
  BY DEF PhoneInv, PageInv, Numbered
<1>3. \A s \in Slot : requests[s] # <<>> =>
        requests[s][1].kind \in ListKinds \cup {"open", "reply"}
  BY RequestIs DEF Requested, Kinds
<1>4. \A id \in DOMAIN log.rows : id \in 1 .. log.sequence
  BY DEF PhoneInv, LogInv
<1>5. detail = <<>> \/ (Len(detail) = 1 /\ detail[1] \in Row)
  BY <1>1 DEF PhoneInv, PageInv
<1>6. PageInv
  BY DEF PhoneInv
<1>7. QED BY <1>2, <1>3, <1>4, <1>5, <1>6 DEF PageInv, ArrivedInv, TypeOK

\* Every variable of the page keeps its type, and the list is empty exactly
\* while the page knows no oldest id.
THEOREM InboxTypeOK == Spec => []TypeOK
<1>1. Init => ArrivedInv
  BY InboxAssumption DEF Init, ArrivedInv, InboxAssumption
<1>2. Spec => []ArrivedInv
  BY <1>1, ArrivedKeeps, InboxAssumption, PTL DEF Spec
<1>3. QED BY <1>2, TypesFollow, PhoneInvariant, PTL
=============================================================================
