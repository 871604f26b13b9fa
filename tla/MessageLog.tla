----------------------------- MODULE MessageLog -----------------------------
(***************************************************************************)
(* The messages table (models/messages.py, models/db.py): rows under ids   *)
(* that SQLite gives out in order and remembers in sqlite_sequence.  A row *)
(* is what it contains; two rows of an incoming message never contain the  *)
(* same (the fingerprint is UNIQUE), tickets and outgoing messages may.    *)
(***************************************************************************)
EXTENDS Naturals, Sequences, SequencesExt

EmptyLog == [rows |-> <<>>, sequence |-> 0]

NextId(log) == log.sequence + 1

Insert(log, content) ==
  [rows |-> [id \in DOMAIN log.rows \cup {NextId(log)} |->
               IF id = NextId(log) THEN content ELSE log.rows[id]],
   sequence |-> NextId(log)]

\* The fault of a fingerprint column that is not UNIQUE.
KnownNever(log, content) == FALSE

\* An incoming message is a duplicate when its fingerprint is in the table.
Known(log, content) == content \in Range(log.rows)

\* get_by_fingerprint.
IdOf(log, content) == CHOOSE id \in DOMAIN log.rows : log.rows[id] = content

\* The ids in order: the k-th has k - 1 of them below it.
InOrder(ids) ==
  [k \in 1 .. Cardinality(ids) |->
     CHOOSE id \in ids : Cardinality({i \in ids : i < id}) = k - 1]

Rows(log, ids) == [i \in DOMAIN ids |-> [id |-> ids[i], content |-> log.rows[ids[i]]]]

FirstOf(s, limit) == SubSeq(s, 1, IF Len(s) < limit THEN Len(s) ELSE limit)

\* The fault of asking for the newest rows first.
RowsSinceNewest(log, since, limit) ==
  Reverse(Rows(log,
    FirstOf(Reverse(InOrder({id \in DOMAIN log.rows : id > since})), limit)))

\* The fault of including the id asked from.
RowsSinceIncluded(log, since, limit) ==
  Rows(log, FirstOf(InOrder({id \in DOMAIN log.rows : id >= since}), limit))

\* list_since: oldest first.
RowsSince(log, since, limit) ==
  Rows(log, FirstOf(InOrder({id \in DOMAIN log.rows : id > since}), limit))

\* list_page: newest first, from the newest or from before an id.
RowsBefore(log, before, limit) ==
  Rows(log, FirstOf(Reverse(InOrder({id \in DOMAIN log.rows : id < before})), limit))

RowsNewest(log, limit) == RowsBefore(log, NextId(log), limit)

=============================================================================
