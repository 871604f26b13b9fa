----------------------- MODULE MessagePrintingProofs -----------------------
(***************************************************************************)
(* Proofs about the way from a message to its strip, for any messages,     *)
(* tickets and threads, any number of print stacks, clears and restarts.   *)
(***************************************************************************)
EXTENDS MessagePrinting, FiniteSetTheorems, TLAPS

-----------------------------------------------------------------------------
(* The inductive invariant: types.                                         *)

\* A job as the code makes them: only a ticket goes to the gate without a row,
\* what is looked up again was asked for, and a stored row has an id.
SoundJob ==
  {j \in Jobs :
     /\ j.at = "print" /\ j.id = NoId => j.content \in Ticket /\ j.again
     /\ j.at = "known" => j.again
     /\ j.at = "stored" => j.id # NoId}

HeldJob == {j \in SoundJob : j.at = "print"}

Hand == {<<>>} \cup {<<j>> : j \in SoundJob}
Busy == {t \in Runner : ~Idle(t)}

\* Ids are given out in order, and an incoming message has one row.
LogInv ==
  /\ log.sequence \in Nat
  /\ DOMAIN log.rows \subseteq 1 .. log.sequence
  /\ \A i \in DOMAIN log.rows : log.rows[i] \in Content
  /\ \A i, k \in DOMAIN log.rows :
       log.rows[i] = log.rows[k] /\ log.rows[i] \in Inbound => i = k

HandsInv ==
  /\ doing \in [Runner -> Hand] /\ IsFiniteSet(Busy)
  /\ held \in Seq(HeldJob) /\ stack \in Stack

CountsInv ==
  /\ owed \in [Content -> Nat] /\ tried \in [Content -> Nat]
  /\ unasked \in [Content -> Nat]
  /\ asks \in 0 .. MaxAsks /\ clears \in 0 .. MaxEvents /\ restarts \in 0 .. MaxEvents

RecordsInv ==
  /\ records \in Seq([id : Nat, content : Content, ok : BOOLEAN])
  /\ \A i \in 1 .. Len(records) : records[i].id \in DOMAIN log.rows

PrintingInv == LogInv /\ HandsInv /\ CountsInv /\ RecordsInv

-----------------------------------------------------------------------------
(* The log.                                                                *)

LEMMA InsertIs ==
  ASSUME LogInv, NEW c \in Content
  PROVE  /\ Insert(log, c).sequence = log.sequence + 1
         /\ NextId(log) = log.sequence + 1 /\ NextId(log) \notin DOMAIN log.rows
         /\ NextId(log) \in Nat \ {NoId}
         /\ DOMAIN Insert(log, c).rows = DOMAIN log.rows \cup {NextId(log)}
         /\ Insert(log, c).rows[NextId(log)] = c
         /\ \A i \in DOMAIN log.rows : Insert(log, c).rows[i] = log.rows[i]
<1>1. /\ NextId(log) = log.sequence + 1 /\ NextId(log) \notin DOMAIN log.rows
      /\ NextId(log) \in Nat \ {NoId}
  BY DEF LogInv, NextId, NoId
<1>2. QED BY <1>1 DEF Insert

\* Inserting what is a ticket, or a message that is not there, is sound.
LEMMA InsertKeeps ==
  ASSUME LogInv, PrintingAssumption, NEW c \in Content, c \in Inbound => ~Known(log, c),
         log' = Insert(log, c)
  PROVE  LogInv'
<1>1. /\ log'.sequence = log.sequence + 1 /\ NextId(log) = log.sequence + 1
      /\ NextId(log) \notin DOMAIN log.rows
      /\ DOMAIN log'.rows = DOMAIN log.rows \cup {NextId(log)}
      /\ log'.rows[NextId(log)] = c
      /\ \A i \in DOMAIN log.rows : log'.rows[i] = log.rows[i]
  BY InsertIs
<1>2. c \in Inbound => \A i \in DOMAIN log.rows : log.rows[i] # c
  BY DEF Known, Range
<1>3. log'.sequence \in Nat /\ DOMAIN log'.rows \subseteq 1 .. log'.sequence
  BY <1>1 DEF LogInv
<1>4. \A i \in DOMAIN log'.rows : log'.rows[i] \in Content
  BY <1>1 DEF LogInv
<1>5. \A i, k \in DOMAIN log'.rows :
        log'.rows[i] = log'.rows[k] /\ log'.rows[i] \in Inbound => i = k
  BY <1>1, <1>2 DEF LogInv
<1>6. QED BY <1>3, <1>4, <1>5 DEF LogInv

LEMMA EmptyIs ==
  EmptyLog.sequence = 0 /\ DOMAIN EmptyLog.rows = {}
BY DEF EmptyLog

\* A known content has the row IdOf finds.
LEMMA IdOfIs ==
  ASSUME NEW c, Known(log, c)
  PROVE  IdOf(log, c) \in DOMAIN log.rows /\ log.rows[IdOf(log, c)] = c
BY DEF Known, IdOf, Range

-----------------------------------------------------------------------------
(* The hands.                                                              *)

LEMMA InHandIs ==
  ASSUME HandsInv, NEW t \in Runner, ~Idle(t)
  PROVE  doing[t] = <<Job(t)>> /\ Job(t) \in SoundJob
BY DEF HandsInv, Hand, Idle, Job

LEMMA PlaceIs ==
  ASSUME HandsInv, NEW t \in Runner, NEW place, At(t, place)
  PROVE  ~Idle(t) /\ doing[t] = <<Job(t)>> /\ Job(t) \in SoundJob /\ Job(t).at = place
BY InHandIs DEF At, Idle, Job

LEMMA HandKeeps ==
  ASSUME HandsInv, NEW t \in Runner, NEW h \in Hand,
         doing' = [doing EXCEPT ![t] = h], held' \in Seq(HeldJob), stack' \in Stack
  PROVE  HandsInv'
<1>1. doing' \in [Runner -> Hand]
  BY DEF HandsInv
<1>2. Busy' \subseteq Busy \cup {t}
  BY DEF HandsInv, Busy, Idle
<1>3. IsFiniteSet(Busy \cup {t})
  BY FS_AddElement DEF HandsInv
<1>4. IsFiniteSet(Busy')
  BY <1>2, <1>3, FS_Subset
<1>5. QED BY <1>1, <1>4 DEF HandsInv

LEMMA BringKeeps ==
  ASSUME HandsInv, NEW t \in Runner, NEW job \in Jobs,
         job.id = NoId => job.content \in Ticket /\ job.again,
         Bring(t, job), stack' = stack
  PROVE  HandsInv'
<1> DEFINE brought == [job EXCEPT !.at = "print"]
<1>1. brought \in HeldJob /\ brought \in SoundJob
  BY DEF Jobs, HeldJob, SoundJob
<1>2. \/ doing' = [doing EXCEPT ![t] = <<brought>>] /\ held' = held
      \/ doing' = [doing EXCEPT ![t] = <<>>] /\ held' = Append(held, brought)
  BY DEF Bring
<1> HIDE DEF brought
<1>3. <<brought>> \in Hand /\ <<>> \in Hand
  BY <1>1 DEF Hand
<1>4. held' \in Seq(HeldJob) /\ stack' \in Stack
  BY <1>1, <1>2 DEF HandsInv
<1>5. QED BY <1>2, <1>3, <1>4, HandKeeps

-----------------------------------------------------------------------------
(* Each action keeps the types.                                            *)

\* An action that leaves the tables and counts as they are.
LEMMA OnlyHands ==
  ASSUME PrintingInv, HandsInv', UNCHANGED <<log, records, owed, tried, unasked>>,
         asks' \in 0 .. MaxAsks, clears' = clears, restarts' = restarts
  PROVE  PrintingInv'
BY DEF PrintingInv, LogInv, CountsInv, RecordsInv

LEMMA OweKeeps ==
  ASSUME CountsInv, NEW c \in Content, Owe(c)
  PROVE  owed' \in [Content -> Nat]
BY DEF CountsInv, Owe

LEMMA AskKeeps ==
  ASSUME CountsInv, PrintingAssumption, Ask
  PROVE  asks' \in 0 .. MaxAsks
BY DEF CountsInv, PrintingAssumption, Ask

LEMMA InsertKeepsRecords ==
  ASSUME LogInv, RecordsInv, NEW c \in Content, log' = Insert(log, c), records' = records
  PROVE  RecordsInv'
<1>1. DOMAIN log.rows \subseteq DOMAIN log'.rows
  BY InsertIs
<1>2. QED BY <1>1 DEF RecordsInv

LEMMA ReceiveKeeps ==
  ASSUME PrintingInv, PrintingAssumption, NEW t \in Thread, NEW m \in Inbound,
         NEW force \in BOOLEAN, ReceiveNew(t, m, force) \/ ReceiveDuplicate(t, m, force)
  PROVE  PrintingInv'
<1>1. LogInv /\ HandsInv /\ CountsInv /\ RecordsInv /\ m \in Content /\ t \in Runner
  BY DEF PrintingInv, Content, Runner
<1>2. CASE ReceiveNew(t, m, force)
  <2> DEFINE job == NewJob("stored", NextId(log), m, FALSE, force)
  <2>1. /\ ~Known(log, m) /\ log' = Insert(log, m) /\ Ask
        /\ doing' = [doing EXCEPT ![t] = <<job>>] /\ held' = held /\ stack' = stack
        /\ Owe(m) \/ owed' = owed
        /\ UNCHANGED <<records, tried, unasked, clears, restarts>>
    BY <1>2 DEF ReceiveNew
  <2>2. NextId(log) \in Nat /\ NextId(log) # NoId
    BY <1>1, InsertIs
  <2>3. job \in Jobs /\ job.at = "stored" /\ job.id = NextId(log)
    BY <1>1, <2>2, force \in BOOLEAN DEF HandsInv, NewJob, Jobs
  <2> HIDE DEF job
  <2>4. <<job>> \in Hand
    BY <2>2, <2>3 DEF Hand, SoundJob
  <2>5. HandsInv'
    BY <1>1, <2>1, <2>4, HandKeeps DEF HandsInv
  <2>6. LogInv' /\ RecordsInv'
    BY <1>1, <2>1, InsertKeeps, InsertKeepsRecords
  <2>7. CountsInv'
    BY <1>1, <2>1, OweKeeps, AskKeeps DEF CountsInv
  <2>8. QED BY <2>5, <2>6, <2>7 DEF PrintingInv
<1>3. CASE ReceiveDuplicate(t, m, force)
  <2> DEFINE job == NewJob("known", NoId, m, TRUE, force)
  <2>1. /\ Ask /\ held' = held /\ stack' = stack
        /\ UNCHANGED <<log, records, tried, unasked, clears, restarts>>
        /\ \/ doing' = [doing EXCEPT ![t] = <<job>>] /\ Owe(m)
           \/ doing' = doing /\ owed' = owed
    BY <1>3 DEF ReceiveDuplicate, tables
  <2>2. job \in Jobs /\ job.at = "known" /\ job.again
    BY <1>1, force \in BOOLEAN DEF HandsInv, NewJob, Jobs, NoId
  <2> HIDE DEF job
  <2>3. <<job>> \in Hand
    BY <2>2 DEF Hand, SoundJob
  <2>4. HandsInv'
    <3>1. doing' = [doing EXCEPT ![t] = <<job>>] => HandsInv'
      BY <1>1, <2>1, <2>3, HandKeeps DEF HandsInv
    <3>2. doing' = doing => HandsInv'
      BY <1>1, <2>1 DEF HandsInv, Busy, Idle
    <3>3. QED BY <2>1, <3>1, <3>2
  <2>5. CountsInv'
    BY <1>1, <2>1, OweKeeps, AskKeeps DEF CountsInv
  <2>6. LogInv' /\ RecordsInv'
    BY <1>1, <2>1 DEF LogInv, RecordsInv
  <2>7. QED BY <2>4, <2>5, <2>6 DEF PrintingInv
<1>4. QED BY <1>2, <1>3

LEMMA AskedKeeps ==
  ASSUME PrintingInv, PrintingAssumption, NEW t \in Thread,
         \/ \E id \in DOMAIN log.rows : AskReprint(t, id)
         \/ \E k \in Ticket : AskTicket(t, k)
  PROVE  PrintingInv'
<1>1. LogInv /\ HandsInv /\ CountsInv /\ RecordsInv /\ t \in Runner
  BY DEF PrintingInv, Runner
<1>2. PICK id \in Nat, c \in Content :
        /\ Ask /\ Owe(c) /\ Bring(t, NewJob("print", id, c, TRUE, FALSE))
        /\ UNCHANGED <<log, records, stack, tried, unasked, clears, restarts>>
        /\ id = NoId => c \in Ticket
  <2>1. CASE \E id \in DOMAIN log.rows : AskReprint(t, id)
    <3>1. PICK id \in DOMAIN log.rows : AskReprint(t, id)
      BY <2>1
    <3>2. id \in Nat /\ id # NoId /\ log.rows[id] \in Content
      BY <1>1 DEF LogInv, NoId
    <3>3. QED BY <3>1, <3>2 DEF AskReprint, tables
  <2>2. CASE \E k \in Ticket : AskTicket(t, k)
    BY <2>2 DEF AskTicket, tables, NoId, Content
  <2>3. QED BY <2>1, <2>2
<1> DEFINE job == NewJob("print", id, c, TRUE, FALSE)
<1>3. job \in Jobs /\ job.id = id /\ job.content = c /\ job.again
  BY <1>1 DEF HandsInv, NewJob, Jobs
<1>4. Bring(t, job)
  BY <1>2
<1> HIDE DEF job
<1>5. HandsInv'
  BY <1>1, <1>2, <1>3, <1>4, BringKeeps
<1>6. CountsInv'
  BY <1>1, <1>2, OweKeeps, AskKeeps DEF CountsInv
<1>7. LogInv' /\ RecordsInv'
  BY <1>1, <1>2 DEF LogInv, RecordsInv
<1>8. QED BY <1>5, <1>6, <1>7 DEF PrintingInv

LEMMA ReadBackKeeps ==
  ASSUME PrintingInv, PrintingAssumption, NEW t \in Runner, ReadBack(t)
  PROVE  PrintingInv'
<1> DEFINE j == Job(t)
<1>1. LogInv /\ HandsInv /\ CountsInv
  BY DEF PrintingInv
<1>2. j \in SoundJob /\ j.at = "stored" /\ j.id # NoId
  BY <1>1, PlaceIs DEF ReadBack, SoundJob
<1>3. /\ stack' = stack
      /\ UNCHANGED <<log, records, owed, tried, unasked, asks, clears, restarts>>
  BY DEF ReadBack, tables, history
<1>4. CASE doing' = [doing EXCEPT ![t] = <<>>] /\ held' = held
  <2>1. <<>> \in Hand
    BY DEF Hand
  <2>2. HandsInv'
    BY <1>1, <1>3, <1>4, <2>1, HandKeeps DEF HandsInv
  <2>3. QED BY <1>1, <1>3, <2>2, OnlyHands DEF CountsInv
<1>5. CASE /\ doing' = [doing EXCEPT ![t] = <<[j EXCEPT !.at = "known", !.again = TRUE]>>]
           /\ held' = held
  <2>1. [j EXCEPT !.at = "known", !.again = TRUE] \in SoundJob
    BY <1>2 DEF SoundJob, Jobs
  <2>2. HandsInv'
    BY <1>1, <1>3, <1>5, <2>1, HandKeeps DEF HandsInv, Hand
  <2>3. QED BY <1>1, <1>3, <2>2, OnlyHands DEF CountsInv
<1>6. CASE doing' = [doing EXCEPT ![t] = <<[j EXCEPT !.at = "print"]>>] /\ held' = held
  <2>1. [j EXCEPT !.at = "print"] \in SoundJob
    BY <1>2 DEF SoundJob, Jobs
  <2>2. HandsInv'
    BY <1>1, <1>3, <1>6, <2>1, HandKeeps DEF HandsInv, Hand
  <2>3. QED BY <1>1, <1>3, <2>2, OnlyHands DEF CountsInv
<1>7. CASE j.id \in DOMAIN log.rows /\ Bring(t, [j EXCEPT !.content = log.rows[j.id]])
  <2> DEFINE job == [j EXCEPT !.content = log.rows[j.id]]
  <2>1. job \in Jobs /\ job.id # NoId
    BY <1>1, <1>2, <1>7 DEF SoundJob, Jobs, LogInv
  <2>2. Bring(t, job)
    BY <1>7
  <2> HIDE DEF job
  <2>3. HandsInv'
    BY <1>1, <1>3, <2>1, <2>2, BringKeeps
  <2>4. QED BY <1>1, <1>3, <2>3, OnlyHands DEF CountsInv
<1>8. QED BY <1>4, <1>5, <1>6, <1>7 DEF ReadBack, RowRead

LEMMA FindKnownKeeps ==
  ASSUME PrintingInv, PrintingAssumption, NEW t \in Runner, FindKnown(t)
  PROVE  PrintingInv'
<1> DEFINE j == Job(t)
<1>1. LogInv /\ HandsInv /\ CountsInv
  BY DEF PrintingInv
<1>2. j \in SoundJob /\ j.at = "known" /\ j.again
  BY <1>1, PlaceIs DEF FindKnown, SoundJob
<1>3. /\ stack' = stack
      /\ UNCHANGED <<log, records, owed, tried, unasked, asks, clears, restarts>>
  BY DEF FindKnown, tables, history
<1>4. CASE ~Known(log, j.content)
  <2>1. doing' = [doing EXCEPT ![t] = <<>>] /\ held' = held
    BY <1>4 DEF FindKnown
  <2>2. HandsInv'
    BY <1>1, <1>3, <2>1, HandKeeps DEF HandsInv, Hand
  <2>3. QED BY <1>1, <1>3, <2>2, OnlyHands DEF CountsInv
<1>5. CASE Known(log, j.content)
  <2> DEFINE job == [j EXCEPT !.id = IdOf(log, j.content)]
  <2>1. IdOf(log, j.content) \in Nat /\ IdOf(log, j.content) # NoId
    BY <1>1, <1>5, IdOfIs DEF LogInv, NoId
  <2>2. job \in Jobs /\ job.id # NoId
    BY <1>2, <2>1 DEF SoundJob, Jobs
  <2>3. Bring(t, job)
    BY <1>5 DEF FindKnown
  <2> HIDE DEF job
  <2>4. HandsInv'
    BY <1>1, <1>3, <2>2, <2>3, BringKeeps
  <2>5. QED BY <1>1, <1>3, <2>4, OnlyHands DEF CountsInv
<1>6. QED BY <1>4, <1>5

LEMMA StoreTicketKeeps ==
  ASSUME PrintingInv, PrintingAssumption, NEW t \in Runner, StoreTicket(t)
  PROVE  PrintingInv'
<1> DEFINE j == Job(t)
           job == [j EXCEPT !.at = "stored", !.id = NextId(log)]
<1>1. LogInv /\ HandsInv /\ CountsInv /\ RecordsInv
  BY DEF PrintingInv
<1>2. j \in SoundJob /\ j.at = "print" /\ j.content \in Ticket /\ j.again
  BY <1>1, PlaceIs DEF StoreTicket, SoundJob
<1>3. /\ log' = Insert(log, j.content) /\ doing' = [doing EXCEPT ![t] = <<job>>]
      /\ held' = held /\ stack' = stack
      /\ UNCHANGED <<records, owed, tried, unasked, asks, clears, restarts>>
  BY DEF StoreTicket, history
<1>4. NextId(log) \in Nat \ {NoId} /\ j.content \in Content /\ j.content \notin Inbound
  BY <1>1, <1>2, InsertIs DEF Content, PrintingAssumption
<1>5. job \in SoundJob
  BY <1>2, <1>4 DEF SoundJob, Jobs
<1> HIDE DEF job
<1>6. HandsInv'
  BY <1>1, <1>3, <1>5, HandKeeps DEF HandsInv, Hand
<1>7. LogInv' /\ RecordsInv' /\ CountsInv'
  BY <1>1, <1>3, <1>4, InsertKeeps, InsertKeepsRecords DEF CountsInv
<1>8. QED BY <1>6, <1>7 DEF PrintingInv

LEMMA TakeHeldKeeps ==
  ASSUME PrintingInv, NEW w \in Worker, TakeHeld(w)
  PROVE  PrintingInv'
<1> DEFINE job == [Head(held) EXCEPT !.stack = StackOf(Head(held))]
<1>1. HandsInv /\ CountsInv /\ w \in Runner
  BY DEF PrintingInv, Runner
<1>2. /\ held # <<>> /\ held' = Tail(held) /\ doing' = [doing EXCEPT ![w] = <<job>>]
      /\ stack' = stack
      /\ UNCHANGED <<log, records, owed, tried, unasked, asks, clears, restarts>>
  BY DEF TakeHeld, tables, history
<1>3. Head(held) \in HeldJob /\ Tail(held) \in Seq(HeldJob)
  BY <1>1, <1>2 DEF HandsInv
<1>4. StackOf(Head(held)) \in Stack
  BY <1>1, <1>3 DEF StackOf, HandsInv, HeldJob, SoundJob, Jobs
<1>5. job \in SoundJob
  BY <1>3, <1>4 DEF HeldJob, SoundJob, Jobs
<1> HIDE DEF job
<1>6. HandsInv'
  BY <1>1, <1>2, <1>3, <1>5, HandKeeps DEF HandsInv, Hand
<1>7. QED BY <1>1, <1>2, <1>6, OnlyHands DEF CountsInv

LEMMA StripKeeps ==
  ASSUME PrintingInv, NEW t \in Runner,
         StartPrint(t) \/ \E ok \in BOOLEAN : FinishPrint(t, ok)
  PROVE  PrintingInv'
<1> DEFINE j == Job(t)
<1>1. LogInv /\ HandsInv /\ CountsInv /\ RecordsInv
  BY DEF PrintingInv
<1>2. CASE StartPrint(t)
  <2>1. j \in SoundJob
    BY <1>1, <1>2, PlaceIs DEF StartPrint
  <2>2. [j EXCEPT !.at = "cut"] \in SoundJob
    BY <2>1 DEF SoundJob, Jobs
  <2>3. /\ doing' = [doing EXCEPT ![t] = <<[j EXCEPT !.at = "cut"]>>] /\ held' = held
        /\ stack' = stack
        /\ UNCHANGED <<log, records, owed, tried, unasked, asks, clears, restarts>>
    BY <1>2 DEF StartPrint, tables, history
  <2>4. HandsInv'
    BY <1>1, <2>2, <2>3, HandKeeps DEF HandsInv, Hand
  <2>5. QED BY <1>1, <2>3, <2>4, OnlyHands DEF CountsInv
<1>3. ASSUME NEW ok \in BOOLEAN, FinishPrint(t, ok) PROVE PrintingInv'
  <2> DEFINE record == [id |-> j.id, content |-> j.content, ok |-> ok]
  <2>1. /\ j \in SoundJob
        /\ j.content \in Content
    BY <1>1, <1>3, PlaceIs DEF FinishPrint, SoundJob, Jobs
  <2>2. /\ doing' = [doing EXCEPT ![t] = <<>>] /\ held' = held /\ stack' = stack
        /\ tried' = [tried EXCEPT ![j.content] = @ + 1]
        /\ \/ unasked' = unasked
           \/ unasked' = [unasked EXCEPT ![j.content] = @ + 1]
        /\ UNCHANGED <<log, owed, asks, clears, restarts>>
        /\ \/ records' = records
           \/ j.id \in DOMAIN log.rows /\ records' = Append(records, record)
    BY <1>3 DEF FinishPrint, Recorded
  <2>3. HandsInv'
    BY <1>1, <2>2, HandKeeps DEF HandsInv, Hand
  <2>4. CountsInv'
    <3>1. tried' \in [Content -> Nat] /\ unasked' \in [Content -> Nat]
      <4>1. tried \in [Content -> Nat] /\ unasked \in [Content -> Nat]
        BY <1>1 DEF CountsInv
      <4> HIDE DEF j, record
      <4>2. QED BY <2>1, <2>2, <4>1
    <3>2. QED BY <1>1, <2>2, <3>1 DEF CountsInv
  <2>5. RecordsInv'
    <3>1. record \in [id : Nat, content : Content, ok : BOOLEAN] /\ record.id = j.id
      BY <2>1, <1>3 DEF SoundJob, Jobs
    <3> HIDE DEF record, j
    <3>2. CASE records' = records
      BY <1>1, <2>2, <3>2 DEF RecordsInv
    <3>3. CASE j.id \in DOMAIN log.rows /\ records' = Append(records, record)
      <4>1. /\ records' \in Seq([id : Nat, content : Content, ok : BOOLEAN])
            /\ Len(records') = Len(records) + 1 /\ Len(records) \in Nat
            /\ \A i \in 1 .. Len(records) : records'[i] = records[i]
            /\ records'[Len(records) + 1] = record
        BY <1>1, <3>1, <3>3 DEF RecordsInv
      <4>2. ASSUME NEW i \in 1 .. Len(records') PROVE records'[i].id \in DOMAIN log.rows
        <5>1. CASE i \in 1 .. Len(records)
          BY <1>1, <4>1, <5>1 DEF RecordsInv
        <5>2. CASE i = Len(records) + 1
          BY <3>1, <3>3, <4>1, <5>2
        <5>3. QED BY <4>1, <5>1, <5>2
      <4>3. QED BY <2>2, <4>1, <4>2 DEF RecordsInv
    <3>4. QED BY <2>2, <3>2, <3>3
  <2>6. LogInv'
    BY <1>1, <2>2 DEF LogInv
  <2>7. QED BY <2>3, <2>4, <2>5, <2>6 DEF PrintingInv
<1>4. QED BY <1>2, <1>3

LEMMA ProgramKeeps ==
  ASSUME PrintingInv, PrintingAssumption, Rebuild \/ Clear \/ Restart
  PROVE  PrintingInv'
<1>1. LogInv /\ HandsInv /\ CountsInv /\ RecordsInv
  BY DEF PrintingInv
<1>2. CASE Rebuild
  <2>1. stack' \in Stack /\ doing' = doing /\ held' = held
        /\ UNCHANGED <<log, records, owed, tried, unasked, asks, clears, restarts>>
    BY <1>1, <1>2 DEF Rebuild, tables, history, HandsInv, Stack, PrintingAssumption
  <2>2. HandsInv'
    BY <1>1, <2>1 DEF HandsInv, Busy, Idle
  <2>3. QED BY <1>1, <2>1, <2>2, OnlyHands DEF CountsInv
<1>3. CASE Clear
  <2>1. /\ log' = EmptyLog /\ records' = <<>> /\ clears' = clears + 1
        /\ clears + restarts < MaxEvents
        /\ UNCHANGED <<doing, held, stack, owed, tried, unasked, asks, restarts>>
    BY <1>3 DEF Clear, Disturb
  <2>2. LogInv' /\ RecordsInv'
    BY <2>1, EmptyIs DEF LogInv, RecordsInv
  <2>3. HandsInv'
    BY <1>1, <2>1 DEF HandsInv, Busy, Idle
  <2>4. CountsInv'
    BY <1>1, <2>1 DEF CountsInv, PrintingAssumption
  <2>5. QED BY <2>2, <2>3, <2>4 DEF PrintingInv
<1>4. CASE Restart
  <2>1. /\ doing' = [u \in Runner |-> <<>>] /\ held' = <<>> /\ stack' = 1
        /\ restarts' = restarts + 1 /\ clears + restarts < MaxEvents
        /\ UNCHANGED <<log, records, owed, tried, unasked, asks, clears>>
    BY <1>4 DEF Restart, Disturb, tables
  <2>2. Busy' = {}
    BY <2>1 DEF Busy, Idle
  <2>3. HandsInv'
    BY <2>1, <2>2, FS_EmptySet DEF HandsInv, Hand, Stack, PrintingAssumption
  <2>4. CountsInv'
    BY <1>1, <2>1 DEF CountsInv, PrintingAssumption
  <2>5. LogInv' /\ RecordsInv'
    BY <1>1, <2>1 DEF LogInv, RecordsInv
  <2>6. QED BY <2>3, <2>4, <2>5 DEF PrintingInv
<1>5. QED BY <1>2, <1>3, <1>4

LEMMA PrintingStarts ==
  ASSUME PrintingAssumption, Init
  PROVE  PrintingInv
<1>1. Busy = {}
  BY DEF Init, Busy, Idle
<1>2. HandsInv
  BY <1>1, FS_EmptySet DEF Init, HandsInv, Hand, Stack, PrintingAssumption
<1>3. LogInv /\ RecordsInv
  BY EmptyIs DEF Init, LogInv, RecordsInv
<1>4. CountsInv
  BY DEF Init, CountsInv, PrintingAssumption
<1>5. QED BY <1>2, <1>3, <1>4 DEF PrintingInv

LEMMA PrintingKeeps ==
  ASSUME PrintingInv, PrintingAssumption, [Next]_vars
  PROVE  PrintingInv'
<1>1. CASE UNCHANGED vars
  BY <1>1 DEF vars, tables, history, PrintingInv, LogInv, HandsInv, CountsInv, RecordsInv,
              Busy, Idle
<1>2. CASE \E t \in Thread :
        \/ \E m \in Inbound, force \in BOOLEAN :
             ReceiveNew(t, m, force) \/ ReceiveDuplicate(t, m, force)
        \/ \E id \in DOMAIN log.rows : AskReprint(t, id)
        \/ \E k \in Ticket : AskTicket(t, k)
  BY <1>2, ReceiveKeeps, AskedKeeps
<1>3. CASE \E t \in Thread : AskReprintLast(t)
  BY <1>3, AskedKeeps DEF AskReprintLast, AskReprint
<1>4. CASE \E w \in Worker : TakeHeld(w)
  BY <1>4, TakeHeldKeeps
<1>5. CASE \E t \in Runner : Steps(t)
  BY <1>5, ReadBackKeeps, FindKnownKeeps, StoreTicketKeeps, StripKeeps DEF Steps
<1>6. CASE Rebuild \/ Clear \/ Restart
  BY <1>6, ProgramKeeps
<1>7. QED BY <1>1, <1>2, <1>3, <1>4, <1>5, <1>6 DEF Next

LEMMA PrintingInvariant ==
  Spec => []PrintingInv
BY PrintingAssumption, PrintingStarts, PrintingKeeps, PTL DEF Spec

\* Every record of a print is of a message in the table, every job a runner
\* has in hand or the gate holds is well formed, and the counters keep their
\* types (ingestion.py, print_manager.py), whatever is cleared, rebuilt and
\* restarted in between.
THEOREM PrintingTypeOK == Spec => []TypeOK
<1>1. PrintingInv => TypeOK
  <2> SUFFICES ASSUME PrintingInv PROVE TypeOK
    OBVIOUS
  <2>1. \A t \in Runner : Idle(t) \/ Job(t) \in Jobs
    BY InHandIs DEF PrintingInv, SoundJob
  <2>2. \A i \in DOMAIN held : held[i] \in Jobs
    <3>1. held \in Seq(HeldJob) /\ DOMAIN held = 1 .. Len(held)
      BY DEF PrintingInv, HandsInv
    <3>2. \A i \in DOMAIN held : held[i] \in HeldJob
      BY <3>1
    <3>3. QED BY <3>2 DEF HeldJob, SoundJob
  <2>3. DOMAIN records = 1 .. Len(records)
    BY DEF PrintingInv, RecordsInv
  <2>4. QED BY <2>1, <2>2, <2>3
            DEF PrintingInv, LogInv, HandsInv, CountsInv, RecordsInv, TypeOK
<1>2. QED BY <1>1, PrintingInvariant, PTL

-----------------------------------------------------------------------------
(* Counting the jobs of a kind J in hand and held.                         *)

Hands(J) == {t \in Runner : ~Idle(t) /\ Job(t) \in J}
Held(J) == {i \in DOMAIN held : held[i] \in J}
Handed(J) == Cardinality(Hands(J)) + Cardinality(Held(J))

One(j, J) == IF j \in J THEN 1 ELSE 0
OneIn(h, J) == IF h = <<>> THEN 0 ELSE One(h[1], J)

LEMMA CountsAre ==
  ASSUME HandsInv, NEW J
  PROVE  /\ IsFiniteSet(Hands(J)) /\ Cardinality(Hands(J)) \in Nat
         /\ IsFiniteSet(Held(J)) /\ Cardinality(Held(J)) \in Nat
         /\ Handed(J) \in Nat
<1>1. Hands(J) \subseteq Busy
  BY DEF Hands, Busy
<1>2. IsFiniteSet(Hands(J)) /\ Cardinality(Hands(J)) \in Nat
  BY <1>1, FS_Subset, FS_CardinalityType DEF HandsInv
<1>3. Held(J) \subseteq 1 .. Len(held) /\ Len(held) \in Nat
  BY DEF Held, HandsInv
<1>4. IsFiniteSet(1 .. Len(held))
  BY <1>3, FS_Interval
<1>5. IsFiniteSet(Held(J)) /\ Cardinality(Held(J)) \in Nat
  BY <1>3, <1>4, FS_Subset, FS_CardinalityType
<1>6. QED BY <1>2, <1>5 DEF Handed

LEMMA OneIs ==
  ASSUME NEW j, NEW J
  PROVE  One(j, J) \in {0, 1} /\ OneIn(<<j>>, J) = One(j, J)
<1>1. <<j>> # <<>> /\ <<j>>[1] = j
  OBVIOUS
<1>2. QED BY <1>1 DEF One, OneIn

LEMMA NoneIn ==
  ASSUME NEW h, NEW J
  PROVE  OneIn(h, J) \in {0, 1} /\ (h = <<>> => OneIn(h, J) = 0)
BY DEF One, OneIn

\* Two finite sets that differ at most in one element.
LEMMA ButOne ==
  ASSUME NEW S, NEW R, IsFiniteSet(S), IsFiniteSet(R), NEW x, S \ {x} = R \ {x},
         NEW m \in Nat, NEW n \in Nat,
         m = (IF x \in S THEN 1 ELSE 0), n = (IF x \in R THEN 1 ELSE 0)
  PROVE  Cardinality(R) = (Cardinality(S) - m) + n
<1>1. Cardinality(S) \in Nat /\ Cardinality(R) \in Nat
  BY FS_CardinalityType
<1>2. Cardinality(S \ {x}) = IF x \in S THEN Cardinality(S) - 1 ELSE Cardinality(S)
  BY FS_RemoveElement
<1>3. Cardinality(R \ {x}) = IF x \in R THEN Cardinality(R) - 1 ELSE Cardinality(R)
  BY FS_RemoveElement
<1>4. QED BY <1>1, <1>2, <1>3

\* A runner exchanges what it has in hand.
LEMMA HandsChange ==
  ASSUME HandsInv, HandsInv', NEW t \in Runner, NEW h \in Hand, NEW J,
         doing' = [doing EXCEPT ![t] = h]
  PROVE  Cardinality(Hands(J))'
           = (Cardinality(Hands(J)) - OneIn(doing[t], J)) + OneIn(h, J)
<1> DEFINE before == Hands(J)
           after == Hands(J)'
<1>1. IsFiniteSet(before) /\ IsFiniteSet(after)
      /\ Cardinality(before) \in Nat /\ Cardinality(after) \in Nat
  <2>1. IsFiniteSet(after) /\ Cardinality(after) \in Nat
    <3>1. after \subseteq Busy'
      BY DEF Hands, Busy
    <3>2. QED BY <3>1, FS_Subset, FS_CardinalityType DEF HandsInv
  <2>2. QED BY <2>1, CountsAre
<1>2. doing'[t] = h /\ \A u \in Runner : u # t => doing'[u] = doing[u]
  BY DEF HandsInv
<1>3. before \ {t} = after \ {t}
  BY <1>2 DEF Hands, Idle, Job
<1>4. OneIn(doing[t], J) = IF t \in before THEN 1 ELSE 0
  BY DEF Hands, Idle, Job, OneIn, One
<1>5. OneIn(h, J) = IF t \in after THEN 1 ELSE 0
  BY <1>2 DEF Hands, Idle, Job, OneIn, One
<1> HIDE DEF before, after
<1>6. OneIn(doing[t], J) \in Nat /\ OneIn(h, J) \in Nat
  BY NoneIn
<1>7. Cardinality(after) = (Cardinality(before) - OneIn(doing[t], J)) + OneIn(h, J)
  BY <1>1, <1>3, <1>4, <1>5, <1>6, ButOne
<1>8. QED BY <1>7 DEF before, after

\* A job joins the end of those the gate holds.
LEMMA HeldAppend ==
  ASSUME HandsInv, NEW job \in HeldJob, NEW J, held' = Append(held, job)
  PROVE  Cardinality(Held(J))' = Cardinality(Held(J)) + One(job, J)
<1> DEFINE n == Len(held)
<1>1. held \in Seq(HeldJob)
  BY DEF HandsInv
<1>2. /\ n \in Nat /\ DOMAIN held = 1 .. n /\ DOMAIN held' = 1 .. n + 1
      /\ held'[n + 1] = job /\ \A i \in 1 .. n : held'[i] = held[i]
  BY <1>1
<1> HIDE DEF n
<1>3. n + 1 \notin Held(J)
  BY <1>2 DEF Held
<1>4. CASE job \in J
  <2>1. Held(J)' = Held(J) \cup {n + 1}
    BY <1>2, <1>4 DEF Held
  <2>2. Cardinality(Held(J) \cup {n + 1}) = Cardinality(Held(J)) + 1
    BY <1>3, CountsAre, FS_AddElement
  <2>3. QED BY <1>4, <2>1, <2>2 DEF One
<1>5. CASE job \notin J
  <2>1. Held(J)' = Held(J)
    BY <1>2, <1>5 DEF Held
  <2>2. Cardinality(Held(J)) \in Nat
    BY CountsAre
  <2>3. QED BY <1>5, <2>1, <2>2 DEF One
<1>6. QED BY <1>4, <1>5

\* The first job the gate holds leaves: the others move up by one.
LEMMA HeldTail ==
  ASSUME HandsInv, held # <<>>, held' = Tail(held), NEW J
  PROVE  Cardinality(Held(J))' = Cardinality(Held(J)) - One(Head(held), J)
<1> DEFINE n == Len(held)
           rest == Held(J) \ {1}
           after == Held(J)'
           up == [i \in rest |-> i - 1]
<1>1. /\ n \in Nat \ {0} /\ DOMAIN held = 1 .. n /\ DOMAIN held' = 1 .. n - 1
      /\ Head(held) = held[1] /\ \A i \in 1 .. n - 1 : held'[i] = held[i + 1]
  BY DEF HandsInv
<1>2. 1 \in Held(J) <=> Head(held) \in J
  BY <1>1 DEF Held
<1>3. /\ IsFiniteSet(rest)
      /\ Cardinality(rest) = Cardinality(Held(J)) - One(Head(held), J)
  BY <1>2, CountsAre, FS_RemoveElement DEF One
<1>4. rest \subseteq 2 .. n /\ \A i \in 2 .. n : i \in rest <=> i - 1 \in after
  BY <1>1 DEF Held
<1>5. after \subseteq 1 .. n - 1
  BY <1>1 DEF Held
<1> HIDE DEF rest, after, n
<1>6. up \in Bijection(rest, after)
  <2>1. \A i \in rest : up[i] \in after
    BY <1>4
  <2>2. \A i, k \in rest : up[i] = up[k] => i = k
    BY <1>1, <1>4
  <2>3. \A k \in after : k + 1 \in rest /\ up[k + 1] = k
    BY <1>1, <1>4, <1>5
  <2>4. up \in [rest -> after]
    BY <2>1
  <2>5. QED BY <2>2, <2>3, <2>4 DEF Bijection, Injection, Surjection, IsInjective
<1>7. ExistsBijection(rest, after)
  BY <1>6 DEF ExistsBijection
<1>8. Cardinality(after) = Cardinality(rest)
  BY <1>3, <1>7, FS_Bijection
<1>9. QED BY <1>3, <1>8 DEF after

\* What bringing a job to the gate does to the counts.
LEMMA BringCounts ==
  ASSUME HandsInv, HandsInv', NEW t \in Runner, NEW job \in Jobs,
         job.id = NoId => job.content \in Ticket /\ job.again,
         Bring(t, job), NEW J
  PROVE  /\ Handed(J)' = (Handed(J) - OneIn(doing[t], J))
                           + One([job EXCEPT !.at = "print"], J)
         /\ Cardinality(Hands(J))' <= (Cardinality(Hands(J)) - OneIn(doing[t], J))
                           + One([job EXCEPT !.at = "print"], J)
<1> DEFINE brought == [job EXCEPT !.at = "print"]
<1>1. brought \in HeldJob /\ brought \in SoundJob
  BY DEF Jobs, HeldJob, SoundJob
<1>2. \/ doing' = [doing EXCEPT ![t] = <<brought>>] /\ held' = held
      \/ doing' = [doing EXCEPT ![t] = <<>>] /\ held' = Append(held, brought)
  BY DEF Bring
<1> HIDE DEF brought
<1>3. <<brought>> \in Hand /\ <<>> \in Hand
  BY <1>1 DEF Hand
<1>4. Cardinality(Hands(J)) \in Nat /\ Cardinality(Held(J)) \in Nat
  BY CountsAre
<1>5. One(brought, J) \in {0, 1} /\ OneIn(doing[t], J) \in {0, 1}
      /\ OneIn(<<brought>>, J) = One(brought, J) /\ OneIn(<<>>, J) = 0
  BY OneIs, NoneIn
<1>6. CASE doing' = [doing EXCEPT ![t] = <<brought>>] /\ held' = held
  <2>1. Cardinality(Hands(J))'
          = (Cardinality(Hands(J)) - OneIn(doing[t], J)) + OneIn(<<brought>>, J)
    BY <1>3, <1>6, HandsChange
  <2>2. Cardinality(Held(J))' = Cardinality(Held(J))
    BY <1>6 DEF Held
  <2>3. QED BY <1>4, <1>5, <2>1, <2>2 DEF Handed, brought
<1>7. CASE doing' = [doing EXCEPT ![t] = <<>>] /\ held' = Append(held, brought)
  <2>1. Cardinality(Hands(J))'
          = (Cardinality(Hands(J)) - OneIn(doing[t], J)) + OneIn(<<>>, J)
    BY <1>3, <1>7, HandsChange
  <2>2. Cardinality(Held(J))' = Cardinality(Held(J)) + One(brought, J)
    BY <1>1, <1>7, HeldAppend
  <2>3. QED BY <1>4, <1>5, <2>1, <2>2 DEF Handed, brought
<1>8. QED BY <1>2, <1>6, <1>7

\* What a runner exchanging its job does to the counts.
LEMMA SwapCounts ==
  ASSUME HandsInv, HandsInv', NEW t \in Runner, NEW h \in Hand, NEW J,
         doing' = [doing EXCEPT ![t] = h], held' = held
  PROVE  Handed(J)' = (Handed(J) - OneIn(doing[t], J)) + OneIn(h, J)
<1>1. Cardinality(Hands(J)) \in Nat /\ Cardinality(Held(J)) \in Nat
      /\ OneIn(doing[t], J) \in {0, 1} /\ OneIn(h, J) \in {0, 1}
  BY CountsAre, NoneIn
<1>2. Cardinality(Hands(J))'
        = (Cardinality(Hands(J)) - OneIn(doing[t], J)) + OneIn(h, J)
  BY HandsChange
<1>3. Cardinality(Held(J))' = Cardinality(Held(J))
  BY DEF Held
<1>4. QED BY <1>1, <1>2, <1>3 DEF Handed

-----------------------------------------------------------------------------
(* Strips are accounted for while nothing is cleared or restarted: what a  *)
(* runner is to read back or to look up is in the log, so no strip that is *)
(* due is dropped on the way.                                              *)

Due == Content \ (Inbound \ Printable)
Of(c) == {j \in Jobs : j.content = c}

Placed(h) ==
  h # <<>> =>
    /\ h[1].at = "stored" => /\ h[1].id \in DOMAIN log.rows
                             /\ log.rows[h[1].id] = h[1].content
    /\ h[1].at = "known" => Known(log, h[1].content)

RowsInv == \A t \in Runner : Placed(doing[t])
Settled(c) == owed[c] = tried[c] + Handed(Of(c))

AccountInv ==
  Undisturbed => RowsInv /\ \A c \in Due : Settled(c)

LEMMA PlacedKeeps ==
  ASSUME LogInv, HandsInv, RowsInv, NEW t \in Runner, NEW h \in Hand,
         doing' = [doing EXCEPT ![t] = h], Placed(h)',
         log' = log \/ \E c \in Content : log' = Insert(log, c)
  PROVE  RowsInv'
<1>1. /\ DOMAIN log.rows \subseteq DOMAIN log'.rows
      /\ \A i \in DOMAIN log.rows : log'.rows[i] = log.rows[i]
  BY InsertIs
<1>2. \A c : Known(log, c) => Known(log', c)
  BY <1>1 DEF Known, Range
<1>3. ASSUME NEW u \in Runner PROVE Placed(doing[u])'
  <2>1. CASE u = t
    BY <2>1 DEF HandsInv
  <2>2. CASE u # t
    <3>1. doing'[u] = doing[u] /\ Placed(doing[u])
      BY <2>2 DEF HandsInv, RowsInv
    <3>2. QED BY <1>1, <1>2, <3>1 DEF Placed
  <2>3. QED BY <2>1, <2>2
<1>4. QED BY <1>3 DEF RowsInv

LEMMA OfIs ==
  ASSUME NEW j \in Jobs, NEW c
  PROVE  /\ One(j, Of(c)) = IF j.content = c THEN 1 ELSE 0
         /\ OneIn(<<j>>, Of(c)) = IF j.content = c THEN 1 ELSE 0
BY OneIs DEF One, Of

LEMMA SwapOf ==
  ASSUME HandsInv, HandsInv', NEW t \in Runner, NEW job \in SoundJob,
         doing' = [doing EXCEPT ![t] = <<job>>], held' = held, NEW c
  PROVE  Handed(Of(c))' = (Handed(Of(c)) - OneIn(doing[t], Of(c)))
                            + IF job.content = c THEN 1 ELSE 0
<1>1. <<job>> \in Hand
  BY DEF Hand
<1>2. Handed(Of(c))' = (Handed(Of(c)) - OneIn(doing[t], Of(c))) + OneIn(<<job>>, Of(c))
  BY <1>1, SwapCounts
<1>3. job \in Jobs
  BY DEF SoundJob
<1>4. QED BY <1>2, <1>3, OfIs

\* A runner that had nothing in hand.
LEMMA FreshOf ==
  ASSUME HandsInv, HandsInv', NEW t \in Runner, NEW job \in SoundJob,
         doing[t] = <<>>, doing' = [doing EXCEPT ![t] = <<job>>], held' = held, NEW c
  PROVE  Handed(Of(c))' = Handed(Of(c)) + IF job.content = c THEN 1 ELSE 0
<1>1. OneIn(doing[t], Of(c)) = 0
  BY NoneIn
<1>2. Handed(Of(c)) \in Nat
  BY CountsAre
<1>3. Handed(Of(c))' = (Handed(Of(c)) - OneIn(doing[t], Of(c)))
                         + IF job.content = c THEN 1 ELSE 0
  BY SwapOf
<1>4. QED BY <1>1, <1>2, <1>3

LEMMA OweIs ==
  ASSUME CountsInv, NEW d \in Content, Owe(d), NEW c \in Content
  PROVE  owed'[c] = owed[c] + IF d = c THEN 1 ELSE 0
BY DEF CountsInv, Owe

\* A job taken up for a strip that becomes due.
LEMMA NewStrip ==
  ASSUME PrintingInv, NEW c \in Content, NEW d \in Content, Settled(c), Owe(d),
         tried' = tried, Handed(Of(c))' = Handed(Of(c)) + IF d = c THEN 1 ELSE 0
  PROVE  Settled(c)'
<1>1. owed'[c] = owed[c] + IF d = c THEN 1 ELSE 0
  BY OweIs DEF PrintingInv
<1>2. owed[c] \in Nat /\ tried[c] \in Nat /\ Handed(Of(c)) \in Nat
  BY CountsAre DEF PrintingInv, CountsInv
<1>3. QED BY <1>1, <1>2 DEF Settled

LEMMA ReceiveAccounts ==
  ASSUME PrintingInv, PrintingInv', PrintingAssumption, RowsInv, NEW t \in Thread,
         NEW m \in Inbound, NEW force \in BOOLEAN,
         ReceiveNew(t, m, force) \/ ReceiveDuplicate(t, m, force)
  PROVE  /\ RowsInv'
         /\ \A c \in Due : Settled(c) => Settled(c)'
<1>1. /\ LogInv /\ HandsInv /\ HandsInv' /\ CountsInv
      /\ m \in Content /\ t \in Runner /\ doing[t] = <<>>
  BY DEF PrintingInv, Content, Runner, ReceiveNew, ReceiveDuplicate, Idle
<1>2. CASE ReceiveNew(t, m, force)
  <2>1. PICK job : /\ job = NewJob("stored", NextId(log), m, FALSE, force)
        /\ log' = Insert(log, m) /\ doing' = [doing EXCEPT ![t] = <<job>>]
        /\ held' = held /\ tried' = tried
        /\ IF m \in Printable THEN Owe(m) ELSE owed' = owed
    BY <1>2 DEF ReceiveNew
  <2>2. NextId(log) \in Nat \ {NoId} /\ NextId(log) \in DOMAIN log'.rows
        /\ log'.rows[NextId(log)] = m
    BY <1>1, <2>1, InsertIs
  <2>3. /\ job \in Jobs /\ job.at = "stored" /\ job.id = NextId(log)
        /\ job.content = m /\ job.again = FALSE
    BY <1>1, <2>1, <2>2, force \in BOOLEAN DEF HandsInv, NewJob, Jobs
  <2>4. <<job>> \in Hand /\ job \in SoundJob
    BY <2>2, <2>3 DEF Hand, SoundJob
  <2>5. Placed(<<job>>)'
    BY <2>2, <2>3 DEF Placed
  <2>6. RowsInv'
    BY <1>1, <2>1, <2>4, <2>5, PlacedKeeps
  <2>7. ASSUME NEW c \in Due, Settled(c) PROVE Settled(c)'
    <3>1. Handed(Of(c))' = Handed(Of(c)) + IF m = c THEN 1 ELSE 0
      BY <1>1, <2>1, <2>3, <2>4, FreshOf
    <3>2. Handed(Of(c)) \in Nat /\ c \in Content
      BY <1>1, CountsAre DEF Due
    <3>3. CASE m \in Printable
      BY <1>1, <2>1, <2>7, <3>1, <3>2, <3>3, NewStrip
    <3>4. CASE m \notin Printable
      <4>1. m # c
        BY <3>4 DEF Due
      <4>2. QED BY <2>1, <2>7, <3>1, <3>2, <3>4, <4>1 DEF Settled
    <3>5. QED BY <3>3, <3>4
  <2>8. QED BY <2>6, <2>7
<1>3. CASE ReceiveDuplicate(t, m, force)
  <2>1. PICK job : /\ job = NewJob("known", NoId, m, TRUE, force)
        /\ held' = held /\ log' = log /\ tried' = tried /\ Known(log, m)
        /\ \/ doing' = [doing EXCEPT ![t] = <<job>>] /\ Owe(m)
           \/ doing' = doing /\ owed' = owed
    BY <1>3 DEF ReceiveDuplicate, tables
  <2>2. job \in Jobs /\ job.at = "known" /\ job.again /\ job.content = m
    BY <1>1, <2>1, force \in BOOLEAN DEF HandsInv, NewJob, Jobs, NoId
  <2>3. <<job>> \in Hand /\ job \in SoundJob
    BY <2>2 DEF Hand, SoundJob
  <2>4. Placed(<<job>>)'
    BY <2>1, <2>2 DEF Placed
  <2>5. CASE doing' = [doing EXCEPT ![t] = <<job>>] /\ Owe(m)
    <3>1. RowsInv'
      BY <1>1, <2>1, <2>3, <2>4, <2>5, PlacedKeeps
    <3>2. ASSUME NEW c \in Due, Settled(c) PROVE Settled(c)'
      <4>1. Handed(Of(c))' = Handed(Of(c)) + IF m = c THEN 1 ELSE 0
        <5>1. /\ HandsInv /\ HandsInv' /\ c \in Content /\ doing[t] = <<>>
              /\ doing' = [doing EXCEPT ![t] = <<job>>] /\ held' = held
          BY <1>1, <2>1, <2>5 DEF Due
        <5>2. job \in SoundJob /\ job.content = m
          BY <2>2, <2>3
        <5>3. QED BY <1>1, <5>1, <5>2, FreshOf
      <4>2. Handed(Of(c)) \in Nat /\ c \in Content
        BY <1>1, CountsAre DEF Due
      <4>3. QED BY <1>1, <2>1, <2>5, <3>2, <4>1, <4>2, NewStrip
    <3>3. QED BY <3>1, <3>2
  <2>6. CASE doing' = doing /\ owed' = owed
    BY <2>1, <2>6 DEF RowsInv, Placed, Settled, Handed, Hands, Held, Idle, Job
  <2>7. QED BY <2>1, <2>5, <2>6
<1>4. QED BY <1>2, <1>3

LEMMA AskedAccounts ==
  ASSUME PrintingInv, PrintingInv', PrintingAssumption, RowsInv, NEW t \in Thread,
         \/ \E id \in DOMAIN log.rows : AskReprint(t, id)
         \/ \E k \in Ticket : AskTicket(t, k)
  PROVE  /\ RowsInv'
         /\ \A c \in Due : Settled(c) => Settled(c)'
<1>1. LogInv /\ HandsInv /\ HandsInv' /\ CountsInv /\ t \in Runner
  BY DEF PrintingInv, Runner
<1>2. PICK id \in Nat, d \in Content :
        /\ Owe(d) /\ Bring(t, NewJob("print", id, d, TRUE, FALSE))
        /\ doing[t] = <<>> /\ UNCHANGED <<log, tried>>
        /\ id = NoId => d \in Ticket
  <2>1. CASE \E id \in DOMAIN log.rows : AskReprint(t, id)
    <3>1. PICK id \in DOMAIN log.rows : AskReprint(t, id)
      BY <2>1
    <3>2. id \in Nat /\ id # NoId /\ log.rows[id] \in Content
      BY <1>1 DEF LogInv, NoId
    <3>3. QED BY <3>1, <3>2 DEF AskReprint, tables, Idle
  <2>2. CASE \E k \in Ticket : AskTicket(t, k)
    BY <2>2 DEF AskTicket, tables, NoId, Content, Idle
  <2>3. QED BY <2>1, <2>2
<1>3. PICK job : job = NewJob("print", id, d, TRUE, FALSE)
  OBVIOUS
<1>4. job \in Jobs /\ job.id = id /\ job.content = d /\ job.again /\ Bring(t, job)
  BY <1>1, <1>2, <1>3 DEF HandsInv, NewJob, Jobs
<1> DEFINE brought == [job EXCEPT !.at = "print"]
<1>5. brought \in Jobs /\ brought.content = d /\ brought.at = "print"
      /\ brought \in SoundJob
  BY <1>2, <1>4 DEF Jobs, SoundJob
<1>6. \A c : Handed(Of(c))'
             = (Handed(Of(c)) - OneIn(doing[t], Of(c))) + One(brought, Of(c))
  BY <1>1, <1>2, <1>4, BringCounts
<1>7. doing' = [doing EXCEPT ![t] = <<brought>>] \/ doing' = [doing EXCEPT ![t] = <<>>]
  BY <1>4 DEF Bring
<1> HIDE DEF brought
<1>8. RowsInv'
  <2>1. <<brought>> \in Hand /\ <<>> \in Hand
    BY <1>5 DEF Hand
  <2>2. Placed(<<brought>>)' /\ Placed(<<>>)'
    BY <1>5 DEF Placed
  <2>3. QED BY <1>1, <1>2, <1>7, <2>1, <2>2, PlacedKeeps
<1>9. ASSUME NEW c \in Due, Settled(c) PROVE Settled(c)'
  <2>1. OneIn(doing[t], Of(c)) = 0
    BY <1>2, NoneIn
  <2>2. Handed(Of(c)) \in Nat /\ c \in Content
    BY <1>1, CountsAre DEF Due
  <2>3. One(brought, Of(c)) = IF d = c THEN 1 ELSE 0
    BY <1>5, OfIs
  <2>4. Handed(Of(c))' = (Handed(Of(c)) - OneIn(doing[t], Of(c))) + One(brought, Of(c))
    BY <1>6
  <2>5. Handed(Of(c))' = Handed(Of(c)) + IF d = c THEN 1 ELSE 0
    BY <2>1, <2>2, <2>3, <2>4
  <2>6. QED BY <1>2, <1>9, <2>2, <2>5, NewStrip
<1>10. QED BY <1>8, <1>9

\* A step that leaves what is due and tried, and what is handed of each
\* content, leaves what is settled.
LEMMA SameStrips ==
  ASSUME NEW c, Settled(c), owed' = owed, tried' = tried,
         Handed(Of(c))' = Handed(Of(c))
  PROVE  Settled(c)'
BY DEF Settled

\* A runner that goes on with the strip it has in hand.
LEMMA GoesOn ==
  ASSUME HandsInv, HandsInv', NEW t \in Runner, ~Idle(t), NEW job \in SoundJob,
         job.content = Job(t).content,
         doing' = [doing EXCEPT ![t] = <<job>>], held' = held, NEW c
  PROVE  Handed(Of(c))' = Handed(Of(c))
<1>1. doing[t] = <<Job(t)>> /\ Job(t) \in Jobs
  BY InHandIs DEF SoundJob
<1>2. OneIn(doing[t], Of(c)) = IF job.content = c THEN 1 ELSE 0
  BY <1>1, OfIs
<1>3. Handed(Of(c)) \in Nat
  BY CountsAre
<1>4. Handed(Of(c))' = (Handed(Of(c)) - OneIn(doing[t], Of(c)))
                         + IF job.content = c THEN 1 ELSE 0
  BY SwapOf
<1>5. QED BY <1>2, <1>3, <1>4

\* A runner that brings the strip it has in hand to the gate.
LEMMA BringsOn ==
  ASSUME HandsInv, HandsInv', NEW t \in Runner, ~Idle(t), NEW job \in Jobs,
         job.id # NoId, job.content = Job(t).content, Bring(t, job), NEW c
  PROVE  Handed(Of(c))' = Handed(Of(c))
<1> DEFINE brought == [job EXCEPT !.at = "print"]
<1>1. doing[t] = <<Job(t)>> /\ Job(t) \in Jobs
  BY InHandIs DEF SoundJob
<1>2. OneIn(doing[t], Of(c)) = IF job.content = c THEN 1 ELSE 0
  BY <1>1, OfIs
<1>3. brought \in Jobs /\ brought.content = job.content
  BY DEF Jobs
<1>4. Handed(Of(c))' = (Handed(Of(c)) - OneIn(doing[t], Of(c))) + One(brought, Of(c))
  BY BringCounts
<1> HIDE DEF brought
<1>5. One(brought, Of(c)) = IF job.content = c THEN 1 ELSE 0
  BY <1>3, OfIs
<1>6. Handed(Of(c)) \in Nat
  BY CountsAre
<1>7. QED BY <1>2, <1>4, <1>5, <1>6

LEMMA BringPlaces ==
  ASSUME LogInv, HandsInv, RowsInv, NEW t \in Runner, NEW job \in Jobs, job.id # NoId,
         Bring(t, job), log' = log
  PROVE  RowsInv'
<1>1. PICK h : /\ doing' = [doing EXCEPT ![t] = h]
               /\ h = <<[job EXCEPT !.at = "print"]>> \/ h = <<>>
  BY DEF Bring
<1>2. [job EXCEPT !.at = "print"] \in SoundJob
  BY DEF Jobs, SoundJob
<1>3. h \in Hand
  BY <1>1, <1>2 DEF Hand
<1>4. h # <<>> => h[1].at = "print"
  BY <1>1 DEF Jobs
<1>5. Placed(h)'
  BY <1>4 DEF Placed
<1>6. QED BY <1>1, <1>3, <1>5, PlacedKeeps

LEMMA ReadBackAccounts ==
  ASSUME PrintingInv, PrintingInv', PrintingAssumption, RowsInv, NEW t \in Runner,
         ReadBack(t)
  PROVE  /\ RowsInv'
         /\ \A c \in Due : Settled(c) => Settled(c)'
<1>1. LogInv /\ HandsInv /\ HandsInv' /\ CountsInv
  BY DEF PrintingInv
<1>2. PICK j : j = Job(t)
  OBVIOUS
<1>3. ~Idle(t) /\ doing[t] = <<j>> /\ j \in SoundJob /\ j \in Jobs /\ j.at = "stored"
      /\ j.id # NoId
  BY <1>1, <1>2, PlaceIs DEF ReadBack, SoundJob
<1>4. j.id \in DOMAIN log.rows /\ log.rows[j.id] = j.content
  <2>1. Placed(<<j>>)
    BY <1>3 DEF RowsInv
  <2>2. QED BY <1>3, <2>1 DEF Placed
<1>5. UNCHANGED <<log, owed, tried>>
  BY DEF ReadBack, tables, history
<1>6. CASE j.content \in Ticket
  <2>1. PICK job : job = [j EXCEPT !.at = "print"]
    OBVIOUS
  <2>2. doing' = [doing EXCEPT ![t] = <<job>>] /\ held' = held
    BY <1>2, <1>4, <1>6, <2>1 DEF ReadBack
  <2>3. job \in SoundJob /\ job.content = j.content /\ job.at = "print"
    BY <1>3, <2>1 DEF SoundJob, Jobs
  <2>4. <<job>> \in Hand /\ Placed(<<job>>)'
    BY <2>3 DEF Hand, Placed
  <2>5. RowsInv'
    BY <1>1, <1>5, <2>2, <2>4, PlacedKeeps
  <2>6. \A c : Handed(Of(c))' = Handed(Of(c))
    BY <1>1, <1>2, <1>3, <2>2, <2>3, GoesOn
  <2>7. QED BY <1>5, <2>5, <2>6, SameStrips
<1>7. CASE j.content \notin Ticket /\ j.content \in Printable
  <2>1. PICK job : job = [j EXCEPT !.content = log.rows[j.id]]
    OBVIOUS
  <2>2. Bring(t, job)
    BY <1>2, <1>4, <1>7, <2>1 DEF ReadBack, RowRead
  <2>3. job \in Jobs /\ job.content = j.content /\ job.id # NoId
    BY <1>3, <1>4, <2>1 DEF Jobs
  <2>4. RowsInv'
    BY <1>1, <1>5, <2>2, <2>3, BringPlaces
  <2>5. \A c : Handed(Of(c))' = Handed(Of(c))
    BY <1>1, <1>2, <1>3, <2>2, <2>3, BringsOn
  <2>6. QED BY <1>5, <2>4, <2>5, SameStrips
<1>8. CASE j.content \notin Ticket /\ j.content \notin Printable
  <2>1. doing' = [doing EXCEPT ![t] = <<>>] /\ held' = held
    BY <1>2, <1>4, <1>8 DEF ReadBack
  <2>2. <<>> \in Hand /\ Placed(<<>>)'
    BY DEF Hand, Placed
  <2>3. RowsInv'
    BY <1>1, <1>5, <2>1, <2>2, PlacedKeeps
  <2>4. ASSUME NEW c \in Due PROVE Handed(Of(c))' = Handed(Of(c))
    <3>1. j.content # c
      BY <1>8 DEF Due, Content
    <3>2. OneIn(doing[t], Of(c)) = 0
      BY <1>3, <3>1, OfIs
    <3>3. OneIn(<<>>, Of(c)) = 0
      BY NoneIn
    <3>4. Handed(Of(c))' = (Handed(Of(c)) - OneIn(doing[t], Of(c))) + OneIn(<<>>, Of(c))
      BY <1>1, <2>1, <2>2, SwapCounts
    <3>5. Handed(Of(c)) \in Nat
      BY <1>1, CountsAre
    <3>6. QED BY <3>2, <3>3, <3>4, <3>5
  <2>5. QED BY <1>5, <2>3, <2>4, SameStrips
<1>9. QED BY <1>6, <1>7, <1>8

LEMMA FindKnownAccounts ==
  ASSUME PrintingInv, PrintingInv', PrintingAssumption, RowsInv, NEW t \in Runner,
         FindKnown(t)
  PROVE  /\ RowsInv'
         /\ \A c \in Due : Settled(c) => Settled(c)'
<1>1. LogInv /\ HandsInv /\ HandsInv' /\ CountsInv
  BY DEF PrintingInv
<1>2. PICK j : j = Job(t)
  OBVIOUS
<1>3. ~Idle(t) /\ doing[t] = <<j>> /\ j \in Jobs /\ j.at = "known"
  BY <1>1, <1>2, PlaceIs DEF FindKnown, SoundJob
<1>4. Known(log, j.content)
  <2>1. Placed(<<j>>)
    BY <1>3 DEF RowsInv
  <2>2. QED BY <1>3, <2>1 DEF Placed
<1>5. UNCHANGED <<log, owed, tried>>
  BY DEF FindKnown, tables, history
<1>6. PICK job : job = [j EXCEPT !.id = IdOf(log, j.content)]
  OBVIOUS
<1>7. Bring(t, job)
  BY <1>2, <1>4, <1>6 DEF FindKnown
<1>8. IdOf(log, j.content) \in Nat \ {NoId}
  BY <1>1, <1>4, IdOfIs DEF LogInv, NoId
<1>9. job \in Jobs /\ job.content = j.content /\ job.id # NoId
  BY <1>3, <1>6, <1>8 DEF Jobs
<1>10. RowsInv'
  BY <1>1, <1>5, <1>7, <1>9, BringPlaces
<1>11. \A c : Handed(Of(c))' = Handed(Of(c))
  BY <1>1, <1>2, <1>3, <1>7, <1>9, BringsOn
<1>12. QED BY <1>5, <1>10, <1>11, SameStrips

LEMMA StoreTicketAccounts ==
  ASSUME PrintingInv, PrintingInv', PrintingAssumption, RowsInv, NEW t \in Runner,
         StoreTicket(t)
  PROVE  /\ RowsInv'
         /\ \A c \in Due : Settled(c) => Settled(c)'
<1>1. LogInv /\ HandsInv /\ HandsInv' /\ CountsInv
  BY DEF PrintingInv
<1>2. PICK j : j = Job(t)
  OBVIOUS
<1>3. ~Idle(t) /\ doing[t] = <<j>> /\ j \in SoundJob /\ j \in Jobs
      /\ j.content \in Ticket /\ j.content \in Content /\ j.again
  BY <1>1, <1>2, PlaceIs DEF StoreTicket, SoundJob, Content
<1>4. PICK id : id = NextId(log)
  OBVIOUS
<1>5. PICK job : job = [j EXCEPT !.at = "stored", !.id = id]
  OBVIOUS
<1>6. /\ log' = Insert(log, j.content) /\ owed' = owed /\ tried' = tried
      /\ doing' = [doing EXCEPT ![t] = <<job>>] /\ held' = held
  BY <1>2, <1>4, <1>5 DEF StoreTicket, history
<1>7. id \in Nat \ {NoId} /\ id \in DOMAIN log'.rows /\ log'.rows[id] = j.content
  BY <1>1, <1>3, <1>4, <1>6, InsertIs
<1>8. job \in SoundJob /\ job.content = j.content /\ job.id = id /\ job.at = "stored"
  BY <1>3, <1>5, <1>7 DEF SoundJob, Jobs
<1>9. <<job>> \in Hand /\ Placed(<<job>>)'
  BY <1>7, <1>8 DEF Hand, Placed
<1>10. RowsInv'
  BY <1>1, <1>3, <1>6, <1>9, PlacedKeeps
<1>11. \A c : Handed(Of(c))' = Handed(Of(c))
  BY <1>1, <1>2, <1>3, <1>6, <1>8, GoesOn
<1>12. QED BY <1>6, <1>10, <1>11, SameStrips

\* A held job moves to the print worker's hand.
LEMMA TakeHeldCounts ==
  ASSUME HandsInv, HandsInv', NEW w \in Worker, TakeHeld(w), NEW J
  PROVE  \E job \in SoundJob :
           /\ doing' = [doing EXCEPT ![w] = <<job>>] /\ doing[w] = <<>>
           /\ job = [Head(held) EXCEPT !.stack = job.stack]
           /\ Head(held) \in HeldJob
           /\ Handed(J)' = (Handed(J) - One(Head(held), J)) + One(job, J)
           /\ Cardinality(Hands(J))' = Cardinality(Hands(J)) + One(job, J)
<1>1. PICK first : first = Head(held)
  OBVIOUS
<1>2. PICK job : job = [first EXCEPT !.stack = StackOf(first)]
  OBVIOUS
<1>3. /\ held # <<>> /\ held' = Tail(held) /\ doing[w] = <<>> /\ w \in Runner
      /\ doing' = [doing EXCEPT ![w] = <<job>>]
  BY <1>1, <1>2 DEF TakeHeld, Idle, Runner
<1>4. first \in HeldJob
  BY <1>1, <1>3 DEF HandsInv
<1>5. StackOf(first) \in Stack
  BY <1>4 DEF StackOf, HandsInv, HeldJob, SoundJob, Jobs
<1>6. job \in SoundJob /\ job = [first EXCEPT !.stack = job.stack]
  BY <1>2, <1>4, <1>5 DEF HeldJob, SoundJob, Jobs
<1>7. <<job>> \in Hand
  BY <1>6 DEF Hand
<1>8. Cardinality(Hands(J))' = (Cardinality(Hands(J)) - OneIn(doing[w], J))
                                 + OneIn(<<job>>, J)
  BY <1>3, <1>7, HandsChange
<1>9. OneIn(doing[w], J) = 0 /\ OneIn(<<job>>, J) = One(job, J)
      /\ One(job, J) \in {0, 1} /\ One(first, J) \in {0, 1}
  BY <1>3, NoneIn, OneIs
<1>10. Cardinality(Held(J))' = Cardinality(Held(J)) - One(first, J)
  BY <1>1, <1>3, HeldTail
<1>11. Cardinality(Hands(J)) \in Nat /\ Cardinality(Held(J)) \in Nat
  BY CountsAre
<1>12. Cardinality(Hands(J))' = Cardinality(Hands(J)) + One(job, J)
  BY <1>8, <1>9, <1>11
<1>13. Handed(J)' = (Handed(J) - One(first, J)) + One(job, J)
  BY <1>9, <1>10, <1>11, <1>12 DEF Handed
<1>14. QED BY <1>1, <1>3, <1>4, <1>6, <1>12, <1>13

LEMMA TakeHeldAccounts ==
  ASSUME PrintingInv, PrintingInv', RowsInv, NEW w \in Worker, TakeHeld(w)
  PROVE  /\ RowsInv'
         /\ \A c \in Due : Settled(c) => Settled(c)'
<1>1. LogInv /\ HandsInv /\ HandsInv' /\ CountsInv /\ w \in Runner
  BY DEF PrintingInv, Runner
<1>2. UNCHANGED <<log, owed, tried>>
  BY DEF TakeHeld, tables, history
<1>3. RowsInv'
  <2>1. PICK job \in SoundJob :
          /\ doing' = [doing EXCEPT ![w] = <<job>>]
          /\ job = [Head(held) EXCEPT !.stack = job.stack]
          /\ Head(held) \in HeldJob
    BY <1>1, TakeHeldCounts
  <2>2. job.at = "print"
    BY <2>1 DEF HeldJob, SoundJob, Jobs
  <2>3. <<job>> \in Hand /\ Placed(<<job>>)'
    BY <2>2 DEF Hand, Placed
  <2>4. QED BY <1>1, <1>2, <2>1, <2>3, PlacedKeeps
<1>4. ASSUME NEW c PROVE Handed(Of(c))' = Handed(Of(c))
  <2>1. PICK job \in SoundJob :
          /\ job = [Head(held) EXCEPT !.stack = job.stack]
          /\ Head(held) \in HeldJob
          /\ Handed(Of(c))' = (Handed(Of(c)) - One(Head(held), Of(c))) + One(job, Of(c))
    BY <1>1, TakeHeldCounts
  <2>2. job \in Jobs /\ Head(held) \in Jobs /\ job.content = Head(held).content
    BY <2>1 DEF HeldJob, SoundJob, Jobs
  <2>3. One(Head(held), Of(c)) = One(job, Of(c)) /\ One(job, Of(c)) \in {0, 1}
    BY <2>2, OfIs, OneIs
  <2>4. Handed(Of(c)) \in Nat
    BY <1>1, CountsAre
  <2>5. QED BY <2>1, <2>3, <2>4
<1>5. QED BY <1>2, <1>3, <1>4, SameStrips

LEMMA StartPrintAccounts ==
  ASSUME PrintingInv, PrintingInv', RowsInv, NEW t \in Runner, StartPrint(t)
  PROVE  /\ RowsInv'
         /\ \A c \in Due : Settled(c) => Settled(c)'
<1>1. LogInv /\ HandsInv /\ HandsInv'
  BY DEF PrintingInv
<1>2. PICK j : j = Job(t)
  OBVIOUS
<1>3. ~Idle(t) /\ j \in SoundJob
  BY <1>1, <1>2, PlaceIs DEF StartPrint
<1>4. PICK job : job = [j EXCEPT !.at = "cut"]
  OBVIOUS
<1>5. /\ doing' = [doing EXCEPT ![t] = <<job>>] /\ held' = held
      /\ UNCHANGED <<log, owed, tried>>
  BY <1>2, <1>4 DEF StartPrint, tables, history
<1>6. job \in SoundJob /\ job.content = j.content /\ job.at = "cut"
  BY <1>3, <1>4 DEF SoundJob, Jobs
<1>7. <<job>> \in Hand /\ Placed(<<job>>)'
  BY <1>6 DEF Hand, Placed
<1>8. RowsInv'
  BY <1>1, <1>5, <1>7, PlacedKeeps
<1>9. \A c : Handed(Of(c))' = Handed(Of(c))
  BY <1>1, <1>2, <1>3, <1>5, <1>6, GoesOn
<1>10. QED BY <1>5, <1>8, <1>9, SameStrips

LEMMA FinishPrintAccounts ==
  ASSUME PrintingInv, PrintingInv', RowsInv, NEW t \in Runner, NEW ok \in BOOLEAN,
         FinishPrint(t, ok)
  PROVE  /\ RowsInv'
         /\ \A c \in Due : Settled(c) => Settled(c)'
<1>1. LogInv /\ HandsInv /\ HandsInv' /\ CountsInv
  BY DEF PrintingInv
<1>2. PICK j : j = Job(t)
  OBVIOUS
<1>3. ~Idle(t) /\ doing[t] = <<j>> /\ j \in Jobs /\ j.content \in Content
  BY <1>1, <1>2, PlaceIs DEF FinishPrint, SoundJob, Jobs
<1>4. /\ doing' = [doing EXCEPT ![t] = <<>>] /\ held' = held
      /\ log' = log /\ owed' = owed /\ tried' = [tried EXCEPT ![j.content] = @ + 1]
  BY <1>2 DEF FinishPrint
<1>5. <<>> \in Hand /\ Placed(<<>>)'
  BY DEF Hand, Placed
<1>6. RowsInv'
  BY <1>1, <1>4, <1>5, PlacedKeeps
<1>7. ASSUME NEW c \in Due, Settled(c) PROVE Settled(c)'
  <2>1. c \in Content
    BY DEF Due
  <2>2. tried[c] \in Nat /\ tried'[c] = tried[c] + IF j.content = c THEN 1 ELSE 0
    BY <1>1, <1>3, <1>4, <2>1 DEF CountsInv
  <2>3. OneIn(doing[t], Of(c)) = IF j.content = c THEN 1 ELSE 0
    BY <1>3, OfIs
  <2>4. OneIn(<<>>, Of(c)) = 0
    BY NoneIn
  <2>5. Handed(Of(c))' = (Handed(Of(c)) - OneIn(doing[t], Of(c))) + OneIn(<<>>, Of(c))
    BY <1>1, <1>4, <1>5, SwapCounts
  <2>6. Handed(Of(c)) \in Nat
    BY <1>1, CountsAre
  <2>7. tried'[c] + Handed(Of(c))' = tried[c] + Handed(Of(c))
    BY <2>2, <2>3, <2>4, <2>5, <2>6
  <2>8. QED BY <1>4, <1>7, <2>7 DEF Settled
<1>8. QED BY <1>6, <1>7

\* Without a clear or a restart.
LEMMA StripsKeep ==
  ASSUME PrintingInv, PrintingInv', PrintingAssumption, RowsInv, Next,
         ~Clear, ~Restart
  PROVE  /\ RowsInv'
         /\ \A c \in Due : Settled(c) => Settled(c)'
<1>1. CASE \E t \in Thread :
        \/ \E m \in Inbound, force \in BOOLEAN :
             ReceiveNew(t, m, force) \/ ReceiveDuplicate(t, m, force)
        \/ \E id \in DOMAIN log.rows : AskReprint(t, id)
        \/ \E k \in Ticket : AskTicket(t, k)
  BY <1>1, ReceiveAccounts, AskedAccounts
<1>2. CASE \E t \in Thread : AskReprintLast(t)
  BY <1>2, AskedAccounts DEF AskReprintLast, AskReprint
<1>3. CASE \E w \in Worker : TakeHeld(w)
  BY <1>3, TakeHeldAccounts
<1>4. CASE \E t \in Runner : Steps(t)
  <2>1. PICK t \in Runner : Steps(t)
    BY <1>4
  <2>2. CASE ReadBack(t)
    BY <2>2, ReadBackAccounts
  <2>3. CASE FindKnown(t)
    BY <2>3, FindKnownAccounts
  <2>4. CASE StoreTicket(t)
    BY <2>4, StoreTicketAccounts
  <2>5. CASE StartPrint(t)
    BY <2>5, StartPrintAccounts
  <2>6. CASE \E ok \in BOOLEAN : FinishPrint(t, ok)
    BY <2>6, FinishPrintAccounts
  <2>7. QED BY <2>1, <2>2, <2>3, <2>4, <2>5, <2>6 DEF Steps
<1>5. CASE Rebuild
  <2>1. UNCHANGED <<log, doing, held, owed, tried>>
    BY <1>5 DEF Rebuild, tables, history
  <2>2. RowsInv'
    BY <2>1 DEF RowsInv, Placed
  <2>3. \A c : Handed(Of(c))' = Handed(Of(c))
    BY <2>1 DEF Handed, Hands, Held, Idle, Job
  <2>4. QED BY <2>1, <2>2, <2>3, SameStrips
<1>6. QED BY <1>1, <1>2, <1>3, <1>4, <1>5 DEF Next

LEMMA AccountKeeps ==
  ASSUME PrintingInv, PrintingInv', PrintingAssumption, AccountInv, [Next]_vars
  PROVE  AccountInv'
<1> SUFFICES ASSUME Undisturbed' PROVE RowsInv' /\ \A c \in Due : Settled(c)'
  BY DEF AccountInv
<1>1. CASE UNCHANGED vars
  <2>1. UNCHANGED <<log, doing, held, owed, tried>> /\ Undisturbed
    BY <1>1 DEF vars, tables, history, Undisturbed
  <2>2. RowsInv'
    BY <2>1 DEF AccountInv, RowsInv, Placed
  <2>3. \A c : Handed(Of(c))' = Handed(Of(c))
    BY <2>1 DEF Handed, Hands, Held, Idle, Job
  <2>4. QED BY <2>1, <2>2, <2>3, SameStrips DEF AccountInv
<1>2. CASE Next
  <2>1. clears \in Nat /\ restarts \in Nat
    BY PrintingAssumption DEF PrintingInv, CountsInv, PrintingAssumption
  <2>2. ~Clear /\ ~Restart
    BY <2>1 DEF Clear, Restart, Undisturbed
  <2>3. clears' = clears /\ restarts' = restarts
    BY <1>2, <2>2 DEF Next, ReceiveNew, ReceiveDuplicate, AskReprint, AskReprintLast,
       AskTicket, TakeHeld, Steps, ReadBack, FindKnown, StoreTicket, StartPrint,
       FinishPrint, Rebuild, history
  <2>4. Undisturbed
    BY <2>3 DEF Undisturbed
  <2>5. QED BY <1>2, <2>2, <2>4, StripsKeep DEF AccountInv
<1>3. QED BY <1>1, <1>2

LEMMA AccountStarts ==
  ASSUME PrintingAssumption, Init
  PROVE  AccountInv
<1>1. RowsInv
  BY DEF Init, RowsInv, Placed
<1>2. ASSUME NEW c PROVE Hands(Of(c)) = {} /\ Held(Of(c)) = {}
  BY DEF Init, Hands, Held, Idle
<1>3. \A c : Handed(Of(c)) = 0
  BY <1>2, FS_EmptySet DEF Handed
<1>4. \A c \in Due : Settled(c)
  BY <1>3 DEF Init, Settled, Due
<1>5. QED BY <1>1, <1>4 DEF AccountInv

\* While nothing is cleared and the program runs on, every strip that is due
\* is with a runner, waits at the gate, or was printed or failed (ingestion.py,
\* ingest; runtime.py, the reprint commands; print_manager.py), however many
\* threads bring the same message and however often the print stack is rebuilt.
THEOREM NoStripLost == Spec => []StripsAccounted
<1>1. Spec => []AccountInv
  <2>1. AccountInv /\ PrintingInv /\ PrintingInv' /\ [Next]_vars => AccountInv'
    BY PrintingAssumption, AccountKeeps
  <2>2. Init => AccountInv
    BY PrintingAssumption, AccountStarts
  <2>3. QED BY <2>1, <2>2, PrintingInvariant, PTL DEF Spec
<1>2. PrintingInv /\ AccountInv => StripsAccounted
  <2> SUFFICES ASSUME PrintingInv, AccountInv, Undisturbed,
                      NEW c \in Content \ (Inbound \ Printable)
               PROVE  owed[c] = tried[c] + Cardinality(InHand(c))
                                + Cardinality(Waiting(c))
    BY DEF StripsAccounted
  <2>1. owed[c] = tried[c] + (Cardinality(Hands(Of(c))) + Cardinality(Held(Of(c))))
    BY DEF AccountInv, Settled, Handed, Due
  <2>2. Hands(Of(c)) = InHand(c)
    BY InHandIs DEF PrintingInv, Hands, InHand, Of, SoundJob
  <2>3. Held(Of(c)) = Waiting(c)
    <3>1. held \in Seq(HeldJob) /\ DOMAIN held = 1 .. Len(held)
      BY DEF PrintingInv, HandsInv
    <3>2. \A i \in DOMAIN held : held[i] \in Jobs
      <4>1. \A i \in DOMAIN held : held[i] \in HeldJob
        BY <3>1
      <4>2. QED BY <4>1 DEF HeldJob, SoundJob
    <3>3. QED BY <3>2 DEF Held, Waiting, Of
  <2>4. /\ tried[c] \in Nat /\ Cardinality(Hands(Of(c))) \in Nat
        /\ Cardinality(Held(Of(c))) \in Nat
    BY CountsAre DEF PrintingInv, CountsInv
  <2>5. QED BY <2>1, <2>2, <2>3, <2>4
<1>3. QED BY <1>1, <1>2, PrintingInvariant, PTL

-----------------------------------------------------------------------------
(* A message prints by itself once.  What still may print by itself is in  *)
(* the hand of a runner that reads the message's row back, is on its way   *)
(* to the printer, or has not come: after a clear the message may come     *)
(* again, and get the row of which a runner per earlier clear still reads  *)
(* back what it held before.                                               *)

Reading(i) == {j \in Jobs : j.at = "stored" /\ ~j.again /\ j.id = i}
Printing(m) == {j \in Jobs : j.at \in {"print", "cut"} /\ ~j.again /\ j.content = m}

Readers(i) == Cardinality(Hands(Reading(i)))
Coming(m) == IF Known(log, m) THEN Readers(IdOf(log, m)) ELSE 1 + clears
ByItself(m) == unasked[m] + Handed(Printing(m))

ReadersInv ==
  \A i \in Nat : /\ Readers(i) <= 1 + clears
                 /\ i > log.sequence => Readers(i) <= clears

ByItselfInv ==
  \A m \in Inbound : 2 * (ByItself(m) + Coming(m)) <= (clears + 1) * (clears + 2)

OnceInv == ReadersInv /\ ByItselfInv

LEMMA OnceNumbers ==
  ASSUME PrintingInv, PrintingAssumption, NEW m \in Inbound
  PROVE  /\ unasked[m] \in Nat /\ Handed(Printing(m)) \in Nat /\ ByItself(m) \in Nat
         /\ \A i \in Nat : Readers(i) \in Nat
         /\ clears \in Nat /\ Coming(m) \in Nat
<1>1. unasked[m] \in Nat /\ clears \in Nat
  BY DEF PrintingInv, CountsInv, PrintingAssumption, Content
<1>2. Handed(Printing(m)) \in Nat /\ \A i \in Nat : Readers(i) \in Nat
  BY CountsAre DEF PrintingInv, Readers
<1>3. Known(log, m) => IdOf(log, m) \in Nat
  BY IdOfIs DEF PrintingInv, LogInv
<1>4. QED BY <1>1, <1>2, <1>3 DEF ByItself, Coming

LEMMA CountsNext ==
  ASSUME HandsInv', NEW J
  PROVE  Cardinality(Hands(J))' \in Nat /\ Handed(J)' \in Nat
<1> DEFINE hands == Hands(J)'
           waits == Held(J)'
<1>1. hands \subseteq Busy' /\ IsFiniteSet(Busy')
  BY DEF Hands, Busy, HandsInv
<1>2. waits \subseteq 1 .. Len(held') /\ Len(held') \in Nat
  BY DEF Held, HandsInv
<1>3. IsFiniteSet(1 .. Len(held'))
  BY <1>2, FS_Interval
<1> HIDE DEF hands, waits
<1>4. Cardinality(hands) \in Nat /\ Cardinality(waits) \in Nat
  BY <1>1, <1>2, <1>3, FS_Subset, FS_CardinalityType
<1>5. Cardinality(hands) + Cardinality(waits) \in Nat
  BY <1>4
<1>6. QED BY <1>4, <1>5 DEF hands, waits, Handed

LEMMA ReadersAre ==
  ASSUME HandsInv, HandsInv', NEW i \in Nat
  PROVE  Readers(i) \in Nat /\ Readers(i)' \in Nat
<1>1. Cardinality(Hands(Reading(i))) \in Nat
  BY CountsAre
<1>2. Cardinality(Hands(Reading(i)))' \in Nat
  BY CountsNext
<1>3. QED BY <1>1, <1>2 DEF Readers

\* A row of a message is the one IdOf finds.
LEMMA RowIs ==
  ASSUME LogInv, NEW m \in Inbound, NEW i \in DOMAIN log.rows, log.rows[i] = m
  PROVE  Known(log, m) /\ IdOf(log, m) = i
<1>1. Known(log, m)
  BY DEF Known, Range
<1>2. QED BY <1>1, IdOfIs DEF LogInv

\* A step that leaves the messages of the log and makes no reader and no strip
\* of its own.
LEMMA OnceEases ==
  ASSUME PrintingInv, PrintingInv', PrintingAssumption, OnceInv, clears' = clears,
         log'.sequence >= log.sequence,
         \A m \in Inbound :
           Known(log, m) => Known(log', m) /\ IdOf(log', m) = IdOf(log, m),
         \A m \in Inbound : Known(log', m) => Known(log, m),
         \A i \in Nat : Readers(i)' <= Readers(i),
         \A m \in Inbound : ByItself(m)' <= ByItself(m)
  PROVE  OnceInv'
<1>1. ReadersInv'
  <2> SUFFICES ASSUME NEW i \in Nat
               PROVE  /\ Readers(i)' <= 1 + clears
                      /\ i > log'.sequence => Readers(i)' <= clears
    BY DEF ReadersInv
  <2>1. Readers(i) \in Nat /\ Readers(i)' \in Nat /\ clears \in Nat
        /\ log.sequence \in Nat /\ log'.sequence \in Nat
    BY ReadersAre DEF PrintingInv, CountsInv, LogInv, PrintingAssumption
  <2>2. Readers(i) <= 1 + clears /\ (i > log.sequence => Readers(i) <= clears)
    BY DEF OnceInv, ReadersInv
  <2>3. Readers(i)' <= Readers(i)
    OBVIOUS
  <2>4. QED BY <2>1, <2>2, <2>3
<1>2. ByItselfInv'
  <2> SUFFICES ASSUME NEW m \in Inbound
               PROVE  2 * (ByItself(m)' + Coming(m)') <= (clears + 1) * (clears + 2)
    BY DEF ByItselfInv
  <2>1. ByItself(m) \in Nat /\ Coming(m) \in Nat /\ clears \in Nat
    BY OnceNumbers
  <2>2. ByItself(m)' \in Nat
    <3>1. unasked'[m] \in Nat /\ Handed(Printing(m))' \in Nat
      BY CountsNext DEF PrintingInv, CountsInv, Content
    <3>2. QED BY <3>1 DEF ByItself
  <2>3. Coming(m)' <= Coming(m) /\ Coming(m)' \in Nat
    <3>1. CASE Known(log, m)
      <4>1. Known(log', m) /\ IdOf(log', m) = IdOf(log, m) /\ IdOf(log, m) \in Nat
        BY <3>1, IdOfIs DEF PrintingInv, LogInv
      <4>2. PICK i \in Nat : i = IdOf(log, m)
        BY <4>1
      <4>3. Coming(m) = Readers(i)
        BY <3>1, <4>2 DEF Coming
      <4>4. Coming(m)' = Readers(i)'
        BY <4>1, <4>2 DEF Coming, Readers, Hands, Idle, Job
      <4>5. Readers(i)' \in Nat /\ Readers(i)' <= Readers(i)
        BY ReadersAre DEF PrintingInv
      <4>6. QED BY <4>3, <4>4, <4>5
    <3>2. CASE ~Known(log, m)
      <4>1. ~Known(log', m)
        BY <3>2
      <4>2. Coming(m) = 1 + clears /\ Coming(m)' = 1 + clears
        BY <3>2, <4>1 DEF Coming
      <4>3. QED BY <2>1, <4>2
    <3>3. QED BY <3>1, <3>2
  <2>4. ByItself(m)' <= ByItself(m)
    OBVIOUS
  <2>5. 2 * (ByItself(m) + Coming(m)) <= (clears + 1) * (clears + 2)
    BY DEF OnceInv, ByItselfInv
  <2>6. PICK bound \in Nat : bound = (clears + 1) * (clears + 2)
    BY <2>1
  <2>7. 2 * (ByItself(m)' + Coming(m)') <= bound
    BY <2>1, <2>2, <2>3, <2>4, <2>5, <2>6
  <2>8. QED BY <2>6, <2>7
<1>3. QED BY <1>1, <1>2 DEF OnceInv

\* A job that does not print a message by itself.
Quiet(j) ==
  /\ \A i \in Nat : j \notin Reading(i)
  /\ \A m \in Inbound : j \notin Printing(m)

LEMMA QuietIs ==
  ASSUME PrintingAssumption, NEW j \in Jobs,
         j.again \/ j.at = "known" \/ (j.content \in Ticket /\ j.at # "stored")
  PROVE  Quiet(j)
BY DEF PrintingAssumption, Quiet, Reading, Printing

LEMMA SwapEases ==
  ASSUME HandsInv, HandsInv', NEW t \in Runner, NEW h \in Hand,
         h # <<>> => Quiet(h[1]), doing' = [doing EXCEPT ![t] = h], held' = held
  PROVE  /\ \A i \in Nat : Readers(i)' <= Readers(i)
         /\ \A m \in Inbound : Handed(Printing(m))' <= Handed(Printing(m))
<1>1. ASSUME NEW i \in Nat PROVE Readers(i)' <= Readers(i)
  <2>1. OneIn(h, Reading(i)) = 0
    BY DEF OneIn, One, Quiet
  <2>2. OneIn(doing[t], Reading(i)) \in {0, 1} /\ Readers(i) \in Nat
    BY NoneIn, CountsAre DEF Readers
  <2>3. Cardinality(Hands(Reading(i)))'
          = (Cardinality(Hands(Reading(i))) - OneIn(doing[t], Reading(i)))
              + OneIn(h, Reading(i))
    BY HandsChange
  <2>4. QED BY <2>1, <2>2, <2>3 DEF Readers
<1>2. ASSUME NEW m \in Inbound PROVE Handed(Printing(m))' <= Handed(Printing(m))
  <2>1. OneIn(h, Printing(m)) = 0
    BY DEF OneIn, One, Quiet
  <2>2. OneIn(doing[t], Printing(m)) \in {0, 1} /\ Handed(Printing(m)) \in Nat
    BY NoneIn, CountsAre
  <2>3. Handed(Printing(m))'
          = (Handed(Printing(m)) - OneIn(doing[t], Printing(m))) + OneIn(h, Printing(m))
    BY SwapCounts
  <2>4. QED BY <2>1, <2>2, <2>3
<1>3. QED BY <1>1, <1>2

\* What a runner brings to the gate no longer reads a row back.
LEMMA BringReads ==
  ASSUME HandsInv, HandsInv', NEW t \in Runner, NEW job \in Jobs, job.id # NoId,
         Bring(t, job), NEW i \in Nat
  PROVE  Readers(i)' <= Readers(i) - OneIn(doing[t], Reading(i))
<1>1. PICK brought : brought = [job EXCEPT !.at = "print"]
  OBVIOUS
<1>2. brought.at = "print"
  BY <1>1 DEF Jobs
<1>3. One(brought, Reading(i)) = 0
  BY <1>2 DEF One, Reading
<1>4. Cardinality(Hands(Reading(i)))'
        <= (Cardinality(Hands(Reading(i))) - OneIn(doing[t], Reading(i)))
             + One([job EXCEPT !.at = "print"], Reading(i))
  BY BringCounts
<1>5. Readers(i) \in Nat /\ Readers(i)' \in Nat /\ OneIn(doing[t], Reading(i)) \in {0, 1}
  BY NoneIn, ReadersAre
<1>6. QED BY <1>1, <1>3, <1>4, <1>5 DEF Readers

LEMMA BringEases ==
  ASSUME PrintingAssumption, HandsInv, HandsInv', NEW t \in Runner, NEW job \in Jobs,
         job.id = NoId => job.content \in Ticket, job.again, Bring(t, job)
  PROVE  /\ \A i \in Nat : Readers(i)' <= Readers(i)
         /\ \A m \in Inbound : Handed(Printing(m))' <= Handed(Printing(m))
<1>1. PICK brought : brought = [job EXCEPT !.at = "print"]
  OBVIOUS
<1>2. brought \in Jobs /\ brought.again
  BY <1>1 DEF Jobs
<1>3. Quiet(brought)
  BY <1>2, QuietIs
<1>4. ASSUME NEW i \in Nat PROVE Readers(i)' <= Readers(i)
  <2>1. One(brought, Reading(i)) = 0
    BY <1>3 DEF One, Quiet
  <2>2. Cardinality(Hands(Reading(i)))'
          <= (Cardinality(Hands(Reading(i))) - OneIn(doing[t], Reading(i)))
               + One([job EXCEPT !.at = "print"], Reading(i))
    BY BringCounts
  <2>3. /\ Readers(i) \in Nat /\ Readers(i)' \in Nat
        /\ OneIn(doing[t], Reading(i)) \in {0, 1}
    BY NoneIn, ReadersAre
  <2>4. QED BY <1>1, <2>1, <2>2, <2>3 DEF Readers
<1>5. ASSUME NEW m \in Inbound PROVE Handed(Printing(m))' <= Handed(Printing(m))
  <2>1. One(brought, Printing(m)) = 0
    BY <1>3 DEF One, Quiet
  <2>2. OneIn(doing[t], Printing(m)) \in {0, 1} /\ Handed(Printing(m)) \in Nat
    BY NoneIn, CountsAre
  <2>3. Handed(Printing(m))' = (Handed(Printing(m)) - OneIn(doing[t], Printing(m)))
                                 + One([job EXCEPT !.at = "print"], Printing(m))
    BY BringCounts
  <2>4. QED BY <1>1, <2>1, <2>2, <2>3
<1>6. QED BY <1>4, <1>5

\* The same with the log as it was and nothing printed.
LEMMA HandedEases ==
  ASSUME PrintingInv, PrintingInv', PrintingAssumption, OnceInv, clears' = clears,
         log' = log, unasked' = unasked,
         \A i \in Nat : Readers(i)' <= Readers(i),
         \A m \in Inbound : Handed(Printing(m))' <= Handed(Printing(m))
  PROVE  OnceInv'
<1>1. log.sequence \in Nat /\ log'.sequence = log.sequence
  BY DEF PrintingInv, LogInv
<1>2. ASSUME NEW m \in Inbound PROVE ByItself(m)' <= ByItself(m)
  <2>1. unasked[m] \in Nat /\ Handed(Printing(m)) \in Nat /\ Handed(Printing(m))' \in Nat
    BY OnceNumbers, CountsNext DEF PrintingInv
  <2>2. QED BY <2>1 DEF ByItself
<1>3. \A m : Known(log', m) = Known(log, m) /\ IdOf(log', m) = IdOf(log, m)
  OBVIOUS
<1>4. QED BY <1>1, <1>2, <1>3, OnceEases

LEMMA ReceiveNewOnce ==
  ASSUME PrintingInv, PrintingInv', PrintingAssumption, OnceInv, NEW t \in Thread,
         NEW m \in Inbound, NEW force \in BOOLEAN, ReceiveNew(t, m, force)
  PROVE  OnceInv'
<1>1. /\ LogInv /\ LogInv' /\ HandsInv /\ HandsInv' /\ m \in Content /\ t \in Runner
      /\ doing[t] = <<>>
  BY DEF PrintingInv, Content, Runner, ReceiveNew, Idle
<1>2. PICK id : id = NextId(log)
  OBVIOUS
<1>3. PICK job : job = NewJob("stored", id, m, FALSE, force)
  OBVIOUS
<1>4. /\ ~Known(log, m) /\ log' = Insert(log, m) /\ doing' = [doing EXCEPT ![t] = <<job>>]
      /\ held' = held /\ unasked' = unasked /\ clears' = clears
  BY <1>2, <1>3 DEF ReceiveNew
<1>5. /\ id \in Nat \ {NoId} /\ id = log.sequence + 1 /\ log'.sequence = id
      /\ id \notin DOMAIN log.rows /\ DOMAIN log'.rows = DOMAIN log.rows \cup {id}
      /\ log'.rows[id] = m /\ \A i \in DOMAIN log.rows : log'.rows[i] = log.rows[i]
  BY <1>1, <1>2, <1>4, InsertIs
<1>6. job \in Jobs /\ job.at = "stored" /\ job.id = id /\ job.content = m
      /\ job.again = FALSE
  BY <1>1, <1>3, <1>5, force \in BOOLEAN DEF HandsInv, NewJob, Jobs
<1>7. <<job>> \in Hand
  BY <1>5, <1>6 DEF Hand, SoundJob
<1>8. ASSUME NEW i \in Nat PROVE Readers(i)' = Readers(i) + IF i = id THEN 1 ELSE 0
  <2>1. OneIn(doing[t], Reading(i)) = 0
    BY <1>1, NoneIn
  <2>2. One(job, Reading(i)) = IF i = id THEN 1 ELSE 0
    BY <1>6 DEF One, Reading
  <2>3. OneIn(<<job>>, Reading(i)) = One(job, Reading(i))
    BY OneIs
  <2>4. Cardinality(Hands(Reading(i)))'
          = (Cardinality(Hands(Reading(i))) - OneIn(doing[t], Reading(i)))
              + OneIn(<<job>>, Reading(i))
    BY <1>1, <1>4, <1>7, HandsChange
  <2>5. Readers(i) \in Nat
    BY <1>1, ReadersAre
  <2>6. QED BY <2>1, <2>2, <2>3, <2>4, <2>5 DEF Readers
<1>9. ASSUME NEW n \in Inbound PROVE ByItself(n)' = ByItself(n)
  <2>1. OneIn(doing[t], Printing(n)) = 0
    BY <1>1, NoneIn
  <2>2. One(job, Printing(n)) = 0
    BY <1>6 DEF One, Printing
  <2>3. OneIn(<<job>>, Printing(n)) = One(job, Printing(n))
    BY OneIs
  <2>4. Handed(Printing(n))'
          = (Handed(Printing(n)) - OneIn(doing[t], Printing(n)))
              + OneIn(<<job>>, Printing(n))
    BY <1>1, <1>4, <1>7, SwapCounts
  <2>5. Handed(Printing(n)) \in Nat
    BY <1>1, CountsAre
  <2>6. Handed(Printing(n))' = Handed(Printing(n))
    BY <2>1, <2>2, <2>3, <2>4, <2>5
  <2>7. QED BY <1>4, <2>6 DEF ByItself
<1>10. clears \in Nat /\ log.sequence \in Nat
  BY DEF PrintingInv, CountsInv, LogInv, PrintingAssumption
<1>11. ReadersInv'
  <2> SUFFICES ASSUME NEW i \in Nat
               PROVE  /\ Readers(i)' <= 1 + clears
                      /\ i > log'.sequence => Readers(i)' <= clears
    BY <1>4 DEF ReadersInv
  <2>1. Readers(i) \in Nat /\ Readers(i) <= 1 + clears
        /\ (i > log.sequence => Readers(i) <= clears)
    BY <1>1, ReadersAre DEF OnceInv, ReadersInv
  <2>2. QED BY <1>5, <1>8, <1>10, <2>1
<1>12. ByItselfInv'
  <2> SUFFICES ASSUME NEW n \in Inbound
               PROVE  2 * (ByItself(n) + Coming(n)') <= (clears + 1) * (clears + 2)
    BY <1>4, <1>9 DEF ByItselfInv
  <2>1. ByItself(n) \in Nat /\ Coming(n) \in Nat
    BY OnceNumbers
  <2>2. 2 * (ByItself(n) + Coming(n)) <= (clears + 1) * (clears + 2)
    BY DEF OnceInv, ByItselfInv
  <2>3. Coming(n)' \in Nat /\ Coming(n)' <= Coming(n)
    <3>1. CASE n = m
      <4>1. Known(log, n)' /\ IdOf(log, n)' = id
        <5>1. Known(log', m)
          BY <1>5 DEF Known, Range
        <5>2. IdOf(log', m) \in DOMAIN log'.rows /\ log'.rows[IdOf(log', m)] = m
          BY <5>1 DEF IdOf, Known, Range
        <5>3. IdOf(log', m) = id
          BY <1>1, <1>5, <5>2 DEF LogInv
        <5>4. QED BY <3>1, <5>1, <5>3
      <4>2. Coming(n)' = Readers(id)'
        BY <4>1 DEF Coming, Readers, Hands, Idle, Job
      <4>3. Coming(n) = 1 + clears
        BY <1>4, <3>1 DEF Coming
      <4>4. Readers(id) <= clears /\ Readers(id) \in Nat
        BY <1>1, <1>5, <1>10, ReadersAre DEF OnceInv, ReadersInv
      <4>5. Readers(id)' = Readers(id) + 1
        BY <1>5, <1>8
      <4>6. QED BY <1>10, <4>2, <4>3, <4>4, <4>5
    <3>2. CASE n # m /\ Known(log, n)
      <4>1. PICK k : k = IdOf(log, n)
        OBVIOUS
      <4>2. k \in DOMAIN log.rows /\ log.rows[k] = n /\ k \in Nat
        BY <1>1, <3>2, <4>1, IdOfIs DEF LogInv
      <4>3. k \in DOMAIN log'.rows /\ log'.rows[k] = n
        BY <1>5, <4>2
      <4>4. Known(log', n)
        BY <4>3 DEF Known, Range
      <4>5. IdOf(log', n) \in DOMAIN log'.rows /\ log'.rows[IdOf(log', n)] = n
        BY <4>4 DEF IdOf, Known, Range
      <4>6. IdOf(log', n) = k
        BY <1>1, <4>3, <4>5 DEF LogInv
      <4>7. Coming(n)' = Readers(k)'
        BY <4>4, <4>6 DEF Coming, Readers, Hands, Idle, Job
      <4>8. Coming(n) = Readers(k)
        BY <3>2, <4>1 DEF Coming
      <4>9. Readers(k)' = Readers(k) /\ Readers(k) \in Nat
        <5>1. k # id /\ k \in Nat
          BY <1>5, <4>2
        <5>2. Readers(k) \in Nat
          BY <1>1, <5>1, ReadersAre
        <5>3. Readers(k)' = Readers(k) + IF k = id THEN 1 ELSE 0
          BY <1>8, <5>1
        <5>4. QED BY <5>1, <5>2, <5>3
      <4>10. QED BY <4>7, <4>8, <4>9
    <3>3. CASE n # m /\ ~Known(log, n)
      <4>1. ~Known(log', n)
        BY <1>5, <3>3 DEF Known, Range
      <4>2. Coming(n)' = 1 + clears /\ Coming(n) = 1 + clears
        BY <1>4, <3>3, <4>1 DEF Coming
      <4>3. QED BY <1>10, <4>2
    <3>4. QED BY <3>1, <3>2, <3>3
  <2>4. PICK bound \in Nat : bound = (clears + 1) * (clears + 2)
    BY <1>10
  <2>5. QED BY <2>1, <2>2, <2>3, <2>4
<1>13. QED BY <1>11, <1>12 DEF OnceInv

LEMMA ReceiveDuplicateOnce ==
  ASSUME PrintingInv, PrintingInv', PrintingAssumption, OnceInv, NEW t \in Thread,
         NEW m \in Inbound, NEW force \in BOOLEAN, ReceiveDuplicate(t, m, force)
  PROVE  OnceInv'
<1>1. HandsInv /\ HandsInv' /\ m \in Content /\ t \in Runner
  BY DEF PrintingInv, Content, Runner
<1>2. PICK job : job = NewJob("known", NoId, m, TRUE, force)
  OBVIOUS
<1>3. /\ held' = held /\ log' = log /\ clears' = clears /\ unasked' = unasked
      /\ doing' = [doing EXCEPT ![t] = <<job>>] \/ doing' = doing
  BY <1>2 DEF ReceiveDuplicate, tables
<1>4. job \in Jobs /\ job.at = "known" /\ job.again
  BY <1>1, <1>2, force \in BOOLEAN DEF HandsInv, NewJob, Jobs, NoId
<1>5. CASE doing' = [doing EXCEPT ![t] = <<job>>]
  <2>1. <<job>> \in Hand /\ Quiet(<<job>>[1])
    BY <1>4, QuietIs DEF Hand, SoundJob
  <2>2. /\ \A i \in Nat : Readers(i)' <= Readers(i)
        /\ \A n \in Inbound : Handed(Printing(n))' <= Handed(Printing(n))
    BY <1>1, <1>3, <1>5, <2>1, SwapEases
  <2>3. QED BY <1>3, <2>2, HandedEases
<1>6. CASE doing' = doing
  <2>1. \A J : Handed(J)' = Handed(J) /\ Cardinality(Hands(J))' = Cardinality(Hands(J))
    BY <1>3, <1>6 DEF Handed, Hands, Held, Idle, Job
  <2>2. \A i \in Nat : Readers(i) \in Nat /\ Readers(i)' = Readers(i)
    BY <1>1, <2>1, ReadersAre DEF Readers
  <2>3. \A n \in Inbound : Handed(Printing(n)) \in Nat
                           /\ Handed(Printing(n))' = Handed(Printing(n))
    BY <1>1, <2>1, CountsAre
  <2>4. /\ \A i \in Nat : Readers(i)' <= Readers(i)
        /\ \A n \in Inbound : Handed(Printing(n))' <= Handed(Printing(n))
    BY <2>2, <2>3
  <2>5. QED BY <1>3, <2>4, HandedEases
<1>7. QED BY <1>3, <1>5, <1>6

LEMMA AskedOnce ==
  ASSUME PrintingInv, PrintingInv', PrintingAssumption, OnceInv, NEW t \in Thread,
         \/ \E id \in DOMAIN log.rows : AskReprint(t, id)
         \/ \E k \in Ticket : AskTicket(t, k)
  PROVE  OnceInv'
<1>1. LogInv /\ HandsInv /\ HandsInv' /\ t \in Runner
  BY DEF PrintingInv, Runner
<1>2. PICK id \in Nat, d \in Content :
        /\ Bring(t, NewJob("print", id, d, TRUE, FALSE))
        /\ UNCHANGED <<log, unasked, clears>>
        /\ id = NoId => d \in Ticket
  <2>1. CASE \E id \in DOMAIN log.rows : AskReprint(t, id)
    <3>1. PICK id \in DOMAIN log.rows : AskReprint(t, id)
      BY <2>1
    <3>2. id \in Nat /\ id # NoId /\ log.rows[id] \in Content
      BY <1>1 DEF LogInv, NoId
    <3>3. QED BY <3>1, <3>2 DEF AskReprint, tables
  <2>2. CASE \E k \in Ticket : AskTicket(t, k)
    BY <2>2 DEF AskTicket, tables, NoId, Content
  <2>3. QED BY <2>1, <2>2
<1>3. PICK job : job = NewJob("print", id, d, TRUE, FALSE)
  OBVIOUS
<1>4. job \in Jobs /\ job.id = id /\ job.content = d /\ job.again /\ Bring(t, job)
  BY <1>1, <1>2, <1>3 DEF HandsInv, NewJob, Jobs
<1>5. /\ \A i \in Nat : Readers(i)' <= Readers(i)
      /\ \A m \in Inbound : Handed(Printing(m))' <= Handed(Printing(m))
  BY <1>1, <1>2, <1>4, BringEases
<1>6. QED BY <1>2, <1>5, HandedEases

LEMMA FindKnownOnce ==
  ASSUME PrintingInv, PrintingInv', PrintingAssumption, OnceInv, NEW t \in Runner,
         FindKnown(t)
  PROVE  OnceInv'
<1>1. LogInv /\ HandsInv /\ HandsInv'
  BY DEF PrintingInv
<1>2. PICK j : j = Job(t)
  OBVIOUS
<1>3. j \in SoundJob /\ j \in Jobs /\ j.again
  BY <1>1, <1>2, PlaceIs DEF FindKnown, SoundJob
<1>4. UNCHANGED <<log, unasked, clears>>
  BY DEF FindKnown, tables, history
<1>5. /\ \A i \in Nat : Readers(i)' <= Readers(i)
      /\ \A m \in Inbound : Handed(Printing(m))' <= Handed(Printing(m))
  <2>1. CASE Known(log, j.content)
    <3>1. PICK job : job = [j EXCEPT !.id = IdOf(log, j.content)]
      OBVIOUS
    <3>2. IdOf(log, j.content) \in Nat \ {NoId}
      BY <1>1, <2>1, IdOfIs DEF LogInv, NoId
    <3>3. Bring(t, job) /\ job \in Jobs /\ job.id # NoId /\ job.again
      BY <1>2, <1>3, <2>1, <3>1, <3>2 DEF FindKnown, Jobs
    <3>4. QED BY <1>1, <3>3, BringEases
  <2>2. CASE ~Known(log, j.content)
    <3>1. doing' = [doing EXCEPT ![t] = <<>>] /\ held' = held
      BY <1>2, <2>2 DEF FindKnown
    <3>2. QED BY <1>1, <3>1, SwapEases DEF Hand
  <2>3. QED BY <2>1, <2>2
<1>6. QED BY <1>4, <1>5, HandedEases

LEMMA StoreTicketOnce ==
  ASSUME PrintingInv, PrintingInv', PrintingAssumption, OnceInv, NEW t \in Runner,
         StoreTicket(t)
  PROVE  OnceInv'
<1>1. LogInv /\ LogInv' /\ HandsInv /\ HandsInv'
  BY DEF PrintingInv
<1>2. PICK j : j = Job(t)
  OBVIOUS
<1>3. /\ j \in SoundJob /\ j \in Jobs /\ j.again
      /\ j.content \in Content /\ j.content \notin Inbound
  BY <1>1, <1>2, PlaceIs DEF StoreTicket, SoundJob, Content, PrintingAssumption
<1>4. PICK id : id = NextId(log)
  OBVIOUS
<1>5. PICK job : job = [j EXCEPT !.at = "stored", !.id = id]
  OBVIOUS
<1>6. /\ log' = Insert(log, j.content) /\ unasked' = unasked /\ clears' = clears
      /\ doing' = [doing EXCEPT ![t] = <<job>>] /\ held' = held
  BY <1>2, <1>4, <1>5 DEF StoreTicket, history
<1>7. /\ id \in Nat \ {NoId} /\ log'.sequence = log.sequence + 1
      /\ DOMAIN log'.rows = DOMAIN log.rows \cup {id} /\ log'.rows[id] = j.content
      /\ \A i \in DOMAIN log.rows : log'.rows[i] = log.rows[i]
  BY <1>1, <1>3, <1>4, <1>6, InsertIs
<1>8. job \in Jobs /\ job \in SoundJob /\ job.again
  BY <1>3, <1>5, <1>7 DEF SoundJob, Jobs
<1>9. <<job>> \in Hand /\ Quiet(<<job>>[1])
  BY <1>8, QuietIs DEF Hand
<1>10. /\ \A i \in Nat : Readers(i)' <= Readers(i)
       /\ \A m \in Inbound : Handed(Printing(m))' <= Handed(Printing(m))
  BY <1>1, <1>6, <1>9, SwapEases
<1>11. ASSUME NEW m \in Inbound, Known(log, m)
       PROVE  Known(log', m) /\ IdOf(log', m) = IdOf(log, m)
  <2>1. PICK k : k = IdOf(log, m)
    OBVIOUS
  <2>2. k \in DOMAIN log.rows /\ log.rows[k] = m
    BY <1>11, <2>1, IdOfIs
  <2>3. k \in DOMAIN log'.rows /\ log'.rows[k] = m
    BY <1>7, <2>2
  <2>4. Known(log', m)
    BY <2>3 DEF Known, Range
  <2>5. IdOf(log', m) \in DOMAIN log'.rows /\ log'.rows[IdOf(log', m)] = m
    BY <2>4 DEF IdOf, Known, Range
  <2>6. QED BY <1>1, <2>1, <2>3, <2>4, <2>5 DEF LogInv
<1>12. \A m \in Inbound : Known(log', m) => Known(log, m)
  BY <1>3, <1>7 DEF Known, Range
<1>13. ASSUME NEW m \in Inbound PROVE ByItself(m)' <= ByItself(m)
  <2>1. unasked[m] \in Nat /\ Handed(Printing(m)) \in Nat /\ Handed(Printing(m))' \in Nat
    BY <1>1, OnceNumbers, CountsNext
  <2>2. QED BY <1>6, <1>10, <2>1 DEF ByItself
<1>14. log'.sequence >= log.sequence
  BY <1>1, <1>7 DEF LogInv
<1>15. QED BY <1>6, <1>10, <1>11, <1>12, <1>13, <1>14, OnceEases

\* The strip of a message is on its way when its reader has the row: one
\* reader less, one strip more.
LEMMA ReadBackOnce ==
  ASSUME PrintingInv, PrintingInv', PrintingAssumption, OnceInv, NEW t \in Runner,
         ReadBack(t)
  PROVE  OnceInv'
<1>1. LogInv /\ HandsInv /\ HandsInv'
  BY DEF PrintingInv
<1>2. PICK j : j = Job(t)
  OBVIOUS
<1>3. /\ doing[t] = <<j>> /\ j \in SoundJob /\ j \in Jobs
      /\ j.at = "stored" /\ j.id # NoId /\ j.id \in Nat
  BY <1>1, <1>2, PlaceIs DEF ReadBack, SoundJob, Jobs
<1>4. UNCHANGED <<log, unasked, clears>>
  BY DEF ReadBack, tables, history
<1>5. ASSUME NEW h \in Hand, h # <<>> => Quiet(h[1]),
             doing' = [doing EXCEPT ![t] = h], held' = held
      PROVE  OnceInv'
  <2>1. /\ \A i \in Nat : Readers(i)' <= Readers(i)
        /\ \A m \in Inbound : Handed(Printing(m))' <= Handed(Printing(m))
    BY <1>1, <1>5, SwapEases
  <2>2. QED BY <1>4, <2>1, HandedEases
<1>6. CASE doing' = [doing EXCEPT ![t] = <<>>] /\ held' = held
  BY <1>5, <1>6 DEF Hand
<1>7. CASE /\ doing' = [doing EXCEPT ![t] = <<[j EXCEPT !.at = "known", !.again = TRUE]>>]
           /\ held' = held
  <2>1. PICK job : job = [j EXCEPT !.at = "known", !.again = TRUE]
    OBVIOUS
  <2>2. job \in SoundJob /\ job \in Jobs /\ job.again
    BY <1>3, <2>1 DEF SoundJob, Jobs
  <2>3. <<job>> \in Hand /\ Quiet(<<job>>[1])
    BY <2>2, QuietIs DEF Hand
  <2>4. QED BY <1>5, <1>7, <2>1, <2>3
<1>8. CASE /\ j.content \in Ticket
           /\ doing' = [doing EXCEPT ![t] = <<[j EXCEPT !.at = "print"]>>] /\ held' = held
  <2>1. PICK job : job = [j EXCEPT !.at = "print"]
    OBVIOUS
  <2>2. job \in SoundJob /\ job \in Jobs /\ job.content \in Ticket /\ job.at = "print"
    BY <1>3, <1>8, <2>1 DEF SoundJob, Jobs
  <2>3. <<job>> \in Hand /\ Quiet(<<job>>[1])
    BY <2>2, QuietIs DEF Hand
  <2>4. QED BY <1>5, <1>8, <2>1, <2>3
<1>9. CASE j.id \in DOMAIN log.rows /\ Bring(t, [j EXCEPT !.content = log.rows[j.id]])
  <2>1. PICK c : c = log.rows[j.id]
    OBVIOUS
  <2>2. PICK job : job = [j EXCEPT !.content = c]
    OBVIOUS
  <2>3. /\ Bring(t, job) /\ job \in Jobs /\ job.id # NoId /\ job.again = j.again
        /\ c \in Content /\ job.content = c
    BY <1>1, <1>3, <1>9, <2>1, <2>2 DEF LogInv, Jobs
  <2>4. CASE j.again
    <3>1. /\ \A i \in Nat : Readers(i)' <= Readers(i)
          /\ \A m \in Inbound : Handed(Printing(m))' <= Handed(Printing(m))
      BY <1>1, <2>3, <2>4, BringEases
    <3>2. QED BY <1>4, <3>1, HandedEases
  <2>5. CASE ~j.again
    <3>1. ASSUME NEW i \in Nat
          PROVE  /\ Readers(i) \in Nat /\ Readers(i)' \in Nat
                 /\ Readers(i)' <= Readers(i) - IF i = j.id THEN 1 ELSE 0
      <4>1. One(j, Reading(i)) = IF i = j.id THEN 1 ELSE 0
        BY <1>3, <2>5 DEF One, Reading
      <4>2. OneIn(doing[t], Reading(i)) = One(j, Reading(i))
        BY <1>3, OneIs
      <4>3. Readers(i)' <= Readers(i) - OneIn(doing[t], Reading(i))
        BY <1>1, <2>3, BringReads
      <4>4. QED BY <1>1, <4>1, <4>2, <4>3, ReadersAre
    <3>2. ASSUME NEW m \in Inbound
          PROVE  ByItself(m)' = ByItself(m) + IF m = c THEN 1 ELSE 0
      <4>1. PICK brought : brought = [job EXCEPT !.at = "print"]
        OBVIOUS
      <4>2. /\ brought \in Jobs /\ brought.at = "print" /\ brought.content = c
            /\ ~brought.again
        BY <2>3, <2>5, <4>1 DEF Jobs
      <4>3. One(brought, Printing(m)) = IF m = c THEN 1 ELSE 0
        BY <4>2 DEF One, Printing
      <4>4. OneIn(doing[t], Printing(m)) = 0
        <5>1. One(j, Printing(m)) = 0
          BY <1>3 DEF One, Printing
        <5>2. QED BY <1>3, <5>1, OneIs
      <4>5. Handed(Printing(m))' = (Handed(Printing(m)) - OneIn(doing[t], Printing(m)))
                                     + One([job EXCEPT !.at = "print"], Printing(m))
        BY <1>1, <2>3, BringCounts
      <4>6. Handed(Printing(m)) \in Nat /\ unasked[m] \in Nat
        BY OnceNumbers
      <4>7. Handed(Printing(m))' = Handed(Printing(m)) + IF m = c THEN 1 ELSE 0
        BY <4>1, <4>3, <4>4, <4>5, <4>6
      <4>8. QED BY <1>4, <4>6, <4>7 DEF ByItself
    <3>3. clears \in Nat
      BY DEF PrintingInv, CountsInv, PrintingAssumption
    <3>4. ReadersInv'
      <4> SUFFICES ASSUME NEW i \in Nat
                   PROVE  /\ Readers(i)' <= 1 + clears
                          /\ i > log.sequence => Readers(i)' <= clears
        BY <1>4 DEF ReadersInv
      <4>1. Readers(i) <= 1 + clears /\ (i > log.sequence => Readers(i) <= clears)
        BY DEF OnceInv, ReadersInv
      <4>2. Readers(i)' <= Readers(i)
        BY <3>1
      <4>3. QED BY <3>1, <3>3, <4>1, <4>2
    <3>5. ByItselfInv'
      <4> SUFFICES ASSUME NEW m \in Inbound
                   PROVE  2 * (ByItself(m)' + Coming(m)') <= (clears + 1) * (clears + 2)
        BY <1>4 DEF ByItselfInv
      <4>1. ByItself(m) \in Nat /\ Coming(m) \in Nat
        BY OnceNumbers
      <4>2. 2 * (ByItself(m) + Coming(m)) <= (clears + 1) * (clears + 2)
        BY DEF OnceInv, ByItselfInv
      <4>3. /\ Coming(m)' \in Nat
            /\ Coming(m)' <= Coming(m) - IF m = c THEN 1 ELSE 0
        <5>1. CASE Known(log, m)
          <6>1. PICK k : k = IdOf(log, m)
            OBVIOUS
          <6>2. k \in DOMAIN log.rows /\ log.rows[k] = m /\ k \in Nat
            BY <1>1, <5>1, <6>1, IdOfIs DEF LogInv
          <6>3. k = j.id <=> m = c
            BY <1>1, <1>9, <2>1, <6>2 DEF LogInv
          <6>4. Coming(m) = Readers(k)
            BY <5>1, <6>1 DEF Coming
          <6>5. Coming(m)' = Readers(k)'
            BY <1>4, <5>1, <6>1 DEF Coming, Readers, Hands, Idle, Job
          <6>6. Readers(k)' <= Readers(k) - IF k = j.id THEN 1 ELSE 0
            BY <3>1, <6>2
          <6>7. Readers(k)' \in Nat /\ Readers(k) \in Nat
            BY <3>1, <6>2
          <6>8. QED BY <6>3, <6>4, <6>5, <6>6, <6>7
        <5>2. CASE ~Known(log, m)
          <6>1. m # c
            BY <1>9, <2>1, <5>2 DEF Known, Range
          <6>2. Coming(m)' = 1 + clears /\ Coming(m) = 1 + clears
            BY <1>4, <5>2 DEF Coming
          <6>3. QED BY <3>3, <6>1, <6>2
        <5>3. QED BY <5>1, <5>2
      <4>4. ByItself(m)' = ByItself(m) + IF m = c THEN 1 ELSE 0
        BY <3>2
      <4>5. PICK bound \in Nat : bound = (clears + 1) * (clears + 2)
        BY <3>3
      <4>6. ByItself(m)' + Coming(m)' <= ByItself(m) + Coming(m)
        BY <4>1, <4>3, <4>4
      <4>7. QED BY <4>1, <4>2, <4>3, <4>4, <4>5, <4>6
    <3>6. QED BY <3>4, <3>5 DEF OnceInv
  <2>6. QED BY <2>4, <2>5
<1>10. QED BY <1>2, <1>6, <1>7, <1>8, <1>9 DEF ReadBack, RowRead

LEMMA TakeHeldOnce ==
  ASSUME PrintingInv, PrintingInv', PrintingAssumption, OnceInv, NEW w \in Worker,
         TakeHeld(w)
  PROVE  OnceInv'
<1>1. HandsInv /\ HandsInv'
  BY DEF PrintingInv
<1>2. UNCHANGED <<log, unasked, clears>>
  BY DEF TakeHeld, tables, history
<1>3. ASSUME NEW i \in Nat PROVE Readers(i)' <= Readers(i)
  <2>1. PICK job \in SoundJob :
          /\ job = [Head(held) EXCEPT !.stack = job.stack] /\ Head(held) \in HeldJob
          /\ Cardinality(Hands(Reading(i)))'
               = Cardinality(Hands(Reading(i))) + One(job, Reading(i))
    BY <1>1, TakeHeldCounts
  <2>2. job.at = "print"
    BY <2>1 DEF HeldJob, SoundJob, Jobs
  <2>3. One(job, Reading(i)) = 0
    BY <2>2 DEF One, Reading
  <2>4. QED BY <1>1, <2>1, <2>3, ReadersAre DEF Readers
<1>4. ASSUME NEW m \in Inbound PROVE Handed(Printing(m))' <= Handed(Printing(m))
  <2>1. PICK job \in SoundJob :
          /\ job = [Head(held) EXCEPT !.stack = job.stack] /\ Head(held) \in HeldJob
          /\ Handed(Printing(m))'
               = (Handed(Printing(m)) - One(Head(held), Printing(m)))
                   + One(job, Printing(m))
    BY <1>1, TakeHeldCounts
  <2>2. /\ job \in Jobs /\ Head(held) \in Jobs /\ job.content = Head(held).content
        /\ job.at = Head(held).at /\ job.again = Head(held).again
    BY <2>1 DEF HeldJob, SoundJob, Jobs
  <2>3. One(job, Printing(m)) = One(Head(held), Printing(m))
    BY <2>2 DEF One, Printing
  <2>4. One(job, Printing(m)) \in {0, 1} /\ Handed(Printing(m)) \in Nat
    BY <1>1, OneIs, CountsAre
  <2>5. QED BY <2>1, <2>3, <2>4
<1>5. QED BY <1>2, <1>3, <1>4, HandedEases

LEMMA StartPrintOnce ==
  ASSUME PrintingInv, PrintingInv', PrintingAssumption, OnceInv, NEW t \in Runner,
         StartPrint(t)
  PROVE  OnceInv'
<1>1. HandsInv /\ HandsInv'
  BY DEF PrintingInv
<1>2. PICK j : j = Job(t)
  OBVIOUS
<1>3. doing[t] = <<j>> /\ j \in SoundJob /\ j \in Jobs /\ j.at = "print"
  BY <1>1, <1>2, PlaceIs DEF StartPrint, SoundJob
<1>4. PICK job : job = [j EXCEPT !.at = "cut"]
  OBVIOUS
<1>5. /\ doing' = [doing EXCEPT ![t] = <<job>>] /\ held' = held
      /\ UNCHANGED <<log, unasked, clears>>
  BY <1>2, <1>4 DEF StartPrint, tables, history
<1>6. /\ job \in SoundJob /\ job \in Jobs /\ job.content = j.content /\ job.at = "cut"
      /\ job.again = j.again
  BY <1>3, <1>4 DEF SoundJob, Jobs
<1>7. <<job>> \in Hand
  BY <1>6 DEF Hand
<1>8. ASSUME NEW i \in Nat PROVE Readers(i)' <= Readers(i)
  <2>1. One(job, Reading(i)) = 0
    BY <1>6 DEF One, Reading
  <2>2. OneIn(<<job>>, Reading(i)) = One(job, Reading(i))
        /\ OneIn(doing[t], Reading(i)) \in {0, 1}
    BY OneIs, NoneIn
  <2>3. Cardinality(Hands(Reading(i)))'
          = (Cardinality(Hands(Reading(i))) - OneIn(doing[t], Reading(i)))
              + OneIn(<<job>>, Reading(i))
    BY <1>1, <1>5, <1>7, HandsChange
  <2>4. Readers(i) \in Nat
    BY <1>1, ReadersAre
  <2>5. QED BY <2>1, <2>2, <2>3, <2>4 DEF Readers
<1>9. ASSUME NEW m \in Inbound PROVE Handed(Printing(m))' <= Handed(Printing(m))
  <2>1. One(job, Printing(m)) = One(j, Printing(m))
    BY <1>3, <1>6 DEF One, Printing
  <2>2. OneIn(<<job>>, Printing(m)) = One(job, Printing(m))
        /\ OneIn(doing[t], Printing(m)) = One(j, Printing(m))
        /\ One(j, Printing(m)) \in {0, 1}
    BY <1>3, OneIs
  <2>3. Handed(Printing(m))'
          = (Handed(Printing(m)) - OneIn(doing[t], Printing(m)))
              + OneIn(<<job>>, Printing(m))
    BY <1>1, <1>5, <1>7, SwapCounts
  <2>4. Handed(Printing(m)) \in Nat
    BY <1>1, CountsAre
  <2>5. QED BY <2>1, <2>2, <2>3, <2>4
<1>10. QED BY <1>5, <1>8, <1>9, HandedEases

LEMMA FinishPrintOnce ==
  ASSUME PrintingInv, PrintingInv', PrintingAssumption, OnceInv, NEW t \in Runner,
         NEW ok \in BOOLEAN, FinishPrint(t, ok)
  PROVE  OnceInv'
<1>1. HandsInv /\ HandsInv' /\ LogInv
  BY DEF PrintingInv
<1>2. PICK j : j = Job(t)
  OBVIOUS
<1>3. doing[t] = <<j>> /\ j \in Jobs /\ j.at = "cut" /\ j.content \in Content
  BY <1>1, <1>2, PlaceIs DEF FinishPrint, SoundJob, Jobs
<1>4. /\ doing' = [doing EXCEPT ![t] = <<>>] /\ held' = held
      /\ log' = log /\ clears' = clears
      /\ unasked' = IF ok /\ ~j.again
                    THEN [unasked EXCEPT ![j.content] = @ + 1] ELSE unasked
  BY <1>2 DEF FinishPrint
<1>5. <<>> \in Hand
  BY DEF Hand
<1>6. ASSUME NEW i \in Nat PROVE Readers(i)' <= Readers(i)
  BY <1>1, <1>4, <1>5, SwapEases
<1>7. ASSUME NEW m \in Inbound PROVE ByItself(m)' <= ByItself(m)
  <2>1. unasked[m] \in Nat /\ Handed(Printing(m)) \in Nat
    BY OnceNumbers
  <2>2. One(j, Printing(m)) = IF ~j.again /\ j.content = m THEN 1 ELSE 0
    BY <1>3 DEF One, Printing
  <2>3. OneIn(doing[t], Printing(m)) = One(j, Printing(m)) /\ OneIn(<<>>, Printing(m)) = 0
    BY <1>3, OneIs, NoneIn
  <2>4. Handed(Printing(m))'
          = (Handed(Printing(m)) - OneIn(doing[t], Printing(m))) + OneIn(<<>>, Printing(m))
    BY <1>1, <1>4, <1>5, SwapCounts
  <2>5. unasked'[m] = unasked[m] + IF ok /\ ~j.again /\ j.content = m THEN 1 ELSE 0
    <3>1. unasked \in [Content -> Nat] /\ m \in Content
      BY DEF PrintingInv, CountsInv, Content
    <3>2. CASE ok /\ ~j.again
      BY <1>3, <1>4, <3>1, <3>2
    <3>3. CASE ~(ok /\ ~j.again)
      BY <1>4, <2>1, <3>3
    <3>4. QED BY <3>2, <3>3
  <2>6. unasked'[m] + Handed(Printing(m))' <= unasked[m] + Handed(Printing(m))
    BY <2>1, <2>2, <2>3, <2>4, <2>5
  <2>7. QED BY <2>6 DEF ByItself
<1>8. log.sequence \in Nat /\ log'.sequence = log.sequence
  BY <1>1, <1>4 DEF LogInv
<1>9. \A m : Known(log', m) = Known(log, m) /\ IdOf(log', m) = IdOf(log, m)
  BY <1>4
<1>10. QED BY <1>4, <1>6, <1>7, <1>8, <1>9, OnceEases

\* A clear forgets every message: each may come again, and find a reader of
\* each earlier time under the id it gets.
LEMMA ClearOnce ==
  ASSUME PrintingInv, PrintingInv', PrintingAssumption, OnceInv, Clear
  PROVE  OnceInv'
<1>1. /\ log' = EmptyLog /\ clears' = clears + 1
      /\ UNCHANGED <<doing, held, unasked>>
  BY DEF Clear
<1>2. HandsInv /\ HandsInv' /\ clears \in Nat
  BY DEF PrintingInv, CountsInv, PrintingAssumption
<1>3. \A m : ~Known(log', m)
  BY <1>1, EmptyIs DEF Known, Range
<1>4. \A i \in Nat : Readers(i)' = Readers(i) /\ Readers(i) \in Nat
  <2>1. \A i \in Nat : Readers(i)' = Readers(i)
    BY <1>1 DEF Readers, Hands, Idle, Job
  <2>2. QED BY <1>2, <2>1, ReadersAre
<1>5. \A m \in Inbound : ByItself(m)' = ByItself(m)
  BY <1>1 DEF ByItself, Handed, Hands, Held, Idle, Job
<1>6. ReadersInv'
  <2> SUFFICES ASSUME NEW i \in Nat
               PROVE  Readers(i)' <= 1 + clears' /\ Readers(i)' <= clears'
    BY DEF ReadersInv
  <2>1. Readers(i) <= 1 + clears
    BY DEF OnceInv, ReadersInv
  <2>2. QED BY <1>1, <1>2, <1>4, <2>1
<1>7. ByItselfInv'
  <2> SUFFICES ASSUME NEW m \in Inbound
               PROVE  2 * (ByItself(m)' + Coming(m)') <= (clears' + 1) * (clears' + 2)
    BY DEF ByItselfInv
  <2>1. ByItself(m) \in Nat /\ Coming(m) \in Nat
    BY OnceNumbers
  <2>2. 2 * (ByItself(m) + Coming(m)) <= (clears + 1) * (clears + 2)
    BY DEF OnceInv, ByItselfInv
  <2>3. Coming(m)' = clears + 2
    BY <1>1, <1>2, <1>3 DEF Coming
  <2>4. (clears + 2) * (clears + 3) = (clears + 1) * (clears + 2) + 2 * (clears + 2)
    BY <1>2
  <2>5. clears' + 1 = clears + 2 /\ clears' + 2 = clears + 3
    BY <1>1, <1>2
  <2>6. PICK bound \in Nat : bound = (clears + 1) * (clears + 2)
    BY <1>2
  <2>7. 2 * (ByItself(m) + (clears + 2)) <= bound + 2 * (clears + 2)
    BY <1>2, <2>1, <2>2, <2>6
  <2>8. (clears' + 1) * (clears' + 2) = bound + 2 * (clears + 2)
    BY <2>4, <2>5, <2>6
  <2>9. QED BY <1>5, <2>3, <2>7, <2>8
<1>8. QED BY <1>6, <1>7 DEF OnceInv

\* A restart forgets what was in hand and held.
LEMMA RestartOnce ==
  ASSUME PrintingInv, PrintingInv', PrintingAssumption, OnceInv, Restart
  PROVE  OnceInv'
<1>1. /\ doing' = [u \in Runner |-> <<>>] /\ held' = <<>>
      /\ UNCHANGED <<log, unasked, clears>>
  BY DEF Restart, tables
<1>2. HandsInv
  BY DEF PrintingInv
<1>3. \A J : Hands(J)' = {} /\ Held(J)' = {}
  BY <1>1 DEF Hands, Held, Idle
<1>4. ASSUME NEW J PROVE Cardinality(Hands(J))' = 0 /\ Handed(J)' = 0
  BY <1>3, FS_EmptySet DEF Handed
<1>5. ASSUME NEW i \in Nat PROVE Readers(i)' <= Readers(i)
  <2>1. Cardinality(Hands(Reading(i)))' = 0 /\ Cardinality(Hands(Reading(i))) \in Nat
    BY <1>2, <1>4, CountsAre
  <2>2. QED BY <2>1 DEF Readers
<1>6. ASSUME NEW m \in Inbound PROVE Handed(Printing(m))' <= Handed(Printing(m))
  <2>1. Handed(Printing(m))' = 0 /\ Handed(Printing(m)) \in Nat
    BY <1>2, <1>4, CountsAre
  <2>2. QED BY <2>1
<1>7. QED BY <1>1, <1>5, <1>6, HandedEases

LEMMA OnceKeeps ==
  ASSUME PrintingInv, PrintingInv', PrintingAssumption, OnceInv, [Next]_vars
  PROVE  OnceInv'
<1>1. CASE \E t \in Thread, m \in Inbound, force \in BOOLEAN :
             ReceiveNew(t, m, force) \/ ReceiveDuplicate(t, m, force)
  BY <1>1, ReceiveNewOnce, ReceiveDuplicateOnce
<1>2. CASE \E t \in Thread : \/ \E id \in DOMAIN log.rows : AskReprint(t, id)
                             \/ \E k \in Ticket : AskTicket(t, k)
  BY <1>2, AskedOnce
<1>3. CASE \E t \in Thread : AskReprintLast(t)
  BY <1>3, AskedOnce DEF AskReprintLast, AskReprint
<1>4. CASE \E w \in Worker : TakeHeld(w)
  BY <1>4, TakeHeldOnce
<1>5. CASE \E t \in Runner : Steps(t)
  <2>1. PICK t \in Runner : Steps(t)
    BY <1>5
  <2>2. CASE ReadBack(t)
    BY <2>2, ReadBackOnce
  <2>3. CASE FindKnown(t)
    BY <2>3, FindKnownOnce
  <2>4. CASE StoreTicket(t)
    BY <2>4, StoreTicketOnce
  <2>5. CASE StartPrint(t)
    BY <2>5, StartPrintOnce
  <2>6. CASE \E ok \in BOOLEAN : FinishPrint(t, ok)
    BY <2>6, FinishPrintOnce
  <2>7. QED BY <2>1, <2>2, <2>3, <2>4, <2>5, <2>6 DEF Steps
<1>6. CASE Rebuild \/ UNCHANGED vars
  <2>1. UNCHANGED <<log, doing, held, unasked, clears>>
    BY <1>6 DEF Rebuild, tables, history, vars
  <2>2. \A J : Handed(J)' = Handed(J) /\ Cardinality(Hands(J))' = Cardinality(Hands(J))
    BY <2>1 DEF Handed, Hands, Held, Idle, Job
  <2>3. HandsInv /\ HandsInv'
    BY DEF PrintingInv
  <2>4. \A i \in Nat : Readers(i) \in Nat /\ Readers(i)' = Readers(i)
    BY <2>2, <2>3, ReadersAre DEF Readers
  <2>5. \A m \in Inbound : Handed(Printing(m)) \in Nat
                           /\ Handed(Printing(m))' = Handed(Printing(m))
    BY <2>2, <2>3, CountsAre
  <2>6. /\ \A i \in Nat : Readers(i)' <= Readers(i)
        /\ \A m \in Inbound : Handed(Printing(m))' <= Handed(Printing(m))
    BY <2>4, <2>5
  <2>7. QED BY <2>1, <2>6, HandedEases
<1>7. CASE Clear \/ Restart
  BY <1>7, ClearOnce, RestartOnce
<1>8. QED BY <1>1, <1>2, <1>3, <1>4, <1>5, <1>6, <1>7 DEF Next

LEMMA OnceStarts ==
  ASSUME PrintingAssumption, Init
  PROVE  OnceInv
<1>1. /\ log = EmptyLog /\ clears = 0 /\ held = <<>>
      /\ \A t \in Runner : Idle(t)
      /\ \A m \in Inbound : unasked[m] = 0
  BY DEF Init, Idle, Content
<1>2. \A J : Hands(J) = {} /\ Held(J) = {}
  BY <1>1 DEF Hands, Held
<1>3. \A J : Cardinality(Hands(J)) = 0 /\ Handed(J) = 0
  BY <1>2, FS_EmptySet DEF Handed
<1>4. \A i : Readers(i) = 0
  BY <1>3 DEF Readers
<1>5. \A m : ~Known(log, m)
  BY <1>1, EmptyIs DEF Known, Range
<1>6. \A m \in Inbound : ByItself(m) = 0 /\ Coming(m) = 1
  BY <1>1, <1>3, <1>5 DEF ByItself, Coming
<1>7. QED BY <1>1, <1>4, <1>6 DEF OnceInv, ReadersInv, ByItselfInv

\* An incoming message prints once without being asked for (ingestion.py,
\* ingest, with the UNIQUE fingerprint of messages.py), for any number of
\* threads that bring it, and at most 1 + k more times for the k-th clear of
\* the log, whatever the restarts.
THEOREM MessagePrintsOnce == Spec => []PrintsItselfOnce
<1>1. Spec => []OnceInv
  <2>1. OnceInv /\ PrintingInv /\ PrintingInv' /\ [Next]_vars => OnceInv'
    BY PrintingAssumption, OnceKeeps
  <2>2. Init => OnceInv
    BY PrintingAssumption, OnceStarts
  <2>3. QED BY <2>1, <2>2, PrintingInvariant, PTL DEF Spec
<1>2. PrintingInv /\ OnceInv => PrintsItselfOnce
  <2> SUFFICES ASSUME PrintingInv, OnceInv, NEW m \in Inbound
               PROVE  2 * unasked[m] <= (clears + 1) * (clears + 2)
    BY DEF PrintsItselfOnce
  <2>1. /\ unasked[m] \in Nat /\ Handed(Printing(m)) \in Nat
        /\ clears \in Nat /\ Coming(m) \in Nat
    BY PrintingAssumption, OnceNumbers
  <2>2. 2 * ((unasked[m] + Handed(Printing(m))) + Coming(m))
          <= (clears + 1) * (clears + 2)
    BY DEF OnceInv, ByItselfInv, ByItself
  <2>3. PICK bound \in Nat : bound = (clears + 1) * (clears + 2)
    BY <2>1
  <2>4. QED BY <2>1, <2>2, <2>3
<1>3. QED BY <1>1, <1>2, PrintingInvariant, PTL
=============================================================================
