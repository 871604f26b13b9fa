--------------------------- MODULE MessagePrinting ---------------------------
(***************************************************************************)
(* From a message or a request to a strip and its record: ingestion        *)
(* (services/ingestion.py), the message store, the print managers          *)
(* (services/print_manager.py) and the device.                             *)
(*                                                                         *)
(* Several threads ingest and ask for prints: the tap's proxy workers, the *)
(* station poller, the phone's requests, the command thread.  Each access  *)
(* of the store takes the database lock for itself; the strip is cut and   *)
(* recorded under the lock of its print manager.  A settings save builds   *)
(* another print stack (AppSession.rebuild_printer) and leaves the old one *)
(* running.                                                                *)
(*                                                                         *)
(* The gate is SterileGate's subject; here it lets a job pass or holds it, *)
(* as it likes, and print workers take what it has released.               *)
(***************************************************************************)
EXTENDS MessageLog, FiniteSets

CONSTANTS
  Inbound,      \* incoming messages, as the fingerprint tells them apart
  Printable,    \* those of a type that is printed automatically
  Ticket,       \* SimBrief tickets
  Thread,       \* the threads that ingest and ask
  MaxStacks,    \* bound on the print stacks built
  MaxAsks,      \* bound on messages received and prints asked for
  MaxEvents     \* bound on clears of the log and restarts, together

Content == Inbound \cup Ticket
Stack == 1 .. MaxStacks
Worker == Stack                \* each stack has a print worker
Runner == Thread \cup Worker
NoId == 0

ASSUME PrintingAssumption ==
  /\ Printable \subseteq Inbound /\ Inbound \cap Ticket = {}
  /\ Thread \cap Worker = {}
  /\ MaxStacks \in Nat \ {0} /\ MaxAsks \in Nat /\ MaxEvents \in Nat

VARIABLES
  log,       \* the messages table
  records,   \* the print_jobs table, with what was printed
  doing,     \* what each runner has in hand, <<>> for nothing
  held,      \* jobs the gate holds or has released to the print workers
  stack,     \* the print stack in force
  owed,      \* history: strips due, per content
  tried,     \* history: strips printed or failed, per content
  unasked,   \* history: strips printed because a message came in
  asks, clears, restarts

tables == <<log, records>>
history == <<owed, tried, unasked, asks, clears, restarts>>
vars == <<tables, doing, held, stack, history>>

Idle(t) == doing[t] = <<>>
At(t, place) == doing[t] # <<>> /\ doing[t][1].at = place
Job(t) == doing[t][1]

Init ==
  /\ log = EmptyLog /\ records = <<>>
  /\ doing = [t \in Runner |-> <<>>]
  /\ held = <<>> /\ stack = 1
  /\ owed = [c \in Content |-> 0] /\ tried = [c \in Content |-> 0]
  /\ unasked = [c \in Content |-> 0]
  /\ asks = 0 /\ clears = 0 /\ restarts = 0

-----------------------------------------------------------------------------
(* Bringing a job to the gate: it runs in the thread itself, or is held.   *)

Bring(t, job) ==
  \/ /\ doing' = [doing EXCEPT ![t] = <<[job EXCEPT !.at = "print"]>>]
     /\ UNCHANGED held
  \/ /\ doing' = [doing EXCEPT ![t] = <<>>]
     /\ held' = Append(held, [job EXCEPT !.at = "print"])

Owe(c) == owed' = [owed EXCEPT ![c] = @ + 1]

Ask == asks < MaxAsks /\ asks' = asks + 1

NewJob(at, id, c, again, force) ==
  [at |-> at, stack |-> stack, id |-> id, content |-> c, again |-> again,
   force |-> force]

-----------------------------------------------------------------------------
(* ingest, one message.                                                    *)

\* insert_inbound up to the end of its transaction.
ReceiveNew(t, m, force) ==
  /\ Idle(t) /\ Ask
  /\ ~Known(log, m)
  /\ log' = Insert(log, m)
  /\ doing' = [doing EXCEPT ![t] = <<NewJob("stored", NextId(log), m, FALSE, force)>>]
  /\ IF m \in Printable THEN Owe(m) ELSE UNCHANGED owed
  /\ UNCHANGED <<records, held, stack, tried, unasked, clears, restarts>>

\* A duplicate prints again only when somebody asked for it.
ReceiveDuplicate(t, m, force) ==
  /\ Idle(t) /\ Ask
  /\ Known(log, m)
  /\ IF force /\ m \in Printable
     THEN /\ doing' = [doing EXCEPT ![t] = <<NewJob("known", NoId, m, TRUE, force)>>]
          /\ Owe(m)
     ELSE UNCHANGED <<doing, owed>>
  /\ UNCHANGED <<tables, held, stack, tried, unasked, clears, restarts>>

\* The fault of reading the last row back.
RowReadLast(id) == log.rows[log.sequence]

\* The row insert_inbound returns.
RowRead(id) == log.rows[id]

\* It reads its row back in a second transaction.  A row that is gone counts
\* as a duplicate; for a ticket the assertion fails.
ReadBack(t) ==
  /\ At(t, "stored")
  /\ LET j == Job(t) IN
       IF j.id \notin DOMAIN log.rows
       THEN /\ doing' = [doing EXCEPT ![t] =
                 IF j.force /\ j.content \in Printable
                 THEN <<[j EXCEPT !.at = "known", !.again = TRUE]>> ELSE <<>>]
            /\ UNCHANGED held
       ELSE IF j.content \in Ticket
       THEN /\ doing' = [doing EXCEPT ![t] = <<[j EXCEPT !.at = "print"]>>]
            /\ UNCHANGED held
       ELSE IF j.content \in Printable
       THEN Bring(t, [j EXCEPT !.content = RowRead(j.id)])
       ELSE /\ doing' = [doing EXCEPT ![t] = <<>>]
            /\ UNCHANGED held
  /\ UNCHANGED <<tables, stack, history>>

\* A refreshed duplicate is looked up by its fingerprint.
FindKnown(t) ==
  /\ At(t, "known")
  /\ LET j == Job(t) IN
       IF Known(log, j.content)
       THEN Bring(t, [j EXCEPT !.id = IdOf(log, j.content)])
       ELSE /\ doing' = [doing EXCEPT ![t] = <<>>]
            /\ UNCHANGED held
  /\ UNCHANGED <<tables, stack, history>>

-----------------------------------------------------------------------------
(* Prints that somebody asks for.                                          *)

\* Reprint a message of the list (cmd_print_message).
AskReprint(t, id) ==
  /\ Idle(t) /\ Ask
  /\ id \in DOMAIN log.rows
  /\ Bring(t, NewJob("print", id, log.rows[id], TRUE, FALSE))
  /\ Owe(log.rows[id])
  /\ UNCHANGED <<tables, stack, tried, unasked, clears, restarts>>

\* Records of a successful print whose message is still there.
Printed == {i \in DOMAIN records : records[i].ok}

\* Reprint the last strip (reprint_last, latest_successfully_printed).
AskReprintLast(t) ==
  /\ Printed # {}
  /\ AskReprint(t, records[CHOOSE i \in Printed : \A k \in Printed : k <= i].id)

\* A ticket's row is inserted when its job runs.
AskTicket(t, k) ==
  /\ Idle(t) /\ Ask
  /\ Bring(t, NewJob("print", NoId, k, TRUE, FALSE))
  /\ Owe(k)
  /\ UNCHANGED <<tables, stack, tried, unasked, clears, restarts>>

StoreTicket(t) ==
  /\ At(t, "print") /\ Job(t).id = NoId
  /\ log' = Insert(log, Job(t).content)
  /\ doing' = [doing EXCEPT ![t] =
       <<[Job(t) EXCEPT !.at = "stored", !.id = NextId(log)]>>]
  /\ UNCHANGED <<records, held, stack, history>>

-----------------------------------------------------------------------------
(* Printing: PrintManager._emit.                                           *)

\* A message held at ingestion keeps its print stack; the job of a reprint or
\* of a ticket looks up the stack in force when it runs.
StackOf(job) == IF job.again /\ ~job.force THEN stack ELSE job.stack

\* A print worker takes up what the gate has released.
TakeHeld(w) ==
  /\ w <= stack
  /\ Idle(w) /\ held # <<>>
  /\ doing' = [doing EXCEPT ![w] =
                <<[Head(held) EXCEPT !.stack = StackOf(Head(held))]>>]
  /\ held' = Tail(held)
  /\ UNCHANGED <<tables, stack, history>>

\* The fault of taking the lock again for a ticket's pairing code.
CuttingOrPairing(s) ==
  {t \in Runner : ~Idle(t) /\ Job(t).stack = s /\
     (Job(t).at = "cut" \/ (Job(t).at = "print" /\ Job(t).content \in Ticket))}

Cutting(s) == {t \in Runner : At(t, "cut") /\ Job(t).stack = s}

\* The strip starts, under its manager's lock.
StartPrint(t) ==
  /\ At(t, "print") /\ Job(t).id # NoId
  /\ Cutting(Job(t).stack) = {}
  /\ doing' = [doing EXCEPT ![t] = <<[Job(t) EXCEPT !.at = "cut"]>>]
  /\ UNCHANGED <<tables, held, stack, history>>

\* The fault of a database that does not check foreign keys.
RecordedAlways(id) == TRUE

Recorded(id) == id \in DOMAIN log.rows

\* It ends or fails, and is recorded.  A record of a message that is gone is
\* refused by the foreign key: the thread gets an exception.
FinishPrint(t, ok) ==
  /\ At(t, "cut")
  /\ LET j == Job(t) IN
       /\ records' = IF Recorded(j.id)
                     THEN Append(records, [id |-> j.id, content |-> j.content, ok |-> ok])
                     ELSE records
       /\ tried' = [tried EXCEPT ![j.content] = @ + 1]
       /\ unasked' = IF ok /\ ~j.again
                     THEN [unasked EXCEPT ![j.content] = @ + 1] ELSE unasked
  /\ doing' = [doing EXCEPT ![t] = <<>>]
  /\ UNCHANGED <<log, held, stack, owed, asks, clears, restarts>>

-----------------------------------------------------------------------------
(* Settings, the log's clearing, restart.                                  *)

Rebuild ==
  /\ stack < MaxStacks
  /\ stack' = stack + 1
  /\ UNCHANGED <<tables, doing, held, history>>

Disturb == clears + restarts < MaxEvents

\* clear_all: on the clear command, and at the boot of the desktop shell's
\* child, whose threads are running by then.
Clear ==
  /\ Disturb
  /\ clears' = clears + 1
  /\ log' = EmptyLog /\ records' = <<>>
  /\ UNCHANGED <<doing, held, stack, owed, tried, unasked, asks, restarts>>

\* The program stops anywhere; its tables are on disk.
Restart ==
  /\ Disturb
  /\ restarts' = restarts + 1
  /\ doing' = [t \in Runner |-> <<>>] /\ held' = <<>> /\ stack' = 1
  /\ UNCHANGED <<tables, owed, tried, unasked, asks, clears>>

Steps(t) ==
  \/ ReadBack(t) \/ FindKnown(t) \/ StoreTicket(t) \/ StartPrint(t)
  \/ \E ok \in BOOLEAN : FinishPrint(t, ok)

Next ==
  \/ \E t \in Thread :
       \/ \E m \in Inbound, force \in BOOLEAN :
            ReceiveNew(t, m, force) \/ ReceiveDuplicate(t, m, force)
       \/ \E id \in DOMAIN log.rows : AskReprint(t, id)
       \/ AskReprintLast(t)
       \/ \E k \in Ticket : AskTicket(t, k)
  \/ \E w \in Worker : TakeHeld(w)
  \/ \E t \in Runner : Steps(t)
  \/ Rebuild \/ Clear \/ Restart

Spec == Init /\ [][Next]_vars

\* Threads and workers run and prints end; a lock that is free again and
\* again is got (strong, on the start).  The gate releases what it holds.
Fairness ==
  \A t \in Runner :
    /\ WF_vars(ReadBack(t) \/ FindKnown(t) \/ StoreTicket(t))
    /\ SF_vars(StartPrint(t))
    /\ WF_vars(\E ok \in BOOLEAN : FinishPrint(t, ok))
    /\ t \in Worker => WF_vars(TakeHeld(t))

FairSpec == Spec /\ Fairness

-----------------------------------------------------------------------------
(* Properties.                                                             *)

Jobs ==
  [at : {"stored", "known", "print", "cut"}, stack : Stack, id : Nat,
   content : Content, again : BOOLEAN, force : BOOLEAN]

\* Types.
TypeOK ==
  /\ \A id \in DOMAIN log.rows : id \in 1 .. log.sequence /\ log.rows[id] \in Content
  /\ \A i \in DOMAIN records : records[i].id \in DOMAIN log.rows
  /\ \A t \in Runner : Idle(t) \/ Job(t) \in Jobs
  /\ \A i \in DOMAIN held : held[i] \in Jobs
  /\ stack \in Stack
  /\ owed \in [Content -> Nat] /\ tried \in [Content -> Nat]
  /\ unasked \in [Content -> Nat]
  /\ asks \in 0 .. MaxAsks /\ clears \in 0 .. MaxEvents /\ restarts \in 0 .. MaxEvents

Undisturbed == clears = 0 /\ restarts = 0

InHand(c) == {t \in Runner : ~Idle(t) /\ Job(t).content = c}
Waiting(c) == {i \in DOMAIN held : held[i].content = c}

\* Every strip that is due is in one place: a thread has it in hand, it waits
\* at the gate, or it was printed or failed, through duplicates that race
\* their first copy, reprints and a rebuilt print stack.
StripsAccounted ==
  Undisturbed =>
    \A c \in Content \ (Inbound \ Printable) :
      owed[c] = tried[c] + Cardinality(InHand(c)) + Cardinality(Waiting(c))

\* An incoming message prints by itself once (the fingerprint is UNIQUE).
\* The k-th clear of the log adds 1 + k: the message may come again, and for
\* each clear so far a thread that still reads back a row from before it may
\* find the message under that row's id.
PrintsItselfOnce ==
  \A m \in Inbound : 2 * unasked[m] <= (clears + 1) * (clears + 2)

\* "User-triggered request: always print a real reply (even duplicates)"
\* (outbound.py), and every new message of a printable type: what is due is
\* tried in the end.
DueIsTried ==
  \A c \in Content, n \in 1 .. MaxAsks :
    (owed[c] >= n) ~> (tried[c] >= n \/ ~Undisturbed)

\* "Serializes all thermal output onto one worker so cuts never overlap"
\* (PrintManager).
CutsNeverOverlap == Cardinality({t \in Runner : At(t, "cut")}) <= 1

=============================================================================
