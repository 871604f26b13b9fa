----------------------------- MODULE PhoneInbox -----------------------------
(***************************************************************************)
(* The phone's inbox page (companion/static/app.js) over the message store *)
(* (companion/api.py): the page loads the newest rows, polls for rows with *)
(* ids above the newest it has shown, asks for older ones, opens a message *)
(* and replies to it.  Each request is sent, answered by the server and    *)
(* delivered to the page in steps of its own; several are under way at     *)
(* once, and each of them may fail.                                        *)
(***************************************************************************)
EXTENDS MessageLog

CONSTANTS
  PageLimit,    \* rows of a page (40)
  PollLimit,    \* rows of a poll's answer (50)
  MaxArrivals,  \* bound on the rows stored
  MaxSlots,     \* bound on the requests under way at once
  MaxLoads,     \* bound on opening and refreshing the page
  MaxClears     \* bound on the log's clearing

Slot == 1 .. MaxSlots
Row == [id : Nat, content : Nat]
NoId == 0

ASSUME InboxAssumption ==
  /\ \A n \in {PageLimit, PollLimit, MaxSlots, MaxLoads} : n \in Nat \ {0}
  /\ MaxArrivals \in Nat /\ MaxClears \in Nat

VARIABLES
  log,       \* the messages table; a row's content is the number of its arrival
  arrived,   \* rows stored so far
  live,      \* the page polls: its first load came
  shown,     \* the rows listed, top first
  newest, oldest,    \* newestId, oldestId (NoId for null)
  detail,    \* the message opened, <<>> for none
  requests,  \* per slot, the request under way, <<>> for none
  loads, clears,
  loadedAt,  \* history: clears when the list was last loaded
  crossed,   \* history: kinds of list request that met another one since then
  replies    \* history: what was read and what was answered, per reply

list == <<live, shown, newest, oldest>>
store == <<log, arrived>>
history == <<loadedAt, crossed, replies>>
vars == <<store, list, detail, requests, loads, clears, history>>

ListKinds == {"load", "poll", "more"}

Init ==
  /\ log = EmptyLog /\ arrived = 0
  /\ live = FALSE /\ shown = <<>> /\ newest = NoId /\ oldest = NoId
  /\ detail = <<>>
  /\ requests = [s \in Slot |-> <<>>]
  /\ loads = 0 /\ clears = 0
  /\ loadedAt = 0 /\ crossed = {} /\ replies = {}

-----------------------------------------------------------------------------
(* The store.                                                              *)

Arrive ==
  /\ arrived < MaxArrivals
  /\ arrived' = arrived + 1
  /\ log' = Insert(log, arrived + 1)
  /\ UNCHANGED <<list, detail, requests, loads, clears, history>>

\* clear_all, on the clear command and whenever the program starts; the page
\* stays open on the phone.
Clear ==
  /\ clears < MaxClears
  /\ clears' = clears + 1
  /\ log' = EmptyLog
  /\ UNCHANGED <<arrived, list, detail, requests, loads, history>>

-----------------------------------------------------------------------------
(* The page sends.                                                         *)

\* _can_reply: not to what was sent.
CanReply(content) == \A r \in replies : r.sent # content

UnderWay(kinds) ==
  {s \in Slot : requests[s] # <<>> /\ requests[s][1].kind \in kinds}

\* A reply keeps the page busy until the inbox has been loaded again.
Busy == \E s \in Slot : requests[s] # <<>> /\ requests[s][1].purpose = "reply"

Request(kind, about, purpose) ==
  [kind |-> kind, about |-> about, purpose |-> purpose,
   read |-> IF kind = "reply" THEN detail ELSE <<>>,
   answered |-> FALSE, rows |-> <<>>, epoch |-> 0]

Send(s, kind, about, purpose) ==
  /\ requests[s] = <<>>
  /\ \A r \in Slot : r < s => requests[r] # <<>>
  /\ requests' = [requests EXCEPT ![s] = <<Request(kind, about, purpose)>>]
  /\ crossed' = IF kind \in ListKinds /\ UnderWay(ListKinds) # {}
                THEN crossed \cup {kind} \cup
                     {requests[r][1].kind : r \in UnderWay(ListKinds)}
                ELSE crossed

\* loadInbox: first by boot, when the page opens, then by Refresh and after a
\* weather request, a telex or a clearance request.
SendLoad(s) ==
  /\ loads < MaxLoads
  /\ loads' = loads + 1
  /\ Send(s, "load", NoId, IF loads = 0 THEN "boot" ELSE "user")
  /\ UNCHANGED <<store, list, detail, clears, loadedAt, replies>>

\* pollNew returns at once while it knows no newest id.
SendPoll(s) ==
  /\ live /\ newest # NoId
  /\ Send(s, "poll", newest, "timer")
  /\ UNCHANGED <<store, list, detail, loads, clears, loadedAt, replies>>

SendMore(s) ==
  /\ oldest # NoId
  /\ Send(s, "more", oldest, "user")
  /\ UNCHANGED <<store, list, detail, loads, clears, loadedAt, replies>>

SendOpen(s, i) ==
  /\ detail = <<>>
  /\ Send(s, "open", shown[i].id, "user")
  /\ UNCHANGED <<store, list, detail, loads, clears, loadedAt, replies>>

SendReply(s) ==
  /\ ~Busy /\ detail # <<>> /\ CanReply(detail[1].content)
  /\ Send(s, "reply", detail[1].id, "reply")
  /\ UNCHANGED <<store, list, detail, loads, clears, loadedAt, replies>>

CloseDetail ==
  /\ detail # <<>>
  /\ detail' = <<>>
  /\ UNCHANGED <<store, list, requests, loads, clears, history>>

-----------------------------------------------------------------------------
(* The server answers.                                                     *)

AnswerRows(r) ==
  IF r.kind = "poll" THEN RowsSince(log, r.about, PollLimit)
  ELSE IF r.kind = "more" THEN RowsBefore(log, r.about, PageLimit)
  ELSE IF r.kind = "load" THEN RowsNewest(log, PageLimit)
  ELSE IF r.about \in DOMAIN log.rows /\
          (r.kind = "open" \/ CanReply(log.rows[r.about]))
       THEN <<[id |-> r.about, content |-> log.rows[r.about]]>>
       ELSE <<>>

\* api.messages, api.message; reply_cpdlc answers the row that has the id by
\* then and stores the reply.
Answer(s) ==
  /\ requests[s] # <<>> /\ ~requests[s][1].answered
  /\ LET r == requests[s][1]
         rows == AnswerRows(r)
     IN /\ requests' = [requests EXCEPT ![s] =
                          <<[r EXCEPT !.answered = TRUE, !.rows = rows, !.epoch = clears]>>]
        /\ IF r.kind = "reply" /\ rows # <<>>
           THEN /\ arrived < MaxArrivals
                /\ arrived' = arrived + 1
                /\ log' = Insert(log, arrived + 1)
                /\ replies' = replies \cup
                     {[read |-> r.read[1].content, answered |-> rows[1].content,
                       sent |-> arrived + 1]}
           ELSE UNCHANGED <<store, replies>>
  /\ UNCHANGED <<list, detail, loads, clears, loadedAt, crossed>>

-----------------------------------------------------------------------------
(* The page receives: renderMessages.                                      *)

IdsOf(rows) == {rows[i].id : i \in DOMAIN rows}

NewestOf(id, rows) == Max({id} \cup IdsOf(rows))

\* The fault of never setting the oldest id.
OldestKept(id, rows) == id

OldestOf(id, rows) ==
  IF rows = <<>> THEN id ELSE Min((IF id = NoId THEN {} ELSE {id}) \cup IdsOf(rows))

Done(s) == requests' = [requests EXCEPT ![s] = <<>>]

Answered(s, kind) ==
  requests[s] # <<>> /\ requests[s][1].answered /\ requests[s][1].kind = kind

\* A load replaces the list; only boot's starts the polling.
Loaded(s) ==
  /\ Answered(s, "load")
  /\ LET rows == requests[s][1].rows IN
       /\ shown' = rows
       /\ newest' = NewestOf(NoId, rows)
       /\ oldest' = OldestOf(NoId, rows)
  /\ live' = (live \/ requests[s][1].purpose = "boot")
  /\ loadedAt' = requests[s][1].epoch
  /\ crossed' = IF UnderWay(ListKinds) = {s} THEN {} ELSE crossed
  /\ Done(s)
  /\ UNCHANGED <<store, detail, loads, clears, replies>>

\* A poll's rows go on top, newest first.
Polled(s) ==
  /\ Answered(s, "poll")
  /\ LET rows == Reverse(requests[s][1].rows) IN
       /\ shown' = rows \o shown
       /\ newest' = NewestOf(newest, rows)
       /\ oldest' = OldestOf(oldest, rows)
  /\ Done(s)
  /\ UNCHANGED <<store, live, detail, loads, clears, history>>

\* Older rows go to the end.
MoreLoaded(s) ==
  /\ Answered(s, "more")
  /\ LET rows == requests[s][1].rows IN
       /\ shown' = shown \o rows
       /\ newest' = NewestOf(newest, rows)
       /\ oldest' = OldestOf(oldest, rows)
  /\ Done(s)
  /\ UNCHANGED <<store, live, detail, loads, clears, history>>

Opened(s) ==
  /\ Answered(s, "open")
  /\ detail' = requests[s][1].rows
  /\ Done(s)
  /\ UNCHANGED <<store, list, loads, clears, history>>

\* The reply went out: the message is closed and the inbox loaded again.
Replied(s) ==
  /\ Answered(s, "reply") /\ requests[s][1].rows # <<>>
  /\ detail' = <<>>
  /\ requests' = [requests EXCEPT ![s] = <<Request("load", NoId, "reply")>>]
  /\ crossed' = IF UnderWay(ListKinds) # {}
                THEN crossed \cup {"load"} \cup
                     {requests[r][1].kind : r \in UnderWay(ListKinds)}
                ELSE crossed
  /\ UNCHANGED <<store, list, loads, clears, loadedAt, replies>>

\* No answer, or an error: the page says so and goes on.
Fails(s) ==
  /\ requests[s] # <<>>
  /\ Done(s)
  /\ UNCHANGED <<store, list, detail, loads, clears, history>>

Received(s) ==
  Loaded(s) \/ Polled(s) \/ MoreLoaded(s) \/ Opened(s) \/ Replied(s)

Next ==
  \/ Arrive \/ Clear \/ CloseDetail
  \/ \E s \in Slot :
       \/ SendLoad(s) \/ SendPoll(s) \/ SendMore(s) \/ SendReply(s)
       \/ \E i \in DOMAIN shown : SendOpen(s, i)
       \/ Answer(s) \/ Received(s) \/ Fails(s)

Spec == Init /\ [][Next]_vars

\* The page is opened and goes on polling (an interval timer, whatever else
\* is under way); requests are answered and received again and again, not
\* necessarily each of them.  The user does nothing more.
Fairness ==
  /\ WF_vars(loads = 0 /\ \E s \in Slot : SendLoad(s))
  /\ SF_vars(\E s \in Slot : SendPoll(s))
  /\ \A s \in Slot : SF_vars(Answer(s)) /\ SF_vars(Received(s))
  /\ \A s \in Slot : WF_vars(Fails(s))

FairSpec == Spec /\ Fairness

-----------------------------------------------------------------------------
(* Properties.                                                             *)

\* Types; the list is empty exactly while the page knows no oldest id.
TypeOK ==
  /\ \A id \in DOMAIN log.rows : id \in 1 .. log.sequence
  /\ arrived \in 0 .. MaxArrivals
  /\ shown \in Seq(Row) /\ newest \in Nat /\ oldest \in 0 .. newest
  /\ shown = <<>> <=> oldest = NoId
  /\ detail = <<>> \/ (Len(detail) = 1 /\ detail[1] \in Row)
  /\ \A s \in Slot : requests[s] # <<>> =>
       requests[s][1].kind \in ListKinds \cup {"open", "reply"}
  /\ loads \in 0 .. MaxLoads /\ clears \in 0 .. MaxClears
  /\ loadedAt \in 0 .. clears
  /\ crossed \subseteq ListKinds

Current == live /\ loadedAt = clears

\* While the log is not cleared under the page and no load crosses another
\* request, the list has no gap: every row between the oldest and the newest
\* id it knows is in it, however polls and requests for older rows overlap,
\* fail or overtake each other, and however many rows arrive between two
\* polls (list_since is oldest first, so its limit cuts off the newest).
InboxHasNoGap ==
  Current /\ "load" \notin crossed =>
    \A id \in DOMAIN log.rows :
      oldest <= id /\ id <= newest /\ oldest # NoId =>
        \E i \in DOMAIN shown :
          shown[i] = [id |-> id, content |-> log.rows[id]]

\* While no two list requests are under way at once, the list is newest
\* first, with no row twice.
InboxInOrder ==
  Current /\ crossed = {} =>
    \A i, k \in DOMAIN shown : i < k => shown[i].id > shown[k].id

\* "Open a page on your phone [...] to read the ACARS inbox" (README): an
\* open page shows a stored row in the end, unless the log is cleared.
InboxArrives ==
  \A id \in 1 .. MaxArrivals :
    (id \in DOMAIN log.rows /\ live) ~> (newest >= id \/ clears > 0)

\* "open a message to Print or send WILCO" (README): a reply answers the
\* message that was read.
ReplyAnswersWhatWasRead == \A r \in replies : r.read = r.answered

=============================================================================
