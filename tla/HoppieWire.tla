----------------------------- MODULE HoppieWire -----------------------------
(***************************************************************************)
(* From the text of a network reply to the messages the program keeps      *)
(* (hoppie/parser.py, hoppie/cpdlc.py, tap/extract.py).  A reply is "ok"   *)
(* and a block {sender type {body}} per message, on one line, and is taken *)
(* apart by counting braces.  A body is free text: it may hold braces, and *)
(* words that look like the head of a block.  A text is a sequence of      *)
(* words and braces with spaces between them.                              *)
(***************************************************************************)
EXTENDS Integers, Sequences, SequencesExt

CONSTANTS
  Sender,      \* stations that send messages
  Bodies,      \* what they write
  MaxMessages  \* bound on the messages of a reply

Type == {"telex", "cpdlc"}
Digits == "7"
Mark == {"x", "@", Digits, "{", "}"}
Marks == Sender \cup Type \cup Mark

\* The network may number a message.
Message == [id : {<<>>, <<Digits>>}, sender : Sender, type : Type, body : Bodies]

\* A station's name is none of the words and marks of the format.
ASSUME WireAssumption ==
  /\ Sender \cap (Type \cup Mark) = {}
  /\ Bodies \subseteq Seq(Marks) /\ MaxMessages \in Nat

Own == "OWN"
NoCallsign == "-"

VARIABLES
  stage,   \* "sent", "read" or "taken"
  written, \* the messages the network has for the aircraft
  status,  \* the first word of the reply
  asked,   \* the request it answers: its type, callsign and station
  filter,  \* the callsign the tap is limited to
  parsed,  \* what parse_response makes of the reply
  taken    \* the messages kept, and whether each is printed though known

wireVars == <<stage, written, status, asked, filter, parsed, taken>>

Block(m) ==
  <<"{">> \o m.id \o <<m.sender, m.type, "{">> \o m.body \o <<"}", "}">>
Wire == FlattenSeq([i \in DOMAIN written |-> Block(written[i])])

-----------------------------------------------------------------------------
(* _extract_blocks reads a reply mark by mark.                             *)

Brace(mark) == IF mark = "{" THEN 1 ELSE IF mark = "}" THEN -1 ELSE 0

\* ok: nothing stood outside of the blocks; depth: the braces open; block: the
\* marks of the block it is in; blocks: the complete ones.
ScanStart == [ok |-> TRUE, depth |-> 0, block |-> <<>>, blocks |-> <<>>]

ScanMark(scan, mark) ==
  IF scan.depth = 0
    THEN IF mark = "{" THEN [scan EXCEPT !.depth = 1, !.block = <<>>]
                       ELSE [scan EXCEPT !.ok = FALSE]
  ELSE IF scan.depth = 1 /\ mark = "}"
    THEN [scan EXCEPT !.depth = 0, !.blocks = Append(@, scan.block)]
  ELSE [scan EXCEPT !.depth = @ + Brace(mark), !.block = Append(@, mark)]

Scan(text) ==
  LET scan[i \in 0..Len(text)] ==
        IF i = 0 THEN ScanStart ELSE ScanMark(scan[i - 1], text[i])
  IN scan[Len(text)]

-----------------------------------------------------------------------------
(* _parse_block and parse_response.                                        *)

\* A number before the rest of a block is dropped.
Unnumbered(block) ==
  IF Len(block) >= 2 /\ block[1] = Digits THEN Tail(block) ELSE block

\* The first brace behind a space: a block itself starts without one.
OpensBody(block, k) ==
  k \in 2..Len(block) /\ block[k] = "{" /\ \A i \in 2..(k - 1) : block[i] # "{"

\* Any two words or more before the brace are a sender and a type; a block
\* without them, or not ended by a brace, is dropped.
IsMessage(block) ==
  LET text == Unnumbered(block) IN
  (\E k \in 3..Len(text) : OpensBody(text, k)) /\ Last(text) = "}"

Opening(text) == CHOOSE k \in 3..Len(text) : OpensBody(text, k)

\* A type is one word of those known.
TypeOf(words) == IF Len(words) = 1 /\ words[1] \in Type THEN words[1] ELSE "unknown"

\* Bug: the first closing brace of the text, not its last, ends the body.
BodyToFirstBrace(text) ==
  SubSeq(text, Opening(text) + 1, SelectInSeq(text, LAMBDA m : m = "}") - 1)

Body(text) == SubSeq(text, Opening(text) + 1, Len(text) - 1)

\* The marks an aircraft wraps lines at become spaces.
Expanded(type, body) ==
  IF type # "cpdlc" THEN body
  ELSE [i \in DOMAIN body |-> IF body[i] = "@" THEN " " ELSE body[i]]

AsMessage(block, callsign) ==
  LET text == Unnumbered(block)
      type == TypeOf(SubSeq(text, 2, Opening(text) - 1))
  IN [callsign |-> callsign, sender |-> text[1], type |-> type,
      body |-> Expanded(type, Body(text))]

Parsed(blocks, callsign) ==
  FlattenSeq([i \in DOMAIN blocks |->
                IF IsMessage(blocks[i]) THEN <<AsMessage(blocks[i], callsign)>>
                                        ELSE <<>>])

Failed == [ok |-> FALSE, messages |-> <<>>]

\* Text outside of the blocks, or a brace left open, and no block counts.
ParseResponse(callsign) ==
  LET scan == Scan(Wire) IN
  IF status # "ok" \/ ~scan.ok \/ scan.depth # 0 THEN Failed
  ELSE [ok |-> TRUE, messages |-> Parsed(scan.blocks, callsign)]

-----------------------------------------------------------------------------
(* messages_from_hoppie_exchange.                                          *)

Kept(messages) ==
  FlattenSeq([i \in DOMAIN messages |->
                IF filter \in {NoCallsign, messages[i].callsign, messages[i].sender}
                  THEN <<messages[i]>> ELSE <<>>])

\* The kinds of request that send something are answered alike.
Sends == {"telex"}
Caller ==
  IF asked.from # NoCallsign THEN asked.from
  ELSE IF filter # NoCallsign THEN filter ELSE "UNKNOWN"

\* The answer to a request for weather is labelled with the request, unless
\* it starts with it, and is printed every time.
Labelled(m) ==
  IF asked.packet = "" \/ (m.body # <<>> /\ Head(m.body) = asked.packet) THEN m
  ELSE [m EXCEPT !.body = <<asked.packet>> \o @]

Nothing == [messages |-> <<>>, force |-> FALSE]

Exchange(read) ==
  LET mine == Kept(read.messages) IN
  IF \/ asked.type = "ping" \/ ~read.ok
     \/ NoCallsign \notin {filter, asked.from} /\ asked.from # filter
     \/ asked.type = "inforeq" /\ mine = <<>>
    THEN Nothing
  ELSE IF asked.type = "inforeq"
    THEN [messages |-> [i \in DOMAIN mine |-> Labelled(mine[i])], force |-> TRUE]
  ELSE [messages |-> mine, force |-> FALSE]

-----------------------------------------------------------------------------
WireInit ==
  /\ stage = "sent" /\ parsed = Failed /\ taken = Nothing
  /\ written \in SeqOf(Message, MaxMessages)
  /\ status \in {"ok", "error"} /\ (status = "error" => written = <<>>)
  /\ filter \in {NoCallsign, Own}
  /\ \E type \in {"poll", "ping", "inforeq"} \cup Sends, from \in {NoCallsign, Own, "OTH"} :
       asked = [type |-> type, from |-> from,
                packet |-> IF type = "inforeq" THEN "METAR" ELSE ""]

ReadReply ==
  /\ stage = "sent" /\ stage' = "read"
  /\ parsed' = ParseResponse(Caller)
  /\ UNCHANGED <<written, status, asked, filter, taken>>

TakeMessages ==
  /\ stage = "read" /\ stage' = "taken"
  /\ taken' = Exchange(parsed)
  /\ UNCHANGED <<written, status, asked, filter, parsed>>

WireNext == ReadReply \/ TakeMessages

WireSpec == WireInit /\ [][WireNext]_wireVars

-----------------------------------------------------------------------------
\* How deep in braces a text is after its i-th mark.
Depth(text) ==
  LET deep[i \in 0..Len(text)] == IF i = 0 THEN 0 ELSE deep[i - 1] + Brace(text[i])
  IN deep

Balanced(body) ==
  LET deep == Depth(body) IN
  deep[Len(body)] = 0 /\ \A i \in DOMAIN body : deep[i] >= 0

\* A reply whose bodies close the braces they open is read message for message
\* as it was written, whatever words and braces the bodies hold; and all of
\* them reach the tap if the aircraft that asked is the one the tap is limited
\* to.  An error, or a reply that closes more or fewer braces than it opens,
\* gives nothing, not even the messages before the fault.  (A body that closes
\* its own block and opens another reads as two messages.)
ReadAsWritten ==
  stage = "taken" =>
    /\ status = "ok" /\ (\A i \in DOMAIN written : Balanced(written[i].body)) =>
         /\ Len(parsed.messages) = Len(written)
         /\ \A i \in DOMAIN written : \E m \in {parsed.messages[i]} :
              /\ m.sender = written[i].sender /\ m.type = written[i].type
              /\ m.body = Expanded(m.type, written[i].body)
         /\ asked.from = Own /\ asked.type # "ping"
              => Len(taken.messages) = Len(written)
    /\ status # "ok" \/ Depth(Wire)[Len(Wire)] # 0 => taken.messages = <<>>
=============================================================================
