----------------------------- MODULE ProxyForms -----------------------------
(***************************************************************************)
(* One HTTP exchange in the proxy (tap/proxy.py).  The aircraft's request  *)
(* carries its fields in the query, in the body, or in both; a request for *)
(* the network that names no callsign gets the configured one; the reply   *)
(* goes to the aircraft as it came, and what can be read of it to the tap. *)
(* A body's length is known by the fields it was counted for.              *)
(***************************************************************************)
EXTENDS Naturals, Sequences, SequencesExt

CONSTANTS
  FieldValue, \* the values a field may have, beside the empty one
  FillFrom,   \* fill_from_callsign, or the empty value
  MaxFields   \* bound on the fields of a query or a body

Empty == ""
Key == {"from", "logon"}
Field == Key \X (FieldValue \cup {Empty})
Fields == SeqOf(Field, MaxFields)
NoLength == <<"none">>
Path == {"connect", "datalink", "asset"}

VARIABLES
  exchange, \* "received", "forwarded", "answered" or "told"
  request,  \* path, query and body of the aircraft, and the Content-Length;
            \* wire is the proxy's wire_format
  sent,     \* what the network was sent
  reply,    \* the network's reply: its encoding and what it reads as
  heard     \* the tap was given the exchange, and its form

formVars == <<exchange, request, sent, reply, heard>>

-----------------------------------------------------------------------------
(* Reading a form.                                                         *)

Has(pairs, k) == \E i \in DOMAIN pairs : pairs[i][1] = k

\* Of a field that is given twice, the first.
Given(pairs, k) ==
  IF Has(pairs, k) THEN pairs[SelectInSeq(pairs, LAMBDA f : f[1] = k)][2] ELSE Empty

\* The query, then the body, whose empty fields wipe nothing.
FormField(req, k) ==
  IF Given(req.body, k) # Empty THEN Given(req.body, k) ELSE Given(req.query, k)

Form(req) == [k \in Key |-> FormField(req, k)]

-----------------------------------------------------------------------------
(* Filling in the callsign.                                                *)

\* Bug: a field that is there counts as given, though it may be empty.
PatchMissing(pairs) ==
  IF pairs = <<>> \/ Has(pairs, "from") THEN pairs
  ELSE Append(pairs, <<"from", FillFrom>>)

\* Every empty callsign is filled in, a missing one is added at the end; no
\* fields at all stay no fields.
PatchFields(pairs) ==
  LET filled == [i \in DOMAIN pairs |->
                   IF pairs[i] = <<"from", Empty>> THEN <<"from", FillFrom>>
                                                   ELSE pairs[i]]
  IN IF pairs = <<>> \/ Has(pairs, "from") THEN filled
     ELSE Append(filled, <<"from", FillFrom>>)

\* The length is counted again when something was filled in.
Patched(req) ==
  LET query == PatchFields(req.query)
      body == PatchFields(req.body)
  IN IF query = req.query /\ body = req.body THEN req
     ELSE [req EXCEPT !.query = query, !.body = body,
                      !.length = IF @ = NoLength THEN @ ELSE body]

ForNetwork(req) ==
  /\ req.wire # "gfo" /\ req.path = "connect" /\ FormField(req, "logon") # Empty

Forwarded(req) == IF ForNetwork(req) /\ FillFrom # Empty THEN Patched(req) ELSE req

-----------------------------------------------------------------------------
(* Reading the reply.                                                      *)

\* "plain" stands for every encoding that is undone, "br" for the others.
Encoding == {"plain", "br"}
Text == {"ok", "success", "page", "none"}

Readable(r) == r.encoding # "br"

\* An error of the network reads as "ok" here: both are the protocol.
LooksLikeHoppie(req, text) ==
  /\ req.path = "connect" /\ text # "none"
  /\ FormField(req, "logon") # Empty \/ text = "ok"

LooksLikeGfo(req, text) == req.path = "datalink" /\ text = "success"

Concerns(req, r) ==
  /\ Readable(r)
  /\ IF req.wire = "gfo" THEN LooksLikeGfo(req, r.text) ELSE LooksLikeHoppie(req, r.text)

-----------------------------------------------------------------------------
NoReply == [encoding |-> "plain", text |-> "none"]

\* A body comes with its length, or the request has none; a body of other
\* length than announced is cut or waited for before this point.
FormsInit ==
  /\ exchange = "received" /\ reply = NoReply /\ heard = FALSE
  /\ \E path \in Path, query \in Fields, body \in Fields, wire \in {"hoppie", "gfo"} :
       request = [wire |-> wire, path |-> path, query |-> query, body |-> body,
                  length |-> IF body = <<>> THEN NoLength ELSE body]
  /\ sent = request

Forward ==
  /\ exchange = "received" /\ exchange' = "forwarded"
  /\ sent' = Forwarded(request)
  /\ UNCHANGED <<request, reply, heard>>

\* The connection breaks, or no reply comes: the aircraft gets none either.
Breaks ==
  /\ exchange = "forwarded" /\ exchange' = "broken"
  /\ UNCHANGED <<request, sent, reply, heard>>

Replies(r) ==
  /\ exchange = "forwarded" /\ exchange' = "answered"
  /\ reply' = r
  /\ UNCHANGED <<request, sent, heard>>

\* The aircraft has its reply before the tap looks at it.
Tell ==
  /\ exchange = "answered" /\ exchange' = "told"
  /\ heard' = Concerns(sent, reply)
  /\ UNCHANGED <<request, sent, reply>>

FormsNext ==
  \/ Forward \/ Breaks \/ Tell
  \/ \E r \in [encoding : Encoding, text : Text] : Replies(r)

FormsSpec == FormsInit /\ [][FormsNext]_formVars

-----------------------------------------------------------------------------
\* What the network reads is what the aircraft wrote, with a callsign where it
\* gave none: no other field changes, a callsign it gave stays (unless its
\* fields are split between query and body), every request of the network has
\* one, and the length announced is the length of the body that is sent.
FormIsKept ==
  exchange # "received" =>
    LET was == Form(request) now == Form(sent) IN
    /\ \A k \in Key \ {"from"} : now[k] = was[k]
    /\ sent.length = NoLength \/ sent.length = sent.body
    /\ was.from # Empty /\ (request.query = <<>> \/ request.body = <<>>)
         => now.from = was.from
    /\ ForNetwork(request) /\ FillFrom # Empty => now.from # Empty
=============================================================================
