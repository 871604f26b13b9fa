-------------------------- MODULE OutboundRequests --------------------------
(***************************************************************************)
(* What the phone asks the program to send (services/outbound.py): telex,  *)
(* CPDLC reply, PDC and position report, and requests for weather and      *)
(* ATIS, which have public sources to fall back on.  Each request runs on  *)
(* a thread of the phone's server, beside the poll thread and the commands *)
(* of CompanionStation and the tap that stores and clears the aircraft's   *)
(* logon.                                                                  *)
(***************************************************************************)
EXTENDS CompanionStation

CONSTANTS
  Phone,      \* the server's threads
  MaxPackets  \* packets an ATIS request may try (3 in the code)

ASSUME PacketAssumption == MaxPackets \in Nat \ {0}

VARIABLE request  \* per thread, its request

requestVars == <<network, vault, stationVars, request>>

\* downlink: a telex, PDC, position report or CPDLC reply.
Kind == {"downlink", "weather", "vatsim", "ivao", "pilotedge"}

\* tries: the packets left; rows: entries made in the log as sent; strips:
\* replies handed over to be printed; public: the public source was asked.
NoRequest ==
  [kind |-> "downlink", stage |-> "idle", tries |-> 1, rows |-> 0, strips |-> 0,
   public |-> FALSE]

RequestInit ==
  /\ network \in Network /\ vault = NoCreds
  /\ StationInit
  /\ request = [t \in Phone |-> NoRequest]

Goes(t, stage) == request' = [request EXCEPT ![t].stage = stage]
UnchangedStation == UNCHANGED <<network, stationVars>>

\* IVAO has no other source than the public one; VATSIM's feed says which
\* packets to try, three for an airport with a departure and an arrival station
\* when the side is not known.
FirstStage(kind) ==
  CASE kind = "ivao" -> "public"
    [] kind \in {"weather", "vatsim"} -> "choose"
    [] OTHER -> "identify"

Ask(t, kind, tries) ==
  /\ request[t].stage = "idle"
  /\ tries = 1 \/ kind = "vatsim"
  /\ request' = [request EXCEPT ![t] =
       [NoRequest EXCEPT !.kind = kind, !.tries = tries,
                         !.stage = FirstStage(kind)]]
  /\ UNCHANGED vault /\ UnchangedStation

-----------------------------------------------------------------------------
(* _require_credentials: in station mode the logon of the settings and the *)
(* callsign resolved, else what the tap saw on the aircraft's connection.  *)

Identified(known) == IF station THEN known ELSE Got # NoCreds
LooksUp == vault' = IF station THEN vault ELSE Got

\* _hoppie_credentials: a first look, to choose between network and public.
Choose(t, known) ==
  /\ request[t].stage = "choose"
  /\ Goes(t, IF Identified(known) THEN "identify" ELSE "public")
  /\ LooksUp /\ UnchangedStation

\* The look that counts; a reply needs its message, with a sender.
Identify(t, known) ==
  /\ request[t].stage = "identify"
  /\ Goes(t, IF Identified(known) THEN "send" ELSE "failed")
  /\ LooksUp /\ UnchangedStation

\* No such message, a bad argument, an HTTP error, or the network refuses.
SendFails(t) ==
  /\ request[t].stage = "send"
  /\ Goes(t, "failed")
  /\ UNCHANGED vault /\ UnchangedStation

Sent(t) ==
  /\ request[t].stage = "send"
  /\ request[t].kind = "downlink"
  /\ request' = [request EXCEPT ![t].stage = "done", ![t].rows = @ + 1]
  /\ UNCHANGED vault /\ UnchangedStation

\* Bug: the next packet is tried whatever the answer.
AfterReplyAlways(r, available) ==
  IF r.kind # "vatsim" THEN "done"
  ELSE IF r.tries > 1 THEN "identify" ELSE "public"

\* The network's answer to a request for information: an empty answer and a
\* "not available" are no answer, and VATSIM's next packet, then the public
\* feed, are tried.
AfterReply(r, available) ==
  IF available \/ r.kind # "vatsim" THEN "done"
  ELSE IF r.tries > 1 THEN "identify" ELSE "public"

Inforeq(t, available) ==
  LET r == request[t]
  IN /\ r.stage = "send" /\ r.kind # "downlink"
     /\ request' = [request EXCEPT ![t] =
          [r EXCEPT !.stage = AfterReply(r, available),
                    !.tries = IF @ > 1 THEN @ - 1 ELSE @,
                    !.rows = @ + 1,
                    !.strips = IF available THEN @ + 1 ELSE @]]
     /\ UNCHANGED vault /\ UnchangedStation

PublicAnswers(t) ==
  /\ request[t].stage = "public"
  /\ request' = [request EXCEPT ![t].stage = "done", ![t].rows = @ + 1,
                                ![t].strips = @ + 1, ![t].public = TRUE]
  /\ UNCHANGED vault /\ UnchangedStation

\* Nothing is published there, or the source fails: the network's "not
\* available" is answer enough.
PublicFails(t) ==
  /\ request[t].stage = "public"
  /\ request' = [request EXCEPT
       ![t].stage = IF request[t].rows > 0 THEN "done" ELSE "failed",
       ![t].public = TRUE]
  /\ UNCHANGED vault /\ UnchangedStation

Over(t) == request[t].stage \in {"done", "failed"}

Respond(t) ==
  /\ Over(t)
  /\ request' = [request EXCEPT ![t] = NoRequest]
  /\ UNCHANGED vault /\ UnchangedStation

-----------------------------------------------------------------------------
(* The tap, which stores the aircraft's logon and clears it (AcarsTap).    *)

TapStores ==
  /\ vault' = Captured(network)
  /\ UNCHANGED <<network, stationVars, request>>

TapClears ==
  /\ vault' = NoCreds
  /\ UNCHANGED <<network, stationVars, request>>

Age ==
  /\ Fresh /\ vault' = Older
  /\ UNCHANGED <<network, stationVars, request>>

RequestStep(t) ==
  \/ Sent(t) \/ SendFails(t) \/ PublicAnswers(t) \/ PublicFails(t)
  \/ Respond(t)
  \/ \E yes \in BOOLEAN : Choose(t, yes) \/ Identify(t, yes) \/ Inforeq(t, yes)

Next ==
  \/ StationNext /\ UNCHANGED <<network, vault, request>>
  \/ \E t \in Phone : RequestStep(t)
  \/ \E t \in Phone, kind \in Kind, tries \in 1 .. MaxPackets : Ask(t, kind, tries)
  \/ TapStores \/ TapClears \/ Age

Spec == RequestInit /\ [][Next]_requestVars

\* Threads run, and neither the network nor the database blocks for ever:
\* every wait has a timeout.  The user and the network need never act.
Fairness ==
  /\ WF_requestVars(SyncStep /\ UNCHANGED <<network, vault, request>>)
  /\ \A p \in Poller :
       WF_requestVars(LoopStep(p) /\ UNCHANGED <<network, vault, request>>)
  /\ \A t \in Phone : WF_requestVars(RequestStep(t))

FairSpec == Spec /\ Fairness

-----------------------------------------------------------------------------
(* Properties.                                                             *)

\* A request prints one reply at most, however many packets and sources were
\* tried, and one that ends in an error has printed none.
OneStripPerRequest ==
  \A t \in Phone :
    /\ request[t].strips <= 1
    /\ request[t].stage = "failed" => request[t].strips = 0

\* README.md:118 "Weather / ATIS on the phone always work": such a request
\* never fails before the public source has been asked.
WeatherAlwaysWorks ==
  \A t \in Phone :
    request[t].kind \in {"weather", "vatsim"} /\ request[t].stage = "failed" =>
      request[t].public
=============================================================================
