------------------------- MODULE MCOutboundRequests -------------------------
(***************************************************************************)
(* A small instance of station mode and the phone's requests for TLC, in   *)
(* two parts whose states add up.  Requests share the settings and the     *)
(* logon with the station, never its messages: one part runs them beside   *)
(* the station without messages, the other the station's messages alone.   *)
(***************************************************************************)
EXTENDS OutboundRequests

CONSTANTS p1, p2, m1, m2, t1

VARIABLE part

MCInit == part \in {"requests", "messages"} /\ RequestInit

MCNext ==
  /\ UNCHANGED part
  /\ \/ part = "requests" /\ Next /\ UNCHANGED uplink
     \/ part = "messages" /\ StationNext /\ UNCHANGED <<network, vault, request>>

MCSpec == MCInit /\ [][MCNext]_<<part, requestVars>> /\ Fairness
=============================================================================
