------------------------------ MODULE SimState ------------------------------
(***************************************************************************)
(* A simulator sample as the print gate and the OFP watcher read it, and   *)
(* the predicates that services/sterile.py and simconnect/monitor.py       *)
(* compute from it.  A sample is a record with the fields                  *)
(*   connected   a backend produced it (None is a disconnected sample)     *)
(*   source      "simconnect" or "xplane"                                  *)
(*   inSession   MSFS says a flight is running                             *)
(*   onGround, gs (knots), agl (feet)                                      *)
(*   evidence    what the electrical variables show: "on", "off", or       *)
(*               "unknown" when nothing decisive was sampled               *)
(***************************************************************************)
EXTENDS Integers

SterileGroundSpeed == 40

Disconnected ==
  [connected |-> FALSE, source |-> "simconnect", inSession |-> FALSE,
   onGround |-> TRUE, gs |-> 0, agl |-> 0, evidence |-> "unknown"]

\* The MSFS menu and world hub report leftover kinematics and buses.
InWorld(s) ==
  /\ s.connected
  /\ s.source = "simconnect" => s.inSession

\* Power is read only from a sample taken in a flight.
AircraftPowered(s) == IF InWorld(s) THEN s.evidence ELSE "unknown"

ComputeSterile(s, limit) ==
  /\ InWorld(s)
  /\ limit > 0
  /\ \/ s.onGround /\ s.gs >= SterileGroundSpeed
     \/ ~s.onGround /\ s.agl < limit

\* X-Plane holds only on sources sampled dark; MSFS, and no simulator at
\* all, hold until power is seen.
ComputeUnpowered(s, required) ==
  /\ required
  /\ IF s.connected /\ s.source = "xplane"
     THEN AircraftPowered(s) = "off"
     ELSE AircraftPowered(s) # "on"

=============================================================================
