---------------------------- MODULE MCSterileGate ----------------------------
(* Small instances of the print gate for TLC. *)
EXTENDS SterileGate

CONSTANTS a1, a2, s1

ThreeJobs == {a1, a2, s1}
TwoJobs == {a1, s1}

\* a1 and a2 are ACARS strips, s1 a SimBrief bundle.
MCChannelOf == [j \in Job |-> IF j = s1 THEN "simbrief" ELSE "acars"]

Sample(source, ground, speed, height, power) ==
  [connected |-> TRUE, source |-> source, inSession |-> TRUE,
   onGround |-> ground, gs |-> speed, agl |-> height, evidence |-> power]

ParkedDark == Sample("simconnect", TRUE, 0, 0, "off")
ParkedLive == Sample("simconnect", TRUE, 0, 0, "on")
LowClimb   == Sample("simconnect", FALSE, 160, 1499, "on")
TaxiFast   == Sample("simconnect", TRUE, 40, 0, "on")
XPlaneMute == Sample("xplane", TRUE, 39, 0, "unknown")
XPlaneDark == Sample("xplane", TRUE, 39, 0, "off")
InMenu     == [ParkedLive EXCEPT !.inSession = FALSE]

AllSamples ==
  {Disconnected, ParkedDark, ParkedLive, LowClimb, TaxiFast, XPlaneMute,
   XPlaneDark, InMenu}
SettingSamples == {ParkedDark, ParkedLive}
FlightSamples == {ParkedDark, ParkedLive, LowClimb}
=============================================================================
