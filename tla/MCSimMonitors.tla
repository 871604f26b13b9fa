---------------------------- MODULE MCSimMonitors ----------------------------
(* Instances of SimMonitors for TLC.                                         *)
EXTENDS SimMonitors
=============================================================================
