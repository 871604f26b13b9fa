-------------------------- MODULE MCMessagePrinting --------------------------
(* Instances of MessagePrinting for TLC.                                    *)
EXTENDS MessagePrinting
CONSTANTS m1, m2, k1, t1, t2
=============================================================================
