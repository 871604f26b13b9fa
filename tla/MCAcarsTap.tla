----------------------------- MODULE MCAcarsTap -----------------------------
(* A small instance of the tap for TLC. *)
EXTENDS AcarsTap

CONSTANTS w1, w2
=============================================================================
