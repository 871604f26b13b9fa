----------------------------- MODULE WireVault -----------------------------
(***************************************************************************)
(* The logon seen on the aircraft's connection (services/wire_session.py), *)
(* kept in memory for a while and shared by the tap, which stores it, and  *)
(* the phone's requests, which send with it; and the ACARS network chosen  *)
(* in the settings.                                                        *)
(***************************************************************************)
EXTENDS Naturals, Sequences

CONSTANTS
  Network,  \* the providers of network.py
  Gfo,      \* those whose wire format is GFO: they carry no logon
  WireTtl   \* ttl_seconds, in steps of the clock

ASSUME VaultAssumption ==
  /\ Gfo \subseteq Network /\ Network # {}
  /\ WireTtl \in Nat

VARIABLES
  network,  \* the setting acars_network
  vault     \* <<>>, or the logon stored: whose it is, as whose it is filed, age

\* A logon belongs to origin, the network it was sent to (no field of the
\* code), and is filed under the network chosen when it was stored.
Creds == [origin : Network, filed : Network, age : 0 .. WireTtl + 1]

NoCreds == <<>>

Captured(origin) == <<[origin |-> origin, filed |-> network, age |-> 0]>>

Fresh == vault # NoCreds /\ vault[1].age <= WireTtl

\* What get returns, and what it leaves behind: a stale logon is dropped.
Got == IF Fresh THEN vault ELSE NoCreds

Older ==
  IF Fresh THEN <<[vault[1] EXCEPT !.age = @ + 1]>> ELSE vault

VaultTypeOK ==
  /\ network \in Network
  /\ vault = NoCreds \/ (Len(vault) = 1 /\ vault[1] \in Creds)
=============================================================================
