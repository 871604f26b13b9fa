------------------------- MODULE MCSimBriefWatcher -------------------------
(* Small instances of the flight-plan watcher for TLC. *)
EXTENDS SimBriefWatcher

Snapshot(ground, taxi, doors) ==
  [inWorld |-> TRUE, onGround |-> ground, taxiing |-> taxi, door |-> doors]

Boarding == Snapshot(TRUE, FALSE, "open")
Parked == Snapshot(TRUE, FALSE, "closed")
TaxiOut == Snapshot(TRUE, TRUE, "closed")
Airborne == Snapshot(FALSE, TRUE, "closed")
NoWorld == [Airborne EXCEPT !.inWorld = FALSE]

\* The final after a taxi roll, and a simulator that goes; the final after
\* the doors have closed.
TaxiSnapshots == {NoWorld, TaxiOut, Airborne}
DoorSnapshots == {Boarding, Parked, Airborne}
=============================================================================
