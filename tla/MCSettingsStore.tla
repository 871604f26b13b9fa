-------------------------- MODULE MCSettingsStore --------------------------
(* The radius of the automatic weather, for TLC. *)
EXTENDS SettingsStore

\* The radius of old versions, that of this one, and others.
Radii == {-5, 0, 70, 150, 180, 1250}
=============================================================================
