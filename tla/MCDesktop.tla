----------------------------- MODULE MCDesktop -----------------------------
(***************************************************************************)
(* Five parts of the desktop program in one run: the automatic weather,    *)
(* the self-update, the shell with its bridge, the lock file, and the      *)
(* settings with their profiles.                                           *)
(* They share no state, so a behaviour exercises one of them (part) and    *)
(* leaves the others where they start: their states add up.                *)
(***************************************************************************)
EXTENDS AutoWeather, Updater, DesktopShell, SingleInstance, SettingsStore

VARIABLE part

settings == vars
desktop == <<part, weatherVars, updateVars, shellVars, lockVars, settings>>

\* Values to type, at and beyond the limits of the settings.
TypedNumbers == {-5, 0, 1, 30, 70, 150, 1250, 8000, 70000}

DesktopInit ==
  /\ part \in {"weather", "update", "shell", "lock", "settings"}
  /\ WeatherInit /\ (part # "weather" => enabled)
  /\ UpdateInit /\ (part # "update" => release.says = {"size"})
  /\ ShellInit /\ LockInit
  /\ Init
  /\ part # "settings" =>
       focus = "auto_print" /\ stored[focus] = Absent /\ legacy = NoPreset

DesktopNext ==
  /\ UNCHANGED part
  /\ \/ /\ part = "weather" /\ WeatherNext
        /\ UNCHANGED <<updateVars, shellVars, lockVars, settings>>
     \/ /\ part = "update" /\ UpdateNext
        /\ UNCHANGED <<weatherVars, shellVars, lockVars, settings>>
     \/ /\ part = "shell" /\ ShellNext
        /\ UNCHANGED <<weatherVars, updateVars, lockVars, settings>>
     \/ /\ part = "lock" /\ LockNext
        /\ UNCHANGED <<weatherVars, updateVars, shellVars, settings>>
     \/ /\ part = "settings" /\ Next
        /\ UNCHANGED <<weatherVars, updateVars, shellVars, lockVars>>

\* WeatherFairness, for its part of the run.
Fairness ==
  /\ WF_weatherVars(part = "weather" /\ \E t \in Ticker : Pulse(t))
  /\ SF_weatherVars(part = "weather" /\ \E t \in Ticker : Locate(t))
  /\ SF_weatherVars(part = "weather" /\ \E t \in Ticker : Fetch(t))

FairSpec == DesktopInit /\ [][DesktopNext]_desktop /\ Fairness
=============================================================================
