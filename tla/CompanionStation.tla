-------------------------- MODULE CompanionStation --------------------------
(***************************************************************************)
(* Station mode (services/companion_station.py, services/companion_guard.py *)
(* and the runtime's _sync_companion): while it is on, this program and    *)
(* not the aircraft owns the callsign, and a thread polls the network for  *)
(* its messages.  Saving the settings probes for the callsign with a poll  *)
(* of its own and starts or stops the thread; the thread turns the mode    *)
(* off when it finds the callsign taken.                                   *)
(***************************************************************************)
EXTENDS WireVault

CONSTANTS
  Poller,  \* poll threads that may exist at a time
  Uplink   \* messages the network holds for the callsign

VARIABLES
  companion, station, \* the settings companion_enabled, companion_station_...
  bridge,    \* the command thread: "idle", or where it is in _sync_companion
  current,   \* self._thread: {} or the thread
  stopping,  \* self._stop is set
  loop,      \* per thread, where it is in _loop
  uplink     \* per message, where it is

polling == <<bridge, current, stopping, loop>>
stationVars == <<companion, station, bridge, current, stopping, loop, uplink>>

StationMode == companion /\ station
Halted == {"none", "broken"}
Alive(p) == loop[p] \notin Halted

\* The settings are those of the last run; the runtime starts with a sync.
Synced(phone, mode) == IF phone /\ mode THEN "probing" ELSE "stopping"

StationInit ==
  /\ companion \in BOOLEAN /\ station \in BOOLEAN
  /\ bridge = Synced(companion, station) /\ current = {} /\ stopping = FALSE
  /\ loop = [p \in Poller |-> "none"]
  /\ uplink = [m \in Uplink |-> "unsent"]

\* A poll takes all that waits: whoever asked has it, and nobody else will.
Polled(where) ==
  [m \in Uplink |-> IF uplink[m] = "waiting" THEN where ELSE uplink[m]]

Send(m) ==
  /\ uplink[m] = "unsent"
  /\ uplink' = [uplink EXCEPT ![m] = "waiting"]
  /\ UNCHANGED <<companion, station, polling>>

-----------------------------------------------------------------------------
(* The command thread: every save, and boot, ends in _sync_companion.      *)

Save(phone, mode) ==
  /\ bridge = "idle"
  /\ companion' = phone /\ station' = mode
  /\ bridge' = Synced(phone, mode)
  /\ UNCHANGED <<current, stopping, loop, uplink>>

\* The callsign is free: what the probe's poll returned is thrown away.  The
\* thread may have turned the mode off meanwhile.
ProbeOk ==
  /\ bridge = "probing"
  /\ uplink' = Polled("probed")
  /\ bridge' = IF station THEN "starting" ELSE "stopping"
  /\ UNCHANGED <<companion, station, current, stopping, loop>>

\* The callsign is taken, there is no logon or no callsign, or the network
\* fails: the mode goes off.
ProbeFails ==
  /\ bridge = "probing"
  /\ station' = FALSE /\ bridge' = "stopping"
  /\ UNCHANGED <<companion, current, stopping, loop, uplink>>

\* A thread that lives is left alone.
Start ==
  /\ bridge = "starting" /\ bridge' = "idle"
  /\ IF \E p \in current : Alive(p)
     THEN UNCHANGED <<current, stopping, loop>>
     ELSE \E p \in Poller :
            /\ ~Alive(p)
            /\ stopping' = FALSE
            /\ current' = {p}
            /\ loop' = [loop EXCEPT ![p] = "check"]
  /\ UNCHANGED <<companion, station, uplink>>

Stop ==
  /\ bridge = "stopping" /\ bridge' = "joining"
  /\ stopping' = TRUE
  /\ UNCHANGED <<companion, station, current, loop, uplink>>

\* Bug: the thread is kept when it did not end in time.
JoinedKept ==
  /\ bridge = "joining" /\ bridge' = "idle"
  /\ \A p \in current : loop[p] \in Halted \cup {"fetch", "store"}
  /\ current' = {p \in current : Alive(p)}
  /\ UNCHANGED <<companion, station, stopping, loop, uplink>>

\* join waits two seconds: enough for a thread that sleeps or is about to
\* look at the flag, not for one that waits for the network or the database.
Joined ==
  /\ bridge = "joining" /\ bridge' = "idle"
  /\ \A p \in current : loop[p] \in Halted \cup {"fetch", "store"}
  /\ current' = {}
  /\ UNCHANGED <<companion, station, stopping, loop, uplink>>

-----------------------------------------------------------------------------
(* The poll thread.                                                        *)

At(p, stage) == loop' = [loop EXCEPT ![p] = stage]

\* The loop's head, with the look at the settings, the logon and the callsign.
Check(p, known) ==
  /\ loop[p] = "check"
  /\ At(p, IF stopping THEN "none"
           ELSE IF StationMode /\ known THEN "fetch" ELSE "wait")
  /\ UNCHANGED <<companion, station, bridge, current, stopping, uplink>>

Fetched(p) ==
  /\ loop[p] = "fetch"
  /\ uplink' = Polled(p)
  /\ At(p, "store")
  /\ UNCHANGED <<companion, station, bridge, current, stopping>>

\* The answer is lost on its way, or there was none.
FetchFails(p, lost) ==
  /\ loop[p] = "fetch"
  /\ uplink' = IF lost THEN Polled("lost") ELSE uplink
  /\ At(p, "wait")
  /\ UNCHANGED <<companion, station, bridge, current, stopping>>

Conflict(p) ==
  /\ loop[p] = "fetch"
  /\ station' = FALSE
  /\ At(p, "wait")
  /\ UNCHANGED <<companion, bridge, current, stopping, uplink>>

\* A database error outside the loop's try, at its head or where a conflict
\* turns the mode off, ends the thread.
Breaks(p) ==
  /\ loop[p] = "fetch" \/ (loop[p] = "check" /\ ~stopping)
  /\ At(p, "broken")
  /\ UNCHANGED <<companion, station, bridge, current, stopping, uplink>>

Stored(p, where) ==
  [m \in Uplink |-> IF uplink[m] = p THEN where ELSE uplink[m]]

\* Bug: a thread told to stop ends before it has stored what it fetched.
IngestUnlessStopped(p) ==
  /\ loop[p] = "store"
  /\ uplink' = IF stopping THEN uplink ELSE Stored(p, "stored")
  /\ At(p, IF stopping THEN "none" ELSE "wait")
  /\ UNCHANGED <<companion, station, bridge, current, stopping>>

Ingest(p) ==
  /\ loop[p] = "store"
  /\ uplink' = Stored(p, "stored")
  /\ At(p, "wait")
  /\ UNCHANGED <<companion, station, bridge, current, stopping>>

\* An exception in ingest is logged.
IngestFails(p) ==
  /\ loop[p] = "store"
  /\ uplink' = Stored(p, "lost")
  /\ At(p, "wait")
  /\ UNCHANGED <<companion, station, bridge, current, stopping>>

\* _stop.wait ends after its time or when the flag is set.
Wake(p) ==
  /\ loop[p] = "wait"
  /\ At(p, "check")
  /\ UNCHANGED <<companion, station, bridge, current, stopping, uplink>>

-----------------------------------------------------------------------------
SyncStep == ProbeOk \/ ProbeFails \/ Start \/ Stop \/ Joined

LoopStep(p) ==
  \/ Fetched(p) \/ Conflict(p) \/ Breaks(p) \/ Ingest(p) \/ IngestFails(p) \/ Wake(p)
  \/ \E yes \in BOOLEAN : Check(p, yes) \/ FetchFails(p, yes)

StationNext ==
  \/ SyncStep
  \/ \E phone, mode \in BOOLEAN : Save(phone, mode)
  \/ \E p \in Poller : LoopStep(p)
  \/ \E m \in Uplink : Send(m)

-----------------------------------------------------------------------------
(* Properties.                                                             *)

\* With station mode on and no command under way there is a poll thread that
\* lives and has not been told to stop, whatever earlier threads still wait
\* for the network and whatever they did to the setting.  Only a thread that a
\* database error ended is missed by nobody, until a save starts another.
StationIsPolled ==
  bridge = "idle" /\ StationMode =>
    /\ ~stopping
    /\ \E p \in current : Alive(p) \/ loop[p] = "broken"

\* A message the poll thread took from the network, which has forgotten it,
\* is stored, also when the mode went off or the thread was told to stop
\* while the answer was on its way; only an exception while storing loses it.
PolledIsStored ==
  \A m \in Uplink :
    uplink[m] \in Poller ~> uplink[m] \in {"stored", "lost"}
=============================================================================
