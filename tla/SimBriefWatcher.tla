--------------------------- MODULE SimBriefWatcher ---------------------------
(***************************************************************************)
(* The flight-plan watcher (simbrief/watcher.py): it polls SimBrief, locks *)
(* onto a new OFP and prints it, prints the final loadsheet at the gate,   *)
(* follows the flight, and unlocks.  Three threads change its state        *)
(* without a lock: the 1 Hz tick, the poll worker and the command thread   *)
(* (Print OFP, Unlock).  Each of them stops in the middle of a handler     *)
(* while a strip prints or while SimBrief answers; a handler is split      *)
(* there, and only there.  An answer is handled some time after SimBrief   *)
(* gave it, so the plan in it may be an older one than the lock by then.   *)
(* A print may end in an exception, which the threads' loops swallow: the  *)
(* rest of the handler is left out.  A crash loses the state; the settings *)
(* database keeps the last OFP handled and the last state persisted.       *)
(*                                                                         *)
(* A time stamp is modelled by its age, which stops at the threshold the   *)
(* code compares it with.                                                  *)
(***************************************************************************)
EXTENDS Integers

CONSTANTS
  MaxOfp,         \* OFPs the pilot generates, in order
  Fenix,          \* those whose aircraft prints its own loadsheet
  Timed,          \* those with a scheduled off-block time
  Snapshots,      \* what the tick can find in the simulator
  AirborneAfter,  \* airborne_debounce_seconds
  LandedAfter,    \* landing_debounce_seconds
  GraceAfter,     \* post_landing_grace_seconds
  LockLimit,      \* max_lock_seconds
  RollAfter,      \* taxi_roll_seconds
  DoorAfter,      \* door_close_seconds
  EnabledChoices, \* the choices for "SimBrief enabled"
  MaxEvents       \* bound on locks by Print OFP, uses of Unlock, crashes and
                  \* prints that raise, together; and, on top of that, on the
                  \* prints of Print OFP that raise

NoOfp == 0
NoTime == -1
Ofp == 1 .. MaxOfp
Worker == {"poll", "command"}
Phase == {"polling", "locked", "final_printed", "airborne", "post_landing"}
LockedPhase == {"locked", "final_printed", "airborne"}

ASSUME WatcherAssumption ==
  /\ MaxOfp \in Nat \ {0}
  /\ Fenix \subseteq Ofp /\ Timed \subseteq Ofp
  /\ \A n \in {AirborneAfter, LandedAfter, GraceAfter, LockLimit, RollAfter,
               DoorAfter} : n \in Nat \ {0}
  /\ EnabledChoices # {} /\ EnabledChoices \subseteq BOOLEAN
  /\ MaxEvents \in Nat

VARIABLES
  st,        \* WatcherState
  saved,     \* the simbrief_lock_state setting
  last,      \* the simbrief_last_ofp_id setting
  enabled,   \* the simbrief_enabled setting, with a user entered
  latest,    \* the OFP SimBrief returns
  expired,   \* OFPs whose off-block time is more than an hour past
  tick,      \* what the tick thread is printing: nothing, a final, a missed one
  fetching,  \* the workers that wait for SimBrief's answer
  answer,    \* by worker: the OFP in the answer it is about to handle, or NoOfp
  clock,     \* the OFPs expired by the time the poll worker read before asking
  pollLock,  \* the OFP whose bundle the poll worker is printing, or NoOfp
  commandLock,  \* the OFP whose bundle Print OFP is printing, or NoOfp
  bundles,   \* history: OFP bundles handed to the print gate without request
  finals,    \* history: final loadsheets handed to the print gate
  crossed,   \* history: OFPs locked onto while a strip was printing whose end
             \* marks the lock in force as having its final
  manual, unlocks, crashes, raises   \* history: locks by Print OFP, uses of
                                     \* Unlock, crashes, prints that raised

settings == <<saved, last, enabled>>
simbrief == <<latest, expired>>
network == <<fetching, answer, clock>>
threads == <<tick, network, pollLock, commandLock>>
events == <<manual, unlocks, crashes, raises>>
history == <<bundles, finals, crossed, events>>
vars == <<st, settings, simbrief, threads, history>>

-----------------------------------------------------------------------------
(* WatcherState.                                                           *)

Unlocked ==
  [phase |-> "polling", ofp |-> NoOfp, lockedFor |-> NoTime,
   finalPrinted |-> FALSE, lockPrinted |-> FALSE, motionSeen |-> FALSE,
   missedFinal |-> FALSE, airborneFor |-> NoTime, groundFor |-> NoTime,
   landedFor |-> NoTime, rollingFor |-> NoTime, doorsSeenOpen |-> FALSE,
   doorsClosedFor |-> NoTime]

\* The fault of not timing the lock.
LockedOntoUntimed(s, o) ==
  [Unlocked EXCEPT !.phase = "locked", !.ofp = o,
                   !.lockPrinted = s.lockPrinted]

\* _lock_onto before it prints; what was printed at lock stays marked.
LockedOnto(s, o) ==
  [Unlocked EXCEPT !.phase = "locked", !.ofp = o, !.lockedFor = 0,
                   !.lockPrinted = s.lockPrinted]

Start(t) == IF t = NoTime THEN 0 ELSE t

\* The fault of not comparing with the last OFP handled.
EligibleAgain(o) == o \in Timed /\ o \notin clock

\* is_eligible_for_autoprint, by the time read before SimBrief was asked.
Eligible(o) == o # last /\ o \in Timed /\ o \notin clock

\* A Fenix prints its own loadsheet.  (Switching the final ticket off in the
\* settings has the same effect and is not modelled apart.)
SkipsFinal(o) == o \in Fenix

Init ==
  /\ st = Unlocked /\ saved = Unlocked
  /\ last = NoOfp /\ enabled \in EnabledChoices
  /\ latest = 1 /\ expired = {}
  /\ tick = "idle" /\ pollLock = NoOfp /\ commandLock = NoOfp
  /\ fetching = {} /\ answer = [w \in Worker |-> NoOfp] /\ clock = {}
  /\ bundles = [o \in Ofp |-> 0] /\ finals = [o \in Ofp |-> 0]
  /\ crossed = {}
  /\ manual = 0 /\ unlocks = 0 /\ crashes = 0 /\ raises = 0

MayDisturb == manual + unlocks + crashes + raises < MaxEvents

\* A strip is printing whose end marks the final of the lock in force.
Marking == tick # "idle" \/ {pollLock, commandLock} \cap Fenix # {}

-----------------------------------------------------------------------------
(* The tick: tick_local.                                                   *)

Rolls(s, snap) ==
  IF snap.onGround /\ snap.taxiing THEN [s EXCEPT !.motionSeen = TRUE] ELSE s

\* The fault of owing a final only when the lock was printed.
InFlightOwesPrinted(s, snap) ==
  LET air == [s EXCEPT !.airborneFor = Start(@), !.groundFor = NoTime] IN
  IF air.airborneFor >= AirborneAfter /\ s.phase \in {"locked", "final_printed"}
  THEN [air EXCEPT !.phase = "airborne",
                   !.missedFinal = @ \/ (s.lockPrinted /\ ~s.finalPrinted)]
  ELSE air

InFlight(s, snap) ==
  LET air == [s EXCEPT !.airborneFor = Start(@), !.groundFor = NoTime] IN
  IF air.airborneFor >= AirborneAfter /\ s.phase \in {"locked", "final_printed"}
  THEN [air EXCEPT !.phase = "airborne",
                   !.missedFinal = @ \/ ~s.finalPrinted]
  ELSE air

\* The fault of an unlock that changes the phase only.
OnGroundKeepsOfp(s) ==
  LET down == [s EXCEPT !.groundFor = Start(@)] IN
  IF s.phase = "airborne"
  THEN IF down.groundFor >= LandedAfter
       THEN [down EXCEPT !.phase = "post_landing", !.landedFor = 0]
       ELSE down
  ELSE IF s.phase = "post_landing" /\ s.landedFor >= GraceAfter
       THEN [s EXCEPT !.phase = "polling"]
       ELSE s

OnGround(s) ==
  LET down == [s EXCEPT !.groundFor = Start(@)] IN
  IF s.phase = "airborne"
  THEN IF down.groundFor >= LandedAfter
       THEN [down EXCEPT !.phase = "post_landing", !.landedFor = 0]
       ELSE down
  ELSE IF s.phase = "post_landing" /\ s.landedFor >= GraceAfter
       THEN Unlocked
       ELSE s

\* _update_flight_phase: the state after a snapshot.
FlightPhase(s, snap) ==
  IF ~snap.inWorld THEN s
  ELSE LET r == Rolls(s, snap) IN
       IF s.phase = "polling" THEN r
       ELSE IF snap.onGround THEN OnGround(r) ELSE InFlight(r, snap)

\* The fault of leaving the take-off to a later save.
PhaseSavedExceptTakeoff(old, new) ==
  old.phase # new.phase /\ new.phase # "airborne"

\* It persists whenever the phase changed.
PhaseSaved(old, new) == old.phase # new.phase

\* The door part of _should_print_final.
Doors(s, snap) ==
  IF ~(snap.inWorld /\ snap.onGround) THEN [s EXCEPT !.doorsClosedFor = NoTime]
  ELSE IF snap.door = "open"
  THEN [s EXCEPT !.doorsSeenOpen = TRUE, !.doorsClosedFor = NoTime,
                 !.rollingFor = NoTime]
  ELSE IF snap.door = "closed" /\ s.doorsSeenOpen
  THEN [s EXCEPT !.doorsClosedFor = Start(@)]
  ELSE [s EXCEPT !.doorsClosedFor = NoTime]

\* The taxi part.
Taxi(s, snap) ==
  IF snap.inWorld /\ snap.onGround /\ snap.taxiing
  THEN [s EXCEPT !.motionSeen = TRUE, !.rollingFor = Start(@)]
  ELSE [s EXCEPT !.rollingFor = NoTime]

\* _should_print_final, its answer and its effect: doors closed after
\* boarding, else five minutes before off-block by the simulator's clock
\* (due), else a sustained taxi roll.
FinalTrigger(s, snap, due) ==
  LET d == Doors(s, snap)
      boarding == snap.inWorld /\ snap.onGround /\ snap.door = "open"
      closed == s.doorsClosedFor >= DoorAfter /\ d.doorsClosedFor # NoTime
      t == Taxi(d, snap)
  IN IF boarding THEN [print |-> FALSE, state |-> d]
     ELSE IF closed \/ (due /\ s.ofp \in Timed) THEN [print |-> TRUE, state |-> d]
     ELSE [print |-> s.rollingFor >= RollAfter /\ t.rollingFor # NoTime,
           state |-> t]

ShouldPrintFinal(s, snap, due, hold) ==
  IF s.finalPrinted \/ SkipsFinal(s.ofp) \/ hold.blocking
  THEN [print |-> FALSE, state |-> s]
  ELSE FinalTrigger(s, snap, due)

HandFinal(o) == finals' = [finals EXCEPT ![o] = @ + 1]

\* Eight hours after the lock, unlock.
TickMaxLock ==
  /\ tick = "idle" /\ enabled
  /\ st.phase \in LockedPhase /\ st.lockedFor >= LockLimit
  /\ st' = Unlocked /\ saved' = Unlocked
  /\ UNCHANGED <<last, enabled, simbrief, threads, history>>

\* Switched off, the watcher only follows the flight.
TickDisabled(snap) ==
  /\ tick = "idle" /\ ~enabled
  /\ st.phase # "polling"
  /\ st' = FlightPhase(st, snap)
  /\ saved' = IF PhaseSaved(st, st') THEN st' ELSE saved
  /\ UNCHANGED <<last, enabled, simbrief, threads, history>>

\* The part of tick_local after the flight phase: a missed final after
\* landing, a Fenix needing none, or the final at the gate.
TickFinal(s, snap, due, hold) ==
  LET trigger == ShouldPrintFinal(s, snap, due, hold)
      phaseSaved == IF PhaseSaved(st, s) THEN s ELSE saved
  IN IF s.phase = "post_landing" /\ s.missedFinal /\ s.ofp # NoOfp
        /\ s.ofp \notin Fenix /\ ~hold.sterile
     THEN /\ tick' = "missed" /\ HandFinal(s.ofp)
          /\ st' = s /\ saved' = phaseSaved
     ELSE IF s.phase = "locked" /\ s.ofp \in Fenix /\ ~s.finalPrinted
     THEN /\ st' = [s EXCEPT !.finalPrinted = TRUE, !.missedFinal = FALSE,
                             !.phase = "final_printed"]
          /\ saved' = st'
          /\ UNCHANGED <<tick, finals>>
     ELSE IF s.phase = "locked" /\ s.ofp # NoOfp /\ trigger.print
     THEN /\ tick' = "final" /\ HandFinal(s.ofp)
          /\ st' = trigger.state /\ saved' = phaseSaved
     ELSE /\ st' = IF s.phase = "locked" /\ s.ofp # NoOfp
                   THEN trigger.state ELSE s
          /\ saved' = phaseSaved
          /\ UNCHANGED <<tick, finals>>

Tick(snap, due, hold) ==
  /\ tick = "idle" /\ enabled
  /\ ~(st.phase \in LockedPhase /\ st.lockedFor >= LockLimit)
  /\ TickFinal(FlightPhase(st, snap), snap, due, hold)
  /\ UNCHANGED <<last, enabled, simbrief, network, pollLock, commandLock,
                 bundles, crossed, events>>

\* The missed final is out of the printer.
TickMissedPrinted ==
  /\ tick = "missed"
  /\ tick' = "idle"
  /\ st' = [st EXCEPT !.missedFinal = FALSE, !.finalPrinted = TRUE]
  /\ saved' = st'
  /\ UNCHANGED <<last, enabled, simbrief, network, pollLock, commandLock,
                 history>>

\* The fault of printing without marking.
MarkFinalPhaseOnly(s) == [s EXCEPT !.phase = "final_printed"]

MarkFinal(s) == [s EXCEPT !.finalPrinted = TRUE, !.phase = "final_printed"]

\* The final is out of the printer.  The status line then names the plan's
\* callsign: without a plan it raises, and nothing is persisted.
TickFinalPrinted ==
  /\ tick = "final"
  /\ tick' = "idle"
  /\ st' = MarkFinal(st)
  /\ saved' = IF st.ofp # NoOfp THEN st' ELSE saved
  /\ UNCHANGED <<last, enabled, simbrief, network, pollLock, commandLock,
                 history>>

\* A print that raises, because the message of its strip was cleared from the
\* log meanwhile or the database is locked (only a PrinterError is caught):
\* nothing is marked, and the loop swallows the exception.
Raises ==
  /\ raises < MaxEvents
  /\ raises' = raises + 1
  /\ UNCHANGED <<st, settings, simbrief, network, bundles, finals, crossed,
                 manual, unlocks, crashes>>

TickRaises ==
  /\ MayDisturb
  /\ tick # "idle"
  /\ tick' = "idle"
  /\ Raises
  /\ UNCHANGED <<pollLock, commandLock>>

-----------------------------------------------------------------------------
(* Locking onto an OFP: _lock_onto up to its printing.                     *)

BeginLock(s, o) ==
  /\ st' = LockedOnto(s, o)
  /\ last' = o
  /\ crossed' = IF Marking THEN crossed \cup {o} ELSE crossed

\* SimBrief answers a worker, with the latest OFP.
Answered(w) ==
  /\ w \in fetching
  /\ fetching' = fetching \ {w}
  /\ answer' = [answer EXCEPT ![w] = latest]
  /\ UNCHANGED <<st, settings, simbrief, tick, clock, pollLock, commandLock,
                 history>>

\* The worker handles it: nothing is asked or answered any more.
Handles(w) ==
  /\ answer[w] # NoOfp
  /\ answer' = [answer EXCEPT ![w] = NoOfp]
  /\ UNCHANGED fetching

-----------------------------------------------------------------------------
(* The poll worker: poll_network_if_due and _poll.                         *)

\* Every poll_seconds, or after a back-off; never in flight.
PollStart ==
  /\ "poll" \notin fetching /\ answer["poll"] = NoOfp /\ pollLock = NoOfp
  /\ enabled /\ st.phase # "airborne"
  /\ fetching' = fetching \cup {"poll"} /\ clock' = expired
  /\ UNCHANGED <<st, settings, simbrief, tick, answer, pollLock, commandLock,
                 history>>

PollFails ==
  /\ "poll" \in fetching
  /\ fetching' = fetching \ {"poll"} /\ clock' = {}
  /\ saved' = st
  /\ UNCHANGED <<st, last, enabled, simbrief, tick, answer, pollLock,
                 commandLock, history>>

\* Another OFP, regenerated before the aircraft moved; or the one before the
\* lock, if Print OFP locked onto a newer one after SimBrief answered.
Regenerated(o) ==
  /\ st.phase = "locked" /\ st.ofp \notin {NoOfp, o}
  /\ ~st.motionSeen /\ ~st.finalPrinted

\* An OFP to lock onto while polling or in the turnaround, or a regenerated
\* one: lock onto it, and print.  In the turnaround the old lock is first
\* ended, and persisted as ended.  (An OFP that is already locked and printed
\* would not print again, skip_auto_print; none of the three cases meets one.)
PollLocks ==
  LET plan == answer["poll"] IN
  /\ Handles("poll") /\ clock' = {}
  /\ \/ /\ st.phase = "polling" /\ Eligible(plan)
        /\ BeginLock(st, plan) /\ UNCHANGED saved
     \/ /\ st.phase = "post_landing" /\ Eligible(plan)
        /\ BeginLock(Unlocked, plan) /\ saved' = Unlocked
     \/ /\ Regenerated(plan)
        /\ BeginLock(st, plan) /\ UNCHANGED saved
  /\ pollLock' = plan
  /\ bundles' = [bundles EXCEPT ![plan] = @ + 1]
  /\ UNCHANGED <<enabled, simbrief, tick, commandLock, finals, events>>

\* The fault of remembering in the turnaround only.
IgnoredInTurnaround(o) ==
  IF st.phase = "post_landing" /\ o \in Timed \cap clock THEN o ELSE last

\* last_ofp_id after ignoring an OFP.
Ignored(o) ==
  IF st.phase = "polling" \/ o \in Timed \cap clock THEN o ELSE last

\* An OFP not to be locked onto is remembered, so that it is not printed
\* later; in the turnaround only when its time has passed.
PollIgnores ==
  LET plan == answer["poll"] IN
  /\ Handles("poll") /\ clock' = {}
  /\ \/ /\ st.phase = "polling" /\ ~Eligible(plan)
        /\ last' = Ignored(plan) /\ saved' = st
     \/ /\ st.phase = "post_landing" /\ ~Eligible(plan)
        /\ last' = Ignored(plan)
        /\ UNCHANGED saved
     \/ /\ st.phase \in LockedPhase /\ ~Regenerated(plan)
        /\ saved' = IF st.ofp \in {NoOfp, plan} THEN saved ELSE st
        /\ UNCHANGED last
  /\ UNCHANGED <<st, enabled, simbrief, tick, pollLock, commandLock, history>>

\* The bundle is out of the printer.  What is marked is the state in force
\* by now.
PollLockPrinted ==
  /\ pollLock # NoOfp
  /\ pollLock' = NoOfp
  /\ st' = IF SkipsFinal(pollLock)
           THEN [st EXCEPT !.lockPrinted = TRUE, !.finalPrinted = TRUE,
                           !.phase = "final_printed"]
           ELSE [st EXCEPT !.lockPrinted = TRUE]
  /\ saved' = st'
  /\ UNCHANGED <<last, enabled, simbrief, tick, network, commandLock, history>>

PollLockRaises ==
  /\ MayDisturb
  /\ pollLock # NoOfp
  /\ pollLock' = NoOfp
  /\ Raises
  /\ UNCHANGED <<tick, commandLock>>

-----------------------------------------------------------------------------
(* The command thread: one command at a time.                              *)

CommandIdle ==
  /\ "command" \notin fetching /\ answer["command"] = NoOfp
  /\ commandLock = NoOfp

\* Print OFP asks SimBrief for the latest OFP.
PrintNowStart ==
  /\ CommandIdle
  /\ MayDisturb
  /\ fetching' = fetching \cup {"command"}
  /\ UNCHANGED <<st, settings, simbrief, tick, answer, clock, pollLock,
                 commandLock, history>>

PrintNowFails ==
  /\ "command" \in fetching
  /\ fetching' = fetching \ {"command"}
  /\ UNCHANGED <<st, settings, simbrief, tick, answer, clock, pollLock,
                 commandLock, history>>

\* It locks onto the OFP it was given whatever its time.
PrintNow ==
  LET plan == answer["command"] IN
  /\ Handles("command")
  /\ MayDisturb
  /\ BeginLock(st, plan)
  /\ commandLock' = plan
  /\ manual' = manual + 1
  /\ UNCHANGED <<saved, enabled, simbrief, tick, clock, pollLock, bundles,
                 finals, unlocks, crashes, raises>>

PrintNowPrinted ==
  /\ commandLock # NoOfp
  /\ commandLock' = NoOfp
  /\ st' = [st EXCEPT !.lockPrinted = TRUE,
                      !.finalPrinted = SkipsFinal(commandLock),
                      !.phase = IF SkipsFinal(commandLock)
                                THEN "final_printed" ELSE "locked"]
  /\ saved' = st'
  /\ UNCHANGED <<last, enabled, simbrief, tick, network, pollLock, history>>

PrintNowRaises ==
  /\ commandLock # NoOfp
  /\ commandLock' = NoOfp
  /\ Raises
  /\ UNCHANGED <<tick, pollLock>>

\* Unlock: start over, and let the same OFP lock again.
UnlockNow ==
  /\ CommandIdle
  /\ MayDisturb
  /\ unlocks' = unlocks + 1
  /\ last' = NoOfp
  /\ st' = Unlocked /\ saved' = Unlocked
  /\ UNCHANGED <<enabled, simbrief, threads, bundles, finals, crossed, manual,
                 crashes, raises>>

-----------------------------------------------------------------------------
(* The environment.                                                        *)

SetEnabled ==
  /\ enabled' \in EnabledChoices \ {enabled}
  /\ UNCHANGED <<st, saved, last, simbrief, threads, history>>

NewOfp ==
  /\ latest < MaxOfp
  /\ latest' = latest + 1
  /\ UNCHANGED <<st, settings, expired, threads, history>>

\* (One that is generated late expires at once.)
Expire(o) ==
  /\ o \in Timed \ expired /\ o <= latest
  /\ expired' = expired \cup {o}
  /\ UNCHANGED <<st, settings, latest, threads, history>>

Quiet == tick = "idle" /\ pollLock = NoOfp /\ commandLock = NoOfp

\* The fault of testing the limit after the step.
OlderPastLimit(age, limit) == IF age = NoTime \/ age > limit THEN age ELSE age + 1

\* The next age of a time stamp that is compared with limit.
Older(age, limit) == IF age = NoTime \/ age >= limit THEN age ELSE age + 1

\* Time passes: seconds at any moment, and minutes (a landing, a turnaround)
\* or hours (the lock limit) only while nothing is printing.
Span == {"seconds", "minutes", "hours"}

Aged(s, span) ==
  [s EXCEPT !.lockedFor = IF span = "hours" THEN Older(@, LockLimit) ELSE @,
            !.groundFor = IF span = "seconds" THEN @ ELSE Older(@, LandedAfter),
            !.landedFor = IF span = "seconds" THEN @ ELSE Older(@, GraceAfter),
            !.airborneFor = Older(@, AirborneAfter),
            !.rollingFor = Older(@, RollAfter),
            !.doorsClosedFor = Older(@, DoorAfter)]

Elapse(span) ==
  /\ span # "seconds" => Quiet
  /\ st' = Aged(st, span) /\ saved' = Aged(saved, span)
  /\ <<st, saved>>' # <<st, saved>>
  /\ UNCHANGED <<last, enabled, simbrief, threads, history>>

\* The program stops anywhere and starts again from its settings: _restore.
Crash ==
  /\ MayDisturb
  /\ crashes' = crashes + 1
  /\ st' = saved
  /\ tick' = "idle" /\ pollLock' = NoOfp /\ commandLock' = NoOfp
  /\ fetching' = {} /\ answer' = [w \in Worker |-> NoOfp] /\ clock' = {}
  /\ UNCHANGED <<settings, simbrief, bundles, finals, crossed, manual, unlocks,
                 raises>>

\* What update_from_snapshot leaves in the gate for the watcher to read.
Hold == {h \in [sterile : BOOLEAN, blocking : BOOLEAN] :
           h.sterile => h.blocking}

Ticks ==
  \/ TickMaxLock
  \/ \E snap \in Snapshots : TickDisabled(snap)
  \/ \E snap \in Snapshots, due \in BOOLEAN, hold \in Hold :
       Tick(snap, due, hold)

Next ==
  \/ Ticks \/ TickMissedPrinted \/ TickFinalPrinted \/ TickRaises
  \/ (\E w \in Worker : Answered(w))
  \/ PollStart \/ PollFails \/ PollLocks \/ PollIgnores
  \/ PollLockPrinted \/ PollLockRaises
  \/ PrintNowStart \/ PrintNowFails \/ PrintNow \/ PrintNowPrinted
  \/ PrintNowRaises \/ UnlockNow
  \/ SetEnabled \/ NewOfp \/ (\E o \in Ofp : Expire(o))
  \/ (\E span \in Span : Elapse(span)) \/ Crash

Spec == Init /\ [][Next]_vars

\* The threads run and prints end, well or not; the tick comes every second;
\* SimBrief answers again and again, not necessarily at each request, and each
\* request has a timeout; time passes.
Fairness ==
  /\ WF_vars(TickMaxLock)
  /\ WF_vars(TickMissedPrinted \/ TickFinalPrinted)
  /\ WF_vars(PollStart) /\ SF_vars(Answered("poll"))
  /\ WF_vars(PollLocks \/ PollIgnores)
  /\ WF_vars(PollLockPrinted) /\ WF_vars(PrintNowPrinted)
  /\ SF_vars(Elapse("hours"))

FairSpec == Spec /\ Fairness

-----------------------------------------------------------------------------
(* Properties.                                                             *)

Age(limit) == NoTime .. limit

State ==
  [phase : Phase, ofp : Ofp \cup {NoOfp}, lockedFor : Age(LockLimit),
   finalPrinted : BOOLEAN, lockPrinted : BOOLEAN, motionSeen : BOOLEAN,
   missedFinal : BOOLEAN, airborneFor : Age(AirborneAfter),
   groundFor : Age(LandedAfter), landedFor : Age(GraceAfter),
   rollingFor : Age(RollAfter), doorsSeenOpen : BOOLEAN,
   doorsClosedFor : Age(DoorAfter)]

\* Types; the OFPs remembered have been generated.
TypeOK ==
  /\ st \in State /\ saved \in State
  /\ latest \in Ofp /\ last \in 0 .. latest
  /\ st.ofp <= latest /\ saved.ofp <= latest
  /\ enabled \in EnabledChoices /\ expired \subseteq Timed
  /\ tick \in {"idle", "final", "missed"} /\ fetching \subseteq Worker
  /\ answer \in [Worker -> 0 .. latest] /\ clock \subseteq expired
  /\ pollLock \in Ofp \cup {NoOfp} /\ commandLock \in Ofp \cup {NoOfp}
  /\ bundles \in [Ofp -> Nat] /\ finals \in [Ofp -> Nat]
  /\ crossed \subseteq Ofp
  /\ \A n \in {manual, unlocks, crashes, raises} : n \in 0 .. MaxEvents

\* "Automatic unlocks keep last_ofp_id so we don't immediately re-print"
\* (unlock): an OFP's bundle prints by itself once, through regenerations,
\* turnarounds, failed polls and prints that raise.  It prints once more only
\* after an Unlock, a crash or a Print OFP: that may lock onto a newer OFP
\* while the poll worker holds an older one, or onto an older one itself, and
\* the next poll takes the difference for a regenerated OFP.
BundleOnce ==
  \A o \in Ofp : bundles[o] <= 1 + manual + unlocks + crashes

\* The final loadsheet of an OFP prints once; a further copy takes an Unlock,
\* a crash in the middle of the printing, a print that raises before the mark,
\* or a Print OFP, which clears the mark before its bundle prints and again
\* after it: two copies.
FinalOnce ==
  \A o \in Ofp : finals[o] <= 1 + 2 * manual + unlocks + crashes + raises

\* While nobody uses Unlock, a watcher that is not polling knows its OFP, and
\* a polling one has none, through every interleaving of the tick, the poll
\* worker and Print OFP, and after a crash.  (So skip_auto_print never
\* applies.)
LockHasOfp ==
  unlocks = 0 => /\ (st.phase = "polling") <=> (st.ofp = NoOfp)
                 /\ (saved.phase = "polling") <=> (saved.ofp = NoOfp)

\* "Mid-flight app restarts restore the locked OFP from settings so final /
\* missed-final logic can continue" (README): in flight the saved state has
\* the flight's phase, OFP and final marks.
FlightIsSaved ==
  st.phase = "airborne" /\ tick = "idle" =>
    /\ saved.phase = "airborne" /\ saved.ofp = st.ofp
    /\ saved.finalPrinted = st.finalPrinted
    /\ saved.missedFinal = st.missedFinal

\* Nobody uses Unlock, and from some moment the watcher is enabled.
LeftAlone == <>[](enabled /\ unlocks = 0)

\* "Unlocks [...] max lock (8 h)" (README): left alone, no lock lasts for
\* ever, although SimBrief is not asked in flight, the simulator may never
\* show the landing, and the program may crash while it locks.
LockEnds ==
  LeftAlone => [](st.phase \in LockedPhase => <>(st.phase \notin LockedPhase))

\* "Polls SimBrief [...] for a new eligible OFP" (README): left alone, a
\* polling watcher handles the latest OFP, or a newer one comes.
OfpIsHandled ==
  LeftAlone =>
    \A o \in Ofp : (st.phase = "polling" /\ latest = o) ~>
                     (latest # o \/ last = o)

\* "Unlock lets the same OFP lock again" (README): without an OFP the watcher
\* polls for one.
UnlockedPolls == st.ofp = NoOfp => st.phase = "polling"

\* "If takeoff happens without a final, prints the missed final once after
\* landing" (README): in flight, a final that never went to the printer is
\* owed, through Print OFP, regenerations, stale answers, bounces, crashes and
\* prints that end late or raise.  The exceptions are the OFPs locked onto
\* while a final or a Fenix's bundle was printing: its end marks them.
MissedFinalOwed ==
  \A o \in Ofp \ (Fenix \cup crossed) :
    st.phase = "airborne" /\ st.ofp = o /\ finals[o] = 0 => st.missedFinal
=============================================================================
