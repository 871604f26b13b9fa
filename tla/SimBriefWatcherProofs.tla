------------------------ MODULE SimBriefWatcherProofs ------------------------
(***************************************************************************)
(* Proofs about the flight-plan watcher, for every number of OFPs and of   *)
(* uses of Print OFP, Unlock, crashes and prints that raise, whatever the  *)
(* simulator shows, however old SimBrief's answer is when it is handled,   *)
(* and however long the debounces, the grace and the lock limit are.       *)
(***************************************************************************)
EXTENDS SimBriefWatcher, TLAPS

\* The thresholds, one by one.
LEMMA Thresholds ==
  /\ AirborneAfter \in Nat \ {0} /\ LandedAfter \in Nat \ {0}
  /\ GraceAfter \in Nat \ {0} /\ LockLimit \in Nat \ {0}
  /\ RollAfter \in Nat \ {0} /\ DoorAfter \in Nat \ {0}
BY WatcherAssumption

-----------------------------------------------------------------------------
(* What the handlers make of the state.                                    *)

\* Nothing is locked.
LEMMA UnlockedIs ==
  /\ Unlocked \in State
  /\ Unlocked.phase = "polling" /\ Unlocked.ofp = NoOfp
  /\ Unlocked.finalPrinted = FALSE /\ Unlocked.missedFinal = FALSE
BY Thresholds DEF Unlocked, State, Phase, Age, NoTime, NoOfp

\* A fresh lock.
FreshLock(s, o) ==
  /\ s \in State
  /\ s.phase = "locked" /\ s.ofp = o /\ s.lockedFor = 0
  /\ s.finalPrinted = FALSE /\ s.missedFinal = FALSE
  /\ s.groundFor = NoTime /\ s.landedFor = NoTime

LEMMA LockedOntoIs ==
  ASSUME NEW s \in State, NEW o \in Ofp
  PROVE  FreshLock(LockedOnto(s, o), o)
<1>1. 0 \in Age(LockLimit) /\ "locked" \in Phase /\ s.lockPrinted \in BOOLEAN
  BY Thresholds DEF Age, NoTime, Phase, State
<1>2. /\ Unlocked.groundFor = NoTime /\ Unlocked.landedFor = NoTime
      /\ Unlocked \in State
      /\ Unlocked.finalPrinted = FALSE /\ Unlocked.missedFinal = FALSE
  BY UnlockedIs DEF Unlocked
<1>3. QED BY <1>1, <1>2 DEF LockedOnto, FreshLock, State

\* The parts of the state that say whose lock it is and what it still owes.
Alike(s, t) ==
  /\ t \in State
  /\ t.phase = s.phase /\ t.ofp = s.ofp
  /\ t.finalPrinted = s.finalPrinted /\ t.missedFinal = s.missedFinal
  /\ t.lockedFor = s.lockedFor /\ t.groundFor = s.groundFor
  /\ t.landedFor = s.landedFor

\* What following the flight may do: nothing to the lock, a take-off that
\* makes an unprinted final a missed one, a landing, or the end of the lock.
Ends(s, t) ==
  t = Unlocked /\ s.phase = "post_landing" /\ s.landedFor >= GraceAfter

TakesOff(s, t) ==
  /\ s.phase \in {"locked", "final_printed"} /\ t.phase = "airborne"
  /\ t.missedFinal = (s.missedFinal \/ ~s.finalPrinted)
  /\ t.landedFor = s.landedFor

Lands(s, t) ==
  /\ s.phase = "airborne" /\ t.phase = "post_landing"
  /\ t.missedFinal = s.missedFinal
  /\ Start(s.groundFor) >= LandedAfter

Stays(s, t) ==
  /\ t.phase = s.phase /\ t.missedFinal = s.missedFinal
  /\ t.landedFor = s.landedFor

Follows(s, t) ==
  /\ t \in State
  /\ \/ Ends(s, t)
     \/ /\ Stays(s, t) \/ TakesOff(s, t) \/ Lands(s, t)
        /\ t.ofp = s.ofp /\ t.finalPrinted = s.finalPrinted
        /\ t.lockedFor = s.lockedFor
        /\ t.groundFor \in {s.groundFor, Start(s.groundFor), NoTime}

LEMMA StartAge ==
  ASSUME NEW n \in Nat, NEW age \in Age(n)
  PROVE  Start(age) \in Age(n)
BY DEF Start, Age, NoTime

LEMMA RollsIs ==
  ASSUME NEW s \in State, NEW snap
  PROVE  Alike(s, Rolls(s, snap))
BY DEF Rolls, Alike, State

LEMMA OnGroundIs ==
  ASSUME NEW s \in State, s.phase # "polling"
  PROVE  Follows(s, OnGround(s))
<1> DEFINE down == [s EXCEPT !.groundFor = Start(@)]
<1>1. Start(s.groundFor) \in Age(LandedAfter)
  BY StartAge, Thresholds DEF State
<1>2. /\ down \in State /\ down.groundFor = Start(s.groundFor)
      /\ down.phase = s.phase /\ down.ofp = s.ofp
      /\ down.finalPrinted = s.finalPrinted
      /\ down.missedFinal = s.missedFinal /\ down.lockedFor = s.lockedFor
      /\ down.landedFor = s.landedFor
  BY <1>1 DEF State
<1>3. CASE s.phase = "airborne" /\ down.groundFor >= LandedAfter
  <2> DEFINE t == [down EXCEPT !.phase = "post_landing", !.landedFor = 0]
  <2>1. OnGround(s) = t
    BY <1>3 DEF OnGround
  <2>2. 0 \in Age(GraceAfter) /\ "post_landing" \in Phase
    BY Thresholds DEF Age, NoTime, Phase
  <2> HIDE DEF down
  <2>3. /\ t \in State /\ t.phase = "post_landing" /\ t.ofp = down.ofp
        /\ t.finalPrinted = down.finalPrinted
        /\ t.missedFinal = down.missedFinal /\ t.lockedFor = down.lockedFor
        /\ t.groundFor = down.groundFor
    BY <1>2, <2>2 DEF State
  <2> HIDE DEF t
  <2>4. QED BY <1>2, <1>3, <2>1, <2>3 DEF Follows, Lands
<1>4. CASE s.phase = "airborne" /\ ~(down.groundFor >= LandedAfter)
  <2>1. OnGround(s) = down
    BY <1>4 DEF OnGround
  <2> HIDE DEF down
  <2>2. QED BY <1>2, <2>1 DEF Follows, Stays
<1>5. CASE s.phase = "post_landing" /\ s.landedFor >= GraceAfter
  BY <1>5, UnlockedIs DEF OnGround, Follows, Ends
<1>6. CASE /\ s.phase # "airborne"
           /\ ~(s.phase = "post_landing" /\ s.landedFor >= GraceAfter)
  <2>1. OnGround(s) = s
    BY <1>6 DEF OnGround
  <2>2. QED BY <2>1 DEF Follows, Stays
<1>7. QED BY <1>3, <1>4, <1>5, <1>6

LEMMA InFlightIs ==
  ASSUME NEW s \in State, NEW snap, s.phase # "polling"
  PROVE  Follows(s, InFlight(s, snap))
<1> DEFINE air == [s EXCEPT !.airborneFor = Start(@), !.groundFor = NoTime]
<1>1. /\ Start(s.airborneFor) \in Age(AirborneAfter)
      /\ NoTime \in Age(LandedAfter)
  BY StartAge, Thresholds DEF State, Age, NoTime
<1>2. /\ air \in State /\ air.groundFor = NoTime
      /\ air.phase = s.phase /\ air.ofp = s.ofp
      /\ air.finalPrinted = s.finalPrinted
      /\ air.missedFinal = s.missedFinal /\ air.lockedFor = s.lockedFor
      /\ air.landedFor = s.landedFor
  BY <1>1 DEF State
<1>3. CASE /\ air.airborneFor >= AirborneAfter
           /\ s.phase \in {"locked", "final_printed"}
  <2> DEFINE t == [air EXCEPT !.phase = "airborne",
                              !.missedFinal = @ \/ ~s.finalPrinted]
  <2>1. InFlight(s, snap) = t
    BY <1>3 DEF InFlight
  <2> HIDE DEF air
  <2>2. /\ t \in State /\ t.phase = "airborne" /\ t.ofp = air.ofp
        /\ t.finalPrinted = air.finalPrinted
        /\ t.missedFinal = (air.missedFinal \/ ~s.finalPrinted)
        /\ t.lockedFor = air.lockedFor
        /\ t.groundFor = air.groundFor /\ t.landedFor = air.landedFor
    BY <1>2 DEF State, Phase
  <2> HIDE DEF t
  <2>3. QED BY <1>2, <1>3, <2>1, <2>2 DEF Follows, TakesOff
<1>4. CASE ~(/\ air.airborneFor >= AirborneAfter
             /\ s.phase \in {"locked", "final_printed"})
  <2>1. InFlight(s, snap) = air
    BY <1>4 DEF InFlight
  <2> HIDE DEF air
  <2>2. QED BY <1>2, <2>1 DEF Follows, Stays
<1>5. QED BY <1>3, <1>4

LEMMA FlightPhaseIs ==
  ASSUME NEW s \in State, NEW snap
  PROVE  Follows(s, FlightPhase(s, snap))
<1> DEFINE r == Rolls(s, snap)
<1>1. Alike(s, r)
  BY RollsIs
<1> HIDE DEF r
<1>2. CASE ~snap.inWorld
  BY <1>2 DEF FlightPhase, Follows, Stays
<1>3. CASE snap.inWorld /\ s.phase = "polling"
  BY <1>1, <1>3 DEF FlightPhase, Follows, Stays, Alike, r
<1>4. CASE snap.inWorld /\ s.phase # "polling" /\ snap.onGround
  <2>1. FlightPhase(s, snap) = OnGround(r)
    BY <1>4 DEF FlightPhase, r
  <2>2. Follows(r, OnGround(r))
    BY <1>1, <1>4, OnGroundIs DEF Alike
  <2>3. QED
    BY <1>1, <2>1, <2>2 DEF Alike, Follows, Ends, Stays, TakesOff, Lands
<1>5. CASE snap.inWorld /\ s.phase # "polling" /\ ~snap.onGround
  <2>1. FlightPhase(s, snap) = InFlight(r, snap)
    BY <1>5 DEF FlightPhase, r
  <2>2. Follows(r, InFlight(r, snap))
    BY <1>1, <1>5, InFlightIs DEF Alike
  <2>3. QED
    BY <1>1, <2>1, <2>2 DEF Alike, Follows, Ends, Stays, TakesOff, Lands
<1>6. QED BY <1>2, <1>3, <1>4, <1>5

\* Looking for the moment of the final loadsheet touches the doors' and the
\* taxi's marks only, and never finds one for a final that is printed.
LEMMA DoorsIs ==
  ASSUME NEW s \in State, NEW snap
  PROVE  Alike(s, Doors(s, snap))
<1>1. NoTime \in Age(DoorAfter) /\ NoTime \in Age(RollAfter)
  BY Thresholds DEF Age, NoTime
<1>2. Start(s.doorsClosedFor) \in Age(DoorAfter)
  BY StartAge, Thresholds DEF State
<1>3. QED BY <1>1, <1>2 DEF Doors, Alike, State

LEMMA TaxiIs ==
  ASSUME NEW s \in State, NEW snap
  PROVE  Alike(s, Taxi(s, snap))
<1>1. NoTime \in Age(RollAfter) /\ Start(s.rollingFor) \in Age(RollAfter)
  BY StartAge, Thresholds DEF Age, NoTime, State
<1>2. QED BY <1>1 DEF Taxi, Alike, State

LEMMA TriggerIs ==
  ASSUME NEW s \in State, NEW snap, NEW due, NEW hold
  PROVE  LET trigger == ShouldPrintFinal(s, snap, due, hold) IN
         Alike(s, trigger.state) /\ (trigger.print => ~s.finalPrinted)
<1> DEFINE d == Doors(s, snap)
           t == Taxi(d, snap)
<1>1. Alike(s, s) /\ Alike(s, d) /\ d \in State
  BY DoorsIs DEF Alike
<1>2. Alike(d, t)
  BY <1>1, TaxiIs
<1> HIDE DEF d, t
<1>3. Alike(s, t)
  BY <1>1, <1>2 DEF Alike
<1>4. FinalTrigger(s, snap, due).state \in {d, t}
  BY DEF FinalTrigger, d, t
<1>5. CASE s.finalPrinted \/ SkipsFinal(s.ofp) \/ hold.blocking
  BY <1>1, <1>5 DEF ShouldPrintFinal
<1>6. CASE ~(s.finalPrinted \/ SkipsFinal(s.ofp) \/ hold.blocking)
  <2>1. ShouldPrintFinal(s, snap, due, hold) = FinalTrigger(s, snap, due)
    BY <1>6 DEF ShouldPrintFinal
  <2>2. QED BY <1>1, <1>3, <1>4, <1>6, <2>1
<1>7. QED BY <1>5, <1>6

\* Time moves time stamps only, and seconds not those of the lock and the
\* landing.
LEMMA OlderAge ==
  ASSUME NEW n \in Nat, NEW age \in Age(n)
  PROVE  Older(age, n) \in Age(n) /\ (age = NoTime => Older(age, n) = NoTime)
BY DEF Older, Age, NoTime

LEMMA AgedIs ==
  ASSUME NEW s \in State, NEW span \in Span
  PROVE  LET t == Aged(s, span) IN
         /\ t \in State
         /\ t.phase = s.phase /\ t.ofp = s.ofp
         /\ t.finalPrinted = s.finalPrinted /\ t.missedFinal = s.missedFinal
         /\ span = "seconds" => Alike(s, t)
<1>1. /\ Older(s.lockedFor, LockLimit) \in Age(LockLimit)
      /\ Older(s.groundFor, LandedAfter) \in Age(LandedAfter)
      /\ Older(s.landedFor, GraceAfter) \in Age(GraceAfter)
      /\ Older(s.airborneFor, AirborneAfter) \in Age(AirborneAfter)
      /\ Older(s.rollingFor, RollAfter) \in Age(RollAfter)
      /\ Older(s.doorsClosedFor, DoorAfter) \in Age(DoorAfter)
  BY OlderAge, Thresholds DEF State
<1>2. CASE span = "hours"
  BY <1>1, <1>2 DEF Aged, State
<1>3. CASE span = "minutes"
  BY <1>1, <1>3 DEF Aged, State
<1>4. CASE span = "seconds"
  BY <1>1, <1>4 DEF Aged, State, Alike
<1>5. QED BY <1>2, <1>3, <1>4 DEF Span

-----------------------------------------------------------------------------
(* What a tick does.                                                       *)

SavedAfter(s) == IF PhaseSaved(st, s) THEN s ELSE saved

\* It follows the flight, and then one of four.
FollowsOnly(s) ==
  /\ Alike(s, st') /\ (s.phase # "locked" => st' = s)
  /\ saved' = SavedAfter(s)
  /\ tick' = tick /\ finals' = finals

SkipsTheFinal(s) ==
  /\ s.phase = "locked" /\ s.ofp \in Fenix
  /\ st' = [s EXCEPT !.finalPrinted = TRUE, !.missedFinal = FALSE,
                     !.phase = "final_printed"]
  /\ saved' = st'
  /\ tick' = tick /\ finals' = finals

PrintsFinal(s) ==
  /\ s.phase = "locked" /\ s.ofp # NoOfp /\ ~s.finalPrinted
  /\ Alike(s, st') /\ saved' = saved
  /\ tick' = "final" /\ HandFinal(s.ofp)

PrintsMissed(s) ==
  /\ s.phase = "post_landing" /\ s.missedFinal /\ s.ofp # NoOfp
  /\ st' = s /\ saved' = SavedAfter(s)
  /\ tick' = "missed" /\ HandFinal(s.ofp)

TickOutcome(s) ==
  /\ tick = "idle"
  /\ Follows(st, s)
  /\ FollowsOnly(s) \/ SkipsTheFinal(s) \/ PrintsFinal(s) \/ PrintsMissed(s)
  /\ UNCHANGED <<last, enabled, simbrief, network, pollLock, commandLock,
                 bundles, crossed, events>>

LEMMA TickIs ==
  ASSUME st \in State, NEW snap, NEW due, NEW hold, Tick(snap, due, hold)
  PROVE  \E s \in State : TickOutcome(s)
<1> DEFINE s == FlightPhase(st, snap)
           trigger == ShouldPrintFinal(s, snap, due, hold)
<1>1. Follows(st, s)
  BY FlightPhaseIs
<1>2. s \in State
  BY <1>1 DEF Follows
<1>3. Alike(s, trigger.state) /\ (trigger.print => ~s.finalPrinted)
  BY <1>2, TriggerIs
<1>4. Alike(s, s)
  BY <1>2 DEF Alike
<1>5. s.phase = "locked" => SavedAfter(s) = saved
  BY <1>1
     DEF SavedAfter, PhaseSaved, Follows, Ends, Stays, TakesOff, Lands, Unlocked
<1>6. TickFinal(s, snap, due, hold) /\ tick = "idle"
      /\ UNCHANGED <<last, enabled, simbrief, network, pollLock, commandLock,
                     bundles, crossed, events>>
  BY DEF Tick
<1> DEFINE missed == s.phase = "post_landing" /\ s.missedFinal /\ s.ofp # NoOfp
                       /\ s.ofp \notin Fenix /\ ~hold.sterile
           fenix == s.phase = "locked" /\ s.ofp \in Fenix /\ ~s.finalPrinted
           prints == s.phase = "locked" /\ s.ofp # NoOfp /\ trigger.print
<1> HIDE DEF s
<1>7. CASE missed
  <2>1. PrintsMissed(s)
    BY <1>6, <1>7 DEF TickFinal, PrintsMissed, SavedAfter
  <2>2. QED BY <1>1, <1>2, <1>6, <2>1 DEF TickOutcome
<1>8. CASE ~missed /\ fenix
  <2>1. SkipsTheFinal(s)
    BY <1>6, <1>8 DEF TickFinal, SkipsTheFinal
  <2>2. QED BY <1>1, <1>2, <1>6, <2>1 DEF TickOutcome
<1>9. CASE ~missed /\ ~fenix /\ prints
  <2>1. /\ tick' = "final" /\ HandFinal(s.ofp)
        /\ st' = trigger.state /\ saved' = SavedAfter(s)
    BY <1>6, <1>9 DEF TickFinal, SavedAfter
  <2>2. PrintsFinal(s)
    BY <1>3, <1>5, <1>9, <2>1 DEF PrintsFinal
  <2>3. QED BY <1>1, <1>2, <1>6, <2>2 DEF TickOutcome
<1>10. CASE ~missed /\ ~fenix /\ ~prints
  <2>1. /\ st' = IF s.phase = "locked" /\ s.ofp # NoOfp
                 THEN trigger.state ELSE s
        /\ saved' = SavedAfter(s)
        /\ UNCHANGED <<tick, finals>>
    BY <1>6, <1>10 DEF TickFinal, SavedAfter
  <2>2. FollowsOnly(s)
    BY <1>3, <1>4, <2>1 DEF FollowsOnly
  <2>3. QED BY <1>1, <1>2, <1>6, <2>2 DEF TickOutcome
<1>11. QED BY <1>7, <1>8, <1>9, <1>10

LEMMA TickDisabledIs ==
  ASSUME st \in State, NEW snap, TickDisabled(snap)
  PROVE  \E s \in State : TickOutcome(s)
<1> DEFINE s == FlightPhase(st, snap)
<1>1. Follows(st, s)
  BY FlightPhaseIs
<1>2. s \in State /\ Alike(s, s)
  BY <1>1 DEF Follows, Alike
<1>3. /\ tick = "idle" /\ st' = s /\ saved' = SavedAfter(s)
      /\ UNCHANGED <<last, enabled, simbrief, tick, network, pollLock,
                     commandLock, bundles, finals, crossed, events>>
  BY DEF TickDisabled, SavedAfter, threads, history
<1> HIDE DEF s
<1>4. QED BY <1>1, <1>2, <1>3 DEF TickOutcome, FollowsOnly

-----------------------------------------------------------------------------
(* Types.                                                                  *)

\* The state and the settings keep their types, and name no OFP that SimBrief
\* has not made.
StateOK ==
  /\ st \in State /\ saved \in State
  /\ latest \in Ofp /\ last \in 0 .. latest
  /\ st.ofp <= latest /\ saved.ofp <= latest

HistoryOK ==
  /\ bundles \in [Ofp -> Nat] /\ finals \in [Ofp -> Nat]
  /\ crossed \subseteq Ofp
  /\ manual \in 0 .. MaxEvents /\ unlocks \in 0 .. MaxEvents
  /\ crashes \in 0 .. MaxEvents /\ raises \in 0 .. MaxEvents

ThreadsOK ==
  /\ enabled \in EnabledChoices /\ expired \subseteq Timed
  /\ tick \in {"idle", "final", "missed"} /\ fetching \subseteq Worker
  /\ answer \in [Worker -> 0 .. latest] /\ clock \subseteq expired
  /\ pollLock \in Ofp \cup {NoOfp} /\ commandLock \in Ofp \cup {NoOfp}

LEMMA TypeOKParts == TypeOK <=> StateOK /\ HistoryOK /\ ThreadsOK
BY DEF TypeOK, StateOK, HistoryOK, ThreadsOK

LEMMA InitTypeOK == Init => TypeOK
<1> SUFFICES ASSUME Init PROVE StateOK /\ HistoryOK /\ ThreadsOK
  BY TypeOKParts
<1>1. 1 \in Ofp
  BY WatcherAssumption DEF Ofp
<1>2. StateOK
  BY <1>1, UnlockedIs DEF Init, StateOK, NoOfp, Ofp
<1>3. HistoryOK
  BY WatcherAssumption DEF Init, HistoryOK
<1>4. ThreadsOK
  BY DEF Init, ThreadsOK, NoOfp, Ofp
<1>5. QED BY <1>2, <1>3, <1>4

LEMMA TickTypeOK ==
  ASSUME TypeOK, NEW s \in State, TickOutcome(s)
  PROVE  TypeOK'
<1> USE DEF Ofp, NoOfp
<1>1. StateOK /\ HistoryOK /\ ThreadsOK
  BY TypeOKParts
<1>2. s.ofp <= latest
  BY <1>1, UnlockedIs, WatcherAssumption DEF TickOutcome, Follows, Ends, StateOK
<1>3. SavedAfter(s) \in State /\ SavedAfter(s).ofp <= latest
  BY <1>1, <1>2 DEF SavedAfter, StateOK
<1>4. s.ofp # NoOfp => [finals EXCEPT ![s.ofp] = @ + 1] \in [Ofp -> Nat]
  BY <1>1 DEF HistoryOK, State
<1>5. /\ st' \in State /\ saved' \in State
      /\ st'.ofp <= latest /\ saved'.ofp <= latest
      /\ finals' \in [Ofp -> Nat] /\ tick' \in {"idle", "final", "missed"}
  <2>1. CASE FollowsOnly(s)
    BY <1>1, <1>2, <1>3, <2>1 DEF FollowsOnly, Alike, HistoryOK, ThreadsOK
  <2>2. CASE SkipsTheFinal(s)
    <3>1. st' \in State /\ st'.ofp = s.ofp
      BY <2>2 DEF SkipsTheFinal, State, Phase
    <3>2. QED BY <1>1, <1>2, <2>2, <3>1 DEF SkipsTheFinal, HistoryOK, ThreadsOK
  <2>3. CASE PrintsFinal(s)
    BY <1>1, <1>2, <1>4, <2>3
       DEF PrintsFinal, HandFinal, Alike, StateOK
  <2>4. CASE PrintsMissed(s)
    BY <1>1, <1>2, <1>3, <1>4, <2>4 DEF PrintsMissed, HandFinal
  <2>5. QED BY <2>1, <2>2, <2>3, <2>4 DEF TickOutcome
<1>6. UNCHANGED <<last, enabled, simbrief, network, pollLock, commandLock,
                  bundles, crossed, events>>
  BY DEF TickOutcome
<1>7. StateOK' /\ HistoryOK' /\ ThreadsOK'
  BY <1>1, <1>5, <1>6
     DEF StateOK, HistoryOK, ThreadsOK, simbrief, network, events
<1>8. QED BY <1>7 DEF TypeOK, StateOK, HistoryOK, ThreadsOK

\* The end of a print marks the state in force, whichever it is by then, and
\* leaves alone whose lock it is and since when.
Marks(s, t) ==
  /\ t \in State
  /\ t.ofp = s.ofp /\ t.lockedFor = s.lockedFor
  /\ t.groundFor = s.groundFor /\ t.landedFor = s.landedFor

LEMMA TickMissedPrintedIs ==
  ASSUME st \in State, TickMissedPrinted
  PROVE  /\ Marks(st, st') /\ saved' = st' /\ st'.phase = st.phase
         /\ st'.finalPrinted = TRUE /\ st'.missedFinal = FALSE
BY DEF TickMissedPrinted, Marks, State

LEMMA TickFinalPrintedIs ==
  ASSUME st \in State, TickFinalPrinted
  PROVE  /\ Marks(st, st') /\ saved' = IF st.ofp # NoOfp THEN st' ELSE saved
         /\ st'.phase = "final_printed" /\ st'.finalPrinted = TRUE
         /\ st'.missedFinal = st.missedFinal
BY DEF TickFinalPrinted, MarkFinal, Marks, State, Phase

LEMMA PollLockPrintedIs ==
  ASSUME st \in State, PollLockPrinted
  PROVE  /\ Marks(st, st') /\ saved' = st'
         /\ st'.missedFinal = st.missedFinal
         /\ IF pollLock \in Fenix
            THEN st'.phase = "final_printed" /\ st'.finalPrinted = TRUE
            ELSE st'.phase = st.phase /\ st'.finalPrinted = st.finalPrinted
<1>1. CASE pollLock \in Fenix
  BY <1>1 DEF PollLockPrinted, SkipsFinal, Marks, State, Phase
<1>2. CASE pollLock \notin Fenix
  BY <1>2 DEF PollLockPrinted, SkipsFinal, Marks, State, Phase
<1>3. QED BY <1>1, <1>2

LEMMA PrintNowPrintedIs ==
  ASSUME st \in State, PrintNowPrinted
  PROVE  /\ Marks(st, st') /\ saved' = st'
         /\ st'.missedFinal = st.missedFinal
         /\ IF commandLock \in Fenix
            THEN st'.phase = "final_printed" /\ st'.finalPrinted = TRUE
            ELSE st'.phase = "locked" /\ st'.finalPrinted = FALSE
<1>1. CASE commandLock \in Fenix
  <2>1. /\ st' = [st EXCEPT !.lockPrinted = TRUE, !.finalPrinted = TRUE,
                            !.phase = "final_printed"]
        /\ saved' = st'
    <3>1. SkipsFinal(commandLock) = TRUE
      BY <1>1 DEF SkipsFinal
    <3>2. QED BY <3>1 DEF PrintNowPrinted
  <2>2. QED BY <1>1, <2>1 DEF Marks, State, Phase
<1>2. CASE commandLock \notin Fenix
  <2>1. /\ st' = [st EXCEPT !.lockPrinted = TRUE, !.finalPrinted = FALSE,
                            !.phase = "locked"]
        /\ saved' = st'
    <3>1. SkipsFinal(commandLock) = FALSE
      BY <1>2 DEF SkipsFinal
    <3>2. QED BY <3>1 DEF PrintNowPrinted
  <2>2. QED BY <1>2, <2>1 DEF Marks, State, Phase
<1>3. QED BY <1>1, <1>2

\* A bundle or a final more of one OFP, and of no other.
OneMore(f, g, o) ==
  /\ g \in [Ofp -> Nat]
  /\ g[o] = f[o] + 1 /\ \A p \in Ofp : p # o => g[p] = f[p]

LEMMA CountOne ==
  ASSUME NEW f \in [Ofp -> Nat], NEW o \in Ofp
  PROVE  OneMore(f, [f EXCEPT ![o] = @ + 1], o)
BY DEF OneMore

\* The OFPs that the poll worker and Print OFP are about to handle.
PollPlan == answer["poll"]
CommandPlan == answer["command"]

LEMMA PlansAre ==
  ASSUME TypeOK
  PROVE  /\ PollPlan \in 0 .. latest /\ CommandPlan \in 0 .. latest
         /\ PollPlan # NoOfp => PollPlan \in Ofp
         /\ CommandPlan # NoOfp => CommandPlan \in Ofp
         /\ latest \in Ofp /\ latest \in Nat /\ Ofp \subseteq Nat
<1>1. /\ answer \in [Worker -> 0 .. latest] /\ latest \in 1 .. MaxOfp
      /\ MaxOfp \in Nat
  BY WatcherAssumption DEF TypeOK, Ofp
<1>2. "poll" \in Worker /\ "command" \in Worker
  BY DEF Worker
<1>3. QED BY <1>1, <1>2 DEF PollPlan, CommandPlan, Ofp, NoOfp

\* A worker that handles its answer has none any more; the other keeps its.
LEMMA HandlesIs ==
  ASSUME TypeOK
  PROVE  /\ Handles("poll") => /\ PollPlan # NoOfp /\ PollPlan' = NoOfp
                               /\ answer' \in [Worker -> 0 .. latest]
                               /\ fetching' = fetching
         /\ Handles("command") => /\ CommandPlan # NoOfp /\ PollPlan' = PollPlan
                                  /\ answer' \in [Worker -> 0 .. latest]
                                  /\ fetching' = fetching
<1>1. answer \in [Worker -> 0 .. latest] /\ NoOfp \in 0 .. latest
  BY PlansAre DEF TypeOK, NoOfp
<1>2. "poll" \in Worker /\ "command" \in Worker /\ "poll" # "command"
  BY DEF Worker
<1>3. QED BY <1>1, <1>2 DEF Handles, PollPlan, CommandPlan

\* What is crossed by a lock onto o.
CrossedBy(o) == IF Marking THEN crossed \cup {o} ELSE crossed

\* The poll worker locks onto an OFP that was not the last one handled, or
\* not the one locked; Print OFP onto any.
LEMMA PollLocksIs ==
  ASSUME TypeOK, PollLocks
  PROVE  /\ PollPlan \in Ofp
         /\ st.phase \notin {"final_printed", "airborne"}
         /\ last # PollPlan \/ st.ofp \notin {NoOfp, PollPlan}
         /\ FreshLock(st', PollPlan) /\ last' = PollPlan
         /\ saved' = IF st.phase = "post_landing" THEN Unlocked ELSE saved
         /\ pollLock' = PollPlan
         /\ PollPlan' = NoOfp /\ answer' \in [Worker -> 0 .. latest]
         /\ fetching' = fetching /\ clock' = {}
         /\ OneMore(bundles, bundles', PollPlan)
         /\ crossed' = CrossedBy(PollPlan)
         /\ enabled' = enabled /\ latest' = latest /\ expired' = expired
         /\ tick' = tick /\ commandLock' = commandLock /\ finals' = finals
         /\ manual' = manual /\ unlocks' = unlocks /\ crashes' = crashes
         /\ raises' = raises
<1>1. PollPlan \in Ofp /\ st \in State /\ bundles \in [Ofp -> Nat]
      /\ PollPlan' = NoOfp /\ answer' \in [Worker -> 0 .. latest]
      /\ fetching' = fetching
  BY PlansAre, HandlesIs DEF PollLocks, TypeOK
<1>2. /\ FreshLock(LockedOnto(st, PollPlan), PollPlan)
      /\ FreshLock(LockedOnto(Unlocked, PollPlan), PollPlan)
  BY <1>1, UnlockedIs, LockedOntoIs
<1>3. OneMore(bundles, bundles', PollPlan)
  BY <1>1, CountOne DEF PollLocks, PollPlan
<1>4. /\ FreshLock(st', PollPlan) /\ last' = PollPlan
      /\ crossed' = CrossedBy(PollPlan)
  BY <1>2 DEF PollLocks, BeginLock, PollPlan, CrossedBy
<1>5. /\ st.phase \notin {"final_printed", "airborne"}
      /\ last # PollPlan \/ st.ofp \notin {NoOfp, PollPlan}
      /\ saved' = IF st.phase = "post_landing" THEN Unlocked ELSE saved
  BY DEF PollLocks, Eligible, Regenerated, PollPlan
<1>6. QED
  BY <1>1, <1>3, <1>4, <1>5 DEF PollLocks, simbrief, events, PollPlan

LEMMA PrintNowIs ==
  ASSUME TypeOK, PrintNow
  PROVE  /\ CommandPlan \in Ofp /\ commandLock' = CommandPlan
         /\ FreshLock(st', CommandPlan) /\ last' = CommandPlan
         /\ MayDisturb /\ manual' = manual + 1
         /\ PollPlan' = PollPlan /\ answer' \in [Worker -> 0 .. latest]
         /\ fetching' = fetching /\ clock' = clock
         /\ crossed' = CrossedBy(CommandPlan)
         /\ saved' = saved /\ enabled' = enabled /\ latest' = latest
         /\ expired' = expired /\ tick' = tick
         /\ pollLock' = pollLock /\ bundles' = bundles /\ finals' = finals
         /\ unlocks' = unlocks /\ crashes' = crashes /\ raises' = raises
<1>1. CommandPlan \in Ofp /\ st \in State
      /\ PollPlan' = PollPlan /\ answer' \in [Worker -> 0 .. latest]
      /\ fetching' = fetching
  BY PlansAre, HandlesIs DEF PrintNow, TypeOK
<1>2. FreshLock(LockedOnto(st, CommandPlan), CommandPlan)
  BY <1>1, LockedOntoIs
<1>3. QED
  BY <1>1, <1>2 DEF PrintNow, BeginLock, simbrief, CommandPlan, CrossedBy

\* At the end of a lock and at an Unlock, the state starts over.
StartsOver ==
  /\ st' = Unlocked /\ saved' = Unlocked
  /\ enabled' = enabled /\ latest' = latest /\ expired' = expired
  /\ tick' = tick /\ network' = network /\ pollLock' = pollLock
  /\ commandLock' = commandLock /\ bundles' = bundles /\ finals' = finals
  /\ crossed' = crossed /\ manual' = manual /\ crashes' = crashes
  /\ raises' = raises

LEMMA TickMaxLockIs ==
  ASSUME TickMaxLock
  PROVE  StartsOver /\ last' = last /\ unlocks' = unlocks
BY DEF TickMaxLock, StartsOver, simbrief, threads, history, events

LEMMA UnlockNowIs ==
  ASSUME UnlockNow
  PROVE  StartsOver /\ last' = NoOfp /\ MayDisturb /\ unlocks' = unlocks + 1
BY DEF UnlockNow, StartsOver, simbrief, threads

\* A print that raises leaves the handler, and everything else as it is.
Raised ==
  /\ raises < MaxEvents /\ raises' = raises + 1
  /\ tick' \in {tick, "idle"} /\ pollLock' \in {pollLock, NoOfp}
  /\ commandLock' \in {commandLock, NoOfp}
  /\ UNCHANGED <<st, settings, simbrief, network, bundles, finals, crossed,
                 manual, unlocks, crashes>>

LEMMA RaisedIs == TickRaises \/ PollLockRaises \/ PrintNowRaises => Raised
BY DEF TickRaises, PollLockRaises, PrintNowRaises, Raises, Raised

LEMMA NextTypeOK == TypeOK /\ [Next]_vars => TypeOK'
<1> SUFFICES ASSUME TypeOK, [Next]_vars
             PROVE  StateOK' /\ HistoryOK' /\ ThreadsOK'
  BY DEF TypeOK, StateOK, HistoryOK, ThreadsOK
<1> DEFINE Good == StateOK' /\ HistoryOK' /\ ThreadsOK'
<1> USE DEF Ofp, NoOfp
<1>1. StateOK /\ HistoryOK /\ ThreadsOK
  BY TypeOKParts
<1>2. TypeOK' => Good
  BY DEF TypeOK, StateOK, HistoryOK, ThreadsOK
<1>3. /\ st \in State /\ saved \in State /\ latest \in Ofp /\ MaxOfp \in Nat
      /\ Unlocked \in State /\ Unlocked.ofp = 0
      /\ PollPlan \in 0 .. latest /\ CommandPlan \in 0 .. latest
  BY <1>1, UnlockedIs, PlansAre, WatcherAssumption DEF StateOK
<1> DEFINE Counters == /\ manual + 1 \in 0 .. MaxEvents
                       /\ unlocks + 1 \in 0 .. MaxEvents
                       /\ crashes + 1 \in 0 .. MaxEvents
<1>20. MayDisturb => Counters
  BY <1>1, WatcherAssumption DEF MayDisturb, HistoryOK
<1>4. CASE Ticks
  <2>1. CASE TickMaxLock
    <3>1. StartsOver /\ last' = last /\ unlocks' = unlocks
      BY <2>1, TickMaxLockIs
    <3>2. StateOK'
      BY <1>1, <1>3, <3>1 DEF StartsOver, StateOK
    <3>3. HistoryOK'
      BY <1>1, <3>1 DEF StartsOver, HistoryOK
    <3>4. ThreadsOK'
      BY <1>1, <3>1 DEF StartsOver, ThreadsOK, network
    <3>5. QED BY <3>2, <3>3, <3>4
  <2>2. ASSUME NEW s \in State, TickOutcome(s) PROVE Good
    BY <1>2, <2>2, TickTypeOK
  <2>3. QED BY <1>1, <1>4, <2>1, <2>2, TickIs, TickDisabledIs DEF Ticks, StateOK
<1>5. CASE TickMissedPrinted
  BY <1>1, <1>3, <1>5, TickMissedPrintedIs
     DEF TickMissedPrinted, Marks, StateOK, HistoryOK, ThreadsOK, history,
         events, simbrief, network
<1>6. CASE TickFinalPrinted
  BY <1>1, <1>3, <1>6, TickFinalPrintedIs
     DEF TickFinalPrinted, Marks, StateOK, HistoryOK, ThreadsOK, history,
         events, simbrief, network
<1>7. CASE PollStart \/ (\E w \in Worker : Answered(w)) \/ PrintNowStart
           \/ PrintNowFails
  <2>1. StateOK' /\ HistoryOK'
    BY <1>1, <1>7
       DEF PollStart, Answered, PrintNowStart, PrintNowFails, StateOK,
           HistoryOK, history, events, simbrief, settings
  <2>2. ThreadsOK'
    <3>1. CASE PollStart \/ PrintNowStart \/ PrintNowFails
      BY <1>1, <3>1
         DEF PollStart, PrintNowStart, PrintNowFails, ThreadsOK, simbrief,
             settings, Worker
    <3>2. ASSUME NEW w \in Worker, Answered(w) PROVE ThreadsOK'
      <4>1. /\ answer' = [answer EXCEPT ![w] = latest]
            /\ fetching' = fetching \ {w}
            /\ UNCHANGED <<settings, simbrief, tick, clock, pollLock,
                           commandLock>>
        BY <3>2 DEF Answered
      <4>2. answer' \in [Worker -> 0 .. latest]
        BY <1>1, <1>3, <4>1 DEF ThreadsOK
      <4>3. QED BY <1>1, <4>1, <4>2 DEF ThreadsOK, settings, simbrief
    <3>3. QED BY <1>7, <3>1, <3>2
  <2>3. QED BY <2>1, <2>2
<1>8. CASE PollFails
  BY <1>1, <1>8
     DEF PollFails, StateOK, HistoryOK, ThreadsOK, history, events, simbrief
<1>9. CASE PollLocks
  <2>1. StateOK'
    <3>1. /\ FreshLock(st', PollPlan) /\ last' = PollPlan /\ latest' = latest
          /\ saved' \in {Unlocked, saved}
      BY <1>9, PollLocksIs
    <3>2. st' \in State /\ st'.ofp = PollPlan
      BY <3>1 DEF FreshLock
    <3>3. QED BY <1>1, <1>3, <3>1, <3>2 DEF StateOK
  <2>2. HistoryOK'
    <3>1. crossed' \in {crossed, crossed \cup {PollPlan}} /\ PollPlan \in Ofp
      BY <1>9, PollLocksIs DEF CrossedBy
    <3>2. QED BY <1>1, <1>9, <3>1, PollLocksIs DEF HistoryOK, OneMore
  <2>3. ThreadsOK'
    BY <1>1, <1>9, PollLocksIs DEF ThreadsOK
  <2>4. QED BY <2>1, <2>2, <2>3
<1>10. CASE PollIgnores
  <2>1. Ignored(PollPlan) \in 0 .. latest
    BY <1>1, <1>3 DEF Ignored, StateOK
  <2>2. /\ answer' \in [Worker -> 0 .. latest] /\ fetching' = fetching
    BY <1>10, HandlesIs DEF PollIgnores
  <2>3. QED
    BY <1>1, <1>10, <2>1, <2>2
       DEF PollIgnores, StateOK, HistoryOK, ThreadsOK, history, events,
           simbrief, PollPlan
<1>11. CASE PollLockPrinted
  BY <1>1, <1>3, <1>11, PollLockPrintedIs
     DEF PollLockPrinted, Marks, StateOK, HistoryOK, ThreadsOK, history,
         events, simbrief, network
<1>12. CASE PrintNow
  <2>1. StateOK'
    BY <1>1, <1>3, <1>12, PrintNowIs DEF FreshLock, StateOK
  <2>2. HistoryOK'
    <3>1. crossed' \in {crossed, crossed \cup {CommandPlan}}
          /\ CommandPlan \in Ofp
      BY <1>12, PrintNowIs DEF CrossedBy
    <3>2. QED BY <1>1, <1>12, <1>20, <3>1, PrintNowIs DEF HistoryOK
  <2>3. ThreadsOK'
    BY <1>1, <1>12, PrintNowIs DEF ThreadsOK
  <2>4. QED BY <2>1, <2>2, <2>3
<1>13. CASE PrintNowPrinted
  BY <1>1, <1>3, <1>13, PrintNowPrintedIs
     DEF PrintNowPrinted, Marks, StateOK, HistoryOK, ThreadsOK, history,
         events, simbrief, network
<1>14. CASE UnlockNow
  <2>1. StateOK'
    BY <1>1, <1>3, <1>14, UnlockNowIs DEF StartsOver, StateOK
  <2>2. HistoryOK'
    BY <1>1, <1>14, <1>20, UnlockNowIs DEF StartsOver, HistoryOK
  <2>3. ThreadsOK'
    BY <1>1, <1>14, UnlockNowIs DEF StartsOver, ThreadsOK, network
  <2>4. QED BY <2>1, <2>2, <2>3
<1>15. CASE SetEnabled \/ NewOfp \/ (\E o \in Ofp : Expire(o))
  <2>1. CASE SetEnabled
    BY <1>1, <2>1
       DEF SetEnabled, StateOK, HistoryOK, ThreadsOK, simbrief, threads,
           network, history, events
  <2>2. CASE NewOfp
    <3>1. StateOK'
      BY <1>1, <1>3, <2>2 DEF NewOfp, StateOK, State, settings
    <3>2. HistoryOK'
      BY <1>1, <2>2 DEF NewOfp, HistoryOK, history, events
    <3>3. ThreadsOK'
      <4>1. latest' = latest + 1 /\ latest \in Nat
        BY <1>1, <2>2 DEF NewOfp, StateOK
      <4>2. 0 .. latest \subseteq 0 .. latest'
        BY <4>1
      <4>3. answer' = answer /\ answer \in [Worker -> 0 .. latest]
        BY <1>1, <2>2 DEF NewOfp, threads, network, ThreadsOK
      <4>4. answer' \in [Worker -> 0 .. latest']
        BY <4>2, <4>3
      <4>5. QED
        BY <1>1, <2>2, <4>4 DEF NewOfp, ThreadsOK, threads, network, settings
    <3>4. QED BY <3>1, <3>2, <3>3
  <2>3. ASSUME NEW o \in Ofp, Expire(o) PROVE Good
    BY <1>1, <2>3
       DEF Expire, StateOK, HistoryOK, ThreadsOK, threads, network, history,
           events, settings
  <2>4. QED BY <1>15, <2>1, <2>2, <2>3
<1>16. ASSUME NEW span \in Span, Elapse(span) PROVE Good
  BY <1>1, <1>16, AgedIs
     DEF Elapse, StateOK, HistoryOK, ThreadsOK, simbrief, threads, network,
         history, events
<1>17. CASE Crash
  <2>1. StateOK'
    BY <1>1, <1>17 DEF Crash, StateOK, simbrief, settings
  <2>2. HistoryOK'
    BY <1>1, <1>17, <1>20 DEF Crash, HistoryOK
  <2>3. ThreadsOK'
    BY <1>1, <1>3, <1>17 DEF Crash, ThreadsOK, simbrief, settings
  <2>4. QED BY <2>1, <2>2, <2>3
<1>18. CASE TickRaises \/ PollLockRaises \/ PrintNowRaises
  <2>1. Raised
    BY <1>18, RaisedIs
  <2>2. StateOK' /\ ThreadsOK'
    BY <1>1, <2>1 DEF Raised, StateOK, ThreadsOK, simbrief, settings, network
  <2>3. HistoryOK'
    BY <1>1, WatcherAssumption, <2>1 DEF Raised, HistoryOK
  <2>4. QED BY <2>2, <2>3
<1>19. CASE UNCHANGED vars
  BY <1>1, <1>19
     DEF vars, StateOK, HistoryOK, ThreadsOK, simbrief, threads, network,
         history, events, settings
<1>21. QED
  BY <1>4, <1>5, <1>6, <1>7, <1>8, <1>9, <1>10, <1>11, <1>12, <1>13, <1>14,
     <1>15, <1>16, <1>17, <1>18, <1>19 DEF Next

\* The types of the watcher's state, and that it remembers no OFP that has not
\* been generated, for all constants.
THEOREM WatcherTypeOK == Spec => []TypeOK
BY InitTypeOK, NextTypeOK, PTL DEF Spec

-----------------------------------------------------------------------------
(* What any step does, as far as the invariants tell.                      *)

\* Nothing that they read, but that SimBrief may have answered.
Still ==
  /\ PollPlan' \in {PollPlan, latest}
  /\ UNCHANGED <<st, saved, last, latest, tick, pollLock, commandLock, bundles,
                 finals, crossed, events>>

\* SimBrief's answer to the poll worker, or the latest OFP: no older one can
\* come.
Floor == IF PollPlan = NoOfp THEN latest ELSE PollPlan

\* The poll worker saves the state, and may remember the OFP it was shown.
Saves ==
  /\ saved' \in {st, saved} /\ last' \in {last, Floor}
  /\ PollPlan' \in {PollPlan, NoOfp}
  /\ UNCHANGED <<st, latest, tick, pollLock, commandLock, bundles, finals,
                 crossed, events>>

\* SimBrief has a new OFP.
Generates ==
  /\ latest' = latest + 1 /\ PollPlan' = PollPlan
  /\ UNCHANGED <<st, saved, last, tick, pollLock, commandLock, bundles, finals,
                 crossed, events>>

Ages(span) ==
  /\ span # "seconds" => Quiet
  /\ st' = Aged(st, span) /\ saved' = Aged(saved, span)
  /\ PollPlan' = PollPlan
  /\ UNCHANGED <<last, latest, tick, pollLock, commandLock, bundles, finals,
                 crossed, events>>

Crashes ==
  /\ crashes' = crashes + 1
  /\ st' = saved /\ saved' = saved /\ tick' = "idle" /\ pollLock' = NoOfp
  /\ commandLock' = NoOfp /\ PollPlan' = NoOfp
  /\ UNCHANGED <<last, latest, bundles, finals, crossed, manual, unlocks,
                 raises>>

\* A print ends.
EndOfPrint ==
  UNCHANGED <<last, latest, network, bundles, finals, crossed, events>>

PrintEnds ==
  TickMissedPrinted \/ TickFinalPrinted \/ PollLockPrinted \/ PrintNowPrinted

StepOutcome ==
  \/ Still \/ Saves \/ Generates \/ (\E span \in Span : Ages(span))
  \/ Crashes \/ Raised
  \/ \E s \in State : TickOutcome(s)
  \/ TickMaxLock \/ UnlockNow \/ PollLocks \/ PrintNow
  \/ EndOfPrint /\ PrintEnds

LEMMA StepIs == TypeOK /\ [Next]_vars => StepOutcome
<1> SUFFICES ASSUME TypeOK, [Next]_vars PROVE StepOutcome
  OBVIOUS
<1>1. st \in State
  BY DEF TypeOK
<1>2. CASE Ticks
  BY <1>1, <1>2, TickIs, TickDisabledIs DEF Ticks, StepOutcome
<1>3. CASE PrintEnds
  <2>1. EndOfPrint
    BY <1>3 DEF PrintEnds, TickMissedPrinted, TickFinalPrinted,
                PollLockPrinted, PrintNowPrinted, EndOfPrint, simbrief, history
  <2>2. QED BY <1>3, <2>1 DEF StepOutcome
<1>4. CASE PollStart \/ PrintNowStart \/ PrintNowFails \/ SetEnabled
           \/ (\E o \in Ofp : Expire(o)) \/ UNCHANGED vars
  <2>1. Still
    BY <1>4 DEF PollStart, PrintNowStart, PrintNowFails, SetEnabled, Expire,
                vars, Still, PollPlan, settings, simbrief, threads, network,
                history
  <2>2. QED BY <2>1 DEF StepOutcome
<1>5. ASSUME NEW w \in Worker, Answered(w) PROVE StepOutcome
  <2>1. answer \in [Worker -> 0 .. latest] /\ "poll" \in Worker
    BY DEF TypeOK, Worker
  <2>2. PollPlan' \in {PollPlan, latest}
    BY <1>5, <2>1 DEF Answered, PollPlan
  <2>3. Still
    BY <1>5, <2>2 DEF Answered, Still, settings, simbrief, history
  <2>4. QED BY <2>3 DEF StepOutcome
<1>6. CASE PollFails
  <2>1. Saves
    BY <1>6 DEF PollFails, Saves, PollPlan, simbrief, history
  <2>2. QED BY <2>1 DEF StepOutcome
<1>7. CASE PollIgnores
  <2>1. PollPlan # NoOfp /\ PollPlan' = NoOfp
    BY <1>7, HandlesIs DEF PollIgnores
  <2>2. last' \in {last, PollPlan}
    BY <1>7 DEF PollIgnores, Ignored, PollPlan
  <2>3. Saves
    BY <1>7, <2>1, <2>2 DEF PollIgnores, Saves, Floor, simbrief, history
  <2>4. QED BY <2>3 DEF StepOutcome
<1>8. CASE NewOfp
  BY <1>8
     DEF NewOfp, Generates, PollPlan, settings, threads, network, history,
         StepOutcome
<1>9. ASSUME NEW span \in Span, Elapse(span) PROVE StepOutcome
  <2>1. Ages(span)
    BY <1>9 DEF Elapse, Ages, PollPlan, simbrief, threads, network, history
  <2>2. QED BY <2>1 DEF StepOutcome
<1>10. CASE Crash
  <2>1. PollPlan' = NoOfp
    BY <1>10 DEF Crash, PollPlan, Worker
  <2>2. QED
    BY <1>10, <2>1 DEF Crash, Crashes, settings, simbrief, StepOutcome
<1>11. CASE TickRaises \/ PollLockRaises \/ PrintNowRaises
  BY <1>11, RaisedIs DEF StepOutcome
<1>12. CASE PollLocks \/ PrintNow \/ UnlockNow
  BY <1>12 DEF StepOutcome
<1>13. QED
  BY <1>2, <1>3, <1>4, <1>5, <1>6, <1>7, <1>8, <1>9, <1>10, <1>11, <1>12
     DEF Next, PrintEnds

\* What the poll worker will be shown never gets older.
LEMMA FloorIs ==
  ASSUME TypeOK
  PROVE  /\ Floor \in Ofp /\ Floor \in Nat /\ Floor <= latest
         /\ PollPlan # NoOfp => Floor = PollPlan
BY PlansAre DEF Floor

LEMMA FloorRises ==
  ASSUME TypeOK, TypeOK', [Next]_vars
  PROVE  Floor' \in Nat /\ Floor <= Floor'
<1>1. /\ PollPlan \in 0 .. latest /\ latest \in Nat /\ latest' \in Nat
      /\ NoOfp = 0
  BY PlansAre DEF TypeOK, Ofp, NoOfp
<1>2. \/ latest' = latest /\ PollPlan' \in {PollPlan, NoOfp, latest}
      \/ latest' = latest + 1 /\ PollPlan' = PollPlan
  <2>1. CASE Still \/ Saves \/ Generates \/ (\E span \in Span : Ages(span))
             \/ Crashes
    BY <2>1 DEF Still, Saves, Generates, Ages, Crashes
  <2>2. CASE Raised \/ (\E s \in State : TickOutcome(s)) \/ EndOfPrint
    BY <2>2 DEF Raised, TickOutcome, EndOfPrint, simbrief, network, PollPlan
  <2>3. CASE TickMaxLock \/ UnlockNow
    BY <2>3, TickMaxLockIs, UnlockNowIs DEF StartsOver, network, PollPlan
  <2>4. CASE PollLocks \/ PrintNow
    BY <2>4, PollLocksIs, PrintNowIs
  <2>5. QED BY <2>1, <2>2, <2>3, <2>4, StepIs DEF StepOutcome
<1>3. CASE latest' = latest /\ PollPlan' \in {PollPlan, NoOfp, latest}
  BY <1>1, <1>3 DEF Floor
<1>4. CASE latest' = latest + 1 /\ PollPlan' = PollPlan
  <2>1. CASE PollPlan = NoOfp
    BY <1>1, <1>4, <2>1 DEF Floor
  <2>2. CASE PollPlan # NoOfp
    BY <1>1, <1>4, <2>2 DEF Floor
  <2>3. QED BY <2>1, <2>2
<1>5. QED BY <1>2, <1>3, <1>4

-----------------------------------------------------------------------------
(* A watcher that is not polling knows its OFP.                            *)

Aligned(s) == (s.phase = "polling") <=> (s.ofp = NoOfp)

\* A lock that is still printing its bundle: time stamps that take a minute
\* or more have not moved, so it cannot have ended or landed.
Fresh(s) ==
  /\ s.phase \in LockedPhase /\ s.ofp # NoOfp
  /\ s.lockedFor <= 0 /\ s.groundFor <= 0 /\ s.landedFor = NoTime

LockInv ==
  unlocks = 0 =>
    /\ Aligned(st) /\ Aligned(saved)
    /\ tick = "final" => st.ofp # NoOfp
    /\ pollLock # NoOfp \/ commandLock # NoOfp => Fresh(st)

\* A tick keeps a lock aligned, and one that prints fresh.
LEMMA FollowsAligned ==
  ASSUME NEW s \in State, NEW t \in State, Follows(s, t), Aligned(s)
  PROVE  Aligned(t)
BY UnlockedIs DEF Follows, Ends, Stays, TakesOff, Lands, Aligned

LEMMA FollowsFresh ==
  ASSUME NEW s \in State, NEW t \in State, Follows(s, t), Fresh(s)
  PROVE  Fresh(t)
<1>1. s.phase # "post_landing" /\ Start(s.groundFor) <= 0
  BY DEF Fresh, LockedPhase, Start
<1>2. Stays(s, t) \/ TakesOff(s, t)
  <2>1. Start(s.groundFor) \in Int
    BY Thresholds DEF Start, State, Age, NoTime
  <2>2. ~Lands(s, t) /\ ~Ends(s, t)
    BY <1>1, <2>1, Thresholds DEF Lands, Ends
  <2>3. QED BY <2>2 DEF Follows
<1>3. /\ t.ofp = s.ofp /\ t.lockedFor = s.lockedFor
      /\ t.groundFor <= 0 /\ t.landedFor = NoTime
  BY <1>1, <1>2 DEF Follows, Ends, Stays, TakesOff, Fresh, NoTime, LockedPhase
<1>4. t.phase \in LockedPhase
  BY <1>2 DEF Stays, TakesOff, Fresh, LockedPhase
<1>5. QED BY <1>3, <1>4 DEF Fresh

LEMMA TickLockInv ==
  ASSUME TypeOK, LockInv, NEW s \in State, TickOutcome(s), unlocks = 0
  PROVE  LockInv'
<1> DEFINE Printing == pollLock # NoOfp \/ commandLock # NoOfp
<1>1. /\ tick = "idle" /\ Follows(st, s) /\ st \in State
      /\ pollLock' = pollLock /\ commandLock' = commandLock
      /\ Aligned(st) /\ Aligned(saved) /\ (Printing => Fresh(st))
  BY DEF TickOutcome, LockInv, TypeOK
<1>2. Aligned(s) /\ (Printing => Fresh(s))
  BY <1>1, FollowsAligned, FollowsFresh
<1>3. CASE FollowsOnly(s)
  BY <1>1, <1>2, <1>3
     DEF FollowsOnly, SavedAfter, Alike, Aligned, Fresh, LockInv
<1>4. CASE SkipsTheFinal(s)
  <2>1. /\ st'.phase = "final_printed" /\ st'.ofp = s.ofp
        /\ st'.lockedFor = s.lockedFor /\ st'.groundFor = s.groundFor
        /\ st'.landedFor = s.landedFor
        /\ saved' = st' /\ tick' = tick
    BY <1>4 DEF SkipsTheFinal, State
  <2>2. s.phase = "locked"
    BY <1>4 DEF SkipsTheFinal
  <2>3. QED BY <1>1, <1>2, <2>1, <2>2 DEF Aligned, Fresh, LockInv, LockedPhase
<1>5. CASE PrintsFinal(s)
  BY <1>1, <1>2, <1>5 DEF PrintsFinal, Alike, Aligned, Fresh, LockInv
<1>6. CASE PrintsMissed(s)
  BY <1>1, <1>2, <1>6
     DEF PrintsMissed, SavedAfter, Aligned, Fresh, LockInv, LockedPhase
<1>7. QED BY <1>3, <1>4, <1>5, <1>6 DEF TickOutcome

LEMMA NextLockInv == TypeOK /\ LockInv /\ [Next]_vars => LockInv'
<1> SUFFICES ASSUME TypeOK, LockInv, [Next]_vars PROVE LockInv'
  OBVIOUS
<1>1. /\ st \in State /\ saved \in State /\ latest \in Ofp
      /\ bundles \in [Ofp -> Nat] /\ unlocks \in Nat
  BY DEF TypeOK
<1>2. StepOutcome
  BY StepIs
<1>3. Aligned(Unlocked) /\ NoOfp \notin Ofp
  BY <1>1, UnlockedIs DEF Aligned, Ofp, NoOfp
<1>4. CASE unlocks # 0
  <2>1. unlocks' # 0
    <3>1. CASE UnlockNow
      BY <1>1, <1>4, <3>1, UnlockNowIs
    <3>2. CASE PollLocks
      BY <1>1, <1>4, <3>2, PollLocksIs
    <3>3. CASE ~UnlockNow /\ ~PollLocks
      BY <1>1, <1>2, <1>4, <3>3, TickMaxLockIs, PrintNowIs
         DEF StepOutcome, Still, Saves, Generates, Ages, Crashes, TickOutcome,
             EndOfPrint, Raised, events
    <3>4. QED BY <3>1, <3>2, <3>3
  <2>2. QED BY <2>1 DEF LockInv
<1>5. CASE unlocks = 0
  <2>1. /\ Aligned(st) /\ Aligned(saved)
        /\ tick = "final" => st.ofp # NoOfp
        /\ pollLock # NoOfp \/ commandLock # NoOfp => Fresh(st)
    BY <1>5 DEF LockInv
  <2>2. CASE Still \/ Saves \/ Generates
    BY <2>1, <2>2 DEF Still, Saves, Generates, LockInv
  <2>3. ASSUME NEW span \in Span, Ages(span) PROVE LockInv'
    <3>1. Aligned(st') /\ Aligned(saved') /\ st'.ofp = st.ofp
      BY <1>1, <2>1, <2>3, AgedIs DEF Ages, Aligned
    <3>2. pollLock # NoOfp \/ commandLock # NoOfp => Fresh(st')
      BY <1>1, <2>1, <2>3, AgedIs DEF Ages, Quiet, Alike, Fresh
    <3>3. QED BY <2>1, <2>3, <3>1, <3>2 DEF Ages, LockInv
  <2>4. CASE Crashes \/ Raised
    BY <2>1, <2>4 DEF Crashes, Raised, settings, LockInv
  <2>5. CASE \E s \in State : TickOutcome(s)
    BY <1>5, <2>5, TickLockInv
  <2>6. CASE TickMaxLock
    <3>1. /\ st.lockedFor >= LockLimit /\ tick = "idle"
      BY <2>6 DEF TickMaxLock
    <3>2. pollLock = NoOfp /\ commandLock = NoOfp
      <4>1. st.lockedFor \in Int
        BY <1>1, Thresholds DEF State, Age, NoTime
      <4>2. ~Fresh(st)
        BY <3>1, <4>1, Thresholds DEF Fresh
      <4>3. QED BY <2>1, <4>2
    <3>3. QED
      BY <1>3, <2>6, <3>1, <3>2, TickMaxLockIs DEF StartsOver, LockInv
  <2>7. CASE UnlockNow
    BY <1>5, <2>7, UnlockNowIs DEF LockInv
  <2>8. CASE PollLocks
    <3>1. /\ FreshLock(st', PollPlan) /\ saved' \in {Unlocked, saved}
          /\ PollPlan \in Ofp
      BY <2>8, PollLocksIs
    <3>2. Aligned(st') /\ Fresh(st') /\ Aligned(saved')
      BY <1>3, <2>1, <3>1 DEF FreshLock, Aligned, Fresh, LockedPhase, NoTime
    <3>3. QED BY <3>2 DEF Fresh, LockInv
  <2>9. CASE PrintNow
    <3>1. FreshLock(st', CommandPlan) /\ saved' = saved /\ CommandPlan \in Ofp
      BY <2>9, PrintNowIs
    <3>2. Aligned(st') /\ Fresh(st') /\ Aligned(saved')
      BY <1>3, <2>1, <3>1 DEF FreshLock, Aligned, Fresh, LockedPhase, NoTime
    <3>3. QED BY <3>2 DEF Fresh, LockInv
  <2>10. CASE TickMissedPrinted
    <3>1. /\ Marks(st, st') /\ saved' = st' /\ st'.phase = st.phase
          /\ tick' = "idle" /\ pollLock' = pollLock
          /\ commandLock' = commandLock
      BY <1>1, <2>10, TickMissedPrintedIs DEF TickMissedPrinted
    <3>2. QED BY <2>1, <3>1 DEF Marks, Aligned, Fresh, LockInv
  <2>11. CASE TickFinalPrinted
    <3>1. /\ Marks(st, st') /\ saved' = st' /\ st'.phase = "final_printed"
          /\ tick' = "idle" /\ pollLock' = pollLock
          /\ commandLock' = commandLock /\ st.ofp # NoOfp
      BY <1>1, <2>1, <2>11, TickFinalPrintedIs DEF TickFinalPrinted
    <3>2. QED BY <2>1, <3>1 DEF Marks, Aligned, Fresh, LockInv, LockedPhase
  <2>12. CASE PollLockPrinted
    <3>1. /\ Marks(st, st') /\ saved' = st'
          /\ st'.phase \in {st.phase, "final_printed"} /\ pollLock # NoOfp
          /\ tick' = tick /\ commandLock' = commandLock /\ pollLock' = NoOfp
      BY <1>1, <2>12, PollLockPrintedIs DEF PollLockPrinted
    <3>2. QED BY <2>1, <3>1 DEF Marks, Aligned, Fresh, LockInv, LockedPhase
  <2>13. CASE PrintNowPrinted
    <3>1. /\ Marks(st, st') /\ saved' = st'
          /\ st'.phase \in {"locked", "final_printed"} /\ commandLock # NoOfp
          /\ tick' = tick /\ commandLock' = NoOfp /\ pollLock' = pollLock
      BY <1>1, <2>13, PrintNowPrintedIs DEF PrintNowPrinted
    <3>2. QED BY <2>1, <3>1 DEF Marks, Aligned, Fresh, LockInv, LockedPhase
  <2>14. QED
    BY <1>2, <2>2, <2>3, <2>4, <2>5, <2>6, <2>7, <2>8, <2>9, <2>10, <2>11,
       <2>12, <2>13 DEF StepOutcome, PrintEnds
<1>6. QED BY <1>4, <1>5

\* A watcher that is not polling knows its OFP, and a polling one has none,
\* while nobody uses Unlock: a handler that marks the state after its print
\* meets a lock, its own or a later one, and never an ended one, because a
\* landing, a turnaround and a lock limit take longer than a print.
THEOREM WatcherKnowsOfp == Spec => []LockHasOfp
<1>1. Init => LockInv
  BY UnlockedIs DEF Init, LockInv, Aligned, NoOfp
<1>2. LockInv => LockHasOfp
  BY DEF LockInv, LockHasOfp, Aligned
<1>3. QED
  BY <1>1, <1>2, InitTypeOK, NextTypeOK, NextLockInv, PTL DEF Spec

-----------------------------------------------------------------------------
(* In flight, what the settings hold is the flight.                        *)

\* The same flight, with the same marks on its final.
SameFlight(s, t) ==
  /\ t.phase = "airborne" /\ t.ofp = s.ofp
  /\ t.finalPrinted = s.finalPrinted /\ t.missedFinal = s.missedFinal

\* Nothing that the tick prints is still in the printer in flight.
FlightInv == st.phase = "airborne" => tick = "idle" /\ SameFlight(st, saved)

LEMMA TickFlightInv ==
  ASSUME TypeOK, FlightInv, NEW s \in State, TickOutcome(s)
  PROVE  FlightInv'
<1>1. tick = "idle" /\ Follows(st, s)
  BY DEF TickOutcome
<1>2. s.phase = "airborne" => SameFlight(s, SavedAfter(s))
  <2>1. CASE st.phase # s.phase
    BY <2>1 DEF SavedAfter, PhaseSaved, SameFlight
  <2>2. CASE st.phase = s.phase /\ s.phase = "airborne"
    <3>1. Stays(st, s) /\ s.ofp = st.ofp /\ s.finalPrinted = st.finalPrinted
      BY <1>1, <2>2, UnlockedIs DEF Follows, Ends, TakesOff, Lands
    <3>2. SavedAfter(s) = saved
      BY <2>2 DEF SavedAfter, PhaseSaved
    <3>3. QED BY <2>2, <3>1, <3>2 DEF Stays, FlightInv, SameFlight
  <2>3. QED BY <2>1, <2>2
<1>3. CASE FollowsOnly(s)
  BY <1>1, <1>2, <1>3 DEF FollowsOnly, Alike, SameFlight, FlightInv
<1>4. CASE SkipsTheFinal(s)
  <2>1. st'.phase = "final_printed"
    BY <1>4 DEF SkipsTheFinal, State
  <2>2. QED BY <2>1 DEF FlightInv
<1>5. CASE PrintsFinal(s)
  BY <1>5 DEF PrintsFinal, Alike, FlightInv
<1>6. CASE PrintsMissed(s)
  BY <1>6 DEF PrintsMissed, FlightInv
<1>7. QED BY <1>3, <1>4, <1>5, <1>6 DEF TickOutcome

LEMMA NextFlightInv == TypeOK /\ FlightInv /\ [Next]_vars => FlightInv'
<1> SUFFICES ASSUME TypeOK, FlightInv, [Next]_vars PROVE FlightInv'
  OBVIOUS
<1>1. /\ st \in State /\ saved \in State /\ latest \in Ofp
      /\ bundles \in [Ofp -> Nat]
  BY DEF TypeOK
<1>2. CASE Still \/ Saves \/ Generates
  BY <1>2 DEF Still, Saves, Generates, SameFlight, FlightInv
<1>3. ASSUME NEW span \in Span, Ages(span) PROVE FlightInv'
  BY <1>1, <1>3, AgedIs DEF Ages, SameFlight, FlightInv
<1>4. CASE Crashes \/ Raised
  BY <1>4 DEF Crashes, Raised, settings, SameFlight, FlightInv
<1>5. CASE \E s \in State : TickOutcome(s)
  BY <1>5, TickFlightInv
<1>6. CASE TickMaxLock \/ UnlockNow
  BY <1>6, TickMaxLockIs, UnlockNowIs, UnlockedIs DEF StartsOver, FlightInv
<1>7. CASE PollLocks \/ PrintNow
  <2>1. st'.phase = "locked"
    BY <1>7, PollLocksIs, PrintNowIs DEF FreshLock
  <2>2. QED BY <2>1 DEF FlightInv
<1>8. CASE TickMissedPrinted
  BY <1>1, <1>8, TickMissedPrintedIs
     DEF TickMissedPrinted, SameFlight, FlightInv
<1>9. CASE TickFinalPrinted
  BY <1>1, <1>9, TickFinalPrintedIs DEF FlightInv
<1>10. CASE PollLockPrinted
  <2>1. /\ saved' = st' /\ tick' = tick
        /\ st'.phase = "airborne" => st.phase = "airborne"
    BY <1>1, <1>10, PollLockPrintedIs DEF PollLockPrinted
  <2>2. QED BY <2>1 DEF SameFlight, FlightInv
<1>11. CASE PrintNowPrinted
  BY <1>1, <1>11, PrintNowPrintedIs DEF FlightInv
<1>12. QED
  BY <1>2, <1>3, <1>4, <1>5, <1>6, <1>7, <1>8, <1>9, <1>10, <1>11, StepIs
     DEF StepOutcome, PrintEnds

\* In flight the saved state has the flight's phase, OFP and final marks,
\* through every interleaving of the three threads: the take-off is saved as
\* it is noticed, and no print that ends later unmarks it.
THEOREM FlightStaysSaved == Spec => []FlightIsSaved
<1>1. Init => FlightInv
  BY UnlockedIs DEF Init, FlightInv
<1>2. FlightInv => FlightIsSaved
  BY DEF FlightInv, SameFlight, FlightIsSaved
<1>3. QED
  BY <1>1, <1>2, InitTypeOK, NextTypeOK, NextFlightInv, PTL DEF Spec

-----------------------------------------------------------------------------
(* A bundle prints by itself once.                                         *)

\* The poll worker has dealt with an OFP: what it will be shown is newer, or
\* the same and remembered.
Settled(o) == o < Floor \/ (o = Floor /\ last = o)

\* And it will not take it for a regenerated one either.
Done(o) == Settled(o) /\ (o < Floor \/ st.ofp \in {NoOfp, o})

One(p) == IF p THEN 1 ELSE 0

\* The bundles that Print OFP, Unlock and crashes have paid for.
Paid == manual + unlocks + crashes

\* An OFP that is still to be dealt with has printed only for one of these.
BundleInv == \A o \in Ofp : bundles[o] <= Paid + One(Done(o))

\* A step that neither forgets nor replaces what was handled.
LEMMA KeepsSettled ==
  ASSUME TypeOK, TypeOK', [Next]_vars, last' \in {last, Floor}, NEW o \in Ofp
  PROVE  Settled(o) => Settled(o)'
<1>1. Floor \in Nat /\ Floor' \in Nat /\ Floor <= Floor' /\ o \in Nat
  BY FloorIs, FloorRises, PlansAre DEF TypeOK, Ofp
<1> HIDE DEF Floor
<1>2. QED BY <1>1 DEF Settled

LEMMA KeepsDone ==
  ASSUME TypeOK, TypeOK', [Next]_vars, last' \in {last, Floor},
         st'.ofp \in {st.ofp, NoOfp, Floor}, NEW o \in Ofp
  PROVE  Done(o) => Done(o)'
<1>1. Floor \in Nat /\ Floor' \in Nat /\ Floor <= Floor' /\ o \in Nat
  BY FloorIs, FloorRises, PlansAre DEF TypeOK, Ofp
<1>2. Settled(o) => Settled(o)'
  BY KeepsSettled
<1> HIDE DEF Floor
<1>3. QED BY <1>1, <1>2 DEF Done, Settled

LEMMA OneIs ==
  ASSUME NEW p \in BOOLEAN, NEW q \in BOOLEAN
  PROVE  /\ One(p) \in {0, 1} /\ (p => One(p) = 1) /\ (~p => One(p) = 0)
         /\ (p => q) => One(p) <= One(q)
BY DEF One

LEMMA TruthValues ==
  ASSUME NEW o
  PROVE  /\ Settled(o) \in BOOLEAN /\ Settled(o)' \in BOOLEAN
         /\ Done(o) \in BOOLEAN /\ Done(o)' \in BOOLEAN
BY DEF Settled, Done

\* A step that prints no bundle.
LEMMA KeepsBundleInv ==
  ASSUME TypeOK, TypeOK', BundleInv, [Next]_vars, bundles' = bundles,
         \/ Paid' = Paid /\ last' \in {last, Floor}
            /\ st'.ofp \in {st.ofp, NoOfp, Floor}
         \/ Paid' = Paid + 1
  PROVE  BundleInv'
<1> SUFFICES ASSUME NEW o \in Ofp PROVE bundles'[o] <= Paid' + One(Done(o)')
  BY DEF BundleInv, One
<1>1. /\ Paid \in Nat /\ bundles[o] \in Nat
      /\ bundles[o] <= Paid + One(Done(o))
  BY DEF TypeOK, Paid, BundleInv
<1>2. One(Done(o)) \in {0, 1} /\ One(Done(o)') \in {0, 1}
  BY DEF One
<1>3. CASE Paid' = Paid /\ last' \in {last, Floor}
           /\ st'.ofp \in {st.ofp, NoOfp, Floor}
  <2>1. One(Done(o)) <= One(Done(o)')
    BY <1>3, KeepsDone, TruthValues, OneIs
  <2>2. QED BY <1>1, <1>2, <1>3, <2>1
<1>4. CASE Paid' = Paid + 1
  BY <1>1, <1>2, <1>4
<1>5. QED BY <1>3, <1>4

LEMMA SamePaid ==
  ASSUME manual' = manual, unlocks' = unlocks, crashes' = crashes
  PROVE  Paid' = Paid
BY DEF Paid

\* A tick locks onto nothing.
LEMMA TickKeepsLock ==
  ASSUME NEW s \in State, TickOutcome(s)
  PROVE  st'.ofp = s.ofp /\ s.ofp \in {st.ofp, NoOfp}
<1>1. s.ofp \in {st.ofp, NoOfp}
  BY UnlockedIs DEF TickOutcome, Follows, Ends
<1>2. CASE SkipsTheFinal(s)
  BY <1>1, <1>2 DEF SkipsTheFinal, State
<1>3. CASE ~SkipsTheFinal(s)
  BY <1>1, <1>3 DEF TickOutcome, FollowsOnly, PrintsFinal, PrintsMissed, Alike
<1>4. QED BY <1>2, <1>3

LEMMA NextBundleInv ==
  TypeOK /\ TypeOK' /\ BundleInv /\ [Next]_vars => BundleInv'
<1> SUFFICES ASSUME TypeOK, TypeOK', BundleInv, [Next]_vars PROVE BundleInv'
  OBVIOUS
<1>1. /\ st \in State /\ saved \in State /\ bundles \in [Ofp -> Nat]
      /\ manual \in Nat /\ unlocks \in Nat /\ crashes \in Nat /\ Paid \in Nat
  BY DEF TypeOK, Paid
<1>2. CASE Still \/ Saves \/ Generates
  BY <1>2, KeepsBundleInv, SamePaid DEF Still, Saves, Generates, events
<1>3. ASSUME NEW span \in Span, Ages(span) PROVE BundleInv'
  <2>1. st'.ofp = st.ofp
    BY <1>1, <1>3, AgedIs DEF Ages
  <2>2. QED BY <1>3, <2>1, KeepsBundleInv, SamePaid DEF Ages, events
<1>4. CASE Crashes
  <2>1. bundles' = bundles /\ Paid' = Paid + 1
    BY <1>1, <1>4 DEF Crashes, Paid
  <2>2. QED BY <2>1, KeepsBundleInv
<1>5. CASE Raised
  BY <1>5, KeepsBundleInv, SamePaid DEF Raised, settings
<1>6. CASE \E s \in State : TickOutcome(s)
  <2>1. PICK s \in State : TickOutcome(s)
    BY <1>6
  <2>2. st'.ofp \in {st.ofp, NoOfp}
    BY <2>1, TickKeepsLock
  <2>3. bundles' = bundles /\ last' = last /\ Paid' = Paid
    BY <2>1, SamePaid DEF TickOutcome, events
  <2>4. QED BY <2>2, <2>3, KeepsBundleInv
<1>7. CASE TickMaxLock
  BY <1>7, TickMaxLockIs, UnlockedIs, KeepsBundleInv, SamePaid DEF StartsOver
<1>8. CASE UnlockNow
  <2>1. bundles' = bundles /\ Paid' = Paid + 1
    BY <1>1, <1>8, UnlockNowIs DEF StartsOver, Paid
  <2>2. QED BY <2>1, KeepsBundleInv
<1>9. CASE PollLocks
  <2>1. PICK plan \in Ofp :
          /\ plan = PollPlan /\ OneMore(bundles, bundles', plan)
          /\ last # plan \/ st.ofp \notin {NoOfp, plan}
          /\ st'.ofp = plan /\ last' = plan /\ Paid' = Paid
    BY <1>9, PollLocksIs, SamePaid DEF FreshLock
  <2>2. /\ Floor = plan /\ Floor \in Nat /\ Floor' \in Nat /\ Floor <= Floor'
        /\ plan \in Nat
    BY <2>1, FloorIs, FloorRises, PlansAre DEF Ofp, NoOfp
  <2>3. ~Done(plan) /\ Done(plan)'
    <3> HIDE DEF Floor
    <3>1. ~Done(plan)
      BY <2>1, <2>2 DEF Done, Settled
    <3>2. plan < Floor' \/ plan = Floor'
      BY <2>2
    <3>3. QED BY <2>1, <3>1, <3>2 DEF Done, Settled
  <2>4. ASSUME NEW o \in Ofp PROVE bundles'[o] <= Paid' + One(Done(o)')
    <3>1. /\ bundles[o] \in Nat /\ bundles[o] <= Paid + One(Done(o))
          /\ One(Done(o)) \in {0, 1} /\ One(Done(o)') \in {0, 1}
      BY <1>1 DEF BundleInv, One
    <3>2. CASE o = plan
      <4>1. bundles'[o] = bundles[o] + 1
        BY <2>1, <3>2 DEF OneMore
      <4>2. One(Done(o)) = 0 /\ One(Done(o)') = 1
        BY <2>3, <3>2, TruthValues, OneIs
      <4>3. QED BY <1>1, <2>1, <3>1, <4>1, <4>2
    <3>3. CASE o # plan
      <4>1. bundles'[o] = bundles[o]
        BY <2>1, <3>3 DEF OneMore
      <4>2. One(Done(o)) <= One(Done(o)')
        BY <2>1, <2>2, KeepsDone, TruthValues, OneIs
      <4>3. QED BY <1>1, <2>1, <3>1, <4>1, <4>2
    <3>4. QED BY <3>2, <3>3
  <2>5. QED BY <2>4 DEF BundleInv, One
<1>10. CASE PrintNow
  <2>1. bundles' = bundles /\ Paid' = Paid + 1
    BY <1>1, <1>10, PrintNowIs DEF Paid
  <2>2. QED BY <2>1, KeepsBundleInv
<1>11. CASE EndOfPrint /\ PrintEnds
  <2>1. st'.ofp = st.ofp
    BY <1>1, <1>11, TickMissedPrintedIs, TickFinalPrintedIs,
       PollLockPrintedIs, PrintNowPrintedIs DEF Marks, PrintEnds
  <2>2. QED BY <1>11, <2>1, KeepsBundleInv, SamePaid DEF EndOfPrint, events
<1>12. QED
  BY <1>2, <1>3, <1>4, <1>5, <1>6, <1>7, <1>8, <1>9, <1>10, <1>11, StepIs
     DEF StepOutcome

\* The bundle of an OFP prints by itself once, and once more only for a Print
\* OFP, an Unlock or a crash, for any number of OFPs, although the poll worker
\* handles an answer that may be older than the lock: a lock remembers its
\* OFP, no automatic unlock forgets it, no print that raises does, and
\* SimBrief's answers never get older.
THEOREM BundlePrintsOnce == Spec => []BundleOnce
<1>1. Init => BundleInv
  BY UnlockedIs, WatcherAssumption DEF Init, BundleInv, Paid, One, Ofp
<1>2. TypeOK /\ BundleInv => BundleOnce
  <2> SUFFICES ASSUME TypeOK, BundleInv, NEW o \in Ofp
               PROVE  bundles[o] <= 1 + manual + unlocks + crashes
    BY DEF BundleOnce
  <2>1. /\ manual \in Nat /\ unlocks \in Nat /\ crashes \in Nat
        /\ bundles[o] \in Nat /\ One(Done(o)) \in {0, 1}
    BY DEF TypeOK, One
  <2>2. QED BY <2>1 DEF BundleInv, Paid
<1>3. QED
  BY <1>1, <1>2, InitTypeOK, NextTypeOK, NextBundleInv, PTL DEF Spec

-----------------------------------------------------------------------------
(* A final loadsheet prints once.                                          *)

\* A state that is done with the final has it marked.
Marked(s) == s.phase = "final_printed" => s.finalPrinted

\* Nothing is saved that is not in force; Print OFP prints for somebody who
\* asked.
LinksInv ==
  /\ st.ofp = NoOfp => saved.ofp = NoOfp
  /\ Marked(st) /\ Marked(saved)
  /\ commandLock # NoOfp => manual >= 1

LEMMA FollowsMarked ==
  ASSUME NEW s \in State, NEW t \in State, Follows(s, t), Marked(s)
  PROVE  Marked(t)
BY UnlockedIs DEF Follows, Ends, Stays, TakesOff, Lands, Marked

\* A tick unlocks what it saves.
LEMMA TickKeepsOfp ==
  ASSUME TypeOK, NEW s \in State, TickOutcome(s)
  PROVE  /\ st'.ofp = s.ofp /\ s.ofp \in {st.ofp, NoOfp}
         /\ saved'.ofp \in {saved.ofp, s.ofp}
         /\ s.ofp = NoOfp => saved'.ofp = NoOfp \/ st.ofp = NoOfp
<1>1. s.ofp \in {st.ofp, NoOfp} /\ st'.ofp = s.ofp
  BY TickKeepsLock
<1>2. s.ofp # st.ofp => SavedAfter(s) = s
  BY UnlockedIs DEF TickOutcome, Follows, Ends, SavedAfter, PhaseSaved
<1>3. SavedAfter(s) \in {s, saved}
  BY DEF SavedAfter
<1>4. CASE SkipsTheFinal(s)
  BY <1>1, <1>4 DEF SkipsTheFinal
<1>5. CASE PrintsFinal(s)
  BY <1>1, <1>5 DEF PrintsFinal
<1>6. CASE FollowsOnly(s) \/ PrintsMissed(s)
  <2>1. saved' = SavedAfter(s)
    BY <1>6 DEF FollowsOnly, PrintsMissed
  <2>2. QED BY <1>1, <1>2, <1>3, <2>1
<1>7. QED BY <1>4, <1>5, <1>6 DEF TickOutcome

LEMMA TickLinksInv ==
  ASSUME TypeOK, LinksInv, NEW s \in State, TickOutcome(s)
  PROVE  LinksInv'
<1>1. /\ commandLock' = commandLock /\ manual' = manual
      /\ Follows(st, s) /\ st \in State
  BY DEF TickOutcome, events, TypeOK
<1>2. Marked(s)
  BY <1>1, FollowsMarked DEF LinksInv
<1>3. Marked(st') /\ Marked(saved')
  <2>1. Marked(SavedAfter(s))
    BY <1>2 DEF SavedAfter, LinksInv
  <2>2. CASE SkipsTheFinal(s)
    BY <2>2 DEF SkipsTheFinal, State, Marked
  <2>3. CASE ~SkipsTheFinal(s)
    BY <1>2, <2>1, <2>3
       DEF TickOutcome, FollowsOnly, PrintsFinal, PrintsMissed, Alike, Marked,
           LinksInv
  <2>4. QED BY <2>2, <2>3
<1>4. st'.ofp = NoOfp => saved'.ofp = NoOfp
  BY TickKeepsOfp DEF LinksInv
<1>5. QED BY <1>1, <1>3, <1>4 DEF LinksInv

LEMMA NextLinksInv == TypeOK /\ LinksInv /\ [Next]_vars => LinksInv'
<1> SUFFICES ASSUME TypeOK, LinksInv, [Next]_vars PROVE LinksInv'
  OBVIOUS
<1>1. /\ st \in State /\ saved \in State /\ manual \in Nat /\ NoOfp \notin Ofp
  BY DEF TypeOK, Ofp, NoOfp
<1>2. CASE Still \/ Saves \/ Generates
  BY <1>2 DEF Still, Saves, Generates, events, Marked, LinksInv
<1>3. ASSUME NEW span \in Span, Ages(span) PROVE LinksInv'
  BY <1>1, <1>3, AgedIs DEF Ages, events, Marked, LinksInv
<1>4. CASE Crashes \/ Raised
  BY <1>4 DEF Crashes, Raised, settings, LinksInv
<1>5. CASE \E s \in State : TickOutcome(s)
  BY <1>5, TickLinksInv
<1>6. CASE TickMaxLock \/ UnlockNow
  BY <1>1, <1>6, TickMaxLockIs, UnlockNowIs, UnlockedIs
     DEF StartsOver, Marked, LinksInv
<1>7. CASE PollLocks
  <2>1. /\ FreshLock(st', PollPlan) /\ PollPlan \in Ofp
        /\ saved' \in {Unlocked, saved} /\ commandLock' = commandLock
        /\ manual' = manual
    BY <1>7, PollLocksIs
  <2>2. QED BY <1>1, <2>1, UnlockedIs DEF FreshLock, Marked, LinksInv
<1>8. CASE PrintNow
  <2>1. /\ FreshLock(st', CommandPlan) /\ CommandPlan \in Ofp
        /\ saved' = saved /\ manual' = manual + 1
    BY <1>8, PrintNowIs
  <2>2. QED BY <1>1, <2>1 DEF FreshLock, Marked, LinksInv
<1>9. CASE EndOfPrint /\ PrintEnds
  <2>1. st'.ofp = st.ofp /\ saved'.ofp \in {st.ofp, saved.ofp}
        /\ (st.ofp = NoOfp => saved'.ofp = NoOfp)
    BY <1>1, <1>9, TickMissedPrintedIs, TickFinalPrintedIs,
       PollLockPrintedIs, PrintNowPrintedIs DEF Marks, LinksInv, PrintEnds
  <2>2. Marked(st') /\ Marked(saved')
    BY <1>1, <1>9, TickMissedPrintedIs, TickFinalPrintedIs,
       PollLockPrintedIs, PrintNowPrintedIs DEF Marked, LinksInv, PrintEnds
  <2>3. commandLock' \in {commandLock, NoOfp}
    BY <1>9 DEF TickMissedPrinted, TickFinalPrinted, PollLockPrinted,
                PrintNowPrinted, PrintEnds
  <2>4. QED BY <1>9, <2>1, <2>2, <2>3 DEF EndOfPrint, events, LinksInv
<1>10. QED
  BY <1>2, <1>3, <1>4, <1>5, <1>6, <1>7, <1>8, <1>9, StepIs DEF StepOutcome

\* The further copies that Print OFP, Unlock, crashes and prints that raise
\* have paid for: a Print OFP pays for the second of its two when its bundle
\* is out.
Copies ==
  2 * manual - One(commandLock # NoOfp) + unlocks + crashes + raises

\* The copy that is an OFP's own: once it is settled; once it is dealt with.
Own == [o \in Ofp |-> One(Settled(o))]
Dealt == [o \in Ofp |-> One(Done(o))]

\* The finals a state has still to print: one at the gate, one that it missed.
AtGate(s) == One(s.phase = "locked" /\ ~s.finalPrinted)
Missed(s) == One(s.missedFinal)

\* Those of the state in force, but for the one that is printing.
Owes == st.ofp # NoOfp
          => finals[st.ofp] + (IF tick = "final" THEN 0 ELSE AtGate(st))
               + (IF tick = "missed" THEN 0 ELSE Missed(st))
                  <= Copies + Own[st.ofp]

\* A crash while a final prints returns to a state that owes it again.
SavedOwes == saved.ofp # NoOfp
               => finals[saved.ofp] + AtGate(saved) + Missed(saved)
                    <= Copies + Own[saved.ofp] + One(tick # "idle")

FinalInv ==
  /\ \A o \in Ofp : finals[o] <= Copies + Dealt[o]
  /\ Owes /\ SavedOwes

\* What is counted are numbers.
LEMMA Counts ==
  ASSUME TypeOK, LinksInv
  PROVE  /\ Copies \in Nat /\ manual \in Nat /\ unlocks \in Nat
         /\ crashes \in Nat /\ raises \in Nat
         /\ finals \in [Ofp -> Nat] /\ NoOfp \notin Ofp
         /\ st \in State /\ saved \in State
         /\ st.ofp \in Ofp \cup {NoOfp} /\ saved.ofp \in Ofp \cup {NoOfp}
<1>1. manual \in Nat /\ unlocks \in Nat /\ crashes \in Nat /\ raises \in Nat
  BY DEF TypeOK
<1>2. Copies \in Nat
  BY <1>1 DEF LinksInv, Copies, One
<1>3. QED BY <1>1, <1>2 DEF TypeOK, State, Ofp, NoOfp

\* An OFP's own copy is one at most, counted when it is settled; what is dealt
\* with is settled, and the locked OFP is both or neither.
LEMMA OwnIs ==
  /\ Own \in [Ofp -> {0, 1}] /\ Own' \in [Ofp -> {0, 1}]
  /\ Dealt \in [Ofp -> {0, 1}] /\ Dealt' \in [Ofp -> {0, 1}]
  /\ \A o \in Ofp : Dealt[o] <= Own[o]
  /\ \A o \in Ofp : o = st.ofp => Dealt[o] = Own[o]
  /\ \A o \in Ofp : o = st'.ofp => Dealt'[o] = Own'[o]
<1>1. /\ Own \in [Ofp -> {0, 1}] /\ Own' \in [Ofp -> {0, 1}]
      /\ Dealt \in [Ofp -> {0, 1}] /\ Dealt' \in [Ofp -> {0, 1}]
  BY DEF Own, Dealt, One
<1>2. ASSUME NEW o \in Ofp
      PROVE  /\ Dealt[o] <= Own[o]
             /\ o = st.ofp => Dealt[o] = Own[o]
             /\ o = st'.ofp => Dealt'[o] = Own'[o]
  <2>1. /\ Dealt[o] = One(Done(o)) /\ Own[o] = One(Settled(o))
        /\ Dealt'[o] = One(Done(o)') /\ Own'[o] = One(Settled(o)')
    BY DEF Dealt, Own, One
  <2>2. Done(o) => Settled(o)
    BY DEF Done
  <2>3. o = st.ofp => (Done(o) <=> Settled(o))
    BY DEF Done
  <2>4. o = st'.ofp => (Done(o)' <=> Settled(o)')
    BY DEF Done
  <2>5. QED BY <2>1, <2>2, <2>3, <2>4 DEF One
<1>3. QED BY <1>1, <1>2

LEMMA KeepsOwn ==
  ASSUME TypeOK, TypeOK', [Next]_vars, last' \in {last, Floor}
  PROVE  /\ \A o \in Ofp : Own[o] <= Own'[o]
         /\ st'.ofp \in {st.ofp, NoOfp, Floor}
              => \A o \in Ofp : Dealt[o] <= Dealt'[o]
<1>1. ASSUME NEW o \in Ofp PROVE Own[o] <= Own'[o]
  <2>1. Settled(o) => Settled(o)'
    BY KeepsSettled
  <2>2. Own[o] = One(Settled(o)) /\ Own'[o] = One(Settled(o)')
    BY DEF Own, One
  <2>3. QED BY <2>1, <2>2 DEF One
<1>2. ASSUME NEW o \in Ofp, st'.ofp \in {st.ofp, NoOfp, Floor}
      PROVE  Dealt[o] <= Dealt'[o]
  <2>1. Done(o) => Done(o)'
    BY <1>2, KeepsDone
  <2>2. Dealt[o] = One(Done(o)) /\ Dealt'[o] = One(Done(o)')
    BY DEF Dealt, One
  <2>3. QED BY <2>1, <2>2 DEF One
<1>3. QED BY <1>1, <1>2

LEMMA DueIs ==
  ASSUME NEW s
  PROVE  /\ AtGate(s) \in {0, 1} /\ Missed(s) \in {0, 1}
         /\ s.finalPrinted => AtGate(s) = 0
         /\ ~s.missedFinal => Missed(s) = 0
         /\ s.phase # "locked" => AtGate(s) = 0
BY DEF AtGate, Missed, One

LEMMA SameDue ==
  ASSUME NEW s, NEW t, t.phase = s.phase, t.finalPrinted = s.finalPrinted,
         t.missedFinal = s.missedFinal
  PROVE  AtGate(t) = AtGate(s) /\ Missed(t) = Missed(s)
BY DEF AtGate, Missed

\* Following the flight, the state never owes more: a take-off turns the
\* final at the gate into a missed one.
LEMMA FollowsDue ==
  ASSUME NEW s \in State, NEW t \in State, Follows(s, t), Marked(s)
  PROVE  t.ofp # NoOfp =>
           t.ofp = s.ofp /\ AtGate(t) + Missed(t) <= AtGate(s) + Missed(s)
<1>1. CASE Ends(s, t)
  BY <1>1, UnlockedIs DEF Ends
<1>2. CASE ~Ends(s, t) /\ Stays(s, t)
  <2>1. AtGate(t) = AtGate(s) /\ Missed(t) = Missed(s) /\ t.ofp = s.ofp
    BY <1>2, SameDue DEF Follows, Ends, Stays, TakesOff, Lands
  <2>2. QED BY <2>1, DueIs
<1>3. CASE ~Ends(s, t) /\ TakesOff(s, t)
  <2>1. AtGate(t) = 0 /\ t.ofp = s.ofp
    BY <1>3, DueIs DEF Follows, TakesOff
  <2>2. CASE s.finalPrinted
    <3>1. Missed(t) = Missed(s)
      BY <1>3, <2>2 DEF TakesOff, Missed, State, One
    <3>2. QED BY <2>1, <3>1, DueIs
  <2>3. CASE ~s.finalPrinted
    <3>1. AtGate(s) = 1
      BY <1>3, <2>3 DEF TakesOff, Marked, AtGate, One
    <3>2. QED BY <2>1, <3>1, DueIs
  <2>4. QED BY <2>2, <2>3
<1>4. CASE ~Ends(s, t) /\ Lands(s, t)
  <2>1. AtGate(t) = 0 /\ t.ofp = s.ofp /\ Missed(t) = Missed(s)
    BY <1>4, DueIs DEF Follows, Lands, Missed
  <2>2. QED BY <2>1, DueIs
<1>5. QED BY <1>1, <1>2, <1>3, <1>4 DEF Follows

\* A step that hands over no final.
LEMMA KeepsFinalInv ==
  ASSUME TypeOK, TypeOK', LinksInv, LinksInv', FinalInv, [Next]_vars,
         finals' = finals,
         \/ Copies' >= Copies /\ last' \in {last, Floor}
            /\ st'.ofp \in {st.ofp, NoOfp, Floor}
         \/ Copies' >= Copies + 1,
         Owes', SavedOwes'
  PROVE  FinalInv'
<1> SUFFICES ASSUME NEW o \in Ofp PROVE finals'[o] <= Copies' + Dealt'[o]
  BY DEF FinalInv
<1>1. /\ Copies \in Nat /\ Copies' \in Int /\ finals[o] \in Nat
      /\ Dealt[o] \in {0, 1} /\ Dealt'[o] \in {0, 1}
      /\ finals[o] <= Copies + Dealt[o]
  <2>1. Copies \in Nat /\ finals[o] \in Nat
    BY Counts
  <2>2. Copies' \in Int
    BY DEF TypeOK, Copies, One
  <2>3. QED BY <2>1, <2>2, OwnIs DEF FinalInv
<1>2. CASE Copies' >= Copies /\ last' \in {last, Floor}
           /\ st'.ofp \in {st.ofp, NoOfp, Floor}
  <2>1. Dealt[o] <= Dealt'[o]
    BY <1>2, KeepsOwn
  <2>2. QED BY <1>1, <1>2, <2>1
<1>3. CASE Copies' >= Copies + 1
  BY <1>1, <1>3
<1>4. QED BY <1>2, <1>3

\* The counts a step leaves alone.
LEMMA SameCopies ==
  ASSUME events' = events, commandLock' = commandLock
  PROVE  Copies' = Copies
BY DEF Copies, events

\* A tick that hands over a final of s.ofp makes one more of it; the state
\* owes it no longer.
LEMMA TickFinalInv ==
  ASSUME TypeOK, TypeOK', LinksInv, LinksInv', FinalInv, [Next]_vars,
         NEW s \in State, TickOutcome(s)
  PROVE  FinalInv'
<1>1. /\ tick = "idle" /\ Follows(st, s) /\ last' = last /\ Copies' = Copies
  BY SameCopies DEF TickOutcome
<1>2. /\ Copies \in Nat /\ finals \in [Ofp -> Nat] /\ NoOfp \notin Ofp
      /\ st \in State /\ saved \in State
      /\ s.ofp \in Ofp \cup {NoOfp} /\ saved.ofp \in Ofp \cup {NoOfp}
  BY Counts DEF State
<1>3. s.ofp # NoOfp
        => /\ s.ofp = st.ofp
           /\ finals[s.ofp] + AtGate(s) + Missed(s) <= Copies + Own[s.ofp]
  <2>1. s.ofp # NoOfp => s.ofp = st.ofp
              /\ AtGate(s) + Missed(s) <= AtGate(st) + Missed(st)
    BY <1>1, <1>2, FollowsDue DEF LinksInv
  <2>2. st.ofp # NoOfp
          => finals[st.ofp] + AtGate(st) + Missed(st) <= Copies + Own[st.ofp]
    BY <1>1 DEF FinalInv, Owes
  <2>3. AtGate(s) \in {0, 1} /\ Missed(s) \in {0, 1}
        /\ AtGate(st) \in {0, 1} /\ Missed(st) \in {0, 1}
    BY DueIs
  <2>4. s.ofp # NoOfp => finals[s.ofp] \in Nat /\ Own[s.ofp] \in {0, 1}
    BY <1>2, OwnIs
  <2>5. QED BY <1>2, <2>1, <2>2, <2>3, <2>4
<1>4. saved.ofp # NoOfp
        => finals[saved.ofp] + AtGate(saved) + Missed(saved)
             <= Copies + Own[saved.ofp]
  <2>1. One(tick # "idle") = 0
    BY <1>1 DEF One
  <2>2. AtGate(saved) \in {0, 1} /\ Missed(saved) \in {0, 1}
        /\ (saved.ofp # NoOfp => finals[saved.ofp] \in Nat
                                 /\ Own[saved.ofp] \in {0, 1})
    BY <1>2, DueIs, OwnIs
  <2>3. QED BY <1>2, <2>1, <2>2 DEF FinalInv, SavedOwes
<1>5. st'.ofp = s.ofp /\ s.ofp \in {st.ofp, NoOfp}
  BY TickKeepsOfp
<1>6. /\ \A o \in Ofp : Own[o] <= Own'[o] /\ Dealt[o] <= Dealt'[o]
      /\ Own \in [Ofp -> {0, 1}] /\ Own' \in [Ofp -> {0, 1}]
      /\ Dealt \in [Ofp -> {0, 1}] /\ Dealt' \in [Ofp -> {0, 1}]
  BY <1>1, <1>5, KeepsOwn, OwnIs
<1>7. CASE FollowsOnly(s)
  <2>1. /\ finals' = finals /\ tick' = "idle" /\ saved' \in {s, saved}
        /\ AtGate(st') = AtGate(s) /\ Missed(st') = Missed(s)
        /\ One(tick' # "idle") = 0
    BY <1>1, <1>7, SameDue DEF FollowsOnly, Alike, SavedAfter, One
  <2>2. AtGate(s) \in {0, 1} /\ Missed(s) \in {0, 1}
        /\ AtGate(saved) \in {0, 1} /\ Missed(saved) \in {0, 1}
    BY DueIs
  <2>3. Owes'
    <3> SUFFICES ASSUME s.ofp # NoOfp
                 PROVE  finals[s.ofp] + AtGate(s) + Missed(s)
                          <= Copies + Own'[s.ofp]
      BY <1>1, <1>5, <2>1 DEF Owes
    <3>1. s.ofp \in Ofp
      BY <1>2
    <3>2. QED BY <1>2, <1>3, <1>6, <2>2, <3>1
  <2>4. SavedOwes'
    <3>1. CASE saved' = s
      <4> SUFFICES ASSUME s.ofp # NoOfp
                   PROVE  finals[s.ofp] + AtGate(s) + Missed(s)
                            <= Copies + Own'[s.ofp] + 0
        BY <1>1, <2>1, <3>1 DEF SavedOwes
      <4>1. s.ofp \in Ofp
        BY <1>2
      <4>2. QED BY <1>2, <1>3, <1>6, <2>2, <4>1
    <3>2. CASE saved' = saved
      <4> SUFFICES ASSUME saved.ofp # NoOfp
                   PROVE  finals[saved.ofp] + AtGate(saved) + Missed(saved)
                            <= Copies + Own'[saved.ofp] + 0
        BY <1>1, <2>1, <3>2 DEF SavedOwes
      <4>1. saved.ofp \in Ofp
        BY <1>2
      <4>2. QED BY <1>2, <1>4, <1>6, <2>2, <4>1
    <3>3. QED BY <2>1, <3>1, <3>2
  <2>5. QED BY <1>1, <1>2, <1>5, <2>1, <2>3, <2>4, KeepsFinalInv
<1>8. CASE SkipsTheFinal(s)
  <2>1. /\ finals' = finals /\ tick' = "idle" /\ saved' = st'
        /\ st'.finalPrinted = TRUE /\ st'.missedFinal = FALSE
    BY <1>1, <1>8 DEF SkipsTheFinal, State
  <2>2. AtGate(st') = 0 /\ Missed(st') = 0 /\ One(tick' # "idle") = 0
    BY <2>1, DueIs DEF One
  <2>3. ASSUME s.ofp # NoOfp PROVE finals[s.ofp] <= Copies + Own'[s.ofp]
    <3>1. s.ofp \in Ofp /\ finals[s.ofp] \in Nat
      BY <1>2, <2>3
    <3>2. finals[s.ofp] <= Copies + Dealt[s.ofp] /\ Dealt[s.ofp] <= Own[s.ofp]
      BY <3>1, OwnIs DEF FinalInv
    <3>3. QED BY <1>2, <1>6, <3>1, <3>2
  <2>4. s.ofp # NoOfp => finals[s.ofp] \in Nat /\ Own'[s.ofp] \in {0, 1}
    BY <1>2, <1>6
  <2>5. Owes'
    BY <1>1, <1>2, <1>5, <2>1, <2>2, <2>3, <2>4 DEF Owes
  <2>6. SavedOwes'
    BY <1>1, <1>2, <1>5, <2>1, <2>2, <2>3, <2>4 DEF SavedOwes
  <2>7. QED BY <1>1, <1>2, <1>5, <2>1, <2>5, <2>6, KeepsFinalInv
<1>9. ASSUME s.ofp # NoOfp, HandFinal(s.ofp), tick' # "idle",
             saved' \in {s, saved}, AtGate(s) + Missed(s) >= 1,
             Owes'
      PROVE  FinalInv'
  <2>1. OneMore(finals, finals', s.ofp) /\ s.ofp \in Ofp
    BY <1>2, <1>9, CountOne DEF HandFinal
  <2>2. /\ finals' \in [Ofp -> Nat] /\ finals'[s.ofp] = finals[s.ofp] + 1
        /\ \A o \in Ofp : o # s.ofp => finals'[o] = finals[o]
    BY <2>1 DEF OneMore
  <2>3. AtGate(s) \in {0, 1} /\ Missed(s) \in {0, 1}
        /\ AtGate(saved) \in {0, 1} /\ Missed(saved) \in {0, 1}
    BY DueIs
  <2>4. /\ finals[s.ofp] \in Nat /\ Own[s.ofp] \in {0, 1}
        /\ finals[s.ofp] + AtGate(s) + Missed(s) <= Copies + Own[s.ofp]
    BY <1>2, <1>3, <1>6, <1>9, <2>1
  <2>5. ASSUME NEW o \in Ofp PROVE finals'[o] <= Copies' + Dealt'[o]
    <3>1. /\ finals[o] \in Nat /\ finals[o] <= Copies + Dealt[o]
          /\ Dealt[o] \in {0, 1} /\ Dealt'[o] \in {0, 1}
          /\ Dealt[o] <= Dealt'[o]
      BY <1>2, <1>6 DEF FinalInv
    <3>2. CASE o = s.ofp
      <4>1. Dealt[o] = Own[o]
        BY <1>3, <1>9, <3>2, OwnIs
      <4>2. QED BY <1>1, <1>2, <1>9, <2>2, <2>3, <2>4, <3>1, <3>2, <4>1
    <3>3. CASE o # s.ofp
      BY <1>1, <1>2, <2>2, <3>1, <3>3
    <3>4. QED BY <3>2, <3>3
  <2>6. SavedOwes'
    <3>1. One(tick' # "idle") = 1
      BY <1>9 DEF One
    <3>2. CASE saved' = s
      <4>1. Own'[s.ofp] \in {0, 1} /\ Own[s.ofp] <= Own'[s.ofp]
        BY <1>6, <2>1
      <4>2. finals'[s.ofp] + AtGate(s) + Missed(s) <= Copies + Own'[s.ofp] + 1
        BY <1>2, <2>2, <2>3, <2>4, <4>1
      <4>3. QED BY <1>1, <3>1, <3>2, <4>2 DEF SavedOwes
    <3>3. CASE saved' = saved
      <4>1. ASSUME saved.ofp # NoOfp
            PROVE  finals'[saved.ofp] + AtGate(saved) + Missed(saved)
                     <= Copies + Own'[saved.ofp] + 1
        <5>1. saved.ofp \in Ofp /\ finals[saved.ofp] \in Nat
              /\ Own[saved.ofp] \in {0, 1} /\ Own'[saved.ofp] \in {0, 1}
              /\ Own[saved.ofp] <= Own'[saved.ofp]
          BY <1>2, <1>6, <4>1
        <5>2. finals'[saved.ofp] \in {finals[saved.ofp], finals[saved.ofp] + 1}
          BY <2>2, <5>1
        <5>3. QED BY <1>2, <1>4, <2>3, <4>1, <5>1, <5>2
      <4>2. QED BY <1>1, <3>1, <3>3, <4>1 DEF SavedOwes
    <3>4. QED BY <1>9, <3>2, <3>3
  <2>7. QED BY <1>9, <2>5, <2>6 DEF FinalInv
<1>10. s.ofp # NoOfp =>
         /\ finals[s.ofp] \in Nat /\ Own[s.ofp] \in {0, 1}
         /\ Own'[s.ofp] \in {0, 1} /\ Own[s.ofp] <= Own'[s.ofp]
  BY <1>2, <1>6
<1>11. CASE PrintsFinal(s)
  <2>1. /\ s.ofp # NoOfp /\ HandFinal(s.ofp) /\ tick' = "final"
        /\ saved' = saved /\ AtGate(s) = 1 /\ Missed(st') = Missed(s)
    BY <1>11, SameDue DEF PrintsFinal, Alike, AtGate, One
  <2>2. Owes'
    <3>1. finals'[s.ofp] = finals[s.ofp] + 1
      BY <1>2, <2>1, CountOne DEF HandFinal, OneMore
    <3>2. Missed(s) \in {0, 1}
      BY DueIs
    <3>3. finals'[s.ofp] + 0 + Missed(s) <= Copies + Own'[s.ofp]
      BY <1>2, <1>3, <1>10, <2>1, <3>1, <3>2
    <3>4. QED BY <1>1, <1>5, <2>1, <3>3 DEF Owes
  <2>3. AtGate(s) + Missed(s) >= 1
    BY <2>1, DueIs
  <2>4. QED BY <1>9, <2>1, <2>2, <2>3
<1>12. CASE PrintsMissed(s)
  <2>1. /\ s.ofp # NoOfp /\ HandFinal(s.ofp) /\ tick' = "missed"
        /\ saved' \in {s, saved} /\ Missed(s) = 1 /\ st' = s
    BY <1>12 DEF PrintsMissed, SavedAfter, Missed, One
  <2>2. Owes'
    <3>1. finals'[s.ofp] = finals[s.ofp] + 1
      BY <1>2, <2>1, CountOne DEF HandFinal, OneMore
    <3>2. AtGate(s) \in {0, 1}
      BY DueIs
    <3>3. finals'[s.ofp] + AtGate(s) + 0 <= Copies + Own'[s.ofp]
      BY <1>2, <1>3, <1>10, <2>1, <3>1, <3>2
    <3>4. QED BY <1>1, <1>5, <2>1, <3>3 DEF Owes
  <2>3. AtGate(s) + Missed(s) >= 1
    BY <2>1, DueIs
  <2>4. QED BY <1>9, <2>1, <2>2, <2>3
<1>13. QED BY <1>7, <1>8, <1>11, <1>12 DEF TickOutcome

\* The end of a print of the tick or of a bundle: what was printing is marked.
LEMMA EndOfPrintFinalInv ==
  ASSUME TypeOK, TypeOK', LinksInv, LinksInv', FinalInv, [Next]_vars,
         EndOfPrint, PrintEnds
  PROVE  FinalInv'
<1>1. /\ Copies \in Nat /\ finals \in [Ofp -> Nat] /\ NoOfp \notin Ofp
      /\ st \in State /\ saved \in State
      /\ st.ofp \in Ofp \cup {NoOfp} /\ manual \in Nat
      /\ st.ofp # NoOfp => finals[st.ofp] \in Nat
  BY Counts
<1>2. /\ finals' = finals /\ last' = last /\ events' = events
      /\ manual' = manual /\ unlocks' = unlocks /\ crashes' = crashes
      /\ raises' = raises
  BY DEF EndOfPrint, events
<1>3. st'.ofp = st.ofp
  BY <1>1, TickMissedPrintedIs, TickFinalPrintedIs, PollLockPrintedIs,
     PrintNowPrintedIs DEF Marks, PrintEnds
<1>4. /\ AtGate(st) \in {0, 1} /\ Missed(st) \in {0, 1}
      /\ AtGate(st') \in {0, 1} /\ Missed(st') \in {0, 1}
  BY DueIs
<1>5. st.ofp # NoOfp =>
        /\ Own[st.ofp] \in {0, 1} /\ Own'[st.ofp] \in {0, 1}
        /\ Own[st.ofp] <= Own'[st.ofp]
        /\ finals[st.ofp] <= Copies + Own[st.ofp]
  <2> SUFFICES ASSUME st.ofp \in Ofp
               PROVE  /\ Own[st.ofp] \in {0, 1} /\ Own'[st.ofp] \in {0, 1}
                      /\ Own[st.ofp] <= Own'[st.ofp]
                      /\ finals[st.ofp] <= Copies + Own[st.ofp]
    BY <1>1
  <2>1. Own[st.ofp] \in {0, 1} /\ Own'[st.ofp] \in {0, 1}
        /\ Own[st.ofp] <= Own'[st.ofp]
    BY <1>2, OwnIs, KeepsOwn
  <2>2. finals[st.ofp] <= Copies + Dealt[st.ofp] /\ Dealt[st.ofp] = Own[st.ofp]
    BY OwnIs DEF FinalInv
  <2>3. QED BY <2>1, <2>2
\* What the state saved at the end owes.
<1>6. ASSUME saved' = st', Owes', Copies' \in Nat PROVE SavedOwes'
  <2>1. CASE tick' = "idle"
    BY <1>1, <1>2, <1>3, <1>4, <1>5, <1>6, <2>1 DEF Owes, SavedOwes, One
  <2>2. CASE tick' # "idle"
    BY <1>1, <1>2, <1>3, <1>4, <1>5, <1>6, <2>2 DEF Owes, SavedOwes, One
  <2>3. QED BY <2>1, <2>2
<1>7. CASE TickMissedPrinted
  <2>1. /\ saved' = st' /\ tick' = "idle" /\ AtGate(st') = 0 /\ Missed(st') = 0
        /\ Copies' = Copies
    BY <1>1, <1>2, <1>7, TickMissedPrintedIs, DueIs, SameCopies
       DEF TickMissedPrinted
  <2>2. Owes'
    BY <1>1, <1>2, <1>3, <1>5, <2>1 DEF Owes
  <2>3. QED BY <1>1, <1>2, <1>3, <1>6, <2>1, <2>2, KeepsFinalInv
<1>8. CASE TickFinalPrinted
  <2>1. /\ saved' = IF st.ofp # NoOfp THEN st' ELSE saved
        /\ tick = "final" /\ tick' = "idle" /\ AtGate(st') = 0
        /\ Missed(st') = Missed(st) /\ Copies' = Copies
    BY <1>1, <1>2, <1>8, TickFinalPrintedIs, DueIs, SameCopies
       DEF TickFinalPrinted, Missed
  <2>2. Owes'
    BY <1>1, <1>2, <1>3, <1>4, <1>5, <2>1 DEF FinalInv, Owes
  <2>3. SavedOwes'
    <3>1. CASE st.ofp # NoOfp
      BY <1>1, <1>6, <2>1, <2>2, <3>1
    <3>2. CASE st.ofp = NoOfp
      BY <2>1, <3>2 DEF LinksInv, SavedOwes
    <3>3. QED BY <3>1, <3>2
  <2>4. QED BY <1>1, <1>2, <1>3, <2>1, <2>2, <2>3, KeepsFinalInv
<1>9. CASE PollLockPrinted
  <2>1. /\ saved' = st' /\ tick' = tick /\ Missed(st') = Missed(st)
        /\ Copies' = Copies
    BY <1>1, <1>2, <1>9, PollLockPrintedIs, SameCopies
       DEF PollLockPrinted, Missed
  <2>2. AtGate(st') <= AtGate(st)
    <3>1. CASE pollLock \in Fenix
      BY <1>1, <1>4, <1>9, <3>1, PollLockPrintedIs, DueIs
    <3>2. CASE pollLock \notin Fenix
      BY <1>1, <1>4, <1>9, <3>2, PollLockPrintedIs DEF AtGate
    <3>3. QED BY <3>1, <3>2
  <2>3. Owes'
    BY <1>1, <1>2, <1>3, <1>4, <1>5, <2>1, <2>2 DEF FinalInv, Owes
  <2>4. QED BY <1>1, <1>2, <1>3, <1>6, <2>1, <2>3, KeepsFinalInv
<1>10. CASE PrintNowPrinted
  <2>1. /\ saved' = st' /\ tick' = tick /\ Missed(st') = Missed(st)
        /\ Copies' = Copies + 1
    <3>1. commandLock # NoOfp /\ commandLock' = NoOfp
          /\ unlocks \in Nat /\ crashes \in Nat /\ raises \in Nat
      BY <1>10, Counts DEF PrintNowPrinted
    <3>2. Copies' = Copies + 1
      BY <1>1, <1>2, <3>1 DEF Copies, One
    <3>3. QED
      BY <1>1, <1>10, <3>2, PrintNowPrintedIs DEF PrintNowPrinted, Missed
  <2>2. Owes'
    BY <1>1, <1>2, <1>3, <1>4, <1>5, <2>1 DEF FinalInv, Owes
  <2>3. QED BY <1>1, <1>2, <1>3, <1>6, <2>1, <2>2, KeepsFinalInv
<1>11. QED BY <1>7, <1>8, <1>9, <1>10 DEF PrintEnds

LEMMA NextFinalInv ==
  TypeOK /\ TypeOK' /\ LinksInv /\ LinksInv' /\ FinalInv /\ [Next]_vars
    => FinalInv'
<1> SUFFICES ASSUME TypeOK, TypeOK', LinksInv, LinksInv', FinalInv, [Next]_vars
             PROVE  FinalInv'
  OBVIOUS
<1>1. /\ Copies \in Nat /\ finals \in [Ofp -> Nat] /\ NoOfp \notin Ofp
      /\ st \in State /\ saved \in State
      /\ st.ofp \in Ofp \cup {NoOfp} /\ saved.ofp \in Ofp \cup {NoOfp}
      /\ manual \in Nat /\ unlocks \in Nat /\ crashes \in Nat
      /\ raises \in Nat
  BY Counts
<1>2. /\ AtGate(st) \in {0, 1} /\ Missed(st) \in {0, 1}
      /\ AtGate(saved) \in {0, 1} /\ Missed(saved) \in {0, 1}
      /\ One(tick # "idle") \in {0, 1} /\ One(tick' # "idle") \in {0, 1}
  BY DueIs DEF One
<1>3. Owes /\ SavedOwes
  BY DEF FinalInv
<1>4. /\ st.ofp # NoOfp => /\ finals[st.ofp] \in Nat
                           /\ Own[st.ofp] \in {0, 1} /\ Own'[st.ofp] \in {0, 1}
      /\ saved.ofp # NoOfp => /\ finals[saved.ofp] \in Nat
                              /\ Own[saved.ofp] \in {0, 1}
                              /\ Own'[saved.ofp] \in {0, 1}
  BY <1>1, OwnIs
<1>5. last' \in {last, Floor}
        => /\ st.ofp # NoOfp => Own[st.ofp] <= Own'[st.ofp]
           /\ saved.ofp # NoOfp => Own[saved.ofp] <= Own'[saved.ofp]
  BY <1>1, KeepsOwn
\* A step after which both states owe what they owed, or no more.
<1>6. ASSUME finals' = finals, tick' = tick, Copies' = Copies,
             last' \in {last, Floor},
             st'.ofp = st.ofp, AtGate(st') = AtGate(st),
             Missed(st') = Missed(st),
             \/ /\ saved'.ofp = saved.ofp /\ AtGate(saved') = AtGate(saved)
                /\ Missed(saved') = Missed(saved)
             \/ saved' = st
      PROVE  FinalInv'
  <2>1. Owes'
    BY <1>1, <1>2, <1>3, <1>4, <1>5, <1>6 DEF Owes
  <2>2. CASE /\ saved'.ofp = saved.ofp /\ AtGate(saved') = AtGate(saved)
             /\ Missed(saved') = Missed(saved)
    <3>1. SavedOwes'
      BY <1>1, <1>2, <1>3, <1>4, <1>5, <1>6, <2>2 DEF SavedOwes
    <3>2. QED BY <1>1, <1>6, <2>1, <3>1, KeepsFinalInv
  <2>3. CASE saved' = st
    <3>1. CASE tick = "idle"
      BY <1>1, <1>2, <1>3, <1>4, <1>5, <1>6, <2>1, <2>3, <3>1, KeepsFinalInv
         DEF Owes, SavedOwes, One
    <3>2. CASE tick # "idle"
      BY <1>1, <1>2, <1>3, <1>4, <1>5, <1>6, <2>1, <2>3, <3>2, KeepsFinalInv
         DEF Owes, SavedOwes, One
    <3>3. QED BY <3>1, <3>2
  <2>4. QED BY <1>6, <2>2, <2>3
<1>7. CASE Still \/ Saves \/ Generates
  <2>1. /\ finals' = finals /\ tick' = tick /\ st' = st
        /\ last' \in {last, Floor} /\ saved' \in {st, saved}
    BY <1>7 DEF Still, Saves, Generates
  <2>2. Copies' = Copies
    BY <1>7, SameCopies DEF Still, Saves, Generates
  <2>3. QED BY <1>6, <2>1, <2>2
<1>8. ASSUME NEW span \in Span, Ages(span) PROVE FinalInv'
  <2>1. /\ st'.ofp = st.ofp /\ saved'.ofp = saved.ofp
        /\ AtGate(st') = AtGate(st) /\ Missed(st') = Missed(st)
        /\ AtGate(saved') = AtGate(saved) /\ Missed(saved') = Missed(saved)
    BY <1>1, <1>8, AgedIs, SameDue DEF Ages
  <2>2. Copies' = Copies
    BY <1>8, SameCopies DEF Ages
  <2>3. QED BY <1>6, <1>8, <2>1, <2>2 DEF Ages
<1>9. CASE Crashes
  <2>1. /\ st' = saved /\ saved' = saved /\ tick' = "idle" /\ finals' = finals
        /\ last' = last /\ One(tick' # "idle") = 0
    BY <1>9 DEF Crashes, One
  <2>2. Copies' \in {Copies + 1, Copies + 2}
    BY <1>1, <1>9 DEF Crashes, Copies, One
  <2>3. saved.ofp # NoOfp
          => finals[saved.ofp] + AtGate(saved) + Missed(saved)
               <= Copies' + Own'[saved.ofp]
    BY <1>1, <1>2, <1>3, <1>4, <1>5, <2>1, <2>2 DEF SavedOwes
  <2>4. Owes'
    BY <2>1, <2>3 DEF Owes
  <2>5. SavedOwes'
    BY <1>1, <1>2, <1>4, <2>1, <2>2, <2>3 DEF SavedOwes
  <2>6. Copies' >= Copies + 1
    BY <1>1, <2>2
  <2>7. QED BY <2>1, <2>4, <2>5, <2>6, KeepsFinalInv
<1>10. CASE Raised
  <2>1. /\ st' = st /\ saved' = saved /\ finals' = finals /\ last' = last
        /\ tick' \in {tick, "idle"}
    BY <1>10 DEF Raised, settings
  <2>2. Copies' \in {Copies + 1, Copies + 2}
    BY <1>1, <1>10 DEF Raised, Copies, One
  <2>3. CASE tick' = tick
    <3>1. Owes'
      BY <1>1, <1>2, <1>3, <1>4, <1>5, <2>1, <2>2, <2>3 DEF Owes
    <3>2. SavedOwes'
      BY <1>1, <1>2, <1>3, <1>4, <1>5, <2>1, <2>2, <2>3 DEF SavedOwes
    <3>3. Copies' >= Copies + 1
      BY <1>1, <2>2
    <3>4. QED BY <2>1, <3>1, <3>2, <3>3, KeepsFinalInv
\* A final that raised is owed again.
  <2>4. CASE tick' = "idle" /\ tick # "idle"
    <3>1. Owes'
      BY <1>1, <1>2, <1>3, <1>4, <1>5, <2>1, <2>2, <2>4 DEF Owes
    <3>2. One(tick # "idle") = 1 /\ One(tick' # "idle") = 0
      BY <2>4 DEF One
    <3>3. SavedOwes'
      BY <1>1, <1>2, <1>3, <1>4, <1>5, <2>1, <2>2, <3>2 DEF SavedOwes
    <3>4. Copies' >= Copies + 1
      BY <1>1, <2>2
    <3>5. QED BY <2>1, <3>1, <3>3, <3>4, KeepsFinalInv
  <2>5. QED BY <2>1, <2>3, <2>4
<1>11. CASE \E s \in State : TickOutcome(s)
  BY <1>11, TickFinalInv
<1>12. CASE TickMaxLock
  <2>1. StartsOver /\ last' = last /\ unlocks' = unlocks
    BY <1>12, TickMaxLockIs
  <2>2. Copies' = Copies
    BY <2>1, SameCopies DEF StartsOver, events
  <2>3. Owes' /\ SavedOwes'
    BY <2>1, UnlockedIs DEF StartsOver, Owes, SavedOwes
  <2>4. st'.ofp = NoOfp /\ finals' = finals /\ last' = last
    BY <2>1, UnlockedIs DEF StartsOver
  <2>5. QED BY <1>1, <2>2, <2>3, <2>4, KeepsFinalInv
<1>13. CASE UnlockNow
  <2>1. StartsOver /\ unlocks' = unlocks + 1
    BY <1>13, UnlockNowIs
  <2>2. Copies' = Copies + 1
    BY <1>1, <2>1 DEF StartsOver, Copies, One
  <2>3. Owes' /\ SavedOwes'
    BY <2>1, UnlockedIs DEF StartsOver, Owes, SavedOwes
  <2>4. finals' = finals /\ Copies' >= Copies + 1
    BY <1>1, <2>1, <2>2 DEF StartsOver
  <2>5. QED BY <2>3, <2>4, KeepsFinalInv
<1>14. CASE PollLocks
  <2>1. PICK plan \in Ofp :
          /\ plan = PollPlan
          /\ last # plan \/ st.ofp \notin {NoOfp, plan}
          /\ FreshLock(st', plan) /\ last' = plan
          /\ saved' \in {Unlocked, saved} /\ tick' = tick /\ finals' = finals
          /\ events' = events /\ commandLock' = commandLock
    BY <1>14, PollLocksIs DEF events
  <2>2. /\ Floor = plan /\ Floor \in Nat /\ Floor' \in Nat /\ Floor <= Floor'
        /\ plan \in Nat
    BY <2>1, FloorIs, FloorRises, PlansAre DEF Ofp, NoOfp
  <2>3. /\ Copies' = Copies /\ last' \in {last, Floor} /\ st'.ofp = plan
        /\ st'.ofp \in {st.ofp, NoOfp, Floor}
    BY <2>1, <2>2, SameCopies DEF FreshLock
  <2>4. ~Done(plan) /\ Settled(plan)'
    <3> HIDE DEF Floor
    <3>1. ~Done(plan)
      BY <2>1, <2>2 DEF Done, Settled
    <3>2. plan < Floor' \/ plan = Floor'
      BY <2>2
    <3>3. QED BY <2>1, <3>1, <3>2 DEF Settled
  <2>5. Dealt[plan] = 0 /\ Own'[plan] = 1
    BY <2>4 DEF Dealt, Own, One
  <2>6. finals[plan] \in Nat /\ finals[plan] <= Copies
    BY <1>1, <2>5 DEF FinalInv
  <2>7. AtGate(st') \in {0, 1} /\ Missed(st') = 0
    BY <2>1, DueIs DEF FreshLock
  <2>8. Owes'
    BY <1>1, <2>1, <2>3, <2>5, <2>6, <2>7 DEF Owes
  <2>9. SavedOwes'
    <3>1. CASE saved' = Unlocked
      BY <3>1, UnlockedIs DEF SavedOwes
    <3>2. CASE saved' = saved
      BY <1>1, <1>2, <1>3, <1>4, <1>5, <2>1, <2>3, <3>2 DEF SavedOwes
    <3>3. QED BY <2>1, <3>1, <3>2
  <2>10. QED BY <1>1, <2>1, <2>3, <2>8, <2>9, KeepsFinalInv
<1>15. CASE PrintNow
  <2>1. PICK plan \in Ofp :
          /\ plan = CommandPlan
          /\ FreshLock(st', plan) /\ last' = plan /\ saved' = saved
          /\ tick' = tick /\ finals' = finals
          /\ commandLock' = plan /\ manual' = manual + 1
          /\ unlocks' = unlocks /\ crashes' = crashes /\ raises' = raises
    BY <1>15, PrintNowIs
  <2>2. Copies' \in {Copies + 1, Copies + 2}
    BY <1>1, <2>1 DEF Copies, One
  <2>3. finals[plan] + 1 <= Copies' + Own'[plan]
    <3>1. /\ finals[plan] \in Nat /\ finals[plan] <= Copies + Dealt[plan]
          /\ Dealt[plan] \in {0, 1} /\ Own'[plan] \in {0, 1}
      BY <1>1, OwnIs DEF FinalInv
    <3>2. Dealt[plan] = 1 => Own'[plan] = 1
      <4>1. Floor \in Nat /\ Floor' \in Nat /\ Floor <= Floor' /\ plan \in Nat
        BY FloorIs, FloorRises DEF Ofp
      <4> HIDE DEF Floor
      <4>2. Done(plan) => Settled(plan)'
        BY <2>1, <4>1 DEF Done, Settled
      <4>3. QED BY <4>2 DEF Dealt, Own, One
    <3>3. QED BY <1>1, <2>2, <3>1, <3>2
  <2>4. st'.ofp = plan /\ Missed(st') = 0 /\ AtGate(st') \in {0, 1}
    BY <2>1, DueIs DEF FreshLock
  <2>5. Owes'
    <3>1. finals[plan] \in Nat /\ Own'[plan] \in {0, 1} /\ Copies' \in Nat
      BY <1>1, <2>2, OwnIs
    <3>2. QED BY <2>1, <2>3, <2>4, <3>1 DEF Owes
  <2>6. SavedOwes'
    BY <1>1, <1>2, <1>3, <1>4, <2>1, <2>2 DEF SavedOwes
  <2>7. Copies' >= Copies + 1
    BY <1>1, <2>2
  <2>8. QED BY <2>1, <2>5, <2>6, <2>7, KeepsFinalInv
<1>16. CASE EndOfPrint /\ PrintEnds
  BY <1>16, EndOfPrintFinalInv
<1>17. QED
  BY <1>7, <1>8, <1>9, <1>10, <1>11, <1>12, <1>13, <1>14, <1>15, <1>16,
     StepIs DEF StepOutcome

\* The final loadsheet of an OFP prints once, and a further copy takes an
\* Unlock, a crash, a print that raises before its mark, or a Print OFP (two
\* copies), for any number of OFPs and of these, however the tick, the poll
\* worker with its old answers and the command thread interleave while strips
\* print.
THEOREM FinalPrintsOnce == Spec => []FinalOnce
<1>1. Init => LinksInv
  BY UnlockedIs DEF Init, LinksInv, Marked, NoOfp
<1>2. Init => FinalInv
  <2> SUFFICES ASSUME Init PROVE FinalInv
    OBVIOUS
  <2>1. /\ Copies = 0 /\ st.ofp = NoOfp /\ saved.ofp = NoOfp
        /\ finals = [o \in Ofp |-> 0]
    BY UnlockedIs, WatcherAssumption DEF Init, Copies, One, Ofp
  <2>2. Dealt \in [Ofp -> {0, 1}]
    BY OwnIs
  <2>3. QED BY <2>1, <2>2 DEF FinalInv, Owes, SavedOwes
<1>3. TypeOK /\ LinksInv /\ FinalInv => FinalOnce
  <2> SUFFICES ASSUME TypeOK, LinksInv, FinalInv, NEW o \in Ofp
               PROVE  finals[o] <= 1 + 2 * manual + unlocks + crashes + raises
    BY DEF FinalOnce
  <2>1. /\ finals[o] \in Nat /\ Copies \in Nat /\ Dealt[o] \in {0, 1}
        /\ manual \in Nat /\ unlocks \in Nat /\ crashes \in Nat
        /\ raises \in Nat
    BY Counts, OwnIs
  <2>2. Copies <= 2 * manual + unlocks + crashes + raises
    BY <2>1 DEF Copies, One
  <2>3. QED BY <2>1, <2>2 DEF FinalInv
<1>4. QED
  BY <1>1, <1>2, <1>3, InitTypeOK, NextTypeOK, NextLinksInv, NextFinalInv, PTL
     DEF Spec

-----------------------------------------------------------------------------
(* A final that was never printed is owed in flight.                       *)

\* The OFPs whose finals are followed: no print's end marks them by mistake.
Followed == Ofp \ (Fenix \cup crossed)

\* Until its final is handed over, no state of such an OFP has the final
\* marked, and in flight the final is a missed one.
Owed(s) ==
  s.ofp \in Followed /\ finals[s.ofp] = 0
    => ~s.finalPrinted /\ (s.phase = "airborne" => s.missedFinal)

\* A strip whose end marks a final finds one handed over.
OwedInv ==
  /\ Owed(st) /\ Owed(saved)
  /\ Marking /\ st.ofp \in Followed => finals[st.ofp] > 0

LEMMA TickOwedInv ==
  ASSUME TypeOK, OwedInv, NEW s \in State, TickOutcome(s)
  PROVE  OwedInv'
<1>1. /\ tick = "idle" /\ Follows(st, s) /\ Followed' = Followed
      /\ pollLock' = pollLock /\ commandLock' = commandLock
      /\ st \in State /\ saved \in State
      /\ finals \in [Ofp -> Nat] /\ NoOfp \notin Ofp /\ Followed \subseteq Ofp
      /\ s.ofp \in Ofp \cup {NoOfp}
  BY DEF TickOutcome, Followed, TypeOK, State, Ofp, NoOfp
<1>2. Owed(s)
  BY <1>1, UnlockedIs
     DEF Follows, Ends, Stays, TakesOff, Lands, Owed, OwedInv
<1>3. /\ st'.ofp = s.ofp /\ s.ofp \in {st.ofp, NoOfp}
  BY TickKeepsOfp
<1>4. Owed(SavedAfter(s))
  BY <1>2 DEF SavedAfter, OwedInv
<1>5. CASE FollowsOnly(s)
  <2>1. /\ Alike(s, st') /\ saved' = SavedAfter(s) /\ tick' = tick
        /\ finals' = finals
    BY <1>5 DEF FollowsOnly
  <2>2. Owed(st)' /\ Owed(saved)'
    BY <1>1, <1>2, <1>4, <2>1 DEF Alike, Owed
  <2>3. QED BY <1>1, <1>3, <2>1, <2>2 DEF OwedInv, Marking
<1>6. CASE SkipsTheFinal(s)
  <2>1. st'.ofp \in Fenix /\ saved' = st'
    BY <1>3, <1>6 DEF SkipsTheFinal
  <2>2. st'.ofp \notin Followed
    BY <2>1 DEF Followed
  <2>3. QED BY <1>1, <2>1, <2>2 DEF OwedInv, Owed
<1>7. CASE PrintsFinal(s) \/ PrintsMissed(s)
  <2>1. /\ Alike(s, st') /\ saved' \in {SavedAfter(s), saved}
        /\ HandFinal(s.ofp) /\ s.ofp # NoOfp
    BY <1>7 DEF PrintsFinal, PrintsMissed, Alike
  <2>2. OneMore(finals, finals', s.ofp) /\ s.ofp \in Ofp
    BY <1>1, <2>1, CountOne DEF HandFinal
  <2>3. finals[s.ofp] \in Nat /\ finals'[s.ofp] = finals[s.ofp] + 1
    BY <1>1, <2>2 DEF OneMore
  <2>4. finals'[s.ofp] > 0
    BY <2>3
  <2>5. \A o \in Ofp : finals'[o] = 0 => finals[o] = 0
    BY <2>2, <2>4 DEF OneMore
  <2>6. Owed(st)'
    BY <1>1, <1>3, <2>4 DEF Owed
  <2>7. Owed(saved)'
    BY <1>1, <1>4, <2>1, <2>5 DEF Owed, OwedInv
  <2>8. QED BY <1>3, <2>4, <2>6, <2>7 DEF OwedInv
<1>8. QED BY <1>5, <1>6, <1>7 DEF TickOutcome

LEMMA NextOwedInv == TypeOK /\ OwedInv /\ [Next]_vars => OwedInv'
<1> SUFFICES ASSUME TypeOK, OwedInv, [Next]_vars PROVE OwedInv'
  OBVIOUS
<1>1. /\ st \in State /\ saved \in State /\ finals \in [Ofp -> Nat]
      /\ NoOfp \notin Ofp /\ Followed \subseteq Ofp /\ NoOfp \notin Fenix
  <2>1. NoOfp \notin Ofp /\ Fenix \subseteq Ofp
    BY WatcherAssumption DEF Ofp, NoOfp
  <2>2. QED BY <2>1 DEF TypeOK, Followed
<1>2. /\ Owed(st) /\ Owed(saved)
      /\ Marking /\ st.ofp \in Followed => finals[st.ofp] > 0
  BY DEF OwedInv
<1>3. CASE Still \/ Saves \/ Generates
  BY <1>2, <1>3
     DEF Still, Saves, Generates, Owed, OwedInv, Marking, Followed
<1>4. ASSUME NEW span \in Span, Ages(span) PROVE OwedInv'
  <2>1. /\ st'.ofp = st.ofp /\ st'.phase = st.phase
        /\ st'.finalPrinted = st.finalPrinted
        /\ st'.missedFinal = st.missedFinal
        /\ saved'.ofp = saved.ofp /\ saved'.phase = saved.phase
        /\ saved'.finalPrinted = saved.finalPrinted
        /\ saved'.missedFinal = saved.missedFinal
    BY <1>1, <1>4, AgedIs DEF Ages
  <2>2. QED BY <1>2, <1>4, <2>1 DEF Ages, Owed, OwedInv, Marking, Followed
<1>5. CASE Crashes
  <2>1. ~Marking'
    BY <1>1, <1>5 DEF Crashes, Marking
  <2>2. QED BY <1>2, <1>5, <2>1 DEF Crashes, Owed, OwedInv, Followed
<1>6. CASE Raised
  <2>1. Marking' => Marking
    BY <1>1, <1>6 DEF Raised, Marking
  <2>2. QED
    BY <1>2, <1>6, <2>1 DEF Raised, settings, Owed, OwedInv, Followed
<1>7. CASE \E s \in State : TickOutcome(s)
  BY <1>7, TickOwedInv
<1>8. CASE TickMaxLock \/ UnlockNow
  <2>1. StartsOver
    BY <1>8, TickMaxLockIs, UnlockNowIs
  <2>2. st'.ofp \notin Followed' /\ saved'.ofp \notin Followed'
    BY <1>1, <2>1, UnlockedIs DEF StartsOver, Followed
  <2>3. QED BY <2>2 DEF OwedInv, Owed
\* A lock onto an OFP that nothing printing will mark, or that is crossed.
<1>9. ASSUME NEW plan \in Ofp, FreshLock(st', plan), finals' = finals,
             crossed' = CrossedBy(plan), saved' \in {Unlocked, saved},
             tick' = tick, pollLock' \in {pollLock, plan},
             commandLock' \in {commandLock, plan}
      PROVE  OwedInv'
  <2>1. Owed(st)'
    BY <1>9 DEF FreshLock, Owed
  <2>2. Followed' \subseteq Followed
    BY <1>9 DEF CrossedBy, Followed
  <2>3. Owed(saved)'
    BY <1>1, <1>2, <1>9, <2>2, UnlockedIs DEF Owed
  <2>4. Marking' => st'.ofp \notin Followed'
    <3>1. CASE Marking
      BY <1>9, <3>1 DEF CrossedBy, FreshLock, Followed
    <3>2. CASE ~Marking
      BY <1>9, <3>2 DEF Marking, FreshLock, Followed
    <3>3. QED BY <3>1, <3>2
  <2>5. QED BY <2>1, <2>3, <2>4 DEF OwedInv
<1>10. CASE PollLocks
  BY <1>9, <1>10, PollLocksIs
<1>11. CASE PrintNow
  BY <1>9, <1>11, PrintNowIs
<1>12. CASE EndOfPrint /\ PrintEnds
  <2>1. /\ st'.ofp = st.ofp /\ saved' \in {st', saved}
        /\ finals' = finals /\ Followed' = Followed
    BY <1>1, <1>12, TickMissedPrintedIs, TickFinalPrintedIs,
       PollLockPrintedIs, PrintNowPrintedIs
       DEF EndOfPrint, PrintEnds, Marks, Followed
  <2>2. Marking' => Marking
    BY <1>1, <1>12
       DEF PrintEnds, TickMissedPrinted, TickFinalPrinted, PollLockPrinted,
           PrintNowPrinted, network, Marking
  <2>3. Owed(st)'
    <3>1. CASE Marking
      BY <1>2, <2>1, <3>1 DEF Owed
    <3>2. CASE ~Marking /\ PollLockPrinted
      <4>1. pollLock \notin Fenix
        BY <3>2 DEF Marking
      <4>2. /\ st'.phase = st.phase /\ st'.finalPrinted = st.finalPrinted
            /\ st'.missedFinal = st.missedFinal
        BY <1>1, <3>2, <4>1, PollLockPrintedIs
      <4>3. QED BY <1>2, <2>1, <4>2 DEF Owed
    <3>3. CASE ~Marking /\ PrintNowPrinted
      BY <1>1, <3>3, PrintNowPrintedIs DEF Owed, Marking, PrintNowPrinted
    <3>4. QED
      BY <1>12, <3>1, <3>2, <3>3
         DEF PrintEnds, Marking, TickMissedPrinted, TickFinalPrinted
  <2>4. Owed(saved)'
    BY <1>2, <2>1, <2>3 DEF Owed
  <2>5. QED BY <1>2, <2>1, <2>2, <2>3, <2>4 DEF OwedInv
<1>13. QED
  BY <1>3, <1>4, <1>5, <1>6, <1>7, <1>8, <1>10, <1>11, <1>12, StepIs
     DEF StepOutcome

\* In flight, a final that never went to the printer is owed as a missed one,
\* through Print OFP, bounces, crashes, stale answers and prints that end late
\* or raise, for any number of OFPs: only a lock that a final or a Fenix's
\* bundle crosses in the printer can be marked by its end.
THEOREM MissedFinalIsOwed == Spec => []MissedFinalOwed
<1>1. Init => OwedInv
  BY UnlockedIs DEF Init, OwedInv, Owed, Followed, Ofp, NoOfp
<1>2. OwedInv => MissedFinalOwed
  BY DEF OwedInv, Owed, Followed, MissedFinalOwed
<1>3. QED
  BY <1>1, <1>2, InitTypeOK, NextTypeOK, NextOwedInv, PTL DEF Spec
=============================================================================
