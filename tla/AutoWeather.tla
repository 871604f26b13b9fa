---------------------------- MODULE AutoWeather ----------------------------
(***************************************************************************)
(* The weather for the destination (weather/auto_wx.py), printed on its    *)
(* own once the aircraft is airborne within a ring around it.  The pulse   *)
(* of the runtime (bridge/runtime.py, tick) asks for it once a second, and *)
(* a command of the user interface may run the same pulse: both hold the   *)
(* tick lock, through fetches that take seconds.                           *)
(***************************************************************************)
EXTENDS Naturals, FiniteSets

CONSTANTS
  Ticker,   \* threads that run the pulse
  Ofp,      \* flight plans, by ofp_id
  Kind,     \* the kinds of weather selected
  MaxMoves  \* bound on what the flight and the user do, prints that raise included

NoOfp == "none"
NoTicker == "none"
Airport == {"origin", "dest"}

VARIABLES
  flight,   \* the simulator: airborne, and whether it is inside the ring
  blocking, \* sterile.is_blocking
  plan,     \* the watcher's plan
  enabled,  \* wx_auto_enabled
  holder,   \* who holds the tick lock
  pulse,    \* per ticker, how far consider has come and what it has read
  coords,   \* _coord_cache
  printed,  \* _printed_ofp_ids
  strips,   \* strips handed to the printer, per plan and kind
  raised,   \* history: pulses a print has ended with an exception, per plan
  moves     \* moves of the flight and the user so far

world == <<flight, blocking, plan, enabled, moves>>
weatherVars == <<world, holder, pulse, coords, printed, strips, raised>>

Resting == [at |-> "rest", plan |-> NoOfp, flight |-> "away", bodies |-> {}]

\* "away" and "ring" are airborne outside and inside the ring.
WeatherInit ==
  /\ flight = "ground" /\ blocking = FALSE /\ plan = NoOfp
  /\ enabled \in BOOLEAN /\ moves = 0
  /\ holder = NoTicker /\ pulse = [t \in Ticker |-> Resting]
  /\ coords = {} /\ printed = {} /\ strips = [o \in Ofp |-> [k \in Kind |-> 0]]
  /\ raised = [o \in Ofp |-> 0]

-----------------------------------------------------------------------------
(* What happens around the pulse, at any time.                             *)

Move ==
  /\ moves < MaxMoves /\ moves' = moves + 1
  /\ \/ /\ flight' \in {"ground", "away", "ring"} \ {flight}
        /\ UNCHANGED <<blocking, plan, enabled>>
     \/ /\ blocking' = ~blocking /\ UNCHANGED <<flight, plan, enabled>>
     \/ /\ plan' \in (Ofp \cup {NoOfp}) \ {plan}
        /\ UNCHANGED <<flight, blocking, enabled>>
     \/ /\ enabled' = ~enabled /\ UNCHANGED <<flight, blocking, plan>>
  /\ UNCHANGED <<holder, pulse, coords, printed, strips, raised>>

-----------------------------------------------------------------------------
(* The pulse.  It samples the simulator when it has the lock and goes on   *)
(* with that sample; the gate is asked after the positions were fetched.   *)

LetGo(t) == holder' = NoTicker /\ pulse' = [pulse EXCEPT ![t] = Resting]
Goes(t, to) == pulse' = [pulse EXCEPT ![t].at = to]

TickUnlocked(t) ==
  /\ pulse[t].at = "rest"
  /\ holder' = t
  /\ pulse' = [pulse EXCEPT ![t] =
                 [Resting EXCEPT !.at = "consider", !.flight = flight]]
  /\ UNCHANGED <<world, coords, printed, strips, raised>>

Tick(t) ==
  /\ holder = NoTicker /\ pulse[t].at = "rest"
  /\ holder' = t
  /\ pulse' = [pulse EXCEPT ![t] =
                 [Resting EXCEPT !.at = "consider", !.flight = flight]]
  /\ UNCHANGED <<world, coords, printed, strips, raised>>

\* The early returns of consider.
Leave(t) ==
  /\ pulse[t].at = "consider"
  /\ ~enabled \/ plan = NoOfp \/ plan \in printed
  /\ LetGo(t)
  /\ UNCHANGED <<world, coords, printed, strips, raised>>

Consider(t) ==
  /\ pulse[t].at = "consider"
  /\ enabled /\ plan # NoOfp /\ plan \notin printed
  /\ pulse' = [pulse EXCEPT ![t].at = "locate", ![t].plan = plan]
  /\ UNCHANGED <<world, holder, coords, printed, strips, raised>>

\* Only found positions are kept; the airports of a plan are its own.
Places(o) == {<<o, a>> : a \in Airport}

Locate(t) ==
  /\ pulse[t].at = "locate" /\ ~(Places(pulse[t].plan) \subseteq coords)
  /\ \E p \in Places(pulse[t].plan) \ coords : coords' = coords \cup {p}
  /\ UNCHANGED <<world, holder, pulse, printed, strips, raised>>

LocateFails(t) ==
  /\ pulse[t].at = "locate" /\ ~(Places(pulse[t].plan) \subseteq coords)
  /\ LetGo(t)
  /\ UNCHANGED <<world, coords, printed, strips, raised>>

\* should_trigger_dest_wx on the sampled flight, then the gate.
Decide(t) ==
  /\ pulse[t].at = "locate" /\ Places(pulse[t].plan) \subseteq coords
  /\ IF pulse[t].flight = "ring" /\ ~blocking THEN Goes(t, "fetch") /\ UNCHANGED holder
     ELSE LetGo(t)
  /\ UNCHANGED <<world, coords, printed, strips, raised>>

\* Each kind is fetched, found or not; what failed is left out.
Fetch(t) ==
  /\ pulse[t].at = "fetch"
  /\ \E bodies \in SUBSET Kind \ {{}} :
       pulse' = [pulse EXCEPT ![t].at = "print", ![t].bodies = bodies]
  /\ UNCHANGED <<world, holder, coords, printed, strips, raised>>

\* The plan is marked before anything was fetched for it.
FetchFailsMarked(t) ==
  /\ pulse[t].at = "fetch"
  /\ printed' = printed \cup {pulse[t].plan}
  /\ LetGo(t)
  /\ UNCHANGED <<world, coords, strips, raised>>

FetchFails(t) ==
  /\ pulse[t].at = "fetch"
  /\ LetGo(t)
  /\ UNCHANGED <<world, coords, printed, strips, raised>>

\* A strip the printer refuses counts as printed all the same.
PrintBodies(t) ==
  LET o == pulse[t].plan IN
  /\ pulse[t].at = "print"
  /\ strips' = [strips EXCEPT ![o] =
                  [k \in Kind |-> @[k] + IF k \in pulse[t].bodies THEN 1 ELSE 0]]
  /\ Goes(t, "mark")
  /\ UNCHANGED <<world, holder, coords, printed, raised>>

\* An exception of print_ticket leaves consider before the mark, with any of
\* the strips printed: its row may be cleared while the strip prints, so that
\* create_print_job is refused, and _emit catches a PrinterError only.
PrintRaises(t) ==
  LET o == pulse[t].plan IN
  /\ pulse[t].at = "print"
  /\ moves < MaxMoves /\ moves' = moves + 1
  /\ \E done \in SUBSET pulse[t].bodies :
       strips' = [strips EXCEPT ![o] =
                    [k \in Kind |-> @[k] + IF k \in done THEN 1 ELSE 0]]
  /\ raised' = [raised EXCEPT ![o] = @ + 1]
  /\ LetGo(t)
  /\ UNCHANGED <<flight, blocking, plan, enabled, coords, printed>>

Mark(t) ==
  /\ pulse[t].at = "mark"
  /\ printed' = printed \cup {pulse[t].plan}
  /\ LetGo(t)
  /\ UNCHANGED <<world, coords, strips, raised>>

Pulse(t) ==
  \/ Tick(t) \/ Leave(t) \/ Consider(t) \/ Locate(t) \/ LocateFails(t)
  \/ Decide(t) \/ Fetch(t) \/ FetchFails(t) \/ PrintBodies(t) \/ PrintRaises(t)
  \/ Mark(t)

WeatherNext == Move \/ \E t \in Ticker : Pulse(t)
WeatherSpec == WeatherInit /\ [][WeatherNext]_weatherVars

\* The pulse never stops, and a fetch that is tried again and again succeeds
\* some day.
WeatherFairness ==
  /\ WF_weatherVars(\E t \in Ticker : Pulse(t))
  /\ SF_weatherVars(\E t \in Ticker : Locate(t))
  /\ SF_weatherVars(\E t \in Ticker : Fetch(t))
WeatherFairSpec == WeatherSpec /\ WeatherFairness

-----------------------------------------------------------------------------

(* However the pulses of the background thread and of the user interface   *)
(* overlap, and however the flight, the plan and the gate change while a   *)
(* fetch is on its way: within a run of the program a plan's destination   *)
(* weather prints at most once, and once more for each pulse in which one  *)
(* of its prints raised: that pulse leaves no mark, and the next one       *)
(* prints all of it again.                                                 *)
WxOncePerOfp ==
  \A o \in Ofp, k \in Kind : strips[o][k] <= 1 + raised[o]

(* An aircraft that stays in the ring, airborne, with the gate open and a  *)
(* plan loaded gets its weather, though fetches fail on the way.           *)
WxIsPrinted ==
  \A o \in Ofp :
    <>[](flight = "ring" /\ ~blocking /\ enabled /\ plan = o)
      => <>(\E k \in Kind : strips[o][k] > 0)
=============================================================================
