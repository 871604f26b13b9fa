---------------------------- MODULE SterileGate ----------------------------
(***************************************************************************)
(* The print gate (services/sterile.py) with the threads that meet in it:  *)
(*   - the 1 Hz tick, which reads the settings under the gate's lock,      *)
(*     judges the sample outside it and applies the verdict under it;      *)
(*   - the command thread, which saves the settings (apply_settings): the  *)
(*     AGL limit, then "only when powered", then a new print stack;        *)
(*   - the threads that bring print jobs, which ask the gate under its     *)
(*     lock and print after releasing it;                                  *)
(*   - the one-worker executors of the print stacks, which run the jobs    *)
(*     that a release flushes.                                             *)
(* Each critical section of the lock is one action.                        *)
(*                                                                         *)
(* Time is counted in units of which the settle window has SettleTicks; it *)
(* does not advance while the tick is between its two sections.            *)
(***************************************************************************)
EXTENDS Integers, Sequences, Functions, SimState

CONSTANTS
  Job,            \* the print jobs
  ChannelOf,      \* the queue each job belongs to
  MaxQueue,       \* MAX_QUEUE_PER_CHANNEL
  SettleTicks,    \* POWER_ON_SETTLE_SECONDS
  MaxExecutors,   \* bound on the print stacks built, hence on settings saves
  Samples,        \* the samples the simulator produces
  AglLimits,      \* the sterile AGL choices
  PowerSettings   \* the choices for "only when powered"

Channel == {"acars", "simbrief"}
Thread == {"tick", "command"}      \* the threads that flush
Executor == 1 .. MaxExecutors
NoTimer == -1

ASSUME GateAssumption ==
  /\ ChannelOf \in [Job -> Channel]
  /\ MaxQueue \in Nat \ {0}
  /\ SettleTicks \in Nat \ {0}
  /\ MaxExecutors \in Nat \ {0}
  /\ AglLimits # {} /\ AglLimits \subseteq Nat
  /\ PowerSettings # {} /\ PowerSettings \subseteq BOOLEAN

VARIABLES
  sample,         \* what the simulator monitor last produced
  aglLimit,       \* _thresholds.agl_ft
  requirePowered, \* _require_powered
  sterile, unpowered, settling, blocking,
  readyIn,        \* _power_ready_at - now, NoTimer for None
  batteryOn,      \* _battery_on
  queue,          \* _acars_queue and _simbrief_queue
  verdict,        \* the tick's locals between its sections, <<>> for none
  saving,         \* the next step of the command thread's settings save
  batch,          \* jobs a flushing thread has taken and not yet dispatched
  inline,         \* _flush_runner is None (the "fake" printer)
  executors,      \* print stacks built so far; the last one is the runner
  work,           \* jobs submitted to each stack's executor
  pending,        \* jobs not yet brought to the gate
  cleared,        \* jobs their own thread may run: it found the gate open
  printed, dropped,
  poweredFor      \* history: time since the gate last held for power

settings == <<aglLimit, requirePowered>>
hold == <<sterile, unpowered, settling, blocking, readyIn, batteryOn>>
stack == <<inline, executors>>
jobs == <<queue, batch, work, pending, cleared, printed, dropped>>
vars == <<sample, settings, hold, verdict, saving, stack, jobs, poweredFor>>

-----------------------------------------------------------------------------
\* Until the first sample arrives the gate holds if power is required.
InitHold ==
  /\ sterile = FALSE
  /\ unpowered = requirePowered
  /\ blocking = requirePowered
  /\ settling = FALSE
  /\ readyIn = NoTimer
  /\ batteryOn = "unknown"

Init ==
  /\ sample = Disconnected
  /\ aglLimit \in AglLimits
  /\ requirePowered \in PowerSettings
  /\ InitHold
  /\ queue = [c \in Channel |-> <<>>]
  /\ batch = [t \in Thread |-> <<>>]
  /\ work = [e \in Executor |-> <<>>]
  /\ verdict = <<>>
  /\ saving = "idle"
  /\ inline \in BOOLEAN
  /\ executors = 1
  /\ pending = Job
  /\ cleared = {} /\ printed = {} /\ dropped = {}
  /\ poweredFor = IF requirePowered THEN 0 ELSE SettleTicks

-----------------------------------------------------------------------------
(* Bringing a job: run_or_defer_acars and run_or_defer_simbrief.           *)

\* The fault of testing the length after the append.
EnqueuePastLimit(q, j) ==
  IF Len(q) > MaxQueue THEN Append(Tail(q), j) ELSE Append(q, j)

\* The fault of queueing the newcomer first.
EnqueueFront(q, j) == <<j>> \o (IF Len(q) >= MaxQueue THEN Tail(q) ELSE q)

\* _enqueue: a full queue loses its oldest job.
Enqueue(q, j) ==
  IF Len(q) >= MaxQueue THEN Append(Tail(q), j) ELSE Append(q, j)

\* The fault of counting a drop only past the limit.
LostPastLimit(q) == IF Len(q) > MaxQueue THEN {Head(q)} ELSE {}

Lost(q) == IF Len(q) >= MaxQueue THEN {Head(q)} ELSE {}

Defer(j) ==
  /\ j \in pending
  /\ blocking
  /\ pending' = pending \ {j}
  /\ LET c == ChannelOf[j] IN
       /\ queue' = [queue EXCEPT ![c] = Enqueue(@, j)]
       /\ dropped' = dropped \cup Lost(queue[c])
  /\ UNCHANGED <<sample, settings, hold, verdict, saving, stack, batch, work,
                 cleared, printed, poweredFor>>

RunNow(j) ==
  /\ j \in pending
  /\ ~blocking
  /\ pending' = pending \ {j}
  /\ cleared' = cleared \cup {j}
  /\ UNCHANGED <<sample, settings, hold, verdict, saving, stack, queue, batch,
                 work, printed, dropped, poweredFor>>

\* The job body, outside the lock; an ingested message first sleeps 1 s.
PrintCleared(j) ==
  /\ j \in cleared
  /\ cleared' = cleared \ {j}
  /\ printed' = printed \cup {j}
  /\ UNCHANGED <<sample, settings, hold, verdict, saving, stack, queue, batch,
                 work, pending, dropped, poweredFor>>

-----------------------------------------------------------------------------
(* Releasing the queues.                                                   *)

\* The fault of releasing one channel only.
ReleaseAcarsOnly(t, open) ==
  IF open
  THEN /\ batch' = [batch EXCEPT ![t] = queue["acars"]]
       /\ queue' = [queue EXCEPT !["acars"] = <<>>]
  ELSE UNCHANGED <<batch, queue>>

\* The fault of leaving the released jobs queued.
ReleaseCopies(t, open) ==
  /\ batch' = IF open
              THEN [batch EXCEPT ![t] = queue["acars"] \o queue["simbrief"]]
              ELSE batch
  /\ UNCHANGED queue

\* The flushing thread takes both queues, ACARS first.
Release(t, open) ==
  IF open
  THEN /\ batch' = [batch EXCEPT ![t] = queue["acars"] \o queue["simbrief"]]
       /\ queue' = [c \in Channel |-> <<>>]
  ELSE UNCHANGED <<batch, queue>>

\* _dispatch_flush, one job: the runner in force now gets it, or, without
\* one, the flushing thread runs it.  The stagger is time only.
Dispatch(t) ==
  /\ batch[t] # <<>>
  /\ batch' = [batch EXCEPT ![t] = Tail(@)]
  /\ IF inline
     THEN /\ printed' = printed \cup {Head(batch[t])}
          /\ UNCHANGED work
     ELSE /\ work' = [work EXCEPT ![executors] = Append(@, Head(batch[t]))]
          /\ UNCHANGED printed
  /\ UNCHANGED <<sample, settings, hold, verdict, saving, stack, queue,
                 pending, cleared, dropped, poweredFor>>

\* A stack's single worker runs its jobs in order; a replaced stack keeps
\* its worker and what was submitted to it.
PrintSubmitted(e) ==
  /\ work[e] # <<>>
  /\ work' = [work EXCEPT ![e] = Tail(@)]
  /\ printed' = printed \cup {Head(work[e])}
  /\ UNCHANGED <<sample, settings, hold, verdict, saving, stack, queue, batch,
                 pending, cleared, dropped, poweredFor>>

-----------------------------------------------------------------------------
(* The tick: update_from_snapshot.                                         *)

\* First section and the judgement: the settings read here are used below.
TickJudge ==
  /\ verdict = <<>>
  /\ batch["tick"] = <<>>
  /\ verdict' = << [required  |-> requirePowered,
                    sterile   |-> ComputeSterile(sample, aglLimit),
                    unpowered |-> ComputeUnpowered(sample, requirePowered),
                    powered   |-> AircraftPowered(sample)] >>
  /\ UNCHANGED <<sample, settings, hold, saving, stack, jobs, poweredFor>>

\* The fault of opening without a window.
NextTimerNoSettle(v) == IF v.required /\ ~v.unpowered /\ readyIn > 0
                        THEN readyIn ELSE NoTimer

\* The fault of restarting the window at every tick.
NextTimerRestart(v) ==
  IF ~v.required \/ v.unpowered THEN NoTimer ELSE SettleTicks

\* The settle window starts when the gate stops seeing an unpowered
\* aircraft, and ends at the first tick at or after its time.
NextTimer(v) ==
  IF ~v.required \/ v.unpowered THEN NoTimer
  ELSE IF unpowered THEN SettleTicks
  ELSE IF readyIn > 0 THEN readyIn ELSE NoTimer

\* The fault of forgetting the electrical hold.
ShutWithoutPower(ste, unp, set) == ste \/ set

Shut(ste, unp, set) == ste \/ unp \/ set

\* Second section: the verdict, the window and the release on the edge.
TickApply ==
  /\ verdict # <<>>
  /\ LET v == verdict[1] IN
       /\ sterile' = v.sterile
       /\ unpowered' = v.unpowered
       /\ batteryOn' = v.powered
       /\ readyIn' = NextTimer(v)
       /\ settling' = (readyIn' # NoTimer)
       /\ blocking' = Shut(sterile', unpowered', settling')
       /\ Release("tick", blocking /\ ~blocking')
       /\ poweredFor' = IF v.unpowered THEN 0 ELSE poweredFor
  /\ verdict' = <<>>
  /\ UNCHANGED <<sample, settings, saving, stack, work, pending, cleared,
                 printed, dropped>>

-----------------------------------------------------------------------------
(* The command thread: apply_sterile_settings, then rebuild_printer.       *)

SetThresholds(limit) ==
  /\ saving = "idle"
  /\ batch["command"] = <<>>
  /\ executors < MaxExecutors
  /\ aglLimit' = limit
  /\ saving' = "power"
  /\ UNCHANGED <<sample, requirePowered, hold, verdict, stack, jobs,
                 poweredFor>>

HoldAfterSetting(on) ==
  IF on
  THEN IF batteryOn # "on"
       THEN /\ unpowered' = TRUE /\ settling' = FALSE
            /\ readyIn' = NoTimer /\ blocking' = TRUE
            /\ UNCHANGED <<queue, batch>>
       ELSE UNCHANGED <<unpowered, settling, readyIn, blocking, queue, batch>>
  ELSE /\ unpowered' = FALSE /\ settling' = FALSE /\ readyIn' = NoTimer
       /\ blocking' = sterile
       /\ Release("command", blocking /\ ~blocking')

SetRequirePowered(on) ==
  /\ saving = "power"
  /\ requirePowered' = on
  /\ HoldAfterSetting(on)
  /\ poweredFor' = IF unpowered' THEN 0 ELSE poweredFor
  /\ saving' = "stack"
  /\ UNCHANGED <<sample, aglLimit, sterile, batteryOn, verdict, stack, work,
                 pending, cleared, printed, dropped>>

\* rebuild_printer ends every save, and alone follows a format change; the
\* "fake" destination has no flush runner.
RebuildPrinter(fake) ==
  /\ saving \in {"idle", "stack"}
  /\ batch["command"] = <<>>
  /\ executors < MaxExecutors
  /\ inline' = fake
  /\ executors' = executors + 1
  /\ saving' = "idle"
  /\ UNCHANGED <<sample, settings, hold, verdict, jobs, poweredFor>>

-----------------------------------------------------------------------------
(* The environment.                                                        *)

NewSample ==
  /\ sample' \in Samples
  /\ UNCHANGED <<settings, hold, verdict, saving, stack, jobs, poweredFor>>

Elapse ==
  /\ verdict = <<>>
  /\ readyIn > 0 \/ poweredFor < SettleTicks
  /\ readyIn' = IF readyIn > 0 THEN readyIn - 1 ELSE readyIn
  /\ poweredFor' = IF poweredFor < SettleTicks THEN poweredFor + 1
                   ELSE poweredFor
  /\ UNCHANGED <<sample, settings, sterile, unpowered, settling, blocking,
                 batteryOn, verdict, saving, stack, jobs>>

Next ==
  \/ \E j \in Job : Defer(j) \/ RunNow(j) \/ PrintCleared(j)
  \/ \E t \in Thread : Dispatch(t)
  \/ \E e \in Executor : PrintSubmitted(e)
  \/ TickJudge \/ TickApply
  \/ \E limit \in AglLimits : SetThresholds(limit)
  \/ \E on \in PowerSettings : SetRequirePowered(on)
  \/ \E fake \in BOOLEAN : RebuildPrinter(fake)
  \/ NewSample \/ Elapse

Spec == Init /\ [][Next]_vars

\* The tick thread, the workers and the threads holding a job keep running,
\* a save once begun is completed, and time passes between ticks (the loop
\* waits a second; strong, because each tick interrupts it).  Nothing makes
\* the user save settings, the simulator change or a message arrive.
Fairness ==
  /\ WF_vars(TickJudge) /\ WF_vars(TickApply)
  /\ \A t \in Thread : WF_vars(Dispatch(t))
  /\ \A e \in Executor : WF_vars(PrintSubmitted(e))
  /\ \A j \in Job : WF_vars(PrintCleared(j))
  /\ WF_vars(\E on \in PowerSettings : SetRequirePowered(on))
  /\ WF_vars(saving = "stack" /\ \E fake \in BOOLEAN : RebuildPrinter(fake))
  /\ SF_vars(Elapse)

FairSpec == Spec /\ Fairness

-----------------------------------------------------------------------------
(* Properties.                                                             *)

TimerRange == NoTimer .. SettleTicks

\* Types, and the queue limit MAX_QUEUE_PER_CHANNEL.
TypeOK ==
  /\ aglLimit \in AglLimits /\ requirePowered \in PowerSettings
  /\ sterile \in BOOLEAN /\ unpowered \in BOOLEAN
  /\ settling \in BOOLEAN /\ blocking \in BOOLEAN
  /\ verdict # <<>> => /\ verdict[1].sterile \in BOOLEAN
                       /\ verdict[1].unpowered \in BOOLEAN
  /\ readyIn \in TimerRange /\ poweredFor \in 0 .. SettleTicks
  /\ queue \in [Channel -> Seq(Job)]
  /\ \A c \in Channel : Len(queue[c]) <= MaxQueue
  /\ batch \in [Thread -> Seq(Job)] /\ work \in [Executor -> Seq(Job)]
  /\ saving \in {"idle", "power", "stack"}
  /\ inline \in BOOLEAN /\ executors \in Executor
  /\ pending \subseteq Job /\ cleared \subseteq Job
  /\ printed \subseteq Job /\ dropped \subseteq Job

\* No stranded job: whenever the gate is open both queues are empty, so a
\* deferred strip never waits for a release that has already happened
\* (update_from_snapshot and set_require_powered flush on the edge only).
NoStrandedJob == ~blocking => \A c \in Channel : queue[c] = <<>>

\* The gate is shut exactly when one of its three reasons holds, and the
\* settle window is running exactly when its end is recorded, through every
\* interleaving of a tick with a settings save.
HoldHasReason ==
  /\ blocking <=> (sterile \/ unpowered \/ settling)
  /\ settling <=> readyIn # NoTimer

Queued == UNION {Range(queue[c]) : c \in Channel}
Batched == UNION {Range(batch[t]) : t \in Thread}
Submitted == UNION {Range(work[e]) : e \in Executor}

AllDifferent(s) == \A a, b \in DOMAIN s : a # b => s[a] # s[b]

PairwiseDisjoint(sets) ==
  \A a, b \in DOMAIN sets : a # b => sets[a] \cap sets[b] = {}

\* Every job is in one place and in one place only: none is lost between
\* the gate, the flushing threads and the print stacks, and none is printed
\* twice, although the queues are handed over outside the lock.
EachJobOnce ==
  /\ pending \cup Queued \cup Batched \cup Submitted \cup cleared
       \cup printed \cup dropped = Job
  /\ PairwiseDisjoint(<<pending, Queued, Batched, Submitted, cleared,
                        printed, dropped>>)
  /\ PairwiseDisjoint([c \in Channel |-> Range(queue[c])])
  /\ PairwiseDisjoint([t \in Thread |-> Range(batch[t])])
  /\ PairwiseDisjoint([e \in Executor |-> Range(work[e])])
  /\ \A c \in Channel : AllDifferent(queue[c])
  /\ \A t \in Thread : AllDifferent(batch[t])
  /\ \A e \in Executor : AllDifferent(work[e])

\* What the gate promises its callers, whatever the threads do.
Promise == INSTANCE DeferredPrinting WITH
  open <- ~blocking, held <- queue,
  released <- cleared \cup Batched \cup Submitted

\* The gate implements deferred printing: a job is released at once or held,
\* held jobs leave all together when the gate opens, only a full channel
\* loses a job, its oldest, and each released job is printed once.
KeepsPromise == Promise!Spec

\* The jobs on their way to one executor, then those that wait in a channel's
\* queue, oldest first.
Line(c) == work[executors] \o batch["command"] \o batch["tick"] \o queue[c]

\* j is in the line of its channel, and k behind it or not yet brought.
ComesBefore(j, k) ==
  LET line == Line(ChannelOf[j]) IN
  /\ ChannelOf[j] = ChannelOf[k]
  /\ \E a \in DOMAIN line :
       /\ line[a] = j
       /\ k \in pending \/ \E b \in DOMAIN line : a < b /\ line[b] = k

\* While only ticks release (no settings save), a channel's deferred strips
\* print in the order they came: a strip leaves the line before those behind
\* it, and a newcomer joins at its end, unless one of the two is dropped or
\* the newcomer finds the gate open.
PrintsInOrder ==
  [][\A j, k \in Job : ComesBefore(j, k) =>
       \/ ComesBefore(j, k)' \/ j \in printed'
       \/ {j, k} \cap dropped' # {} \/ k \in cleared']_vars

\* "Then ~10 s settle" (README): with power required throughout, the gate
\* opens only after the aircraft has been powered for the whole window.
SettlesBeforeOpening ==
  [][blocking /\ ~blocking' /\ requirePowered' => poweredFor' >= SettleTicks]_vars

\* The gate could stand open for the sample and the settings in force.
Clear ==
  /\ saving = "idle"
  /\ ~ComputeSterile(sample, aglLimit)
  /\ ~ComputeUnpowered(sample, requirePowered)

Hazard ==
  /\ saving = "idle"
  /\ \/ ComputeSterile(sample, aglLimit)
     \/ ComputeUnpowered(sample, requirePowered)

\* Once nothing asks for a hold any more, every job brought to the gate is
\* printed, or was dropped by a full queue: no timer, settings race or
\* replaced print stack keeps one back for ever.
JobsFinish ==
  <>[]Clear => \A j \in Job : (j \notin pending) ~> (j \in printed \cup dropped)

\* A hold that the sample and the settings ask for is in force eventually,
\* and stays, even after a tick applied settings that had been replaced.
HazardShutsGate == <>[]Hazard => <>[]blocking

\* README: "Below your sterile AGL or taxiing >= 40 kt, prints queue and
\* release when sterile ends".
NoPrintWhileSterile == [][printed' # printed => ~sterile]_vars
=============================================================================
