-------------------------- MODULE SterileGateProofs --------------------------
(***************************************************************************)
(* Proofs about the print gate, for every set of jobs and samples, every   *)
(* queue limit, settle window and number of print stacks.                  *)
(***************************************************************************)
EXTENDS SterileGate, SequenceTheorems, TLAPS

\* The strengthening that makes "no stranded job" inductive: the types, that
\* the shut gate has a reason, and the property itself.
GateInv == TypeOK /\ HoldHasReason /\ NoStrandedJob

-----------------------------------------------------------------------------
\* Enqueue keeps a queue within its limit (SterileGate._enqueue).
LEMMA EnqueueBounded ==
  ASSUME NEW q \in Seq(Job), NEW j \in Job, Len(q) <= MaxQueue
  PROVE  /\ Enqueue(q, j) \in Seq(Job)
         /\ Len(Enqueue(q, j)) <= MaxQueue
<1> USE GateAssumption
<1>1. CASE Len(q) >= MaxQueue
  <2>1. q # <<>> /\ Tail(q) \in Seq(Job) /\ Len(Tail(q)) = Len(q) - 1
    BY <1>1, Len(<<>>) = 0
  <2>2. QED BY <1>1, <2>1 DEF Enqueue
<1>2. CASE Len(q) < MaxQueue
  BY <1>2 DEF Enqueue
<1>3. QED BY <1>1, <1>2

\* What a full queue loses is one of the jobs it held.
LEMMA LostIsQueued ==
  ASSUME NEW q \in Seq(Job)
  PROVE  Lost(q) \subseteq Job
<1>1. CASE Len(q) >= MaxQueue
  <2>1. q # <<>> BY <1>1, GateAssumption, Len(<<>>) = 0
  <2>2. QED BY <2>1 DEF Lost
<1>2. CASE ~(Len(q) >= MaxQueue)
  BY <1>2 DEF Lost
<1>3. QED BY <1>1, <1>2

\* A release hands both queues over and empties them, or changes nothing.
LEMMA ReleaseTypes ==
  ASSUME TypeOK, NEW t \in Thread, NEW open \in BOOLEAN, Release(t, open)
  PROVE  /\ queue' \in [Channel -> Seq(Job)]
         /\ \A c \in Channel : Len(queue'[c]) <= MaxQueue
         /\ batch' \in [Thread -> Seq(Job)]
         /\ open => \A c \in Channel : queue'[c] = <<>>
         /\ ~open => queue' = queue
<1>1. CASE open
  <2>1. queue' = [c \in Channel |-> <<>>] /\ \A c \in Channel : Len(queue'[c]) = 0
    BY <1>1 DEF Release
  <2>2. queue["acars"] \in Seq(Job) /\ queue["simbrief"] \in Seq(Job)
    BY DEF TypeOK, Channel
  <2>3. queue["acars"] \o queue["simbrief"] \in Seq(Job)
    BY <2>2, ConcatProperties
  <2>4. batch' \in [Thread -> Seq(Job)]
    BY <1>1, <2>3 DEF Release, TypeOK
  <2>5. QED BY <1>1, <2>1, <2>4, GateAssumption
<1>2. CASE ~open
  BY <1>2 DEF Release, TypeOK
<1>3. QED BY <1>1, <1>2

-----------------------------------------------------------------------------
LEMMA InitGateInv == Init => GateInv
<1> SUFFICES ASSUME Init PROVE GateInv
  OBVIOUS
<1> USE GateAssumption
<1>1. requirePowered \in BOOLEAN
  BY DEF Init
<1>2. TypeOK
  <2>1. queue \in [Channel -> Seq(Job)] /\ \A c \in Channel : Len(queue[c]) = 0
    BY DEF Init
  <2>2. batch \in [Thread -> Seq(Job)] /\ work \in [Executor -> Seq(Job)]
    BY DEF Init
  <2>3. executors \in Executor /\ inline \in BOOLEAN
    BY DEF Init, Executor
  <2>4. /\ aglLimit \in AglLimits /\ requirePowered \in PowerSettings
        /\ verdict = <<>> /\ saving = "idle"
        /\ pending \subseteq Job /\ cleared \subseteq Job
        /\ printed \subseteq Job /\ dropped \subseteq Job
    BY DEF Init
  <2>5. /\ sterile \in BOOLEAN /\ unpowered \in BOOLEAN
        /\ settling \in BOOLEAN /\ blocking \in BOOLEAN
    BY <1>1 DEF Init, InitHold
  <2>6. readyIn \in TimerRange
    BY DEF Init, InitHold, TimerRange, NoTimer
  <2>7. poweredFor \in 0 .. SettleTicks
    BY DEF Init
  <2>8. \A c \in Channel : Len(queue[c]) <= MaxQueue
    BY <2>1
  <2>9. verdict # <<>> => /\ verdict[1].sterile \in BOOLEAN
                         /\ verdict[1].unpowered \in BOOLEAN
    BY <2>4
  <2>10. QED BY <2>1, <2>2, <2>3, <2>4, <2>5, <2>6, <2>7, <2>8, <2>9
        DEF TypeOK
<1>3. HoldHasReason
  BY <1>1 DEF Init, InitHold, HoldHasReason
<1>4. NoStrandedJob
  BY DEF Init, NoStrandedJob
<1>5. QED BY <1>2, <1>3, <1>4 DEF GateInv

\* Deferring touches a queue and the dropped jobs, and only of a shut gate.
LEMMA DeferGateInv ==
  ASSUME GateInv, NEW j \in Job, Defer(j)
  PROVE  GateInv'
<1> DEFINE c == ChannelOf[j]
<1>1. c \in Channel /\ queue[c] \in Seq(Job) /\ Len(queue[c]) <= MaxQueue
  BY GateAssumption DEF GateInv, TypeOK
<1>2. /\ Enqueue(queue[c], j) \in Seq(Job)
      /\ Len(Enqueue(queue[c], j)) <= MaxQueue
  BY <1>1, EnqueueBounded
<1>3. Lost(queue[c]) \subseteq Job
  BY <1>1, LostIsQueued
<1>4. queue' = [queue EXCEPT ![c] = Enqueue(queue[c], j)]
  BY DEF Defer
<1>5. /\ queue' \in [Channel -> Seq(Job)]
      /\ \A d \in Channel : Len(queue'[d]) <= MaxQueue
  BY <1>1, <1>2, <1>4 DEF GateInv, TypeOK
<1>6. dropped' \subseteq Job /\ pending' \subseteq Job
  BY <1>3 DEF Defer, GateInv, TypeOK
<1>7. TypeOK'
  BY <1>5, <1>6 DEF Defer, GateInv, TypeOK, settings, hold, stack
<1>8. HoldHasReason' /\ NoStrandedJob'
  BY DEF Defer, GateInv, HoldHasReason, NoStrandedJob, hold
<1>9. QED BY <1>7, <1>8 DEF GateInv

\* Tail and Head of a line of jobs that is not empty.
LEMMA HeadTailOfJobs ==
  ASSUME NEW q \in Seq(Job), q # <<>>
  PROVE  Head(q) \in Job /\ Tail(q) \in Seq(Job)
OBVIOUS

LEMMA DispatchGateInv ==
  ASSUME GateInv, NEW t \in Thread, Dispatch(t)
  PROVE  GateInv'
<1>1. batch[t] \in Seq(Job) /\ batch[t] # <<>>
  BY DEF GateInv, TypeOK, Dispatch
<1>2. Head(batch[t]) \in Job /\ Tail(batch[t]) \in Seq(Job)
  BY <1>1, HeadTailOfJobs
<1>3. batch' \in [Thread -> Seq(Job)]
  BY <1>2 DEF Dispatch, GateInv, TypeOK
<1>4. work' \in [Executor -> Seq(Job)] /\ printed' \subseteq Job
  <2>1. CASE inline
    BY <1>2, <2>1 DEF Dispatch, GateInv, TypeOK
  <2>2. CASE ~inline
    <3>1. work[executors] \in Seq(Job)
      BY DEF GateInv, TypeOK
    <3>2. Append(work[executors], Head(batch[t])) \in Seq(Job)
      BY <1>2, <3>1
    <3>3. QED BY <2>2, <3>2 DEF Dispatch, GateInv, TypeOK
  <2>3. QED BY <2>1, <2>2
<1>5. TypeOK'
  BY <1>3, <1>4 DEF Dispatch, GateInv, TypeOK, settings, hold, stack
<1>6. HoldHasReason' /\ NoStrandedJob'
  BY DEF Dispatch, GateInv, HoldHasReason, NoStrandedJob, hold
<1>7. QED BY <1>5, <1>6 DEF GateInv

LEMMA PrintSubmittedGateInv ==
  ASSUME GateInv, NEW e \in Executor, PrintSubmitted(e)
  PROVE  GateInv'
<1>1. Head(work[e]) \in Job /\ Tail(work[e]) \in Seq(Job)
  BY HeadTailOfJobs DEF GateInv, TypeOK, PrintSubmitted
<1>2. work' \in [Executor -> Seq(Job)] /\ printed' \subseteq Job
  BY <1>1 DEF PrintSubmitted, GateInv, TypeOK
<1>3. TypeOK'
  BY <1>2 DEF PrintSubmitted, GateInv, TypeOK, settings, hold, stack
<1>4. HoldHasReason' /\ NoStrandedJob'
  BY DEF PrintSubmitted, GateInv, HoldHasReason, NoStrandedJob, hold
<1>5. QED BY <1>3, <1>4 DEF GateInv

\* The verdict of a tick is two truth values, whatever the sample is.
LEMMA TickJudgeGateInv ==
  ASSUME GateInv, TickJudge
  PROVE  GateInv'
<1>1. /\ ComputeSterile(sample, aglLimit) \in BOOLEAN
      /\ ComputeUnpowered(sample, requirePowered) \in BOOLEAN
  BY DEF ComputeSterile, ComputeUnpowered
<1>2. verdict' # <<>> => /\ verdict'[1].sterile \in BOOLEAN
                         /\ verdict'[1].unpowered \in BOOLEAN
  BY <1>1 DEF TickJudge
<1>3. TypeOK'
  BY <1>2 DEF TickJudge, GateInv, TypeOK, settings, hold, stack, jobs
<1>4. HoldHasReason' /\ NoStrandedJob'
  BY DEF TickJudge, GateInv, HoldHasReason, NoStrandedJob, hold, jobs
<1>5. QED BY <1>3, <1>4 DEF GateInv

\* The next end of the window: none, the whole window, or the one recorded.
LEMMA NextTimerInRange ==
  ASSUME TypeOK, verdict # <<>>, readyIn' = NextTimer(verdict[1])
  PROVE  readyIn' \in TimerRange
  BY GateAssumption DEF TypeOK, NextTimer, TimerRange, NoTimer

LEMMA TickApplyGateInv ==
  ASSUME GateInv, TickApply
  PROVE  GateInv'
<1> DEFINE v == verdict[1]
<1>1. verdict # <<>> /\ v.sterile \in BOOLEAN /\ v.unpowered \in BOOLEAN
  BY DEF TickApply, GateInv, TypeOK
<1>2. /\ sterile' = v.sterile /\ unpowered' = v.unpowered
      /\ readyIn' = NextTimer(v) /\ settling' = (readyIn' # NoTimer)
      /\ blocking' = (sterile' \/ unpowered' \/ settling')
      /\ Release("tick", blocking /\ ~blocking')
      /\ poweredFor' = IF v.unpowered THEN 0 ELSE poweredFor
      /\ verdict' = <<>>
  BY DEF TickApply, Shut
<1>3. readyIn' \in TimerRange
  BY <1>1, <1>2, NextTimerInRange DEF GateInv
<1>4. /\ sterile' \in BOOLEAN /\ unpowered' \in BOOLEAN
      /\ settling' \in BOOLEAN /\ blocking' \in BOOLEAN
  BY <1>1, <1>2
<1>5. poweredFor' \in 0 .. SettleTicks
  BY <1>1, <1>2, GateAssumption DEF GateInv, TypeOK
<1>6. /\ queue' \in [Channel -> Seq(Job)]
      /\ \A c \in Channel : Len(queue'[c]) <= MaxQueue
      /\ batch' \in [Thread -> Seq(Job)]
      /\ (blocking /\ ~blocking') => \A c \in Channel : queue'[c] = <<>>
      /\ ~(blocking /\ ~blocking') => queue' = queue
  <2>1. "tick" \in Thread
    BY DEF Thread
  <2>2. QED BY <1>2, <1>4, <2>1, ReleaseTypes DEF GateInv
<1>7. TypeOK'
  BY <1>2, <1>3, <1>4, <1>5, <1>6
     DEF TickApply, GateInv, TypeOK, settings, stack
<1>8. HoldHasReason'
  BY <1>2, <1>4 DEF HoldHasReason
<1>9. NoStrandedJob'
  BY <1>6 DEF GateInv, NoStrandedJob
<1>10. QED BY <1>7, <1>8, <1>9 DEF GateInv

\* Saving "only when powered" shuts the gate, leaves it, or opens it and
\* releases what waits.
LEMMA SetRequirePoweredGateInv ==
  ASSUME GateInv, NEW on \in PowerSettings, SetRequirePowered(on)
  PROVE  GateInv'
<1> USE GateAssumption
<1>1. on \in BOOLEAN /\ HoldAfterSetting(on) /\ sterile' = sterile
  BY DEF SetRequirePowered
<1>2. /\ unpowered' \in BOOLEAN /\ settling' \in BOOLEAN
      /\ blocking' \in BOOLEAN /\ readyIn' \in TimerRange
  <2>1. NoTimer \in TimerRange
    BY DEF TimerRange, NoTimer
  <2>2. CASE on
    BY <1>1, <2>1, <2>2 DEF HoldAfterSetting, GateInv, TypeOK
  <2>3. CASE ~on
    <3>1. /\ unpowered' = FALSE /\ settling' = FALSE /\ readyIn' = NoTimer
          /\ blocking' = sterile
      BY <1>1, <2>3 DEF HoldAfterSetting
    <3>2. QED BY <2>1, <3>1 DEF GateInv, TypeOK
  <2>4. QED BY <1>1, <2>2, <2>3
<1>3. /\ queue' \in [Channel -> Seq(Job)]
      /\ \A c \in Channel : Len(queue'[c]) <= MaxQueue
      /\ batch' \in [Thread -> Seq(Job)]
      /\ NoStrandedJob'
  <2>1. CASE on
    BY <1>1, <2>1 DEF HoldAfterSetting, GateInv, TypeOK, NoStrandedJob
  <2>2. CASE ~on
    <3>1. Release("command", blocking /\ ~blocking')
      BY <1>1, <2>2 DEF HoldAfterSetting
    <3>2. "command" \in Thread /\ (blocking /\ ~blocking') \in BOOLEAN
      BY DEF Thread
    <3>3. /\ (blocking /\ ~blocking') => \A c \in Channel : queue'[c] = <<>>
          /\ ~(blocking /\ ~blocking') => queue' = queue
          /\ queue' \in [Channel -> Seq(Job)]
          /\ \A c \in Channel : Len(queue'[c]) <= MaxQueue
          /\ batch' \in [Thread -> Seq(Job)]
      BY <3>1, <3>2, ReleaseTypes DEF GateInv
    <3>4. QED BY <3>3 DEF GateInv, NoStrandedJob
  <2>3. QED BY <1>1, <2>1, <2>2
<1>4. HoldHasReason'
  BY <1>1 DEF HoldAfterSetting, GateInv, TypeOK, HoldHasReason, NoTimer
<1>5. poweredFor' \in 0 .. SettleTicks
  BY <1>2 DEF SetRequirePowered, GateInv, TypeOK
<1>6. TypeOK'
  BY <1>2, <1>3, <1>5 DEF SetRequirePowered, GateInv, TypeOK, stack
<1>7. QED BY <1>3, <1>4, <1>6 DEF GateInv

LEMMA ElapseGateInv ==
  ASSUME GateInv, Elapse
  PROVE  GateInv'
<1>1. readyIn' \in TimerRange /\ poweredFor' \in 0 .. SettleTicks
  BY GateAssumption DEF Elapse, GateInv, TypeOK, TimerRange, NoTimer
<1>2. readyIn' # NoTimer <=> readyIn # NoTimer
  BY GateAssumption DEF Elapse, GateInv, TypeOK, TimerRange, NoTimer
<1>3. TypeOK'
  BY <1>1 DEF Elapse, GateInv, TypeOK, settings, stack, jobs
<1>4. HoldHasReason' /\ NoStrandedJob'
  BY <1>2 DEF Elapse, GateInv, HoldHasReason, NoStrandedJob, jobs
<1>5. QED BY <1>3, <1>4 DEF GateInv

LEMMA NextGateInv == GateInv /\ [Next]_vars => GateInv'
<1> SUFFICES ASSUME GateInv, [Next]_vars PROVE GateInv'
  OBVIOUS
<1>1. ASSUME NEW j \in Job, Defer(j) PROVE GateInv'
  BY <1>1, DeferGateInv
<1>2. ASSUME NEW j \in Job, RunNow(j) PROVE GateInv'
  BY <1>2 DEF RunNow, GateInv, TypeOK, HoldHasReason, NoStrandedJob,
              settings, hold, stack
<1>3. ASSUME NEW j \in Job, PrintCleared(j) PROVE GateInv'
  BY <1>3 DEF PrintCleared, GateInv, TypeOK, HoldHasReason, NoStrandedJob,
              settings, hold, stack
<1>4. ASSUME NEW t \in Thread, Dispatch(t) PROVE GateInv'
  BY <1>4, DispatchGateInv
<1>5. ASSUME NEW e \in Executor, PrintSubmitted(e) PROVE GateInv'
  BY <1>5, PrintSubmittedGateInv
<1>6. CASE TickJudge
  BY <1>6, TickJudgeGateInv
<1>7. CASE TickApply
  BY <1>7, TickApplyGateInv
<1>8. ASSUME NEW limit \in AglLimits, SetThresholds(limit) PROVE GateInv'
  BY <1>8 DEF SetThresholds, GateInv, TypeOK, HoldHasReason, NoStrandedJob,
              hold, stack, jobs
<1>9. ASSUME NEW on \in PowerSettings, SetRequirePowered(on) PROVE GateInv'
  BY <1>9, SetRequirePoweredGateInv
<1>10. ASSUME NEW fake \in BOOLEAN, RebuildPrinter(fake) PROVE GateInv'
  <2>1. executors' \in Executor /\ inline' \in BOOLEAN /\ saving' = "idle"
    BY <1>10, GateAssumption DEF RebuildPrinter, GateInv, TypeOK, Executor
  <2>2. QED
    BY <1>10, <2>1 DEF RebuildPrinter, GateInv, TypeOK, HoldHasReason,
                       NoStrandedJob, settings, hold, jobs
<1>11. CASE NewSample
  BY <1>11 DEF NewSample, GateInv, TypeOK, HoldHasReason, NoStrandedJob,
               settings, hold, stack, jobs
<1>12. CASE Elapse
  BY <1>12, ElapseGateInv
<1>13. CASE UNCHANGED vars
  BY <1>13 DEF vars, GateInv, TypeOK, HoldHasReason, NoStrandedJob,
               settings, hold, stack, jobs
<1>14. QED
  BY <1>1, <1>2, <1>3, <1>4, <1>5, <1>6, <1>7, <1>8, <1>9, <1>10, <1>11,
     <1>12, <1>13 DEF Next

-----------------------------------------------------------------------------
THEOREM GateInvariant == Spec => []GateInv
BY InitGateInv, NextGateInv, PTL DEF Spec

\* Types and the queue limit hold of the gate for all constants.
THEOREM GateTypeOK == Spec => []TypeOK
BY GateInvariant, PTL DEF GateInv

\* Whenever the gate is open nothing is deferred: no strip waits for a
\* release that is over (SterileGate flushes on the closing edge only).
THEOREM NothingStranded == Spec => []NoStrandedJob
BY GateInvariant, PTL DEF GateInv

\* The gate is shut exactly for a reason, and the settle window runs exactly
\* when its end is recorded.
THEOREM HoldIsJustified == Spec => []HoldHasReason
BY GateInvariant, PTL DEF GateInv

-----------------------------------------------------------------------------
(* The settle window, while "only when powered" stays on.                  *)

\* The time since the gate stopped seeing an unpowered aircraft and the time
\* left of the window make up the whole window.
Covered ==
  IF readyIn = NoTimer THEN poweredFor >= SettleTicks
                       ELSE poweredFor + readyIn >= SettleTicks

SettleInv ==
  /\ requirePowered
  /\ verdict # <<>> => verdict[1].required
  /\ ~unpowered => Covered

\* Choosing the next end of the window keeps the sum.
LEMMA TickApplySettleInv ==
  ASSUME GateInv, SettleInv, TickApply
  PROVE  SettleInv'
<1> DEFINE v == verdict[1]
<1> USE GateAssumption
<1>1. verdict # <<>> /\ v.required /\ v.unpowered \in BOOLEAN
  BY DEF TickApply, SettleInv, GateInv, TypeOK
<1>2. /\ readyIn' = NextTimer(v) /\ unpowered' = v.unpowered
      /\ poweredFor' = IF v.unpowered THEN 0 ELSE poweredFor
      /\ verdict' = <<>> /\ requirePowered' = requirePowered
  BY DEF TickApply, settings
<1>3. readyIn \in TimerRange /\ poweredFor \in 0 .. SettleTicks
      /\ unpowered \in BOOLEAN
  BY DEF GateInv, TypeOK
<1>4. ASSUME ~unpowered' PROVE Covered'
  <2>1. ~v.unpowered /\ poweredFor' = poweredFor
    BY <1>2, <1>4
  <2>2. CASE unpowered
    <3>1. readyIn' = SettleTicks
      BY <1>1, <1>2, <2>1, <2>2 DEF NextTimer
    <3>2. QED BY <1>3, <2>1, <3>1 DEF Covered, NoTimer
  <2>3. CASE ~unpowered
    <3>1. readyIn' = IF readyIn > 0 THEN readyIn ELSE NoTimer
      BY <1>1, <1>2, <2>1, <2>3 DEF NextTimer
    <3>2. Covered
      BY <2>3 DEF SettleInv
    <3>3. QED BY <1>3, <2>1, <3>1, <3>2 DEF Covered, NoTimer, TimerRange
  <2>4. QED BY <2>2, <2>3
<1>5. QED BY <1>2, <1>4 DEF SettleInv

\* Switching the setting on again shuts the gate or changes nothing.
LEMMA SetRequirePoweredSettleInv ==
  ASSUME GateInv, SettleInv, SetRequirePowered(TRUE)
  PROVE  SettleInv'
<1>1. requirePowered' /\ verdict' = verdict
  BY DEF SetRequirePowered
<1>2. CASE batteryOn # "on"
  <2>1. unpowered'
    BY <1>2 DEF SetRequirePowered, HoldAfterSetting
  <2>2. QED BY <1>1, <2>1 DEF SettleInv
<1>3. CASE batteryOn = "on"
  <2>1. unpowered' = unpowered /\ readyIn' = readyIn
    BY <1>3 DEF SetRequirePowered, HoldAfterSetting
  <2>2. ~unpowered => poweredFor' = poweredFor
    BY <2>1 DEF SetRequirePowered
  <2>3. QED BY <1>1, <2>1, <2>2 DEF SettleInv, Covered
<1>4. QED BY <1>2, <1>3

\* A unit of time goes from what is left to what has passed.
LEMMA ElapseSettleInv ==
  ASSUME GateInv, SettleInv, Elapse
  PROVE  SettleInv'
<1>1. readyIn \in TimerRange /\ poweredFor \in 0 .. SettleTicks
  BY DEF GateInv, TypeOK
<1>2. /\ unpowered' = unpowered /\ verdict' = verdict
      /\ requirePowered' = requirePowered
      /\ readyIn' = IF readyIn > 0 THEN readyIn - 1 ELSE readyIn
      /\ poweredFor' = IF poweredFor < SettleTicks THEN poweredFor + 1
                       ELSE poweredFor
  BY DEF Elapse, settings
<1>3. Covered => Covered'
  BY <1>1, <1>2, GateAssumption DEF Covered, TimerRange, NoTimer
<1>4. QED BY <1>2, <1>3 DEF SettleInv

LEMMA NextSettleInv ==
  ASSUME PowerSettings = {TRUE}, GateInv, SettleInv, [Next]_vars
  PROVE  SettleInv'
<1>1. CASE UNCHANGED <<settings, hold, verdict, poweredFor>>
  BY <1>1 DEF SettleInv, Covered, settings, hold
<1>2. CASE TickApply
  BY <1>2, TickApplySettleInv
<1>3. CASE Elapse
  BY <1>3, ElapseSettleInv
<1>4. ASSUME NEW on \in PowerSettings, SetRequirePowered(on) PROVE SettleInv'
  BY <1>4, SetRequirePoweredSettleInv
<1>5. CASE TickJudge
  BY <1>5 DEF TickJudge, SettleInv, Covered, settings, hold
<1>6. ASSUME NEW limit \in AglLimits, SetThresholds(limit) PROVE SettleInv'
  BY <1>6 DEF SetThresholds, SettleInv, Covered, hold
<1>7. ASSUME NEW j \in Job, Defer(j) \/ RunNow(j) \/ PrintCleared(j)
      PROVE SettleInv'
  BY <1>7, <1>1 DEF Defer, RunNow, PrintCleared
<1>8. ASSUME NEW t \in Thread, Dispatch(t) PROVE SettleInv'
  BY <1>8, <1>1 DEF Dispatch
<1>9. ASSUME NEW e \in Executor, PrintSubmitted(e) PROVE SettleInv'
  BY <1>9, <1>1 DEF PrintSubmitted
<1>10. ASSUME NEW fake \in BOOLEAN, RebuildPrinter(fake) PROVE SettleInv'
  BY <1>10, <1>1 DEF RebuildPrinter
<1>11. CASE NewSample
  BY <1>11, <1>1 DEF NewSample
<1>12. CASE UNCHANGED vars
  BY <1>12, <1>1 DEF vars
<1>13. QED
  BY <1>2, <1>3, <1>4, <1>5, <1>6, <1>7, <1>8, <1>9, <1>10, <1>11, <1>12
     DEF Next

\* "Then ~10 s settle" (README), for every length of the window, every kind of
\* sample and every interleaving of ticks and jobs: with "only when powered" on
\* throughout, the gate opens only after it has seen power for the whole
\* window.  (With the setting being switched, a tick may apply a verdict of
\* before the switch.)
THEOREM WindowKept ==
  ASSUME PowerSettings = {TRUE}
  PROVE  Spec => SettlesBeforeOpening
<1>1. Init => SettleInv
  BY DEF Init, InitHold, SettleInv
<1>2. GateInv /\ SettleInv /\ [Next]_vars => SettleInv'
  BY NextSettleInv
<1>3. GateInv' /\ SettleInv' =>
        [blocking /\ ~blocking' /\ requirePowered'
           => poweredFor' >= SettleTicks]_vars
  <2> SUFFICES ASSUME GateInv', SettleInv', ~blocking'
               PROVE  poweredFor' >= SettleTicks
    OBVIOUS
  <2>1. ~unpowered' /\ readyIn' = NoTimer
    BY DEF GateInv, HoldHasReason
  <2>2. Covered'
    BY <2>1 DEF SettleInv
  <2>3. QED BY <2>1, <2>2 DEF Covered
<1>4. QED
  BY <1>1, <1>2, <1>3, GateInvariant, PTL DEF Spec, SettlesBeforeOpening

-----------------------------------------------------------------------------
(* Lines of jobs: the two queues, the batches, the executors' work.        *)

\* The jobs in the lines of F, and that no job is in them twice.
InLines(F, I) == UNION {Range(F[i]) : i \in I}
NoRepeat(F, I) ==
  /\ \A i, k \in I : i # k => Range(F[i]) \cap Range(F[k]) = {}
  /\ \A i \in I : AllDifferent(F[i])

\* A line without its head holds the other jobs, still once each.
LEMMA TailOfLine ==
  ASSUME NEW q \in Seq(Job), q # <<>>, AllDifferent(q)
  PROVE  /\ Head(q) \in Range(q)
         /\ Range(Tail(q)) = Range(q) \ {Head(q)}
         /\ AllDifferent(Tail(q))
<1>1. /\ Tail(q) \in Seq(Job) /\ Len(Tail(q)) = Len(q) - 1
      /\ \A i \in 1 .. Len(Tail(q)) : Tail(q)[i] = q[i + 1]
      /\ Len(q) \in Nat \ {0} /\ Head(q) = q[1]
  BY HeadTailProperties
<1>2. DOMAIN q = 1 .. Len(q) /\ DOMAIN Tail(q) = 1 .. Len(q) - 1
  BY <1>1
<1>3. Head(q) \in Range(q)
  BY <1>1, <1>2 DEF Range
<1>4. AllDifferent(Tail(q))
  BY <1>1, <1>2 DEF AllDifferent
<1>5. \A x \in Range(Tail(q)) : x \in Range(q) /\ x # Head(q)
  BY <1>1, <1>2 DEF Range, AllDifferent
<1>6. \A x \in Range(q) : x # Head(q) => x \in Range(Tail(q))
  <2> SUFFICES ASSUME NEW i \in 1 .. Len(q), q[i] # Head(q)
               PROVE  q[i] \in Range(Tail(q))
    BY <1>2 DEF Range
  <2>1. i - 1 \in 1 .. Len(Tail(q)) /\ Tail(q)[i - 1] = q[i]
    BY <1>1
  <2>2. QED BY <1>1, <1>2, <2>1 DEF Range
<1>7. QED BY <1>3, <1>4, <1>5, <1>6

\* A line that a new job joins at its end.
LEMMA AppendToLine ==
  ASSUME NEW q \in Seq(Job), NEW j \in Job, AllDifferent(q), j \notin Range(q)
  PROVE  /\ Range(Append(q, j)) = Range(q) \cup {j}
         /\ AllDifferent(Append(q, j))
<1> DEFINE s == Append(q, j)
<1>1. /\ Len(q) \in Nat /\ DOMAIN q = 1 .. Len(q)
      /\ DOMAIN s = 1 .. Len(q) + 1
      /\ \A i \in 1 .. Len(q) : s[i] = q[i]
      /\ s[Len(q) + 1] = j
  BY AppendProperties
<1> HIDE DEF s
<1>2. \A i \in 1 .. Len(q) : q[i] # j
  BY <1>1 DEF Range
<1>3. AllDifferent(s)
  BY <1>1, <1>2 DEF AllDifferent
<1>4. \A x \in Range(s) : x \in Range(q) \cup {j}
  BY <1>1 DEF Range
<1>5. \A x \in Range(q) \cup {j} : x \in Range(s)
  BY <1>1 DEF Range
<1>6. QED BY <1>3, <1>4, <1>5 DEF s

\* Two lines with no job in common, one behind the other (_dispatch_flush).
LEMMA JoinLines ==
  ASSUME NEW p \in Seq(Job), NEW q \in Seq(Job),
         AllDifferent(p), AllDifferent(q), Range(p) \cap Range(q) = {}
  PROVE  /\ Range(p \o q) = Range(p) \cup Range(q)
         /\ AllDifferent(p \o q)
<1> DEFINE s == p \o q
<1>1. Range(s) = Range(p) \cup Range(q)
  BY RangeConcatenation
<1>2. /\ Len(p) \in Nat /\ Len(q) \in Nat
      /\ DOMAIN p = 1 .. Len(p) /\ DOMAIN q = 1 .. Len(q)
      /\ DOMAIN s = 1 .. Len(p) + Len(q)
      /\ \A i \in 1 .. Len(p) + Len(q) :
           s[i] = IF i <= Len(p) THEN p[i] ELSE q[i - Len(p)]
  BY ConcatProperties
<1> HIDE DEF s
<1>3. \A a \in DOMAIN p, b \in DOMAIN q : p[a] # q[b]
  BY DEF Range
<1>4. AllDifferent(s)
  <2> SUFFICES ASSUME NEW a \in DOMAIN s, NEW b \in DOMAIN s, a # b
               PROVE  s[a] # s[b]
    BY DEF AllDifferent
  <2>1. CASE a <= Len(p) /\ b <= Len(p)
    BY <1>2, <2>1 DEF AllDifferent
  <2>2. CASE a > Len(p) /\ b > Len(p)
    <3>1. /\ a - Len(p) \in DOMAIN q /\ b - Len(p) \in DOMAIN q
          /\ a - Len(p) # b - Len(p)
      BY <1>2, <2>2
    <3>2. QED BY <1>2, <2>2, <3>1 DEF AllDifferent
  <2>3. CASE a <= Len(p) /\ b > Len(p)
    BY <1>2, <1>3, <2>3
  <2>4. CASE a > Len(p) /\ b <= Len(p)
    BY <1>2, <1>3, <2>4
  <2>5. QED BY <1>2, <2>1, <2>2, <2>3, <2>4
<1>5. QED BY <1>1, <1>4 DEF s

\* G is F with its line i replaced by s, which takes no job from another line.
Replaced(F, I, i, s, G) ==
  /\ F \in [I -> Seq(Job)] /\ i \in I
  /\ G = [F EXCEPT ![i] = s]
  /\ AllDifferent(s)
  /\ Range(s) \cap (InLines(F, I) \ Range(F[i])) = {}

\* What replacing one of several lines does to the jobs in them.
LEMMA ReplaceLine ==
  ASSUME NEW I, NEW F, NEW i, NEW s, NEW G,
         Replaced(F, I, i, s, G), NoRepeat(F, I)
  PROVE  /\ NoRepeat(G, I)
         /\ InLines(G, I) = (InLines(F, I) \ Range(F[i])) \cup Range(s)
<1>1. /\ i \in I /\ G[i] = s /\ AllDifferent(s)
      /\ \A k \in I \ {i} : G[k] = F[k]
      /\ \A x \in Range(s) : x \notin InLines(F, I) \ Range(F[i])
  BY DEF Replaced
<1>2. \A k \in I \ {i} : /\ Range(F[k]) \subseteq InLines(F, I)
                         /\ Range(F[k]) \cap Range(F[i]) = {}
  <2>1. \A k \in I : Range(F[k]) \subseteq InLines(F, I)
    BY DEF InLines
  <2>2. QED BY <1>1, <2>1 DEF NoRepeat
<1>3. \A k \in I \ {i} : Range(G[k]) \cap Range(s) = {}
  BY <1>1, <1>2
<1>4. \A k \in I : AllDifferent(G[k])
  BY <1>1 DEF NoRepeat
<1>5. \A k, m \in I : k # m => Range(G[k]) \cap Range(G[m]) = {}
  <2> SUFFICES ASSUME NEW k \in I, NEW m \in I, k # m
               PROVE  Range(G[k]) \cap Range(G[m]) = {}
    OBVIOUS
  <2>1. CASE k = i
    BY <1>1, <1>3, <2>1
  <2>2. CASE m = i
    BY <1>1, <1>3, <2>2
  <2>3. CASE k # i /\ m # i
    BY <1>1, <2>3 DEF NoRepeat
  <2>4. QED BY <2>1, <2>2, <2>3
<1>6. InLines(G, I) = (InLines(F, I) \ Range(F[i])) \cup Range(s)
  <2>1. \A x : x \in InLines(G, I) <=> \E k \in I : x \in Range(G[k])
    BY DEF InLines
  <2>2. \A x : x \in InLines(F, I) <=> \E k \in I : x \in Range(F[k])
    BY DEF InLines
  <2>3. QED BY <1>1, <1>2, <2>1, <2>2
<1>7. QED BY <1>4, <1>5, <1>6 DEF NoRepeat

\* G is F with the head of its line i taken.
HeadTaken(F, I, i, G) ==
  /\ F \in [I -> Seq(Job)] /\ i \in I /\ F[i] # <<>>
  /\ G = [F EXCEPT ![i] = Tail(F[i])]

\* Taking a head takes that job, and it alone, out of the lines.
LEMMA TakeHead ==
  ASSUME NEW I, NEW F, NEW i, NEW G, HeadTaken(F, I, i, G), NoRepeat(F, I)
  PROVE  /\ NoRepeat(G, I)
         /\ Head(F[i]) \in InLines(F, I)
         /\ InLines(G, I) = InLines(F, I) \ {Head(F[i])}
<1> DEFINE s == Tail(F[i])
           h == Head(F[i])
<1>1. F[i] \in Seq(Job) /\ F[i] # <<>> /\ AllDifferent(F[i])
  BY DEF HeadTaken, NoRepeat
<1>2. h \in Range(F[i]) /\ Range(s) = Range(F[i]) \ {h} /\ AllDifferent(s)
  BY <1>1, TailOfLine
<1>3. Range(F[i]) \subseteq InLines(F, I)
  BY DEF InLines, HeadTaken
<1>4. Replaced(F, I, i, s, G)
  <2> HIDE DEF h
  <2>1. Range(s) \cap (InLines(F, I) \ Range(F[i])) = {}
    BY <1>2
  <2>2. QED BY <1>2, <2>1 DEF Replaced, HeadTaken
<1> HIDE DEF s, h
<1>5. /\ NoRepeat(G, I)
      /\ InLines(G, I) = (InLines(F, I) \ Range(F[i])) \cup Range(s)
  BY <1>4, ReplaceLine
<1>6. InLines(G, I) = InLines(F, I) \ {h} /\ h \in InLines(F, I)
  BY <1>2, <1>3, <1>5
<1>7. QED BY <1>5, <1>6 DEF h

\* G is F with the job j, new to its lines, at the end of line i.
LastAdded(F, I, i, j, G) ==
  /\ F \in [I -> Seq(Job)] /\ i \in I
  /\ j \in Job /\ j \notin InLines(F, I)
  /\ G = [F EXCEPT ![i] = Append(F[i], j)]

\* Adding a job last brings that job, and it alone, into the lines.
LEMMA AddLast ==
  ASSUME NEW I, NEW F, NEW i, NEW j, NEW G, LastAdded(F, I, i, j, G),
         NoRepeat(F, I)
  PROVE  NoRepeat(G, I) /\ InLines(G, I) = InLines(F, I) \cup {j}
<1> DEFINE s == Append(F[i], j)
<1>1. /\ F[i] \in Seq(Job) /\ AllDifferent(F[i])
      /\ j \in Job /\ j \notin InLines(F, I)
  BY DEF LastAdded, NoRepeat
<1>2. Range(F[i]) \subseteq InLines(F, I)
  BY DEF InLines, LastAdded
<1>3. Range(s) = Range(F[i]) \cup {j} /\ AllDifferent(s)
  BY <1>1, <1>2, AppendToLine
<1>4. Replaced(F, I, i, s, G)
  <2>1. G = [F EXCEPT ![i] = s] /\ F \in [I -> Seq(Job)] /\ i \in I
    BY DEF LastAdded
  <2> HIDE DEF s
  <2>2. Range(s) \cap (InLines(F, I) \ Range(F[i])) = {}
    BY <1>1, <1>3
  <2>3. QED BY <1>3, <2>1, <2>2 DEF Replaced
<1> HIDE DEF s
<1>5. /\ NoRepeat(G, I)
      /\ InLines(G, I) = (InLines(F, I) \ Range(F[i])) \cup Range(s)
  BY <1>4, ReplaceLine
<1>6. QED BY <1>2, <1>3, <1>5

\* Empty lines hold nothing.
LEMMA EmptyLines ==
  ASSUME NEW I, NEW F, F = [i \in I |-> <<>>]
  PROVE  NoRepeat(F, I) /\ InLines(F, I) = {}
<1>1. \A i \in I : F[i] = <<>> /\ Range(F[i]) = {} /\ AllDifferent(F[i])
  BY DEF Range, AllDifferent
<1>2. QED BY <1>1 DEF NoRepeat, InLines

-----------------------------------------------------------------------------
(* Every job in one place.                                                 *)

\* Seven sets of which no two have a job in common.
Apart(pe, qu, ba, su, cl, pr, dr) ==
  /\ pe \cap (qu \cup ba \cup su \cup cl \cup pr \cup dr) = {}
  /\ qu \cap (ba \cup su \cup cl \cup pr \cup dr) = {}
  /\ ba \cap (su \cup cl \cup pr \cup dr) = {}
  /\ su \cap (cl \cup pr \cup dr) = {}
  /\ cl \cap (pr \cup dr) = {}
  /\ pr \cap dr = {}

\* A flushing thread whose step may release jobs has none left to dispatch.
FlushersFree ==
  /\ verdict # <<>> => batch["tick"] = <<>>
  /\ saving = "power" => batch["command"] = <<>>

\* Every job is in exactly one of the seven places.
Partitioned ==
  /\ pending \cup Queued \cup Batched \cup Submitted \cup cleared
       \cup printed \cup dropped = Job
  /\ Apart(pending, Queued, Batched, Submitted, cleared, printed, dropped)

\* No job is twice in a line or in two lines of a kind.
LinesInv ==
  /\ NoRepeat(queue, Channel)
  /\ NoRepeat(batch, Thread)
  /\ NoRepeat(work, Executor)

\* The strengthening that makes EachJobOnce inductive: a release overwrites the
\* batch of its thread, so that batch must be empty whenever it may happen.
JobsInv == Partitioned /\ LinesInv /\ FlushersFree

\* The jobs lost by a full line, and the line that is left.
LEMMA EnqueueEffect ==
  ASSUME NEW q \in Seq(Job), NEW j \in Job, AllDifferent(q), j \notin Range(q)
  PROVE  /\ AllDifferent(Enqueue(q, j))
         /\ Range(Enqueue(q, j)) = (Range(q) \ Lost(q)) \cup {j}
         /\ Lost(q) \subseteq Range(q)
<1>1. CASE Len(q) >= MaxQueue
  <2>1. q # <<>>
    BY <1>1, GateAssumption, Len(<<>>) = 0
  <2>2. Tail(q) \in Seq(Job)
    BY <2>1, HeadTailProperties
  <2>3. /\ Head(q) \in Range(q) /\ Range(Tail(q)) = Range(q) \ {Head(q)}
        /\ AllDifferent(Tail(q))
    BY <2>1, TailOfLine
  <2>4. /\ Range(Append(Tail(q), j)) = Range(Tail(q)) \cup {j}
        /\ AllDifferent(Append(Tail(q), j))
    BY <2>2, <2>3, AppendToLine
  <2>5. Enqueue(q, j) = Append(Tail(q), j) /\ Lost(q) = {Head(q)}
    BY <1>1 DEF Enqueue, Lost
  <2>6. QED BY <2>3, <2>4, <2>5
<1>2. CASE ~(Len(q) >= MaxQueue)
  <2>1. Enqueue(q, j) = Append(q, j) /\ Lost(q) = {}
    BY <1>2 DEF Enqueue, Lost
  <2>2. QED BY <2>1, AppendToLine
<1>3. QED BY <1>1, <1>2

\* Deferring queues the newcomer and loses what a full queue drops.
LEMMA DeferEffect ==
  ASSUME GateInv, JobsInv, NEW j \in Job, Defer(j)
  PROVE  LET lost == Lost(queue[ChannelOf[j]]) IN
         /\ NoRepeat(queue', Channel)
         /\ lost \subseteq Queued
         /\ Queued' = (Queued \ lost) \cup {j}
<1> DEFINE c == ChannelOf[j]
           q == queue[c]
           s == Enqueue(q, j)
           G == [queue EXCEPT ![c] = s]
<1>1. queue \in [Channel -> Seq(Job)] /\ c \in Channel
  BY GateAssumption DEF GateInv, TypeOK
<1>2. q \in Seq(Job) /\ AllDifferent(q) /\ Range(q) \subseteq Queued
  BY <1>1 DEF JobsInv, LinesInv, NoRepeat, Queued
<1>3. j \notin Queued
  BY DEF Defer, JobsInv, Partitioned, Apart
<1>4. /\ AllDifferent(s) /\ Range(s) = (Range(q) \ Lost(q)) \cup {j}
      /\ Lost(q) \subseteq Range(q)
  BY <1>2, <1>3, EnqueueEffect
<1>5. Queued = InLines(queue, Channel)
  BY DEF Queued, InLines
<1>6. queue' = G
  BY DEF Defer
<1>7. Queued' = InLines(G, Channel)
  BY <1>6 DEF Queued, InLines
<1>8. \A i, k \in Channel : i # k => Range(queue[i]) \cap Range(queue[k]) = {}
  BY DEF JobsInv, LinesInv, NoRepeat
<1> HIDE DEF s
<1>9. Range(s) \cap (InLines(queue, Channel) \ Range(queue[c])) = {}
  BY <1>3, <1>4, <1>5
<1>10. Replaced(queue, Channel, c, s, G)
  BY <1>1, <1>4, <1>9 DEF Replaced
<1> HIDE DEF G, q
<1>11. /\ NoRepeat(G, Channel)
       /\ InLines(G, Channel)
            = (InLines(queue, Channel) \ Range(queue[c])) \cup Range(s)
  BY <1>10, ReplaceLine DEF JobsInv, LinesInv
<1>12. QED
  BY <1>2, <1>3, <1>4, <1>5, <1>6, <1>7, <1>11 DEF q

\* A dispatched job leaves the batch to be printed or to join an executor.
LEMMA DispatchEffect ==
  ASSUME GateInv, JobsInv, NEW t \in Thread, Dispatch(t)
  PROVE  LET h == Head(batch[t]) IN
         /\ NoRepeat(batch', Thread) /\ NoRepeat(work', Executor)
         /\ h \in Batched
         /\ Batched' = Batched \ {h}
         /\ \/ Submitted' = Submitted /\ printed' = printed \cup {h}
            \/ Submitted' = Submitted \cup {h} /\ printed' = printed
<1> DEFINE h == Head(batch[t])
<1>1. HeadTaken(batch, Thread, t, batch')
  BY DEF GateInv, TypeOK, Dispatch, HeadTaken
<1>2. /\ Batched = InLines(batch, Thread) /\ Batched' = InLines(batch', Thread)
      /\ Submitted = InLines(work, Executor)
      /\ Submitted' = InLines(work', Executor)
  BY DEF Batched, Submitted, InLines
<1>3. NoRepeat(batch, Thread) /\ NoRepeat(work, Executor)
  BY DEF JobsInv, LinesInv
<1>4. NoRepeat(batch', Thread) /\ h \in Batched /\ Batched' = Batched \ {h}
  BY <1>1, <1>2, <1>3, TakeHead
<1>5. h \in Job /\ h \notin Submitted
  BY <1>4 DEF JobsInv, Partitioned, Apart
<1>6. CASE inline
  <2>1. work' = work /\ printed' = printed \cup {h}
    BY <1>6 DEF Dispatch
  <2> HIDE DEF h
  <2>2. QED BY <1>2, <1>3, <1>4, <2>1 DEF h
<1>7. CASE ~inline
  <2>1. work' = [work EXCEPT ![executors] = Append(work[executors], h)]
        /\ printed' = printed
    BY <1>7 DEF Dispatch
  <2>2. work \in [Executor -> Seq(Job)] /\ executors \in Executor
    BY DEF GateInv, TypeOK
  <2> HIDE DEF h
  <2>3. LastAdded(work, Executor, executors, h, work')
    BY <1>2, <1>5, <2>1, <2>2 DEF LastAdded
  <2>4. NoRepeat(work', Executor) /\ Submitted' = Submitted \cup {h}
    BY <1>2, <1>3, <2>3, AddLast
  <2>5. QED BY <1>4, <2>1, <2>4 DEF h
<1>8. QED BY <1>6, <1>7

\* A worker's job leaves its executor's line.
LEMMA PrintSubmittedEffect ==
  ASSUME GateInv, JobsInv, NEW e \in Executor, PrintSubmitted(e)
  PROVE  LET h == Head(work[e]) IN
         /\ NoRepeat(work', Executor)
         /\ h \in Submitted
         /\ Submitted' = Submitted \ {h}
<1>1. HeadTaken(work, Executor, e, work')
  BY DEF GateInv, TypeOK, PrintSubmitted, HeadTaken
<1>2. /\ Submitted = InLines(work, Executor)
      /\ Submitted' = InLines(work', Executor)
  BY DEF Submitted, InLines
<1>3. NoRepeat(work, Executor)
  BY DEF JobsInv, LinesInv
<1>4. QED BY <1>1, <1>2, <1>3, TakeHead

\* A release puts all that was queued into the empty batch of the thread.
LEMMA ReleaseEffect ==
  ASSUME GateInv, JobsInv, NEW t \in Thread, batch[t] = <<>>,
         Release(t, TRUE)
  PROVE  /\ NoRepeat(queue', Channel) /\ NoRepeat(batch', Thread)
         /\ Queued' = {}
         /\ Batched' = Batched \cup Queued
<1> DEFINE a == queue["acars"]
           b == queue["simbrief"]
           s == a \o b
           G == [batch EXCEPT ![t] = s]
           E == [c \in Channel |-> <<>>]
<1>1. /\ queue \in [Channel -> Seq(Job)] /\ batch \in [Thread -> Seq(Job)]
      /\ a \in Seq(Job) /\ b \in Seq(Job)
  BY DEF GateInv, TypeOK, Channel
<1>2. batch' = G /\ queue' = E
  BY DEF Release
<1>3. Queued = Range(a) \cup Range(b)
  BY DEF Queued, Channel
<1>4. AllDifferent(a) /\ AllDifferent(b) /\ Range(a) \cap Range(b) = {}
  BY DEF JobsInv, LinesInv, NoRepeat, Channel
<1>5. Range(s) = Range(a) \cup Range(b) /\ AllDifferent(s)
  BY <1>1, <1>4, JoinLines
<1>6. NoRepeat(E, Channel) /\ InLines(E, Channel) = {}
  BY EmptyLines
<1>7. Batched = InLines(batch, Thread) /\ Batched' = InLines(G, Thread)
  BY <1>2 DEF Batched, InLines
<1>8. Queued' = InLines(E, Channel)
  BY <1>2 DEF Queued, InLines
<1>9. Range(batch[t]) = {}
  BY DEF Range
<1>10. Range(s) \cap InLines(batch, Thread) = {}
  BY <1>3, <1>5, <1>7 DEF JobsInv, Partitioned, Apart
<1> HIDE DEF s, a, b
<1>11. Replaced(batch, Thread, t, s, G)
  BY <1>1, <1>5, <1>10 DEF Replaced
<1> HIDE DEF G, E
<1>12. /\ NoRepeat(G, Thread)
       /\ InLines(G, Thread)
            = (InLines(batch, Thread) \ Range(batch[t])) \cup Range(s)
  BY <1>11, ReplaceLine DEF JobsInv, LinesInv
<1>13. QED
  BY <1>2, <1>3, <1>5, <1>6, <1>7, <1>8, <1>9, <1>12

-----------------------------------------------------------------------------
\* A step that moves no job keeps the invariant about them.
LEMMA SameJobsInv ==
  ASSUME JobsInv, FlushersFree',
         UNCHANGED <<queue, batch, work, pending, cleared, printed, dropped>>
  PROVE  JobsInv'
<1>1. Queued' = Queued /\ Batched' = Batched /\ Submitted' = Submitted
  BY DEF Queued, Batched, Submitted
<1>2. Partitioned'
  BY <1>1 DEF JobsInv, Partitioned, Apart
<1>3. LinesInv'
  BY DEF JobsInv, LinesInv, NoRepeat
<1>4. QED BY <1>2, <1>3 DEF JobsInv

\* At first every job is still to be brought.
LEMMA InitJobsInv == Init => JobsInv
<1> SUFFICES ASSUME Init PROVE JobsInv
  OBVIOUS
<1>1. NoRepeat(queue, Channel) /\ InLines(queue, Channel) = {}
  BY EmptyLines DEF Init
<1>2. NoRepeat(batch, Thread) /\ InLines(batch, Thread) = {}
  BY EmptyLines DEF Init
<1>3. NoRepeat(work, Executor) /\ InLines(work, Executor) = {}
  BY EmptyLines DEF Init
<1>4. Queued = {} /\ Batched = {} /\ Submitted = {}
  BY <1>1, <1>2, <1>3 DEF Queued, Batched, Submitted, InLines
<1>5. Partitioned
  BY <1>4 DEF Init, Partitioned, Apart
<1>6. FlushersFree
  BY DEF Init, FlushersFree
<1>7. QED BY <1>1, <1>2, <1>3, <1>5, <1>6 DEF JobsInv, LinesInv

\* A deferred job is queued, and a dropped one is no longer.
LEMMA DeferJobsInv ==
  ASSUME GateInv, JobsInv, NEW j \in Job, Defer(j)
  PROVE  JobsInv'
<1> DEFINE lost == Lost(queue[ChannelOf[j]])
<1>1. /\ NoRepeat(queue', Channel) /\ lost \subseteq Queued
      /\ Queued' = (Queued \ lost) \cup {j}
  BY DeferEffect
<1>2. /\ pending' = pending \ {j} /\ j \in pending
      /\ dropped' = dropped \cup lost
      /\ UNCHANGED <<batch, work, cleared, printed, verdict, saving>>
  BY DEF Defer
<1> HIDE DEF lost
<1>3. Batched' = Batched /\ Submitted' = Submitted
  BY <1>2 DEF Batched, Submitted
<1>4. Partitioned'
  BY <1>1, <1>2, <1>3 DEF JobsInv, Partitioned, Apart
<1>5. QED
  BY <1>1, <1>2, <1>4 DEF JobsInv, LinesInv, FlushersFree, NoRepeat

\* A job that finds the gate open is cleared.
LEMMA RunNowJobsInv ==
  ASSUME JobsInv, NEW j \in Job, RunNow(j)
  PROVE  JobsInv'
<1>1. /\ pending' = pending \ {j} /\ j \in pending
      /\ cleared' = cleared \cup {j}
      /\ UNCHANGED <<queue, batch, work, printed, dropped, verdict, saving>>
  BY DEF RunNow
<1>2. Queued' = Queued /\ Batched' = Batched /\ Submitted' = Submitted
  BY <1>1 DEF Queued, Batched, Submitted
<1>3. Partitioned'
  BY <1>1, <1>2 DEF JobsInv, Partitioned, Apart
<1>4. QED BY <1>1, <1>3 DEF JobsInv, LinesInv, FlushersFree, NoRepeat

\* A cleared job prints.
LEMMA PrintClearedJobsInv ==
  ASSUME JobsInv, NEW j \in Job, PrintCleared(j)
  PROVE  JobsInv'
<1>1. /\ cleared' = cleared \ {j} /\ j \in cleared
      /\ printed' = printed \cup {j}
      /\ UNCHANGED <<queue, batch, work, pending, dropped, verdict, saving>>
  BY DEF PrintCleared
<1>2. Queued' = Queued /\ Batched' = Batched /\ Submitted' = Submitted
  BY <1>1 DEF Queued, Batched, Submitted
<1>3. Partitioned'
  BY <1>1, <1>2 DEF JobsInv, Partitioned, Apart
<1>4. QED BY <1>1, <1>3 DEF JobsInv, LinesInv, FlushersFree, NoRepeat

\* A dispatch empties no other batch and fills none.
LEMMA DispatchJobsInv ==
  ASSUME GateInv, JobsInv, NEW t \in Thread, Dispatch(t)
  PROVE  JobsInv'
<1> DEFINE h == Head(batch[t])
<1>1. /\ NoRepeat(batch', Thread) /\ NoRepeat(work', Executor)
      /\ h \in Batched
      /\ Batched' = Batched \ {h}
      /\ \/ Submitted' = Submitted /\ printed' = printed \cup {h}
         \/ Submitted' = Submitted \cup {h} /\ printed' = printed
  BY DispatchEffect
<1>2. UNCHANGED <<queue, pending, cleared, dropped, verdict, saving>>
  BY DEF Dispatch
<1>3. FlushersFree'
  <2>1. batch' = [batch EXCEPT ![t] = Tail(@)] /\ batch[t] # <<>>
    BY DEF Dispatch
  <2>2. \A u \in Thread : batch[u] = <<>> => batch'[u] = <<>>
    BY <2>1 DEF GateInv, TypeOK
  <2>3. "tick" \in Thread /\ "command" \in Thread
    BY DEF Thread
  <2>4. QED BY <1>2, <2>2, <2>3 DEF JobsInv, FlushersFree
<1> HIDE DEF h
<1>4. Queued' = Queued
  BY <1>2 DEF Queued
<1>5. Partitioned'
  BY <1>1, <1>2, <1>4 DEF JobsInv, Partitioned, Apart
<1>6. QED BY <1>1, <1>2, <1>3, <1>5 DEF JobsInv, LinesInv, NoRepeat

\* A submitted job prints.
LEMMA PrintSubmittedJobsInv ==
  ASSUME GateInv, JobsInv, NEW e \in Executor, PrintSubmitted(e)
  PROVE  JobsInv'
<1> DEFINE h == Head(work[e])
<1>1. /\ NoRepeat(work', Executor) /\ h \in Submitted
      /\ Submitted' = Submitted \ {h}
  BY PrintSubmittedEffect
<1>2. /\ printed' = printed \cup {h}
      /\ UNCHANGED <<queue, batch, pending, cleared, dropped, verdict, saving>>
  BY DEF PrintSubmitted
<1> HIDE DEF h
<1>3. Queued' = Queued /\ Batched' = Batched
  BY <1>2 DEF Queued, Batched
<1>4. Partitioned'
  BY <1>1, <1>2, <1>3 DEF JobsInv, Partitioned, Apart
<1>5. QED BY <1>1, <1>2, <1>4 DEF JobsInv, LinesInv, FlushersFree, NoRepeat

\* A release by a thread whose batch is empty moves the queued jobs; without a
\* release the lines stay.
LEMMA ReleaseJobsInv ==
  ASSUME GateInv, JobsInv, NEW t \in Thread, batch[t] = <<>>,
         NEW open \in BOOLEAN, Release(t, open), FlushersFree',
         UNCHANGED <<work, pending, cleared, printed, dropped>>
  PROVE  JobsInv'
<1>1. CASE open
  <2>1. /\ NoRepeat(queue', Channel) /\ NoRepeat(batch', Thread)
        /\ Queued' = {} /\ Batched' = Batched \cup Queued
    <3>1. Release(t, TRUE)
      BY <1>1
    <3>2. QED BY <3>1, ReleaseEffect
  <2>2. Submitted' = Submitted
    BY DEF Submitted
  <2>3. Partitioned'
    BY <2>1, <2>2 DEF JobsInv, Partitioned, Apart
  <2>4. QED BY <2>1, <2>3 DEF JobsInv, LinesInv, NoRepeat
<1>2. CASE ~open
  <2>1. queue' = queue /\ batch' = batch
    BY <1>2 DEF Release
  <2>2. QED BY <2>1, SameJobsInv
<1>3. QED BY <1>1, <1>2

\* The tick releases into its own batch, empty since it judged the sample.
LEMMA TickApplyJobsInv ==
  ASSUME GateInv, JobsInv, TickApply
  PROVE  JobsInv'
<1>1. /\ verdict # <<>> /\ verdict' = <<>> /\ saving' = saving
      /\ Release("tick", blocking /\ ~blocking')
      /\ UNCHANGED <<work, pending, cleared, printed, dropped>>
  BY DEF TickApply
<1>2. "tick" \in Thread /\ batch["tick"] = <<>>
  BY <1>1 DEF Thread, JobsInv, FlushersFree
<1>3. saving' = "power" => batch'["command"] = <<>>
  <2>1. \/ batch' = batch
        \/ batch' = [batch EXCEPT !["tick"] = queue["acars"] \o queue["simbrief"]]
    BY <1>1 DEF Release
  <2>2. batch'["command"] = batch["command"]
    BY <2>1 DEF GateInv, TypeOK, Thread
  <2>3. QED BY <1>1, <2>2 DEF JobsInv, FlushersFree
<1>4. FlushersFree'
  BY <1>1, <1>3 DEF FlushersFree
<1>5. (blocking /\ ~blocking') \in BOOLEAN
  OBVIOUS
<1>6. QED BY <1>1, <1>2, <1>4, <1>5, ReleaseJobsInv

\* The settings save releases into its own batch, empty since it began.
LEMMA SetRequirePoweredJobsInv ==
  ASSUME GateInv, JobsInv, NEW on \in PowerSettings, SetRequirePowered(on)
  PROVE  JobsInv'
<1>1. /\ saving = "power" /\ saving' = "stack" /\ verdict' = verdict
      /\ HoldAfterSetting(on)
      /\ UNCHANGED <<work, pending, cleared, printed, dropped>>
  BY DEF SetRequirePowered
<1>2. "command" \in Thread /\ batch["command"] = <<>>
  BY <1>1 DEF Thread, JobsInv, FlushersFree
<1>3. CASE on
  <2>1. queue' = queue /\ batch' = batch
    BY <1>1, <1>3 DEF HoldAfterSetting
  <2>2. FlushersFree'
    BY <1>1, <2>1 DEF JobsInv, FlushersFree
  <2>3. QED BY <1>1, <2>1, <2>2, SameJobsInv
<1>4. CASE ~on
  <2>1. Release("command", blocking /\ ~blocking')
    BY <1>1, <1>4 DEF HoldAfterSetting
  <2>2. \/ batch' = batch
        \/ batch' = [batch EXCEPT !["command"] =
                                      queue["acars"] \o queue["simbrief"]]
    BY <2>1 DEF Release
  <2>3. batch'["tick"] = batch["tick"]
    BY <2>2 DEF GateInv, TypeOK, Thread
  <2>4. FlushersFree'
    BY <1>1, <2>3 DEF JobsInv, FlushersFree
  <2>5. (blocking /\ ~blocking') \in BOOLEAN
    OBVIOUS
  <2>6. QED BY <1>1, <1>2, <2>1, <2>4, <2>5, ReleaseJobsInv
<1>5. QED BY <1>3, <1>4

\* Every step keeps every job in one place.
LEMMA NextJobsInv == GateInv /\ JobsInv /\ [Next]_vars => JobsInv'
<1> SUFFICES ASSUME GateInv, JobsInv, [Next]_vars PROVE JobsInv'
  OBVIOUS
<1>1. ASSUME NEW j \in Job, Defer(j) PROVE JobsInv'
  BY <1>1, DeferJobsInv
<1>2. ASSUME NEW j \in Job, RunNow(j) PROVE JobsInv'
  BY <1>2, RunNowJobsInv
<1>3. ASSUME NEW j \in Job, PrintCleared(j) PROVE JobsInv'
  BY <1>3, PrintClearedJobsInv
<1>4. ASSUME NEW t \in Thread, Dispatch(t) PROVE JobsInv'
  BY <1>4, DispatchJobsInv
<1>5. ASSUME NEW e \in Executor, PrintSubmitted(e) PROVE JobsInv'
  BY <1>5, PrintSubmittedJobsInv
<1>6. CASE TickJudge
  <2>1. FlushersFree' /\ UNCHANGED jobs
    BY <1>6 DEF TickJudge, JobsInv, FlushersFree, jobs
  <2>2. QED BY <2>1, SameJobsInv DEF jobs
<1>7. CASE TickApply
  BY <1>7, TickApplyJobsInv
<1>8. ASSUME NEW limit \in AglLimits, SetThresholds(limit) PROVE JobsInv'
  <2>1. FlushersFree' /\ UNCHANGED jobs
    BY <1>8 DEF SetThresholds, JobsInv, FlushersFree, jobs
  <2>2. QED BY <2>1, SameJobsInv DEF jobs
<1>9. ASSUME NEW on \in PowerSettings, SetRequirePowered(on) PROVE JobsInv'
  BY <1>9, SetRequirePoweredJobsInv
<1>10. ASSUME NEW fake \in BOOLEAN, RebuildPrinter(fake) PROVE JobsInv'
  <2>1. FlushersFree' /\ UNCHANGED jobs
    BY <1>10 DEF RebuildPrinter, JobsInv, FlushersFree, jobs
  <2>2. QED BY <2>1, SameJobsInv DEF jobs
<1>11. CASE NewSample \/ Elapse \/ UNCHANGED vars
  <2>1. UNCHANGED <<jobs, verdict, saving>>
    BY <1>11 DEF NewSample, Elapse, vars
  <2>2. QED BY <2>1, SameJobsInv DEF jobs, JobsInv, FlushersFree
<1>12. QED
  BY <1>1, <1>2, <1>3, <1>4, <1>5, <1>6, <1>7, <1>8, <1>9, <1>10, <1>11
     DEF Next

\* The seven places of EachJobOnce, pairwise.
LEMMA SevenApart ==
  ASSUME NEW pe, NEW qu, NEW ba, NEW su, NEW cl, NEW pr, NEW dr,
         Apart(pe, qu, ba, su, cl, pr, dr)
  PROVE  PairwiseDisjoint(<<pe, qu, ba, su, cl, pr, dr>>)
<1> DEFINE s == <<pe, qu, ba, su, cl, pr, dr>>
<1>1. /\ DOMAIN s = 1 .. 7
      /\ s[1] = pe /\ s[2] = qu /\ s[3] = ba /\ s[4] = su /\ s[5] = cl
      /\ s[6] = pr /\ s[7] = dr
  OBVIOUS
<1> HIDE DEF s
<1>2. \A a, b \in 1 .. 7 : a < b => s[a] \cap s[b] = {}
  <2> SUFFICES ASSUME NEW a \in 1 .. 7, NEW b \in 1 .. 7, a < b,
                      NEW x \in s[a] \cap s[b]
               PROVE  FALSE
    OBVIOUS
  <2>1. \/ a = 1 \/ a = 2 \/ a = 3 \/ a = 4 \/ a = 5 \/ a = 6
    OBVIOUS
  <2>2. \/ b = 2 \/ b = 3 \/ b = 4 \/ b = 5 \/ b = 6 \/ b = 7
    OBVIOUS
  <2>3. QED BY <1>1, <2>1, <2>2 DEF Apart
<1>3. \A a, b \in 1 .. 7 : a # b => a < b \/ b < a
  OBVIOUS
<1>4. \A a, b \in 1 .. 7 : a # b => s[a] \cap s[b] = {}
  BY <1>2, <1>3
<1>5. QED BY <1>1, <1>4 DEF PairwiseDisjoint, s

\* The invariant gives the property in the words of SterileGate.
LEMMA JobsInvSaysOnce == JobsInv => EachJobOnce
<1> SUFFICES ASSUME JobsInv PROVE EachJobOnce
  OBVIOUS
<1>1. PairwiseDisjoint(<<pending, Queued, Batched, Submitted, cleared,
                         printed, dropped>>)
  BY SevenApart DEF JobsInv, Partitioned
<1>2. /\ PairwiseDisjoint([c \in Channel |-> Range(queue[c])])
      /\ \A c \in Channel : AllDifferent(queue[c])
  BY DEF JobsInv, LinesInv, NoRepeat, PairwiseDisjoint
<1>3. /\ PairwiseDisjoint([t \in Thread |-> Range(batch[t])])
      /\ \A t \in Thread : AllDifferent(batch[t])
  BY DEF JobsInv, LinesInv, NoRepeat, PairwiseDisjoint
<1>4. /\ PairwiseDisjoint([e \in Executor |-> Range(work[e])])
      /\ \A e \in Executor : AllDifferent(work[e])
  BY DEF JobsInv, LinesInv, NoRepeat, PairwiseDisjoint
<1>5. QED BY <1>1, <1>2, <1>3, <1>4 DEF JobsInv, Partitioned, EachJobOnce

\* The inductive invariant about the jobs holds of the gate.
THEOREM JobsInvariant == Spec => []JobsInv
BY GateInvariant, InitJobsInv, NextJobsInv, PTL DEF Spec

\* Every job is in one place and one only, for every number of jobs, channels'
\* limits and print stacks: the hand-over of the queues outside the lock neither
\* loses a strip nor prints one twice (sterile.py _dispatch_flush).
THEOREM NoJobLostOrRepeated == Spec => []EachJobOnce
BY JobsInvariant, JobsInvSaysOnce, PTL

-----------------------------------------------------------------------------
(* The gate implements deferred printing.                                  *)

\* The gate starts as the abstract one does.
LEMMA InitPromise == Init => Promise!Init
<1> SUFFICES ASSUME Init PROVE Promise!Init
  OBVIOUS
<1>1. InLines(batch, Thread) = {} /\ InLines(work, Executor) = {}
  BY EmptyLines DEF Init
<1>2. Batched = {} /\ Submitted = {}
  BY <1>1 DEF Batched, Submitted, InLines
<1>3. blocking \in BOOLEAN
  BY GateAssumption DEF Init, InitHold
<1>4. QED BY <1>2, <1>3 DEF Init, Promise!Init

\* What the abstract gate sees stays.
LEMMA PromiseStutter ==
  ASSUME UNCHANGED <<blocking, queue, batch, work, pending, cleared, printed,
                     dropped>>
  PROVE  UNCHANGED Promise!vars
<1>1. Batched' = Batched /\ Submitted' = Submitted
  BY DEF Batched, Submitted
<1>2. QED BY <1>1 DEF Promise!vars

\* A deferred job is held.
LEMMA DeferHolds ==
  ASSUME GateInv, NEW j \in Job, Defer(j)
  PROVE  Promise!Hold(j)
<1> DEFINE c == ChannelOf[j]
<1>1. c \in Channel /\ queue \in [Channel -> Seq(Job)] /\ MaxQueue \in Nat
  BY GateAssumption DEF GateInv, TypeOK
<1>2. Len(queue[c]) \in Nat
  BY <1>1
<1>3. Batched' = Batched /\ Submitted' = Submitted
  BY DEF Defer, Batched, Submitted
<1>4. /\ blocking /\ j \in pending /\ pending' = pending \ {j}
      /\ queue' = [queue EXCEPT ![c] = Enqueue(@, j)]
      /\ dropped' = dropped \cup Lost(queue[c])
      /\ UNCHANGED <<blocking, cleared, printed>>
  BY DEF Defer, hold
<1>5. CASE Len(queue[c]) < MaxQueue
  <2>1. ~(Len(queue[c]) >= MaxQueue)
    BY <1>1, <1>2, <1>5
  <2>2. Enqueue(queue[c], j) = Append(queue[c], j) /\ Lost(queue[c]) = {}
    BY <2>1 DEF Enqueue, Lost
  <2>3. QED BY <1>3, <1>4, <1>5, <2>2 DEF Promise!Hold
<1>6. CASE ~(Len(queue[c]) < MaxQueue)
  <2>1. Len(queue[c]) >= MaxQueue
    BY <1>1, <1>2, <1>6
  <2>2. /\ Enqueue(queue[c], j) = Append(Tail(queue[c]), j)
        /\ Lost(queue[c]) = {Head(queue[c])}
    BY <2>1 DEF Enqueue, Lost
  <2>3. QED BY <1>3, <1>4, <1>6, <2>2 DEF Promise!Hold
<1>7. QED BY <1>5, <1>6

\* A job that finds the gate open passes it.
LEMMA RunNowPasses ==
  ASSUME NEW j \in Job, RunNow(j)
  PROVE  Promise!Pass(j)
<1>1. Batched' = Batched /\ Submitted' = Submitted
  BY DEF RunNow, Batched, Submitted
<1>2. QED BY <1>1 DEF RunNow, hold, Promise!Pass

\* A cleared job that prints was released, and is no more.
LEMMA PrintClearedEmerges ==
  ASSUME JobsInv, NEW j \in Job, PrintCleared(j)
  PROVE  Promise!Emerge(j)
<1>1. Batched' = Batched /\ Submitted' = Submitted
  BY DEF PrintCleared, Batched, Submitted
<1>2. j \in cleared /\ j \notin Batched /\ j \notin Submitted
  BY DEF PrintCleared, JobsInv, Partitioned, Apart
<1>3. QED BY <1>1, <1>2 DEF PrintCleared, hold, Promise!Emerge

\* A dispatched job is printed by the flushing thread, or is still on its way.
LEMMA DispatchKeeps ==
  ASSUME GateInv, JobsInv, NEW t \in Thread, Dispatch(t)
  PROVE  (\E j \in Job : Promise!Emerge(j)) \/ UNCHANGED Promise!vars
<1> DEFINE h == Head(batch[t])
<1>1. /\ h \in Batched /\ Batched' = Batched \ {h}
      /\ \/ Submitted' = Submitted /\ printed' = printed \cup {h}
         \/ Submitted' = Submitted \cup {h} /\ printed' = printed
  BY DispatchEffect
<1>2. UNCHANGED <<blocking, queue, pending, cleared, dropped>>
  BY DEF Dispatch, hold
<1> HIDE DEF h
<1>3. h \in Job /\ h \notin cleared /\ h \notin Submitted
  BY <1>1 DEF JobsInv, Partitioned, Apart
<1>4. CASE Submitted' = Submitted /\ printed' = printed \cup {h}
  <2>1. Promise!Emerge(h)
    BY <1>1, <1>2, <1>3, <1>4 DEF Promise!Emerge
  <2>2. QED BY <1>3, <2>1
<1>5. CASE Submitted' = Submitted \cup {h} /\ printed' = printed
  BY <1>1, <1>2, <1>5 DEF Promise!vars
<1>6. QED BY <1>1, <1>4, <1>5

\* So was a submitted one.
LEMMA PrintSubmittedEmerges ==
  ASSUME GateInv, JobsInv, NEW e \in Executor, PrintSubmitted(e)
  PROVE  \E j \in Job : Promise!Emerge(j)
<1> DEFINE h == Head(work[e])
<1>1. h \in Submitted /\ Submitted' = Submitted \ {h}
  BY PrintSubmittedEffect
<1>2. /\ printed' = printed \cup {h}
      /\ UNCHANGED <<blocking, queue, batch, pending, cleared, dropped>>
  BY DEF PrintSubmitted, hold
<1> HIDE DEF h
<1>3. h \in Job /\ h \notin cleared /\ h \notin Batched
  BY <1>1 DEF JobsInv, Partitioned, Apart
<1>4. Batched' = Batched
  BY <1>2 DEF Batched
<1>5. Promise!Emerge(h)
  BY <1>1, <1>2, <1>3, <1>4 DEF Promise!Emerge
<1>6. QED BY <1>3, <1>5

\* A step that decides anew whether the gate is shut opens it and releases
\* all that waits, shuts it, or leaves what the caller sees.
LEMMA ReleaseKeeps ==
  ASSUME GateInv, JobsInv, NEW t \in Thread, batch[t] = <<>>,
         blocking' \in BOOLEAN, Release(t, blocking /\ ~blocking'),
         UNCHANGED <<work, pending, cleared, printed, dropped>>
  PROVE  Promise!Open \/ Promise!Shut \/ UNCHANGED Promise!vars
<1>1. Submitted' = Submitted
  BY DEF Submitted
<1>2. blocking \in BOOLEAN
  BY DEF GateInv, TypeOK
<1>3. CASE blocking /\ ~blocking'
  <2>1. Release(t, TRUE)
    BY <1>3
  <2>2. Batched' = Batched \cup Queued
    BY <2>1, ReleaseEffect
  <2>3. queue' = [c \in Channel |-> <<>>]
    BY <2>1 DEF Release
  <2>4. Queued = UNION {Promise!Range(queue[c]) : c \in Channel}
    BY DEF Queued, Range, Promise!Range
  <2>5. Promise!Open
    BY <1>1, <1>3, <2>2, <2>3, <2>4 DEF Promise!Open
  <2>6. QED BY <2>5
<1>4. CASE ~(blocking /\ ~blocking')
  <2>1. queue' = queue /\ batch' = batch
    BY <1>4 DEF Release
  <2>2. Batched' = Batched
    BY <2>1 DEF Batched
  <2>3. CASE blocking' = blocking
    BY <1>1, <2>1, <2>2, <2>3 DEF Promise!vars
  <2>4. CASE ~blocking /\ blocking'
    BY <1>1, <2>1, <2>2, <2>4 DEF Promise!Shut
  <2>5. QED BY <1>2, <1>4, <2>3, <2>4
<1>5. QED BY <1>3, <1>4

\* The tick's verdict is an opening, a shutting or nothing to the callers.
LEMMA TickApplyKeeps ==
  ASSUME GateInv, JobsInv, TickApply
  PROVE  Promise!Open \/ Promise!Shut \/ UNCHANGED Promise!vars
<1>1. "tick" \in Thread /\ batch["tick"] = <<>>
  BY DEF TickApply, Thread, JobsInv, FlushersFree
<1>2. /\ Release("tick", blocking /\ ~blocking')
      /\ UNCHANGED <<work, pending, cleared, printed, dropped>>
  BY DEF TickApply
<1>3. blocking' \in BOOLEAN
  BY TickApplyGateInv DEF GateInv, TypeOK
<1>4. QED BY <1>1, <1>2, <1>3, ReleaseKeeps

\* So is a save of "only when powered".
LEMMA SetRequirePoweredKeeps ==
  ASSUME GateInv, JobsInv, NEW on \in PowerSettings, SetRequirePowered(on)
  PROVE  Promise!Open \/ Promise!Shut \/ UNCHANGED Promise!vars
<1>1. "command" \in Thread /\ batch["command"] = <<>>
  BY DEF SetRequirePowered, Thread, JobsInv, FlushersFree
<1>2. /\ HoldAfterSetting(on)
      /\ UNCHANGED <<work, pending, cleared, printed, dropped>>
  BY DEF SetRequirePowered
<1>3. blocking' \in BOOLEAN
  BY SetRequirePoweredGateInv DEF GateInv, TypeOK
<1>4. Release("command", blocking /\ ~blocking')
  <2>1. CASE on
    <3>1. UNCHANGED <<queue, batch>> /\ (blocking' \/ blocking' = blocking)
      BY <1>2, <2>1 DEF HoldAfterSetting
    <3>2. ~(blocking /\ ~blocking')
      BY <3>1
    <3>3. QED BY <3>1, <3>2 DEF Release
  <2>2. CASE ~on
    BY <1>2, <2>2 DEF HoldAfterSetting
  <2>3. QED BY <2>1, <2>2
<1>5. QED BY <1>1, <1>2, <1>3, <1>4, ReleaseKeeps

\* Every step of the gate is a step of deferred printing or changes nothing
\* that its callers see.
LEMMA NextPromise ==
  GateInv /\ JobsInv /\ [Next]_vars => [Promise!Next]_(Promise!vars)
<1> SUFFICES ASSUME GateInv, JobsInv, [Next]_vars
             PROVE  Promise!Next \/ UNCHANGED Promise!vars
  OBVIOUS
<1> DEFINE Kept == Promise!Next \/ UNCHANGED Promise!vars
<1>1. ASSUME NEW j \in Job, Defer(j) PROVE Kept
  BY <1>1, DeferHolds DEF Promise!Next
<1>2. ASSUME NEW j \in Job, RunNow(j) PROVE Kept
  BY <1>2, RunNowPasses DEF Promise!Next
<1>3. ASSUME NEW j \in Job, PrintCleared(j) PROVE Kept
  BY <1>3, PrintClearedEmerges DEF Promise!Next
<1>4. ASSUME NEW t \in Thread, Dispatch(t) PROVE Kept
  BY <1>4, DispatchKeeps DEF Promise!Next
<1>5. ASSUME NEW e \in Executor, PrintSubmitted(e) PROVE Kept
  BY <1>5, PrintSubmittedEmerges DEF Promise!Next
<1>6. CASE TickApply
  BY <1>6, TickApplyKeeps DEF Promise!Next
<1>7. ASSUME NEW on \in PowerSettings, SetRequirePowered(on) PROVE Kept
  BY <1>7, SetRequirePoweredKeeps DEF Promise!Next
<1>8. ASSUME UNCHANGED <<blocking, jobs>> PROVE Kept
  BY <1>8, PromiseStutter DEF jobs
<1>9. CASE TickJudge \/ NewSample \/ Elapse \/ UNCHANGED vars
  BY <1>8, <1>9 DEF TickJudge, NewSample, Elapse, vars, hold
<1>10. ASSUME NEW limit \in AglLimits, SetThresholds(limit) PROVE Kept
  BY <1>8, <1>10 DEF SetThresholds, hold
<1>11. ASSUME NEW fake \in BOOLEAN, RebuildPrinter(fake) PROVE Kept
  BY <1>8, <1>11 DEF RebuildPrinter, hold
<1>12. QED
  BY <1>1, <1>2, <1>3, <1>4, <1>5, <1>6, <1>7, <1>9, <1>10, <1>11 DEF Next

\* The gate with its tick, settings saves and print stacks implements
\* DeferredPrinting: whatever the interleaving, a job passes or waits, opening
\* releases all that waits, and a released job is printed once.
THEOREM GateKeepsPromise == Spec => KeepsPromise
BY InitPromise, NextPromise, GateInvariant, JobsInvariant, PTL
   DEF Spec, KeepsPromise, Promise!Spec

-----------------------------------------------------------------------------
(* The order of a channel's line, while no settings save replaces a stack.  *)

Has(s, j) == \E a \in DOMAIN s : s[a] = j
Precedes(s, j, k) == \E a, b \in DOMAIN s : a < b /\ s[a] = j /\ s[b] = k

\* What comes before what in two lines, one behind the other.
LEMMA JoinOrder ==
  ASSUME NEW p \in Seq(Job), NEW q \in Seq(Job), NEW j, NEW k
  PROVE  /\ p \o q \in Seq(Job)
         /\ Has(p \o q, j) <=> Has(p, j) \/ Has(q, j)
         /\ Precedes(p \o q, j, k) <=>
              Precedes(p, j, k) \/ Precedes(q, j, k) \/ (Has(p, j) /\ Has(q, k))
<1> DEFINE s == p \o q
<1>1. /\ Len(p) \in Nat /\ Len(q) \in Nat
      /\ DOMAIN p = 1 .. Len(p) /\ DOMAIN q = 1 .. Len(q)
      /\ DOMAIN s = 1 .. Len(p) + Len(q)
      /\ \A i \in 1 .. Len(p) + Len(q) :
           s[i] = IF i <= Len(p) THEN p[i] ELSE q[i - Len(p)]
      /\ s \in Seq(Job)
  BY ConcatProperties
<1> HIDE DEF s
<1>2. \A a \in DOMAIN p : a \in DOMAIN s /\ s[a] = p[a]
  BY <1>1
<1>3. \A b \in DOMAIN q : Len(p) + b \in DOMAIN s /\ s[Len(p) + b] = q[b]
  BY <1>1
<1>4. \A a \in DOMAIN s :
        \/ a \in DOMAIN p /\ s[a] = p[a]
        \/ a > Len(p) /\ a - Len(p) \in DOMAIN q /\ s[a] = q[a - Len(p)]
  BY <1>1
<1>5. Has(s, j) <=> Has(p, j) \/ Has(q, j)
  BY <1>2, <1>3, <1>4 DEF Has
<1>6. Precedes(p, j, k) => Precedes(s, j, k)
  BY <1>2 DEF Precedes
<1>7. Precedes(q, j, k) => Precedes(s, j, k)
  <2> SUFFICES ASSUME NEW a \in DOMAIN q, NEW b \in DOMAIN q,
                      a < b, q[a] = j, q[b] = k
               PROVE  Precedes(s, j, k)
    BY DEF Precedes
  <2>1. Len(p) + a < Len(p) + b
    BY <1>1
  <2>2. QED BY <1>3, <2>1 DEF Precedes
<1>8. Has(p, j) /\ Has(q, k) => Precedes(s, j, k)
  <2> SUFFICES ASSUME NEW a \in DOMAIN p, NEW b \in DOMAIN q, p[a] = j, q[b] = k
               PROVE  Precedes(s, j, k)
    BY DEF Has
  <2>1. a < Len(p) + b
    BY <1>1
  <2>2. QED BY <1>2, <1>3, <2>1 DEF Precedes
<1>9. ASSUME Precedes(s, j, k)
      PROVE  Precedes(p, j, k) \/ Precedes(q, j, k) \/ (Has(p, j) /\ Has(q, k))
  <2>1. PICK a \in DOMAIN s, b \in DOMAIN s : a < b /\ s[a] = j /\ s[b] = k
    BY <1>9 DEF Precedes
  <2>2. CASE b \in DOMAIN p /\ s[b] = p[b]
    <3>1. a \in DOMAIN p /\ s[a] = p[a]
      BY <1>1, <1>4, <2>1, <2>2
    <3>2. QED BY <2>1, <2>2, <3>1 DEF Precedes
  <2>3. CASE b > Len(p) /\ b - Len(p) \in DOMAIN q /\ s[b] = q[b - Len(p)]
    <3>1. CASE a \in DOMAIN p /\ s[a] = p[a]
      BY <2>1, <2>3, <3>1 DEF Has
    <3>2. CASE a > Len(p) /\ a - Len(p) \in DOMAIN q /\ s[a] = q[a - Len(p)]
      <4>1. a - Len(p) < b - Len(p)
        BY <1>1, <2>1
      <4>2. QED BY <2>1, <2>3, <3>2, <4>1 DEF Precedes
    <3>3. QED BY <1>4, <2>1, <3>1, <3>2
  <2>4. QED BY <1>4, <2>1, <2>2, <2>3
<1>10. QED BY <1>1, <1>5, <1>6, <1>7, <1>8, <1>9 DEF s

LEMMA AppendOrder ==
  ASSUME NEW q \in Seq(Job), NEW x \in Job, NEW j, NEW k
  PROVE  /\ Append(q, x) \in Seq(Job)
         /\ Has(Append(q, x), j) <=> Has(q, j) \/ j = x
         /\ Precedes(q, j, k) => Precedes(Append(q, x), j, k)
         /\ Has(q, j) => Precedes(Append(q, x), j, x)
<1> DEFINE s == Append(q, x)
<1>1. /\ Len(q) \in Nat /\ DOMAIN q = 1 .. Len(q)
      /\ DOMAIN s = 1 .. Len(q) + 1
      /\ \A i \in 1 .. Len(q) : s[i] = q[i]
      /\ s[Len(q) + 1] = x
      /\ s \in Seq(Job)
  BY AppendProperties
<1> HIDE DEF s
<1>2. Has(s, j) <=> Has(q, j) \/ j = x
  BY <1>1 DEF Has
<1>3. Precedes(q, j, k) => Precedes(s, j, k)
  BY <1>1 DEF Precedes
<1>4. Has(q, j) => Precedes(s, j, x)
  <2> SUFFICES ASSUME NEW a \in DOMAIN q, q[a] = j PROVE Precedes(s, j, x)
    BY DEF Has
  <2>1. a \in DOMAIN s /\ Len(q) + 1 \in DOMAIN s /\ a < Len(q) + 1 /\ s[a] = j
    BY <1>1
  <2>2. QED BY <1>1, <2>1 DEF Precedes
<1>5. QED BY <1>1, <1>2, <1>3, <1>4 DEF s

LEMMA TailOrder ==
  ASSUME NEW q \in Seq(Job), q # <<>>, NEW j, NEW k
  PROVE  /\ Tail(q) \in Seq(Job) /\ Head(q) \in Job
         /\ Has(q, j) => j = Head(q) \/ Has(Tail(q), j)
         /\ Precedes(q, j, k) =>
              Has(Tail(q), k) /\ (j = Head(q) \/ Precedes(Tail(q), j, k))
<1> DEFINE s == Tail(q)
           h == Head(q)
<1>1. /\ s \in Seq(Job) /\ h \in Job
      /\ Len(q) \in Nat \ {0} /\ DOMAIN q = 1 .. Len(q) /\ DOMAIN s = 1 .. Len(q) - 1
      /\ \A i \in 1 .. Len(q) - 1 : s[i] = q[i + 1]
      /\ h = q[1]
  BY HeadTailProperties
<1> HIDE DEF s, h
<1>2. \A a \in DOMAIN q : a > 1 => a - 1 \in DOMAIN s /\ s[a - 1] = q[a]
  BY <1>1
<1>3. \A a \in DOMAIN q : a = 1 \/ a > 1
  BY <1>1
<1>4. Has(q, j) => j = h \/ Has(s, j)
  BY <1>1, <1>2, <1>3 DEF Has
<1>5. ASSUME NEW a \in DOMAIN q, NEW b \in DOMAIN q, a < b, q[a] = j, q[b] = k
      PROVE  Has(s, k) /\ (j = h \/ Precedes(s, j, k))
  <2>1. b > 1
    BY <1>1, <1>3, <1>5
  <2>2. b - 1 \in DOMAIN s /\ s[b - 1] = k
    BY <1>2, <1>5, <2>1
  <2>3. CASE a = 1
    BY <1>1, <1>5, <2>2, <2>3 DEF Has
  <2>4. CASE a > 1
    <3>1. a - 1 < b - 1
      BY <1>1, <1>5
    <3>2. QED BY <1>2, <1>5, <2>2, <2>4, <3>1 DEF Has, Precedes
  <2>5. QED BY <1>3, <2>3, <2>4
<1>6. QED BY <1>1, <1>4, <1>5 DEF s, h, Precedes

LEMMA NothingHas == \A j, k : ~Has(<<>>, j) /\ ~Precedes(<<>>, j, k)
BY DEF Has, Precedes

\* One stack, and only the tick flushes; a flusher without a runner prints what
\* it takes, so that nothing was ever submitted.
OrderInv ==
  /\ executors = 1 /\ saving = "idle" /\ batch["command"] = <<>>
  /\ inline => work[1] = <<>>

LEMMA OneStackKept ==
  ASSUME MaxExecutors = 1, GateInv, OrderInv, [Next]_vars
  PROVE  OrderInv'
<1> USE DEF OrderInv
<1>1. ASSUME NEW j \in Job, Defer(j) PROVE OrderInv'
  BY <1>1 DEF Defer, stack
<1>2. ASSUME NEW j \in Job, RunNow(j) PROVE OrderInv'
  BY <1>2 DEF RunNow, stack
<1>3. ASSUME NEW j \in Job, PrintCleared(j) PROVE OrderInv'
  BY <1>3 DEF PrintCleared, stack
<1>4. ASSUME NEW t \in Thread, Dispatch(t) PROVE OrderInv'
  <2>1. t = "tick"
    BY <1>4 DEF Dispatch, Thread
  <2>2. batch \in [Thread -> Seq(Job)]
    BY DEF GateInv, TypeOK
  <2>3. batch'["command"] = <<>>
    BY <1>4, <2>1, <2>2 DEF Dispatch, Thread
  <2>4. QED BY <1>4, <2>3 DEF Dispatch, stack
<1>5. ASSUME NEW e \in Executor, PrintSubmitted(e) PROVE OrderInv'
  <2>1. e = 1
    BY <1>5 DEF Executor
  <2>2. ~inline
    BY <1>5, <2>1 DEF PrintSubmitted
  <2>3. QED BY <1>5, <2>2 DEF PrintSubmitted, stack
<1>6. CASE TickJudge
  BY <1>6 DEF TickJudge, stack, jobs
<1>7. CASE TickApply
  <2>1. batch \in [Thread -> Seq(Job)]
    BY DEF GateInv, TypeOK
  <2>2. batch'["command"] = <<>>
    BY <1>7, <2>1 DEF TickApply, Release, Thread
  <2>3. QED BY <1>7, <2>2 DEF TickApply, stack
<1>8. ~(\E limit \in AglLimits : SetThresholds(limit))
  BY DEF SetThresholds
<1>9. ~(\E on \in PowerSettings : SetRequirePowered(on))
  BY DEF SetRequirePowered
<1>10. ~(\E fake \in BOOLEAN : RebuildPrinter(fake))
  BY DEF RebuildPrinter
<1>11. CASE NewSample
  BY <1>11 DEF NewSample, stack, jobs
<1>12. CASE Elapse
  BY <1>12 DEF Elapse, stack, jobs
<1>13. CASE UNCHANGED vars
  BY <1>13 DEF vars, stack, jobs
<1>14. QED
  BY <1>1, <1>2, <1>3, <1>4, <1>5, <1>6, <1>7, <1>8, <1>9, <1>10, <1>11, <1>12,
     <1>13 DEF Next

\* Three lines in a row: the work submitted, the batch of the tick, the queue.
InRow(w, b, q, j) == Has(w, j) \/ Has(b, j) \/ Has(q, j)
RowOrder(w, b, q, j, k) ==
  \/ Precedes(w, j, k) \/ Precedes(b, j, k) \/ Precedes(q, j, k)
  \/ Has(w, j) /\ (Has(b, k) \/ Has(q, k))
  \/ Has(b, j) /\ Has(q, k)

Earlier(w, b, q, pe, j, k) ==
  (InRow(w, b, q, j) /\ k \in pe) \/ RowOrder(w, b, q, j, k)

LEMMA LineOrder ==
  ASSUME NEW w \in Seq(Job), NEW b \in Seq(Job), NEW q \in Seq(Job), NEW j, NEW k
  PROVE  LET line == w \o <<>> \o b \o q IN
         /\ Has(line, j) <=> InRow(w, b, q, j)
         /\ Precedes(line, j, k) <=> RowOrder(w, b, q, j, k)
<1>1. w \o <<>> = w
  OBVIOUS
<1>2. /\ w \o b \in Seq(Job)
      /\ \A x : Has(w \o b, x) <=> Has(w, x) \/ Has(b, x)
      /\ \A x, y : Precedes(w \o b, x, y) <=>
           Precedes(w, x, y) \/ Precedes(b, x, y) \/ (Has(w, x) /\ Has(b, y))
  BY JoinOrder
<1>3. PICK p \in Seq(Job) : p = w \o b
  BY <1>2
<1>4. /\ Has(p \o q, j) <=> Has(p, j) \/ Has(q, j)
      /\ Precedes(p \o q, j, k) <=>
           Precedes(p, j, k) \/ Precedes(q, j, k) \/ (Has(p, j) /\ Has(q, k))
  BY JoinOrder
<1>5. QED BY <1>1, <1>2, <1>3, <1>4 DEF InRow, RowOrder

LEMMA ComesBeforeIs ==
  ASSUME NEW j, NEW k, ChannelOf[j] = ChannelOf[k],
         NEW w \in Seq(Job), NEW b \in Seq(Job), NEW q \in Seq(Job), NEW pe,
         work[executors] = w, batch["command"] = <<>>, batch["tick"] = b,
         queue[ChannelOf[j]] = q, pending = pe
  PROVE  ComesBefore(j, k) <=> Earlier(w, b, q, pe, j, k)
<1>1. PICK line : line = w \o <<>> \o b \o q
  OBVIOUS
<1>2. Line(ChannelOf[j]) = line
  BY <1>1 DEF Line
<1>3. Has(line, j) <=> InRow(w, b, q, j)
  BY <1>1, LineOrder
<1>4. Precedes(line, j, k) <=> RowOrder(w, b, q, j, k)
  BY <1>1, LineOrder
<1>5. ComesBefore(j, k) <=> (Has(line, j) /\ k \in pe) \/ Precedes(line, j, k)
  BY <1>2 DEF ComesBefore, Has, Precedes
<1>6. QED BY <1>3, <1>4, <1>5 DEF Earlier

LEMMA ComesBeforeThen ==
  ASSUME NEW j, NEW k, ChannelOf[j] = ChannelOf[k],
         NEW w \in Seq(Job), NEW b \in Seq(Job), NEW q \in Seq(Job), NEW pe,
         work'[executors'] = w, batch'["command"] = <<>>, batch'["tick"] = b,
         queue'[ChannelOf[j]] = q, pending' = pe
  PROVE  ComesBefore(j, k)' <=> Earlier(w, b, q, pe, j, k)
<1>1. PICK line : line = w \o <<>> \o b \o q
  OBVIOUS
<1>2. Line(ChannelOf[j])' = line
  BY <1>1 DEF Line
<1>3. Has(line, j) <=> InRow(w, b, q, j)
  BY <1>1, LineOrder
<1>4. Precedes(line, j, k) <=> RowOrder(w, b, q, j, k)
  BY <1>1, LineOrder
<1>5. ComesBefore(j, k)' <=> (Has(line, j) /\ k \in pe) \/ Precedes(line, j, k)
  BY <1>2 DEF ComesBefore, Has, Precedes
<1>6. QED BY <1>3, <1>4, <1>5 DEF Earlier

\* Why j need not come before k any longer.
Left(j, k) == j \in printed \/ {j, k} \cap dropped # {} \/ k \in cleared

LEMMA RowsBefore ==
  ASSUME GateInv, OrderInv, NEW j \in Job, NEW k \in Job, ComesBefore(j, k)
  PROVE  /\ ChannelOf[j] = ChannelOf[k] /\ ChannelOf[j] \in Channel
         /\ \E w, b, q \in Seq(Job) :
              /\ work[1] = w /\ batch["tick"] = b /\ queue[ChannelOf[j]] = q
              /\ Earlier(w, b, q, pending, j, k)
<1>1. ChannelOf[j] = ChannelOf[k] /\ ChannelOf[j] \in Channel
  BY GateAssumption DEF ComesBefore
<1>2. 1 \in Executor /\ "tick" \in Thread
  BY GateAssumption DEF Executor, Thread
<1>3. PICK w \in Seq(Job), b \in Seq(Job), q \in Seq(Job) :
        work[1] = w /\ batch["tick"] = b /\ queue[ChannelOf[j]] = q
  BY <1>1, <1>2 DEF GateInv, TypeOK
<1>4. work[executors] = w /\ batch["command"] = <<>>
  BY <1>3 DEF OrderInv
<1>5. Earlier(w, b, q, pending, j, k)
  BY <1>1, <1>3, <1>4, ComesBeforeIs
<1>6. QED BY <1>1, <1>3, <1>5

LEMMA RowsAfter ==
  ASSUME OrderInv', NEW j, NEW k, ChannelOf[j] = ChannelOf[k],
         NEW w \in Seq(Job), NEW b \in Seq(Job), NEW q \in Seq(Job),
         work'[1] = w, batch'["tick"] = b, queue'[ChannelOf[j]] = q,
         Earlier(w, b, q, pending', j, k)
  PROVE  ComesBefore(j, k)'
<1>1. work'[executors'] = w /\ batch'["command"] = <<>>
  BY DEF OrderInv
<1>2. QED BY <1>1, ComesBeforeThen

\* A newcomer joins the end of its queue, and may cost the oldest job there.
LEMMA DeferOrder ==
  ASSUME GateInv, OrderInv, OrderInv', NEW j \in Job, NEW k \in Job,
         ComesBefore(j, k), NEW x \in Job, Defer(x)
  PROVE  ComesBefore(j, k)' \/ Left(j, k)'
<1>1. ChannelOf[j] = ChannelOf[k] /\ ChannelOf[j] \in Channel
  BY RowsBefore
<1>2. PICK w, b, q \in Seq(Job) :
        /\ work[1] = w /\ batch["tick"] = b /\ queue[ChannelOf[j]] = q
        /\ Earlier(w, b, q, pending, j, k)
  BY RowsBefore
<1>3. /\ work' = work /\ batch' = batch /\ pending' = pending \ {x}
      /\ queue' = [queue EXCEPT ![ChannelOf[x]] = Enqueue(queue[ChannelOf[x]], x)]
      /\ dropped' = dropped \cup Lost(queue[ChannelOf[x]])
  BY DEF Defer
<1>4. queue \in [Channel -> Seq(Job)] /\ MaxQueue \in Nat \ {0}
  BY GateAssumption DEF GateInv, TypeOK
<1>5. CASE ChannelOf[x] # ChannelOf[j]
  <2>1. queue'[ChannelOf[j]] = q /\ x # k
    BY <1>1, <1>2, <1>3, <1>4, <1>5
  <2>2. Earlier(w, b, q, pending', j, k)
    BY <1>2, <1>3, <2>1 DEF Earlier
  <2>3. QED BY <1>1, <1>2, <1>3, <2>1, <2>2, RowsAfter
<1>6. CASE ChannelOf[x] = ChannelOf[j]
  <2>1. queue'[ChannelOf[j]] = Enqueue(q, x) /\ dropped' = dropped \cup Lost(q)
    BY <1>1, <1>2, <1>3, <1>4, <1>6
  <2>2. ASSUME NEW s \in Seq(Job), queue'[ChannelOf[j]] = Append(s, x),
               Has(q, j) => Has(s, j) \/ Left(j, k)',
               Has(q, k) => Has(s, k) \/ Left(j, k)',
               Precedes(q, j, k) => Precedes(s, j, k) \/ Left(j, k)'
        PROVE  ComesBefore(j, k)' \/ Left(j, k)'
    <3> SUFFICES ASSUME ~Left(j, k)' PROVE ComesBefore(j, k)'
      OBVIOUS
    <3>1. PICK t \in Seq(Job) :
            /\ t = Append(s, x)
            /\ \A y : Has(t, y) <=> Has(s, y) \/ y = x
            /\ Precedes(s, j, k) => Precedes(t, j, k)
            /\ Has(s, j) => Precedes(t, j, x)
      BY AppendOrder
    <3>2. Earlier(w, b, t, pending', j, k)
      <4>1. CASE RowOrder(w, b, q, j, k)
        BY <2>2, <3>1, <4>1 DEF Earlier, RowOrder
      <4>2. CASE InRow(w, b, q, j) /\ k \in pending /\ k = x
        BY <2>2, <3>1, <4>2 DEF Earlier, RowOrder, InRow
      <4>3. CASE InRow(w, b, q, j) /\ k \in pending /\ k # x
        BY <1>3, <2>2, <3>1, <4>3 DEF Earlier, InRow
      <4>4. QED BY <1>2, <4>1, <4>2, <4>3 DEF Earlier
    <3>3. QED BY <1>1, <1>2, <1>3, <2>2, <3>1, <3>2, RowsAfter
  <2>3. CASE Len(q) >= MaxQueue
    <3>1. q # <<>>
      BY <1>4, <2>3
    <3>2. /\ Tail(q) \in Seq(Job)
          /\ \A y : Has(q, y) => y = Head(q) \/ Has(Tail(q), y)
          /\ Precedes(q, j, k) => j = Head(q) \/ Precedes(Tail(q), j, k)
      BY <3>1, TailOrder
    <3>3. queue'[ChannelOf[j]] = Append(Tail(q), x) /\ Head(q) \in dropped'
      BY <2>1, <2>3 DEF Enqueue, Lost
    <3>4. Head(q) \in {j, k} => Left(j, k)'
      BY <3>3 DEF Left
    <3>5. QED BY <2>2, <3>2, <3>3, <3>4
  <2>4. CASE ~(Len(q) >= MaxQueue)
    <3>1. queue'[ChannelOf[j]] = Append(q, x)
      BY <2>1, <2>4 DEF Enqueue
    <3>2. QED BY <2>2, <3>1
  <2>5. QED BY <2>3, <2>4
<1>7. QED BY <1>5, <1>6

\* The head of the batch goes to the end of the stack's work, or is printed.
LEMMA DispatchOrder ==
  ASSUME GateInv, OrderInv, OrderInv', NEW j \in Job, NEW k \in Job,
         ComesBefore(j, k), NEW t \in Thread, Dispatch(t)
  PROVE  ComesBefore(j, k)' \/ Left(j, k)'
<1>1. ChannelOf[j] = ChannelOf[k] /\ ChannelOf[j] \in Channel
  BY RowsBefore
<1>2. PICK w, b, q \in Seq(Job) :
        /\ work[1] = w /\ batch["tick"] = b /\ queue[ChannelOf[j]] = q
        /\ Earlier(w, b, q, pending, j, k)
  BY RowsBefore
<1>3. /\ t = "tick" /\ executors = 1 /\ 1 \in Executor /\ "tick" \in Thread
      /\ batch \in [Thread -> Seq(Job)] /\ work \in [Executor -> Seq(Job)]
  BY GateAssumption DEF OrderInv, Dispatch, Thread, Executor, GateInv, TypeOK
<1>4. /\ b # <<>> /\ batch'["tick"] = Tail(b) /\ pending' = pending /\ queue' = queue
  BY <1>2, <1>3 DEF Dispatch
<1>5. PICK h \in Job, s \in Seq(Job) :
        /\ h = Head(b) /\ s = Tail(b)
        /\ \A y : Has(b, y) => y = h \/ Has(s, y)
        /\ Precedes(b, j, k) => Has(s, k) /\ (j = h \/ Precedes(s, j, k))
  BY <1>4, TailOrder
<1>6. CASE inline
  <2>1. w = <<>> /\ h \in printed' /\ work' = work
    BY <1>2, <1>3, <1>5, <1>6 DEF OrderInv, Dispatch
  <2>2. j # h => Earlier(w, s, q, pending', j, k)
    BY <1>2, <1>4, <1>5, <2>1, NothingHas DEF Earlier, InRow, RowOrder
  <2>3. j = h => Left(j, k)'
    BY <2>1 DEF Left
  <2>4. QED BY <1>1, <1>2, <1>4, <1>5, <2>1, <2>2, <2>3, RowsAfter
<1>7. CASE ~inline
  <2>1. work'[1] = Append(w, h)
    BY <1>2, <1>3, <1>5, <1>7 DEF Dispatch
  <2>2. PICK v \in Seq(Job) :
          /\ v = Append(w, h)
          /\ \A y : Has(v, y) <=> Has(w, y) \/ y = h
          /\ Precedes(w, j, k) => Precedes(v, j, k)
          /\ Has(w, j) => Precedes(v, j, h)
    BY AppendOrder
  <2>3. Earlier(v, s, q, pending', j, k)
    <3>1. CASE InRow(w, b, q, j) /\ k \in pending
      BY <1>4, <1>5, <2>2, <3>1 DEF Earlier, InRow
    <3>2. CASE RowOrder(w, b, q, j, k)
      BY <1>5, <2>2, <3>2 DEF Earlier, RowOrder
    <3>3. QED BY <1>2, <3>1, <3>2 DEF Earlier
  <2>4. QED BY <1>1, <1>2, <1>4, <1>5, <2>1, <2>2, <2>3, RowsAfter
<1>8. QED BY <1>6, <1>7

\* The worker prints the head of its work.
LEMMA PrintSubmittedOrder ==
  ASSUME MaxExecutors = 1, GateInv, OrderInv, OrderInv', NEW j \in Job, NEW k \in Job,
         ComesBefore(j, k), NEW e \in Executor, PrintSubmitted(e)
  PROVE  ComesBefore(j, k)' \/ Left(j, k)'
<1>1. ChannelOf[j] = ChannelOf[k] /\ ChannelOf[j] \in Channel
  BY RowsBefore
<1>2. PICK w, b, q \in Seq(Job) :
        /\ work[1] = w /\ batch["tick"] = b /\ queue[ChannelOf[j]] = q
        /\ Earlier(w, b, q, pending, j, k)
  BY RowsBefore
<1>3. e = 1 /\ work \in [Executor -> Seq(Job)]
  BY DEF Executor, GateInv, TypeOK
<1>4. /\ w # <<>> /\ work'[1] = Tail(w) /\ Head(w) \in printed'
      /\ pending' = pending /\ queue' = queue /\ batch' = batch
  BY <1>2, <1>3 DEF PrintSubmitted
<1>5. PICK h \in Job, s \in Seq(Job) :
        /\ h = Head(w) /\ s = Tail(w)
        /\ \A y : Has(w, y) => y = h \/ Has(s, y)
        /\ Precedes(w, j, k) => Has(s, k) /\ (j = h \/ Precedes(s, j, k))
  BY <1>4, TailOrder
<1>6. j = h => Left(j, k)'
  BY <1>4, <1>5 DEF Left
<1>7. j # h => Earlier(s, b, q, pending', j, k)
  <2>1. CASE InRow(w, b, q, j) /\ k \in pending
    BY <1>4, <1>5, <2>1 DEF Earlier, InRow
  <2>2. CASE RowOrder(w, b, q, j, k)
    BY <1>5, <2>2 DEF Earlier, RowOrder
  <2>3. QED BY <1>2, <2>1, <2>2 DEF Earlier
<1>8. QED BY <1>1, <1>2, <1>4, <1>5, <1>6, <1>7, RowsAfter

\* A release puts the queues behind what was submitted; the batch was empty.
LEMMA TickApplyOrder ==
  ASSUME GateInv, FlushersFree, OrderInv, OrderInv', NEW j \in Job, NEW k \in Job,
         ComesBefore(j, k), TickApply
  PROVE  ComesBefore(j, k)'
<1>1. ChannelOf[j] = ChannelOf[k] /\ ChannelOf[j] \in Channel
  BY RowsBefore
<1>2. PICK w, b, q \in Seq(Job) :
        /\ work[1] = w /\ batch["tick"] = b /\ queue[ChannelOf[j]] = q
        /\ Earlier(w, b, q, pending, j, k)
  BY RowsBefore
<1>3. /\ work' = work /\ pending' = pending /\ Release("tick", blocking /\ ~blocking')
  BY DEF TickApply
<1>4. CASE ~(blocking /\ ~blocking')
  <2>1. batch' = batch /\ queue' = queue
    BY <1>3, <1>4 DEF Release
  <2>2. QED BY <1>1, <1>2, <1>3, <2>1, RowsAfter
<1>5. CASE blocking /\ ~blocking'
  <2>1. /\ batch \in [Thread -> Seq(Job)] /\ "tick" \in Thread
        /\ queue \in [Channel -> Seq(Job)]
    BY DEF Thread, GateInv, TypeOK
  <2>2. PICK qa \in Seq(Job), qs \in Seq(Job) :
          qa = queue["acars"] /\ qs = queue["simbrief"]
    BY <2>1 DEF Channel
  <2>3. /\ batch'["tick"] = qa \o qs /\ queue'[ChannelOf[j]] = <<>>
    BY <1>1, <1>3, <1>5, <2>1, <2>2 DEF Release
  <2>4. q = qa \/ q = qs
    BY <1>1, <1>2, <2>2 DEF Channel
  <2>5. b = <<>>
    BY <1>2 DEF TickApply, FlushersFree
  <2>6. PICK s \in Seq(Job) :
          /\ s = qa \o qs
          /\ \A y : Has(s, y) <=> Has(qa, y) \/ Has(qs, y)
          /\ Precedes(s, j, k) <=>
               Precedes(qa, j, k) \/ Precedes(qs, j, k) \/ (Has(qa, j) /\ Has(qs, k))
    BY JoinOrder
  <2>7. Earlier(w, s, <<>>, pending', j, k)
    <3>1. CASE InRow(w, b, q, j) /\ k \in pending
      BY <1>3, <2>4, <2>5, <2>6, <3>1, NothingHas DEF Earlier, InRow
    <3>2. CASE RowOrder(w, b, q, j, k)
      BY <2>4, <2>5, <2>6, <3>2, NothingHas DEF Earlier, RowOrder
    <3>3. QED BY <1>2, <3>1, <3>2 DEF Earlier
  <2>8. <<>> \in Seq(Job)
    OBVIOUS
  <2>9. QED BY <1>1, <1>2, <1>3, <2>3, <2>6, <2>7, <2>8, RowsAfter
<1>6. QED BY <1>4, <1>5

\* A step that leaves the lines alone.
LEMMA SameOrder ==
  ASSUME GateInv, OrderInv, OrderInv', NEW j \in Job, NEW k \in Job,
         ComesBefore(j, k), UNCHANGED <<work, batch, queue>>, k \in pending => k \in pending'
  PROVE  ComesBefore(j, k)'
<1>1. ChannelOf[j] = ChannelOf[k] /\ ChannelOf[j] \in Channel
  BY RowsBefore
<1>2. PICK w, b, q \in Seq(Job) :
        /\ work[1] = w /\ batch["tick"] = b /\ queue[ChannelOf[j]] = q
        /\ Earlier(w, b, q, pending, j, k)
  BY RowsBefore
<1>3. Earlier(w, b, q, pending', j, k)
  BY <1>2 DEF Earlier
<1>4. QED BY <1>1, <1>2, <1>3, RowsAfter

LEMMA NextOrder ==
  ASSUME MaxExecutors = 1, GateInv, FlushersFree, OrderInv, OrderInv', [Next]_vars,
         NEW j \in Job, NEW k \in Job, ComesBefore(j, k)
  PROVE  ComesBefore(j, k)' \/ Left(j, k)'
<1>1. ASSUME NEW x \in Job, Defer(x) PROVE ComesBefore(j, k)' \/ Left(j, k)'
  BY <1>1, DeferOrder
<1>2. ASSUME NEW x \in Job, RunNow(x) PROVE ComesBefore(j, k)' \/ Left(j, k)'
  <2>1. CASE k = x
    BY <1>2, <2>1 DEF RunNow, Left
  <2>2. CASE k # x
    BY <1>2, <2>2, SameOrder DEF RunNow
  <2>3. QED BY <2>1, <2>2
<1>3. ASSUME NEW x \in Job, PrintCleared(x) PROVE ComesBefore(j, k)'
  BY <1>3, SameOrder DEF PrintCleared
<1>4. ASSUME NEW t \in Thread, Dispatch(t) PROVE ComesBefore(j, k)' \/ Left(j, k)'
  BY <1>4, DispatchOrder
<1>5. ASSUME NEW e \in Executor, PrintSubmitted(e)
      PROVE  ComesBefore(j, k)' \/ Left(j, k)'
  BY <1>5, PrintSubmittedOrder
<1>6. CASE TickJudge
  BY <1>6, SameOrder DEF TickJudge, jobs
<1>7. CASE TickApply
  BY <1>7, TickApplyOrder
<1>8. ~(\E limit \in AglLimits : SetThresholds(limit))
  BY DEF SetThresholds, OrderInv
<1>9. ~(\E on \in PowerSettings : SetRequirePowered(on))
  BY DEF SetRequirePowered, OrderInv
<1>10. ~(\E fake \in BOOLEAN : RebuildPrinter(fake))
  BY DEF RebuildPrinter, OrderInv
<1>11. CASE NewSample
  BY <1>11, SameOrder DEF NewSample, jobs
<1>12. CASE Elapse
  BY <1>12, SameOrder DEF Elapse, jobs
<1>13. CASE UNCHANGED vars
  BY <1>13, SameOrder DEF vars, jobs
<1>14. QED
  BY <1>1, <1>2, <1>3, <1>4, <1>5, <1>6, <1>7, <1>8, <1>9, <1>10, <1>11, <1>12,
     <1>13 DEF Next

\* While no settings save replaces a print stack (MaxExecutors = 1), a channel's
\* deferred strips print in the order they came (sterile.py, _dispatch_flush),
\* for any number of jobs, any queue limit and any settle time.
THEOREM StripsKeepOrder ==
  ASSUME MaxExecutors = 1
  PROVE  Spec => PrintsInOrder
<1>1. Init => OrderInv
  BY GateAssumption DEF Init, OrderInv, Thread, Executor
<1>2. GateInv /\ OrderInv /\ [Next]_vars => OrderInv'
  BY OneStackKept
<1>3. /\ GateInv /\ JobsInv /\ OrderInv /\ OrderInv' /\ [Next]_vars
      => [\A j, k \in Job : ComesBefore(j, k) =>
            \/ ComesBefore(j, k)' \/ j \in printed'
            \/ {j, k} \cap dropped' # {} \/ k \in cleared']_vars
  <2> SUFFICES ASSUME GateInv, JobsInv, OrderInv, OrderInv', [Next]_vars,
                      NEW j \in Job, NEW k \in Job, ComesBefore(j, k)
               PROVE  \/ ComesBefore(j, k)' \/ j \in printed'
                      \/ {j, k} \cap dropped' # {} \/ k \in cleared'
    OBVIOUS
  <2>1. ComesBefore(j, k)' \/ Left(j, k)'
    BY NextOrder DEF JobsInv
  <2>2. QED BY <2>1 DEF Left
<1>4. QED
  BY <1>1, <1>2, <1>3, GateInvariant, JobsInvariant, PTL DEF Spec, PrintsInOrder
=============================================================================
