----------------------------- MODULE DesktopProofs ------------------------------
(*****************************************************************************)
(* Proofs about the parts of the program around the printing path, each for  *)
(* every value of its constants: the shell and its bridge, the lock file, the*)
(* self-update, the automatic weather and the settings.  MCDesktop composes  *)
(* the same modules for TLC; no part touches another's variables.  Init, Next*)
(* and Spec are those of the settings.                                       *)
(*****************************************************************************)
EXTENDS AutoWeather, Updater, DesktopShell, SingleInstance, SettingsStore,
        SequenceLemmas

-----------------------------------------------------------------------------
(*****************************************************************************)
(* The shell and its bridge: any number of callers, commands, events and     *)
(* deaths of the bridge, and any size of the deque.                          *)
(*****************************************************************************)
Line == [event : BOOLEAN, is : Nat]

ShellTypeOK ==
  /\ call \in [Caller -> Nat] /\ answer \in [Caller -> Nat]
  /\ mutex \in Caller \cup {NoCaller} /\ calls \in Nat
  /\ stdin \in Seq(Nat) /\ stdout \in Seq(Line)
  /\ working \in Nat /\ events \in Seq(Nat) /\ emitted \in Nat

\* What is on its way between the shell and the bridge is one thing: the
\* command of the caller that holds the mutex, in the pipe or being handled,
\* or its answer, after the events written with it.  Without a caller there is
\* nothing: no answer waits in the pipe for the next one.
Written(n) ==
  /\ stdin = <<n>> /\ working = 0 /\ stdout = <<>>

Handled(n) ==
  /\ stdin = <<>> /\ working = n /\ n # 0 /\ stdout = <<>>

Answered(n) ==
  /\ stdin = <<>> /\ working = 0 /\ stdout # <<>>
  /\ stdout[Len(stdout)] = AnswerTo(n)
  /\ \A i \in 1 .. Len(stdout) - 1 : stdout[i].event

OneOnItsWay ==
  /\ mutex = NoCaller => stdin = <<>> /\ working = 0 /\ stdout = <<>>
  /\ mutex # NoCaller =>
       /\ call[mutex] # 0
       /\ Written(call[mutex]) \/ Handled(call[mutex]) \/ Answered(call[mutex])

ShellInv == ShellTypeOK /\ OneOnItsWay

-----------------------------------------------------------------------------
LEMMA LinesAre ==
  ASSUME NEW s \in Seq(Nat)
  PROVE  /\ Lines(s) \in Seq(Line) /\ Len(Lines(s)) = Len(s)
         /\ \A i \in 1 .. Len(s) : Lines(s)[i] = [event |-> TRUE, is |-> s[i]]
<1>1. DOMAIN s = 1 .. Len(s) /\ Len(s) \in Nat
  OBVIOUS
<1>2. \A i \in 1 .. Len(s) : [event |-> TRUE, is |-> s[i]] \in Line
  BY DEF Line
<1>3. Lines(s) = [i \in 1 .. Len(s) |-> [event |-> TRUE, is |-> s[i]]]
  BY <1>1 DEF Lines
<1>4. QED BY <1>1, <1>2, <1>3

\* Sending and reading.
LEMMA CallerKeeps ==
  ASSUME ShellInv, NoCaller \notin Caller, NEW c \in Caller,
         Request(c) \/ ReadEvent(c) \/ ReadAnswer(c) \/ ReadFails(c)
  PROVE  ShellInv'
<1>1. CASE Request(c)
  <2>1. call' = [call EXCEPT ![c] = calls + 1] /\ mutex' = c /\ stdin' = <<calls + 1>>
        /\ stdout' = <<>> /\ working' = 0 /\ calls' = calls + 1
        /\ (events' = events \/ events' = <<>>) /\ UNCHANGED <<answer, emitted>>
    BY <1>1 DEF Request, ShellInv, OneOnItsWay
  <2>2. call'[c] = calls + 1 /\ calls + 1 \in Nat \ {0}
    BY <2>1 DEF ShellInv, ShellTypeOK
  <2>3. ShellTypeOK'
    <3>1. stdin' \in Seq(Nat) /\ stdout' \in Seq(Line) /\ events' \in Seq(Nat)
      <4>1. <<>> \in Seq(Nat) /\ <<>> \in Seq(Line)
        OBVIOUS
      <4>2. \A n \in Nat : <<n>> \in Seq(Nat)
        OBVIOUS
      <4>3. QED BY <2>1, <2>2, <4>1, <4>2 DEF ShellInv, ShellTypeOK
    <3>2. call' \in [Caller -> Nat]
      BY <2>1, <2>2 DEF ShellInv, ShellTypeOK
    <3>3. QED BY <2>1, <2>2, <3>1, <3>2 DEF ShellInv, ShellTypeOK
  <2>4. OneOnItsWay'
    BY <2>1, <2>2 DEF OneOnItsWay, Written
  <2>5. QED BY <2>3, <2>4 DEF ShellInv
<1>2. CASE ReadEvent(c)
  <2>1. /\ mutex = c /\ stdout # <<>> /\ Head(stdout).event /\ stdout' = Tail(stdout)
        /\ UNCHANGED <<call, answer, mutex, calls, stdin, working, events, emitted>>
    BY <1>2 DEF ReadEvent
  <2>2. Answered(call[c])
    BY <2>1 DEF ShellInv, OneOnItsWay, Written, Handled
  <2>3. stdout \in Seq(Line) /\ Len(stdout) \in Nat
    BY DEF ShellInv, ShellTypeOK
  <2>4. Len(stdout) > 1
    BY <2>1, <2>2, <2>3 DEF Answered, AnswerTo
  <2>5. Len(stdout') = Len(stdout) - 1
        /\ \A i \in 1 .. Len(stdout') : stdout'[i] = stdout[i + 1]
    BY <2>1, <2>3, <2>4
  <2>6. Answered(call[c])'
    <3>1. stdout' # <<>> /\ stdout'[Len(stdout')] = AnswerTo(call[c])
      BY <2>2, <2>3, <2>4, <2>5 DEF Answered
    <3>2. \A i \in 1 .. Len(stdout') - 1 : stdout'[i].event
      BY <2>2, <2>3, <2>4, <2>5 DEF Answered
    <3>3. QED BY <2>1, <2>2, <3>1, <3>2 DEF Answered, AnswerTo
  <2>7. stdout' \in Seq(Line)
    BY <2>1, <2>3
  <2>8. QED BY <2>1, <2>6, <2>7 DEF ShellInv, ShellTypeOK, OneOnItsWay
<1>3. CASE ReadAnswer(c)
  <2>1. /\ mutex = c /\ stdout # <<>> /\ ~Head(stdout).event /\ stdout' = Tail(stdout)
        /\ call' = [call EXCEPT ![c] = 0] /\ mutex' = NoCaller
        /\ answer' = [answer EXCEPT ![c] = Head(stdout).is]
        /\ UNCHANGED <<calls, stdin, working, events, emitted>>
    BY <1>3 DEF ReadAnswer
  <2>2. Answered(call[c])
    BY <2>1 DEF ShellInv, OneOnItsWay, Written, Handled
  <2>3. stdout \in Seq(Line) /\ Len(stdout) \in Nat
    BY DEF ShellInv, ShellTypeOK
  <2>4. Len(stdout) = 1 /\ Head(stdout) = stdout[1] /\ Head(stdout) \in Line
    <3>1. Head(stdout) = stdout[1] /\ Len(stdout) >= 1 /\ Head(stdout) \in Line
      BY <2>1, <2>3
    <3>2. ~ (1 \in 1 .. Len(stdout) - 1)
      BY <2>1, <2>2, <3>1 DEF Answered
    <3>3. QED BY <2>3, <3>1, <3>2
  <2>5. stdout' = <<>>
    BY <2>1, <2>3, <2>4
  <2>6. QED BY <2>1, <2>2, <2>4, <2>5
              DEF ShellInv, ShellTypeOK, OneOnItsWay, Answered, Line
<1>4. CASE ReadFails(c)
  <2>1. /\ mutex' = NoCaller /\ call' = [call EXCEPT ![c] = 0]
        /\ stdin' = <<>> /\ stdout' = <<>> /\ working' = 0 /\ events' = <<>>
        /\ UNCHANGED <<answer, calls, emitted>>
    BY <1>4 DEF ReadFails, Drop
  <2>2. QED BY <2>1 DEF ShellInv, ShellTypeOK, OneOnItsWay
<1>5. QED BY <1>1, <1>2, <1>3, <1>4

LEMMA BridgeKeeps ==
  ASSUME ShellInv, DequeLimit \in Nat \ {0}, Emit \/ Receive \/ Answer \/ Dies
  PROVE  ShellInv'
<1>1. CASE Emit
  <2>1. /\ emitted' = emitted + 1 /\ UNCHANGED <<shell, stdin, stdout, working>>
        /\ events' \in {Append(events, emitted'), Append(Tail(events), emitted')}
        /\ Len(events) < DequeLimit \/ events' = Append(Tail(events), emitted')
    BY <1>1 DEF Emit
  <2>2. events' \in Seq(Nat)
    <3>1. events \in Seq(Nat) /\ Len(events) \in Nat /\ emitted' \in Nat
      BY <2>1 DEF ShellInv, ShellTypeOK
    <3>2. CASE events' = Append(events, emitted')
      BY <3>1, <3>2
    <3>3. CASE events # <<>> /\ events' = Append(Tail(events), emitted')
      <4>1. Tail(events) \in Seq(Nat)
        BY <3>1, <3>3
      <4>2. QED BY <3>1, <3>3, <4>1
    <3>4. QED BY <2>1, <3>1, <3>2, <3>3
  <2>3. QED BY <2>1, <2>2 DEF ShellInv, ShellTypeOK, OneOnItsWay, Written, Handled,
                             Answered, shell
<1>2. CASE Receive
  <2>1. /\ working = 0 /\ stdin # <<>> /\ working' = Head(stdin) /\ stdin' = Tail(stdin)
        /\ UNCHANGED <<shell, stdout, events, emitted>>
    BY <1>2 DEF Receive
  <2>2. mutex # NoCaller /\ Written(call[mutex]) /\ call[mutex] # 0
    BY <2>1 DEF ShellInv, OneOnItsWay, Handled, Answered
  <2>3. Handled(call[mutex])'
    BY <2>1, <2>2 DEF Written, Handled, shell
  <2>4. QED BY <2>1, <2>2, <2>3 DEF ShellInv, ShellTypeOK, OneOnItsWay, Handled, Written,
                                    shell
<1>3. CASE Answer
  <2> DEFINE lines == Lines(events)
  <2>1. /\ working # 0 /\ stdout' = stdout \o lines \o <<AnswerTo(working)>>
        /\ events' = <<>> /\ working' = 0 /\ UNCHANGED <<shell, stdin, emitted>>
    BY <1>3 DEF Answer
  <2>2. mutex # NoCaller /\ Handled(call[mutex]) /\ call[mutex] # 0
    BY <2>1 DEF ShellInv, OneOnItsWay, Written, Answered
  <2>3. /\ lines \in Seq(Line) /\ Len(lines) \in Nat
        /\ \A i \in 1 .. Len(lines) : lines[i].event
    <3>1. events \in Seq(Nat)
      BY DEF ShellInv, ShellTypeOK
    <3>2. lines \in Seq(Line) /\ Len(lines) = Len(events) /\ Len(events) \in Nat
          /\ \A i \in 1 .. Len(events) : lines[i] = [event |-> TRUE, is |-> events[i]]
      BY <3>1, LinesAre
    <3> HIDE DEF lines
    <3>3. lines \in Seq(Line) /\ Len(lines) \in Nat
      BY <3>2
    <3>4. ASSUME NEW i \in 1 .. Len(lines) PROVE lines[i].event
      <4>1. lines[i] = [event |-> TRUE, is |-> events[i]]
        BY <3>2
      <4>2. QED BY <4>1
    <3>5. QED BY <3>3, <3>4
  <2>4. AnswerTo(working) \in Line
    BY DEF ShellInv, ShellTypeOK, AnswerTo, Line
  <2> HIDE DEF lines
  <2>5. stdout' = lines \o <<AnswerTo(working)>>
    BY <2>1, <2>2, <2>3 DEF Handled
  <2>6. /\ stdout' \in Seq(Line) /\ Len(stdout') = Len(lines) + 1
        /\ stdout'[Len(stdout')] = AnswerTo(working)
        /\ \A i \in 1 .. Len(lines) : stdout'[i] = lines[i]
    BY <2>3, <2>4, <2>5
  <2>7. Answered(call[mutex])'
    BY <2>1, <2>2, <2>3, <2>6 DEF Answered, Handled, shell, AnswerTo
  <2>8. QED BY <2>1, <2>2, <2>6, <2>7 DEF ShellInv, ShellTypeOK, OneOnItsWay, shell
<1>4. CASE Dies
  BY <1>4 DEF Dies, ShellInv, ShellTypeOK, OneOnItsWay, Written, Handled, Answered, shell
<1>5. QED BY <1>1, <1>2, <1>3, <1>4

LEMMA ShellKeeps ==
  ASSUME ShellInv, NoCaller \notin Caller, DequeLimit \in Nat \ {0}, [ShellNext]_shellVars
  PROVE  ShellInv'
<1>1. CASE UNCHANGED shellVars
  BY <1>1 DEF shellVars, shell, bridge, ShellInv, ShellTypeOK, OneOnItsWay, Written,
              Handled, Answered
<1>2. QED BY <1>1, CallerKeeps, BridgeKeeps DEF ShellNext

LEMMA ShellStarts ==
  ShellInit => ShellInv
BY DEF ShellInit, ShellInv, ShellTypeOK, OneOnItsWay

\* A caller that gets an answer gets the one to its own command (bridge.rs,
\* request, with the order kept by __main__.py), for any number of callers and
\* commands, though the bridge may die between any two steps of an exchange.
THEOREM AnswersMatch ==
  ASSUME NoCaller \notin Caller, DequeLimit \in Nat \ {0}
  PROVE  ShellSpec => AnswerIsOwn
<1>1. ShellInv /\ [ShellNext]_shellVars =>
        [\A c \in Caller : answer'[c] # answer[c] => answer'[c] = call[c]]_shellVars
  <2> SUFFICES ASSUME ShellInv, ShellNext, NEW c \in Caller, answer'[c] # answer[c]
               PROVE  answer'[c] = call[c]
    BY DEF shellVars
  <2>1. PICK d \in Caller : ReadAnswer(d)
    BY DEF ShellNext, Request, ReadEvent, ReadFails, Emit, Receive, Answer, Dies, shell
  <2>2. /\ mutex = d /\ stdout # <<>> /\ ~Head(stdout).event
        /\ answer' = [answer EXCEPT ![d] = Head(stdout).is]
    BY <2>1 DEF ReadAnswer
  <2>3. c = d
    BY <2>2 DEF ShellInv, ShellTypeOK
  <2>4. Answered(call[d]) /\ stdout \in Seq(Line) /\ Len(stdout) \in Nat
    BY <2>2 DEF ShellInv, ShellTypeOK, OneOnItsWay, Written, Handled
  <2>5. Head(stdout) = AnswerTo(call[d])
    BY <2>2, <2>4 DEF Answered
  <2>6. QED BY <2>2, <2>3, <2>5 DEF ShellInv, ShellTypeOK, AnswerTo
<1>2. QED
  BY <1>1, ShellStarts, ShellKeeps, PTL DEF ShellSpec, AnswerIsOwn

-----------------------------------------------------------------------------
\* Where the events are.
EventsInv ==
  1 .. emitted = shown \cup gone \cup ToSet(events) \cup EventsIn(stdout)

LEMMA ToSetIs ==
  ASSUME NEW T, NEW s \in Seq(T)
  PROVE  ToSet(s) = {s[i] : i \in 1 .. Len(s)}
BY DEF ToSet

LEMMA ToSetAppend ==
  ASSUME NEW s \in Seq(Nat), NEW n \in Nat
  PROVE  ToSet(Append(s, n)) = ToSet(s) \cup {n}
<1> DEFINE r == Append(s, n)
<1>1. /\ r \in Seq(Nat) /\ Len(r) = Len(s) + 1 /\ Len(s) \in Nat
      /\ \A i \in 1 .. Len(s) : r[i] = s[i]
      /\ r[Len(s) + 1] = n
  OBVIOUS
<1>2. ToSet(s) = {s[i] : i \in 1 .. Len(s)}
  BY ToSetIs
<1>3. ToSet(r) = {r[i] : i \in 1 .. Len(r)}
  BY <1>1, ToSetIs
<1> HIDE DEF r
<1>4. ToSet(r) \subseteq ToSet(s) \cup {n}
  <2> SUFFICES ASSUME NEW i \in 1 .. Len(r) PROVE r[i] \in ToSet(s) \cup {n}
    BY <1>3
  <2>1. i \in 1 .. Len(s) \/ i = Len(s) + 1
    BY <1>1
  <2>2. QED BY <1>1, <1>2, <2>1
<1>5. ToSet(s) \cup {n} \subseteq ToSet(r)
  BY <1>1, <1>2, <1>3
<1>6. QED BY <1>4, <1>5 DEF r

LEMMA ToSetTail ==
  ASSUME NEW s \in Seq(Nat), s # <<>>
  PROVE  ToSet(s) = {Head(s)} \cup ToSet(Tail(s))
<1> DEFINE r == Tail(s)
<1>1. /\ r \in Seq(Nat) /\ Len(r) = Len(s) - 1 /\ Len(s) \in Nat /\ Len(s) >= 1
      /\ \A i \in 1 .. Len(r) : r[i] = s[i + 1]
      /\ Head(s) = s[1]
  OBVIOUS
<1>2. ToSet(s) = {s[i] : i \in 1 .. Len(s)}
  BY ToSetIs
<1>3. ToSet(r) = {r[i] : i \in 1 .. Len(r)}
  BY <1>1, ToSetIs
<1> HIDE DEF r
<1>4. ToSet(s) \subseteq {Head(s)} \cup ToSet(r)
  <2> SUFFICES ASSUME NEW i \in 1 .. Len(s), i # 1 PROVE s[i] \in ToSet(r)
    BY <1>1, <1>2
  <2>1. i - 1 \in 1 .. Len(r) /\ r[i - 1] = s[i]
    BY <1>1
  <2>2. QED BY <1>3, <2>1
<1>5. {Head(s)} \cup ToSet(r) \subseteq ToSet(s)
  BY <1>1, <1>2, <1>3, SMTT(30)
<1>6. QED BY <1>4, <1>5 DEF r

LEMMA EventsInIs ==
  ASSUME NEW lines \in Seq(Line), NEW n
  PROVE  n \in EventsIn(lines)
           <=> \E i \in 1 .. Len(lines) : lines[i].event /\ lines[i].is = n
BY DEF EventsIn

\* What Answer writes holds the events it takes from the deque.
LEMMA WrittenEvents ==
  ASSUME NEW s \in Seq(Nat), NEW n \in Nat
  PROVE  EventsIn(Lines(s) \o <<AnswerTo(n)>>) = ToSet(s)
<1> DEFINE lines == Lines(s)
           all == lines \o <<AnswerTo(n)>>
<1>1. /\ lines \in Seq(Line) /\ Len(lines) = Len(s) /\ Len(s) \in Nat
      /\ \A i \in 1 .. Len(s) : lines[i] = [event |-> TRUE, is |-> s[i]]
  BY LinesAre
<1>2. AnswerTo(n) \in Line /\ ~AnswerTo(n).event
  BY DEF AnswerTo, Line
<1> HIDE DEF lines
<1>3. /\ all \in Seq(Line) /\ Len(all) = Len(s) + 1
      /\ \A i \in 1 .. Len(s) : all[i] = lines[i]
      /\ all[Len(s) + 1] = AnswerTo(n)
  BY <1>1, <1>2
<1> HIDE DEF all
<1>4. \A i \in 1 .. Len(s) : all[i].event /\ all[i].is = s[i]
  <2> TAKE i \in 1 .. Len(s)
  <2>1. all[i] = [event |-> TRUE, is |-> s[i]]
    BY <1>1, <1>3
  <2>2. QED BY <2>1
<1>5. ToSet(s) = {s[i] : i \in 1 .. Len(s)}
  BY ToSetIs
<1>6. ASSUME NEW m \in EventsIn(all) PROVE m \in ToSet(s)
  <2>1. PICK i \in 1 .. Len(all) : all[i].event /\ all[i].is = m
    BY <1>3, EventsInIs
  <2>2. i \in 1 .. Len(s)
    BY <1>1, <1>2, <1>3, <2>1
  <2>3. QED BY <1>4, <1>5, <2>1, <2>2
<1>7. ASSUME NEW m \in ToSet(s) PROVE m \in EventsIn(all)
  <2>1. PICK i \in 1 .. Len(s) : m = s[i]
    BY <1>5
  <2>2. i \in 1 .. Len(all)
    BY <1>1, <1>3
  <2>3. QED BY <1>3, <1>4, <2>1, <2>2, EventsInIs
<1>8. EventsIn(all) = ToSet(s)
  BY <1>6, <1>7
<1>9. QED BY <1>8 DEF all, lines

LEMMA ReadOne ==
  ASSUME NEW lines \in Seq(Line), lines # <<>>, Head(lines).event
  PROVE  EventsIn(lines) = {Head(lines).is} \cup EventsIn(Tail(lines))
<1> DEFINE rest == Tail(lines)
<1>1. /\ rest \in Seq(Line) /\ Len(rest) = Len(lines) - 1
      /\ Len(lines) \in Nat /\ Len(lines) >= 1
      /\ \A i \in 1 .. Len(rest) : rest[i] = lines[i + 1]
      /\ Head(lines) = lines[1]
  OBVIOUS
<1> HIDE DEF rest
<1>2. ASSUME NEW m \in EventsIn(lines) PROVE m = Head(lines).is \/ m \in EventsIn(rest)
  <2>1. PICK i \in 1 .. Len(lines) : lines[i].event /\ lines[i].is = m
    BY EventsInIs
  <2>2. CASE i # 1
    <3>1. i - 1 \in 1 .. Len(rest) /\ rest[i - 1] = lines[i]
      BY <1>1, <2>2
    <3>2. QED BY <1>1, <2>1, <3>1, EventsInIs
  <2>3. QED BY <1>1, <2>1, <2>2
<1>3. Head(lines).is \in EventsIn(lines)
  <2>1. 1 \in 1 .. Len(lines)
    BY <1>1
  <2>2. QED BY <1>1, <2>1, EventsInIs
<1>4. ASSUME NEW m \in EventsIn(rest) PROVE m \in EventsIn(lines)
  <2>1. PICK i \in 1 .. Len(rest) : rest[i].event /\ rest[i].is = m
    BY <1>1, EventsInIs
  <2>2. i + 1 \in 1 .. Len(lines) /\ lines[i + 1] = rest[i]
    BY <1>1
  <2>3. QED BY <2>1, <2>2, EventsInIs
<1>5. EventsIn(lines) = {Head(lines).is} \cup EventsIn(rest)
  BY <1>2, <1>3, <1>4
<1>6. QED BY <1>5 DEF rest

LEMMA NoLinesNoEvents ==
  EventsIn(<<>>) = {} /\ ToSet(<<>>) = {}
BY DEF EventsIn, ToSet

LEMMA EventsKeep ==
  ASSUME ShellInv, EventsInv, NoCaller \notin Caller, DequeLimit \in Nat \ {0}, ShellNext
  PROVE  EventsInv'
<1>0. /\ stdout \in Seq(Line) /\ events \in Seq(Nat) /\ emitted \in Nat
      /\ working \in Nat
  BY DEF ShellInv, ShellTypeOK
<1>1. CASE \E c \in Caller : Request(c)
  <2>1. /\ mutex = NoCaller /\ UNCHANGED <<shown, emitted>>
        /\ \/ UNCHANGED <<stdout, events, gone>>
           \/ /\ stdout' = <<>> /\ events' = <<>>
              /\ gone' = gone \cup ToSet(events) \cup EventsIn(stdout)
    BY <1>1 DEF Request
  <2>2. QED BY <2>1, NoLinesNoEvents DEF EventsInv
<1>2. CASE \E c \in Caller : ReadEvent(c)
  <2>1. /\ stdout # <<>> /\ Head(stdout).event /\ stdout' = Tail(stdout)
        /\ shown' = shown \cup {Head(stdout).is} /\ UNCHANGED <<events, emitted, gone>>
    BY <1>2 DEF ReadEvent
  <2>2. EventsIn(stdout) = {Head(stdout).is} \cup EventsIn(stdout')
    BY <1>0, <2>1, ReadOne
  <2>3. QED BY <2>1, <2>2 DEF EventsInv
<1>3. CASE \E c \in Caller : ReadAnswer(c)
  <2>1. /\ stdout # <<>> /\ ~Head(stdout).event /\ stdout' = <<>>
        /\ UNCHANGED <<shown, events, emitted, gone>>
    <3>1. PICK c \in Caller : ReadAnswer(c)
      BY <1>3
    <3>2. ShellInv' /\ mutex' = NoCaller
      BY <3>1, CallerKeeps DEF ReadAnswer
    <3>3. QED BY <3>1, <3>2 DEF ReadAnswer, ShellInv, OneOnItsWay
  <2>2. EventsIn(stdout) = {}
    <3>1. stdout' = Tail(stdout)
      BY <1>3 DEF ReadAnswer
    <3>2. Len(stdout) = 1 /\ Head(stdout) = stdout[1]
      <4>1. Len(Tail(stdout)) = Len(stdout) - 1 /\ Len(stdout) \in Nat
        BY <1>0, <2>1
      <4>2. Head(stdout) = stdout[1] /\ Len(<<>>) = 0
        BY <1>0, <2>1
      <4>3. Tail(stdout) = <<>>
        BY <2>1, <3>1
      <4>4. Len(stdout) - 1 = 0
        BY <4>1, <4>2, <4>3
      <4>5. QED BY <4>1, <4>2, <4>4
    <3>3. \A n : n \notin EventsIn(stdout)
      BY <1>0, <2>1, <3>2, EventsInIs
    <3>4. QED BY <3>3
  <2>3. QED BY <2>1, <2>2, NoLinesNoEvents DEF EventsInv
<1>4. CASE \E c \in Caller : ReadFails(c)
  <2>1. /\ stdout = <<>> /\ stdout' = <<>> /\ events' = <<>>
        /\ gone' = gone \cup ToSet(events) /\ UNCHANGED <<shown, emitted>>
    BY <1>4 DEF ReadFails, Drop
  <2>2. QED BY <2>1, NoLinesNoEvents DEF EventsInv
<1>5. CASE Emit
  <2>1. /\ emitted' = emitted + 1 /\ UNCHANGED <<shown, stdout>>
        /\ \/ events' = Append(events, emitted + 1) /\ UNCHANGED gone
           \/ /\ Len(events) >= DequeLimit
              /\ events' = Append(Tail(events), emitted + 1)
              /\ gone' = gone \cup {Head(events)}
    BY <1>0, <1>5 DEF Emit, shell
  <2>2. 1 .. emitted + 1 = (1 .. emitted) \cup {emitted + 1} /\ emitted + 1 \in Nat
    BY <1>0
  <2>3. CASE events' = Append(events, emitted + 1) /\ UNCHANGED gone
    <3>1. ToSet(events') = ToSet(events) \cup {emitted + 1}
      BY <1>0, <2>2, <2>3, ToSetAppend
    <3>2. QED BY <2>1, <2>2, <2>3, <3>1 DEF EventsInv
  <2>4. CASE /\ Len(events) >= DequeLimit
             /\ events' = Append(Tail(events), emitted + 1)
             /\ gone' = gone \cup {Head(events)}
    <3>1. events # <<>> /\ Tail(events) \in Seq(Nat)
      BY <1>0, <2>4
    <3>2. ToSet(events') = ToSet(Tail(events)) \cup {emitted + 1}
      BY <2>2, <2>4, <3>1, ToSetAppend
    <3>3. ToSet(events) = {Head(events)} \cup ToSet(Tail(events))
      BY <1>0, <3>1, ToSetTail
    <3>4. QED BY <2>1, <2>2, <2>4, <3>2, <3>3 DEF EventsInv
  <2>5. QED BY <2>1, <2>3, <2>4
<1>6. CASE Receive \/ Dies
  BY <1>6 DEF Receive, Dies, shell, EventsInv
<1>7. CASE Answer
  <2>1. /\ working # 0 /\ stdout' = stdout \o Lines(events) \o <<AnswerTo(working)>>
        /\ events' = <<>> /\ UNCHANGED <<shown, emitted, gone>>
    BY <1>7 DEF Answer, shell
  <2>2. stdout = <<>>
    BY <2>1 DEF ShellInv, OneOnItsWay, Written, Handled, Answered
  <2>3. Lines(events) \in Seq(Line)
    BY <1>0, LinesAre
  <2>4. stdout' = Lines(events) \o <<AnswerTo(working)>>
    BY <2>1, <2>2, <2>3
  <2>5. EventsIn(stdout') = ToSet(events)
    BY <1>0, <2>4, WrittenEvents
  <2>6. QED BY <2>1, <2>2, <2>5, NoLinesNoEvents DEF EventsInv
<1>8. QED
  BY <1>1, <1>2, <1>3, <1>4, <1>5, <1>6, <1>7 DEF ShellNext

\* When no command is under way every event emitted has been shown, waits in
\* the bridge for the next answer, or is known to be lost: none stays in the
\* pipe (__main__.py, emit_handle_result; bridge.rs, request).
THEOREM EventsAreAccounted ==
  ASSUME NoCaller \notin Caller, DequeLimit \in Nat \ {0}
  PROVE  ShellSpec => []NoEventWaits
<1>1. ShellInit => EventsInv
  BY NoLinesNoEvents DEF ShellInit, EventsInv
<1>2. ShellInv /\ EventsInv /\ [ShellNext]_shellVars => EventsInv'
  <2>1. UNCHANGED shellVars /\ EventsInv => EventsInv'
    BY DEF shellVars, shell, bridge, EventsInv
  <2>2. QED BY <2>1, EventsKeep
<1>3. ShellInv /\ EventsInv => NoEventWaits
  BY NoLinesNoEvents DEF ShellInv, OneOnItsWay, EventsInv, NoEventWaits
<1>4. QED
  BY <1>1, <1>2, <1>3, ShellStarts, ShellKeeps, PTL DEF ShellSpec

-----------------------------------------------------------------------------
(*****************************************************************************)
(* The lock file: every set of processes, any number of starts and crashes.  *)
(*****************************************************************************)
ProcessStage == {"off", "starting", "running"}

\* The strengthening: until a start has overlapped another, at most one
\* process is alive at all, and a running one owns the file.
LockInv ==
  /\ at \in [Process -> ProcessStage]
  /\ raced \in BOOLEAN
  /\ ~raced => /\ \A p, q \in Alive : p = q
               /\ \A p \in Process : at[p] = "running" => owner = p

-----------------------------------------------------------------------------
\* At most one element: what the invariant says in terms of Cardinality.
LEMMA AloneCounts ==
  ASSUME NEW R, \A p, q \in R : p = q
  PROVE  Cardinality(R) <= 1
<1>1. CASE R = {}
  BY <1>1, FS_EmptySet
<1>2. CASE R # {}
  <2>1. PICK p \in R : TRUE
    BY <1>2
  <2>2. R = {p}
    BY <2>1
  <2>3. QED BY <2>2, FS_Singleton
<1>3. QED BY <1>1, <1>2

\* A start that overlaps no other finds a live owner if a process runs, and is
\* refused: it goes on only when nobody is alive.
LEMMA LookKeeps ==
  ASSUME LockInv, NEW p \in Process, Look(p)
  PROVE  LockInv'
<1>1. at' = [at EXCEPT ![p] = "starting"] /\ owner' = owner
      /\ raced' = (raced \/ Starting # {}) /\ ~Refused
  BY DEF Look
<1>2. at' \in [Process -> ProcessStage] /\ raced' \in BOOLEAN
  BY <1>1 DEF LockInv, ProcessStage
<1>3. ASSUME ~raced' PROVE Alive = {}
  <2>1. ~raced /\ Starting = {}
    BY <1>1, <1>3
  <2>2. \A q \in Alive : at[q] = "running"
    BY <2>1 DEF LockInv, Alive, Starting, ProcessStage
  <2>3. \A q \in Alive : owner = q
    BY <2>1, <2>2 DEF LockInv, Alive
  <2>4. QED BY <1>1, <2>3 DEF Refused
<1>4. ASSUME ~raced' PROVE Alive' = {p}
  BY <1>1, <1>3, <1>4 DEF Alive, LockInv
<1>5. ASSUME ~raced', NEW q \in Process, at'[q] = "running" PROVE FALSE
  BY <1>1, <1>4, <1>5 DEF Alive, LockInv
<1>6. QED BY <1>2, <1>4, <1>5 DEF LockInv

\* The other steps leave at most the same process alive.
LEMMA OthersKeep ==
  ASSUME LockInv, NEW p \in Process, Take(p) \/ ReleaseLock(p) \/ Crash(p)
  PROVE  LockInv'
<1>1. CASE Take(p)
  <2>1. at' = [at EXCEPT ![p] = "running"] /\ owner' = p /\ raced' = raced
        /\ at[p] = "starting"
    BY <1>1 DEF Take
  <2>2. Alive' = Alive /\ p \in Alive
    BY <2>1 DEF Alive, LockInv
  <2>3. at' \in [Process -> ProcessStage]
    BY <2>1 DEF LockInv, ProcessStage
  <2>4. ASSUME ~raced, NEW q \in Process, at'[q] = "running" PROVE q = p
    BY <2>2, <2>4 DEF LockInv, Alive
  <2>5. QED BY <2>1, <2>2, <2>3, <2>4 DEF LockInv
<1>2. CASE ReleaseLock(p)
  <2>1. at' = [at EXCEPT ![p] = "off"] /\ raced' = raced /\ at[p] = "running"
    BY <1>2 DEF ReleaseLock
  <2>2. Alive' = Alive \ {p} /\ p \in Alive
    BY <2>1 DEF Alive, LockInv
  <2>3. at' \in [Process -> ProcessStage]
    BY <2>1 DEF LockInv, ProcessStage
  <2>4. ASSUME ~raced PROVE Alive' = {}
    BY <2>2, <2>4 DEF LockInv
  <2>5. ASSUME ~raced, NEW q \in Process PROVE at'[q] # "running"
    BY <2>4, <2>5 DEF Alive
  <2>6. QED BY <2>1, <2>3, <2>4, <2>5 DEF LockInv
<1>3. CASE Crash(p)
  <2>1. at' = [at EXCEPT ![p] = "off"] /\ raced' = raced /\ owner' = owner
    BY <1>3 DEF Crash
  <2>2. Alive' \subseteq Alive
    BY <2>1 DEF Alive, LockInv
  <2>3. at' \in [Process -> ProcessStage]
    BY <2>1 DEF LockInv, ProcessStage
  <2>4. \A q \in Process : at'[q] = "running" => at[q] = "running"
    BY <2>1 DEF LockInv
  <2>5. QED BY <2>1, <2>2, <2>3, <2>4 DEF LockInv
<1>4. QED BY <1>1, <1>2, <1>3

\* Two bridges without a shell run at the same time only if some start fell
\* between another's look at the lock file and its write (single_instance.py,
\* acquire_lock), whatever ended, crashed and started before.
THEOREM OneUnlessRaced == LockSpec => []SecondOnlyByRace
<1>1. LockInit => LockInv
  BY DEF LockInit, LockInv, Alive, ProcessStage
<1>2. LockInv /\ [LockNext]_lockVars => LockInv'
  <2> SUFFICES ASSUME LockInv, [LockNext]_lockVars PROVE LockInv'
    OBVIOUS
  <2>1. CASE UNCHANGED lockVars
    BY <2>1 DEF lockVars, LockInv, Alive
  <2>2. CASE LockNext
    BY <2>2, LookKeeps, OthersKeep DEF LockNext
  <2>3. QED BY <2>1, <2>2
<1>3. LockInv => SecondOnlyByRace
  <2> SUFFICES ASSUME LockInv, ~raced
               PROVE  Cardinality({p \in Process : at[p] = "running"}) <= 1
    BY DEF SecondOnlyByRace, LockInv
  <2>1. \A p, q \in {r \in Process : at[r] = "running"} : p = q
    BY DEF LockInv
  <2>2. QED BY <2>1, AloneCounts
<1>4. QED BY <1>1, <1>2, <1>3, PTL DEF LockSpec

-----------------------------------------------------------------------------
(*****************************************************************************)
(* The self-update: any number of releases, helpers and tries.               *)
(*****************************************************************************)
LaterThanExe(f) == f.of.version > exe.of.version

\* What may stand in <name>.new.exe: a verified download, or the first part of
\* a copy of one.
Stageable(f) ==
  /\ LaterThanExe(f)
  /\ "size" \in f.of.says => f.bytes # "cut"
  /\ "digest" \in f.of.says => f.bytes # "bad"

\* The strengthening: the command runs only while the program does, so what it
\* stages is of a later version than the EXE, which changes only while the
\* program is stopped; a copy begun while no helper was at work is whole before
\* one is.
UpdateInv ==
  /\ release \in Release
  /\ install.at \in {"idle", "download", "stage", "copy", "schedule"}
  /\ install.at # "idle" => app = "running" /\ LaterThanExe(install.file)
  /\ install.at \in {"stage", "copy", "schedule"} =>
       Verified(install.file) /\ install.file.bytes \in {"good", "cut", "bad"}
  /\ install.at = "schedule" => staged.bytes # "half"
  /\ staged # NoFile => Stageable(staged)
  /\ helper \in [Helper -> {"none", "waiting", "replacing", "relaunching"}]
  /\ staged.bytes = "half" /\ ~over => \A h \in Helper : helper[h] = "none"

-----------------------------------------------------------------------------
\* Only a verified download leaves the download stage.
LEMMA DownloadKeeps ==
  ASSUME UpdateInv, Download
  PROVE  UpdateInv'
<1>1. PICK bytes \in {"good", "cut", "bad"} :
        /\ install.at = "download" /\ Verified(Build(install.file.of, bytes))
        /\ install' = [at |-> "stage", file |-> Build(install.file.of, bytes)]
        /\ UNCHANGED <<release, skipped, store, process, over>>
  BY DEF Download
<1> DEFINE f == Build(install.file.of, bytes)
<1>2. f.of = install.file.of /\ f.bytes = bytes
  BY DEF Build
<1>3. install'.at = "stage" /\ install'.file = f
  BY <1>1
<1> HIDE DEF f
<1>4. Verified(f) /\ LaterThanExe(f) /\ app = "running"
  BY <1>1, <1>2 DEF UpdateInv, LaterThanExe, f
<1>5. Verified(install.file)' /\ LaterThanExe(install.file)'
  BY <1>1, <1>3, <1>4 DEF Verified, LaterThanExe, store
<1>6. Stageable(staged) = Stageable(staged)'
  BY <1>1 DEF Stageable, LaterThanExe, store
<1>7. QED BY <1>1, <1>2, <1>3, <1>4, <1>5, <1>6 DEF UpdateInv, store, process

\* The copy: the file is half there first, and whole when the helper starts.
LEMMA StagingKeeps ==
  ASSUME UpdateInv, Stage \/ Copied
  PROVE  UpdateInv'
<1>1. CASE Stage
  <2>1. /\ staged'.of = install.file.of /\ staged'.bytes = "half"
        /\ install'.at = "copy" /\ install'.file = install.file
        /\ UNCHANGED <<release, exe, app, helper>>
    BY <1>1 DEF Stage, Build, process, UpdateInv
  <2>2. Stageable(staged)' /\ LaterThanExe(install.file)' /\ Verified(install.file)'
    BY <1>1, <2>1 DEF Stage, UpdateInv, Stageable, LaterThanExe, Verified
  <2>3. ~over' => \A h \in Helper : helper'[h] = "none"
    BY <1>1, <2>1 DEF Stage
  <2>4. QED BY <1>1, <2>1, <2>2, <2>3 DEF Stage, UpdateInv
<1>2. CASE Copied
  <2>1. /\ staged' = install.file /\ install'.at = "schedule"
        /\ install'.file = install.file /\ UNCHANGED <<release, exe, app, helper>>
    BY <1>2 DEF Copied, process, UpdateInv
  <2>2. Stageable(staged)' /\ LaterThanExe(install.file)' /\ Verified(install.file)'
    BY <1>2, <2>1 DEF Copied, UpdateInv, Stageable, LaterThanExe, Verified
  <2>3. staged'.bytes # "half"
    BY <1>2, <2>1 DEF Copied, UpdateInv
  <2>4. QED BY <1>2, <2>1, <2>2, <2>3 DEF Copied, UpdateInv
<1>3. QED BY <1>1, <1>2

\* Every step of a helper.
LEMMA HelperKeeps ==
  ASSUME UpdateInv, NEW h \in Helper,
         Schedule(h) \/ KillApp(h) \/ Replace(h) \/ ReplaceFails(h) \/ Relaunch(h)
  PROVE  UpdateInv'
<1> USE DEF UpdateInv, store, HelperGoes, NoInstall
<1>1. CASE Schedule(h)
  BY <1>1 DEF Schedule, Stageable, LaterThanExe
<1>2. CASE KillApp(h)
  BY <1>2 DEF KillApp, Stageable, LaterThanExe
<1>3. CASE Replace(h)
  BY <1>3 DEF Replace, NoFile, Build
<1>4. CASE ReplaceFails(h)
  BY <1>4 DEF ReplaceFails, Stageable, LaterThanExe, Verified
<1>5. CASE Relaunch(h)
  BY <1>5 DEF Relaunch, Stageable, LaterThanExe, Verified
<1>6. QED BY <1>1, <1>2, <1>3, <1>4, <1>5

LEMMA StepKeeps ==
  ASSUME UpdateInv, UpdateNext
  PROVE  UpdateInv'
<1> USE DEF UpdateInv, store, process, Stageable, LaterThanExe, Verified
<1>1. CASE Publish \/ Skip
  BY <1>1 DEF Publish, Skip
<1>2. CASE Install
  BY <1>2 DEF Install, UpdateFor, Build
<1>3. CASE Download
  BY <1>3, DownloadKeeps
<1>4. CASE DownloadFails \/ StageFails \/ Quit
  BY <1>4 DEF DownloadFails, StageFails, Quit, NoInstall
<1>5. CASE Stage \/ Copied
  BY <1>5, StagingKeeps
<1>6. CASE Start
  BY <1>6 DEF Start
<1>7. CASE \E h \in Helper :
        Schedule(h) \/ KillApp(h) \/ Replace(h) \/ ReplaceFails(h) \/ Relaunch(h)
  BY <1>7, HelperKeeps
<1>8. QED
  BY <1>1, <1>2, <1>3, <1>4, <1>5, <1>6, <1>7 DEF UpdateNext

\* A new EXE takes the place of the old one only while the program is stopped,
\* is of a later version, is whole and authentic as far as its release said
\* how to tell, and is the first part of an interrupted copy only if that copy
\* was begun under the helper of an earlier install (updater.py,
\* download_release, schedule_windows_replace_and_restart and the helper
\* script), for any number of helpers, whatever the network delivers and
\* whenever the user installs, quits or starts the program.
THEOREM SoundInstalls == UpdateSpec => InstallsAreSound
<1>1. UpdateInit => UpdateInv
  BY DEF UpdateInit, UpdateInv, NoInstall, NoFile, Build
<1>2. UpdateInv /\ [UpdateNext]_updateVars => UpdateInv'
  <2> SUFFICES ASSUME UpdateInv, UNCHANGED updateVars PROVE UpdateInv'
    BY StepKeeps
  <2>1. QED
    BY DEF UpdateInv, updateVars, store, process, Stageable, LaterThanExe, Verified
<1> DEFINE Sound ==
      /\ app = "stopped" /\ exe'.of.version > exe.of.version
      /\ "size" \in exe'.of.says => exe'.bytes # "cut"
      /\ "digest" \in exe'.of.says => exe'.bytes # "bad"
      /\ exe'.bytes = "half" => over
<1>3. UpdateInv /\ [UpdateNext]_updateVars => [exe' # exe => Sound]_updateVars
  <2> SUFFICES ASSUME UpdateInv, UpdateNext, exe' # exe PROVE Sound
    BY DEF updateVars, store
  <2>1. PICK h \in Helper : Replace(h)
    BY DEF UpdateNext, Publish, Skip, Install, Download, DownloadFails, Stage, Copied,
           StageFails, Quit, Start, Schedule, KillApp, ReplaceFails, Relaunch, store
  <2>2. QED BY <2>1 DEF Replace, UpdateInv, Stageable, LaterThanExe
<1>4. QED BY <1>1, <1>2, <1>3, PTL DEF UpdateSpec, InstallsAreSound

-----------------------------------------------------------------------------
(*****************************************************************************)
(* The automatic weather: any number of pulses, plans, kinds of weather and  *)
(* moves of the flight.                                                      *)
(*****************************************************************************)
PulseType ==
  [at : {"rest", "consider", "locate", "fetch", "print", "mark"},
   plan : Ofp \cup {NoOfp}, flight : {"ground", "away", "ring"},
   bodies : SUBSET Kind]

\* The plan a pulse works on is one that was not printed, and stays it until
\* the pulse itself marks it.
Works(t) == pulse[t].at \in {"locate", "fetch", "print", "mark"}

\* Only the holder of the lock is on its way, so between looking at the mark
\* and setting it no other pulse prints; strips of a plan that is not marked,
\* beyond one for each pulse that raised, are those of the pulse about to mark
\* it.
WeatherInv ==
  /\ plan \in Ofp \cup {NoOfp} /\ flight \in {"ground", "away", "ring"}
  /\ pulse \in [Ticker -> PulseType]
  /\ strips \in [Ofp -> [Kind -> Nat]] /\ raised \in [Ofp -> Nat]
  /\ \A t \in Ticker : pulse[t].at # "rest" => holder = t
  /\ \A t \in Ticker : Works(t) => pulse[t].plan \in Ofp \ printed
  /\ \A o \in Ofp, k \in Kind : strips[o][k] <= 1 + raised[o]
  /\ \A o \in Ofp \ printed, k \in Kind :
       strips[o][k] > raised[o] =>
         \E t \in Ticker : pulse[t].at = "mark" /\ pulse[t].plan = o

\* A pulse that has come to a later place, with a plan that was not printed if
\* it works on one, and has neither printed nor marked.
LEMMA PulseGoes ==
  ASSUME WeatherInv, NEW t \in Ticker, NEW r \in PulseType,
         pulse[t].at \notin {"rest", "mark"}, r.at # "rest",
         r.at # "consider" => r.plan \in Ofp \ printed,
         pulse' = [pulse EXCEPT ![t] = r],
         UNCHANGED <<flight, plan, holder, printed, strips, raised>>
  PROVE  WeatherInv'
<1>1. holder = t
  BY DEF WeatherInv
<1>2. QED BY <1>1 DEF WeatherInv, Works, PulseType

\* A pulse that gives up leaves everyone at rest.
LEMMA PulseEnds ==
  ASSUME WeatherInv, NEW t \in Ticker, pulse[t].at \notin {"rest", "mark"},
         LetGo(t), UNCHANGED <<flight, plan, printed, strips, raised>>
  PROVE  WeatherInv'
<1>1. Resting \in PulseType /\ Resting.at = "rest"
  BY DEF Resting, PulseType
<1>2. \A u \in Ticker : u # t => pulse[u].at = "rest"
  BY DEF WeatherInv
<1>3. \A o \in Ofp \ printed, k \in Kind : ~(strips[o][k] > raised[o])
  BY <1>2 DEF WeatherInv
<1>4. pulse' \in [Ticker -> PulseType] /\ \A u \in Ticker : pulse'[u].at = "rest"
  BY <1>1, <1>2 DEF LetGo, WeatherInv
<1>5. QED BY <1>3, <1>4 DEF WeatherInv, Works

LEMMA PulseKeeps ==
  ASSUME WeatherInv, NoOfp \notin Ofp, NoTicker \notin Ticker,
         NEW t \in Ticker, Pulse(t)
  PROVE  WeatherInv'
<1> DEFINE old == pulse[t]
<1>0. old \in PulseType
  BY DEF WeatherInv
<1>1. CASE Tick(t)
  <2>1. [Resting EXCEPT !.at = "consider", !.flight = flight] \in PulseType
    BY DEF Resting, PulseType, WeatherInv
  <2>2. \A u \in Ticker : pulse[u].at = "rest"
    BY <1>1 DEF Tick, WeatherInv
  <2> DEFINE new == [Resting EXCEPT !.at = "consider", !.flight = flight]
  <2>3. new.at = "consider" /\ pulse' = [pulse EXCEPT ![t] = new] /\ holder' = t
        /\ UNCHANGED <<flight, plan, printed, strips, raised>>
    BY <1>1 DEF Tick, world, Resting
  <2> HIDE DEF new
  <2>4. pulse' \in [Ticker -> PulseType]
    BY <2>1, <2>3 DEF WeatherInv, new
  <2>5. \A u \in Ticker : pulse'[u].at # "rest" => u = t /\ pulse'[u].at = "consider"
    BY <2>2, <2>3 DEF WeatherInv
  <2>6. \A o \in Ofp \ printed, k \in Kind : ~(strips[o][k] > raised[o])
    BY <2>2 DEF WeatherInv
  <2>7. /\ plan' \in Ofp \cup {NoOfp} /\ flight' \in {"ground", "away", "ring"}
        /\ strips' \in [Ofp -> [Kind -> Nat]] /\ raised' \in [Ofp -> Nat]
        /\ \A o \in Ofp, k \in Kind : strips'[o][k] <= 1 + raised'[o]
    BY <2>3 DEF WeatherInv
  <2>8. \A u \in Ticker : pulse'[u].at # "rest" => holder' = u
    BY <2>3, <2>5
  <2>9. \A u \in Ticker : pulse'[u].at \notin {"locate", "fetch", "print", "mark"}
    BY <2>5
  <2>10. \A o \in Ofp \ printed', k \in Kind : ~(strips'[o][k] > raised'[o])
    BY <2>3, <2>6
  <2>11. QED BY <2>4, <2>7, <2>8, <2>9, <2>10 DEF WeatherInv, Works
<1>2. CASE Leave(t) \/ LocateFails(t) \/ FetchFails(t)
  BY <1>2, PulseEnds DEF Leave, LocateFails, FetchFails, world
<1>3. CASE Consider(t)
  <2> DEFINE new == [old EXCEPT !.at = "locate", !.plan = plan]
  <2>1. plan \in Ofp \ printed /\ old.at = "consider"
    BY <1>3 DEF Consider, WeatherInv
  <2>2. new \in PulseType /\ new.at = "locate" /\ new.plan = plan
    BY <1>0, <2>1 DEF PulseType
  <2>3. pulse' = [pulse EXCEPT ![t] = new]
        /\ UNCHANGED <<flight, plan, holder, printed, strips, raised>>
    BY <1>3 DEF Consider, world
  <2> HIDE DEF new
  <2>4. QED BY <2>1, <2>2, <2>3, PulseGoes
<1>4. CASE Locate(t)
  BY <1>4 DEF Locate, WeatherInv, Works, world
<1>5. CASE Decide(t)
  <2>1. CASE Goes(t, "fetch") /\ UNCHANGED holder
    <3> DEFINE new == [old EXCEPT !.at = "fetch"]
    <3>1. old.at = "locate" /\ old.plan \in Ofp \ printed
      BY <1>5 DEF Decide, WeatherInv, Works
    <3>2. new \in PulseType /\ new.at = "fetch" /\ new.plan = old.plan
      BY <1>0 DEF PulseType
    <3>3. pulse' = [pulse EXCEPT ![t] = new]
          /\ UNCHANGED <<flight, plan, holder, printed, strips, raised>>
      BY <1>5, <2>1 DEF Decide, Goes, world
    <3> HIDE DEF new
    <3>4. QED BY <3>1, <3>2, <3>3, PulseGoes
  <2>2. CASE LetGo(t)
    BY <1>5, <2>2, PulseEnds DEF Decide, world
  <2>3. QED BY <1>5, <2>1, <2>2 DEF Decide
<1>6. CASE Fetch(t)
  <2>1. PICK bodies \in SUBSET Kind \ {{}} :
          pulse' = [pulse EXCEPT ![t].at = "print", ![t].bodies = bodies]
    BY <1>6 DEF Fetch
  <2> DEFINE new == [old EXCEPT !.at = "print", !.bodies = bodies]
  <2>2. old.at = "fetch" /\ old.plan \in Ofp \ printed
    BY <1>6 DEF Fetch, WeatherInv, Works
  <2>3. new \in PulseType /\ new.at = "print" /\ new.plan = old.plan
    BY <1>0 DEF PulseType
  <2>4. pulse' = [pulse EXCEPT ![t] = new]
        /\ UNCHANGED <<flight, plan, holder, printed, strips, raised>>
    BY <1>6, <2>1 DEF Fetch, world
  <2> HIDE DEF new
  <2>5. QED BY <2>2, <2>3, <2>4, PulseGoes
<1>7. CASE PrintBodies(t)
  <2> DEFINE o == old.plan
             printing == [k \in Kind |-> strips[o][k] + IF k \in old.bodies THEN 1 ELSE 0]
  <2>1. /\ old.at = "print" /\ o \in Ofp \ printed /\ holder = t
        /\ \A u \in Ticker \ {t} : pulse[u].at = "rest"
    BY <1>7 DEF PrintBodies, WeatherInv, Works
  <2>2. /\ raised[o] \in Nat
        /\ \A k \in Kind : strips[o][k] \in Nat /\ strips[o][k] <= raised[o]
    BY <2>1 DEF WeatherInv
  <2>3. printing \in [Kind -> Nat] /\ \A k \in Kind : printing[k] <= 1 + raised[o]
    BY <2>2
  <2>4. strips' = [strips EXCEPT ![o] = printing]
    BY <1>7 DEF PrintBodies
  <2>5. [old EXCEPT !.at = "mark"] \in PulseType
    BY <1>0 DEF WeatherInv, PulseType
  <2>6. pulse' = [pulse EXCEPT ![t] = [old EXCEPT !.at = "mark"]]
        /\ UNCHANGED <<world, holder, printed, raised>>
    BY <1>7 DEF PrintBodies, Goes
  <2> HIDE DEF printing
  <2>7. QED BY <2>1, <2>2, <2>3, <2>4, <2>5, <2>6 DEF WeatherInv, Works, world
<1>8. CASE Mark(t)
  <2>1. Resting \in PulseType
    BY DEF Resting, PulseType
  <2>2. QED BY <1>8, <2>1 DEF Mark, LetGo, WeatherInv, Works, world, Resting
<1>9. CASE PrintRaises(t)
  <2> DEFINE o == old.plan
  <2>1. PICK done \in SUBSET old.bodies :
          strips' = [strips EXCEPT ![o] =
                       [k \in Kind |-> strips[o][k] + IF k \in done THEN 1 ELSE 0]]
    BY <1>9 DEF PrintRaises
  <2> DEFINE out == [k \in Kind |-> strips[o][k] + IF k \in done THEN 1 ELSE 0]
  <2>2. /\ old.at = "print" /\ o \in Ofp \ printed
        /\ \A u \in Ticker \ {t} : pulse[u].at = "rest"
    BY <1>9 DEF PrintRaises, WeatherInv, Works
  <2>3. \A k \in Kind : strips[o][k] \in Nat /\ strips[o][k] <= raised[o]
    BY <2>2 DEF WeatherInv
  <2>4. raised' = [raised EXCEPT ![o] = raised[o] + 1] /\ raised[o] \in Nat
    BY <1>9, <2>2 DEF PrintRaises, WeatherInv
  <2>5. out \in [Kind -> Nat] /\ \A k \in Kind : out[k] <= raised[o] + 1
    BY <2>3, <2>4
  <2>6. strips' = [strips EXCEPT ![o] = out]
    BY <2>1
  <2> HIDE DEF out
  <2>7. /\ strips' \in [Ofp -> [Kind -> Nat]] /\ raised' \in [Ofp -> Nat]
        /\ \A k \in Kind : strips'[o][k] <= raised'[o]
        /\ \A p \in Ofp \ {o} : strips'[p] = strips[p] /\ raised'[p] = raised[p]
    BY <2>2, <2>4, <2>5, <2>6 DEF WeatherInv
  <2>8. \A p \in Ofp \ printed, k \in Kind : p # o => ~(strips[p][k] > raised[p])
    BY <2>2 DEF WeatherInv
  <2>9. Resting \in PulseType /\ Resting.at = "rest"
    BY DEF Resting, PulseType
  <2>10. /\ pulse' \in [Ticker -> PulseType]
         /\ \A u \in Ticker : pulse'[u].at = "rest"
         /\ UNCHANGED <<flight, plan, printed>>
    BY <1>9, <2>2, <2>9 DEF PrintRaises, LetGo, WeatherInv
  <2>11. \A p \in Ofp \ printed', k \in Kind : ~(strips'[p][k] > raised'[p])
    BY <2>2, <2>7, <2>8, <2>10
  <2>12. \A p \in Ofp, k \in Kind : strips'[p][k] <= 1 + raised'[p]
    BY <2>2, <2>7 DEF WeatherInv
  <2>13. QED BY <2>7, <2>10, <2>11, <2>12 DEF WeatherInv, Works
<1>10. QED
  BY <1>1, <1>2, <1>3, <1>4, <1>5, <1>6, <1>7, <1>8, <1>9 DEF Pulse

\* Within a run of the program a plan's destination weather prints at most once,
\* and once more for each pulse in which a print raised (auto_wx.py, consider,
\* under the tick lock of runtime.py), for any number of pulses and plans,
\* whatever the flight, the gate and the fetches do.
THEOREM WeatherOncePerPlan ==
  ASSUME NoOfp \notin Ofp, NoTicker \notin Ticker
  PROVE  WeatherSpec => []WxOncePerOfp
<1>1. WeatherInit => WeatherInv
  BY DEF WeatherInit, WeatherInv, Works, Resting, PulseType
<1>2. WeatherInv /\ [WeatherNext]_weatherVars => WeatherInv'
  <2> SUFFICES ASSUME WeatherInv, [WeatherNext]_weatherVars PROVE WeatherInv'
    OBVIOUS
  <2>1. CASE Move
    BY <2>1 DEF Move, WeatherInv, Works
  <2>2. CASE \E t \in Ticker : Pulse(t)
    BY <2>2, PulseKeeps
  <2>3. CASE UNCHANGED weatherVars
    BY <2>3 DEF weatherVars, world, WeatherInv, Works
  <2>4. QED BY <2>1, <2>2, <2>3 DEF WeatherNext
<1>3. WeatherInv => WxOncePerOfp
  BY DEF WeatherInv, WxOncePerOfp
<1>4. QED BY <1>1, <1>2, <1>3, PTL DEF WeatherSpec

-----------------------------------------------------------------------------
(*****************************************************************************)
(* The settings and the print formats: any whole numbers typed or found in   *)
(* the database, and any profiles.  What a setting shows is a value its      *)
(* limits leave as it is (Good), whether it was read from the table, from a  *)
(* preset of an old version or from a profile, and such a value is kept and  *)
(* read back unchanged.                                                      *)
(*****************************************************************************)
FormatKnobs ==
  {"paper_width", "cut_enabled", "print_font", "print_bold", "print_render_mode",
   "print_char_width", "print_char_height", "print_line_spacing_dots",
   "print_glyph_px", "print_line_gap_px", "print_columns", "print_lead_in",
   "print_tear_feed"}

PageKnobs ==
  {"auto_print", "auto_connect", "check_updates", "simbrief_enabled",
   "hotkeys_enabled", "print_when_powered", "wx_auto_enabled", "companion_enabled",
   "companion_station_enabled", "simbrief_post_landing_grace_seconds",
   "sterile_agl_ft", "xplane_port", "companion_port", "wx_auto_nm"}

LEMMA KnobsAre == FormatKnob = FormatKnobs /\ PageKnob = PageKnobs
<1>1. DOMAIN FormatRange = FormatKnobs
  BY DEF FormatRange, FormatKnobs
<1>2. DOMAIN PageRange = PageKnobs
  BY DEF PageRange, PageKnobs
<1>3. QED BY <1>1, <1>2 DEF FormatKnob, PageKnob

\* What a setting's limits may be.
Proper(k, r) ==
  /\ r.kind \in {"clamp", "auto", "port", "two", "snap"}
  /\ r.lo \in Int /\ r.hi \in Int /\ r.def \in Int /\ r.lo <= r.hi
  /\ r.kind \in {"clamp", "port"} => r.lo <= r.def /\ r.def <= r.hi
  /\ r.kind = "two" => r.def \in {0, 1} /\ r.lo = 0 /\ r.hi = 1
  /\ r.kind = "snap" => r.def = 1500
  /\ r.kind = "auto" => r.def = 0 /\ r.lo >= 1
  /\ k \in {"paper_width", "print_render_mode"} => r.kind = "two"
  /\ k \in {"print_char_width", "print_char_height"} =>
       r.kind = "clamp" /\ r.lo <= 2 /\ 2 <= r.hi
  /\ k \in {"print_line_spacing_dots", "print_columns"} <=> r.kind = "auto"
  /\ k = "print_line_spacing_dots" => r.hi >= 40 /\ r.lo <= 24

LEMMA FormatProper ==
  ASSUME NEW k \in FormatKnobs
  PROVE  Proper(k, FormatRange[k])
<1>1. CASE k \in {"paper_width", "cut_enabled", "print_font"}
  BY <1>1 DEF FormatRange, Proper, Flag
<1>2. CASE k \in {"print_bold", "print_render_mode", "print_char_width"}
  BY <1>2 DEF FormatRange, Proper, Flag, Clamp
<1>3. CASE k \in {"print_char_height", "print_line_spacing_dots", "print_glyph_px"}
  BY <1>3 DEF FormatRange, Proper, Clamp, OrAuto
<1>4. CASE k \in {"print_line_gap_px", "print_columns"}
  BY <1>4 DEF FormatRange, Proper, Clamp, OrAuto
<1>5. CASE k \in {"print_lead_in", "print_tear_feed"}
  BY <1>5 DEF FormatRange, Proper, Clamp
<1>6. QED BY <1>1, <1>2, <1>3, <1>4, <1>5 DEF FormatKnobs

LEMMA PageProper ==
  ASSUME NEW k \in PageKnobs
  PROVE  Proper(k, PageRange[k])
<1>1. CASE k \in {"auto_print", "auto_connect", "check_updates"}
  BY <1>1 DEF PageRange, Proper, Flag
<1>2. CASE k \in {"simbrief_enabled", "hotkeys_enabled", "print_when_powered"}
  BY <1>2 DEF PageRange, Proper, Flag
<1>3. CASE k \in {"wx_auto_enabled", "companion_enabled", "companion_station_enabled"}
  BY <1>3 DEF PageRange, Proper, Flag
<1>4. CASE k \in {"simbrief_post_landing_grace_seconds", "sterile_agl_ft"}
  BY <1>4 DEF PageRange, Proper, Clamp
<1>5. CASE k \in {"xplane_port", "companion_port", "wx_auto_nm"}
  BY <1>5 DEF PageRange, Proper, Port, Clamp
<1>6. QED BY <1>1, <1>2, <1>3, <1>4, <1>5 DEF PageKnobs

LEMMA KnobProper ==
  ASSUME NEW k \in Knob
  PROVE  Proper(k, Limits(k))
<1>1. CASE k \in FormatKnob
  BY <1>1, KnobsAre, FormatProper DEF Limits
<1>2. CASE k \notin FormatKnob
  <2>1. k \in PageKnob
    BY <1>2 DEF Knob
  <2>2. QED BY <1>2, <2>1, KnobsAre, PageProper DEF Limits
<1>3. QED BY <1>1, <1>2

\* The nearest choice is one of the choices, and a choice is nearest to itself.
Away(c, n) == IF c < n THEN n - c ELSE c - n

LEMMA SnapIs ==
  ASSUME NEW n \in Int
  PROVE  /\ Snap(n) \in SterileChoice /\ Snap(n) \in Int
         /\ n \in SterileChoice => Snap(n) = n
<1> DEFINE Weight(c) == 20001 * Away(c, n) + c
           W == {Weight(c) : c \in SterileChoice}
           Nearest(c) == \A d \in SterileChoice :
                           Away(c, n) < Away(d, n) \/ (Away(c, n) = Away(d, n) /\ c <= d)
<1>1. \A c \in SterileChoice : c \in Nat /\ c <= 10000
  BY DEF SterileChoice
<1>2. 0 \in SterileChoice
  BY DEF SterileChoice
<1>3. \A c \in SterileChoice : Away(c, n) \in Nat
  BY <1>1 DEF Away
<1>4. \A c \in SterileChoice : Weight(c) \in Nat
  BY <1>1, <1>3
<1>5. PICK m \in W : \A w \in W : m <= w
  <2>1. W \in SUBSET Nat /\ W # {}
    BY <1>2, <1>4
  <2> HIDE DEF W
  <2>2. QED BY <2>1, HasLeast
<1>6. PICK c \in SterileChoice : m = Weight(c)
  OBVIOUS
<1>7. ASSUME NEW d \in SterileChoice
      PROVE  Away(c, n) < Away(d, n) \/ (Away(c, n) = Away(d, n) /\ c <= d)
  <2>1. Weight(c) <= Weight(d)
    BY <1>5, <1>6
  <2>2. PICK a \in Nat, b \in Nat : a = Away(c, n) /\ b = Away(d, n)
    BY <1>3
  <2>3. 20001 * a + c <= 20001 * b + d
    BY <2>1, <2>2
  <2>4. a < b \/ (a = b /\ c <= d)
    BY <1>1, <2>3
  <2>5. QED BY <2>2, <2>4
<1>8. Nearest(c)
  BY <1>7
<1>9. Snap(n) = CHOOSE x \in SterileChoice : Nearest(x)
  BY DEF Snap, Away
<1>10. Snap(n) \in SterileChoice /\ Nearest(Snap(n))
  <2> HIDE DEF Nearest
  <2>1. QED BY <1>8, <1>9
<1>11. ASSUME n \in SterileChoice PROVE Snap(n) = n
  <2>1. Away(n, n) = 0
    BY DEF Away
  <2>2. Away(Snap(n), n) \in Nat
    BY <1>3, <1>10
  <2>3. Away(Snap(n), n) < Away(n, n) \/ Away(Snap(n), n) = Away(n, n)
    BY <1>10, <1>11
  <2>4. Away(Snap(n), n) = 0
    BY <2>1, <2>2, <2>3
  <2>5. Snap(n) \in Nat
    BY <1>1, <1>10
  <2>6. QED BY <2>4, <2>5 DEF Away
<1>12. QED BY <1>1, <1>10, <1>11

\* The values a setting shows: those its limits leave as they are.
Good(k, n) == n \in Int /\ Fit(k, n) = n

LEMMA OfJunkGood ==
  ASSUME NEW k \in Knob
  PROVE  Good(k, OfJunk(k))
<1>1. PICK r : r = Limits(k) /\ Proper(k, r)
  BY KnobProper
<1>2. CASE r.kind = "snap"
  <2>1. 1500 \in SterileChoice
    BY DEF SterileChoice
  <2>2. Snap(1500) = 1500
    BY <2>1, SnapIs
  <2>3. OfJunk(k) = 1500 /\ Fit(k, 1500) = Snap(1500)
    BY <1>1, <1>2 DEF Proper, OfJunk, Fit
  <2>4. QED BY <2>2, <2>3 DEF Good
<1>3. CASE r.kind = "two"
  <2>1. OfJunk(k) \in {0, 1}
    BY <1>1, <1>3 DEF OfJunk
  <2>2. ASSUME NEW n \in {0, 1} PROVE Fit(k, n) = n
    BY <1>1, <1>3 DEF Proper, Fit, Bend
  <2>3. QED BY <2>1, <2>2 DEF Good
<1>4. CASE r.kind \in {"auto", "clamp", "port"}
  BY <1>1, <1>4 DEF Proper, Good, OfJunk, Fit, Bend
<1>5. QED BY <1>1, <1>2, <1>3, <1>4 DEF Proper

LEMMA FitGood ==
  ASSUME NEW k \in Knob, NEW n \in Int
  PROVE  Good(k, Fit(k, n))
<1>1. PICK r : r = Limits(k) /\ Proper(k, r)
  BY KnobProper
<1>2. CASE r.kind = "snap"
  <2>1. Snap(n) \in SterileChoice /\ Snap(n) \in Int
    BY SnapIs
  <2>2. Snap(Snap(n)) = Snap(n)
    BY <2>1, SnapIs
  <2>3. Fit(k, n) = Snap(n) /\ Fit(k, Snap(n)) = Snap(Snap(n))
    BY <1>1, <1>2 DEF Fit
  <2>4. QED BY <2>1, <2>2, <2>3 DEF Good
<1>3. CASE r.kind = "port"
  BY <1>1, <1>3 DEF Proper, Good, Fit
<1>4. CASE r.kind = "two"
  <2>1. CASE n \in {0, 1}
    BY <1>1, <1>4, <2>1 DEF Proper, Good, Fit, Bend
  <2>2. CASE n \notin {0, 1}
    <3>1. Fit(k, n) = OfJunk(k)
      BY <1>1, <1>4, <2>2 DEF Fit
    <3>2. QED BY <3>1, OfJunkGood
  <2>3. QED BY <2>1, <2>2
<1>5. CASE r.kind = "auto"
  BY <1>1, <1>5 DEF Proper, Good, Fit, Bend
<1>6. CASE r.kind = "clamp"
  BY <1>1, <1>6 DEF Proper, Good, Fit, Bend
<1>7. QED BY <1>1, <1>2, <1>3, <1>4, <1>5, <1>6 DEF Proper

\* What is good is kept and read as it is.
LEMMA GoodBack ==
  ASSUME NEW k \in Knob, NEW n, Good(k, n)
  PROVE  Read(k, Kept(k, Number(n))) = n
<1>1. PICK r : r = Limits(k) /\ Proper(k, r)
  BY KnobProper
<1>2. n \in Int /\ Fit(k, n) = n /\ Number(n).is = "number" /\ Number(n).n = n
  BY DEF Good, Number, Text
<1>3. CASE r.kind # "auto" \/ n # 0
  <2>1. Kept(k, Number(n)) = Number(n)
    BY <1>1, <1>2, <1>3 DEF Kept
  <2>2. Read(k, Number(n)) = n
    BY <1>2 DEF Read
  <2>3. QED BY <2>1, <2>2
<1>4. CASE r.kind = "auto" /\ n = 0
  <2>1. CASE k = "print_columns"
    <3>1. Kept(k, Number(n)) = Absent
      BY <1>1, <1>2, <1>4, <2>1 DEF Kept
    <3>2. Read(k, Absent) = FromPreset(k)
      BY DEF Read, Absent, Text
    <3>3. FromPreset(k) = 0
      BY <1>1, <1>4, <2>1 DEF Proper, FromPreset
    <3>4. QED BY <1>4, <3>1, <3>2, <3>3
  <2>2. CASE k # "print_columns"
    <3>1. Kept(k, Number(n)) = Junk
      BY <1>1, <1>2, <1>4, <2>2 DEF Kept
    <3>2. Read(k, Junk) = OfJunk(k)
      BY DEF Read, Junk, Text
    <3>3. OfJunk(k) = 0
      BY <1>1, <1>4 DEF Proper, OfJunk
    <3>4. QED BY <1>4, <3>1, <3>2, <3>3
  <2>3. QED BY <2>1, <2>2
<1>5. QED BY <1>3, <1>4

LEMMA DefaultGood ==
  ASSUME NEW k \in Knob
  PROVE  Good(k, Limits(k).def)
<1>1. PICK r : r = Limits(k) /\ Proper(k, r)
  BY KnobProper
<1>2. CASE r.kind = "two"
  BY <1>1, <1>2 DEF Proper, Good, Fit, Bend
<1>3. CASE r.kind # "two"
  <2>1. OfJunk(k) = Limits(k).def
    BY <1>1, <1>3 DEF OfJunk
  <2>2. QED BY <2>1, OfJunkGood
<1>4. QED BY <1>2, <1>3

LEMMA PresetGood ==
  ASSUME NEW k \in Knob
  PROVE  Good(k, FromPreset(k))
<1>1. PICK r : r = Limits(k) /\ Proper(k, r)
  BY KnobProper
<1>2. CASE FromPreset(k) = Limits(k).def
  BY <1>2, DefaultGood
<1>3. CASE k \in {"print_char_width", "print_char_height"} /\ FromPreset(k) = 2
  <2>1. r.kind = "clamp" /\ r.lo <= 2 /\ 2 <= r.hi
    BY <1>1, <1>3 DEF Proper
  <2>2. QED BY <1>1, <1>3, <2>1 DEF Proper, Good, Fit, Bend
<1>4. CASE k = "print_line_spacing_dots" /\ FromPreset(k) \in {24, 30, 40}
  <2>1. r.kind = "auto" /\ r.lo <= 24 /\ 40 <= r.hi
    BY <1>1, <1>4 DEF Proper
  <2>2. QED BY <1>1, <1>4, <2>1 DEF Proper, Good, Fit, Bend
<1>5. QED BY <1>2, <1>3, <1>4 DEF FromPreset

IsText(text) ==
  text.is \in {"absent", "junk", "number"} /\ (text.is = "number" => text.n \in Int)

LEMMA ReadGood ==
  ASSUME NEW k \in Knob, NEW text, IsText(text)
  PROVE  Good(k, Read(k, text))
<1>1. CASE text.is = "absent"
  BY <1>1, PresetGood DEF Read
<1>2. CASE text.is = "junk"
  BY <1>2, OfJunkGood DEF Read
<1>3. CASE text.is = "number"
  BY <1>3, FitGood DEF Read, IsText
<1>4. QED BY <1>1, <1>2, <1>3 DEF IsText

LEMMA KeptIsText ==
  ASSUME NEW k \in Knob, NEW sent, IsText(sent)
  PROVE  IsText(Kept(k, sent))
<1>1. PICK n : n = IF sent.is = "number" THEN Fit(k, sent.n) ELSE OfJunk(k)
  OBVIOUS
<1>2. n \in Int
  BY <1>1, FitGood, OfJunkGood DEF IsText, Good
<1>3. Kept(k, sent) \in {Number(n), Absent, Junk}
  BY <1>1 DEF Kept
<1>4. IsText(Number(n)) /\ IsText(Absent) /\ IsText(Junk)
  BY <1>2 DEF IsText, Number, Absent, Junk, Text
<1>5. QED BY <1>3, <1>4

LEMMA SanitizedGood ==
  ASSUME NEW k \in FormatKnob, NEW n, Good(k, n)
  PROVE  Sanitized(k, n) = n
<1>1. CASE k = "print_line_spacing_dots"
  <2>1. k \in Knob /\ n \in Int /\ Fit(k, n) = n
    BY DEF Knob, Good
  <2>2. PICK r : r = Limits(k) /\ Proper(k, r)
    BY <2>1, KnobProper
  <2>3. n < 0 => Fit(k, n) = 0
    BY <1>1, <2>2 DEF Proper, Fit
  <2>4. ~(n < -1)
    BY <2>1, <2>3
  <2>5. QED BY <1>1, <2>1, <2>4 DEF Sanitized
<1>2. CASE k # "print_line_spacing_dots"
  BY <1>2 DEF Sanitized, Good
<1>3. QED BY <1>1, <1>2

\* The changes of the program's own profiles are in range.
LEMMA ChangeGood ==
  ASSUME NEW p \in Builtin, NEW k \in DOMAIN BuiltinChange[p], k \in FormatKnob
  PROVE  Good(k, BuiltinChange[p][k])
<1>1. k \in Knob /\ k \in FormatKnobs /\ Limits(k) = FormatRange[k]
  BY KnobsAre DEF Knob, Limits
<1>2. p \in {"pos80_default", "pos58_readable", "pos80_compact"}
  BY DEF Builtin, BuiltinChange
<1>3. PICK n : n = BuiltinChange[p][k]
  OBVIOUS
<1>4. CASE k = "paper_width"
  <2>1. n = 0 /\ Limits(k) = Flag(1)
    BY <1>1, <1>2, <1>3, <1>4 DEF BuiltinChange, FormatRange
  <2>2. QED BY <1>3, <2>1 DEF Good, Fit, Bend, Flag
<1>5. CASE k = "print_glyph_px"
  <2>1. n \in {22, 26} /\ Limits(k) = Clamp(8, 64, 28)
    BY <1>1, <1>2, <1>3, <1>5 DEF BuiltinChange, FormatRange
  <2>2. QED BY <1>3, <2>1 DEF Good, Fit, Bend, Clamp
<1>6. CASE k = "print_line_gap_px"
  <2>1. n = 1 /\ Limits(k) = Clamp(0, 32, 2)
    BY <1>1, <1>2, <1>3, <1>6 DEF BuiltinChange, FormatRange
  <2>2. QED BY <1>3, <2>1 DEF Good, Fit, Bend, Clamp
<1>7. CASE k = "print_lead_in"
  <2>1. n \in {1, 2} /\ Limits(k) = Clamp(0, 12, 2)
    BY <1>1, <1>2, <1>3, <1>7 DEF BuiltinChange, FormatRange
  <2>2. QED BY <1>3, <2>1 DEF Good, Fit, Bend, Clamp
<1>8. CASE k = "print_tear_feed"
  <2>1. n \in {4, 5} /\ Limits(k) = Clamp(0, 16, 6)
    BY <1>1, <1>2, <1>3, <1>8 DEF BuiltinChange, FormatRange
  <2>2. QED BY <1>3, <2>1 DEF Good, Fit, Bend, Clamp
<1>9. k \in {"paper_width", "print_glyph_px", "print_line_gap_px", "print_lead_in",
             "print_tear_feed"}
  BY <1>2 DEF BuiltinChange
<1>10. QED BY <1>4, <1>5, <1>6, <1>7, <1>8, <1>9

LEMMA BuiltinGood ==
  ASSUME NEW p \in Builtin, NEW k \in FormatKnob
  PROVE  Good(k, BuiltinPayload(p)[k])
<1>1. k \in Knob /\ Limits(k) = FormatRange[k]
  BY DEF Knob, Limits
<1>2. BuiltinPayload(p)[k] = IF k \in DOMAIN BuiltinChange[p] THEN BuiltinChange[p][k]
                                                              ELSE FormatRange[k].def
  BY DEF BuiltinPayload
<1>3. QED BY <1>1, <1>2, ChangeGood, DefaultGood

\* The table holds texts, and a profile what was once shown.
SettingsInv ==
  /\ stored = [k \in Knob |-> stored[k]] /\ \A k \in Knob : IsText(stored[k])
  /\ focus \in Knob
  /\ \A p \in DOMAIN profiles : \A k \in FormatKnob : Good(k, profiles[p][k])

LEMMA SettingsStart ==
  ASSUME Typed \subseteq Int, Init
  PROVE  SettingsInv
<1>1. \A p \in DOMAIN profiles : \A k \in FormatKnob : Good(k, profiles[p][k])
  BY DEF Init
<1>2. PICK text \in {Absent, Junk} \cup {Number(n) : n \in Typed} :
        stored = Migrated([k \in Knob |-> IF k = focus THEN text ELSE Absent])
  BY DEF Init
<1>3. \A n \in Int : IsText(Number(n))
  BY DEF IsText, Number, Text
<1>4. IsText(Absent) /\ IsText(Junk)
  BY DEF IsText, Absent, Junk, Text
<1>5. IsText(text)
  BY <1>2, <1>3, <1>4
<1>6. PICK table : table = [k \in Knob |-> IF k = focus THEN text ELSE Absent]
  OBVIOUS
<1>7. \A k \in Knob : IsText(table[k])
  BY <1>4, <1>5, <1>6
<1>8. table = [k \in Knob |-> table[k]]
  BY <1>6
<1>9. stored = table \/ stored = [table EXCEPT !["wx_auto_nm"] = Number(180)]
  BY <1>2, <1>6 DEF Migrated
<1>10. stored = [k \in Knob |-> stored[k]]
  BY <1>8, <1>9
<1>11. \A k \in Knob : stored[k] = table[k] \/ stored[k] = Number(180)
  BY <1>8, <1>9
<1>12. \A k \in Knob : IsText(stored[k])
  BY <1>3, <1>7, <1>11
<1>13. QED BY <1>1, <1>10, <1>12 DEF Init, SettingsInv

LEMMA SettingsKept ==
  ASSUME Typed \subseteq Int, SettingsInv, [Next]_vars
  PROVE  SettingsInv'
<1>1. /\ stored = [k \in Knob |-> stored[k]] /\ \A k \in Knob : IsText(stored[k])
      /\ focus \in Knob
      /\ \A p \in DOMAIN profiles : \A k \in FormatKnob : Good(k, profiles[p][k])
  BY DEF SettingsInv
<1>2. \A n \in Int : IsText(Number(n))
  BY DEF IsText, Number, Text
<1>3. IsText(Junk)
  BY DEF IsText, Junk, Text
<1>4. \A k \in Knob : Good(k, Shown(k)) /\ Shown(k) \in Int
  BY <1>1, ReadGood DEF Shown, Good
<1>5. FormatKnob \subseteq Knob
  BY DEF Knob
<1>6. ASSUME NEW sent \in {Junk} \cup {Number(n) : n \in Typed}, Edit(sent)
      PROVE  SettingsInv'
  <2>1. IsText(sent)
    BY <1>2, <1>3
  <2>2. PICK kept : kept = Kept(focus, sent)
    OBVIOUS
  <2>3. IsText(kept)
    BY <1>1, <2>1, <2>2, KeptIsText
  <2>4. stored' = [stored EXCEPT ![focus] = kept] /\ UNCHANGED <<profiles, focus>>
    BY <1>6, <2>2 DEF Edit
  <2>5. stored' = [k \in Knob |-> stored'[k]]
    BY <1>1, <2>4
  <2>6. \A k \in Knob : stored'[k] = stored[k] \/ stored'[k] = kept
    BY <1>1, <2>4
  <2>7. \A k \in Knob : IsText(stored'[k])
    BY <1>1, <2>3, <2>6
  <2>8. QED BY <1>1, <2>4, <2>5, <2>7 DEF SettingsInv, IsText, Good
<1>7. ASSUME NEW knobs, SavePage(knobs) PROVE SettingsInv'
  <2>1. \A k \in Knob : IsText(Kept(k, Number(Shown(k))))
    BY <1>2, <1>4, KeptIsText
  <2>2. stored' = [k \in Knob |-> IF k \in knobs THEN Kept(k, Number(Shown(k)))
                                                 ELSE stored[k]]
        /\ UNCHANGED <<profiles, focus>>
    BY <1>7 DEF SavePage
  <2>3. stored' = [k \in Knob |-> stored'[k]]
    BY <2>2
  <2>4. \A k \in Knob : stored'[k] = stored[k] \/ stored'[k] = Kept(k, Number(Shown(k)))
    BY <2>2
  <2>5. \A k \in Knob : IsText(stored'[k])
    BY <1>1, <2>1, <2>4
  <2>6. QED BY <1>1, <2>2, <2>3, <2>5 DEF SettingsInv
<1>8. ASSUME NEW p, SaveProfile(p) PROVE SettingsInv'
  <2>1. /\ profiles' = [q \in DOMAIN profiles \cup {p} |->
                          IF q = p THEN [k \in FormatKnob |-> Shown(k)] ELSE profiles[q]]
        /\ UNCHANGED <<stored, focus>>
    BY <1>8 DEF SaveProfile
  <2>2. ASSUME NEW q \in DOMAIN profiles', NEW k \in FormatKnob
        PROVE  Good(k, profiles'[q][k])
    <3>1. CASE q = p
      <4>1. profiles'[q][k] = Shown(k)
        BY <2>1, <3>1
      <4>2. QED BY <1>4, <1>5, <4>1
    <3>2. CASE q # p
      <4>1. q \in DOMAIN profiles /\ profiles'[q] = profiles[q]
        BY <2>1, <3>2
      <4>2. QED BY <1>1, <4>1
    <3>3. QED BY <3>1, <3>2
  <2>3. QED BY <1>1, <2>1, <2>2 DEF SettingsInv
<1>9. ASSUME NEW p, ApplyProfile(p) PROVE SettingsInv'
  <2>1. ASSUME NEW k \in FormatKnob PROVE Payload(p)[k] \in Int
    <3>1. CASE p \in Builtin
      BY <3>1, BuiltinGood DEF Payload, Good
    <3>2. CASE p \notin Builtin
      BY <1>1, <1>9, <3>2 DEF ApplyProfile, Payload, Good
    <3>3. QED BY <3>1, <3>2
  <2>2. ASSUME NEW k \in FormatKnob PROVE Sanitized(k, Payload(p)[k]) \in Int
    BY <1>5, <2>1, FitGood DEF Sanitized, Good
  <2>3. \A k \in FormatKnob : IsText(Kept(k, Number(Sanitized(k, Payload(p)[k]))))
    BY <1>2, <1>5, <2>2, KeptIsText
  <2>4. stored' = [k \in Knob |->
                     IF k \in FormatKnob
                     THEN Kept(k, Number(Sanitized(k, Payload(p)[k]))) ELSE stored[k]]
        /\ UNCHANGED <<profiles, focus>>
    BY <1>9 DEF ApplyProfile
  <2>5. stored' = [k \in Knob |-> stored'[k]]
    BY <2>4
  <2>6. \A k \in Knob :
          \/ k \in FormatKnob /\ stored'[k] = Kept(k, Number(Sanitized(k, Payload(p)[k])))
          \/ stored'[k] = stored[k]
    BY <2>4
  <2>7. \A k \in Knob : IsText(stored'[k])
    BY <1>1, <2>3, <2>6
  <2>8. QED BY <1>1, <2>4, <2>5, <2>7 DEF SettingsInv
<1>10. ASSUME NEW p, DeleteProfile(p) PROVE SettingsInv'
  <2>1. /\ profiles' = [q \in DOMAIN profiles \ {p} |-> profiles[q]]
        /\ UNCHANGED <<stored, focus>>
    BY <1>10 DEF DeleteProfile
  <2>2. \A q \in DOMAIN profiles' : q \in DOMAIN profiles /\ profiles'[q] = profiles[q]
    BY <2>1
  <2>3. QED BY <1>1, <2>1, <2>2 DEF SettingsInv
<1>11. CASE Restart
  <2>1. stored' = stored \/ stored' = [stored EXCEPT !["wx_auto_nm"] = Number(180)]
    BY <1>11 DEF Restart, Migrated
  <2>2. stored' = [k \in Knob |-> stored'[k]]
    BY <1>1, <2>1
  <2>3. \A k \in Knob : stored'[k] = stored[k] \/ stored'[k] = Number(180)
    BY <1>1, <2>1
  <2>4. \A k \in Knob : IsText(stored'[k])
    BY <1>1, <1>2, <2>3
  <2>5. UNCHANGED <<profiles, focus>>
    BY <1>11 DEF Restart
  <2>6. QED BY <1>1, <2>2, <2>4, <2>5 DEF SettingsInv
<1>12. CASE UNCHANGED vars
  BY <1>1, <1>12 DEF vars, SettingsInv
<1>13. QED BY <1>6, <1>7, <1>8, <1>9, <1>10, <1>11, <1>12 DEF Next

\* A page nobody edited changes no setting when it is saved, and a profile gives
\* back the format it was saved with (settings.py, profiles.py), for any whole
\* number typed or found in the database, and any profiles.
THEOREM SettingsComeBack ==
  ASSUME Typed \subseteq Int
  PROVE  Spec => []ShownComesBack
<1>1. Init => SettingsInv
  BY SettingsStart
<1>2. SettingsInv /\ [Next]_vars => SettingsInv'
  BY SettingsKept
<1>3. ASSUME SettingsInv PROVE ShownComesBack
  <2>1. ASSUME NEW k \in Knob PROVE Read(k, Kept(k, Number(Shown(k)))) = Shown(k)
    BY <1>3, ReadGood, GoodBack DEF SettingsInv, Shown
  <2>2. ASSUME NEW p \in Builtin \cup DOMAIN profiles, NEW k \in FormatKnob
        PROVE  Read(k, Kept(k, Number(Sanitized(k, Payload(p)[k])))) = Payload(p)[k]
    <3>1. Good(k, Payload(p)[k])
      BY <1>3, BuiltinGood DEF SettingsInv, Payload
    <3>2. Sanitized(k, Payload(p)[k]) = Payload(p)[k] /\ k \in Knob
      BY <3>1, SanitizedGood DEF Knob
    <3>3. QED BY <3>1, <3>2, GoodBack
  <2>3. QED BY <2>1, <2>2 DEF ShownComesBack
<1>4. QED BY <1>1, <1>2, <1>3, PTL DEF Spec
=============================================================================
