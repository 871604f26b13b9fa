---------------------------- MODULE DesktopShell ----------------------------
(***************************************************************************)
(* The desktop shell and the bridge process behind it.  The shell writes   *)
(* one command to the bridge's stdin and reads its stdout up to the first  *)
(* line that is no event (src-tauri/src/bridge.rs); the bridge handles one *)
(* command at a time and writes the waiting events before the answer       *)
(* (bridge/__main__.py); its own threads add events at any time            *)
(* (bridge/runtime.py, emit_event).                                        *)
(***************************************************************************)
EXTENDS Naturals, Sequences, SequencesExt, FiniteSets

CONSTANTS
  Caller,     \* threads of the shell that send commands
  MaxEvents,  \* bound on the events emitted
  DequeLimit, \* events the bridge keeps (200 in the code)
  MaxCalls,   \* bound on the commands sent
  MaxDeaths   \* bound on the crashes of the bridge

VARIABLES
  call,    \* per caller, the command it waits for, 0 for none
  answer,  \* per caller, the last answer it got
  mutex,  \* the caller that holds the shell's mutex
  calls, deaths, \* commands sent and crashes so far
  child,   \* the bridge: "none", "up" or "dead"
  stdin, stdout, \* the pipes to and from it
  working, \* the command the bridge handles, 0 for none
  events,  \* runtime._events: numbers of events
  emitted, \* events emitted so far
  gone,    \* events that fell out of the deque or died with the bridge
  shown    \* events the user interface was given

shell == <<call, answer, mutex, calls, shown>>
bridge == <<child, stdin, stdout, working, events, emitted, gone, deaths>>
shellVars == <<shell, bridge>>

NoCaller == "none"

ShellInit ==
  /\ call = [c \in Caller |-> 0] /\ answer = [c \in Caller |-> 0]
  /\ mutex = NoCaller /\ calls = 0 /\ deaths = 0
  /\ child = "none" /\ stdin = <<>> /\ stdout = <<>>
  /\ working = 0 /\ events = <<>> /\ emitted = 0 /\ gone = {} /\ shown = {}

Lines(nums) == [i \in DOMAIN nums |-> [event |-> TRUE, is |-> nums[i]]]
AnswerTo(n) == [event |-> FALSE, is |-> n]
EventsIn(lines) == {lines[i].is : i \in {j \in DOMAIN lines : lines[j].event}}

-----------------------------------------------------------------------------
(* The shell.  request holds the mutex from the write to the answer.       *)

Drop == child' = "none" /\ stdin' = <<>> /\ stdout' = <<>>

\* ensure_running starts a bridge when there is none or the last one died.
\* It lets go of the mutex before the command takes it: should another caller
\* give the bridge up in between, the command fails and nothing was sent.
Request(c) ==
  /\ mutex = NoCaller /\ calls < MaxCalls
  /\ mutex' = c /\ calls' = calls + 1 /\ call' = [call EXCEPT ![c] = calls']
  /\ IF child = "up" THEN UNCHANGED <<child, stdout, working, events, gone>>
     ELSE /\ child' = "up" /\ stdout' = <<>> /\ working' = 0 /\ events' = <<>>
          /\ gone' = gone \cup ToSet(events) \cup EventsIn(stdout)
  /\ stdin' = <<calls'>>
  /\ UNCHANGED <<answer, shown, emitted, deaths>>

ReadEvent(c) ==
  /\ mutex = c /\ stdout # <<>> /\ Head(stdout).event
  /\ shown' = shown \cup {Head(stdout).is} /\ stdout' = Tail(stdout)
  /\ UNCHANGED <<call, answer, mutex, calls, child, stdin, working, events,
                 emitted, gone, deaths>>

ReadAnswer(c) ==
  /\ mutex = c /\ stdout # <<>> /\ ~Head(stdout).event
  /\ answer' = [answer EXCEPT ![c] = Head(stdout).is]
  /\ call' = [call EXCEPT ![c] = 0] /\ mutex' = NoCaller
  /\ stdout' = Tail(stdout)
  /\ UNCHANGED <<calls, shown, child, stdin, working, events, emitted, gone,
                 deaths>>

ReadTimesOut(c) ==
  /\ mutex = c /\ stdout = <<>>
  /\ call' = [call EXCEPT ![c] = 0] /\ mutex' = NoCaller
  /\ UNCHANGED <<answer, calls, shown, bridge>>

\* End of file, or a write that fails: the bridge is given up.
ReadFails(c) ==
  /\ mutex = c /\ stdout = <<>> /\ child = "dead"
  /\ Drop /\ working' = 0 /\ events' = <<>> /\ gone' = gone \cup ToSet(events)
  /\ call' = [call EXCEPT ![c] = 0] /\ mutex' = NoCaller
  /\ UNCHANGED <<answer, calls, shown, emitted, deaths>>

-----------------------------------------------------------------------------
(* The bridge.  *)

\* A thread of the bridge, or the command it handles, emits an event.
Emit ==
  /\ child = "up" /\ emitted < MaxEvents
  /\ emitted' = emitted + 1
  /\ IF Len(events) < DequeLimit
     THEN events' = Append(events, emitted') /\ UNCHANGED gone
     ELSE events' = Append(Tail(events), emitted') /\ gone' = gone \cup {Head(events)}
  /\ UNCHANGED <<shell, child, stdin, stdout, working, deaths>>

Receive ==
  /\ child = "up" /\ working = 0 /\ stdin # <<>>
  /\ working' = Head(stdin) /\ stdin' = Tail(stdin)
  /\ UNCHANGED <<shell, child, stdout, events, emitted, gone, deaths>>

AnswerFirst ==
  /\ child = "up" /\ working # 0
  /\ stdout' = <<AnswerTo(working)>> \o Lines(events)
  /\ events' = <<>> /\ working' = 0
  /\ UNCHANGED <<shell, child, stdin, emitted, gone, deaths>>

\* drain_events, then emit_handle_result.
Answer ==
  /\ child = "up" /\ working # 0
  /\ stdout' = stdout \o Lines(events) \o <<AnswerTo(working)>>
  /\ events' = <<>> /\ working' = 0
  /\ UNCHANGED <<shell, child, stdin, emitted, gone, deaths>>

\* What it wrote can still be read.
Dies ==
  /\ child = "up" /\ deaths < MaxDeaths
  /\ child' = "dead" /\ deaths' = deaths + 1
  /\ UNCHANGED <<shell, stdin, stdout, working, events, emitted, gone>>

ShellNext ==
  \/ \E c \in Caller : Request(c) \/ ReadEvent(c) \/ ReadAnswer(c) \/ ReadFails(c)
  \/ Emit \/ Receive \/ Answer \/ Dies
ShellSpec == ShellInit /\ [][ShellNext]_shellVars

-----------------------------------------------------------------------------

(* Two threads of the shell, a bridge that may die and be started again,   *)
(* and events from its own threads: a caller that gets an answer gets the  *)
(* one to its own command, never one left in the pipe by another.          *)
AnswerIsOwn ==
  [][\A c \in Caller : answer'[c] # answer[c] => answer'[c] = call[c]]_shellVars

(* When an answer arrives, every event emitted before the bridge wrote it  *)
(* has reached the user interface, except those that fell out of the deque *)
(* or died with a bridge: none waits in the pipe for the next command.     *)
NoEventWaits ==
  mutex = NoCaller =>
    1 .. emitted = shown \cup gone \cup ToSet(events)
=============================================================================
