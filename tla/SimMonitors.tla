---------------------------- MODULE SimMonitors ----------------------------
(***************************************************************************)
(* The simulators and the two monitors that read them                      *)
(* (simconnect/monitor.py, simconnect/_ctypes_client.py,                   *)
(* xplane/monitor.py).  MSFS answers a SimConnect session through a pipe   *)
(* of messages, drained twice a second; X-Plane sends datagrams to those   *)
(* who subscribed.  The rest of the program sees one sample, Shown.        *)
(***************************************************************************)
EXTENDS Naturals, Sequences, SequencesExt

CONSTANTS
  PumpLimit,   \* messages one poll takes from the pipe (32 in the code)
  AskEvery,    \* polls between two requests of the system states (4)
  MaxPipe,     \* bound on the messages waiting in the pipe
  MaxMoves     \* bound on what the user does to the simulators

ASSUME MonitorAssumption ==
  /\ PumpLimit \in Nat \ {0} /\ AskEvery \in Nat /\ MaxPipe \in Nat \ {0} /\ MaxMoves \in Nat

Host == {"here", "lan"}
Unknown == "unknown"
YesNo(b) == IF b THEN "yes" ELSE "no"

VARIABLES
  msfs,      \* where MSFS is: off, in its menus, in a flight
  is2024,    \* whether this MSFS is the 2024 one
  pipe,      \* SimConnect messages not yet dispatched
  asked,     \* a RequestSystemState pair MSFS has not answered
  session,   \* the SimConnect session of the monitor thread
  served,    \* the MSFS that session was opened with still runs
  primary,   \* WindowsSimConnectMonitor._snapshot
  xplane,    \* the computer X-Plane runs on and whether it may send
  subscribed,\* the computers whose X-Plane has our subscription
  endpoint,  \* the address set: auto, or one computer
  beacon,    \* a LAN computer heard on the beacon group
  fresh,     \* a datagram arrived within stale_seconds
  detected,  \* _detect_cache: X-Plane is among the running programs
  fallback,  \* XPlaneUdpMonitor._snapshot
  moves      \* what the user did so far

sims == <<msfs, is2024, xplane, moves>>
client == <<pipe, asked, session, served, primary>>
radio == <<subscribed, endpoint, beacon, fresh, detected, fallback>>
vars == <<sims, client, radio>>

Sample == [connected : BOOLEAN, source : {"none", "simconnect", "xplane"},
           inSession : {"yes", "no", Unknown}, detail : BOOLEAN]
Missing == [connected |-> FALSE, source |-> "none", inSession |-> Unknown,
            detail |-> FALSE]
Lost == [Missing EXCEPT !.detail = TRUE]
Live(source, inSession) ==
  [connected |-> TRUE, source |-> source, inSession |-> inSession,
   detail |-> FALSE]

\* The fields __enter__ and poll keep of a session.
Fresh == [open |-> TRUE, running |-> Unknown, path |-> "", camera |-> "none",
          is2024 |-> FALSE, polls |-> 0]
Closed == [Fresh EXCEPT !.open = FALSE]

\* Camera "ten": the world map of MSFS 2024 and the drone of MSFS 2020.
CameraIsMenu(camera, of2024) ==
  camera = "menu" \/ (of2024 /\ camera = "ten")

ResolveInSession(s) ==
  IF s.path = "menu" \/ CameraIsMenu(s.camera, s.is2024)
  THEN "no" ELSE s.running

Camera == IF (msfs = "menu") = is2024 THEN "ten"
          ELSE IF msfs = "menu" THEN "menu" ELSE "cockpit"

Init ==
  /\ msfs = "off" /\ is2024 \in BOOLEAN
  /\ pipe = <<>> /\ asked = FALSE /\ session = Closed /\ served = FALSE
  /\ primary = Missing
  /\ xplane \in [at : Host, on : {FALSE}, sends : {TRUE}]
  /\ subscribed = {} /\ endpoint \in Host \cup {"auto"}
  /\ beacon = FALSE /\ fresh = FALSE /\ detected = FALSE /\ fallback = Missing
  /\ moves = 0

-----------------------------------------------------------------------------
(* MSFS.  A system event may be lost (the subscription can fail with only  *)
(* a warning); an answer to a request and the data of each second are not. *)

Tell(msgs) == pipe' = IF served THEN pipe \o msgs ELSE pipe

MsfsMoves(to) ==
  /\ msfs # to /\ to \in {"menu", "flight"}
  /\ Len(pipe) <= MaxPipe
  /\ msfs' = to
  /\ \E lost \in BOOLEAN :
       Tell(IF lost \/ msfs = "off" THEN <<>>
            ELSE <<[kind |-> "path", is |-> to],
                   [kind |-> "running", is |-> YesNo(to = "flight")]>>)
  /\ UNCHANGED <<is2024, xplane, asked, session, served, primary, radio>>

MsfsQuits ==
  /\ msfs # "off"
  /\ msfs' = "off" /\ asked' = FALSE /\ served' = FALSE
  /\ Tell(<<[kind |-> "quit"]>>)
  /\ UNCHANGED <<is2024, xplane, session, primary, radio>>

\* Killed or crashed, it says nothing; what it said before may be read yet.
MsfsDies ==
  /\ msfs # "off"
  /\ msfs' = "off" /\ asked' = FALSE /\ served' = FALSE
  /\ pipe' \in {pipe, <<>>}
  /\ UNCHANGED <<is2024, xplane, session, primary, radio>>

MsfsAnswers ==
  /\ asked /\ served /\ Len(pipe) <= MaxPipe
  /\ asked' = FALSE
  /\ Tell(<<[kind |-> "running", is |-> YesNo(msfs = "flight")],
            [kind |-> "path", is |-> msfs]>>)
  /\ UNCHANGED <<sims, session, served, primary, radio>>

MsfsSendsData ==
  /\ served
  /\ \A i \in DOMAIN pipe : pipe[i].kind # "data"
  /\ Tell(<<[kind |-> "data", is |-> Camera]>>)
  /\ UNCHANGED <<sims, asked, session, served, primary, radio>>

-----------------------------------------------------------------------------
(* The SimConnect monitor thread: open a session, poll it twice a second,  *)
(* publish what it says, and open another five seconds after it ends.      *)

SessionOpens ==
  /\ ~session.open /\ msfs # "off"
  /\ session' = Fresh /\ asked' = TRUE /\ served' = TRUE
  /\ pipe' = <<[kind |-> "open", is |-> YesNo(is2024)]>>
  /\ UNCHANGED <<sims, primary, radio>>

SessionRefused ==
  /\ ~session.open /\ msfs = "off"
  /\ primary' = Lost
  /\ UNCHANGED <<sims, pipe, asked, session, served, radio>>

Dispatch(s, msg) ==
  CASE msg.kind = "open"    -> [s EXCEPT !.is2024 = (msg.is = "yes")]
    [] msg.kind = "running" -> [s EXCEPT !.running = msg.is]
    [] msg.kind = "path"    -> [s EXCEPT !.path = msg.is]
    [] msg.kind = "data"    -> [s EXCEPT !.camera = msg.is]
    [] OTHER                -> Closed

\* The system states are asked for when the session opens, never again.
PollAsksOnce ==
  LET take == IF Len(pipe) < PumpLimit THEN Len(pipe) ELSE PumpLimit
      seen == FoldLeft(Dispatch, session, SubSeq(pipe, 1, take))
  IN /\ session.open
     /\ IF \E i \in 1 .. take : pipe[i].kind = "quit"
        THEN /\ session' = Closed /\ pipe' = <<>> /\ asked' = FALSE
             /\ primary' = Lost
        ELSE /\ session' = seen /\ pipe' = SubSeq(pipe, take + 1, Len(pipe))
             /\ primary' = Live("simconnect", ResolveInSession(seen))
             /\ UNCHANGED asked
     /\ UNCHANGED <<sims, served, radio>>

\* poll asks for the system states again when its last request is 2 s old,
\* takes what the pipe holds and publishes the result.  A dead connection is
\* an empty pipe to it: GetNextDispatch fails the same way, and only a quit
\* message ends the session.
Poll ==
  LET ask == session.polls >= AskEvery
      take == IF Len(pipe) < PumpLimit THEN Len(pipe) ELSE PumpLimit
      polled == [session EXCEPT !.polls = IF ask THEN 0 ELSE @ + 1]
      seen == FoldLeft(Dispatch, polled, SubSeq(pipe, 1, take))
  IN /\ session.open
     /\ IF \E i \in 1 .. take : pipe[i].kind = "quit"
        THEN /\ session' = Closed /\ pipe' = <<>> /\ asked' = FALSE
             /\ primary' = Lost
        ELSE /\ session' = seen /\ pipe' = SubSeq(pipe, take + 1, Len(pipe))
             /\ asked' = (asked \/ (ask /\ served))
             /\ primary' = Live("simconnect", ResolveInSession(seen))
     /\ UNCHANGED <<sims, served, radio>>

-----------------------------------------------------------------------------
(* X-Plane.  It sends to whoever subscribed since it started; with         *)
(* incoming connections refused (sends = FALSE) it hears no subscription.  *)

XPlaneStarts(sends) ==
  /\ ~xplane.on
  /\ xplane' = [xplane EXCEPT !.on = TRUE, !.sends = sends]
  /\ UNCHANGED <<msfs, is2024, client, radio>>

XPlaneQuits ==
  /\ xplane.on
  /\ xplane' = [xplane EXCEPT !.on = FALSE]
  /\ subscribed' = subscribed \ {xplane.at}
  /\ UNCHANGED <<msfs, is2024, client, endpoint, beacon, fresh,
                 detected, fallback>>

SetEndpoint(to) ==
  /\ to # endpoint /\ endpoint' = to
  /\ beacon' = (beacon /\ to = "auto")
  /\ UNCHANGED <<msfs, is2024, xplane, client, subscribed, fresh, detected,
                 fallback>>

-----------------------------------------------------------------------------
(* The X-Plane monitor thread. *)

Destinations ==
  IF endpoint = "auto" THEN {"here"} \cup (IF beacon THEN {"lan"} ELSE {})
  ELSE {endpoint}

Hears(at) == xplane.on /\ xplane.sends /\ xplane.at = at
Sends == xplane.on /\ xplane.at \in subscribed

\* Every five seconds, to every destination, for every dataref.
Subscribe ==
  /\ subscribed' = subscribed \cup {at \in Destinations : Hears(at)}
  /\ UNCHANGED <<sims, client, endpoint, beacon, fresh, detected,
                 fallback>>

Recv ==
  /\ Sends /\ fresh' = TRUE
  /\ UNCHANGED <<sims, client, subscribed, endpoint, beacon,
                 detected, fallback>>

\* Three seconds without a datagram.
GoesStale ==
  /\ ~Sends /\ fresh' = FALSE
  /\ UNCHANGED <<sims, client, subscribed, endpoint, beacon,
                 detected, fallback>>

RecvBeacon ==
  /\ xplane.on /\ xplane.at = "lan" /\ endpoint = "auto"
  /\ beacon' = TRUE
  /\ UNCHANGED <<sims, client, subscribed, endpoint, fresh,
                 detected, fallback>>

\* The running programs are looked at every two seconds.
Detect ==
  /\ detected' = (xplane.on /\ xplane.at = "here")
  /\ UNCHANGED <<sims, client, subscribed, endpoint, beacon, fresh,
                 fallback>>

Publish ==
  /\ fallback' = IF fresh THEN Live("xplane", Unknown)
                 ELSE [Missing EXCEPT !.source = "xplane", !.detail = detected]
  /\ UNCHANGED <<sims, client, subscribed, endpoint, beacon, fresh,
                 detected>>

Environment ==
  /\ moves < MaxMoves /\ moves' = moves + 1
  /\ \/ \E to \in {"menu", "flight"} : MsfsMoves(to)
     \/ MsfsQuits \/ MsfsDies
     \/ \E sends \in BOOLEAN : XPlaneStarts(sends)
     \/ XPlaneQuits
     \/ \E to \in Host \cup {"auto"} : SetEndpoint(to)

Simulators == MsfsAnswers \/ MsfsSendsData \/ Recv \/ RecvBeacon
SimConnectThread == SessionOpens \/ SessionRefused \/ Poll
XPlaneThread == Subscribe \/ GoesStale \/ Detect \/ Publish

Next == Environment \/ Simulators \/ SimConnectThread \/ XPlaneThread
Spec == Init /\ [][Next]_vars

\* Both threads loop for ever, and a simulator answers and sends as long as
\* it runs; nobody has to start or quit one.
Fairness ==
  /\ WF_vars(MsfsAnswers) /\ WF_vars(MsfsSendsData)
  /\ WF_vars(Recv) /\ WF_vars(RecvBeacon)
  /\ WF_vars(SimConnectThread)
  /\ WF_vars(Subscribe) /\ WF_vars(GoesStale)
  /\ WF_vars(Detect) /\ WF_vars(Publish)
FairSpec == Spec /\ Fairness

-----------------------------------------------------------------------------

\* CompositeSimMonitor.snapshot: MSFS first, then X-Plane.
Shown ==
  IF primary.connected THEN primary
  ELSE IF fallback.connected \/ fallback.detail THEN fallback
  ELSE primary

TypeOK ==
  /\ primary \in Sample /\ fallback \in Sample
  /\ subscribed \subseteq Host

Reached == endpoint \in {xplane.at, "auto"}

\* A session whose MSFS is gone without a quit message still to be read.
Orphaned ==
  session.open /\ ~served /\ \A i \in DOMAIN pipe : pipe[i].kind # "quit"

(* However the simulators come and go, and though system events are lost   *)
(* and MSFS and X-Plane may both run: once the simulators are left as they *)
(* are, the sample the gate, the watcher and the weather read ends up      *)
(* saying so: a flight in MSFS is in session, its menus are not, X-Plane   *)
(* is read when MSFS is closed (also on the other computer, and after it   *)
(* was restarted and forgot the subscription), a mute one is named, and    *)
(* nothing is connected when neither runs.  The one exception is an MSFS   *)
(* that died without a quit message: its session is never closed, and the  *)
(* last sample stays, connected, whatever runs later.                      *)
SampleFollowsSim ==
  \/ <>Orphaned
  \/ /\ <>[](msfs = "flight") => <>[](Shown = Live("simconnect", "yes"))
     /\ <>[](msfs = "menu") => <>[](Shown = Live("simconnect", "no"))
     /\ <>[](msfs = "off" /\ xplane.on /\ xplane.sends /\ Reached)
          => <>[](Shown = Live("xplane", Unknown))
     /\ <>[](msfs = "off" /\ xplane.on /\ ~xplane.sends /\ xplane.at = "here")
          => <>[](~Shown.connected /\ Shown.source = "xplane" /\ Shown.detail)
     /\ <>[](msfs = "off" /\ ~xplane.on) => <>[](~Shown.connected)
=============================================================================
