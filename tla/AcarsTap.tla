------------------------------ MODULE AcarsTap ------------------------------
(***************************************************************************)
(* The tap (tap/service.py, tap/proxy.py, tap/divert.py): Connect starts a *)
(* proxy and a packet redirect that sends the aircraft's traffic to it,    *)
(* Disconnect takes both down, and the proxy's workers carry one exchange  *)
(* each, from the aircraft to the network and back, and then hand it over  *)
(* to be stored and printed.  Every Connect makes a new proxy; workers of  *)
(* an old one may outlive it.                                              *)
(***************************************************************************)
EXTENDS WireVault

CONSTANTS
  Worker,       \* worker threads (32 per proxy)
  MaxSessions,  \* bound on the number of Connects
  MaxSaves,     \* bound on changes of the network
  TlsLimit      \* tls_failure_limit

ASSUME TapAssumption ==
  /\ MaxSessions \in Nat \ {0} /\ MaxSaves \in Nat
  /\ TlsLimit \in Nat \ {0}

NoSession == 0
Session == 1 .. MaxSessions

VARIABLES
  step,      \* what the command thread is doing, see Locked
  running,   \* status.running
  made, saves, \* sessions made and networks saved so far
  proxyOf,   \* self._proxy: a session or NoSession
  divertOf,  \* self._divert: a session or NoSession
  sessions,  \* per session, its proxy's listeners and its redirect
  worker,    \* per worker, the connection it handles, <<>> for none
  late       \* history: the vault's logon was stored by a worker whose
             \* session was no longer the service's

service == <<step, running, made, saves, proxyOf, divertOf>>
vars == <<network, vault, service, sessions, worker, late>>

\* self._lock is held from the start of Connect and Disconnect to their end.
Locked == step \in {"connecting", "stopping"}

WebPort == {"http", "https"}
Some(https) == IF https THEN WebPort ELSE {"http"}

\* open: the listeners' ports; ports: the redirect's, in force once the
\* driver is "on".
NewProxy(https, trusted) ==
  [open |-> Some(https), upstream |-> network,
   driver |-> "opening", ports |-> Some(trusted),
   failures |-> 0, armed |-> FALSE]

Unused ==
  [open |-> {}, upstream |-> network, driver |-> "off", ports |-> {},
   failures |-> 0, armed |-> FALSE]

Redirected(n) == IF sessions[n].driver = "on" THEN sessions[n].ports ELSE {}

Init ==
  /\ network \in Network /\ vault = NoCreds
  /\ step = "idle" /\ running = FALSE /\ made = 0 /\ saves = 0
  /\ proxyOf = NoSession /\ divertOf = NoSession
  /\ sessions = [n \in Session |-> Unused]
  /\ worker = [w \in Worker |-> <<>>]
  /\ late = FALSE

-----------------------------------------------------------------------------
(* Connect.                                                                *)

\* Not an administrator, the host does not resolve, no certificate, or port
\* 80 is taken: nothing was kept, and the clean-up still clears the vault.
ConnectRefused ==
  /\ step = "idle" /\ ~running
  /\ vault' = NoCreds /\ late' = FALSE
  /\ UNCHANGED <<network, service, sessions, worker>>

\* The listeners are up (a taken port 443 is only noted) and the redirect's
\* thread has been started; it asks for HTTPS when the certificate is trusted.
StartProxy(https, trusted) ==
  /\ step = "idle" /\ ~running /\ made < MaxSessions
  /\ step' = "connecting"
  /\ made' = made + 1 /\ proxyOf' = made + 1
  /\ sessions' = [sessions EXCEPT ![made + 1] = NewProxy(https, trusted)]
  /\ UNCHANGED <<network, vault, running, saves, divertOf, worker, late>>

\* The redirect's thread: the driver opens, or it does not.
DivertOpens(n) ==
  /\ sessions[n].driver = "opening"
  /\ sessions' = [sessions EXCEPT ![n].driver = "on"]
  /\ UNCHANGED <<network, vault, service, worker, late>>

DivertFails(n) ==
  /\ sessions[n].driver = "opening"
  /\ sessions' = [sessions EXCEPT ![n].driver = "failed"]
  /\ UNCHANGED <<network, vault, service, worker, late>>

\* divert.start has slept 0.4 s and seen no error; it may not have opened yet.
ConnectDone ==
  /\ step = "connecting"
  /\ sessions[made].driver # "failed"
  /\ divertOf' = made
  /\ running' = TRUE /\ step' = "idle"
  /\ UNCHANGED <<network, vault, made, saves, proxyOf, sessions, worker, late>>

\* Bug: the error is shown, the proxy stays.
ConnectFailsUnclean ==
  /\ step = "connecting"
  /\ sessions[made].driver = "failed"
  /\ step' = "idle"
  /\ sessions' = [sessions EXCEPT ![made].driver = "off", ![made].ports = {}]
  /\ UNCHANGED <<network, vault, running, made, saves, proxyOf, divertOf,
                 worker, late>>

ConnectFails ==
  /\ step = "connecting"
  /\ sessions[made].driver = "failed"
  /\ step' = "stopping"
  /\ sessions' = [sessions EXCEPT ![made].driver = "off", ![made].ports = {}]
  /\ UNCHANGED <<network, vault, running, made, saves, proxyOf, divertOf,
                 worker, late>>

-----------------------------------------------------------------------------
(* Disconnect, and the clean-up of a failed Connect.                       *)

\* Bug: the proxy goes first.
DivertStoppedLast ==
  IF proxyOf = NoSession THEN sessions
  ELSE [sessions EXCEPT ![proxyOf].open = {}]

DivertStopped ==
  IF divertOf = NoSession THEN sessions
  ELSE [sessions EXCEPT ![divertOf].driver = "off", ![divertOf].ports = {}]

\* _cleanup_unlocked stops the redirect before the proxy.
StopDivert ==
  /\ step' = "stopping"
  /\ sessions' = DivertStopped
  /\ divertOf' = NoSession

Disconnect ==
  /\ step = "idle"
  /\ StopDivert
  /\ UNCHANGED <<network, vault, running, made, saves, proxyOf, worker, late>>

\* Bug: the proxy's stop joins its workers, as it joins its listeners.
TearDownJoined ==
  /\ step = "stopping"
  /\ \A w \in Worker : worker[w] # <<>> => worker[w][1].session # proxyOf
  /\ sessions' = IF proxyOf = NoSession THEN sessions
                 ELSE [sessions EXCEPT ![proxyOf].open = {}]
  /\ proxyOf' = NoSession
  /\ vault' = NoCreds /\ late' = FALSE
  /\ running' = FALSE /\ step' = "idle"
  /\ UNCHANGED <<network, made, saves, divertOf, worker>>

\* The listeners close; the workers are left to themselves.
TearDown ==
  /\ step = "stopping"
  /\ sessions' = IF proxyOf = NoSession THEN sessions
                 ELSE [sessions EXCEPT ![proxyOf].open = {}]
  /\ proxyOf' = NoSession
  /\ vault' = NoCreds /\ late' = FALSE
  /\ running' = FALSE /\ step' = "idle"
  /\ UNCHANGED <<network, made, saves, divertOf, worker>>

\* cmd_save_settings stores the new network first, and clears the vault and
\* disconnects when everything else has been applied.
SaveNetwork(n) ==
  /\ step = "idle" /\ n # network /\ saves < MaxSaves
  /\ network' = n /\ saves' = saves + 1
  /\ step' = "saving"
  /\ UNCHANGED <<vault, running, made, proxyOf, divertOf, sessions, worker, late>>

\* Bug: the new network takes effect at the next Connect.
SaveDoneConnected ==
  /\ step = "saving"
  /\ step' = "idle"
  /\ UNCHANGED <<network, vault, running, made, saves, proxyOf, divertOf, sessions,
                 worker, late>>

SaveDone ==
  /\ step = "saving"
  /\ vault' = NoCreds /\ late' = FALSE
  /\ IF running THEN StopDivert
     ELSE step' = "idle" /\ UNCHANGED <<sessions, divertOf>>
  /\ UNCHANGED <<network, running, made, saves, proxyOf, worker>>

-----------------------------------------------------------------------------
(* The proxy's workers.                                                    *)

Stage(w) == IF worker[w] = <<>> THEN "free" ELSE worker[w][1].stage
SessionOf(w) == worker[w][1].session
At(w, stage) == worker' = [worker EXCEPT ![w][1].stage = stage]
Ends(w) == worker' = [worker EXCEPT ![w] = <<>>]

\* The redirect sends a connection to the port; without a free worker the
\* connection is closed and nothing changes.  On the HTTPS port the worker
\* waits for the aircraft's handshake first, on a socket without a timeout.
Accept(w, n, port) ==
  /\ Stage(w) = "free"
  /\ port \in sessions[n].open \cap Redirected(n)
  /\ worker' = [worker EXCEPT ![w] =
                  <<[session |-> n, seen |-> 0,
                     stage |-> IF port = "https" THEN "greeting" ELSE "open"]>>]
  /\ UNCHANGED <<network, vault, service, sessions, late>>

\* The handshake is complete.
Greeted(w) ==
  /\ Stage(w) = "greeting"
  /\ At(w, "open")
  /\ UNCHANGED <<network, vault, service, sessions, late>>

\* The aircraft hangs up, a socket fails or (after the handshake) times out, or
\* what was answered is not ACARS.
Broken(w) ==
  /\ Stage(w) \in {"greeting", "open"}
  /\ Ends(w)
  /\ UNCHANGED <<network, vault, service, sessions, late>>

\* A TLS error, of the aircraft's side or of the network's: the counter is
\* read here and written below, and other workers run in between.
TlsError(w) ==
  /\ Stage(w) \in {"greeting", "open"}
  /\ worker' = [worker EXCEPT ![w][1].stage = "failed",
                              ![w][1].seen = sessions[SessionOf(w)].failures]
  /\ UNCHANGED <<network, vault, service, sessions, late>>

\* _on_tls_failure: the service's redirect, if it has one by now, leaves
\* HTTPS alone from here on.
HttpsLeftAlone(s) ==
  IF divertOf = NoSession THEN s
  ELSE [s EXCEPT ![divertOf].ports = {"http"}]

TlsCounted(w) ==
  LET n == SessionOf(w)
      failures == IF worker[w][1].seen < TlsLimit
                  THEN worker[w][1].seen + 1 ELSE TlsLimit
      falls == ~sessions[n].armed /\ failures >= TlsLimit
  IN /\ Stage(w) = "failed"
     /\ Ends(w)
     /\ sessions' =
          LET counted == [sessions EXCEPT ![n].failures = failures]
          IN IF falls
             THEN HttpsLeftAlone([counted EXCEPT ![n].armed = TRUE])
             ELSE counted
     /\ UNCHANGED <<network, vault, service, late>>

\* The network answered and the aircraft has its answer.  on_exchange goes by
\* the network chosen now, and an exchange of the other format holds no logon;
\* then the messages are stored and printed, and an error there ends the
\* exchange.
Capture(w, works) ==
  LET origin == sessions[SessionOf(w)].upstream
  IN /\ Stage(w) = "open"
     /\ IF network \notin Gfo /\ origin \notin Gfo
        THEN /\ vault' = Captured(origin)
             /\ late' = (SessionOf(w) # proxyOf)
        ELSE UNCHANGED <<vault, late>>
     /\ IF works THEN At(w, "status") ELSE Ends(w)
     /\ UNCHANGED <<network, service, sessions>>

\* The status is written under the service's lock.
WriteStatus(w) ==
  /\ Stage(w) = "status" /\ ~Locked
  /\ Ends(w)
  /\ UNCHANGED <<network, vault, service, sessions, late>>

-----------------------------------------------------------------------------
Elapse ==
  /\ Fresh
  /\ vault' = Older
  /\ UNCHANGED <<network, service, sessions, worker, late>>

WorkerStep(w) ==
  \/ Greeted(w) \/ Broken(w) \/ TlsError(w) \/ TlsCounted(w) \/ WriteStatus(w)
  \/ \E works \in BOOLEAN : Capture(w, works)

CommandStep == ConnectDone \/ ConnectFails \/ TearDown \/ SaveDone

Next ==
  \/ ConnectRefused \/ Disconnect \/ CommandStep
  \/ \E https, trusted \in BOOLEAN : StartProxy(https, trusted)
  \/ \E n \in Network : SaveNetwork(n)
  \/ \E n \in Session : DivertOpens(n) \/ DivertFails(n)
  \/ \E w \in Worker : WorkerStep(w)
  \/ \E w \in Worker, n \in Session, port \in WebPort : Accept(w, n, port)
  \/ Elapse

Spec == Init /\ [][Next]_vars

\* A command once begun goes on (no wait in it is without a timeout), and so
\* does a worker after the handshake, as each of its reads has a timeout.
\* Nothing makes the user act or the aircraft call or complete a handshake, and
\* the lock is free again and again only as long as the user lets it be: the
\* worker that waits for it gets it sooner or later (strong).
Proceeds(w) == Stage(w) # "greeting" /\ WorkerStep(w)

Fairness ==
  /\ WF_vars(CommandStep)
  /\ \A w \in Worker : SF_vars(Proceeds(w))

FairSpec == Spec /\ Fairness

-----------------------------------------------------------------------------
(* Properties.                                                             *)

Serving == {n \in Session : sessions[n].open # {}}
Reflecting == {n \in Session : Redirected(n) # {}}

\* A Connect that failed half-way and a Disconnect leave nothing behind: with
\* the tap off and no command under way, no listener is open and no packet is
\* redirected; with it on, only the last session's proxy and redirect are.
AllOrNothing ==
  step = "idle" =>
    IF running
    THEN /\ proxyOf = made /\ divertOf = made
         /\ Serving = {made} /\ Reflecting \subseteq {made}
    ELSE proxyOf = NoSession /\ Serving = {} /\ Reflecting = {}

\* No redirected packet meets a closed port 80: the redirect is up only while
\* its own proxy listens, also half-way through Connect and Disconnect.
HttpIsServed ==
  \A n \in Session :
    "http" \in Redirected(n) => "http" \in sessions[n].open

\* Off means off: while disconnected the vault is empty, and it never files a
\* logon under another network than its own, except for a logon stored by a
\* worker that outlived its session.
VaultIsLive ==
  vault # NoCreds /\ ~late /\ step = "idle" =>
    running /\ vault[1].filed = vault[1].origin

\* Stop holds the service's lock while it takes the proxy down, and workers
\* wait for that lock: each of them that has its request to carry finishes all
\* the same.  (Before that, a caller of the HTTPS port that never completes the
\* handshake holds its worker, also after Disconnect.)
WorkersFinish ==
  \A w \in Worker : Stage(w) \notin {"free", "greeting"} ~> Stage(w) = "free"

\* proxy.py:87 "HTTP-only still useful; surface HTTPS bind failure": HTTPS is
\* redirected only to a proxy that listens for it.
HttpsIsServed ==
  \A n \in Session :
    "https" \in Redirected(n) => "https" \in sessions[n].open
=============================================================================
