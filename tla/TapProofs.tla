----------------------------- MODULE TapProofs ------------------------------
(***************************************************************************)
(* Proofs about the tap: Connect and Disconnect, for any number of         *)
(* workers, sessions, networks, changes of network and TLS failures; the   *)
(* redirect's verdicts, for any number of ports, programs, connections and *)
(* remembered verdicts; and the forms of the exchanges that reach the      *)
(* proxy, for any fields and values.                                       *)
(***************************************************************************)
EXTENDS AcarsTap, TapFlows, ProxyForms, SequenceLemmas

-----------------------------------------------------------------------------
(* Connect, Disconnect, the workers and the vault.                         *)

SessionType ==
  [open : SUBSET WebPort, upstream : Network,
   driver : {"opening", "on", "failed", "off"}, ports : SUBSET WebPort,
   failures : Nat, armed : BOOLEAN]

Accepted == [session : Session, stage : {"greeting", "open", "failed", "status"}, seen : Nat]
Logon == [origin : Network, filed : Network, age : Nat]

TapTypeOK ==
  /\ network \in Network
  /\ vault = <<>> \/ \E c \in Logon : vault = <<c>>
  /\ step \in {"idle", "connecting", "stopping", "saving"}
  /\ running \in BOOLEAN /\ late \in BOOLEAN /\ made \in 0 .. MaxSessions
  /\ proxyOf \in {NoSession, made} /\ divertOf \in {NoSession, made}
  /\ sessions \in [Session -> SessionType]
  /\ worker \in [Worker -> {<<>>} \cup {<<c>> : c \in Accepted}]

\* How far the command thread has come says what stands.
StepInv ==
  /\ step = "connecting" =>
       ~running /\ made # NoSession /\ proxyOf = made /\ divertOf = NoSession
  /\ step \in {"idle", "saving"} =>
       IF running THEN made # NoSession /\ proxyOf = made /\ divertOf = made
       ELSE proxyOf = NoSession /\ divertOf = NoSession
  /\ step = "stopping" =>
       divertOf = NoSession /\ (running => made # NoSession /\ proxyOf = made)

\* Only the service's proxy listens, at least for HTTP; only the service's
\* redirect, or the one a Connect is opening, has a driver.
SessionInv ==
  /\ \A n \in Session :
       /\ n # proxyOf => sessions[n].open = {}
       /\ n = proxyOf => "http" \in sessions[n].open
       /\ sessions[n].driver # "off" =>
            n = divertOf \/ (step = "connecting" /\ n = made)

\* A logon stored in time belongs to the proxy that stands, whose network is the
\* chosen one except between a save and the disconnect that it ends in.
VaultInv ==
  /\ step \in {"idle", "connecting"} /\ proxyOf # NoSession =>
       sessions[proxyOf].upstream = network
  /\ vault # <<>> /\ ~late =>
       /\ proxyOf # NoSession
       /\ step \in {"idle", "connecting"} => vault[1].filed = vault[1].origin

TapInv == TapTypeOK /\ StepInv /\ SessionInv /\ VaultInv

-----------------------------------------------------------------------------
\* A change of one session's redirect, whatever happens around it.
DriverOnly(n, driver, ports) ==
  sessions' = [sessions EXCEPT ![n].driver = driver, ![n].ports = ports]

LEMMA DriverChanges ==
  ASSUME sessions \in [Session -> SessionType], NEW n \in Session,
         NEW driver \in {"opening", "on", "failed", "off"}, NEW ports \in SUBSET WebPort,
         DriverOnly(n, driver, ports)
  PROVE  /\ sessions' \in [Session -> SessionType]
         /\ \A m \in Session :
              /\ m # n => sessions'[m] = sessions[m]
              /\ sessions'[m].open = sessions[m].open
              /\ sessions'[m].upstream = sessions[m].upstream
         /\ sessions'[n].driver = driver
<1> DEFINE one == [sessions[n] EXCEPT !.driver = driver]
           two == [one EXCEPT !.ports = ports]
           mid == [sessions EXCEPT ![n] = one]
<1>1. one \in SessionType /\ one.driver = driver /\ one.open = sessions[n].open
      /\ one.upstream = sessions[n].upstream
  BY DEF SessionType
<1>2. two \in SessionType /\ two.driver = driver /\ two.open = sessions[n].open
      /\ two.upstream = sessions[n].upstream
  BY <1>1 DEF SessionType
<1>3. mid \in [Session -> SessionType] /\ mid[n] = one
      /\ \A m \in Session : m # n => mid[m] = sessions[m]
  BY <1>1
<1>4. sessions' = [mid EXCEPT ![n] = two]
  BY <1>3 DEF DriverOnly
<1> HIDE DEF one, two, mid
<1>5. sessions' \in [Session -> SessionType] /\ sessions'[n] = two
      /\ \A m \in Session : m # n => sessions'[m] = sessions[m]
  BY <1>2, <1>3, <1>4
<1>6. QED BY <1>2, <1>5

\* Connect.
LEMMA ConnectKeeps ==
  ASSUME TapInv,
         \/ ConnectRefused \/ ConnectDone \/ ConnectFails
         \/ \E secure, trusted \in BOOLEAN : StartProxy(secure, trusted)
  PROVE  TapInv'
<1> USE TapAssumption DEF NoCreds, NoSession, Session
<1>1. CASE ConnectRefused
  BY <1>1 DEF ConnectRefused, service, TapInv, TapTypeOK, StepInv, SessionInv, VaultInv
<1>2. CASE ConnectDone
  BY <1>2 DEF ConnectDone, TapInv, TapTypeOK, StepInv, SessionInv, VaultInv
<1>3. CASE ConnectFails
  <2>1. /\ step = "connecting" /\ step' = "stopping"
        /\ DriverOnly(made, "off", {})
        /\ UNCHANGED <<network, vault, running, made, proxyOf, divertOf, worker, late>>
    BY <1>3 DEF ConnectFails, DriverOnly
  <2>2. made \in Session
    BY <2>1 DEF TapInv, TapTypeOK, StepInv
  <2>3. /\ sessions' \in [Session -> SessionType]
        /\ \A m \in Session :
             /\ m # made => sessions'[m] = sessions[m]
             /\ sessions'[m].open = sessions[m].open
             /\ sessions'[m].upstream = sessions[m].upstream
        /\ sessions'[made].driver = "off"
    BY <2>1, <2>2, DriverChanges DEF TapInv, TapTypeOK
  <2>4. QED BY <2>1, <2>2, <2>3 DEF TapInv, TapTypeOK, StepInv, SessionInv, VaultInv
<1>4. ASSUME NEW secure \in BOOLEAN, NEW trusted \in BOOLEAN, StartProxy(secure, trusted)
      PROVE  TapInv'
  <2> DEFINE new == NewProxy(secure, trusted)
  <2>1. new \in SessionType /\ "http" \in new.open /\ new.upstream = network
    BY DEF NewProxy, SessionType, Some, WebPort, TapInv, TapTypeOK
  <2>2. /\ step = "idle" /\ ~running /\ made < MaxSessions
        /\ step' = "connecting" /\ made' = made + 1 /\ proxyOf' = made + 1
        /\ sessions' = [sessions EXCEPT ![made + 1] = new]
        /\ UNCHANGED <<network, vault, running, divertOf, worker, late>>
    BY <1>4 DEF StartProxy
  <2> HIDE DEF new
  <2>3. proxyOf = NoSession /\ divertOf = NoSession /\ made + 1 \in Session
    BY <2>2 DEF TapInv, TapTypeOK, StepInv
  <2>4. /\ sessions' \in [Session -> SessionType] /\ sessions'[made + 1] = new
        /\ \A n \in Session : n # made + 1 => sessions'[n] = sessions[n]
    BY <2>1, <2>2, <2>3 DEF TapInv, TapTypeOK
  <2>5. TapTypeOK' /\ StepInv'
    BY <2>2, <2>3, <2>4 DEF TapInv, TapTypeOK, StepInv
  <2>6. SessionInv'
    BY <2>1, <2>2, <2>3, <2>4 DEF TapInv, TapTypeOK, SessionInv
  <2>7. VaultInv'
    BY <2>1, <2>2, <2>3, <2>4 DEF TapInv, VaultInv
  <2>8. QED BY <2>5, <2>6, <2>7 DEF TapInv
<1>5. QED BY <1>1, <1>2, <1>3, <1>4

\* The redirect of a session stops, its proxy stands.
LEMMA StopDivertKeeps ==
  ASSUME TapInv, step \in {"idle", "saving"}, StopDivert,
         UNCHANGED <<network, running, made, proxyOf, worker>>,
         UNCHANGED <<vault, late>> \/ (vault' = <<>> /\ late' = FALSE)
  PROVE  TapInv'
<1> USE TapAssumption DEF NoSession, Session
<1>1. step' = "stopping" /\ divertOf' = NoSession /\ sessions' = DivertStopped
  BY DEF StopDivert
<1>2. /\ sessions' \in [Session -> SessionType]
      /\ \A m \in Session :
           /\ m # divertOf => sessions'[m] = sessions[m]
           /\ sessions'[m].open = sessions[m].open
           /\ m = divertOf => sessions'[m].driver = "off"
  <2>1. CASE divertOf = NoSession
    BY <1>1, <2>1 DEF DivertStopped, TapInv, TapTypeOK
  <2>2. CASE divertOf # NoSession
    <3>1. divertOf \in Session /\ DriverOnly(divertOf, "off", {})
      BY <1>1, <2>2 DEF DivertStopped, DriverOnly, TapInv, TapTypeOK
    <3>2. QED BY <3>1, DriverChanges DEF TapInv, TapTypeOK
  <2>3. QED BY <2>1, <2>2
<1>3. TapTypeOK' /\ StepInv'
  BY <1>1, <1>2 DEF TapInv, TapTypeOK, StepInv
<1>4. SessionInv'
  BY <1>1, <1>2 DEF TapInv, SessionInv
<1>5. VaultInv'
  BY <1>1 DEF TapInv, VaultInv
<1>6. QED BY <1>3, <1>4, <1>5 DEF TapInv

\* Disconnect and the save that changes the network.
LEMMA DisconnectKeeps ==
  ASSUME TapInv,
         Disconnect \/ TearDown \/ SaveDone \/ \E n \in Network : SaveNetwork(n)
  PROVE  TapInv'
<1> USE TapAssumption DEF NoCreds, NoSession, Session
<1>1. CASE Disconnect
  BY <1>1, StopDivertKeeps DEF Disconnect
<1>2. CASE TearDown
  <2>1. /\ step = "stopping" /\ step' = "idle" /\ proxyOf' = NoSession
        /\ vault' = <<>> /\ late' = FALSE /\ running' = FALSE
        /\ sessions' = (IF proxyOf = NoSession THEN sessions
                        ELSE [sessions EXCEPT ![proxyOf].open = {}])
        /\ UNCHANGED <<network, made, divertOf, worker>>
    BY <1>2 DEF TearDown
  <2>2. /\ sessions' \in [Session -> SessionType]
        /\ \A m \in Session : /\ m # proxyOf => sessions'[m] = sessions[m]
                              /\ m = proxyOf => sessions'[m].open = {}
                              /\ sessions'[m].driver = sessions[m].driver
    <3>1. CASE proxyOf = NoSession
      BY <2>1, <3>1 DEF TapInv, TapTypeOK
    <3>2. CASE proxyOf # NoSession
      <4> DEFINE new == [sessions[proxyOf] EXCEPT !.open = {}]
      <4>1. proxyOf \in Session
        BY <3>2 DEF TapInv, TapTypeOK
      <4>2. new \in SessionType /\ new.open = {} /\ new.driver = sessions[proxyOf].driver
        BY <4>1 DEF TapInv, TapTypeOK, SessionType
      <4>3. sessions' = [sessions EXCEPT ![proxyOf] = new]
        BY <2>1, <3>2
      <4> HIDE DEF new
      <4>4. QED BY <4>1, <4>2, <4>3 DEF TapInv, TapTypeOK
    <3>3. QED BY <3>1, <3>2
  <2>3. TapTypeOK' /\ StepInv'
    BY <2>1, <2>2 DEF TapInv, TapTypeOK, StepInv
  <2>4. SessionInv'
    BY <2>1, <2>2 DEF TapInv, TapTypeOK, StepInv, SessionInv
  <2>5. QED BY <2>1, <2>3, <2>4 DEF TapInv, VaultInv
<1>3. CASE SaveDone
  <2>1. CASE running
    BY <1>3, <2>1, StopDivertKeeps DEF SaveDone
  <2>2. CASE ~running
    BY <1>3, <2>2 DEF SaveDone, TapInv, TapTypeOK, StepInv, SessionInv, VaultInv
  <2>3. QED BY <2>1, <2>2
<1>4. CASE \E n \in Network : SaveNetwork(n)
  BY <1>4 DEF SaveNetwork, TapInv, TapTypeOK, StepInv, SessionInv, VaultInv
<1>5. QED BY <1>1, <1>2, <1>3, <1>4

-----------------------------------------------------------------------------
\* The redirect's own thread.
LEMMA DivertKeeps ==
  ASSUME TapInv, NEW n \in Session, DivertOpens(n) \/ DivertFails(n)
  PROVE  TapInv'
<1>1. PICK driver \in {"on", "failed"} :
        /\ sessions[n].driver = "opening"
        /\ sessions' = [sessions EXCEPT ![n].driver = driver]
        /\ UNCHANGED <<network, vault, service, worker, late>>
  BY DEF DivertOpens, DivertFails
<1> DEFINE new == [sessions[n] EXCEPT !.driver = driver]
<1>2. /\ new \in SessionType /\ new.open = sessions[n].open
      /\ new.upstream = sessions[n].upstream
  BY DEF TapInv, TapTypeOK, SessionType
<1>3. sessions' = [sessions EXCEPT ![n] = new]
  BY <1>1
<1> HIDE DEF new
<1>4. /\ sessions' \in [Session -> SessionType]
      /\ \A m \in Session : /\ m # n => sessions'[m] = sessions[m]
                            /\ sessions'[m].open = sessions[m].open
                            /\ sessions'[m].upstream = sessions[m].upstream
  BY <1>2, <1>3 DEF TapInv, TapTypeOK
<1>5. TapTypeOK' /\ StepInv'
  BY <1>1, <1>4 DEF service, TapInv, TapTypeOK, StepInv
<1>6. SessionInv'
  BY <1>1, <1>4 DEF service, TapInv, SessionInv
<1>7. VaultInv'
  BY <1>1, <1>4, TapAssumption
     DEF service, TapInv, TapTypeOK, VaultInv, Session, NoSession
<1>8. QED BY <1>5, <1>6, <1>7 DEF TapInv

LEMMA OneElement ==
  ASSUME NEW c, NEW d
  PROVE  [<<c>> EXCEPT ![1] = d] = <<d>>
OBVIOUS

\* A worker's step changes its own connection.
LEMMA AtKeeps ==
  ASSUME TapTypeOK, NEW w \in Worker, worker[w] # <<>>,
         NEW stage \in {"open", "failed", "status"}, At(w, stage)
  PROVE  worker' \in [Worker -> {<<>>} \cup {<<c>> : c \in Accepted}]
<1>1. PICK c \in Accepted : worker[w] = <<c>>
  BY DEF TapTypeOK
<1>2. [c EXCEPT !.stage = stage] \in Accepted
  BY DEF Accepted
<1>3. worker' = [worker EXCEPT ![w] = [worker[w] EXCEPT ![1] =
                                        [worker[w][1] EXCEPT !.stage = stage]]]
  BY DEF At
<1>4. worker[w][1] = c
  BY <1>1
<1>5. [worker[w] EXCEPT ![1] = [worker[w][1] EXCEPT !.stage = stage]]
        = <<[c EXCEPT !.stage = stage]>>
  BY <1>1, <1>4, OneElement
<1>6. worker' = [worker EXCEPT ![w] = <<[c EXCEPT !.stage = stage]>>]
  BY <1>3, <1>5
<1>7. QED BY <1>2, <1>6 DEF TapTypeOK

LEMMA WorkerKeeps ==
  ASSUME TapInv, NEW w \in Worker, WorkerStep(w)
  PROVE  TapInv'
<1> USE DEF NoCreds
<1>0. TapTypeOK
  BY DEF TapInv
<1>1. CASE Broken(w) \/ WriteStatus(w)
  BY <1>1 DEF Broken, WriteStatus, Ends, service, TapInv, TapTypeOK, StepInv,
              SessionInv, VaultInv
<1>2. CASE TlsError(w)
  <2>1. PICK c \in Accepted : worker[w] = <<c>>
    BY <1>0, <1>2 DEF TlsError, Stage, TapTypeOK
  <2> DEFINE seen == sessions[SessionOf(w)].failures
             new == [[c EXCEPT !.stage = "failed"] EXCEPT !.seen = seen]
  <2>2. seen \in Nat
    BY <1>0, <2>1 DEF TapTypeOK, SessionOf, Accepted, SessionType
  <2>3. new \in Accepted
    BY <2>2 DEF Accepted
  <2> DEFINE failed == [c EXCEPT !.stage = "failed"]
             mid == [worker EXCEPT ![w][1].stage = "failed"]
  <2>4. UNCHANGED <<network, vault, service, sessions, late>>
        /\ worker' = [mid EXCEPT ![w][1].seen = seen]
    BY <1>2 DEF TlsError
  <2>5. worker' \in [Worker -> {<<>>} \cup {<<d>> : d \in Accepted}]
    <3>1. [worker[w] EXCEPT ![1] = [worker[w][1] EXCEPT !.stage = "failed"]] = <<failed>>
      BY <2>1, OneElement
    <3>2. mid = [worker EXCEPT ![w] =
                   [worker[w] EXCEPT ![1] = [worker[w][1] EXCEPT !.stage = "failed"]]]
      OBVIOUS
    <3> HIDE DEF failed, mid
    <3>3. mid = [worker EXCEPT ![w] = <<failed>>]
      BY <3>1, <3>2
    <3>4. mid[w] = <<failed>> /\ mid[w][1] = failed /\ DOMAIN mid = Worker
          /\ \A v \in Worker : v # w => mid[v] = worker[v]
      BY <1>0, <3>3 DEF TapTypeOK
    <3> HIDE DEF seen, new
    <3>5. [mid[w] EXCEPT ![1] = [mid[w][1] EXCEPT !.seen = seen]]
            = <<[failed EXCEPT !.seen = seen]>>
      BY <3>4, OneElement
    <3>6. worker' = [mid EXCEPT ![w] = [mid[w] EXCEPT ![1] = [mid[w][1] EXCEPT !.seen = seen]]]
      BY <2>4
    <3>7. [failed EXCEPT !.seen = seen] = new
      BY DEF failed, new
    <3>8. worker' = [mid EXCEPT ![w] = <<new>>]
      BY <3>5, <3>6, <3>7
    <3>9. QED BY <1>0, <2>3, <3>4, <3>8 DEF TapTypeOK
  <2>6. QED BY <2>4, <2>5 DEF service, TapInv, TapTypeOK, StepInv, SessionInv, VaultInv
<1>3. CASE TlsCounted(w)
  <2>1. PICK c \in Accepted : worker[w] = <<c>>
    BY <1>0, <1>3 DEF TlsCounted, Stage, TapTypeOK
  <2> DEFINE n == SessionOf(w)
             failures == IF worker[w][1].seen < TlsLimit
                         THEN worker[w][1].seen + 1 ELSE TlsLimit
             armed == IF ~sessions[n].armed /\ failures >= TlsLimit
                      THEN TRUE ELSE sessions[n].armed
             counted == [sessions EXCEPT ![n].failures = failures]
             both == [counted EXCEPT ![n].armed = TRUE]
  <2>2. n \in Session /\ failures \in Nat
    BY <2>1, TapAssumption DEF SessionOf, Accepted
  <2>3. /\ sessions' \in {counted, both, HttpsLeftAlone(both)}
        /\ worker' = [worker EXCEPT ![w] = <<>>]
        /\ UNCHANGED <<network, vault, service, late>>
    BY <1>3 DEF TlsCounted, Ends
  <2> DEFINE Same(s) == /\ s \in [Session -> SessionType]
                        /\ \A m \in Session : /\ s[m].open = sessions[m].open
                                              /\ s[m].upstream = sessions[m].upstream
                                              /\ s[m].driver = sessions[m].driver
  <2> HIDE DEF n, failures
  <2>4. Same(counted)
    <3> DEFINE new == [sessions[n] EXCEPT !.failures = failures]
    <3>1. new \in SessionType /\ new.open = sessions[n].open
          /\ new.upstream = sessions[n].upstream /\ new.driver = sessions[n].driver
      BY <1>0, <2>2 DEF TapTypeOK, SessionType
    <3>2. counted = [sessions EXCEPT ![n] = new]
      OBVIOUS
    <3> HIDE DEF new, counted
    <3>3. QED BY <1>0, <2>2, <3>1, <3>2 DEF TapTypeOK
  <2> HIDE DEF counted
  <2>5. Same(both)
    <3> DEFINE new == [counted[n] EXCEPT !.armed = TRUE]
    <3>1. new \in SessionType /\ new.open = counted[n].open
          /\ new.upstream = counted[n].upstream /\ new.driver = counted[n].driver
      BY <2>2, <2>4 DEF SessionType
    <3>2. both = [counted EXCEPT ![n] = new]
      OBVIOUS
    <3> HIDE DEF new, both
    <3>3. QED BY <2>2, <2>4, <3>1, <3>2
  <2> HIDE DEF both
  <2>6. Same(HttpsLeftAlone(both))
    <3>1. CASE divertOf = NoSession
      BY <2>5, <3>1 DEF HttpsLeftAlone
    <3>2. CASE divertOf # NoSession
      <4> DEFINE new == [both[divertOf] EXCEPT !.ports = {"http"}]
      <4>1. divertOf \in Session
        BY <1>0, <3>2, TapAssumption DEF TapTypeOK, Session, NoSession
      <4>2. new \in SessionType /\ new.open = both[divertOf].open
            /\ new.upstream = both[divertOf].upstream
            /\ new.driver = both[divertOf].driver
        BY <2>5, <4>1 DEF SessionType, WebPort
      <4>3. HttpsLeftAlone(both) = [both EXCEPT ![divertOf] = new]
        BY <3>2 DEF HttpsLeftAlone
      <4> HIDE DEF new
      <4>4. QED BY <2>5, <4>1, <4>2, <4>3
    <3>3. QED BY <3>1, <3>2
  <2>7. Same(sessions')
    BY <2>3, <2>4, <2>5, <2>6
  <2>8. TapTypeOK' /\ StepInv'
    BY <2>3, <2>7 DEF service, TapInv, TapTypeOK, StepInv
  <2>9. SessionInv'
    BY <2>3, <2>7 DEF service, TapInv, SessionInv
  <2>10. VaultInv'
    BY <1>0, <2>3, <2>7, TapAssumption
       DEF service, TapInv, TapTypeOK, VaultInv, Session, NoSession
  <2>11. QED BY <2>8, <2>9, <2>10 DEF TapInv
<1>4. ASSUME NEW works \in BOOLEAN, Capture(w, works)
      PROVE  TapInv'
  <2>1. PICK c \in Accepted : worker[w] = <<c>>
    BY <1>0, <1>4 DEF Capture, Stage, TapTypeOK
  <2> DEFINE n == SessionOf(w)
             origin == sessions[n].upstream
             logon == [origin |-> origin, filed |-> network, age |-> 0]
  <2>2. n \in Session /\ origin \in Network /\ logon \in Logon
    BY <1>0, <2>1 DEF SessionOf, Accepted, TapTypeOK, SessionType, Logon
  <2>3. /\ \/ vault' = <<logon>> /\ late' = (n # proxyOf)
           \/ UNCHANGED <<vault, late>>
        /\ UNCHANGED <<network, service, sessions>>
    BY <1>4 DEF Capture, Captured
  <2>4. worker' \in [Worker -> {<<>>} \cup {<<d>> : d \in Accepted}]
    <3>1. CASE works
      <4>1. At(w, "status")
        BY <1>4, <3>1 DEF Capture
      <4>2. TapTypeOK /\ worker[w] # <<>>
        BY <1>0, <2>1
      <4>3. QED BY <4>1, <4>2, AtKeeps
    <3>2. CASE ~works
      BY <1>0, <1>4, <3>2 DEF Capture, Ends, TapTypeOK
    <3>3. QED BY <3>1, <3>2
  <2>5. logon.filed = network /\ logon.origin = origin
    OBVIOUS
  <2> HIDE DEF logon
  <2>6. TapTypeOK' /\ StepInv' /\ SessionInv'
    BY <2>2, <2>3, <2>4 DEF service, TapInv, TapTypeOK, StepInv, SessionInv
  <2>7. VaultInv'
    <3>1. CASE UNCHANGED <<vault, late>>
      BY <2>3, <3>1 DEF service, TapInv, VaultInv
    <3>2. CASE vault' = <<logon>> /\ late' = (n # proxyOf)
      <4>1. vault'[1] = logon /\ UNCHANGED <<network, sessions, step, proxyOf>>
        BY <2>3, <3>2 DEF service
      <4>2. ~late' => proxyOf = n /\ proxyOf # NoSession
        <5>1. CASE n = proxyOf
          BY <2>2, <5>1 DEF Session, NoSession
        <5>2. CASE n # proxyOf
          <6>1. late' = TRUE
            BY <3>2, <5>2
          <6>2. QED BY <6>1
        <5>3. QED BY <5>1, <5>2
      <4>3. n = proxyOf /\ step \in {"idle", "connecting"} => origin = network
        BY <2>2, <4>2 DEF TapInv, VaultInv, Session, NoSession
      <4> HIDE DEF n, origin
      <4>4. ~late' /\ step \in {"idle", "connecting"} =>
              vault'[1].filed = vault'[1].origin
        BY <2>5, <4>1, <4>2, <4>3
      <4>5. QED BY <4>1, <4>2, <4>4 DEF TapInv, VaultInv
    <3>3. QED BY <2>3, <3>1, <3>2
  <2>8. QED BY <2>6, <2>7 DEF TapInv
<1>5. CASE Greeted(w)
  <2>1. worker[w] # <<>> /\ At(w, "open")
    BY <1>5 DEF Greeted, Stage
  <2>2. worker' \in [Worker -> {<<>>} \cup {<<c>> : c \in Accepted}]
    BY <1>0, <2>1, AtKeeps
  <2>3. UNCHANGED <<network, vault, service, sessions, late>>
    BY <1>5 DEF Greeted
  <2>4. QED BY <2>2, <2>3 DEF service, TapInv, TapTypeOK, StepInv, SessionInv, VaultInv
<1>6. QED BY <1>1, <1>2, <1>3, <1>4, <1>5 DEF WorkerStep

LEMMA AcceptKeeps ==
  ASSUME TapInv, NEW w \in Worker, NEW n \in Session, NEW port \in WebPort,
         Accept(w, n, port)
  PROVE  TapInv'
<1> DEFINE new == [session |-> n, seen |-> 0,
                   stage |-> IF port = "https" THEN "greeting" ELSE "open"]
<1>1. new \in Accepted
  BY DEF Accepted
<1>2. /\ worker' = [worker EXCEPT ![w] = <<new>>]
      /\ UNCHANGED <<network, vault, service, sessions, late>>
  BY DEF Accept
<1> HIDE DEF new
<1>3. QED BY <1>1, <1>2 DEF service, TapInv, TapTypeOK, StepInv, SessionInv, VaultInv, service, TapInv, TapTypeOK, StepInv, SessionInv, VaultInv

LEMMA ElapseKeeps ==
  ASSUME TapInv, Elapse
  PROVE  TapInv'
<1>1. PICK c \in Logon : vault = <<c>>
  BY DEF Elapse, Fresh, NoCreds, TapInv, TapTypeOK
<1> DEFINE age == c.age + 1
           new == [c EXCEPT !.age = age]
<1>2. age \in Nat
  BY DEF Logon
<1>3. vault' = <<new>> /\ UNCHANGED <<network, service, sessions, worker, late>>
  BY <1>1 DEF Elapse, Older
<1> HIDE DEF age
<1>4. new \in Logon /\ new.filed = c.filed /\ new.origin = c.origin
  BY <1>2 DEF Logon
<1> HIDE DEF new
<1>5. QED
  BY <1>1, <1>3, <1>4 DEF service, TapInv, TapTypeOK, StepInv, SessionInv, VaultInv

LEMMA NextKeeps ==
  ASSUME TapInv, [Next]_vars
  PROVE  TapInv'
<1>1. CASE UNCHANGED vars
  BY <1>1 DEF vars, service, TapInv, TapTypeOK, StepInv, SessionInv, VaultInv
<1>2. CASE \E n \in Session : DivertOpens(n) \/ DivertFails(n)
  BY <1>2, DivertKeeps
<1>3. CASE \E w \in Worker : WorkerStep(w)
  BY <1>3, WorkerKeeps
<1>4. CASE \E w \in Worker, n \in Session, port \in WebPort : Accept(w, n, port)
  BY <1>4, AcceptKeeps
<1>5. QED
  BY <1>1, <1>2, <1>3, <1>4, ConnectKeeps, DisconnectKeeps, ElapseKeeps
     DEF Next, CommandStep

LEMMA InitHolds ==
  Init => TapInv
<1> SUFFICES ASSUME Init PROVE TapInv
  OBVIOUS
<1>1. \A n \in Session : sessions[n] = Unused
  BY DEF Init
<1>2. Unused \in SessionType /\ Unused.open = {} /\ Unused.driver = "off"
  BY DEF Init, Unused, SessionType
<1>3. sessions \in [Session -> SessionType]
  BY <1>1, <1>2 DEF Init
<1>4. worker \in [Worker -> {<<>>} \cup {<<c>> : c \in Accepted}]
  BY DEF Init
<1>5. TapTypeOK
  <2>1. made \in 0 .. MaxSessions
    BY TapAssumption DEF Init
  <2>2. vault = <<>> /\ network \in Network /\ running \in BOOLEAN /\ late \in BOOLEAN
        /\ step = "idle" /\ proxyOf = NoSession /\ divertOf = NoSession
    BY DEF Init, NoCreds
  <2>3. QED BY <1>3, <1>4, <2>1, <2>2 DEF TapTypeOK
<1>6. StepInv
  BY DEF Init, StepInv
<1>7. SessionInv /\ VaultInv
  BY <1>1, <1>2 DEF Init, SessionInv, VaultInv, NoSession, NoCreds, Session
<1>8. QED BY <1>5, <1>6, <1>7 DEF TapInv

LEMMA Invariant == Spec => []TapInv
BY InitHolds, NextKeeps, PTL DEF Spec

-----------------------------------------------------------------------------
\* With the tap off and no command under way no proxy listens and no packet is
\* redirected, with it on those of the last Connect alone do (service.py, start,
\* stop and _cleanup_unlocked), however Connects fail, whenever the redirect's
\* driver opens, and whatever workers of earlier proxies still do.
THEOREM ConnectIsAllOrNothing == Spec => []AllOrNothing
<1>1. TapInv => AllOrNothing
  <2> SUFFICES ASSUME TapInv, step = "idle"
               PROVE  IF running
                      THEN /\ proxyOf = made /\ divertOf = made
                           /\ Serving = {made} /\ Reflecting \subseteq {made}
                      ELSE proxyOf = NoSession /\ Serving = {} /\ Reflecting = {}
    BY DEF AllOrNothing
  <2>1. \A n \in Session : /\ n \in Serving <=> n = proxyOf
                           /\ n \in Reflecting => n = divertOf
    BY DEF TapInv, SessionInv, Serving, Reflecting, Redirected
  <2>2. Serving \subseteq Session /\ Reflecting \subseteq Session
    BY DEF Serving, Reflecting
  <2>3. CASE running
    <3>1. proxyOf = made /\ divertOf = made /\ made \in Session
      BY <2>3, TapAssumption DEF TapInv, TapTypeOK, StepInv, Session, NoSession
    <3>2. Serving = {made} /\ Reflecting \subseteq {made}
      BY <2>1, <2>2, <3>1
    <3>3. QED BY <2>3, <3>1, <3>2
  <2>4. CASE ~running
    BY <2>1, <2>2, <2>4 DEF TapInv, StepInv, Session, NoSession
  <2>5. QED BY <2>3, <2>4
<1>2. QED BY <1>1, Invariant, PTL

\* The redirect sends packets for port 80 only while its own proxy listens
\* there, also half-way through Connect, Disconnect and a change of network
\* (divert.py and proxy.py, start and stop, in the order of service.py).
THEOREM Port80IsServed == Spec => []HttpIsServed
<1>1. TapInv => HttpIsServed
  <2> SUFFICES ASSUME TapInv, NEW n \in Session, "http" \in Redirected(n)
               PROVE  "http" \in sessions[n].open
    BY DEF HttpIsServed
  <2>1. sessions[n].driver # "off" /\ n # NoSession
    BY DEF Redirected, Session, NoSession
  <2>2. n = divertOf \/ (step = "connecting" /\ n = made)
    BY <2>1 DEF TapInv, SessionInv
  <2>3. n = proxyOf
    BY <2>1, <2>2 DEF TapInv, TapTypeOK, StepInv
  <2>4. QED BY <2>3 DEF TapInv, SessionInv
<1>2. QED BY <1>1, Invariant, PTL

\* While disconnected the vault is empty, and it files a logon under the network
\* it was sent to (service.py, on_exchange and stop; wire_session.py), except
\* for a logon stored by a worker that outlived its session.
THEOREM LogonIsLive == Spec => []VaultIsLive
<1>1. TapInv => VaultIsLive
  BY DEF TapInv, StepInv, VaultInv, VaultIsLive, NoCreds
<1>2. QED BY <1>1, Invariant, PTL

-----------------------------------------------------------------------------
(* The verdicts of the redirect.                                           *)

Connection ==
  [program : Program \cup {Nobody}, dport : Server,
   ways : SUBSET {"proxy", "host"}, lost : BOOLEAN]

FlowsTypeOK ==
  /\ client \in [Port -> Connection]
  /\ rows \in [Port -> Program \cup {Nobody}]
  /\ snapshot \in [Port -> Program \cup {Nobody}]
  /\ DOMAIN policy \subseteq Flow
  /\ marked \subseteq Port /\ https \in BOOLEAN

FlowOf(p) == <<p, client[p].dport>>

\* A connection nobody disturbed went where its verdict, still remembered, says.
WayInv ==
  \A p \in InUse :
    /\ client[p].lost => p \in upset
    /\ p \notin upset /\ "proxy" \in client[p].ways =>
         /\ Reflects(client[p].dport) /\ p \in marked
         /\ FlowOf(p) \in DOMAIN policy /\ policy[FlowOf(p)]
    /\ p \notin upset /\ "host" \in client[p].ways =>
         \/ ~Reflects(client[p].dport)
         \/ FlowOf(p) \in DOMAIN policy /\ ~policy[FlowOf(p)]

\* Of a port that never changed hands everything known is about its program.
OwnerInv ==
  \A p \in Port \ reused :
    /\ p \notin InUse =>
         /\ rows[p] = Nobody /\ snapshot[p] = Nobody
         /\ \A d \in Server : <<p, d>> \notin DOMAIN policy
    /\ p \in InUse =>
         /\ {rows[p], snapshot[p]} \subseteq {Nobody, client[p].program}
         /\ \A d \in Server :
              <<p, d>> \in DOMAIN policy /\ policy[<<p, d>>] => client[p].program \in Sim
         /\ "proxy" \in client[p].ways => client[p].program \in Sim

FlowsInv == FlowsTypeOK /\ WayInv /\ OwnerInv

-----------------------------------------------------------------------------
\* The programs and the system: connections open and close, rows appear.
LEMMA SystemKeeps ==
  ASSUME FlowsInv, Nobody \notin Program,
         \/ \E p \in Port, program \in Program, dport \in Server : Open(p, program, dport)
         \/ \E p \in Port : RowAppears(p) \/ Close(p)
         \/ Age \/ SetHttpsRedirect
  PROVE  FlowsInv'
<1>1. ASSUME NEW p \in Port, NEW program \in Program, NEW dport \in Server,
             Open(p, program, dport)
      PROVE  FlowsInv'
  <2> DEFINE new == [Closed EXCEPT !.program = program, !.dport = dport]
  <2>1. new \in Connection /\ new.program = program /\ new.dport = dport
        /\ new.ways = {} /\ new.lost = FALSE
    BY DEF Closed, Connection, Server
  <2>2. client' = [client EXCEPT ![p] = new] /\ p \notin InUse
        /\ UNCHANGED <<rows, snapshot, policy, marked, https, reused, upset>>
    BY <1>1 DEF Open
  <2> HIDE DEF new
  <2>3. InUse' = InUse \cup {p}
    BY <2>1, <2>2 DEF InUse, FlowsInv, FlowsTypeOK
  <2>4. FlowsTypeOK'
    BY <2>1, <2>2 DEF FlowsInv, FlowsTypeOK
  <2>5. WayInv'
    BY <2>1, <2>2, <2>3 DEF FlowsInv, FlowsTypeOK, WayInv, FlowOf, Reflects, InUse
  <2>6. OwnerInv'
    BY <2>1, <2>2, <2>3 DEF FlowsInv, FlowsTypeOK, OwnerInv, InUse
  <2>7. QED BY <2>4, <2>5, <2>6 DEF FlowsInv
<1>2. ASSUME NEW p \in Port, RowAppears(p)
      PROVE  FlowsInv'
  <2>1. rows' = [rows EXCEPT ![p] = client[p].program]
        /\ UNCHANGED <<client, snapshot, policy, marked, https, reused, upset>>
    BY <1>2 DEF RowAppears
  <2>2. FlowsTypeOK'
    BY <2>1 DEF FlowsInv, FlowsTypeOK, Connection
  <2>3. WayInv'
    BY <2>1 DEF FlowsInv, WayInv, FlowOf, Reflects, InUse
  <2>4. OwnerInv'
    BY <2>1 DEF FlowsInv, FlowsTypeOK, OwnerInv, InUse
  <2>5. QED BY <2>2, <2>3, <2>4 DEF FlowsInv
<1>3. ASSUME NEW p \in Port, Close(p)
      PROVE  FlowsInv'
  <2>1. client' = [client EXCEPT ![p] = Closed]
        /\ reused' = reused \cup {p} /\ upset' = upset \ {p}
        /\ UNCHANGED <<rows, snapshot, policy, marked, https>>
    BY <1>3 DEF Close
  <2>2. Closed \in Connection /\ Closed.program = Nobody
    BY DEF Closed, Connection, Server
  <2>3. InUse' = InUse \ {p}
    BY <2>1, <2>2 DEF InUse, FlowsInv, FlowsTypeOK
  <2>4. FlowsTypeOK'
    BY <2>1, <2>2 DEF FlowsInv, FlowsTypeOK
  <2>5. WayInv'
    BY <2>1, <2>3 DEF FlowsInv, FlowsTypeOK, WayInv, FlowOf, Reflects, InUse
  <2>6. OwnerInv'
    BY <2>1, <2>3 DEF FlowsInv, FlowsTypeOK, OwnerInv, InUse
  <2>7. QED BY <2>4, <2>5, <2>6 DEF FlowsInv
<1>4. CASE Age
  BY <1>4 DEF Age, FlowsInv, FlowsTypeOK, WayInv, OwnerInv, FlowOf, Reflects, InUse
<1>5. CASE SetHttpsRedirect
  <2>1. https' = FALSE /\ upset' = upset \cup InUse
        /\ UNCHANGED <<client, rows, snapshot, policy, marked, reused>>
    BY <1>5 DEF SetHttpsRedirect
  <2>2. InUse' = InUse
    BY <2>1 DEF InUse
  <2>3. WayInv'
    BY <2>1, <2>2 DEF WayInv
  <2>4. QED BY <2>1, <2>2, <2>3 DEF FlowsInv, FlowsTypeOK, OwnerInv, InUse
<1>6. QED BY <1>1, <1>2, <1>3, <1>4, <1>5

\* A connection that sends a packet the way its verdict says.
LEMMA PacketGoes ==
  ASSUME FlowsInv, NEW p \in InUse, NEW way \in {"proxy", "host"},
         client' = [client EXCEPT ![p].ways = @ \cup {way}]
  PROVE  /\ client' \in [Port -> Connection] /\ InUse' = InUse
         /\ \A q \in Port : /\ client'[q].program = client[q].program
                            /\ client'[q].dport = client[q].dport
                            /\ client'[q].lost = client[q].lost
                            /\ q # p => client'[q].ways = client[q].ways
         /\ client'[p].ways = client[p].ways \cup {way}
         /\ p \in Port
<1> DEFINE new == [client[p] EXCEPT !.ways = client[p].ways \cup {way}]
<1>1. p \in Port /\ client[p] \in Connection
  BY DEF InUse, FlowsInv, FlowsTypeOK
<1>2. new \in Connection /\ new.program = client[p].program /\ new.dport = client[p].dport
      /\ new.lost = client[p].lost /\ new.ways = client[p].ways \cup {way}
  BY <1>1 DEF Connection
<1>3. client' = [client EXCEPT ![p] = new]
  OBVIOUS
<1> HIDE DEF new
<1>4. client' \in [Port -> Connection] /\ client'[p] = new
      /\ \A q \in Port : q # p => client'[q] = client[q]
  BY <1>1, <1>2, <1>3 DEF FlowsInv, FlowsTypeOK
<1>5. \A q \in Port : client'[q].program = client[q].program
  BY <1>2, <1>4
<1>6. QED BY <1>1, <1>2, <1>4, <1>5 DEF InUse

LEMMA PacketKeeps ==
  ASSUME FlowsInv, Nobody \notin Program, NEW p \in Port, ClientPacket(p)
  PROVE  FlowsInv'
<1> DEFINE f == FlowOf(p)
<1>0. p \in InUse /\ client[p] \in Connection /\ f \in Flow
      /\ UNCHANGED <<rows, https, reused>>
  BY DEF ClientPacket, FlowsInv, FlowsTypeOK, FlowOf, Flow, Connection
<1>1. CASE ~Reflects(client[p].dport)
  <2>1. client' = [client EXCEPT ![p].ways = @ \cup {"host"}]
        /\ UNCHANGED <<snapshot, policy, marked, upset>>
    BY <1>1 DEF ClientPacket
  <2>2. FlowsTypeOK'
    BY <1>0, <2>1, PacketGoes DEF FlowsInv, FlowsTypeOK
  <2>3. WayInv'
    BY <1>0, <1>1, <2>1, PacketGoes DEF FlowsInv, WayInv, FlowOf, Reflects, InUse
  <2>4. OwnerInv'
    BY <1>0, <2>1, PacketGoes DEF FlowsInv, OwnerInv, InUse
  <2>5. QED BY <2>2, <2>3, <2>4 DEF FlowsInv
<1>2. CASE Reflects(client[p].dport) /\ f \in DOMAIN policy
  <2> DEFINE way == IF policy[f] THEN "proxy" ELSE "host"
  <2>1. client' = [client EXCEPT ![p].ways = @ \cup {way}]
        /\ marked' = (IF policy[f] THEN marked \cup {p} ELSE marked)
        /\ UNCHANGED <<snapshot, policy, upset>>
    BY <1>2 DEF ClientPacket, Recall, FlowOf
  <2>2. way \in {"proxy", "host"} /\ (way = "proxy" <=> policy[f])
    OBVIOUS
  <2> HIDE DEF way
  <2>3. FlowsTypeOK'
    BY <1>0, <2>1, <2>2, PacketGoes DEF FlowsInv, FlowsTypeOK
  <2>4. WayInv'
    BY <1>0, <1>2, <2>1, <2>2, PacketGoes DEF FlowsInv, WayInv, FlowOf, Reflects, InUse
  <2>5. OwnerInv'
    BY <1>0, <1>2, <2>1, <2>2, PacketGoes
       DEF FlowsInv, OwnerInv, InUse, FlowOf, Connection
  <2>6. QED BY <2>3, <2>4, <2>5 DEF FlowsInv
<1>3. CASE Reflects(client[p].dport) /\ f \notin DOMAIN policy
  <2> DEFINE full == Cardinality(DOMAIN policy) > MaxFlows
             kept == IF full THEN [g \in {} |-> FALSE] ELSE policy
             way == IF policy'[f] THEN "proxy" ELSE "host"
  <2>1. /\ LooksUp(p)
        /\ policy' = [g \in DOMAIN kept \cup {f} |->
                        IF g = f THEN MayDivert(snapshot'[p]) ELSE kept[g]]
        /\ marked' = (IF full THEN {} ELSE marked) \cup (IF policy'[f] THEN {p} ELSE {})
        /\ upset' = (IF full THEN upset \cup (InUse \ {p}) ELSE upset)
        /\ client' = [client EXCEPT ![p].ways = @ \cup {way}]
    BY <1>3 DEF ClientPacket, Decide, FlowOf
  <2>2. way \in {"proxy", "host"} /\ (way = "proxy" <=> policy'[f])
    OBVIOUS
  <2>3. snapshot' \in {rows, snapshot}
    BY <2>1 DEF LooksUp
  <2>4. /\ DOMAIN policy' \subseteq DOMAIN policy \cup {f} /\ f \in DOMAIN policy'
        /\ policy'[f] <=> snapshot'[p] \in Sim
        /\ \A g \in DOMAIN policy' : g # f => policy'[g] = policy[g]
        /\ ~full => DOMAIN policy \subseteq DOMAIN policy'
    BY <2>1 DEF MayDivert
  <2>5. /\ ~full => marked \subseteq marked' /\ upset' = upset
        /\ full => InUse \ {p} \subseteq upset'
        /\ marked' \subseteq marked \cup {p} /\ (policy'[f] => p \in marked')
        /\ upset \subseteq upset' /\ (p \in upset' => p \in upset)
    BY <2>1
  <2> HIDE DEF full, kept, way
  <2>6. FlowsTypeOK'
    BY <1>0, <2>1, <2>2, <2>3, <2>4, <2>5, PacketGoes DEF FlowsInv, FlowsTypeOK
  <2>7. WayInv'
    <3> SUFFICES ASSUME NEW q \in InUse
                 PROVE  /\ client'[q].lost => q \in upset'
                        /\ q \notin upset' /\ "proxy" \in client'[q].ways =>
                             /\ Reflects(client[q].dport) /\ q \in marked'
                             /\ FlowOf(q) \in DOMAIN policy' /\ policy'[FlowOf(q)]
                        /\ q \notin upset' /\ "host" \in client'[q].ways =>
                             \/ ~Reflects(client[q].dport)
                             \/ FlowOf(q) \in DOMAIN policy' /\ ~policy'[FlowOf(q)]
      <4>1. InUse' = InUse /\ \A q \in InUse : client'[q].dport = client[q].dport
        BY <1>0, <2>1, <2>2, PacketGoes DEF InUse
      <4>2. QED BY <1>0, <4>1 DEF WayInv, FlowOf, Reflects
    <3>1. CASE q = p
      <4>1. client'[q].ways = client[q].ways \cup {way} /\ client'[q].lost = client[q].lost
        BY <1>0, <2>1, <2>2, <3>1, PacketGoes
      <4>2. q \notin upset => client[q].ways \cap {"proxy", "host"} = {}
        BY <1>0, <1>3, <3>1 DEF FlowsInv, WayInv
      <4>3. QED BY <1>3, <2>2, <2>4, <2>5, <3>1, <4>1, <4>2 DEF FlowsInv, WayInv
    <3>2. CASE q # p
      <4>1. client'[q].ways = client[q].ways /\ client'[q].lost = client[q].lost
            /\ FlowOf(q) # f
        BY <1>0, <2>1, <2>2, <3>2, PacketGoes DEF InUse, FlowOf
      <4>2. QED BY <2>4, <2>5, <3>2, <4>1 DEF FlowsInv, WayInv
    <3>3. QED BY <3>1, <3>2
  <2>8. OwnerInv'
    <3> SUFFICES ASSUME NEW q \in Port \ reused
                 PROVE  /\ q \notin InUse =>
                             /\ rows[q] = Nobody /\ snapshot'[q] = Nobody
                             /\ \A d \in Server : <<q, d>> \notin DOMAIN policy'
                        /\ q \in InUse =>
                             /\ {rows[q], snapshot'[q]} \subseteq {Nobody, client[q].program}
                             /\ \A d \in Server :
                                  <<q, d>> \in DOMAIN policy' /\ policy'[<<q, d>>] =>
                                    client[q].program \in Sim
                             /\ "proxy" \in client'[q].ways => client[q].program \in Sim
      <4>1. InUse' = InUse /\ \A q \in Port : client'[q].program = client[q].program
        BY <1>0, <2>1, <2>2, PacketGoes DEF InUse
      <4>2. QED BY <1>0, <4>1 DEF OwnerInv
    <3>1. {rows[q], snapshot[q], snapshot'[q]} \subseteq
            (IF q \in InUse THEN {Nobody, client[q].program} ELSE {Nobody})
      BY <2>3 DEF FlowsInv, OwnerInv
    <3>2. q = p /\ policy'[f] => client[q].program \in Sim
      BY <1>0, <2>4, <3>1 DEF Program
    <3>3. \A d \in Server : <<q, d>> \in DOMAIN policy' /\ <<q, d>> # f =>
            <<q, d>> \in DOMAIN policy /\ policy'[<<q, d>>] = policy[<<q, d>>]
      BY <2>4
    <3>4. q # p => \A d \in Server : <<q, d>> # f
      BY DEF FlowOf
    <3>5. "proxy" \in client'[q].ways => "proxy" \in client[q].ways \/ (q = p /\ policy'[f])
      <4>1. q # p => client'[q].ways = client[q].ways
        BY <1>0, <2>1, <2>2, PacketGoes
      <4>2. client'[p].ways = client[p].ways \cup {way}
        BY <1>0, <2>1, <2>2, PacketGoes
      <4>3. QED BY <2>2, <4>1, <4>2
    <3>6. CASE q \notin InUse
      BY <1>0, <3>1, <3>3, <3>4, <3>6 DEF FlowsInv, OwnerInv
    <3>7. CASE q \in InUse
      <4>1. ASSUME NEW d \in Server, <<q, d>> \in DOMAIN policy', policy'[<<q, d>>]
            PROVE  client[q].program \in Sim
        <5>1. CASE <<q, d>> = f
          BY <3>2, <4>1, <5>1 DEF FlowOf
        <5>2. CASE <<q, d>> # f
          BY <3>3, <3>7, <4>1, <5>2 DEF FlowsInv, OwnerInv
        <5>3. QED BY <5>1, <5>2
      <4>2. "proxy" \in client'[q].ways => client[q].program \in Sim
        BY <3>2, <3>5, <3>7 DEF FlowsInv, OwnerInv
      <4>3. QED BY <3>1, <3>7, <4>1, <4>2
    <3>8. QED BY <3>6, <3>7
  <2>9. QED BY <2>6, <2>7, <2>8 DEF FlowsInv
<1>4. QED BY <1>1, <1>2, <1>3

LEMMA ReplyKeeps ==
  ASSUME FlowsInv, NEW p \in Port, ProxyReplies(p)
  PROVE  FlowsInv'
<1> DEFINE lost == client[p].lost \/ ~Reflects(client[p].dport) \/ p \notin marked
           new == [client[p] EXCEPT !.lost = lost]
<1>1. client[p] \in Connection /\ "proxy" \in client[p].ways /\ lost \in BOOLEAN
  BY DEF FlowsInv, FlowsTypeOK, ProxyReplies, Connection
<1>2. new \in Connection /\ new.program = client[p].program /\ new.lost = lost
      /\ new.dport = client[p].dport /\ new.ways = client[p].ways
  BY <1>1 DEF Connection
<1>3. client' = [client EXCEPT ![p] = new]
      /\ UNCHANGED <<rows, snapshot, policy, marked, https, reused, upset>>
  BY DEF ProxyReplies
<1>4. p \in InUse /\ lost => p \in upset
  BY <1>1 DEF FlowsInv, WayInv
<1> HIDE DEF lost, new
<1>5. InUse' = InUse
  BY <1>2, <1>3 DEF FlowsInv, FlowsTypeOK, InUse
<1>6. FlowsTypeOK'
  BY <1>2, <1>3 DEF FlowsInv, FlowsTypeOK
<1>7. WayInv'
  BY <1>2, <1>3, <1>4, <1>5 DEF FlowsInv, FlowsTypeOK, WayInv, FlowOf, Reflects, InUse
<1>8. OwnerInv'
  BY <1>2, <1>3, <1>5 DEF FlowsInv, FlowsTypeOK, OwnerInv
<1>9. QED BY <1>6, <1>7, <1>8 DEF FlowsInv

\* Two ways are both ways.
LEMMA TwoWays ==
  ASSUME NEW ways \in SUBSET {"proxy", "host"}, Cardinality(ways) = 2
  PROVE  "proxy" \in ways /\ "host" \in ways
<1>1. Cardinality({}) = 0 /\ Cardinality({"proxy"}) = 1 /\ Cardinality({"host"}) = 1
  BY FS_EmptySet, FS_Singleton
<1>2. ways = {} \/ ways = {"proxy"} \/ ways = {"host"} \/ ways = {"proxy", "host"}
  OBVIOUS
<1>3. ways # {} /\ ways # {"proxy"} /\ ways # {"host"}
  BY <1>1
<1>4. QED BY <1>2, <1>3

\* A connection goes one way for all of its life, to the proxy only if it is
\* the simulator's (divert.py, _should_divert_flow and _handle_packet), unless
\* verdicts were forgotten, HTTPS was switched or the port changed hands under
\* it; for any number of ports and programs and any size of the table.
THEOREM VerdictsHold ==
  ASSUME Nobody \notin Program
  PROVE  FlowsSpec => []FlowsAreSound
<1>1. FlowsInit => FlowsInv
  <2> SUFFICES ASSUME FlowsInit PROVE FlowsInv
    OBVIOUS
  <2>1. Closed \in Connection /\ Closed.program = Nobody
    BY DEF Closed, Connection, Server
  <2>2. InUse = {}
    BY <2>1 DEF FlowsInit, InUse
  <2>3. FlowsTypeOK
    BY <2>1 DEF FlowsInit, FlowsTypeOK
  <2>4. QED BY <2>2, <2>3 DEF FlowsInit, FlowsInv, WayInv, OwnerInv
<1>2. FlowsInv /\ [FlowsNext]_flowVars => FlowsInv'
  <2> SUFFICES ASSUME FlowsInv, [FlowsNext]_flowVars PROVE FlowsInv'
    OBVIOUS
  <2>1. CASE UNCHANGED flowVars
    BY <2>1 DEF flowVars, FlowsInv, FlowsTypeOK, WayInv, OwnerInv, FlowOf, Reflects, InUse
  <2>2. CASE \E p \in Port : ClientPacket(p)
    BY <2>2, PacketKeeps
  <2>3. CASE \E p \in Port : ProxyReplies(p)
    BY <2>3, ReplyKeeps
  <2>4. QED BY <2>1, <2>2, <2>3, SystemKeeps DEF FlowsNext
<1>3. FlowsInv => FlowsAreSound
  <2> SUFFICES ASSUME FlowsInv, NEW p \in InUse
               PROVE  /\ client[p].lost => p \in upset
                      /\ Cardinality(client[p].ways) = 2 => p \in upset
                      /\ "proxy" \in client[p].ways => client[p].program \in Sim \/ p \in reused
    BY DEF FlowsAreSound
  <2>1. p \in Port /\ client[p].ways \in SUBSET {"proxy", "host"}
    BY DEF FlowsInv, FlowsTypeOK, InUse, Connection
  <2>2. Cardinality(client[p].ways) = 2 => p \in upset
    BY <2>1, TwoWays DEF FlowsInv, WayInv
  <2>3. QED BY <2>1, <2>2 DEF FlowsInv, WayInv, OwnerInv
<1>4. QED BY <1>1, <1>2, <1>3, PTL DEF FlowsSpec

-----------------------------------------------------------------------------
(* The forms of the proxy.                                                 *)

First(pairs, k, i) ==
  /\ i \in DOMAIN pairs /\ pairs[i][1] = k
  /\ \A j \in DOMAIN pairs : pairs[j][1] = k => i <= j

LEMMA FirstExists ==
  ASSUME NEW S, NEW pairs \in Seq(S), NEW k, Has(pairs, k)
  PROVE  \E i : First(pairs, k, i)
<1> DEFINE I == {i \in DOMAIN pairs : pairs[i][1] = k}
<1>1. I \in SUBSET Nat /\ I # {}
  BY DEF Has
<1>2. PICK m \in I : \A j \in I : m <= j
  <2> HIDE DEF I
  <2>1. QED BY <1>1, HasLeast
<1>3. First(pairs, k, m)
  BY <1>2 DEF First
<1>4. QED BY <1>3

\* Of a field that is given, the value at its first place.
LEMMA GivenIs ==
  ASSUME NEW S, NEW pairs \in Seq(S), NEW k, NEW i, First(pairs, k, i)
  PROVE  Given(pairs, k) = pairs[i][2]
<1> DEFINE I == {j \in 1 .. Len(pairs) : pairs[j][1] = k}
<1>1. DOMAIN pairs = 1 .. Len(pairs)
  OBVIOUS
<1>2. I \in SUBSET Nat /\ i \in I /\ \A j \in I : i <= j
  BY <1>1 DEF First
<1>3. Has(pairs, k)
  BY DEF First, Has
<1>4. SelectInSeq(pairs, LAMBDA f : f[1] = k) = Min(I)
  BY <1>2 DEF SelectInSeq
<1> HIDE DEF I
<1>5. Min(I) = i
  <2>1. Min(I) \in I /\ \A j \in I : Min(I) <= j
    BY <1>2 DEF Min
  <2>2. Min(I) \in Nat /\ i \in Nat /\ Min(I) <= i /\ i <= Min(I)
    BY <1>2, <2>1
  <2>3. QED BY <2>2
<1>6. QED BY <1>3, <1>4, <1>5 DEF Given

LEMMA NotGiven ==
  ASSUME NEW pairs, NEW k, ~Has(pairs, k)
  PROVE  Given(pairs, k) = Empty
BY DEF Given

FormSeq == Seq(Field)

LEMMA PatchIs ==
  ASSUME NEW pairs \in FormSeq
  PROVE  /\ Given(PatchFields(pairs), "logon") = Given(pairs, "logon")
         /\ Given(pairs, "from") # Empty
              => Given(PatchFields(pairs), "from") = Given(pairs, "from")
         /\ pairs = <<>> => PatchFields(pairs) = <<>>
         /\ pairs # <<>> /\ FillFrom # Empty
              => Given(PatchFields(pairs), "from") # Empty
<1> DEFINE fill == [i \in DOMAIN pairs |->
                     IF pairs[i] = <<"from", Empty>> THEN <<"from", FillFrom>>
                                                     ELSE pairs[i]]
           S == Field \cup {<<"from", FillFrom>>}
<1>1. fill \in Seq(S) /\ Len(fill) = Len(pairs) /\ DOMAIN pairs = 1 .. Len(pairs)
  BY DEF FormSeq
<1>2. ASSUME NEW i \in DOMAIN pairs
      PROVE  /\ fill[i][1] = pairs[i][1]
             /\ \/ fill[i] = pairs[i]
                \/ pairs[i] = <<"from", Empty>> /\ fill[i] = <<"from", FillFrom>>
             /\ pairs[i] = <<pairs[i][1], pairs[i][2]>>
             /\ pairs[i] = <<"from", Empty>> => fill[i] = <<"from", FillFrom>>
  <2>1. pairs[i] \in Field
    BY <1>1 DEF FormSeq
  <2>2. pairs[i] = <<pairs[i][1], pairs[i][2]>>
    BY <2>1 DEF Field
  <2>3. CASE pairs[i] = <<"from", Empty>>
    BY <2>2, <2>3
  <2>4. CASE pairs[i] # <<"from", Empty>>
    BY <2>2, <2>4
  <2>5. QED BY <2>3, <2>4
<1>3. PatchFields(pairs) = IF pairs = <<>> \/ Has(pairs, "from") THEN fill
                           ELSE Append(fill, <<"from", FillFrom>>)
  BY DEF PatchFields
<1> HIDE DEF fill
<1>4. PICK out : out = PatchFields(pairs)
  OBVIOUS
<1>5. /\ out \in Seq(S)
      /\ Len(out) \in Nat /\ Len(pairs) \in Nat /\ Len(pairs) <= Len(out)
      /\ \A i \in DOMAIN pairs : out[i] = fill[i]
      /\ \A i \in DOMAIN out :
           i \in DOMAIN pairs
           \/ (i = Len(pairs) + 1 /\ out[i] = <<"from", FillFrom>>)
  <2>1. CASE pairs = <<>> \/ Has(pairs, "from")
    <3>1. out = fill
      BY <1>3, <1>4, <2>1
    <3>2. QED BY <1>1, <3>1
  <2>2. CASE ~(pairs = <<>> \/ Has(pairs, "from"))
    <3>1. out = Append(fill, <<"from", FillFrom>>)
      BY <1>3, <1>4, <2>2
    <3>2. <<"from", FillFrom>> \in S
      OBVIOUS
    <3> HIDE DEF S
    <3>3. out \in Seq(S) /\ Len(out) = Len(pairs) + 1 /\ Len(pairs) \in Nat
      BY <1>1, <3>1, <3>2
    <3>4. \A i \in 1 .. Len(fill) : out[i] = fill[i]
      BY <1>1, <3>1, <3>2
    <3>5. out[Len(fill) + 1] = <<"from", FillFrom>>
      BY <1>1, <3>1, <3>2
    <3>6. PICK n \in Nat : n = Len(pairs) /\ Len(fill) = n /\ DOMAIN pairs = 1 .. n
      BY <1>1, <3>3
    <3>7. DOMAIN out = 1 .. n + 1 /\ Len(out) = n + 1
      BY <3>3, <3>6
    <3>8. \A i \in DOMAIN out : i \in DOMAIN pairs \/ i = n + 1
      BY <3>6, <3>7
    <3>9. n <= n + 1 /\ n + 1 \in Nat
      OBVIOUS
    <3>10. \A i \in DOMAIN pairs : out[i] = fill[i]
      BY <3>4, <3>6
    <3>11. \A i \in DOMAIN out :
             i \in DOMAIN pairs
             \/ (i = Len(pairs) + 1 /\ out[i] = <<"from", FillFrom>>)
      BY <3>5, <3>6, <3>8
    <3>12. Len(pairs) <= Len(out) /\ Len(out) \in Nat /\ Len(pairs) \in Nat
      BY <3>6, <3>7, <3>9
    <3>13. QED BY <3>3, <3>10, <3>11, <3>12
  <2>3. QED BY <2>1, <2>2
<1> HIDE DEF S
<1>6. pairs \in Seq(Field)
  BY DEF FormSeq
<1>7. ASSUME NEW k, NEW i, First(pairs, k, i) PROVE First(out, k, i)
  <2>1. i \in DOMAIN out /\ out[i][1] = k
    BY <1>1, <1>2, <1>5, <1>7 DEF First
  <2>2. ASSUME NEW j \in DOMAIN out, out[j][1] = k PROVE i <= j
    <3>1. CASE j \in DOMAIN pairs
      BY <1>2, <1>5, <1>7, <2>2, <3>1 DEF First
    <3>2. CASE j = Len(pairs) + 1
      BY <1>1, <1>5, <1>7, <3>2 DEF First
    <3>3. QED BY <1>5, <3>1, <3>2
  <2>3. QED BY <2>1, <2>2 DEF First
<1>8. Given(out, "logon") = Given(pairs, "logon")
  <2>1. CASE Has(pairs, "logon")
    <3>1. PICK i : First(pairs, "logon", i)
      BY <1>6, <2>1, FirstExists
    <3>2. Given(pairs, "logon") = pairs[i][2]
      BY <1>6, <3>1, GivenIs
    <3>3. First(out, "logon", i)
      BY <1>7, <3>1
    <3>4. Given(out, "logon") = out[i][2]
      BY <1>5, <3>3, GivenIs
    <3>5. i \in DOMAIN pairs /\ pairs[i][1] = "logon"
      BY <3>1 DEF First
    <3>6. pairs[i] # <<"from", Empty>>
      BY <3>5
    <3>7. out[i] = pairs[i]
      BY <1>2, <1>5, <3>5, <3>6
    <3>8. QED BY <3>2, <3>4, <3>7
  <2>2. CASE ~Has(pairs, "logon")
    <3>1. ~Has(out, "logon")
      <4>1. SUFFICES ASSUME NEW i \in DOMAIN out, out[i][1] = "logon" PROVE FALSE
        BY DEF Has
      <4>2. CASE i \in DOMAIN pairs
        BY <1>2, <1>5, <2>2, <4>1, <4>2 DEF Has
      <4>3. CASE out[i] = <<"from", FillFrom>>
        BY <4>1, <4>3
      <4>4. QED BY <1>5, <4>2, <4>3
    <3>2. QED BY <2>2, <3>1, NotGiven
  <2>3. QED BY <2>1, <2>2
<1>9. ASSUME Has(pairs, "from")
      PROVE  /\ Given(pairs, "from") # Empty
                  => Given(out, "from") = Given(pairs, "from")
             /\ Given(pairs, "from") = Empty => Given(out, "from") = FillFrom
  <2>1. PICK i : First(pairs, "from", i)
    BY <1>6, <1>9, FirstExists
  <2>2. Given(pairs, "from") = pairs[i][2]
    BY <1>6, <2>1, GivenIs
  <2>3. First(out, "from", i)
    BY <1>7, <2>1
  <2>4. Given(out, "from") = out[i][2]
    BY <1>5, <2>3, GivenIs
  <2>5. i \in DOMAIN pairs /\ pairs[i][1] = "from" /\ out[i] = fill[i]
    BY <1>5, <2>1 DEF First
  <2>6. pairs[i] = <<"from", pairs[i][2]>>
    BY <1>2, <2>5
  <2>7. CASE pairs[i][2] = Empty
    <3>1. out[i] = <<"from", FillFrom>>
      BY <1>2, <2>5, <2>6, <2>7
    <3>2. QED BY <2>2, <2>4, <2>7, <3>1
  <2>8. CASE pairs[i][2] # Empty
    <3>1. pairs[i] # <<"from", Empty>>
      BY <2>8
    <3>2. out[i] = pairs[i]
      BY <1>2, <2>5, <3>1
    <3>3. QED BY <2>2, <2>4, <2>8, <3>2
  <2>9. QED BY <2>7, <2>8
<1>10. ASSUME ~Has(pairs, "from"), pairs # <<>>
       PROVE  Given(pairs, "from") = Empty /\ Given(out, "from") = FillFrom
  <2>1. out = Append(fill, <<"from", FillFrom>>)
    BY <1>3, <1>4, <1>10
  <2>2. Len(out) = Len(pairs) + 1 /\ out[Len(pairs) + 1] = <<"from", FillFrom>>
    BY <1>1, <2>1
  <2>3. Len(pairs) + 1 \in DOMAIN out
    BY <1>5, <2>2
  <2>4. \A j \in DOMAIN pairs : out[j][1] # "from"
    BY <1>2, <1>5, <1>10 DEF Has
  <2>5. First(out, "from", Len(pairs) + 1)
    <3>1. out[Len(pairs) + 1][1] = "from"
      BY <2>2
    <3>2. ASSUME NEW j \in DOMAIN out, out[j][1] = "from" PROVE Len(pairs) + 1 <= j
      BY <1>5, <2>4, <3>2
    <3>3. QED BY <2>3, <3>1, <3>2 DEF First
  <2>6. Given(out, "from") = out[Len(pairs) + 1][2]
    BY <1>5, <2>5, GivenIs
  <2>7. Given(pairs, "from") = Empty
    BY <1>10, NotGiven
  <2>8. QED BY <2>2, <2>6, <2>7
<1>11. pairs = <<>> => out = <<>>
  <2>1. ASSUME pairs = <<>> PROVE out = <<>>
    <3>1. out = fill /\ Len(fill) = 0 /\ fill \in Seq(S)
      BY <1>1, <1>3, <1>4, <2>1
    <3>2. QED BY <3>1
  <2>2. QED BY <2>1
<1>12. Has(pairs, "from") => pairs # <<>>
  BY DEF Has
<1>13. QED BY <1>4, <1>8, <1>9, <1>10, <1>11, NotGiven

Exchange ==
  [wire : {"hoppie", "gfo"}, path : Path, query : FormSeq, body : FormSeq,
   length : {NoLength} \cup FormSeq]

\* The request stays as it came, with the length of its body or none, and what
\* was sent is made of it.
FormsInv ==
  /\ request \in Exchange
  /\ request.length = NoLength \/ request.length = request.body
  /\ exchange = "received" => sent = request
  /\ exchange # "received" => sent = Forwarded(request)

LEMMA FormsInvHolds == FormsSpec => []FormsInv
<1>1. FormsInit => FormsInv
  <2> SUFFICES ASSUME FormsInit PROVE FormsInv
    OBVIOUS
  <2>1. Fields \subseteq FormSeq
    BY DEF Fields, FormSeq, SeqOf
  <2>2. PICK path \in Path, query \in Fields, body \in Fields,
            wire \in {"hoppie", "gfo"} :
          request = [wire |-> wire, path |-> path, query |-> query, body |-> body,
                     length |-> IF body = <<>> THEN NoLength ELSE body]
    BY DEF FormsInit
  <2>3. PICK length \in {NoLength} \cup FormSeq :
          /\ length = NoLength \/ length = body
          /\ request = [wire |-> wire, path |-> path, query |-> query, body |-> body,
                        length |-> length]
    BY <2>1, <2>2
  <2>4. /\ request \in Exchange
        /\ request.length = NoLength \/ request.length = request.body
    BY <2>1, <2>3 DEF Exchange
  <2>5. QED BY <2>4 DEF FormsInit, FormsInv
<1>2. FormsInv /\ [FormsNext]_formVars => FormsInv'
  <2> SUFFICES ASSUME FormsInv, [FormsNext]_formVars PROVE FormsInv'
    OBVIOUS
  <2>1. CASE Forward
    BY <2>1 DEF Forward, FormsInv
  <2>2. CASE Breaks
    BY <2>2 DEF Breaks, FormsInv
  <2>3. CASE Tell
    BY <2>3 DEF Tell, FormsInv
  <2>4. ASSUME NEW r, Replies(r) PROVE FormsInv'
    BY <2>4 DEF Replies, FormsInv
  <2>5. CASE UNCHANGED formVars
    BY <2>5 DEF formVars, FormsInv
  <2>6. QED BY <2>1, <2>2, <2>3, <2>4, <2>5 DEF FormsNext
<1>3. QED BY <1>1, <1>2, PTL DEF FormsSpec

\* The network reads what the aircraft wrote (proxy.py, the patched form), for
\* any fields, values and callsign to fill in, however often a field is given.
THEOREM FormsAreKept == FormsSpec => []FormIsKept
<1>1. ASSUME FormsInv PROVE FormIsKept
  <2>1. SUFFICES ASSUME exchange # "received"
                 PROVE  LET was == Form(request) now == Form(sent) IN
                        /\ \A k \in Key \ {"from"} : now[k] = was[k]
                        /\ sent.length = NoLength \/ sent.length = sent.body
                        /\ was.from # Empty
                           /\ (request.query = <<>> \/ request.body = <<>>)
                             => now.from = was.from
                        /\ ForNetwork(request) /\ FillFrom # Empty => now.from # Empty
    BY DEF FormIsKept
  <2>2. /\ request.query \in FormSeq /\ request.body \in FormSeq /\ request \in Exchange
        /\ request.length = NoLength \/ request.length = request.body
        /\ sent = Forwarded(request)
    BY <1>1, <2>1 DEF FormsInv, Exchange
  <2>3. /\ \A req : Form(req)["logon"] = FormField(req, "logon")
        /\ \A req : Form(req).from = FormField(req, "from")
    BY DEF Form, Key
  <2>4. \A k \in Key \ {"from"} : k = "logon"
    BY DEF Key
  <2>5. SUFFICES
          /\ FormField(sent, "logon") = FormField(request, "logon")
          /\ sent.length = NoLength \/ sent.length = sent.body
          /\ FormField(request, "from") # Empty
             /\ (request.query = <<>> \/ request.body = <<>>)
               => FormField(sent, "from") = FormField(request, "from")
          /\ ForNetwork(request) /\ FillFrom # Empty => FormField(sent, "from") # Empty
    BY <2>3, <2>4
  <2>6. CASE ~(ForNetwork(request) /\ FillFrom # Empty)
    BY <2>2, <2>6 DEF Forwarded
  <2>7. CASE ForNetwork(request) /\ FillFrom # Empty
    <3>1. PICK q, b : q = PatchFields(request.query) /\ b = PatchFields(request.body)
      OBVIOUS
    <3>2. sent = Patched(request)
      BY <2>2, <2>7 DEF Forwarded
    <3>3. /\ sent.query = q /\ sent.body = b
          /\ sent.length = NoLength \/ sent.length = b
      <4>1. CASE q = request.query /\ b = request.body
        BY <2>2, <3>1, <3>2, <4>1 DEF Patched
      <4>2. CASE ~(q = request.query /\ b = request.body)
        BY <2>2, <3>1, <3>2, <4>2 DEF Patched, Exchange
      <4>3. QED BY <4>1, <4>2
    <3>4. /\ Given(q, "logon") = Given(request.query, "logon")
          /\ Given(request.query, "from") # Empty
               => Given(q, "from") = Given(request.query, "from")
          /\ request.query # <<>> => Given(q, "from") # Empty
      BY <2>2, <2>7, <3>1, PatchIs
    <3>5. /\ Given(b, "logon") = Given(request.body, "logon")
          /\ Given(request.body, "from") # Empty
               => Given(b, "from") = Given(request.body, "from")
          /\ request.body # <<>> => Given(b, "from") # Empty
      BY <2>2, <2>7, <3>1, PatchIs
    <3>6. /\ request.query = <<>> => q = <<>>
          /\ request.body = <<>> => b = <<>>
      BY <2>2, <3>1, PatchIs
    <3>7. \A k : Given(<<>>, k) = Empty
      <4>1. \A k : ~Has(<<>>, k)
        BY DEF Has
      <4>2. QED BY <4>1, NotGiven
    <3>8. FormField(sent, "logon") = FormField(request, "logon")
      BY <3>3, <3>4, <3>5 DEF FormField
    <3>9. ASSUME FormField(request, "from") # Empty,
                 request.query = <<>> \/ request.body = <<>>
          PROVE  FormField(sent, "from") = FormField(request, "from")
      <4>1. CASE request.query = <<>>
        BY <3>3, <3>5, <3>6, <3>7, <3>9, <4>1 DEF FormField
      <4>2. CASE request.body = <<>>
        BY <3>3, <3>4, <3>6, <3>7, <3>9, <4>2 DEF FormField
      <4>3. QED BY <3>9, <4>1, <4>2
    <3>10. FormField(sent, "from") # Empty
      <4>1. request.query # <<>> \/ request.body # <<>>
        BY <2>7, <3>7 DEF ForNetwork, FormField
      <4>2. QED BY <3>3, <3>4, <3>5, <4>1 DEF FormField
    <3>11. QED BY <3>3, <3>8, <3>9, <3>10
  <2>8. QED BY <2>6, <2>7
<1>2. QED BY <1>1, FormsInvHolds, PTL
=============================================================================
