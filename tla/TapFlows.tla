------------------------------ MODULE TapFlows ------------------------------
(***************************************************************************)
(* Which TCP packets the redirect reflects into the proxy (tap/divert.py): *)
(* those of the simulator, and not those of other programs that use the    *)
(* same network.  The owner of a port is looked up in a snapshot of the    *)
(* system's table (tap/tcp_owner.py), the verdict is kept per connection   *)
(* until so many have been kept that all are forgotten.                    *)
(***************************************************************************)
EXTENDS Naturals, FiniteSets

CONSTANTS
  Port,     \* ports that client connections come from
  Sim,      \* programs on the allow-list
  Other,    \* programs on no list, on the deny-list, and the bridge itself
  MaxFlows, \* how many verdicts are kept (4000)
  MaxOpens  \* bound on the connections that are opened

Program == Sim \cup Other
Nobody == "nobody"
Server == {80, 443}

VARIABLES
  client,   \* per port, the connection: its program, its server port, the ways
            \* its packets went, and whether a reply to it was let through
  rows,     \* the system's table of owners; a new connection enters it late
  snapshot, \* TcpOwnerIndex._map
  fresh,    \* the snapshot is less than 0.25 s old
  policy,   \* _flow_policy: a verdict per connection it knows
  marked,   \* _diverted_client_ports
  https,    \* _redirect_https
  opens,    \* connections opened so far
  reused, upset \* history: ports that changed programs, and those open when
                \* verdicts were forgotten or HTTPS was switched

flowVars == <<client, rows, snapshot, fresh, policy, marked, https, opens, reused, upset>>

Closed == [program |-> Nobody, dport |-> 80, ways |-> {}, lost |-> FALSE]
InUse == {p \in Port : client[p].program # Nobody}
Flow == Port \X Server

FlowsInit ==
  /\ client = [p \in Port |-> Closed]
  /\ rows = [p \in Port |-> Nobody] /\ snapshot = rows /\ fresh = FALSE
  /\ policy = [f \in {} |-> FALSE] /\ marked = {} /\ https \in BOOLEAN
  /\ opens = 0 /\ reused = {} /\ upset = {}

-----------------------------------------------------------------------------
(* Programs and the system.                                                *)

Open(p, program, dport) ==
  /\ p \notin InUse /\ opens < MaxOpens /\ opens' = opens + 1
  /\ client' = [client EXCEPT ![p] = [Closed EXCEPT !.program = program,
                                                    !.dport = dport]]
  /\ UNCHANGED <<rows, snapshot, fresh, policy, marked, https, reused, upset>>

RowAppears(p) ==
  /\ rows[p] # client[p].program
  /\ rows' = [rows EXCEPT ![p] = client[p].program]
  /\ UNCHANGED <<client, snapshot, fresh, policy, marked, https, opens, reused, upset>>

\* The port may go to another program next, while its row and its verdict are
\* still there.
Close(p) ==
  /\ p \in InUse
  /\ client' = [client EXCEPT ![p] = Closed]
  /\ reused' = reused \cup {p} /\ upset' = upset \ {p}
  /\ UNCHANGED <<rows, snapshot, fresh, policy, marked, https, opens>>

Age ==
  /\ fresh /\ fresh' = FALSE
  /\ UNCHANGED <<client, rows, snapshot, policy, marked, https, opens, reused, upset>>

-----------------------------------------------------------------------------
(* The redirect.                                                           *)

Reflects(dport) == dport = 80 \/ https

\* Bug: a program nobody knows is taken for the simulator.
MayDivertUnknown(program) == program \notin Other

\* With an allow-list, a program nobody knows is left alone.
MayDivert(program) == program \in Sim

\* owner_for, then a forced refresh when the port has no row yet.
LooksUp(p) ==
  LET first == IF fresh THEN snapshot ELSE rows
      retry == first[p] = Nobody
  IN  /\ snapshot' = IF retry THEN rows ELSE first
      /\ fresh' = TRUE

\* Entering a verdict may first throw away all the others.
Decide(p, f) ==
  LET full == Cardinality(DOMAIN policy) > MaxFlows
      kept == IF full THEN [g \in {} |-> FALSE] ELSE policy
  IN  /\ LooksUp(p)
      /\ policy' = [g \in DOMAIN kept \cup {f} |->
                      IF g = f THEN MayDivert(snapshot'[p]) ELSE kept[g]]
      /\ marked' = (IF full THEN {} ELSE marked)
                   \cup (IF policy'[f] THEN {p} ELSE {})
      /\ upset' = IF full THEN upset \cup (InUse \ {p}) ELSE upset

Recall(p, f) ==
  /\ marked' = IF policy[f] THEN marked \cup {p} ELSE marked
  /\ UNCHANGED <<snapshot, fresh, policy, upset>>

\* A packet of a client to the network.
ClientPacket(p) ==
  LET f == <<p, client[p].dport>>
      goes(way) == client' = [client EXCEPT ![p].ways = @ \cup {way}]
  IN
  /\ p \in InUse
  /\ \/ /\ ~Reflects(client[p].dport)
        /\ goes("host") /\ UNCHANGED <<snapshot, fresh, policy, marked, upset>>
     \/ /\ Reflects(client[p].dport)
        /\ IF f \in DOMAIN policy THEN Recall(p, f) ELSE Decide(p, f)
        /\ goes(IF policy'[f] THEN "proxy" ELSE "host")
  /\ UNCHANGED <<rows, https, opens, reused>>

\* A packet of the proxy to a client it serves: unless it is reflected, it
\* leaves for the real host and the client never sees it.
ProxyReplies(p) ==
  /\ "proxy" \in client[p].ways
  /\ client' = [client EXCEPT ![p].lost = @ \/ ~Reflects(client[p].dport)
                                            \/ p \notin marked]
  /\ UNCHANGED <<rows, snapshot, fresh, policy, marked, https, opens, reused, upset>>

\* The TLS fallback of the service leaves HTTPS alone from now on.
SetHttpsRedirect ==
  /\ https /\ https' = FALSE
  /\ upset' = upset \cup InUse
  /\ UNCHANGED <<client, rows, snapshot, fresh, policy, marked, opens, reused>>

FlowsNext ==
  \/ \E p \in Port, program \in Program, dport \in Server : Open(p, program, dport)
  \/ \E p \in Port : \/ RowAppears(p) \/ Close(p) \/ ClientPacket(p)
                     \/ ProxyReplies(p)
  \/ Age \/ SetHttpsRedirect

FlowsSpec == FlowsInit /\ [][FlowsNext]_flowVars

-----------------------------------------------------------------------------
\* The verdict of a connection holds for all of it.  Its packets go to the
\* proxy and to the host, or a reply of the proxy is lost, only if verdicts
\* were forgotten or HTTPS was switched under it; and another program than the
\* simulator is diverted only on a port that changed hands.
FlowsAreSound ==
  \A p \in InUse :
    /\ client[p].lost => p \in upset
    /\ Cardinality(client[p].ways) = 2 => p \in upset
    /\ "proxy" \in client[p].ways => client[p].program \in Sim \/ p \in reused
=============================================================================
