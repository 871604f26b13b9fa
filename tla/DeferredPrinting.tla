-------------------------- MODULE DeferredPrinting --------------------------
(***************************************************************************)
(* What the print gate promises the code that brings it strips: a gate     *)
(* that is open or shut, and jobs that pass it or wait at it in one        *)
(* bounded line per channel.  How the gate decides, and which thread       *)
(* carries a released job to the printer, is left open.                    *)
(***************************************************************************)
EXTENDS Naturals, Sequences, Functions

CONSTANTS Job, Channel, ChannelOf, MaxQueue

VARIABLES
  open,
  pending,    \* jobs not yet brought
  held,       \* per channel, the jobs that wait, oldest first
  released,   \* jobs on their way to the printer
  printed, dropped

vars == <<open, pending, held, released, printed, dropped>>

Init ==
  /\ open \in BOOLEAN
  /\ pending = Job
  /\ held = [c \in Channel |-> <<>>]
  /\ released = {} /\ printed = {} /\ dropped = {}

\* An open gate lets the job pass.
Pass(j) ==
  /\ open
  /\ j \in pending
  /\ pending' = pending \ {j}
  /\ released' = released \cup {j}
  /\ UNCHANGED <<open, held, printed, dropped>>

\* A shut gate holds it, at the price of the oldest one in a full line.
Hold(j) ==
  /\ ~open
  /\ j \in pending
  /\ pending' = pending \ {j}
  /\ LET c == ChannelOf[j] IN
       IF Len(held[c]) < MaxQueue
       THEN /\ held' = [held EXCEPT ![c] = Append(@, j)]
            /\ UNCHANGED dropped
       ELSE /\ held' = [held EXCEPT ![c] = Append(Tail(@), j)]
            /\ dropped' = dropped \cup {Head(held[c])}
  /\ UNCHANGED <<open, released, printed>>

\* Opening releases everything that waits, in every channel.
Open ==
  /\ ~open
  /\ open' = TRUE
  /\ released' = released \cup UNION {Range(held[c]) : c \in Channel}
  /\ held' = [c \in Channel |-> <<>>]
  /\ UNCHANGED <<pending, printed, dropped>>

Shut ==
  /\ open
  /\ open' = FALSE
  /\ UNCHANGED <<pending, held, released, printed, dropped>>

Emerge(j) ==
  /\ j \in released
  /\ released' = released \ {j}
  /\ printed' = printed \cup {j}
  /\ UNCHANGED <<open, pending, held, dropped>>

Next ==
  \/ \E j \in Job : Pass(j) \/ Hold(j) \/ Emerge(j)
  \/ Open \/ Shut

Spec == Init /\ [][Next]_vars

=============================================================================
