--------------------------- MODULE SingleInstance ---------------------------
(***************************************************************************)
(* The lock file of a bridge that runs without the desktop shell           *)
(* (single_instance.py, bridge/__main__.py): look for a live owner, remove *)
(* the file, write one's own pid, and remove it again at the end.  Looking *)
(* and writing are two steps.                                              *)
(***************************************************************************)
EXTENDS Naturals, FiniteSets

CONSTANTS
  Process,  \* processes of the program
  MaxStarts \* bound on the starts

VARIABLES
  at,     \* per process: off, starting, running
  owner,  \* the pid in app.lock, NoOwner for no file
  raced,  \* history: a start has overlapped another
  starts  \* starts so far

lockVars == <<at, owner, raced, starts>>
NoOwner == "none"
Alive == {p \in Process : at[p] # "off"}
Starting == {p \in Process : at[p] = "starting"}

LockInit ==
  /\ at = [p \in Process |-> "off"] /\ owner = NoOwner /\ raced = FALSE /\ starts = 0

Refused == owner \in Alive

LookCareless(p) ==
  /\ at[p] = "off" /\ starts < MaxStarts /\ starts' = starts + 1
  /\ at' = [at EXCEPT ![p] = "starting"]
  /\ raced' = (raced \/ Starting # {})
  /\ UNCHANGED owner

\* acquire_lock up to its check; a refused process ends at once.
Look(p) ==
  /\ at[p] = "off" /\ ~Refused /\ starts < MaxStarts /\ starts' = starts + 1
  /\ at' = [at EXCEPT ![p] = "starting"]
  /\ raced' = (raced \/ Starting # {})
  /\ UNCHANGED owner

\* Unlink, then write.
Take(p) ==
  /\ at[p] = "starting"
  /\ at' = [at EXCEPT ![p] = "running"] /\ owner' = p
  /\ UNCHANGED <<raced, starts>>

\* release unlinks the file whoever's pid it holds.
ReleaseLock(p) ==
  /\ at[p] = "running"
  /\ at' = [at EXCEPT ![p] = "off"] /\ owner' = NoOwner
  /\ UNCHANGED <<raced, starts>>

\* A crash leaves the file; the next start finds its owner dead.
Crash(p) ==
  /\ at[p] # "off"
  /\ at' = [at EXCEPT ![p] = "off"]
  /\ UNCHANGED <<owner, raced, starts>>

LockNext == \E p \in Process : Look(p) \/ Take(p) \/ ReleaseLock(p) \/ Crash(p)
LockSpec == LockInit /\ [][LockNext]_lockVars

(* However processes start, end and crash: two of them run at the same     *)
(* time only if some start overlapped another.  One such race is enough    *)
(* to lose the lock for good: an instance that ends takes away the file    *)
(* of the one that still runs.                                             *)
SecondOnlyByRace ==
  raced \/ Cardinality({p \in Process : at[p] = "running"}) <= 1
=============================================================================
