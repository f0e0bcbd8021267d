------------------------------ MODULE EventLife ------------------------------
(***************************************************************************)
(* What the event engine promises of an event's life.  A camera has one    *)
(* open event at a time; an event opens once and never again; the verdict  *)
(* rises from dismissed to confirmed while it is open, never falls; only   *)
(* confirmed events are announced, each end and each confirmation at most  *)
(* once, the end only of an event that was closed.  Open events may be     *)
(* lost with the process.  Neither the order of the two announcements nor  *)
(* that they are made is promised.                                         *)
(***************************************************************************)
EXTENDS Integers

CONSTANTS Camera, EventId, None

VARIABLES
  open,      \* the camera's open event, or None
  state,     \* of each event: "unborn", "dismissed" or "confirmed"
  closed,    \* events that were closed
  said       \* how often each event was announced on each topic

vars == <<open, state, closed, said>>

Topic == {"confirmed", "ended"}

Init ==
  /\ open = [c \in Camera |-> None]
  /\ state = [e \in EventId |-> "unborn"]
  /\ closed = {}
  /\ said = [e \in EventId |-> [t \in Topic |-> 0]]

Open(c, e) ==
  /\ open[c] = None /\ state[e] = "unborn"
  /\ open' = [open EXCEPT ![c] = e]
  /\ \E s \in {"dismissed", "confirmed"} : state' = [state EXCEPT ![e] = s]
  /\ UNCHANGED <<closed, said>>

Confirm(c) ==
  /\ open[c] # None /\ state[open[c]] = "dismissed"
  /\ state' = [state EXCEPT ![open[c]] = "confirmed"]
  /\ UNCHANGED <<open, closed, said>>

Close(c) ==
  /\ open[c] # None
  /\ closed' = closed \union {open[c]}
  /\ open' = [open EXCEPT ![c] = None]
  /\ UNCHANGED <<state, said>>

Say(e, topic) ==
  /\ state[e] = "confirmed" /\ said[e][topic] = 0
  /\ topic = "ended" => e \in closed
  /\ said' = [said EXCEPT ![e][topic] = 1]
  /\ UNCHANGED <<open, state, closed>>

Lose ==
  /\ open' = [c \in Camera |-> None]
  /\ UNCHANGED <<state, closed, said>>

Next ==
  \/ \E c \in Camera : (\E e \in EventId : Open(c, e)) \/ Confirm(c) \/ Close(c)
  \/ \E e \in EventId, topic \in Topic : Say(e, topic)
  \/ Lose

Spec == Init /\ [][Next]_vars
==============================================================================
