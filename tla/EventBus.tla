------------------------------ MODULE EventBus ------------------------------
(***************************************************************************)
(* The in-process bus of core/events.py and what publishes on it: the      *)
(* engine publishes an event once; a system event is mirrored by the hook  *)
(* of Database.add_system_event and, when it comes from AppRuntime.emit,   *)
(* published a second time (runtime.py).  A subscription has a bounded     *)
(* queue that drops its oldest message.                                    *)
(***************************************************************************)
EXTENDS Naturals, Sequences, FiniteSets

CONSTANTS
  Subscription,
  Wants(_),      \* topic_matches: the topics a subscription asks for
  MaxQueue,
  MaxEmits       \* bound: emissions

Topic == {"confirmed", "ended", "system"}

ASSUME BusAssumption ==
  /\ \A s \in Subscription : Wants(s) \subseteq Topic
  /\ MaxQueue \in Nat \ {0} /\ MaxEmits \in Nat

VARIABLES
  emitted,   \* the topics emitted so far; a message is its place in this sequence
  queue,     \* per subscription: messages
  open,      \* subscriptions that are attached
  dropped    \* history: per subscription, messages its queue dropped

busVars == <<emitted, queue, open, dropped>>

Message == 1 .. MaxEmits

BusTypeOK ==
  /\ emitted \in Seq(Topic) /\ Len(emitted) <= MaxEmits
  /\ open \subseteq Subscription
  /\ queue \in [Subscription -> Seq(1 .. Len(emitted))]
  /\ \A s \in Subscription : Len(queue[s]) <= MaxQueue
  /\ dropped \in [Subscription -> SUBSET (1 .. Len(emitted))]

BusInit(attached) ==
  /\ emitted = <<>> /\ open = attached
  /\ queue = [s \in Subscription |-> <<>>]
  /\ dropped = [s \in Subscription |-> {}]

\* Mutant: the queue is a stack.
PutAsStack(q, m) == <<m>> \o (IF Len(q) = MaxQueue THEN Tail(q) ELSE q)

\* Mutant: the queue has no bound.
PutUnbounded(q, m) == Append(q, m)

\* What a queue holds, and what it drops, once m is put into it.
Put(q, m) == Append(IF Len(q) = MaxQueue THEN Tail(q) ELSE q, m)
\* Mutant: what is dropped is not counted.
DroppedUncounted(q) == {}

Dropped(q) == IF Len(q) = MaxQueue THEN {Head(q)} ELSE {}

\* publish, once or twice in a row.
Publish(topic, twice) ==
  LET m == Len(emitted) + 1
      matching == {s \in open : topic \in Wants(s)}
      once(s) == Put(queue[s], m) IN
  /\ Len(emitted) < MaxEmits /\ emitted' = Append(emitted, topic)
  /\ queue' = [s \in Subscription |->
       IF s \notin matching THEN queue[s] ELSE IF twice THEN Put(once(s), m) ELSE once(s)]
  /\ dropped' = [s \in Subscription |->
       IF s \notin matching THEN dropped[s]
       ELSE dropped[s] \union Dropped(queue[s]) \union (IF twice THEN Dropped(once(s)) ELSE {})]
  /\ UNCHANGED open

\* The event of the one camera modelled here that is open, by what was said of it.
PersonThere ==
  \E m \in 1 .. Len(emitted) :
    emitted[m] = "confirmed" /\ \A n \in m + 1 .. Len(emitted) : emitted[n] = "system"

EngineSays == Publish(IF PersonThere THEN "ended" ELSE "confirmed", FALSE)

\* AppRuntime.emit, or add_system_event alone or with a failing database.
SystemEvent == \E twice \in BOOLEAN : Publish("system", twice)

Emission == EngineSays \/ SystemEvent

Take(s) == queue[s] # <<>> /\ queue' = [queue EXCEPT ![s] = Tail(@)]
Detach(S) == open' = open \ S

\* Where a message for s may be besides the consumer's hands.
Waiting(s) == {queue[s][i] : i \in 1 .. Len(queue[s])}
Wanted(s) == {m \in 1 .. Len(emitted) : emitted[m] \in Wants(s)}
=============================================================================
