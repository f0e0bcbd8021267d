----------------------------- MODULE Dispatcher -----------------------------
(***************************************************************************)
(* NotificationDispatcher of notify/dispatcher.py and the notifiers behind *)
(* it: a pump per rule takes a message and hands it to the channels of the *)
(* rule side by side; a lock per channel lets one delivery send at a time. *)
(* A webhook is tried again after an error, the other kinds are not.       *)
(***************************************************************************)
EXTENDS EventBus

CONSTANTS
  Rule, Channel,
  ChannelsOf(_),   \* of a rule
  Attempts(_),     \* of a channel: 3 for a webhook, 1 for Apprise and web push
  WebPush          \* the channels of that kind

RuleSub(r) == <<"rule", r>>

ASSUME DispatcherAssumption ==
  /\ \A r \in Rule : ChannelsOf(r) \subseteq Channel /\ RuleSub(r) \in Subscription
  /\ \A ch \in Channel : Attempts(ch) \in Nat \ {0}
  /\ WebPush \subseteq Channel

VARIABLES
  pump,       \* per rule: the message it delivers, and how far each channel is
  tries,      \* per channel: failed attempts of the delivery that sends
  heard,      \* history: per channel, what its receiver got, as <<rule, message>>
  latest,     \* history: per rule and channel, what the receiver got last
  givenUp,    \* history: per channel, the deliveries that failed
  unreached,  \* history: per channel, deliveries that counted and reached nobody
  notifying   \* whether the dispatcher is started

dispatcherVars == <<pump, tries, heard, latest, givenUp, unreached, notifying>>

Progress == {"waiting", "sending", "settled"}

DispatcherTypeOK ==
  /\ DOMAIN pump = Rule
  /\ \A r \in Rule : pump[r] \in [on : 0 .. MaxEmits, at : [ChannelsOf(r) -> Progress]]
  /\ tries \in [Channel -> Nat] /\ \A ch \in Channel : tries[ch] < Attempts(ch)
  /\ heard \in [Channel -> SUBSET (Rule \X Message)]
  /\ givenUp \in [Channel -> SUBSET (Rule \X Message)]
  /\ unreached \in [Channel -> SUBSET (Rule \X Message)]
  /\ latest \in [Rule -> [Channel -> 0 .. MaxEmits]] /\ notifying \in BOOLEAN

Settled(r) == [ch \in ChannelsOf(r) |-> "settled"]

DispatcherInit(started) ==
  /\ pump = [r \in Rule |-> [on |-> 0, at |-> Settled(r)]]
  /\ tries = [ch \in Channel |-> 0]
  /\ heard = [ch \in Channel |-> {}] /\ givenUp = [ch \in Channel |-> {}]
  /\ unreached = [ch \in Channel |-> {}]
  /\ latest = [r \in Rule |-> [ch \in Channel |-> 0]] /\ notifying = started

\* Mutant: a delivery waits until no other rule wants the channel.
FreeIfAlone(ch) ==
  Cardinality({r \in Rule : ch \in ChannelsOf(r) /\ pump[r].at[ch] # "settled"}) <= 1

Free(ch) == \A r \in Rule : ch \in ChannelsOf(r) => pump[r].at[ch] # "sending"

\* The pump awaits all the channels of a message before it takes the next.
PumpTakes(r) ==
  /\ notifying /\ pump[r].at = Settled(r) /\ Take(RuleSub(r))
  /\ pump' = [pump EXCEPT ![r] = [on |-> Head(queue[RuleSub(r)]),
                                  at |-> [ch \in ChannelsOf(r) |-> "waiting"]]]
  /\ UNCHANGED <<tries, heard, latest, givenUp, unreached, notifying, emitted, open, dropped>>

ChannelLocked(r, ch) ==
  /\ pump[r].at[ch] = "waiting" /\ Free(ch)
  /\ pump' = [pump EXCEPT ![r].at[ch] = "sending"]
  /\ tries' = [tries EXCEPT ![ch] = 0]
  /\ UNCHANGED <<heard, latest, givenUp, unreached, notifying, busVars>>

\* One request: the receiver may have got what counts as an error here; a web
\* push counts as delivered when nobody subscribed or every subscription was gone.
Outcomes(ch) ==
  {o \in [got : BOOLEAN, ok : BOOLEAN] : o.ok => o.got \/ ch \in WebPush}

With(history, r, ch, holds) ==
  [history EXCEPT ![ch] = @ \union (IF holds THEN {<<r, pump[r].on>>} ELSE {})]

Attempt(r, ch) ==
  \E o \in Outcomes(ch) :
    LET over == o.ok \/ tries[ch] + 1 = Attempts(ch) IN
    /\ pump[r].at[ch] = "sending"
    /\ heard' = With(heard, r, ch, o.got)
    /\ latest' = IF o.got THEN [latest EXCEPT ![r][ch] = pump[r].on] ELSE latest
    /\ tries' = [tries EXCEPT ![ch] = IF over THEN 0 ELSE @ + 1]
    /\ pump' = IF over THEN [pump EXCEPT ![r].at[ch] = "settled"] ELSE pump
    /\ givenUp' = With(givenUp, r, ch, over /\ ~o.ok)
    /\ unreached' = With(unreached, r, ch, o.ok /\ ~o.got)
    /\ UNCHANGED <<notifying, busVars>>

\* stop(): the subscriptions are closed and the pumps cancelled where they are.
DispatcherStops ==
  /\ notifying /\ notifying' = FALSE
  /\ Detach({RuleSub(r) : r \in Rule})
  /\ pump' = [r \in Rule |-> [on |-> 0, at |-> Settled(r)]]
  /\ tries' = [ch \in Channel |-> 0]
  /\ UNCHANGED <<heard, latest, givenUp, unreached, emitted, queue, dropped>>

Deliveries(r, channels) ==
  PumpTakes(r) \/ \E ch \in channels : ChannelLocked(r, ch) \/ Attempt(r, ch)
DispatcherNext == DispatcherStops \/ \E r \in Rule : Deliveries(r, ChannelsOf(r))

-----------------------------------------------------------------------------
\* A channel hears the messages of one rule in the order they were published;
\* retries and double publication may repeat one, none is overtaken.  (Nothing
\* orders the messages of two rules: dispatcher.py 8-9, 109-113 have one lock per
\* channel and one message per pump.)
HeardInOrder ==
  [][\A r \in Rule, ch \in Channel : latest'[r][ch] >= latest[r][ch]]_latest

\* Until the dispatcher stops, a message a rule asks for is heard, given up (and
\* counted), in a queue, on its way, was dropped (and counted), or is a web push
\* that reached nobody: for every channel of the rule (dispatcher.py 115-157,
\* events.py 144-157).
NothingVanishes ==
  notifying => \A r \in Rule : \A ch \in ChannelsOf(r) : \A m \in Wanted(RuleSub(r)) :
    \/ <<r, m>> \in givenUp[ch] \union heard[ch] \union unreached[ch]
    \/ m \in Waiting(RuleSub(r)) \union dropped[RuleSub(r)]
    \/ pump[r].on = m /\ pump[r].at[ch] # "settled"

\* However receivers fail, a rule without web push gets through its queue again:
\* one receiver's retries and locks hold up another rule for a while, never for
\* good.  (A push service that never answers holds its channel and the rules
\* that use it for ever: webpush.py 128-136 sets no timeout.)
RulesCatchUp ==
  \A r \in Rule : ChannelsOf(r) \cap WebPush = {} =>
    []<>(pump[r].at = Settled(r) /\ (queue[RuleSub(r)] = <<>> \/ ~notifying))
=============================================================================
