----------------------------- MODULE MqttBridge -----------------------------
(***************************************************************************)
(* MqttPublisher of notify/mqtt.py: one task that connects, announces and  *)
(* then drains two subscriptions with a consumer each, until a publish     *)
(* fails.  stop() runs beside that task until it cancels it.  The broker   *)
(* (with aiomqtt in front of it) is external: it keeps the retained        *)
(* status, publishes the will of a session that breaks, and a broken       *)
(* session shows when something is published on it.                        *)
(***************************************************************************)
EXTENDS Dispatcher

CONSTANT MaxBreaks   \* bound: sessions that break

VARIABLES
  bridge,     \* place of the supervisor's task
  ending,     \* how far stop() is: it says offline, missed its session, or cancels
  consumer,   \* per subscription: the message in its hands (0: none), and whether
              \* the first of its two topics is published
  broker,     \* whether it answers, whether our session stands, what it shows
  breaks,
  lost,       \* history: messages that were in hand when a session failed
  refused,    \* history: a publish on an event failed by itself
  mute,       \* history: the last announcement of "online" failed by itself
  unsaid      \* history: stop() could not say "offline" on the session that stood

mqttVars == <<bridge, ending, consumer, broker, breaks, lost, refused, mute, unsaid>>

MqttSub == {<<"mqtt", "event">>, <<"mqtt", "system">>}

ASSUME MqttAssumption ==
  /\ MqttSub \subseteq Subscription
  /\ Wants(<<"mqtt", "event">>) = {"confirmed", "ended"}
  /\ Wants(<<"mqtt", "system">>) = {"system"} /\ MaxBreaks \in Nat

BridgePlace == {"connecting", "announcing", "pumping", "backoff", "stopped"}
MqttTypeOK ==
  /\ bridge \in BridgePlace
  /\ ending \in {"no", "saying", "missed", "cancelling"}
  /\ consumer \in [MqttSub -> [on : 0 .. MaxEmits, half : BOOLEAN]]
  /\ broker \in [up : BOOLEAN, session : BOOLEAN, status : {"none", "online", "offline"},
                 person : {"none", "ON", "OFF"}]
  /\ breaks \in 0 .. MaxBreaks /\ lost \subseteq MqttSub \X Message
  /\ refused \in BOOLEAN /\ mute \in BOOLEAN /\ unsaid \in BOOLEAN

EmptyHands == [s \in MqttSub |-> [on |-> 0, half |-> FALSE]]

MqttInit ==
  /\ bridge = "connecting" /\ ending = "no" /\ consumer = EmptyHands
  /\ broker = [up |-> TRUE, session |-> FALSE, status |-> "none", person |-> "none"]
  /\ breaks = 0 /\ lost = {} /\ refused = FALSE /\ mute = FALSE /\ unsaid = FALSE

InHand == {<<s, consumer[s].on>> : s \in {t \in MqttSub : consumer[t].on # 0}}

\* A cancelled task goes no further.
Runs == ending # "cancelling"

\* An error on the connection: the other consumer is cancelled, then the wait.
\* What stop() had given to that session is not heard.
ConnectionFails ==
  /\ bridge' = "backoff" /\ consumer' = EmptyHands /\ lost' = lost \union InHand
  /\ ending' = IF ending = "saying" THEN "missed" ELSE ending

BridgeConnects ==
  /\ bridge = "connecting" /\ Runs
  /\ IF broker.up THEN bridge' = "announcing" /\ broker' = [broker EXCEPT !.session = TRUE]
     ELSE bridge' = "backoff" /\ UNCHANGED broker
  /\ UNCHANGED <<ending, consumer, breaks, lost, refused, mute, unsaid, busVars>>

\* The retained "online", then the discovery topics; a publish that fails by
\* itself is counted, and the pump starts all the same.
Announce ==
  /\ bridge = "announcing" /\ Runs
  /\ \/ /\ broker.session /\ bridge' = "pumping"
        /\ \E ok \in BOOLEAN :
             /\ broker' = [broker EXCEPT !.status = IF ok THEN "online" ELSE @]
             /\ mute' = ~ok
        /\ UNCHANGED <<ending, consumer, lost>>
     \/ ~broker.session /\ ConnectionFails /\ UNCHANGED <<broker, mute>>
  /\ UNCHANGED <<breaks, refused, unsaid, busVars>>

ConsumerTakes(s) ==
  /\ bridge = "pumping" /\ Runs /\ consumer[s].on = 0 /\ Take(s)
  /\ consumer' = [consumer EXCEPT ![s] = [on |-> Head(queue[s]), half |-> FALSE]]
  /\ UNCHANGED <<bridge, ending, broker, breaks, lost, refused, mute, unsaid,
                 emitted, open, dropped>>

\* Mutant: the end of an event leaves the sensor as it is.
ShowsPresence(topic) == IF topic = "confirmed" THEN "ON" ELSE broker.person

\* What the sensor shows once the last topic of a message is published.
Shows(topic) ==
  IF topic = "confirmed" THEN "ON" ELSE IF topic = "ended" THEN "OFF" ELSE broker.person

\* Mutant: a message that cannot be published counts as a broken session.
SessionBrokenOrRefused == TRUE

SessionBroken == ~broker.session

\* A confirmed person is two publishes, anything else is one; a message that
\* cannot be published is counted and passed over, a broken session raises.
ConsumerPublishes(s) ==
  LET topic == emitted[consumer[s].on]
      more == topic = "confirmed" /\ ~consumer[s].half IN
  /\ bridge = "pumping" /\ Runs /\ consumer[s].on # 0
  /\ \/ /\ broker.session /\ \E ok \in BOOLEAN :
          /\ broker' = [broker EXCEPT !.person =
               IF ok /\ ~more THEN Shows(topic) ELSE @]
          /\ refused' = (refused \/ (~ok /\ s = <<"mqtt", "event">>))
       /\ consumer' = [consumer EXCEPT ![s] = IF more THEN [@ EXCEPT !.half = TRUE]
                                              ELSE [on |-> 0, half |-> FALSE]]
       /\ UNCHANGED <<bridge, ending, lost>>
     \/ SessionBroken /\ ConnectionFails /\ UNCHANGED <<broker, refused>>
  /\ UNCHANGED <<breaks, mute, unsaid, busVars>>

\* Mutant: an error with a message in hand ends the task.
BridgeRetriesUnhurt ==
  /\ bridge = "backoff" /\ Runs /\ lost = {} /\ bridge' = "connecting"
  /\ UNCHANGED <<ending, consumer, broker, breaks, lost, refused, mute, unsaid, busVars>>

BridgeRetries ==
  /\ bridge = "backoff" /\ Runs /\ bridge' = "connecting"
  /\ UNCHANGED <<ending, consumer, broker, breaks, lost, refused, mute, unsaid, busVars>>

\* stop(): while connected it first awaits the publish of "offline"; without a
\* connection, or on one that is gone, it closes the subscriptions at once.
BridgeStops ==
  /\ ending = "no"
  /\ IF bridge \in {"announcing", "pumping"}
     THEN ending' = "saying" /\ UNCHANGED open
     ELSE ending' = "cancelling" /\ Detach(MqttSub)
  /\ UNCHANGED <<bridge, consumer, broker, breaks, lost, refused, mute, unsaid,
                 emitted, queue, dropped>>

\* The publish is through or failed, which is suppressed: the subscriptions are
\* closed and the task is cancelled.
StopSays ==
  /\ ending \in {"saying", "missed"} /\ ending' = "cancelling"
  /\ \/ /\ ending = "saying" /\ broker.session
        /\ broker' = [broker EXCEPT !.status = "offline"] /\ UNCHANGED unsaid
     \/ UNCHANGED broker /\ unsaid' = broker.session
  /\ Detach(MqttSub)
  /\ UNCHANGED <<bridge, consumer, breaks, lost, refused, mute, emitted, queue, dropped>>

\* The cancelled task closes its session, which publishes no will.
BridgeCancelled ==
  /\ ending = "cancelling" /\ bridge # "stopped" /\ bridge' = "stopped"
  /\ consumer' = EmptyHands /\ broker' = [broker EXCEPT !.session = FALSE]
  /\ UNCHANGED <<ending, breaks, lost, refused, mute, unsaid, busVars>>

\* The broker: a session breaks and its will is published, with the broker up
\* or gone for a while.
SessionBreaks ==
  /\ broker.up /\ breaks < MaxBreaks /\ breaks' = breaks + 1
  /\ \E up \in BOOLEAN :
       broker' = [broker EXCEPT !.up = up, !.session = FALSE,
                                !.status = IF broker.session THEN "offline" ELSE @]
  /\ UNCHANGED <<bridge, ending, consumer, lost, refused, mute, unsaid, busVars>>

BrokerReturns ==
  /\ ~broker.up /\ broker' = [broker EXCEPT !.up = TRUE]
  /\ UNCHANGED <<bridge, ending, consumer, breaks, lost, refused, mute, unsaid, busVars>>

BridgeSteps ==
  \/ BridgeConnects \/ Announce \/ BridgeRetries \/ StopSays \/ BridgeCancelled
  \/ \E s \in MqttSub : ConsumerTakes(s) \/ ConsumerPublishes(s)
MqttNext == BridgeSteps \/ BridgeStops \/ SessionBreaks \/ BrokerReturns

-----------------------------------------------------------------------------
\* What the broker retains is true, whichever way sessions broke before: a
\* stopped bridge does not show as online, unless stop() could not say so on
\* the session that stood; one that pumps on a session that stands shows as
\* online until stop() has spoken, unless its announcement failed by itself.
\* And when no event was dropped, lost or refused and none is on its way, the
\* person sensor shows what the engine said last (mqtt.py 4-5, 117-133, 192-194,
\* 242-275).
BrokerInStep ==
  /\ bridge = "stopped" /\ ~unsaid => broker.status # "online"
  /\ bridge = "pumping" /\ broker.session /\ Runs /\ ~mute => broker.status = "online"
  /\ LET s == <<"mqtt", "event">> IN
     /\ s \in open /\ queue[s] = <<>> /\ consumer[s].on = 0
     /\ dropped[s] = {} /\ ~refused /\ \A p \in lost : p[1] # s
     /\ Wanted(s) # {}
     => broker.person = IF PersonThere THEN "ON" ELSE "OFF"

\* A session that breaks costs what was in hand, at most one message of each
\* subscription; the queues survive it (mqtt.py 224-240).
OneLossPerBreak == Cardinality(lost) <= 2 * breaks

\* The bridge comes back online while the broker answers, unless nothing was
\* published since the session broke (nobody watches an idle session) or the
\* announcement failed by itself.
BridgeRecovers ==
  []<>(\/ ~broker.up \/ ending # "no"
       \/ \A s \in MqttSub : queue[s] = <<>> /\ consumer[s].on = 0 /\
            (broker.session /\ ~mute => broker.status = "online"))
=============================================================================
