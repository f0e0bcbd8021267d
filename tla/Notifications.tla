---------------------------- MODULE Notifications ----------------------------
(***************************************************************************)
(* The consumers of the bus side by side.  They share nothing else, so a   *)
(* behaviour has the ones in "clients" at work; the runtime starts them    *)
(* all (runtime.py).                                                       *)
(***************************************************************************)
EXTENDS LiveStream

CONSTANT ClientSets

ASSUME NotificationsAssumption == ClientSets \subseteq SUBSET {"rules", "mqtt", "ws"}

VARIABLE clients   \* chosen once

notifyVars == <<clients, busVars, dispatcherVars, mqttVars, liveVars>>

NotifyTypeOK == BusTypeOK /\ DispatcherTypeOK /\ MqttTypeOK /\ LiveTypeOK

NotifyInit ==
  /\ clients \in ClientSets
  /\ BusInit({RuleSub(r) : r \in {q \in Rule : "rules" \in clients}}
             \union {s \in MqttSub : "mqtt" \in clients})
  /\ DispatcherInit("rules" \in clients) /\ MqttInit /\ LiveInit

RulesAct == "rules" \in clients /\ DispatcherNext /\ UNCHANGED <<clients, mqttVars, liveVars>>
BridgeActs == "mqtt" \in clients /\ MqttNext /\ UNCHANGED <<clients, dispatcherVars, liveVars>>
LiveActs == "ws" \in clients /\ LiveNext /\ UNCHANGED <<clients, dispatcherVars, mqttVars>>
SomethingIsSaid ==
  clients # {} /\ Emission /\ UNCHANGED <<clients, dispatcherVars, mqttVars, liveVars>>

NotifyNext == RulesAct \/ BridgeActs \/ LiveActs \/ SomethingIsSaid

\* Tasks run, sends that have a timeout end and waits expire (a web push has
\* none); locks are handed out first come, first served.
NotifyFairness ==
  /\ \A r \in Rule :
       WF_notifyVars(Deliveries(r, ChannelsOf(r) \ WebPush)
                     /\ UNCHANGED <<clients, mqttVars, liveVars>>)
  /\ WF_notifyVars(BridgeSteps /\ "mqtt" \in clients /\ UNCHANGED <<clients, dispatcherVars, liveVars>>)

NotifySpec == NotifyInit /\ [][NotifyNext]_notifyVars
=============================================================================
