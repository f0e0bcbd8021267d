----------------------------- MODULE LiveStream -----------------------------
(***************************************************************************)
(* The live feed of api/routers/ws.py for one client: subscribe, accept,   *)
(* forward until the client is gone, clean up.                             *)
(***************************************************************************)
EXTENDS MqttBridge

LiveSub == <<"ws", "event">>

ASSUME LiveAssumption ==
  LiveSub \in Subscription /\ Wants(LiveSub) = {"confirmed", "ended"}

VARIABLES
  live,       \* place of the request handler
  seen,       \* messages emitted before the client saw the accepted handshake
  forwarder,  \* the message in the forwarder's hands, 0 for none
  frames      \* history: what the client was sent

liveVars == <<live, seen, forwarder, frames>>

LiveTypeOK ==
  /\ live \in {"none", "subscribed", "accepted", "gone", "closed"}
  /\ seen \in 0 .. MaxEmits /\ forwarder \in 0 .. MaxEmits /\ frames \in Seq(Message)

LiveInit == live = "none" /\ seen = 0 /\ forwarder = 0 /\ frames = <<>>

LiveSubscribes ==
  /\ live = "none" /\ live' = "subscribed" /\ open' = open \union {LiveSub}
  /\ UNCHANGED <<seen, forwarder, frames, emitted, queue, dropped>>

LiveAccepts ==
  /\ live = "subscribed" /\ live' = "accepted" /\ seen' = Len(emitted)
  /\ UNCHANGED <<forwarder, frames, busVars>>

\* Mutant: only the newest message is kept for the client.
LiveTakesNewest ==
  /\ live \in {"accepted", "gone"} /\ Take(LiveSub)
  /\ forwarder' = Head(queue[LiveSub])
  /\ UNCHANGED <<live, seen, frames, emitted, open, dropped>>

LiveTakes ==
  /\ live \in {"accepted", "gone"} /\ forwarder = 0 /\ Take(LiveSub)
  /\ forwarder' = Head(queue[LiveSub])
  /\ UNCHANGED <<live, seen, frames, emitted, open, dropped>>

\* A send to a client that is gone ends the forwarder, its message in hand.
LiveSends ==
  /\ live = "accepted" /\ forwarder # 0
  /\ frames' = Append(frames, forwarder) /\ forwarder' = 0
  /\ UNCHANGED <<live, seen, busVars>>

ClientLeaves ==
  /\ live \in {"subscribed", "accepted"} /\ live' = "gone"
  /\ UNCHANGED <<seen, forwarder, frames, busVars>>

\* The receive loop notices: the subscription is closed, the forwarder cancelled.
LiveCloses ==
  /\ live = "gone" /\ live' = "closed" /\ Detach({LiveSub}) /\ forwarder' = 0
  /\ UNCHANGED <<seen, frames, emitted, queue, dropped>>

LiveNext ==
  \/ LiveSubscribes \/ LiveAccepts \/ LiveTakes \/ LiveSends
  \/ ClientLeaves \/ LiveCloses

-----------------------------------------------------------------------------
\* Whatever is published once the client sees the handshake reaches it, in
\* order, except what its own queue dropped (ws.py 60-73, 96-112).
ClientMissesNothing ==
  /\ live = "accepted" =>
       \A m \in Wanted(LiveSub) : m > seen =>
         \/ m \in Waiting(LiveSub) \union dropped[LiveSub] \union {forwarder}
         \/ \E i \in 1 .. Len(frames) : frames[i] = m
  /\ \A i, j \in 1 .. Len(frames) : i < j => frames[i] < frames[j]
=============================================================================
