----------------------------- MODULE MCServices -----------------------------
EXTENDS Services

CONSTANTS r1, r2, hook, app

MCSubscription == {RuleSub(r1), RuleSub(r2), LiveSub} \union MqttSub
MCWants(s) == IF s = RuleSub(r2) \/ s = <<"mqtt", "system">> THEN {"system"} ELSE {"confirmed", "ended"}
\* Both rules share the webhook, tried twice here (3 times in the code); the first
\* has the web push besides.
MCChannelsOf(r) == IF r = r1 THEN {hook, app} ELSE {hook}
MCAttempts(ch) == IF ch = hook THEN 2 ELSE 1
MCClientSets == {{"rules"}, {"mqtt"}, {"ws"}, {}}
\* A box overlaps its neighbour, and itself best.
MCOverlap(b, c) == IF b = c THEN 2 ELSE IF "middle" \in {b, c} THEN 1 ELSE 0
\* A device on the network, and a camera whose URLs the configuration gives.
MCAdapterOf(c) == IF c = "lens" THEN "onvif" ELSE "rtsp"
MCHasSub(c) == TRUE
MCSyntax(c) == TRUE
=============================================================================
