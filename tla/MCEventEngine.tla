---------------------------- MODULE MCEventEngine ----------------------------
(***************************************************************************)
(* Small instances of EventEngine: a pavement, a yard and a door in front  *)
(* of every camera, and one relaxed policy.                                *)
(***************************************************************************)
EXTENDS EventEngine, TLC

MCZones == [c \in Camera |-> [walk |-> "public", yard |-> "private", door |-> "entry"]]
MCPolicies == [c \in Camera |-> {"relaxed"}]
MCCascades == [touch |-> TRUE, entry |-> TRUE, dwell |-> 10, loiter |-> TRUE, passes |-> 3]

Passer ==
  [id |-> 1, zones |-> {"walk"}, dwell |-> 20, touch |-> TRUE, loiter |-> FALSE, passes |-> 3]
Lurker ==
  [id |-> 1, zones |-> {"walk", "yard"}, dwell |-> 5, touch |-> FALSE, loiter |-> TRUE,
   passes |-> 0]
Visitor ==
  [id |-> 2, zones |-> {"door"}, dwell |-> 11, touch |-> FALSE, loiter |-> FALSE, passes |-> 0]

MCBatches == {<<>>, <<Lurker>>, <<Lurker, Visitor>>}
MCFewBatches == {<<Visitor>>}

CameraSymmetry == Permutations(Camera)
==============================================================================
