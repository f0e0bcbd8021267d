------------------------------ MODULE Promotion ------------------------------
(***************************************************************************)
(* The promotion rules of events/engine.py: which tracks become events.    *)
(* A track is a record with the fields                                     *)
(*   id, zones (the names of the zones it stands in), dwell, touch, loiter *)
(*   and passes (how often it came by);                                    *)
(* kinds maps a camera's zone names to their kinds, and a cascade is a     *)
(* record of the thresholds of pipeline/base.py:CascadeSpec.               *)
(***************************************************************************)
EXTENDS Integers

ZoneKind == {"public", "private", "entry", "object"}
Sensitivity == {"relaxed", "balanced", "paranoid"}

Cascade ==
  [touch : BOOLEAN, entry : BOOLEAN, dwell : Nat, loiter : BOOLEAN, passes : Nat]

Track ==
  [id : Nat, zones : SUBSET STRING, dwell : Nat, touch : BOOLEAN, loiter : BOOLEAN, passes : Nat]

KindsOf(track, kinds) == {kinds[z] : z \in track.zones \intersect DOMAIN kinds}

HasPublicZone(kinds) == \E z \in DOMAIN kinds : kinds[z] = "public"

\* The passers-by rule: a track in public zones only, or in no zone of a
\* camera that has a public one, never promotes.
IsSuppressed(track, kinds) ==
  IF track.zones = {}
    THEN HasPublicZone(kinds)
    ELSE track.zones \subseteq DOMAIN kinds /\ KindsOf(track, kinds) = {"public"}

InTarget(track, kinds) == KindsOf(track, kinds) \intersect {"entry", "object"} # {}

\* The paranoid preset halves the dwell threshold.
Dwells(track, cascade, sensitivity) ==
  IF sensitivity = "paranoid" THEN 2 * track.dwell > cascade.dwell
                              ELSE track.dwell > cascade.dwell

\* promotion_reason gives one.
Promotes(track, kinds, cascade, sensitivity) ==
  \/ cascade.touch /\ track.touch
  \/ /\ sensitivity = "relaxed"
     /\ cascade.entry /\ InTarget(track, kinds)
     /\ Dwells(track, cascade, sensitivity)
  \/ /\ sensitivity # "relaxed"
     /\ \/ cascade.entry /\ InTarget(track, kinds)
        \/ Dwells(track, cascade, sensitivity)
        \/ cascade.loiter /\ track.loiter
        \/ cascade.passes # 0 /\ track.passes >= cascade.passes

\* What on_detections makes of a track: a promotion some policy wants, one
\* that only the balanced geometry wants, or nothing.
Verdict(track, kinds, cascade, policies) ==
  IF IsSuppressed(track, kinds) THEN "none"
  ELSE IF \E s \in policies : Promotes(track, kinds, cascade, s) THEN "confirmed"
  ELSE IF Promotes(track, kinds, cascade, "balanced") THEN "dismissed"
  ELSE "none"
==============================================================================
