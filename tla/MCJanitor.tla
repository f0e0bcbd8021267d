------------------------------ MODULE MCJanitor ------------------------------
(***************************************************************************)
(* The store of the janitor, and beside it the loops of plan_deletions on  *)
(* bounded inputs.  They share nothing that moves: a behaviour is one of   *)
(* the store or one call of the planner.  The store has two parts, as all  *)
(* of it at once is out of reach: two cameras with every janitor pass and  *)
(* reloads one after the other; and reloads that overlap on one camera,    *)
(* over a longer time, while the janitor rests.                            *)
(***************************************************************************)
EXTENDS MCStorage, PlanDeletions

\* Two cameras, two start times, two sizes, all four classes.
MCFootage ==
  {[camera |-> c, start |-> t, end |-> t + 1, size |-> n, klass |-> k] :
     c \in {1, 2}, t \in {0, 2}, n \in {1, 2}, k \in SegmentClass}

\* Every index of up to three segments.
MCInputs ==
  {S \in {{}} \union {{a, b, c} : a, b, c \in MCFootage} :
     \A s, t \in S : s.camera = t.camera /\ s.start = t.start => s = t}

\* No limit at all; everything due at once; a short continuous schedule with
\* longer motion and event schedules, and a favorites limit the code ignores.
MCLimitChoices ==
  {NoLimits,
   [k \in SegmentClass |-> 0],
   [continuous |-> 1, motion |-> 2, event |-> 4, favorite |-> 1]}

VARIABLE part   \* chosen once

\* The planner while nobody calls it.
NoCall ==
  /\ segments = {} /\ limits = NoLimits /\ bytesToFree = 0
  /\ pc = "done" /\ todo = <<>>
  /\ survivors = {} /\ expired = {} /\ pressure = {} /\ remaining = 0 /\ unmet = 0

OneSupervisor == lane' = lane /\ now' <= 2 /\ restarts' <= 1 /\ faults' = 0

Overlapping == pass' \in {"off", "idle"} /\ \A s \in disk' : CameraOf(s) = 1

StoreActs ==
  /\ Next
  /\ \/ part = "store" /\ OneSupervisor
     \/ part = "overlap" /\ Overlapping
  /\ UNCHANGED planVars

PlannerActs == part = "planner" /\ PlanNext /\ UNCHANGED vars

JanitorSpec ==
  /\ Init /\ lane = CHOOSE l \in Lane : TRUE
  /\ \/ part \in {"store", "overlap"} /\ NoCall
     \/ part = "planner" /\ PlanInit
  /\ [][UNCHANGED part /\ (StoreActs \/ PlannerActs)]_<<vars, planVars, part>>
==============================================================================
