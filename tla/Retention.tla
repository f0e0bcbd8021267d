------------------------------ MODULE Retention ------------------------------
(***************************************************************************)
(* The retention planner of recording/retention.py as operators: which     *)
(* segments a pass deletes because their class's time is up, and which it  *)
(* deletes to free disk space.  A segment is a record with the fields      *)
(*   camera (a natural: the rank of the camera in the index's ordering),   *)
(*   start, end (in the model's time units), size and klass.               *)
(* The planner sees lists ordered by camera and start; Python's sort is    *)
(* stable, so the camera's rank breaks the ties of the pressure order.     *)
(***************************************************************************)
EXTENDS Integers, FiniteSetsExt

CONSTANT Forever          \* a retention limit of None: keep without limit

ASSUME ForeverAssumption == Forever \notin Int

SegmentClass == {"continuous", "motion", "event", "favorite"}

PressureDeletable == {"continuous", "motion"}

Limits == [SegmentClass -> Nat \union {Forever}]

\* The limits of the pressure-only pass of janitor.py: nothing expires.
NoLimits == [k \in SegmentClass |-> Forever]

Bytes(segments) == MapThenSumSet(LAMBDA s : s.size, segments)

\* Mutant: the favorites limit of the settings is honoured.
TimeIsUpForAll(s, limits, now) ==
  limits[s.klass] # Forever /\ now - s.end > limits[s.klass]

TimeIsUp(s, limits, now) ==
  /\ s.klass # "favorite"
  /\ limits[s.klass] # Forever
  /\ now - s.end > limits[s.klass]

Expired(segments, limits, now) == {s \in segments : TimeIsUp(s, limits, now)}

Deletable(segments, limits, now) ==
  {s \in segments \ Expired(segments, limits, now) : s.klass \in PressureDeletable}

\* The order of the pressure list: continuous before motion, then by age.
ClassIndex(k) == IF k = "continuous" THEN 0 ELSE 1

\* Mutant: the newest footage goes first.
GoesBeforeNewestFirst(s, t) ==
  \/ ClassIndex(s.klass) < ClassIndex(t.klass)
  \/ /\ ClassIndex(s.klass) = ClassIndex(t.klass)
     /\ \/ s.start > t.start
        \/ s.start = t.start /\ s.camera < t.camera

\* Mutant: the sort is forgotten, the index order (camera, start) stays.
GoesBeforeUnsorted(s, t) ==
  s.camera < t.camera \/ (s.camera = t.camera /\ s.start < t.start)

GoesBefore(s, t) ==
  \/ ClassIndex(s.klass) < ClassIndex(t.klass)
  \/ /\ ClassIndex(s.klass) = ClassIndex(t.klass)
     /\ \/ s.start < t.start
        \/ s.start = t.start /\ s.camera < t.camera

StillToFree(segments, limits, now, bytesToFree) ==
  bytesToFree - Bytes(Expired(segments, limits, now))

\* A segment is taken when all that goes before it does not free enough.
Pressure(segments, limits, now, bytesToFree) ==
  LET candidates == Deletable(segments, limits, now)
  IN  {s \in candidates :
         Bytes({t \in candidates : GoesBefore(t, s)})
           < StillToFree(segments, limits, now, bytesToFree)}

UnmetBytes(segments, limits, now, bytesToFree) ==
  Max({0, StillToFree(segments, limits, now, bytesToFree)
            - Bytes(Pressure(segments, limits, now, bytesToFree))})
==============================================================================
