--------------------------- MODULE PlanDeletions ---------------------------
(***************************************************************************)
(* plan_deletions of recording/retention.py, loop by loop.  Retention.tla  *)
(* states the plan in closed form; this module runs the code's two loops   *)
(* on every bounded input and compares.                                    *)
(***************************************************************************)
EXTENDS Retention, Sequences

CONSTANTS
  Inputs,         \* the sets of segment records an index may hold
  LimitChoices,   \* the retention settings tried
  MaxBytesToFree, \* bound: the pressure asked for
  Now             \* the planner's clock

ASSUME PlanInputsAssumption ==
  /\ MaxBytesToFree \in Nat /\ Now \in Nat
  /\ LimitChoices \subseteq Limits
  /\ \A S \in Inputs : IsFiniteSet(S)
  /\ \A S \in Inputs : \A s, t \in S :
       /\ s.klass \in SegmentClass /\ s.size \in Nat /\ s.end \in Nat
       /\ s.camera \in Nat /\ s.start \in Nat
       /\ s.camera = t.camera /\ s.start = t.start => s = t   \* one file per start

VARIABLES
  segments, limits, bytesToFree,   \* the arguments of the call
  pc,          \* "classify", "take" or "done"
  todo,        \* what the running loop has not looked at yet
  survivors, expired, pressure, remaining, unmet

planVars == <<segments, limits, bytesToFree, pc, todo,
          survivors, expired, pressure, remaining, unmet>>

\* The elements of S in an order that has no ties among them.
Sorted(S, before(_, _)) ==
  CHOOSE q \in [1 .. Cardinality(S) -> S] :
    \A i, j \in 1 .. Cardinality(S) : i < j => before(q[i], q[j])

\* The order in which all_segments lists the rows: ORDER BY camera, start_ts.
IndexOrder(s, t) == s.camera < t.camera \/ (s.camera = t.camera /\ s.start < t.start)

PlanInit ==
  /\ segments \in Inputs
  /\ limits \in LimitChoices
  /\ bytesToFree \in 0..MaxBytesToFree
  /\ pc = "classify"
  /\ todo = Sorted(segments, IndexOrder)
  /\ survivors = {} /\ expired = {} /\ pressure = {}
  /\ remaining = 0 /\ unmet = 0

\* One turn of the expiry loop.
Classify ==
  /\ pc = "classify" /\ todo # <<>>
  /\ LET s == Head(todo) IN
       IF TimeIsUp(s, limits, Now)
         THEN expired' = expired \union {s} /\ UNCHANGED survivors
         ELSE survivors' = survivors \union {s} /\ UNCHANGED expired
  /\ todo' = Tail(todo)
  /\ UNCHANGED <<segments, limits, bytesToFree, pc, pressure, remaining, unmet>>

\* Mutant: pressure chooses among all segments, the expired ones included.
SortAllForPressure ==
  /\ pc = "classify" /\ todo = <<>>
  /\ remaining' = bytesToFree - Bytes(expired)
  /\ IF remaining' > 0
       THEN /\ pc' = "take"
            /\ todo' = Sorted({s \in segments : s.klass \in PressureDeletable}, GoesBefore)
       ELSE pc' = "done" /\ UNCHANGED todo
  /\ UNCHANGED <<segments, limits, bytesToFree, survivors, expired, pressure, unmet>>

\* What expiry does not free is taken from the deletable survivors, sorted.
SortForPressure ==
  /\ pc = "classify" /\ todo = <<>>
  /\ remaining' = bytesToFree - Bytes(expired)
  /\ IF remaining' > 0
       THEN /\ pc' = "take"
            /\ todo' = Sorted({s \in survivors : s.klass \in PressureDeletable}, GoesBefore)
       ELSE pc' = "done" /\ UNCHANGED todo
  /\ UNCHANGED <<segments, limits, bytesToFree, survivors, expired, pressure, unmet>>

\* Mutant: the loop runs to its end, whatever it has freed.
TakeOn ==
  /\ pc = "take" /\ todo # <<>>
  /\ pressure' = pressure \union {Head(todo)}
  /\ remaining' = remaining - Head(todo).size
  /\ todo' = Tail(todo)
  /\ UNCHANGED <<segments, limits, bytesToFree, pc, survivors, expired, unmet>>

\* One turn of the pressure loop.
Take ==
  /\ pc = "take" /\ todo # <<>> /\ remaining > 0
  /\ pressure' = pressure \union {Head(todo)}
  /\ remaining' = remaining - Head(todo).size
  /\ todo' = Tail(todo)
  /\ UNCHANGED <<segments, limits, bytesToFree, pc, survivors, expired, unmet>>

Finish ==
  /\ pc = "take" /\ (todo = <<>> \/ remaining <= 0)
  /\ unmet' = Max({0, remaining})
  /\ pc' = "done"
  /\ UNCHANGED <<segments, limits, bytesToFree, todo, survivors, expired, pressure, remaining>>

\* The call returns its plan.
Returned == pc = "done" /\ UNCHANGED planVars

PlanNext == Classify \/ SortForPressure \/ Take \/ Finish \/ Returned

PlanSpec == PlanInit /\ [][PlanNext]_planVars

-----------------------------------------------------------------------------
\* The closed forms of Retention.tla are what the two loops of plan_deletions
\* compute, for the expired list, the pressure list and the unmet bytes.
PlanIsTheClosedForm ==
  pc = "done" =>
    /\ expired = Expired(segments, limits, Now)
    /\ pressure = Pressure(segments, limits, Now, bytesToFree)
    /\ unmet = UnmetBytes(segments, limits, Now, bytesToFree)

\* Under pressure "oldest continuous goes first, then oldest motion"
\* (retention.py:7-8): nothing deletable that is kept goes before what is taken.
OldestContinuousGoesFirst ==
  pc = "done" =>
    \A kept \in segments \ (expired \union pressure), taken \in pressure :
      /\ kept.klass = "continuous" => taken.klass = "continuous"
      /\ kept.klass = taken.klass => taken.start <= kept.start

\* The plan frees what was asked, or reports exactly what is missing, and only
\* with no continuous or motion footage left to take; and pressure takes no more
\* than it needs: without its last segment the plan would fall short.
FreesJustEnough ==
  pc = "done" =>
    LET freed == Bytes(expired \union pressure) IN
    /\ freed + unmet >= bytesToFree
    /\ unmet > 0 => /\ freed + unmet = bytesToFree
                    /\ \A s \in segments \ (expired \union pressure) :
                         s.klass \in {"event", "favorite"}
    /\ \A s \in pressure :
         (\A t \in pressure : t = s \/ GoesBefore(t, s)) =>
           Bytes(expired \union (pressure \ {s})) < bytesToFree
=============================================================================
