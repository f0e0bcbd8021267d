------------------------------ MODULE MCCapture ------------------------------
EXTENDS Capture
Case(battery, sub, record, detect, n, stops) ==
  [battery |-> battery, sub |-> sub, record |-> record, detect |-> detect,
   faults |-> n, stops |-> stops]
\* One camera: on mains with everything on one stream; the supervisors apart
\* with one fault more; everything on battery, on one stream and on two.
MCSetups == {
  Case({}, {}, Camera, Camera, 1, FALSE), Case({}, {}, Camera, {}, 2, FALSE),
  Case({}, {}, {}, Camera, 2, TRUE), Case(Camera, {}, Camera, {}, 2, TRUE),
  Case(Camera, {}, {}, Camera, 2, TRUE), Case(Camera, {}, Camera, Camera, 1, FALSE),
  Case(Camera, Camera, Camera, Camera, 1, TRUE)}
=============================================================================
