------------------------------ MODULE Previews ------------------------------
(***************************************************************************)
(* PreviewWorker of recording/previews.py: every pass looks for the hours  *)
(* that are over, have footage and no preview yet, and renders one through *)
(* a temporary file; GET /recordings/preview serves what is in place.      *)
(***************************************************************************)
EXTENDS Exports

CONSTANT Hour   \* camera-hours within the last day

VARIABLES
  over,      \* hours that are fully elapsed
  footage,   \* hours with rows in the index
  preview,   \* per hour: the file in place
  tmp,       \* per hour: the file ffmpeg writes
  rendering  \* the hour in the worker's hands

previewVars == <<over, footage, preview, tmp, rendering>>

File == {"none", "partial", "whole"}

PreviewsTypeOK ==
  /\ over \subseteq Hour /\ footage \subseteq Hour
  /\ preview \in [Hour -> File] /\ tmp \in [Hour -> File]
  /\ rendering \in Hour \union {Nobody}

PreviewsInit ==
  /\ over = {} /\ footage = {} /\ rendering = Nobody
  /\ preview = [h \in Hour |-> "none"] /\ tmp = [h \in Hour |-> "none"]

\* The clock; and the recorder, the reconciler and the janitor at the index.
HourPasses(h) ==
  /\ h \notin over /\ over' = over \union {h}
  /\ UNCHANGED <<footage, preview, tmp, rendering>>

FootageChanges(h) ==
  /\ footage' = IF h \in footage THEN footage \ {h} ELSE footage \union {h}
  /\ UNCHANGED <<over, preview, tmp, rendering>>

\* run_once and generate_hour up to ffmpeg, which would not overwrite: what a
\* crash left is removed first.
StartPreview(h) ==
  /\ rendering = Nobody /\ h \in over /\ preview[h] = "none" /\ h \in footage
  /\ rendering' = h /\ tmp' = [tmp EXCEPT ![h] = "partial"]
  /\ UNCHANGED <<over, footage, preview>>

\* Mutant: the file is moved into place whether ffmpeg failed or not.
EndPreviewAnyway ==
  LET h == rendering IN
  /\ h # Nobody /\ rendering' = Nobody
  /\ \E ok \in BOOLEAN : preview' = [preview EXCEPT ![h] = IF ok THEN "whole" ELSE "partial"]
  /\ tmp' = [tmp EXCEPT ![h] = "none"]
  /\ UNCHANGED <<over, footage>>

\* ffmpeg ends: its file is moved into place at once, or removed when it failed.
EndPreview ==
  LET h == rendering IN
  /\ h # Nobody /\ rendering' = Nobody
  /\ \E ok \in BOOLEAN : preview' = IF ok THEN [preview EXCEPT ![h] = "whole"] ELSE preview
  /\ tmp' = [tmp EXCEPT ![h] = "none"]
  /\ UNCHANGED <<over, footage>>

\* A crash, or a pass that is cancelled: what ffmpeg wrote stays.
PreviewsInterrupted ==
  /\ rendering # Nobody /\ rendering' = Nobody
  /\ UNCHANGED <<over, footage, preview, tmp>>

PreviewsNext ==
  \/ \E h \in Hour : HourPasses(h) \/ FootageChanges(h) \/ StartPreview(h)
  \/ EndPreview \/ PreviewsInterrupted
=============================================================================
