----------------------------- MODULE ModelStore -----------------------------
(***************************************************************************)
(* How a boot comes by its detector (pipeline/detect.py): ModelStore keeps *)
(* the pinned model beside a stamp that says it was verified, downloads it *)
(* when it is missing or wrong, and a session is made with the providers   *)
(* this machine has.  Whatever fails leaves the runtime without a          *)
(* detector, and a crash may fall between any two steps.                   *)
(***************************************************************************)
EXTENDS FiniteSets

CONSTANTS
  Provider,    \* ONNX Runtime's providers
  Cpu,         \* the one that is always tried last
  Preferred    \* the providers the configured hardware asks for

ASSUME ModelAssumption == Cpu \in Preferred /\ Preferred \subseteq Provider

VARIABLES
  modelFile,   \* what <key>.onnx holds: nothing, the pinned model or something else
  stampFile,   \* what <key>.onnx.sha256 holds: nothing, the pinned digest or a part of it
  loader,      \* AppRuntime._load_detector: its place, what it has downloaded, what it tries
  swapped,     \* history: somebody put another file under a stamp that was right
  detector     \* what detections run on: nothing or a model, and how it was vouched for

modelVars == <<modelFile, stampFile, loader, swapped, detector>>

NotLoading == [pc |-> "off", part |-> "nothing", tries |-> {}]
NullDetector == [model |-> "nothing", blind |-> FALSE]

Content == {"nothing", "pinned", "other"}
Loader == [pc : {"off", "looking", "hashing", "deleting", "clearing", "downloading",
                 "checking", "stamping", "opening", "last resort", "ready", "disabled"},
           part : Content, tries : SUBSET Provider]
Detector == [model : Content, blind : BOOLEAN]

ModelTypeOK ==
  /\ modelFile \in Content /\ stampFile \in {"nothing", "pinned", "torn"}
  /\ loader \in Loader /\ swapped \in BOOLEAN /\ detector \in Detector

ModelInit ==
  /\ modelFile = "nothing" /\ stampFile = "nothing" /\ swapped = FALSE
  /\ loader = NotLoading /\ detector = NullDetector

To(pc) == loader' = [loader EXCEPT !.pc = pc]

StartLoading ==
  /\ loader.pc = "off" /\ To("looking") /\ UNCHANGED <<modelFile, stampFile, swapped, detector>>

\* A file whose stamp is right is taken as it is; a stamp without a file stays.
LookForModel ==
  /\ loader.pc = "looking"
  /\ To(IF modelFile = "nothing" THEN "downloading"
        ELSE IF stampFile = "pinned" THEN "opening" ELSE "hashing")
  /\ UNCHANGED <<modelFile, stampFile, swapped, detector>>

\* A file that is not the pinned model is deleted, then its stamp.
HashModel ==
  /\ loader.pc = "hashing" /\ To(IF modelFile = "pinned" THEN "stamping" ELSE "deleting")
  /\ UNCHANGED <<modelFile, stampFile, swapped, detector>>

DeleteModel ==
  /\ loader.pc = "deleting" /\ modelFile' = "nothing" /\ To("clearing")
  /\ UNCHANGED <<stampFile, swapped, detector>>

ClearStamp ==
  /\ loader.pc = "clearing" /\ stampFile' = "nothing" /\ To("downloading")
  /\ UNCHANGED <<modelFile, swapped, detector>>

Disable == loader' = [NotLoading EXCEPT !.pc = "disabled"] /\ UNCHANGED detector

\* Into a temporary file of its own; the network may fail or answer anything.
Download ==
  /\ loader.pc = "downloading"
  /\ \/ Disable
     \/ \E got \in {"pinned", "other"} :
          loader' = [loader EXCEPT !.pc = "checking", !.part = got] /\ UNCHANGED detector
  /\ UNCHANGED <<modelFile, stampFile, swapped>>

\* Mutant: what was downloaded is put in place and stamped unseen.
InstallUnchecked ==
  /\ loader.pc = "checking" /\ modelFile' = loader.part /\ To("stamping") /\ UNCHANGED detector
  /\ UNCHANGED <<stampFile, swapped>>

InstallModel ==
  /\ loader.pc = "checking"
  /\ IF loader.part = "pinned"
     THEN modelFile' = "pinned" /\ To("stamping") /\ UNCHANGED detector
     ELSE Disable /\ UNCHANGED modelFile
  /\ UNCHANGED <<stampFile, swapped>>

\* Not atomic: a write that fails may leave a part of the digest.
WriteStamp ==
  /\ loader.pc = "stamping"
  /\ \/ stampFile' = "pinned" /\ To("opening") /\ UNCHANGED detector
     \/ stampFile' = "torn" /\ Disable
  /\ UNCHANGED <<modelFile, swapped>>

Loaded ==
  /\ loader' = [NotLoading EXCEPT !.pc = "ready"]
  /\ detector' = [model |-> modelFile, blind |-> swapped]

\* The providers this build has of those asked for, the CPU if there is none.
OpenDetector ==
  /\ loader.pc = "opening"
  /\ \E available \in SUBSET Provider :
       LET usable == IF Preferred \intersect available = {} THEN {Cpu}
                     ELSE Preferred \intersect available IN
       \/ Loaded
       \/ IF usable = {Cpu} THEN Disable
          ELSE loader' = [loader EXCEPT !.pc = "last resort", !.tries = usable]
               /\ UNCHANGED detector
  /\ UNCHANGED <<modelFile, stampFile, swapped>>

OpenOnCpu ==
  /\ loader.pc = "last resort" /\ (Loaded \/ Disable)
  /\ UNCHANGED <<modelFile, stampFile, swapped>>

\* The process ends, perhaps in the middle of writing the stamp.
LoaderCrash ==
  /\ loader.pc # "off" /\ loader' = NotLoading /\ detector' = NullDetector
  /\ stampFile' \in (IF loader.pc = "stamping" THEN {stampFile, "torn"} ELSE {stampFile})
  /\ UNCHANGED <<modelFile, swapped>>

\* While nothing is loading, somebody places a copy or deletes the file, with
\* its stamp or without, as the error messages tell him to.
PlaceModel ==
  /\ loader.pc \in {"off", "ready", "disabled"}
  /\ \E copy \in {"pinned", "other"} :
       modelFile' = copy /\ swapped' = (copy = "other" /\ stampFile = "pinned")
  /\ UNCHANGED <<stampFile, loader, detector>>

RemoveModel ==
  /\ loader.pc \in {"off", "ready", "disabled"} /\ modelFile' = "nothing" /\ swapped' = FALSE
  /\ stampFile' \in {stampFile, "nothing"} /\ UNCHANGED <<loader, detector>>

ModelNext ==
  \/ StartLoading \/ LookForModel \/ HashModel \/ DeleteModel \/ ClearStamp \/ Download
  \/ InstallModel \/ WriteStamp \/ OpenDetector \/ OpenOnCpu
  \/ LoaderCrash \/ PlaceModel \/ RemoveModel

ModelSpec == ModelInit /\ [][ModelNext]_modelVars

-----------------------------------------------------------------------------
\* Detections run on the pinned model or on none, wherever earlier boots ended
\* and whatever the network sent, except after somebody put another file under
\* a stamp that was right: the stamp saves the rehash (detect.py 141-147).
RunsThePinnedModel ==
  /\ detector.model = "other" => detector.blind
  /\ stampFile = "pinned" /\ modelFile = "other" => swapped
=============================================================================
