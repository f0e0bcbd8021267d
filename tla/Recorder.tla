------------------------------ MODULE Recorder ------------------------------
(***************************************************************************)
(* CameraRecorder of recording/recorder.py: one task per camera that keeps *)
(* one ffmpeg child on the main stream, restarts it after a backoff, and   *)
(* takes a child that finalizes nothing for a while for stalled.           *)
(***************************************************************************)
EXTENDS Streams

CONSTANTS
  InitialBackoff, BackoffMax,
  MainsBackoffMax, StallBackoffMax

ASSUME RecorderAssumption ==
  /\ InitialBackoff \in Nat \ {0} /\ BackoffMax \in Nat /\ MainsBackoffMax \in Nat
  /\ StallBackoffMax \in Nat
  /\ InitialBackoff <= MainsBackoffMax /\ MainsBackoffMax <= BackoffMax
  /\ BackoffMax <= StallBackoffMax

VARIABLES
  rec,          \* per camera: the place of its task, its backoff, why the attempt ended
  failed        \* history: starts that failed and stalls since the last segment of a camera

recorderVars == <<rec, failed>>

RecPlace ==
  {"starting", "spawning", "reading", "terminating", "backoff", "stopped", "absent"}
RecorderTypeOK ==
  /\ rec \in [Camera -> [pc : RecPlace, backoff : InitialBackoff .. StallBackoffMax,
                         why : {"start", "exit", "stall"}]]
  /\ failed \in [Camera -> SUBSET {"start", "stall"}]

RecorderInit ==
  /\ rec = [c \in Camera |->
       [pc |-> IF c \in setup.record THEN "starting" ELSE "absent", backoff |-> InitialBackoff, why |-> "exit"]]
  /\ failed = [c \in Camera |-> {}]

R(c) == <<"recorder", c>>
RecGo(c, pc) == rec' = [rec EXCEPT ![c].pc = pc]
RecStopping == "recorder" \in stopping
\* Mutant: no cap.
AtMostUncapped(a, b) == b

AtMost(a, b) == IF a <= b THEN a ELSE b

\* The head of the loop: directories, then the spawn, which is awaited.
RecStartFails(c) ==
  /\ rec[c].pc = "starting" /\ ~RecStopping /\ Fault
  /\ rec' = [rec EXCEPT ![c].pc = "backoff", ![c].why = "start"]
  /\ failed' = [failed EXCEPT ![c] = @ \union {"start"}]
  /\ UNCHANGED <<setup, awake, up, producer, attached, child, stopping>>

RecSpawn(c) ==
  /\ rec[c].pc = "starting" /\ ~RecStopping
  /\ RecGo(c, "spawning") /\ SpawnChild(R(c))
  /\ UNCHANGED <<failed, setup, awake, up, producer, attached, stopping, faults>>

RecSpawned(c) ==
  /\ rec[c].pc = "spawning"
  /\ rec' = [rec EXCEPT ![c].pc = "reading"]
  /\ UNCHANGED <<failed, streamVars>>

\* The read loop: a line, a timeout, the end of the pipe.
Segment(c) ==
  /\ rec[c].pc = "reading" /\ Live(R(c))
  /\ rec' = [rec EXCEPT ![c].backoff = InitialBackoff]
  /\ failed' = [failed EXCEPT ![c] = {}]
  /\ UNCHANGED streamVars

ReadEnds(c, why) ==
  /\ rec' = [rec EXCEPT ![c].pc = "terminating", ![c].why = why]
  /\ failed' = [failed EXCEPT ![c] = @ \union ({why} \ {"exit"})]
  /\ UNCHANGED streamVars

\* Mutant: no watchdog.
ReadTimesOutAtStop(c) ==
  rec[c].pc = "reading" /\ RecStopping /\ ReadEnds(c, "exit")

\* Mutant: a read that times out does not look at the order to stop.
ReadTimesOutOnStall(c) ==
  rec[c].pc = "reading" /\ ~RecStopping /\ ~Coming(R(c)) /\ ReadEnds(c, "stall")

\* A read that times out looks at the order to stop, then at the last segment.
ReadTimesOut(c) ==
  /\ rec[c].pc = "reading"
  /\ \/ RecStopping /\ ReadEnds(c, "exit")
     \/ ~RecStopping /\ ~Coming(R(c)) /\ ReadEnds(c, "stall")

RecEof(c) == rec[c].pc = "reading" /\ child[R(c)] = "none" /\ ReadEnds(c, "exit")

\* SIGTERM, SIGKILL after 5 s: the child is reaped and its last lines are read.
RecTerminated(c) ==
  /\ rec[c].pc = "terminating" /\ RecGo(c, IF RecStopping THEN "stopped" ELSE "backoff")
  /\ Reap({R(c)})
  /\ UNCHANGED <<failed, setup, awake, up, stopping, faults>>

\* Mutant: the power profiles swapped.
RecCapSwapped(c) ==
  IF rec[c].why = "start" THEN BackoffMax
  ELSE IF c \in Battery THEN MainsBackoffMax
  ELSE IF rec[c].why = "stall" THEN StallBackoffMax ELSE BackoffMax

\* The cap that follows a wait: that of the failure and the power profile.
RecCap(c) ==
  IF rec[c].why = "start" THEN BackoffMax
  ELSE IF c \notin Battery THEN MainsBackoffMax
  ELSE IF rec[c].why = "stall" THEN StallBackoffMax ELSE BackoffMax

RecBackoffOver(c) ==
  /\ rec[c].pc = "backoff" /\ ~RecStopping
  /\ rec' = [rec EXCEPT ![c].pc = "starting", ![c].why = "exit",
                        ![c].backoff = AtMost(RecCap(c), 2 * @)]
  /\ UNCHANGED <<failed, streamVars>>

RecEnds(c) ==
  /\ rec[c].pc \in {"starting", "backoff"} /\ RecStopping /\ RecGo(c, "stopped")
  /\ UNCHANGED <<failed, streamVars>>

\* RecorderSupervisor.stop tells every recorder, and terminates the children
\* the recorders know: not one whose spawn is still awaited.
RecStop ==
  LET known == {c \in Camera : rec[c].pc = "reading"} IN
  /\ ~RecStopping /\ stopping' = stopping \union {"recorder"}
  /\ Reap({R(c) : c \in known})
  /\ UNCHANGED <<rec, failed, setup, awake, up, faults>>

RecSteps(c) ==
  \/ RecSpawn(c) \/ RecSpawned(c)
  \/ ReadTimesOut(c) \/ RecEof(c) \/ RecTerminated(c)
  \/ RecBackoffOver(c) \/ RecEnds(c)

RecorderNext ==
  \E c \in Camera :
    RecSteps(c) \/ RecStartFails(c) \/ Segment(c)

RecStopped == \A c \in Camera : rec[c].pc \in {"stopped", "absent"}
=============================================================================
