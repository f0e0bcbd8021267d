------------------------------- MODULE Capture -------------------------------
(***************************************************************************)
(* The capture chain of the runtime: recorders, detection pipelines and    *)
(* stream holders side by side on one gateway, until the runtime stops     *)
(* them: pipelines first, the others when those have ended (runtime.py).   *)
(***************************************************************************)
EXTENDS KeepWarm

captureVars == <<recorderVars, pipe, keepWarmVars, streamVars>>

CaptureInit == StreamsInit /\ RecorderInit /\ PipelineInit /\ KeepWarmInit

\* Runtime.stop, and the first half of a reload.
CaptureStops ==
  /\ setup.stops
  /\ \/ PipeStop /\ UNCHANGED <<recorderVars, keepWarmVars>>
     \/ PipeStopped /\ RecStop /\ UNCHANGED <<pipe, keepWarmVars>>
     \/ PipeStopped /\ HoldersStop /\ UNCHANGED <<pipe, recorderVars>>

CaptureWorld ==
  /\ WorldNext \/ \E k \in Supervisor : ChildConnects(k) \/ ChildExits(k) \/ ChildCrashes(k)
  /\ UNCHANGED <<recorderVars, pipe, keepWarmVars>>

CaptureNext ==
  \/ CaptureWorld \/ CaptureStops
  \/ RecorderNext /\ UNCHANGED <<pipe, keepWarmVars>>
  \/ PipelineNext /\ UNCHANGED <<recorderVars, keepWarmVars>>
  \/ KeepWarmNext /\ UNCHANGED <<recorderVars, pipe>>

\* asyncio runs every ready task, timers fire and ffmpeg acts; a live stream
\* delivers.  Nothing is assumed of cameras, faults and the order to stop.
CaptureFairness ==
  /\ \A c \in Camera :
       /\ WF_captureVars(RecSteps(c) /\ UNCHANGED <<pipe, keepWarmVars>>)
       /\ WF_captureVars(PipeSteps(c) /\ UNCHANGED <<recorderVars, keepWarmVars>>)
       /\ WF_captureVars(HolderSteps(c) /\ UNCHANGED <<recorderVars, pipe>>)
       /\ WF_captureVars(Segment(c) /\ UNCHANGED <<pipe, keepWarmVars>>)
       /\ WF_captureVars(FrameRead(c) /\ UNCHANGED <<recorderVars, keepWarmVars>>)
       /\ WF_captureVars(HolderReceives(c) /\ UNCHANGED <<recorderVars, pipe>>)
  /\ WF_captureVars(IntervalPasses /\ UNCHANGED <<recorderVars, pipe>>)
  /\ \A k \in Supervisor :
       WF_captureVars((ChildConnects(k) \/ ChildExits(k))
                      /\ UNCHANGED <<recorderVars, pipe, keepWarmVars>>)

CaptureSpec == CaptureInit /\ [][CaptureNext]_captureVars /\ CaptureFairness

-----------------------------------------------------------------------------
(* Properties.                                                             *)

CaptureTypeOK == StreamsTypeOK /\ RecorderTypeOK /\ PipelineTypeOK /\ KeepWarmTypeOK

\* The long waits are for those they are meant for: a recorder of a mains camera
\* waits longer than the mains cap only after a failed start, one of a battery
\* camera longer than the cap of exits only after a stall, and a pipeline longer
\* than its cap only on battery after a streak; a stream that works takes the
\* next wait back to the first (recorder.py 53-61, runner.py 266-275).
BackoffJustified ==
  \A c \in Camera :
    /\ rec[c].backoff > MainsBackoffMax => c \in Battery \/ "start" \in failed[c]
    /\ rec[c].backoff > BackoffMax => c \in Battery /\ "stall" \in failed[c]
    /\ pipe[c].backoff > BackoffMax => c \in Battery /\ pipe[c].failures = FailureStreak

\* An ffmpeg child always has a task that will reap it, so a loop that has ended
\* leaves none behind and no camera is dialled twice by one supervisor
\* (recorder.py 294, decode.py 95-125).
NoOrphans ==
  \A c \in Camera :
    /\ child[R(c)] # "none" => rec[c].pc \in {"spawning", "reading", "terminating"}
    /\ child[P(c)] # "none" => pipe[c].pc \in {"spawning", "reading", "busy", "closing"}

\* However cameras and gateway fail, recording comes back while the camera can
\* be reached: stalls drop a silent session, and the holder has the gateway
\* restarted when others still pin the dead producer (keepwarm.py 17-31).  A
\* battery camera has no holder: it is out when detection shares its stream.
RecordingResumes ==
  \A c \in Camera : c \in setup.record /\ ~(c \in (Battery \intersect setup.detect) \ setup.sub) =>
    []<>(stopping # {} \/ ~Reachable(c) \/ (rec[c].pc = "reading" /\ Live(R(c))))

\* Detection on the main stream of a mains camera comes back too: the pipeline
\* has no stall watchdog of its own, the holder's restart ends its silent read.
DetectionResumes ==
  \A c \in Camera : c \in setup.detect \ (setup.sub \union Battery) =>
    []<>(stopping # {} \/ ~Reachable(c) \/ Live(P(c)))

\* Recorders that are told to stop end, wherever they are: a spawn that is
\* still awaited, a silent stream, a wait (recorder.py stop and _supervise).
RecorderStopEnds == RecStopping ~> RecStopped
=============================================================================
