------------------------------ MODULE Pipeline ------------------------------
(***************************************************************************)
(* CameraPipeline of pipeline/runner.py with the SubstreamDecoder of       *)
(* pipeline/decode.py: one task per camera that decodes its stream, hands  *)
(* frames with motion to detector and engine, and reconnects after a       *)
(* backoff.  A read waits for a whole frame, for as long as that takes.    *)
(***************************************************************************)
EXTENDS Recorder

CONSTANT RepeatBackoffMax   \* cap of a battery camera that keeps failing

ASSUME PipelineAssumption == RepeatBackoffMax \in Nat /\ StallBackoffMax <= RepeatBackoffMax

VARIABLE pipe   \* per camera: the place of its task, backoff, failures in a row

FailureStreak == 3      \* failures in a row that stretch the backoff of a battery camera

PipePlace == {"starting", "spawning", "reading", "busy", "closing", "backoff", "stopped",
              "absent"}
PipelineTypeOK ==
  pipe \in [Camera -> [pc : PipePlace, backoff : InitialBackoff .. RepeatBackoffMax,
                       failures : 0 .. FailureStreak]]

PipelineInit ==
  pipe = [c \in Camera |->
    [pc |-> IF c \in setup.detect THEN "starting" ELSE "absent", backoff |-> InitialBackoff, failures |-> 0]]

P(c) == <<"pipeline", c>>
PipeGo(c, pc) == pipe' = [pipe EXCEPT ![c].pc = pc]
PipeStopping == "pipeline" \in stopping

\* The wait after an attempt that ended, failed or not; the streak is counted
\* as far as it matters.
FailedAgain(c) ==
  pipe' = [pipe EXCEPT ![c].pc = "backoff", ![c].failures = AtMost(FailureStreak, @ + 1)]

PipeSpawn(c) ==
  /\ pipe[c].pc = "starting" /\ ~PipeStopping
  /\ PipeGo(c, "spawning") /\ SpawnChild(P(c))
  /\ UNCHANGED <<setup, awake, up, producer, attached, stopping, faults>>

\* No decoder, or no ffmpeg: contained.
PipeStartFails(c) ==
  /\ pipe[c].pc = "starting" /\ ~PipeStopping /\ Fault /\ FailedAgain(c)
  /\ UNCHANGED <<setup, awake, up, producer, attached, child, stopping>>

PipeSpawned(c) ==
  /\ pipe[c].pc = "spawning" /\ PipeGo(c, "reading")
  /\ UNCHANGED streamVars

\* A frame: the motion gate passes it to detector and engine, or not.
FrameRead(c) ==
  /\ pipe[c].pc = "reading" /\ Live(P(c))
  /\ IF PipeStopping THEN PipeGo(c, "closing")
     ELSE \E motion \in BOOLEAN :
       pipe' = [pipe EXCEPT ![c] = [pc |-> IF motion THEN "busy" ELSE "reading",
                                    backoff |-> InitialBackoff, failures |-> 0]]
  /\ UNCHANGED streamVars

\* Detector and engine return or raise; either way the loop reads on.
FrameDone(c) ==
  /\ pipe[c].pc = "busy" /\ PipeGo(c, "reading")
  /\ UNCHANGED streamVars

PipeEof(c) ==
  /\ pipe[c].pc = "reading" /\ child[P(c)] = "none" /\ PipeGo(c, "closing")
  /\ UNCHANGED streamVars

\* Mutant: the loop goes on without the child's end.
PipeClosedLoosely(c) ==
  /\ pipe[c].pc = "closing"
  /\ IF PipeStopping THEN PipeGo(c, "stopped") ELSE FailedAgain(c)
  /\ UNCHANGED streamVars

PipeClosed(c) ==
  /\ pipe[c].pc = "closing" /\ Reap({P(c)})
  /\ IF PipeStopping THEN PipeGo(c, "stopped") ELSE FailedAgain(c)
  /\ UNCHANGED <<setup, awake, up, stopping, faults>>

PipeCap(c) ==
  IF c \in Battery /\ pipe[c].failures = FailureStreak THEN RepeatBackoffMax ELSE BackoffMax

PipeBackoffOver(c) ==
  /\ pipe[c].pc = "backoff" /\ ~PipeStopping
  /\ pipe' = [pipe EXCEPT ![c].pc = "starting", ![c].backoff = AtMost(PipeCap(c), 2 * @)]
  /\ UNCHANGED streamVars

PipeEnds(c) ==
  /\ pipe[c].pc \in {"starting", "backoff"} /\ PipeStopping /\ PipeGo(c, "stopped")
  /\ UNCHANGED streamVars

\* PipelineSupervisor.stop: every decoder whose child is known is terminated;
\* the loops are then waited for.
PipeStop ==
  /\ ~PipeStopping /\ stopping' = stopping \union {"pipeline"}
  /\ Reap({P(c) : c \in {d \in Camera : pipe[d].pc \in {"reading", "busy"}}})
  /\ UNCHANGED <<pipe, setup, awake, up, faults>>

PipeSteps(c) ==
  \/ PipeSpawn(c) \/ PipeSpawned(c) \/ FrameDone(c) \/ PipeEof(c) \/ PipeClosed(c)
  \/ PipeBackoffOver(c) \/ PipeEnds(c)

PipelineNext == \E c \in Camera : PipeSteps(c) \/ PipeStartFails(c) \/ FrameRead(c)

PipeStopped == \A c \in Camera : pipe[c].pc \in {"stopped", "absent"}
=============================================================================
