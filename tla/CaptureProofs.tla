---------------------------- MODULE CaptureProofs ----------------------------
(***************************************************************************)
(* What holds of Capture for any cameras, set-ups, faults and backoffs: no *)
(* child is left behind and no wait is longer than its cause allows.  The  *)
(* invariant adds what a recorder knows of its last attempt: why it ended  *)
(* is among the failures since the last segment, and forgotten when the    *)
(* next attempt begins.                                                    *)
(***************************************************************************)
EXTENDS Capture, TLAPS

RecRecord == [pc : RecPlace, backoff : InitialBackoff .. StallBackoffMax,
              why : {"start", "exit", "stall"}]
PipeRecord == [pc : PipePlace, backoff : InitialBackoff .. RepeatBackoffMax,
               failures : 0 .. FailureStreak]

\* A recorder's place, wait and child, with the failures since its last segment.
RecCareful(c, r, since, kid) ==
  /\ r.pc \in {"starting", "spawning", "reading"} => r.why = "exit"
  /\ r.why # "exit" => r.why \in since
  /\ r.backoff > MainsBackoffMax => c \in Battery \/ "start" \in since
  /\ r.backoff > BackoffMax => c \in Battery /\ "stall" \in since
  /\ kid # "none" => r.pc \in {"spawning", "reading", "terminating"}

PipeCareful(c, p, kid) ==
  /\ p.backoff > BackoffMax => c \in Battery /\ p.failures = FailureStreak
  /\ kid # "none" => p.pc \in {"spawning", "reading", "busy", "closing"}

CaptureInv ==
  /\ CaptureTypeOK
  /\ \A c \in Camera : /\ RecCareful(c, rec[c], failed[c], child[R(c)])
                       /\ PipeCareful(c, pipe[c], child[P(c)])

USE StreamsAssumption, RecorderAssumption, PipelineAssumption

LEMMA SupervisorsDiffer ==
  ASSUME NEW c \in Camera
  PROVE  /\ R(c) \in Supervisor /\ P(c) \in Supervisor /\ R(c) \in Consumer /\ P(c) \in Consumer
         /\ H(c) \in Consumer
         /\ \A d \in Camera : R(c) # P(d) /\ R(c) # H(d) /\ P(c) # H(d)
         /\ \A d \in Camera \ {c} : R(c) # R(d) /\ P(c) # P(d)
  BY DEF R, P, H, Supervisor, Consumer, Kind

LEMMA StreamIsOne ==
  ASSUME NEW k \in Consumer
  PROVE  StreamOf(k) \in Stream
<1>1. PICK c \in Camera, kind \in Kind : k = <<kind, c>>
  BY DEF Consumer
<1> QED BY <1>1 DEF StreamOf, Stream

-----------------------------------------------------------------------------
(* What the shared steps do to the sessions and the children.              *)

SessionsTyped == attached \subseteq Consumer /\ producer \in [Stream -> {"none", "live", "zombie"}]

LEMMA LeaveTyped ==
  ASSUME SessionsTyped, NEW K, Leave(K)
  PROVE  SessionsTyped'
  BY DEF SessionsTyped, Leave

LEMMA AttachTyped ==
  ASSUME SessionsTyped, NEW k \in Consumer, Attach(k)
  PROVE  SessionsTyped'
  BY StreamIsOne DEF SessionsTyped, Attach

ChildrenTyped == child \in [Supervisor -> {"none", "new", "on"}]

\* Nobody gets a child he did not have.
NoMore == \A k \in Supervisor : child[k] = "none" => child'[k] = "none"

LEMMA ReapTyped ==
  ASSUME SessionsTyped, ChildrenTyped, NEW K, Reap(K)
  PROVE  /\ SessionsTyped' /\ ChildrenTyped' /\ NoMore
         /\ \A k \in K \intersect Supervisor : child'[k] = "none"
<1>1. SessionsTyped'
  BY LeaveTyped DEF Reap
<1>2. child' = [k \in Supervisor |-> IF k \in K THEN "none" ELSE child[k]]
  BY DEF Reap
<1>3. ChildrenTyped' /\ NoMore
  BY <1>2 DEF ChildrenTyped, NoMore
<1> QED BY <1>1, <1>2, <1>3

LEMMA SpawnTyped ==
  ASSUME ChildrenTyped, NEW k \in Supervisor, SpawnChild(k)
  PROVE  ChildrenTyped' /\ \A i \in Supervisor \ {k} : child'[i] = child[i]
  BY DEF ChildrenTyped, SpawnChild

\* The rest of the types: what a step that only loses faults keeps.
LEMMA StreamsStay ==
  ASSUME StreamsTypeOK, UNCHANGED setup, SessionsTyped', ChildrenTyped',
         awake' \subseteq Camera, up' \in BOOLEAN, stopping' \subseteq Kind,
         Fault \/ UNCHANGED faults
  PROVE  StreamsTypeOK'
<1>1. setup.faults \in Nat
  BY DEF StreamsTypeOK
<1>2. faults' \in 0 .. setup.faults
  BY <1>1 DEF StreamsTypeOK, Fault
<1> QED BY <1>2 DEF StreamsTypeOK, SessionsTyped, ChildrenTyped

LEMMA StreamsParts ==
  StreamsTypeOK => /\ SessionsTyped /\ ChildrenTyped /\ awake \subseteq Camera /\ up \in BOOLEAN
                   /\ stopping \subseteq Kind
  BY DEF StreamsTypeOK, SessionsTyped, ChildrenTyped

-----------------------------------------------------------------------------
(* One supervisor moves, the others stay careful.                          *)

NoMoreBut(k) == \A i \in Supervisor \ {k} : child[i] = "none" => child'[i] = "none"

\* Nobody moves, and nobody gets a child.
LEMMA NobodyMoves ==
  ASSUME CaptureInv, StreamsTypeOK', KeepWarmTypeOK', UNCHANGED <<setup, recorderVars, pipe>>,
         NoMore
  PROVE  CaptureInv'
<1>1. CaptureTypeOK'
  BY DEF CaptureInv, CaptureTypeOK, RecorderTypeOK, PipelineTypeOK, recorderVars
<1>2. ASSUME NEW c \in Camera
      PROVE  RecCareful(c, rec[c], failed[c], child[R(c)])' /\ PipeCareful(c, pipe[c], child[P(c)])'
  <2>1. (child'[R(c)] # "none" => child[R(c)] # "none") /\ (child'[P(c)] # "none" => child[P(c)] # "none")
    BY SupervisorsDiffer DEF NoMore
  <2>2. R(c)' = R(c) /\ P(c)' = P(c) /\ Battery' = Battery
    BY DEF R, P, Battery
  <2>3. RecCareful(c, rec[c], failed[c], child[R(c)]) /\ PipeCareful(c, pipe[c], child[P(c)])
    BY DEF CaptureInv
  <2> QED BY <2>1, <2>2, <2>3 DEF RecCareful, PipeCareful, recorderVars
<1> QED BY <1>1, <1>2 DEF CaptureInv

LEMMA RecorderMoves ==
  ASSUME CaptureInv, NEW c \in Camera, StreamsTypeOK', UNCHANGED <<setup, pipe, keepWarmVars>>,
         rec' \in [Camera -> RecRecord], failed' \in [Camera -> SUBSET {"start", "stall"}],
         \A d \in Camera \ {c} : rec'[d] = rec[d] /\ failed'[d] = failed[d],
         NoMoreBut(R(c)), RecCareful(c, rec'[c], failed'[c], child'[R(c)])
  PROVE  CaptureInv'
<1>1. CaptureTypeOK'
  BY DEF CaptureInv, CaptureTypeOK, RecorderTypeOK, RecRecord, PipelineTypeOK, KeepWarmTypeOK,
         keepWarmVars
<1>2. ASSUME NEW d \in Camera
      PROVE  RecCareful(d, rec[d], failed[d], child[R(d)])' /\ PipeCareful(d, pipe[d], child[P(d)])'
  <2>1. R(d)' = R(d) /\ P(d)' = P(d) /\ Battery' = Battery
    BY DEF R, P, Battery
  <2>2. RecCareful(d, rec[d], failed[d], child[R(d)]) /\ PipeCareful(d, pipe[d], child[P(d)])
    BY DEF CaptureInv
  <2>3. child'[P(d)] # "none" => child[P(d)] # "none"
    BY SupervisorsDiffer DEF NoMoreBut
  <2>4. CASE d = c
    BY <2>1, <2>2, <2>3, <2>4 DEF RecCareful, PipeCareful
  <2>5. CASE d # c
    <3>1. child'[R(d)] # "none" => child[R(d)] # "none"
      BY <2>5, SupervisorsDiffer DEF NoMoreBut
    <3> QED BY <2>1, <2>2, <2>3, <2>5, <3>1 DEF RecCareful, PipeCareful
  <2> QED BY <2>4, <2>5
<1> QED BY <1>1, <1>2 DEF CaptureInv

LEMMA PipelineMoves ==
  ASSUME CaptureInv, NEW c \in Camera, StreamsTypeOK',
         UNCHANGED <<setup, recorderVars, keepWarmVars>>,
         pipe' \in [Camera -> PipeRecord], \A d \in Camera \ {c} : pipe'[d] = pipe[d],
         NoMoreBut(P(c)), PipeCareful(c, pipe'[c], child'[P(c)])
  PROVE  CaptureInv'
<1>1. CaptureTypeOK'
  BY DEF CaptureInv, CaptureTypeOK, PipelineTypeOK, PipeRecord, RecorderTypeOK, KeepWarmTypeOK,
         keepWarmVars, recorderVars
<1>2. ASSUME NEW d \in Camera
      PROVE  RecCareful(d, rec[d], failed[d], child[R(d)])' /\ PipeCareful(d, pipe[d], child[P(d)])'
  <2>1. R(d)' = R(d) /\ P(d)' = P(d) /\ Battery' = Battery
    BY DEF R, P, Battery
  <2>2. RecCareful(d, rec[d], failed[d], child[R(d)]) /\ PipeCareful(d, pipe[d], child[P(d)])
    BY DEF CaptureInv
  <2>3. child'[R(d)] # "none" => child[R(d)] # "none"
    BY SupervisorsDiffer DEF NoMoreBut
  <2>4. CASE d = c
    BY <2>1, <2>2, <2>3, <2>4 DEF RecCareful, PipeCareful, recorderVars
  <2>5. CASE d # c
    <3>1. child'[P(d)] # "none" => child[P(d)] # "none"
      BY <2>5, SupervisorsDiffer DEF NoMoreBut
    <3> QED BY <2>1, <2>2, <2>3, <2>5, <3>1 DEF RecCareful, PipeCareful, recorderVars
  <2> QED BY <2>4, <2>5
<1> QED BY <1>1, <1>2 DEF CaptureInv

-----------------------------------------------------------------------------
(* The recorder's steps.                                                   *)

LEMMA StreamsIdle ==
  ASSUME StreamsTypeOK, UNCHANGED streamVars
  PROVE  StreamsTypeOK' /\ NoMore /\ UNCHANGED <<setup, child>>
  BY DEF StreamsTypeOK, streamVars, NoMore

LEMMA NoMoreIsNoMoreBut ==
  ASSUME NoMore, NEW k
  PROVE  NoMoreBut(k)
  BY DEF NoMore, NoMoreBut

\* A step of the loop that touches no stream.
LEMMA RecorderGoes ==
  ASSUME CaptureInv, NEW c \in Camera, UNCHANGED <<streamVars, pipe, keepWarmVars>>,
         rec' \in [Camera -> RecRecord], failed' \in [Camera -> SUBSET {"start", "stall"}],
         \A d \in Camera \ {c} : rec'[d] = rec[d] /\ failed'[d] = failed[d],
         RecCareful(c, rec'[c], failed'[c], child[R(c)])
  PROVE  CaptureInv'
<1>1. StreamsTypeOK' /\ NoMore /\ UNCHANGED <<setup, child>>
  BY StreamsIdle DEF CaptureInv, CaptureTypeOK
<1>2. child'[R(c)] = child[R(c)]
  BY <1>1 DEF R
<1> QED BY <1>1, <1>2, RecorderMoves, NoMoreIsNoMoreBut

LEMMA RecorderStep ==
  ASSUME CaptureInv, NEW c \in Camera, RecSteps(c) \/ RecStartFails(c) \/ Segment(c),
         UNCHANGED <<pipe, keepWarmVars>>
  PROVE  CaptureInv'
<1>1. /\ StreamsTypeOK /\ SessionsTyped /\ ChildrenTyped /\ stopping \subseteq Kind
      /\ awake \subseteq Camera /\ up \in BOOLEAN
      /\ rec \in [Camera -> RecRecord] /\ failed \in [Camera -> SUBSET {"start", "stall"}]
  BY StreamsParts DEF CaptureInv, CaptureTypeOK, RecorderTypeOK, RecRecord
<1>2. RecCareful(c, rec[c], failed[c], child[R(c)])
  BY DEF CaptureInv
<1>3. rec[c] \in RecRecord
  BY <1>1
<1>4. ASSUME RecStartFails(c) PROVE CaptureInv'
  <2>1. /\ rec' = [rec EXCEPT ![c].pc = "backoff", ![c].why = "start"]
        /\ failed' = [failed EXCEPT ![c] = @ \union {"start"}] /\ Fault
        /\ UNCHANGED <<setup, awake, up, producer, attached, child, stopping>>
    BY <1>4 DEF RecStartFails
  <2>2. /\ rec' \in [Camera -> RecRecord] /\ failed' \in [Camera -> SUBSET {"start", "stall"}]
        /\ \A d \in Camera \ {c} : rec'[d] = rec[d] /\ failed'[d] = failed[d]
        /\ rec'[c].pc = "backoff" /\ rec'[c].why = "start" /\ rec'[c].backoff = rec[c].backoff
        /\ failed'[c] = failed[c] \union {"start"}
    BY <1>1, <1>3, <2>1 DEF RecRecord, RecPlace
  <2>3. rec[c].pc = "starting"
    BY <1>4 DEF RecStartFails
  <2>4. RecCareful(c, rec'[c], failed'[c], child[R(c)])
    BY <1>2, <2>2, <2>3 DEF RecCareful
  <2>5. StreamsTypeOK'
    BY <1>1, <2>1, StreamsStay DEF SessionsTyped, ChildrenTyped
  <2>6. NoMoreBut(R(c)) /\ child'[R(c)] = child[R(c)]
    BY <2>1 DEF NoMoreBut, R
  <2> QED BY <2>1, <2>2, <2>4, <2>5, <2>6, RecorderMoves
<1>5. ASSUME RecSpawn(c) PROVE CaptureInv'
  <2>1. /\ rec' = [rec EXCEPT ![c].pc = "spawning"] /\ failed' = failed /\ SpawnChild(R(c))
        /\ UNCHANGED <<setup, awake, up, producer, attached, stopping, faults>>
        /\ rec[c].pc = "starting"
    BY <1>5 DEF RecSpawn, RecGo
  <2>2. /\ rec' \in [Camera -> RecRecord] /\ failed' \in [Camera -> SUBSET {"start", "stall"}]
        /\ \A d \in Camera \ {c} : rec'[d] = rec[d] /\ failed'[d] = failed[d]
        /\ rec'[c].pc = "spawning" /\ rec'[c].why = rec[c].why /\ rec'[c].backoff = rec[c].backoff
    BY <1>1, <1>3, <2>1 DEF RecRecord, RecPlace
  <2>3. ChildrenTyped' /\ NoMoreBut(R(c))
    BY <1>1, <2>1, SpawnTyped, SupervisorsDiffer DEF NoMoreBut
  <2>4. RecCareful(c, rec'[c], failed'[c], child'[R(c)])
    BY <1>2, <2>1, <2>2 DEF RecCareful
  <2>5. StreamsTypeOK'
    BY <1>1, <2>1, <2>3, StreamsStay DEF SessionsTyped
  <2> QED BY <2>1, <2>2, <2>3, <2>4, <2>5, RecorderMoves
<1>6. ASSUME RecSpawned(c) PROVE CaptureInv'
  <2>1. /\ rec' = [rec EXCEPT ![c].pc = "reading"] /\ failed' = failed /\ UNCHANGED streamVars
        /\ rec[c].pc = "spawning"
    BY <1>6 DEF RecSpawned
  <2>2. /\ rec' \in [Camera -> RecRecord] /\ \A d \in Camera \ {c} : rec'[d] = rec[d]
        /\ rec'[c].pc = "reading" /\ rec'[c].why = rec[c].why /\ rec'[c].backoff = rec[c].backoff
    BY <1>1, <1>3, <2>1 DEF RecRecord, RecPlace
  <2>3. RecCareful(c, rec'[c], failed'[c], child[R(c)])
    BY <1>2, <2>1, <2>2 DEF RecCareful
  <2> QED BY <1>1, <2>1, <2>2, <2>3, RecorderGoes
<1>7. ASSUME Segment(c) PROVE CaptureInv'
  <2>1. /\ rec' = [rec EXCEPT ![c].backoff = InitialBackoff]
        /\ failed' = [failed EXCEPT ![c] = {}] /\ UNCHANGED streamVars /\ rec[c].pc = "reading"
    BY <1>7 DEF Segment
  <2>2. /\ rec' \in [Camera -> RecRecord] /\ failed' \in [Camera -> SUBSET {"start", "stall"}]
        /\ \A d \in Camera \ {c} : rec'[d] = rec[d] /\ failed'[d] = failed[d]
        /\ rec'[c].pc = "reading" /\ rec'[c].why = rec[c].why /\ rec'[c].backoff = InitialBackoff
    BY <1>1, <1>3, <2>1 DEF RecRecord, RecPlace
  <2>3. RecCareful(c, rec'[c], failed'[c], child[R(c)])
    BY <1>2, <2>1, <2>2 DEF RecCareful
  <2> QED BY <2>1, <2>2, <2>3, RecorderGoes
<1>8. ASSUME NEW why \in {"exit", "stall"}, rec[c].pc = "reading", ReadEnds(c, why)
      PROVE  CaptureInv'
  <2>1. /\ rec' = [rec EXCEPT ![c].pc = "terminating", ![c].why = why]
        /\ failed' = [failed EXCEPT ![c] = @ \union ({why} \ {"exit"})] /\ UNCHANGED streamVars
    BY <1>8 DEF ReadEnds
  <2>2. /\ rec' \in [Camera -> RecRecord] /\ failed' \in [Camera -> SUBSET {"start", "stall"}]
        /\ \A d \in Camera \ {c} : rec'[d] = rec[d] /\ failed'[d] = failed[d]
        /\ rec'[c].pc = "terminating" /\ rec'[c].why = why /\ rec'[c].backoff = rec[c].backoff
        /\ failed'[c] = failed[c] \union ({why} \ {"exit"})
    BY <1>1, <1>3, <2>1 DEF RecRecord, RecPlace
  <2>3. RecCareful(c, rec'[c], failed'[c], child[R(c)])
    BY <1>2, <2>2 DEF RecCareful
  <2> QED BY <2>1, <2>2, <2>3, RecorderGoes
<1>9. ASSUME RecTerminated(c) PROVE CaptureInv'
  <2>1. /\ rec' = [rec EXCEPT ![c].pc = IF RecStopping THEN "stopped" ELSE "backoff"]
        /\ failed' = failed /\ Reap({R(c)}) /\ rec[c].pc = "terminating"
        /\ UNCHANGED <<setup, awake, up, stopping, faults>>
    BY <1>9 DEF RecTerminated, RecGo
  <2>2. /\ rec' \in [Camera -> RecRecord] /\ \A d \in Camera \ {c} : rec'[d] = rec[d]
        /\ rec'[c].pc \in {"stopped", "backoff"} /\ rec'[c].why = rec[c].why
        /\ rec'[c].backoff = rec[c].backoff
    BY <1>1, <1>3, <2>1 DEF RecRecord, RecPlace
  <2>3. SessionsTyped' /\ ChildrenTyped' /\ NoMore /\ child'[R(c)] = "none"
    BY <1>1, <2>1, ReapTyped, SupervisorsDiffer
  <2>4. RecCareful(c, rec'[c], failed'[c], child'[R(c)])
    BY <1>2, <2>1, <2>2, <2>3 DEF RecCareful
  <2>5. StreamsTypeOK'
    BY <1>1, <2>1, <2>3, StreamsStay
  <2> QED BY <1>1, <2>1, <2>2, <2>3, <2>4, <2>5, RecorderMoves, NoMoreIsNoMoreBut
<1>10. ASSUME RecBackoffOver(c) PROVE CaptureInv'
  <2>1. /\ rec' = [rec EXCEPT ![c].pc = "starting", ![c].why = "exit",
                              ![c].backoff = AtMost(RecCap(c), 2 * @)]
        /\ failed' = failed /\ UNCHANGED streamVars /\ rec[c].pc = "backoff"
    BY <1>10 DEF RecBackoffOver
  <2>2. rec[c].backoff \in InitialBackoff .. StallBackoffMax /\ rec[c].why \in {"start", "exit", "stall"}
    BY <1>3 DEF RecRecord
  <2>3. RecCap(c) \in {BackoffMax, MainsBackoffMax, StallBackoffMax}
    BY DEF RecCap
  <2>4. AtMost(RecCap(c), 2 * rec[c].backoff) \in InitialBackoff .. StallBackoffMax
        /\ AtMost(RecCap(c), 2 * rec[c].backoff) <= RecCap(c)
    BY <2>2, <2>3 DEF AtMost
  <2>5. /\ rec' \in [Camera -> RecRecord] /\ \A d \in Camera \ {c} : rec'[d] = rec[d]
        /\ rec'[c].pc = "starting" /\ rec'[c].why = "exit" /\ rec'[c].backoff <= RecCap(c)
        /\ rec'[c].backoff \in Nat
    <3>1. PICK wait : wait = AtMost(RecCap(c), 2 * rec[c].backoff)
      OBVIOUS
    <3>2. rec' = [rec EXCEPT ![c].pc = "starting", ![c].why = "exit", ![c].backoff = wait]
      BY <2>1, <3>1
    <3>3. wait \in InitialBackoff .. StallBackoffMax /\ wait <= RecCap(c) /\ wait \in Nat
      BY <2>4, <3>1
    <3>4. /\ rec' \in [Camera -> RecRecord] /\ \A d \in Camera \ {c} : rec'[d] = rec[d]
          /\ rec'[c].pc = "starting" /\ rec'[c].why = "exit" /\ rec'[c].backoff = wait
      BY <1>1, <1>3, <3>2, <3>3 DEF RecRecord, RecPlace
    <3> QED BY <3>3, <3>4
  <2>6. rec'[c].backoff > MainsBackoffMax => c \in Battery \/ "start" \in failed[c]
    BY <1>2, <2>5 DEF RecCareful, RecCap
  <2>7. rec'[c].backoff > BackoffMax => c \in Battery /\ "stall" \in failed[c]
    BY <1>2, <2>2, <2>5 DEF RecCareful, RecCap
  <2>8. RecCareful(c, rec'[c], failed'[c], child[R(c)])
    BY <1>2, <2>1, <2>5, <2>6, <2>7 DEF RecCareful
  <2> QED BY <1>1, <2>1, <2>5, <2>8, RecorderGoes
<1>11. ASSUME RecEnds(c) PROVE CaptureInv'
  <2>1. /\ rec' = [rec EXCEPT ![c].pc = "stopped"] /\ failed' = failed /\ UNCHANGED streamVars
        /\ rec[c].pc \in {"starting", "backoff"}
    BY <1>11 DEF RecEnds, RecGo
  <2>2. /\ rec' \in [Camera -> RecRecord] /\ \A d \in Camera \ {c} : rec'[d] = rec[d]
        /\ rec'[c].pc = "stopped" /\ rec'[c].why = rec[c].why /\ rec'[c].backoff = rec[c].backoff
    BY <1>1, <1>3, <2>1 DEF RecRecord, RecPlace
  <2>3. RecCareful(c, rec'[c], failed'[c], child[R(c)])
    BY <1>2, <2>1, <2>2 DEF RecCareful
  <2> QED BY <1>1, <2>1, <2>2, <2>3, RecorderGoes
<1> QED
  BY <1>4, <1>5, <1>6, <1>7, <1>8, <1>9, <1>10, <1>11 DEF RecSteps, ReadTimesOut, RecEof

-----------------------------------------------------------------------------
(* The pipeline's steps.                                                   *)

\* A step of the loop that touches no stream.
LEMMA PipelineGoes ==
  ASSUME CaptureInv, NEW c \in Camera, UNCHANGED <<streamVars, recorderVars, keepWarmVars>>,
         pipe' \in [Camera -> PipeRecord], \A d \in Camera \ {c} : pipe'[d] = pipe[d],
         PipeCareful(c, pipe'[c], child[P(c)])
  PROVE  CaptureInv'
<1>1. StreamsTypeOK' /\ NoMore /\ UNCHANGED <<setup, child>>
  BY StreamsIdle DEF CaptureInv, CaptureTypeOK
<1>2. child'[P(c)] = child[P(c)]
  BY <1>1 DEF P
<1> QED BY <1>1, <1>2, PipelineMoves, NoMoreIsNoMoreBut

LEMMA PipelineStep ==
  ASSUME CaptureInv, NEW c \in Camera, PipeSteps(c) \/ PipeStartFails(c) \/ FrameRead(c),
         UNCHANGED <<recorderVars, keepWarmVars>>
  PROVE  CaptureInv'
<1>1. /\ StreamsTypeOK /\ SessionsTyped /\ ChildrenTyped /\ stopping \subseteq Kind
      /\ awake \subseteq Camera /\ up \in BOOLEAN /\ pipe \in [Camera -> PipeRecord]
  BY StreamsParts DEF CaptureInv, CaptureTypeOK, PipelineTypeOK, PipeRecord
<1>2. PipeCareful(c, pipe[c], child[P(c)])
  BY DEF CaptureInv
<1>3. pipe[c] \in PipeRecord
  BY <1>1
\* How the loop goes on, with the wait and the streak as they were.
<1>4. ASSUME NEW pc \in PipePlace, PipeGo(c, pc)
      PROVE  /\ pipe' \in [Camera -> PipeRecord] /\ \A d \in Camera \ {c} : pipe'[d] = pipe[d]
             /\ pipe'[c].pc = pc /\ pipe'[c].backoff = pipe[c].backoff
             /\ pipe'[c].failures = pipe[c].failures
  BY <1>1, <1>3, <1>4 DEF PipeGo, PipeRecord
<1>5. ASSUME NEW pc \in PipePlace, PipeGo(c, pc), UNCHANGED streamVars,
             child[P(c)] # "none" => pc \in {"spawning", "reading", "busy", "closing"}
      PROVE  CaptureInv'
  <2>1. PipeCareful(c, pipe'[c], child[P(c)])
    BY <1>2, <1>4, <1>5 DEF PipeCareful
  <2> QED BY <1>4, <1>5, <2>1, PipelineGoes
<1>6. ASSUME FailedAgain(c)
      PROVE  /\ pipe' \in [Camera -> PipeRecord] /\ \A d \in Camera \ {c} : pipe'[d] = pipe[d]
             /\ pipe'[c].pc = "backoff" /\ pipe'[c].backoff = pipe[c].backoff
             /\ pipe[c].failures = FailureStreak => pipe'[c].failures = FailureStreak
  <2>1. PICK n : n = AtMost(FailureStreak, pipe[c].failures + 1)
    OBVIOUS
  <2>2. pipe[c].failures \in 0 .. FailureStreak /\ FailureStreak = 3
    BY <1>3 DEF PipeRecord, FailureStreak
  <2>3. n \in 0 .. FailureStreak /\ (pipe[c].failures = FailureStreak => n = FailureStreak)
    BY <2>1, <2>2 DEF AtMost
  <2>4. pipe' = [pipe EXCEPT ![c].pc = "backoff", ![c].failures = n]
    BY <1>6, <2>1 DEF FailedAgain
  <2>5. /\ pipe' \in [Camera -> PipeRecord] /\ \A d \in Camera \ {c} : pipe'[d] = pipe[d]
        /\ pipe'[c].pc = "backoff" /\ pipe'[c].backoff = pipe[c].backoff /\ pipe'[c].failures = n
    BY <1>1, <1>3, <2>3, <2>4 DEF PipeRecord, PipePlace
  <2> QED BY <2>3, <2>5
<1>7. ASSUME PipeSpawn(c) PROVE CaptureInv'
  <2>1. /\ PipeGo(c, "spawning") /\ SpawnChild(P(c)) /\ "spawning" \in PipePlace
        /\ UNCHANGED <<setup, awake, up, producer, attached, stopping, faults>>
    BY <1>7 DEF PipeSpawn, PipePlace
  <2>2. ChildrenTyped' /\ NoMoreBut(P(c))
    BY <1>1, <2>1, SpawnTyped, SupervisorsDiffer DEF NoMoreBut
  <2>3. PipeCareful(c, pipe'[c], child'[P(c)])
    BY <1>2, <1>4, <2>1 DEF PipeCareful
  <2>4. StreamsTypeOK'
    BY <1>1, <2>1, <2>2, StreamsStay DEF SessionsTyped
  <2> QED BY <1>4, <2>1, <2>2, <2>3, <2>4, PipelineMoves
<1>8. ASSUME PipeStartFails(c) PROVE CaptureInv'
  <2>1. /\ FailedAgain(c) /\ Fault /\ pipe[c].pc = "starting"
        /\ UNCHANGED <<setup, awake, up, producer, attached, child, stopping>>
    BY <1>8 DEF PipeStartFails
  <2>2. PipeCareful(c, pipe'[c], child[P(c)])
    BY <1>2, <1>6, <2>1 DEF PipeCareful
  <2>3. NoMoreBut(P(c)) /\ child'[P(c)] = child[P(c)]
    BY <2>1 DEF NoMoreBut, P
  <2>4. StreamsTypeOK'
    BY <1>1, <2>1, StreamsStay DEF SessionsTyped, ChildrenTyped
  <2> QED BY <1>6, <2>1, <2>2, <2>3, <2>4, PipelineMoves
<1>9. ASSUME PipeSpawned(c) \/ FrameDone(c) \/ PipeEof(c) \/ PipeEnds(c) PROVE CaptureInv'
  <2>1. \E pc \in PipePlace :
          /\ PipeGo(c, pc) /\ UNCHANGED streamVars
          /\ child[P(c)] # "none" => pc \in {"spawning", "reading", "busy", "closing"}
    BY <1>2, <1>9 DEF PipeSpawned, FrameDone, PipeEof, PipeEnds, PipePlace, PipeCareful
  <2> QED BY <1>5, <2>1
<1>10. ASSUME FrameRead(c) PROVE CaptureInv'
  <2>1. CASE PipeGo(c, "closing")
    BY <1>5, <1>10, <2>1 DEF FrameRead, PipePlace
  <2>2. ASSUME NEW motion \in BOOLEAN,
               pipe' = [pipe EXCEPT ![c] = [pc |-> IF motion THEN "busy" ELSE "reading",
                                            backoff |-> InitialBackoff, failures |-> 0]]
        PROVE  CaptureInv'
    <3>1. /\ pipe' \in [Camera -> PipeRecord] /\ \A d \in Camera \ {c} : pipe'[d] = pipe[d]
          /\ pipe'[c].pc \in {"busy", "reading"} /\ pipe'[c].backoff = InitialBackoff
      BY <1>1, <2>2 DEF PipeRecord, PipePlace, FailureStreak
    <3>2. PipeCareful(c, pipe'[c], child[P(c)])
      BY <3>1 DEF PipeCareful
    <3> QED BY <1>10, <3>1, <3>2, PipelineGoes DEF FrameRead
  <2> QED BY <1>10, <2>1, <2>2 DEF FrameRead
<1>11. ASSUME PipeClosed(c) PROVE CaptureInv'
  <2>1. /\ Reap({P(c)}) /\ UNCHANGED <<setup, awake, up, stopping, faults>>
        /\ PipeGo(c, "stopped") \/ FailedAgain(c)
    BY <1>11 DEF PipeClosed
  <2>2. SessionsTyped' /\ ChildrenTyped' /\ NoMore /\ child'[P(c)] = "none"
    BY <1>1, <2>1, ReapTyped, SupervisorsDiffer
  <2>3. /\ pipe' \in [Camera -> PipeRecord] /\ \A d \in Camera \ {c} : pipe'[d] = pipe[d]
        /\ pipe'[c].backoff = pipe[c].backoff
        /\ pipe[c].failures = FailureStreak => pipe'[c].failures = FailureStreak
    BY <1>4, <1>6, <2>1 DEF PipePlace
  <2>4. PipeCareful(c, pipe'[c], child'[P(c)])
    BY <1>2, <2>2, <2>3 DEF PipeCareful
  <2>5. StreamsTypeOK'
    BY <1>1, <2>1, <2>2, StreamsStay
  <2> QED BY <2>1, <2>2, <2>3, <2>4, <2>5, PipelineMoves, NoMoreIsNoMoreBut
<1>12. ASSUME PipeBackoffOver(c) PROVE CaptureInv'
  <2>1. PICK wait : wait = AtMost(PipeCap(c), 2 * pipe[c].backoff)
    OBVIOUS
  <2>2. /\ pipe' = [pipe EXCEPT ![c].pc = "starting", ![c].backoff = wait]
        /\ UNCHANGED streamVars /\ pipe[c].pc = "backoff"
    BY <1>12, <2>1 DEF PipeBackoffOver
  <2>3. pipe[c].backoff \in InitialBackoff .. RepeatBackoffMax
    BY <1>3 DEF PipeRecord
  <2>4. /\ wait \in InitialBackoff .. RepeatBackoffMax
        /\ wait > BackoffMax => c \in Battery /\ pipe[c].failures = FailureStreak
    BY <2>1, <2>3 DEF AtMost, PipeCap
  <2>5. /\ pipe' \in [Camera -> PipeRecord] /\ \A d \in Camera \ {c} : pipe'[d] = pipe[d]
        /\ pipe'[c].backoff = wait /\ pipe'[c].failures = pipe[c].failures
    BY <1>1, <1>3, <2>2, <2>4 DEF PipeRecord, PipePlace
  <2>6. PipeCareful(c, pipe'[c], child[P(c)])
    BY <1>2, <2>2, <2>4, <2>5 DEF PipeCareful
  <2> QED BY <2>2, <2>5, <2>6, PipelineGoes
<1> QED
  BY <1>7, <1>8, <1>9, <1>10, <1>11, <1>12 DEF PipeSteps

-----------------------------------------------------------------------------
(* Holders, the order to stop and the world move no recorder or pipeline.  *)

LEMMA HolderStep ==
  ASSUME CaptureInv, NEW c \in Camera, HolderSteps(c) \/ HolderReceives(c),
         UNCHANGED <<recorderVars, pipe>>
  PROVE  CaptureInv'
<1> DEFINE HolderRecord == [pc : HolderPlace, dry : 0 .. DrySessionsBeforeReset - 1, got : BOOLEAN]
<1>1. /\ StreamsTypeOK /\ SessionsTyped /\ ChildrenTyped /\ stopping \subseteq Kind
      /\ awake \subseteq Camera /\ up \in BOOLEAN
      /\ holder \in [Camera -> HolderRecord] /\ mayReset \in BOOLEAN
  BY StreamsParts DEF CaptureInv, CaptureTypeOK, KeepWarmTypeOK
<1>2. holder[c] \in HolderRecord
  BY <1>1
<1>3. ASSUME UNCHANGED child, UNCHANGED <<setup, awake, up, stopping, faults>>,
             SessionsTyped', holder' \in [Camera -> HolderRecord], mayReset' \in BOOLEAN
      PROVE  CaptureInv'
  <2>1. NoMore /\ ChildrenTyped'
    BY <1>1, <1>3 DEF NoMore, ChildrenTyped
  <2>2. StreamsTypeOK'
    BY <1>1, <1>3, <2>1, StreamsStay
  <2>3. KeepWarmTypeOK'
    BY <1>3 DEF KeepWarmTypeOK
  <2> QED BY <1>3, <2>1, <2>2, <2>3, NobodyMoves
<1>4. ASSUME NEW pc \in HolderPlace, HolderGo(c, pc)
      PROVE  holder' \in [Camera -> HolderRecord]
  BY <1>1, <1>2, <1>4 DEF HolderGo
<1>5. ASSUME UNCHANGED streamVars
      PROVE  SessionsTyped' /\ UNCHANGED child /\ UNCHANGED <<setup, awake, up, stopping, faults>>
  BY <1>1, <1>5 DEF streamVars, SessionsTyped
<1>6. CASE HolderConnects(c)
  <2>1. SessionsTyped'
    <3>1. CASE Served(H(c))
      BY <1>1, <1>6, <3>1, AttachTyped, SupervisorsDiffer DEF HolderConnects
    <3>2. CASE ~Served(H(c))
      BY <1>1, <1>6, <3>2 DEF HolderConnects, SessionsTyped
    <3> QED BY <3>1, <3>2
  <2>2. holder' \in [Camera -> HolderRecord]
    BY <1>1, <1>2, <1>6 DEF HolderConnects, HolderPlace
  <2> QED BY <1>1, <1>3, <1>6, <2>1, <2>2 DEF HolderConnects
<1>7. CASE HolderRefused(c) \/ HolderRetries(c)
  <2>1. /\ UNCHANGED <<mayReset, streamVars>>
        /\ \E pc \in HolderPlace : HolderGo(c, pc)
    BY <1>7 DEF HolderRefused, HolderRetries, HolderPlace
  <2> QED BY <1>1, <1>3, <1>4, <1>5, <2>1
<1>8. CASE HolderReceives(c)
  <2>1. holder' \in [Camera -> HolderRecord]
    BY <1>1, <1>2, <1>8 DEF HolderReceives
  <2> QED BY <1>1, <1>3, <1>5, <1>8, <2>1 DEF HolderReceives
<1>9. CASE HolderSessionEnds(c)
  <2>1. PICK silent : silent = IF holder[c].got THEN 0 ELSE holder[c].dry + 1
    OBVIOUS
  <2>2. PICK reset \in BOOLEAN : reset = (silent = DrySessionsBeforeReset)
    OBVIOUS
  <2>3. PICK next : next = [pc |-> IF reset /\ mayReset THEN "resetting" ELSE "wait",
                            dry |-> IF reset THEN 0 ELSE silent, got |-> FALSE]
    OBVIOUS
  <2>4. /\ holder' = [holder EXCEPT ![c] = next] /\ mayReset' = (mayReset /\ ~reset)
        /\ Leave({H(c)}) /\ UNCHANGED <<setup, awake, up, child, stopping, faults>>
        /\ holder[c].pc = "session"
    BY <1>9, <2>1, <2>2, <2>3 DEF HolderSessionEnds
  <2>5. (IF reset THEN 0 ELSE silent) \in 0 .. DrySessionsBeforeReset - 1
    <3>1. holder[c].dry \in 0 .. DrySessionsBeforeReset - 1
      BY <1>2
    <3>2. silent \in 0 .. DrySessionsBeforeReset
      BY <2>1, <3>1 DEF DrySessionsBeforeReset
    <3>3. ~reset => silent # DrySessionsBeforeReset
      BY <2>2
    <3>4. CASE reset
      BY <3>4 DEF DrySessionsBeforeReset
    <3>5. CASE ~reset
      <4>1. silent \in 0 .. DrySessionsBeforeReset - 1
        BY <3>2, <3>3, <3>5 DEF DrySessionsBeforeReset
      <4> QED BY <3>5, <4>1
    <3> QED BY <3>4, <3>5
  <2>6. next \in HolderRecord
    BY <2>3, <2>5 DEF HolderPlace
  <2>7. holder' \in [Camera -> HolderRecord] /\ mayReset' \in BOOLEAN
    BY <1>1, <2>4, <2>6
  <2>8. SessionsTyped'
    BY <1>1, <2>4, LeaveTyped
  <2> QED BY <1>3, <2>4, <2>7, <2>8
<1>10. CASE ResetGateway(c)
  <2>1. holder' \in [Camera -> HolderRecord]
    BY <1>4, <1>10 DEF ResetGateway, HolderPlace
  <2>2. SessionsTyped'
    <3>1. CASE up
      BY <1>1, <1>10, <3>1, LeaveTyped DEF ResetGateway, DropAll
    <3>2. CASE ~up
      BY <1>1, <1>10, <3>2 DEF ResetGateway, SessionsTyped
    <3> QED BY <3>1, <3>2
  <2> QED BY <1>1, <1>3, <1>10, <2>1, <2>2 DEF ResetGateway
<1> QED
  BY <1>6, <1>7, <1>8, <1>9, <1>10 DEF HolderSteps

LEMMA StopStep ==
  ASSUME CaptureInv, CaptureStops
  PROVE  CaptureInv'
<1>1. /\ StreamsTypeOK /\ SessionsTyped /\ ChildrenTyped /\ stopping \subseteq Kind
      /\ awake \subseteq Camera /\ up \in BOOLEAN /\ KeepWarmTypeOK
  BY StreamsParts DEF CaptureInv, CaptureTypeOK
<1>2. CASE PipeStop /\ UNCHANGED <<recorderVars, keepWarmVars>>
  <2>1. /\ stopping' = stopping \union {"pipeline"} /\ UNCHANGED <<pipe, setup, awake, up, faults>>
        /\ \E K : Reap(K)
    BY <1>2 DEF PipeStop
  <2>2. SessionsTyped' /\ ChildrenTyped' /\ NoMore
    BY <1>1, <2>1, ReapTyped
  <2>3. StreamsTypeOK'
    BY <1>1, <2>1, <2>2, StreamsStay DEF Kind
  <2> QED BY <1>1, <1>2, <2>1, <2>2, <2>3, NobodyMoves DEF KeepWarmTypeOK, keepWarmVars
<1>3. CASE RecStop /\ UNCHANGED <<pipe, keepWarmVars>>
  <2>1. /\ stopping' = stopping \union {"recorder"}
        /\ UNCHANGED <<rec, failed, setup, awake, up, faults>> /\ \E K : Reap(K)
    BY <1>3 DEF RecStop
  <2>2. SessionsTyped' /\ ChildrenTyped' /\ NoMore
    BY <1>1, <2>1, ReapTyped
  <2>3. StreamsTypeOK'
    BY <1>1, <2>1, <2>2, StreamsStay DEF Kind
  <2> QED
    BY <1>1, <1>3, <2>1, <2>2, <2>3, NobodyMoves DEF KeepWarmTypeOK, keepWarmVars, recorderVars
<1>4. CASE HoldersStop /\ UNCHANGED <<pipe, recorderVars>>
  <2>1. /\ stopping' = stopping \union {"holder"} /\ UNCHANGED <<mayReset, setup, awake, up, child, faults>>
        /\ \E K : Leave(K)
    BY <1>4 DEF HoldersStop
  <2>2. SessionsTyped' /\ ChildrenTyped' /\ NoMore
    BY <1>1, <2>1, LeaveTyped DEF ChildrenTyped, NoMore
  <2>3. StreamsTypeOK'
    BY <1>1, <2>1, <2>2, StreamsStay DEF Kind
  <2>4. KeepWarmTypeOK'
    BY <1>1, <1>4 DEF HoldersStop, KeepWarmTypeOK, HolderPlace, DrySessionsBeforeReset
  <2> QED BY <1>4, <2>1, <2>2, <2>3, <2>4, NobodyMoves
<1> QED BY <1>2, <1>3, <1>4 DEF CaptureStops

LEMMA WorldStep ==
  ASSUME CaptureInv, CaptureWorld
  PROVE  CaptureInv'
<1>1. /\ StreamsTypeOK /\ SessionsTyped /\ ChildrenTyped /\ stopping \subseteq Kind
      /\ awake \subseteq Camera /\ up \in BOOLEAN /\ KeepWarmTypeOK
  BY StreamsParts DEF CaptureInv, CaptureTypeOK
<1>2. UNCHANGED <<recorderVars, pipe, keepWarmVars>> /\ KeepWarmTypeOK'
  BY <1>1 DEF CaptureWorld, KeepWarmTypeOK, keepWarmVars
<1>3. ASSUME SessionsTyped', ChildrenTyped', NoMore, awake' \subseteq Camera, up' \in BOOLEAN,
             UNCHANGED <<setup, stopping>>, Fault \/ UNCHANGED faults
      PROVE  CaptureInv'
  BY <1>1, <1>2, <1>3, StreamsStay, NobodyMoves
<1>4. CASE GatewayFails
  <2>1. SessionsTyped' /\ ChildrenTyped' /\ NoMore
    BY <1>1, <1>4, LeaveTyped DEF GatewayFails, DropAll, ChildrenTyped, NoMore
  <2> QED BY <1>1, <1>3, <1>4, <2>1 DEF GatewayFails
<1>5. CASE GatewayReturns
  BY <1>1, <1>3, <1>5 DEF GatewayReturns, SessionsTyped, ChildrenTyped, NoMore
<1>6. ASSUME NEW c \in Camera, Wake(c) PROVE CaptureInv'
  BY <1>1, <1>3, <1>6 DEF Wake, SessionsTyped, ChildrenTyped, NoMore
<1>7. ASSUME NEW c \in Camera, HangUp(c) PROVE CaptureInv'
  <2>1. /\ Fault /\ UNCHANGED <<setup, up, child, stopping>>
        /\ \E hung, zombies :
             /\ producer' = [s \in Stream |->
                  IF s \in zombies THEN "zombie" ELSE IF s \in hung THEN "none" ELSE producer[s]]
             /\ attached' = {k \in attached : StreamOf(k) \notin hung \ zombies}
             /\ awake' \subseteq awake
    BY <1>7 DEF HangUp
  <2>2. SessionsTyped'
    BY <1>1, <2>1 DEF SessionsTyped
  <2>3. ChildrenTyped' /\ NoMore /\ awake' \subseteq Camera
    BY <1>1, <2>1 DEF ChildrenTyped, NoMore
  <2> QED BY <1>1, <1>3, <2>1, <2>2, <2>3
<1>8. ASSUME NEW k \in Supervisor, ChildConnects(k) PROVE CaptureInv'
  <2>1. k \in Consumer
    BY DEF Supervisor, Consumer, Kind
  <2>2. SessionsTyped'
    BY <1>1, <1>8, <2>1, AttachTyped DEF ChildConnects
  <2>3. ChildrenTyped' /\ NoMore
    BY <1>1, <1>8 DEF ChildConnects, ChildrenTyped, NoMore
  <2> QED BY <1>1, <1>3, <1>8, <2>2, <2>3 DEF ChildConnects
<1>9. ASSUME NEW k \in Supervisor, ChildExits(k) PROVE CaptureInv'
  <2>1. SessionsTyped' /\ ChildrenTyped' /\ NoMore
    BY <1>1, <1>9 DEF ChildExits, SessionsTyped, ChildrenTyped, NoMore
  <2> QED BY <1>1, <1>3, <1>9, <2>1 DEF ChildExits
<1>10. ASSUME NEW k \in Supervisor, ChildCrashes(k) PROVE CaptureInv'
  <2>1. Reap({k}) /\ Fault /\ UNCHANGED <<setup, awake, up, stopping>>
    BY <1>10 DEF ChildCrashes
  <2>2. SessionsTyped' /\ ChildrenTyped' /\ NoMore
    BY <1>1, <2>1, ReapTyped
  <2> QED BY <1>1, <1>3, <2>1, <2>2
<1> QED
  BY <1>4, <1>5, <1>6, <1>7, <1>8, <1>9, <1>10 DEF CaptureWorld, WorldNext

-----------------------------------------------------------------------------
LEMMA CaptureStep == CaptureInv /\ [CaptureNext]_captureVars => CaptureInv'
<1> SUFFICES ASSUME CaptureInv, [CaptureNext]_captureVars PROVE CaptureInv'
  OBVIOUS
<1>1. CASE RecorderNext /\ UNCHANGED <<pipe, keepWarmVars>>
  BY <1>1, RecorderStep DEF RecorderNext
<1>2. CASE PipelineNext /\ UNCHANGED <<recorderVars, keepWarmVars>>
  BY <1>2, PipelineStep DEF PipelineNext
<1>3. CASE KeepWarmNext /\ UNCHANGED <<recorderVars, pipe>>
  <2>1. CASE IntervalPasses
    <3>1. StreamsTypeOK' /\ NoMore /\ UNCHANGED setup
      BY <2>1, StreamsIdle DEF IntervalPasses, CaptureInv, CaptureTypeOK
    <3>2. KeepWarmTypeOK'
      BY <2>1 DEF IntervalPasses, CaptureInv, CaptureTypeOK, KeepWarmTypeOK
    <3> QED BY <1>3, <3>1, <3>2, NobodyMoves
  <2> QED BY <1>3, <2>1, HolderStep DEF KeepWarmNext
<1>4. CASE UNCHANGED captureVars
  <2>1. UNCHANGED <<streamVars, recorderVars, pipe, keepWarmVars>>
    BY <1>4 DEF captureVars
  <2>2. StreamsTypeOK' /\ NoMore /\ UNCHANGED setup
    BY <2>1, StreamsIdle DEF CaptureInv, CaptureTypeOK
  <2>3. KeepWarmTypeOK'
    BY <2>1 DEF CaptureInv, CaptureTypeOK, KeepWarmTypeOK, keepWarmVars
  <2> QED BY <2>1, <2>2, <2>3, NobodyMoves
<1> QED
  BY <1>1, <1>2, <1>3, <1>4, StopStep, WorldStep DEF CaptureNext

LEMMA CaptureStart == CaptureInit => CaptureInv
<1> SUFFICES ASSUME CaptureInit PROVE CaptureInv
  OBVIOUS
<1>1. StreamsTypeOK
  <2>1. setup \in Setups /\ setup.faults \in Nat /\ faults = setup.faults
    BY DEF CaptureInit, StreamsInit
  <2> QED BY <2>1 DEF CaptureInit, StreamsInit, StreamsTypeOK
<1>2. RecorderTypeOK /\ PipelineTypeOK /\ KeepWarmTypeOK
  <2>1. RecorderTypeOK
    BY DEF CaptureInit, RecorderInit, RecorderTypeOK, RecPlace
  <2>2. PipelineTypeOK
    BY DEF CaptureInit, PipelineInit, PipelineTypeOK, PipePlace, FailureStreak
  <2>3. KeepWarmTypeOK
    <3>1. 0 \in 0 .. DrySessionsBeforeReset - 1
      BY DEF DrySessionsBeforeReset
    <3> QED BY <3>1 DEF CaptureInit, KeepWarmInit, KeepWarmTypeOK, HolderPlace
  <2> QED BY <2>1, <2>2, <2>3
<1>3. ASSUME NEW c \in Camera
      PROVE  RecCareful(c, rec[c], failed[c], child[R(c)]) /\ PipeCareful(c, pipe[c], child[P(c)])
  <2>1. /\ rec[c].backoff = InitialBackoff /\ rec[c].why = "exit" /\ pipe[c].backoff = InitialBackoff
        /\ child[R(c)] = "none" /\ child[P(c)] = "none"
    BY SupervisorsDiffer DEF CaptureInit, RecorderInit, PipelineInit, StreamsInit
  <2> QED BY <2>1 DEF RecCareful, PipeCareful
<1> QED BY <1>1, <1>2, <1>3 DEF CaptureInv, CaptureTypeOK

LEMMA CaptureInvariant == CaptureSpec => []CaptureInv
BY CaptureStart, CaptureStep, PTL DEF CaptureSpec

\* The state of the capture chain keeps its types and bounds, whatever fails and
\* however long it runs: streams, children, backoffs, streaks, silent sessions.
THEOREM CaptureKeepsTypes == CaptureSpec => []CaptureTypeOK
<1>1. CaptureInv => CaptureTypeOK
  BY DEF CaptureInv
<1> QED BY <1>1, CaptureInvariant, PTL

\* No ffmpeg child is without a task that will reap it (recorder.py 294,
\* decode.py 95-125), whichever of its steps a failure or a stop falls between.
THEOREM ChildrenAreReaped == CaptureSpec => []NoOrphans
<1>1. CaptureInv => NoOrphans
  BY DEF CaptureInv, RecCareful, PipeCareful, NoOrphans
<1> QED BY <1>1, CaptureInvariant, PTL

\* Every long wait of a recorder or pipeline is one its power profile and the
\* failures since its last segment or frame allow (recorder.py 53-61, runner.py 266-275).
THEOREM WaitsAreJustified == CaptureSpec => []BackoffJustified
<1>1. CaptureInv => BackoffJustified
  BY DEF CaptureInv, RecCareful, PipeCareful, BackoffJustified
<1> QED BY <1>1, CaptureInvariant, PTL
=============================================================================
