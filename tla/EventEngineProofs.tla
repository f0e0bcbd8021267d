-------------------------- MODULE EventEngineProofs --------------------------
(***************************************************************************)
(* What holds of EventEngine for every set of cameras, zones, policies,    *)
(* track lists and bounds: it implements EventLife, dismissed events cost  *)
(* nothing, events are told in full, and the three sensitivities are       *)
(* ordered.                                                                *)
(*                                                                         *)
(* The inductive invariant Inv says who may touch an event when:           *)
(*   OpenOnes  an open event belongs to its camera and has not ended;      *)
(*   OwnWork   only an event's own camera stores, photographs and          *)
(*             announces it first, and until it has, nobody else has;      *)
(*   Closing   an event is closed by one caller only;                      *)
(*   Retrying  only confirmed events are photographed again;               *)
(*   Quiet     of an event that is not confirmed nothing has been said.    *)
(* While nothing fails or crashes, ToldInv holds as well (its section).    *)
(***************************************************************************)
EXTENDS EventEngine, SequenceTheorems, TLAPS

OpenOnes ==
  \A c \in Camera : open[c] # None =>
    /\ event[open[c]].camera = c
    /\ event[open[c]].state # "unborn" /\ ~event[open[c]].ended

OwnWork ==
  \A p \in Caller :
    /\ call[p].pc = "promote" => p \in Camera
    /\ call[p].pc \in {"insert", "confirmRow", "snapshot", "snapshotRow"} =>
         /\ p \in Camera
         /\ call[p].on \in EventId
         /\ event[call[p].on].camera = p
         /\ event[call[p].on].state # "unborn"
         /\ call[p].pc # "insert" => event[call[p].on].state = "confirmed"
         /\ said[call[p].on]["confirmed"] = 0
         /\ call[p].pc \in {"insert", "confirmRow"} =>
              event[call[p].on].attempts <= SnapshotMaxAttempts

Closing ==
  \A p \in Caller : call[p].pc \in {"closeRow", "upgrade"} =>
    /\ call[p].on \in EventId
    /\ event[call[p].on].ended /\ event[call[p].on].state # "unborn"
    /\ said[call[p].on]["ended"] = 0
    /\ call[p].pc = "upgrade" => event[call[p].on].state = "confirmed"
    /\ \A q \in Caller \ {p} :
         call[q].pc \in {"closeRow", "upgrade"} => call[q].on # call[p].on

Retrying ==
  \A p \in Caller : call[p].pc \in {"retrySnapshot", "retryRow"} =>
    call[p].on \in EventId /\ event[call[p].on].state = "confirmed"

Quiet ==
  \A e \in EventId :
    /\ event[e].state # "confirmed" =>
         /\ e \notin footage
         /\ said[e] = [t \in Topic |-> 0]
         /\ event[e].attempts = 0 /\ ~row[e].snapshot
    /\ ~event[e].ended => said[e]["ended"] = 0
    /\ event[e].state = "unborn" => ~event[e].ended

Inv == TypeOK /\ OpenOnes /\ OwnWork /\ Closing /\ Retrying /\ Quiet

-----------------------------------------------------------------------------
\* The presets are ordered: what relaxed promotes, balanced promotes, and what
\* balanced promotes, paranoid promotes (engine.py:88-91).
THEOREM PresetsAreOrdered ==
  ASSUME NEW track \in Track, NEW cascade \in Cascade, NEW kinds
  PROVE  /\ Promotes(track, kinds, cascade, "relaxed") =>
              Promotes(track, kinds, cascade, "balanced")
         /\ Promotes(track, kinds, cascade, "balanced") =>
              Promotes(track, kinds, cascade, "paranoid")
<1>1. track.dwell \in Nat /\ cascade.dwell \in Nat
  BY DEF Track, Cascade
<1>2. Dwells(track, cascade, "balanced") => Dwells(track, cascade, "paranoid")
  BY <1>1 DEF Dwells
<1>. QED
  BY <1>2 DEF Promotes

\* A track in public zones only, or in none, never promotes where there is a
\* public zone, whatever the policies (engine.py:8-10).
THEOREM PassersByStaySuppressed ==
  ASSUME NEW track, NEW kinds, NEW cascade, NEW policies, HasPublicZone(kinds),
         track.zones \subseteq {z \in DOMAIN kinds : kinds[z] = "public"}
  PROVE  Verdict(track, kinds, cascade, policies) = "none"
<1>1. IsSuppressed(track, kinds)
  BY DEF IsSuppressed, KindsOf
<1>. QED
  BY <1>1 DEF Verdict

-----------------------------------------------------------------------------
LEMMA InitInv == Init => Inv
<1> SUFFICES ASSUME Init PROVE Inv
  OBVIOUS
<1> USE EngineAssumption DEF Init
<1>1. Idle \in Call
  BY DEF Idle, Call, Place
<1>2. Unborn \in EventObject /\ NoRow \in EventRow
  BY DEF Unborn, EventObject, NoRow, EventRow
<1>3. TypeOK
  BY <1>1, <1>2 DEF TypeOK
<1>4. OpenOnes /\ OwnWork /\ Closing /\ Retrying
  BY DEF OpenOnes, OwnWork, Closing, Retrying, Idle
<1>5. Quiet
  BY DEF Quiet, Unborn, NoRow, Topic
<1>. QED
  BY <1>3, <1>4, <1>5 DEF Inv

-----------------------------------------------------------------------------
(* A call stays a call wherever it goes on.                                *)
LEMMA CallsGoOn ==
  ASSUME TypeOK, NEW p \in Caller, NEW pc \in Place
  PROVE  /\ call[p] \in Call
         /\ At(p, pc) \in Call /\ LoopAt(p, pc) \in Call /\ OnwardAt(p, pc) \in Call
         /\ At(p, pc).pc = pc /\ LoopAt(p, pc).pc = pc /\ OnwardAt(p, pc).pc = pc
         /\ At(p, pc).on = call[p].on
         /\ Idle \in Call
<1>1. call[p] \in Call
  BY DEF TypeOK
<1>2. Len(known) \in Nat
  BY DEF TypeOK
<1>3. call[p].place + 1 \in Nat
  BY <1>1 DEF Call
<1>4. Idle \in Call
  BY EngineAssumption DEF Idle, Call, Place
<1>. QED
  BY <1>1, <1>2, <1>3, <1>4 DEF At, LoopAt, OnwardAt, Call

\* A caller that moves to a place where it owns nothing leaves the invariant
\* alone, when the events and what was said of them stay.
Roaming == {"idle", "detecting", "promote", "retry", "close"}

SameStanding ==
  \A e \in EventId :
    /\ event'[e].camera = event[e].camera /\ event'[e].state = event[e].state
    /\ event'[e].ended = event[e].ended /\ event'[e].attempts = event[e].attempts

NoEarlyPictures ==
  \A e \in EventId : event[e].state # "confirmed" => row'[e].snapshot = row[e].snapshot

LEMMA JoiningIsHarmless ==
  ASSUME Inv, NEW p \in Caller, NEW r,
         call' = [call EXCEPT ![p] = r],
         r.pc \in Roaming, r.pc = "promote" => p \in Camera,
         SameStanding, NoEarlyPictures, UNCHANGED <<open, said, footage>>
  PROVE  OpenOnes' /\ OwnWork' /\ Closing' /\ Retrying' /\ Quiet'
<1>1. /\ call'[p] = r
      /\ \A q \in Caller \ {p} : call'[q] = call[q]
  BY DEF Inv, TypeOK
<1>2. \A c \in Camera : open[c] # None => open[c] \in EventId
  BY DEF Inv, TypeOK
<1>3. OpenOnes'
  BY <1>2 DEF Inv, OpenOnes, SameStanding
<1>4. Quiet'
  BY DEF Inv, Quiet, SameStanding, NoEarlyPictures
<1>5. OwnWork'
  BY <1>1 DEF Inv, OwnWork, Roaming, SameStanding
<1>6. Closing'
  BY <1>1 DEF Inv, Closing, Roaming, SameStanding
<1>7. Retrying'
  BY <1>1 DEF Inv, Retrying, Roaming, SameStanding
<1>. QED
  BY <1>3, <1>4, <1>5, <1>6, <1>7

LEMMA RoamingIsHarmless ==
  ASSUME Inv, NEW p \in Caller, NEW r,
         call' = [call EXCEPT ![p] = r],
         r.pc \in Roaming, r.pc = "promote" => p \in Camera,
         UNCHANGED <<open, event, said, row, footage>>
  PROVE  OpenOnes' /\ OwnWork' /\ Closing' /\ Retrying' /\ Quiet'
<1>1. SameStanding /\ NoEarlyPictures
  BY DEF SameStanding, NoEarlyPictures
<1>. QED
  BY <1>1, JoiningIsHarmless

LEMMA FrameInv == ASSUME Inv, NEW c \in Camera, Frame(c) PROVE Inv'
<1> DEFINE r == [Idle EXCEPT !.pc = "detecting", !.ts = now]
<1>1. r \in Call /\ r.pc = "detecting"
  <2>1. Idle \in Call
    BY EngineAssumption DEF Idle, Call, Place
  <2>. QED
    BY <2>1 DEF Inv, TypeOK, Call, Place
<1>2. call' = [call EXCEPT ![c] = r] /\ running' = None
  BY DEF Frame, Await
<1>3. UNCHANGED <<now, memVars, dbVars, said, dbQueue, faults, restarts>>
  BY DEF Frame
<1>4. TypeOK'
  BY <1>1, <1>2, <1>3 DEF Inv, TypeOK, memVars, dbVars
<1>. HIDE DEF r
<1>. QED
  BY <1>1, <1>2, <1>3, <1>4, RoamingIsHarmless DEF Inv, Caller, Roaming, memVars, dbVars

LEMMA PassOverInv == ASSUME Inv, NEW c \in Camera, PassOver(c) PROVE Inv'
<1>1. /\ running = c /\ call[c].pc = "promote"
      /\ UNCHANGED <<now, memVars, dbVars, said, dbQueue, faults, restarts>>
  BY DEF PassOver
<1>2. c \in Caller
  BY DEF Caller
<1>3. PICK r \in Call :
        RunOn(c, r) /\ r.pc \in {"promote", "retry"}
  <2>1. CASE call[c].batch = <<>>
    <3>1. LoopAt(c, "retry") \in Call /\ call[c] \in Call
      BY <1>2, CallsGoOn DEF Inv, Place
    <3>. QED
      BY <2>1, <3>1 DEF PassOver, LoopAt, Call
  <2>2. CASE call[c].batch # <<>>
    <3>1. call[c] \in Call
      BY <1>2 DEF Inv, TypeOK
    <3>2. Tail(call[c].batch) \in Seq(Track)
      BY <2>2, <3>1, HeadTailProperties DEF Call
    <3>3. [call[c] EXCEPT !.batch = Tail(@)] \in Call
      BY <3>1, <3>2 DEF Call
    <3>. QED
      BY <1>1, <2>2, <3>1, <3>3 DEF PassOver, Call
  <2>. QED
    BY <2>1, <2>2
<1>4. TypeOK'
  BY <1>1, <1>2, <1>3 DEF Inv, TypeOK, RunOn, memVars, dbVars
<1>. QED
  BY <1>1, <1>2, <1>3, <1>4, RoamingIsHarmless DEF Inv, RunOn, Roaming, memVars, dbVars

LEMMA CallFailsInv == ASSUME Inv, NEW p \in Caller, CallFails(p) PROVE Inv'
<1>1. /\ Idle \in Call /\ Idle.pc = "idle"
  BY CallsGoOn DEF Inv, Idle, Place
<1>2. /\ call' = [call EXCEPT ![p] = Idle] /\ running' = None
      /\ faults < MaxFaults /\ faults' = faults + 1
      /\ dbQueue # <<>> /\ dbQueue' = Tail(dbQueue)
      /\ UNCHANGED <<now, memVars, dbVars, said, restarts>>
  BY DEF CallFails, Await, Served, Foremost
<1>3. faults' \in 0 .. MaxFaults
  BY <1>2, EngineAssumption DEF Inv, TypeOK
<1>4. dbQueue' \in Seq(Caller)
  BY <1>2, HeadTailProperties DEF Inv, TypeOK
<1>5. TypeOK'
  BY <1>1, <1>2, <1>3, <1>4 DEF Inv, TypeOK, memVars, dbVars
<1>. QED
  BY <1>1, <1>2, <1>5, RoamingIsHarmless DEF Inv, Roaming, memVars, dbVars

LEMMA TickInv == ASSUME Inv, Tick PROVE Inv'
<1>1. Ticker \in Caller
  BY DEF Caller
<1>2. PICK r \in Call : RunOn(Ticker, r) /\ r.pc = "retry"
  <2>1. LoopAt(Ticker, "retry") \in Call /\ LoopAt(Ticker, "retry").pc = "retry"
    BY <1>1, CallsGoOn DEF Inv, Place
  <2>2. now \in 0 .. MaxNow
    BY DEF Inv, TypeOK
  <2>. QED
    BY <2>1, <2>2 DEF Tick, Call
<1>3. UNCHANGED <<now, memVars, dbVars, said, dbQueue, faults, restarts>>
  BY DEF Tick
<1>4. TypeOK'
  BY <1>1, <1>2, <1>3 DEF Inv, TypeOK, RunOn, memVars, dbVars
<1>. QED
  BY <1>1, <1>2, <1>3, <1>4, RoamingIsHarmless DEF Inv, RunOn, Roaming, memVars, dbVars

LEMMA LoopBreaksInv == ASSUME Inv, NEW p \in Caller, LoopBreaks(p) PROVE Inv'
<1>1. /\ Idle \in Call /\ Idle.pc = "idle"
  BY CallsGoOn DEF Inv, Idle, Place
<1>2. /\ call' = [call EXCEPT ![p] = Idle] /\ running' = None
      /\ UNCHANGED <<now, memVars, dbVars, said, dbQueue, faults, restarts>>
  BY DEF LoopBreaks, Await
<1>3. TypeOK'
  BY <1>1, <1>2 DEF Inv, TypeOK, memVars, dbVars
<1>. QED
  BY <1>1, <1>2, <1>3, RoamingIsHarmless DEF Inv, Roaming, memVars, dbVars

LEMMA LoopEndsInv == ASSUME Inv, NEW p \in Caller, LoopEnds(p) PROVE Inv'
<1>1. PICK r \in Call, u \in Caller \union {None} :
        /\ r.pc \in {"idle", "close"}
        /\ call' = [call EXCEPT ![p] = r] /\ running' = u
  <2>1. Idle \in Call /\ Idle.pc = "idle"
    BY CallsGoOn DEF Inv, Idle, Place
  <2>2. LoopAt(p, "close") \in Call /\ LoopAt(p, "close").pc = "close"
    BY CallsGoOn DEF Inv, Place
  <2>. QED
    BY <2>1, <2>2 DEF LoopEnds, RunOn, Await
<1>2. UNCHANGED <<now, memVars, dbVars, said, dbQueue, faults, restarts>>
  BY DEF LoopEnds
<1>3. TypeOK'
  BY <1>1, <1>2 DEF Inv, TypeOK, memVars, dbVars
<1>. QED
  BY <1>1, <1>2, <1>3, RoamingIsHarmless DEF Inv, Roaming, memVars, dbVars

LEMMA AdvanceInv == ASSUME Inv, Advance PROVE Inv'
<1>1. /\ now' \in 0 .. MaxNow
      /\ UNCHANGED <<memVars, dbVars, said, call, running, dbQueue, faults, restarts>>
  BY EngineAssumption DEF Advance, Inv, TypeOK
<1>2. TypeOK'
  BY <1>1 DEF Inv, TypeOK, memVars, dbVars
<1>3. OpenOnes' /\ OwnWork' /\ Closing' /\ Retrying' /\ Quiet'
  BY <1>1 DEF Inv, OpenOnes, OwnWork, Closing, Retrying, Quiet, memVars, dbVars
<1>. QED
  BY <1>2, <1>3 DEF Inv

LEMMA CrashInv == ASSUME Inv, Crash PROVE Inv'
<1>1. /\ restarts' \in 0 .. MaxRestarts
      /\ known' = <<>> /\ open' = [c \in Camera |-> None]
      /\ call' = [p \in Caller |-> Idle] /\ dbQueue' = <<>>
      /\ UNCHANGED <<now, event, dbVars, said, running, faults>>
  BY EngineAssumption DEF Crash, Inv, TypeOK
<1>2. Idle \in Call /\ Idle.pc = "idle"
  BY EngineAssumption DEF Idle, Call, Place
<1>3. TypeOK'
  BY <1>1, <1>2 DEF Inv, TypeOK, dbVars
<1>4. OpenOnes' /\ OwnWork' /\ Closing' /\ Retrying' /\ Quiet'
  BY <1>1, <1>2 DEF Inv, OpenOnes, OwnWork, Closing, Retrying, Quiet, dbVars
<1>. QED
  BY <1>3, <1>4 DEF Inv

-----------------------------------------------------------------------------
(* What the engine does with the tracks.                                   *)

LEMMA DetectedInv == ASSUME Inv, NEW c \in Camera, Detected(c) PROVE Inv'
<1>1. c \in Caller /\ call[c] \in Call
  BY DEF Caller, Inv, TypeOK
<1>2. PICK batch \in Batches :
        /\ event' =
             IF open[c] # None /\ \E i \in 1 .. Len(batch) : batch[i].id \in event[open[c]].tracks
               THEN [event EXCEPT ![open[c]].lastSeen = call[c].ts]
               ELSE event
        /\ RunOn(c, [call[c] EXCEPT !.pc = "promote", !.batch = batch])
  BY DEF Detected
<1>3. /\ UNCHANGED <<now, open, dbVars, said, dbQueue, faults, restarts>>
      /\ known' = IF \E i \in 1 .. Len(known) : known[i] = c THEN known ELSE Append(known, c)
  BY DEF Detected
<1>4. SameStanding /\ event' \in [EventId -> EventObject]
  <2>1. open[c] # None => open[c] \in EventId
    BY DEF Inv, TypeOK
  <2>2. event \in [EventId -> EventObject] /\ call[c].ts \in 0 .. MaxNow
    BY <1>1 DEF Inv, TypeOK, Call
  <2>3. CASE open[c] # None /\ event' = [event EXCEPT ![open[c]].lastSeen = call[c].ts]
    <3>1. event[open[c]] \in EventObject
      BY <2>1, <2>2, <2>3
    <3>2. [event[open[c]] EXCEPT !.lastSeen = call[c].ts] \in EventObject
      BY <2>2, <3>1 DEF EventObject
    <3>3. event' = [event EXCEPT ![open[c]] = [event[open[c]] EXCEPT !.lastSeen = call[c].ts]]
      BY <2>3
    <3>. QED
      BY <2>1, <2>2, <2>3, <3>1, <3>2, <3>3 DEF SameStanding, EventObject
  <2>4. CASE event' = event
    BY <2>2, <2>4 DEF SameStanding
  <2>. QED
    BY <1>2, <2>3, <2>4
<1>5. PICK r \in Call : RunOn(c, r) /\ r.pc = "promote"
  <2>1. batch \in Seq(Track)
    BY EngineAssumption
  <2>2. /\ [call[c] EXCEPT !.pc = "promote", !.batch = batch] \in Call
        /\ [call[c] EXCEPT !.pc = "promote", !.batch = batch].pc = "promote"
    BY <1>1, <2>1 DEF Call, Place
  <2>. QED
    BY <1>2, <2>2
<1>6. known' \in Seq(Camera)
  BY <1>3 DEF Inv, TypeOK
<1>7. TypeOK'
  BY <1>1, <1>3, <1>4, <1>5, <1>6 DEF Inv, TypeOK, RunOn, dbVars
<1>. QED
  BY <1>1, <1>3, <1>4, <1>5, <1>7, JoiningIsHarmless
  DEF Inv, RunOn, Roaming, NoEarlyPictures, dbVars

\* The head of a batch is a track, what is left are tracks.
LEMMA BatchesAreTracks ==
  ASSUME TypeOK, NEW c \in Camera, Promoting(c)
  PROVE  /\ c \in Caller /\ call[c] \in Call /\ call[c].pc = "promote"
         /\ Head(call[c].batch).id \in Nat
         /\ Tail(call[c].batch) \in Seq(Track)
<1>1. c \in Caller /\ call[c] \in Call /\ call[c].pc = "promote" /\ call[c].batch # <<>>
  BY DEF Caller, TypeOK, Promoting
<1>2. Head(call[c].batch) \in Track /\ Tail(call[c].batch) \in Seq(Track)
  BY <1>1, HeadTailProperties DEF Call
<1>. QED
  BY <1>1, <1>2 DEF Track

\* The event a track joins keeps its standing.
LEMMA JoinedEvent ==
  ASSUME Inv, NEW c \in Camera, Promoting(c), open[c] # None
  PROVE  /\ open[c] \in EventId /\ Joined(c) \in EventObject
         /\ Joined(c).camera = c /\ Joined(c).state = event[open[c]].state
         /\ Joined(c).ended = event[open[c]].ended
         /\ Joined(c).attempts = event[open[c]].attempts
<1>1. open[c] \in EventId /\ event[open[c]] \in EventObject /\ event[open[c]].camera = c
  BY DEF Inv, TypeOK, OpenOnes
<1>2. call[c].ts \in 0 .. MaxNow /\ Head(call[c].batch).id \in Nat
  BY BatchesAreTracks DEF Inv, Call
<1>. QED
  BY <1>1, <1>2 DEF Joined, EventObject

LEMMA ExtendInv == ASSUME Inv, NEW c \in Camera, Extend(c) PROVE Inv'
<1>1. /\ Promoting(c) /\ open[c] # None
      /\ event' = [event EXCEPT ![open[c]] = Joined(c)]
      /\ RunOn(c, [call[c] EXCEPT !.batch = Tail(@)])
      /\ UNCHANGED <<now, known, open, dbVars, said, dbQueue, faults, restarts>>
  BY DEF Extend
<1>2. /\ c \in Caller /\ call[c] \in Call /\ call[c].pc = "promote"
      /\ Tail(call[c].batch) \in Seq(Track)
  BY <1>1, BatchesAreTracks DEF Inv
<1>3. SameStanding /\ event' \in [EventId -> EventObject]
  <2>1. /\ open[c] \in EventId /\ Joined(c) \in EventObject
        /\ Joined(c).camera = event[open[c]].camera /\ Joined(c).state = event[open[c]].state
        /\ Joined(c).ended = event[open[c]].ended
        /\ Joined(c).attempts = event[open[c]].attempts
    BY <1>1, JoinedEvent DEF Inv, OpenOnes
  <2>2. event \in [EventId -> EventObject]
    BY DEF Inv, TypeOK
  <2>. QED
    BY <1>1, <2>1, <2>2 DEF SameStanding
<1>4. PICK r \in Call : RunOn(c, r) /\ r.pc = "promote"
  <2>1. /\ [call[c] EXCEPT !.batch = Tail(@)] \in Call
        /\ [call[c] EXCEPT !.batch = Tail(@)].pc = "promote"
    BY <1>2 DEF Call
  <2>. QED
    BY <1>1, <2>1
<1>5. TypeOK'
  BY <1>1, <1>2, <1>3, <1>4, ZenonT(60) DEF Inv, TypeOK, RunOn, dbVars
<1>. QED
  BY <1>1, <1>2, <1>3, <1>4, <1>5, JoiningIsHarmless
  DEF Inv, RunOn, Roaming, NoEarlyPictures, dbVars

LEMMA ExtendAndConfirmInv == ASSUME Inv, NEW c \in Camera, ExtendAndConfirm(c) PROVE Inv'
<1> DEFINE e == open[c]
           r == [call[c] EXCEPT !.pc = "confirmRow", !.on = e, !.batch = Tail(@)]
<1>1. /\ Promoting(c) /\ e # None /\ event[e].state # "confirmed"
      /\ event' = [event EXCEPT ![e] = [Joined(c) EXCEPT !.state = "confirmed"]]
      /\ call' = [call EXCEPT ![c] = r] /\ running' = None
      /\ dbQueue' = Append(dbQueue, c)
      /\ UNCHANGED <<now, known, open, dbVars, said, faults, restarts>>
  BY DEF ExtendAndConfirm, AwaitDb, Await
<1>2. /\ c \in Caller /\ call[c] \in Call /\ call[c].pc = "promote"
      /\ Tail(call[c].batch) \in Seq(Track)
  BY <1>1, BatchesAreTracks DEF Inv
<1>3. e \in EventId /\ event[e].camera = c /\ event[e].state = "dismissed" /\ ~event[e].ended
  BY <1>1 DEF Inv, TypeOK, OpenOnes, EventObject
<1>4. r \in Call /\ r.pc = "confirmRow" /\ r.on = e
  BY <1>2, <1>3 DEF Call, Place
<1>5. /\ event' \in [EventId -> EventObject]
      /\ event'[e].camera = c /\ event'[e].state = "confirmed"
      /\ event'[e].ended = event[e].ended /\ event'[e].attempts = event[e].attempts
      /\ \A d \in EventId \ {e} : event'[d] = event[d]
  <2>1. /\ Joined(c) \in EventObject /\ Joined(c).camera = c
        /\ Joined(c).ended = event[e].ended /\ Joined(c).attempts = event[e].attempts
    BY <1>1, JoinedEvent
  <2>2. /\ [Joined(c) EXCEPT !.state = "confirmed"] \in EventObject
        /\ [Joined(c) EXCEPT !.state = "confirmed"].state = "confirmed"
        /\ [Joined(c) EXCEPT !.state = "confirmed"].camera = c
        /\ [Joined(c) EXCEPT !.state = "confirmed"].ended = event[e].ended
        /\ [Joined(c) EXCEPT !.state = "confirmed"].attempts = event[e].attempts
    BY <2>1 DEF EventObject
  <2>3. event \in [EventId -> EventObject]
    BY DEF Inv, TypeOK
  <2>. QED
    BY <1>1, <1>3, <2>2, <2>3
<1>6. /\ said[e] = [t \in Topic |-> 0] /\ event[e].attempts = 0
  BY <1>1, <1>3 DEF Inv, Quiet
<1>7. /\ call'[c] = r
      /\ \A q \in Caller \ {c} : call'[q] = call[q]
  BY <1>1, <1>2 DEF Inv, TypeOK
<1>. HIDE DEF r, e
<1>8. TypeOK'
  BY <1>1, <1>2, <1>4, <1>5 DEF Inv, TypeOK, dbVars
<1>9. OpenOnes'
  <2> SUFFICES ASSUME NEW b \in Camera, open'[b] # None
               PROVE  /\ event'[open'[b]].camera = b
                      /\ event'[open'[b]].state # "unborn" /\ ~event'[open'[b]].ended
    BY DEF OpenOnes
  <2>1. open'[b] = open[b] /\ open[b] \in EventId
    BY <1>1 DEF Inv, TypeOK
  <2>2. /\ event[open[b]].camera = b
        /\ event[open[b]].state # "unborn" /\ ~event[open[b]].ended
    BY <2>1 DEF Inv, OpenOnes
  <2>. QED
    BY <1>3, <1>5, <2>1, <2>2
<1>10. OwnWork'
  BY <1>1, <1>2, <1>3, <1>4, <1>5, <1>6, <1>7, EngineAssumption DEF Inv, OwnWork, Topic
<1>11. Closing'
  BY <1>1, <1>3, <1>4, <1>5, <1>7 DEF Inv, Closing
<1>12. Retrying'
  BY <1>1, <1>3, <1>4, <1>5, <1>7 DEF Inv, Retrying
<1>13. Quiet'
  BY <1>1, <1>3, <1>5 DEF Inv, Quiet, dbVars
<1>. QED
  BY <1>8, <1>9, <1>10, <1>11, <1>12, <1>13 DEF Inv

LEMMA OpenEventInv == ASSUME Inv, NEW c \in Camera, NEW e \in EventId, OpenEvent(c, e) PROVE Inv'
<1> DEFINE r == [call[c] EXCEPT !.pc = "insert", !.on = e, !.batch = Tail(@)]
           new == [Unborn EXCEPT !.camera = c, !.state = Promoted(c),
                     !.tracks = {Head(call[c].batch).id}, !.lastSeen = call[c].ts]
<1>1. /\ Promoting(c) /\ open[c] = None /\ event[e].state = "unborn"
      /\ open' = [open EXCEPT ![c] = e]
      /\ event' = [event EXCEPT ![e] = new]
      /\ call' = [call EXCEPT ![c] = r] /\ running' = None
      /\ dbQueue' = Append(dbQueue, c)
      /\ UNCHANGED <<now, known, dbVars, said, faults, restarts>>
  BY DEF OpenEvent, AwaitDb, Await
<1>2. /\ c \in Caller /\ call[c] \in Call /\ call[c].pc = "promote"
      /\ Head(call[c].batch).id \in Nat /\ Tail(call[c].batch) \in Seq(Track)
  BY <1>1, BatchesAreTracks DEF Inv
<1>3. Promoted(c) \in {"dismissed", "confirmed"}
  BY <1>1 DEF Promoting, Promoted, VerdictOn, Verdict
<1>4. r \in Call /\ r.pc = "insert" /\ r.on = e
  BY <1>2 DEF Call, Place
<1>5. /\ new \in EventObject /\ new.camera = c /\ new.state # "unborn" /\ ~new.ended
      /\ new.attempts = 0
  <2>1. call[c].ts \in 0 .. MaxNow
    BY <1>2 DEF Call
  <2>2. Unborn \in EventObject
    BY EngineAssumption DEF Unborn, EventObject
  <2>. QED
    BY <1>2, <1>3, <2>1, <2>2 DEF EventObject, Unborn
<1>6. /\ event'[e] = new
      /\ \A d \in EventId \ {e} : event'[d] = event[d]
      /\ call'[c] = r
      /\ \A q \in Caller \ {c} : call'[q] = call[q]
      /\ open'[c] = e
      /\ \A b \in Camera \ {c} : open'[b] = open[b] /\ open'[b] # e
  <2>1. \A b \in Camera \ {c} : open[b] # e
    BY <1>1, EngineAssumption DEF Inv, OpenOnes
  <2>. QED
    BY <1>1, <1>2, <2>1 DEF Inv, TypeOK
<1>7. /\ said[e] = [t \in Topic |-> 0] /\ ~event[e].ended
      /\ e \notin footage /\ ~row[e].snapshot
  BY <1>1 DEF Inv, Quiet
<1>8. new \in EventObject /\ open' \in [Camera -> EventId \union {None}]
  BY <1>1, <1>5 DEF Inv, TypeOK
<1>. HIDE DEF r, new
<1>9. TypeOK'
  BY <1>1, <1>2, <1>4, <1>8 DEF Inv, TypeOK, dbVars
<1>10. OpenOnes'
  <2> SUFFICES ASSUME NEW b \in Camera, open'[b] # None
               PROVE  /\ event'[open'[b]].camera = b
                      /\ event'[open'[b]].state # "unborn" /\ ~event'[open'[b]].ended
    BY DEF OpenOnes
  <2>1. CASE b = c
    BY <1>5, <1>6, <2>1
  <2>2. CASE b # c
    <3>1. open'[b] = open[b] /\ open[b] \in EventId \ {e}
      BY <1>6, <2>2 DEF Inv, TypeOK
    <3>. QED
      BY <1>6, <3>1 DEF Inv, OpenOnes
  <2>. QED
    BY <2>1, <2>2
<1>11. OwnWork'
  BY <1>1, <1>2, <1>4, <1>5, <1>6, <1>7, EngineAssumption DEF Inv, OwnWork, Topic
<1>12. Closing'
  BY <1>1, <1>4, <1>6 DEF Inv, Closing
<1>13. Retrying'
  BY <1>1, <1>4, <1>6 DEF Inv, Retrying
<1>14. Quiet'
  BY <1>1, <1>5, <1>6, <1>7 DEF Inv, Quiet, dbVars, Topic
<1>. QED
  BY <1>9, <1>10, <1>11, <1>12, <1>13, <1>14 DEF Inv

-----------------------------------------------------------------------------
(* Database calls and snapshots.                                           *)

\* An event may be photographed by its own camera before it is announced, and
\* by the retry loop while attempts are left.
LEMMA Asking ==
  ASSUME Inv, NEW p \in Caller, NEW e \in EventId,
         NEW pc \in {"snapshot", "retrySnapshot"}, NEW place \in Nat,
         AskSnapshot(p, e, pc, place),
         event[e].state = "confirmed", event[e].attempts <= SnapshotMaxAttempts,
         pc = "snapshot" => p \in Camera /\ event[e].camera = p /\ said[e]["confirmed"] = 0,
         pc = "retrySnapshot" => event[e].attempts < SnapshotMaxAttempts,
         NoEarlyPictures, UNCHANGED <<open, said, footage>>
  PROVE  /\ event' \in [EventId -> EventObject] /\ call' \in [Caller -> Call]
         /\ running' = None
         /\ OpenOnes' /\ OwnWork' /\ Closing' /\ Retrying' /\ Quiet'
<1> DEFINE r == [call[p] EXCEPT !.pc = pc, !.on = e, !.place = place]
           asked == [event[e] EXCEPT !.attempts = @ + 1, !.lastTry = call[p].ts]
<1>1. /\ call' = [call EXCEPT ![p] = r] /\ running' = None
      /\ event' = [event EXCEPT ![e] = asked]
  BY DEF AskSnapshot, Await
<1>2. event[e] \in EventObject /\ call[p] \in Call /\ call[p].ts \in 0 .. MaxNow
  BY DEF Inv, TypeOK, Call
<1>3. r \in Call /\ r.pc = pc /\ r.on = e
  BY <1>2 DEF Call, Place
<1>4. /\ asked \in EventObject /\ asked.camera = event[e].camera /\ asked.state = "confirmed"
      /\ asked.ended = event[e].ended /\ asked.attempts = event[e].attempts + 1
  <2>1. event[e].attempts + 1 \in 0 .. SnapshotMaxAttempts + 1
    BY <1>2, EngineAssumption, SMTT(20) DEF EventObject
  <2>2. call[p].ts \in -SnapshotRetryAfter .. MaxNow
    BY <1>2, EngineAssumption
  <2>. QED
    BY <1>2, <2>1, <2>2 DEF EventObject
<1>5. event[e].attempts \in Nat
  BY <1>2, EngineAssumption DEF EventObject
<1>6. /\ event'[e] = asked /\ \A d \in EventId \ {e} : event'[d] = event[d]
      /\ call'[p] = r /\ \A q \in Caller \ {p} : call'[q] = call[q]
      /\ event' \in [EventId -> EventObject] /\ call' \in [Caller -> Call]
  BY <1>1, <1>3, <1>4 DEF Inv, TypeOK
<1>. HIDE DEF r, asked
<1>7. OpenOnes'
  BY <1>4, <1>6, ZenonT(60) DEF Inv, TypeOK, OpenOnes
<1>8. OwnWork'
  <2> SUFFICES ASSUME NEW q \in Caller
               PROVE  OwnWork!(q)'
    BY DEF OwnWork
  <2>1. CASE q = p
    BY <1>3, <1>4, <1>6, <2>1
  <2>2. CASE q # p
    <3>1. call'[q] = call[q] /\ OwnWork!(q)
      BY <1>6, <2>2 DEF Inv, OwnWork
    <3>2. CASE call[q].on # e \/ call[q].pc \notin {"insert", "confirmRow"}
      BY <1>4, <1>6, <3>1, <3>2
    <3>3. CASE call[q].on = e /\ call[q].pc \in {"insert", "confirmRow"}
      <4>1. pc = "retrySnapshot"
        BY <2>2, <3>1, <3>3
      <4>2. event'[e].attempts <= SnapshotMaxAttempts
        BY <1>4, <1>5, <1>6, <4>1, EngineAssumption
      <4>. QED
        BY <1>4, <1>6, <3>1, <3>3, <4>2
    <3>. QED
      BY <3>2, <3>3
  <2>. QED
    BY <2>1, <2>2
<1>9. Closing'
  BY <1>3, <1>4, <1>6 DEF Inv, Closing
<1>10. Retrying'
  BY <1>3, <1>4, <1>6 DEF Inv, Retrying
<1>11. Quiet'
  BY <1>4, <1>6 DEF Inv, Quiet, NoEarlyPictures
<1>. QED
  BY <1>1, <1>6, <1>7, <1>8, <1>9, <1>10, <1>11

LEMMA ServedQueue ==
  ASSUME TypeOK, NEW p \in Caller, NEW pc, Served(p, pc)
  PROVE  dbQueue' \in Seq(Caller)
BY HeadTailProperties DEF Served, Foremost, TypeOK

LEMMA InsertedInv == ASSUME Inv, NEW p \in Caller, Inserted(p) PROVE Inv'
<1> DEFINE e == call[p].on
<1>1. /\ call[p].pc = "insert" /\ Served(p, "insert")
      /\ row' = [row EXCEPT ![e] = [NoRow EXCEPT !.state = event[e].state]]
      /\ IF event[e].state = "confirmed"
           THEN AskSnapshot(p, e, "snapshot", 1)
           ELSE RunOn(p, [At(p, "promote") EXCEPT !.on = None]) /\ UNCHANGED event
      /\ UNCHANGED <<now, known, open, footage, said, faults, restarts>>
  BY DEF Inserted, Served, Foremost
<1>2. /\ p \in Camera /\ e \in EventId /\ event[e].camera = p /\ event[e].state # "unborn"
      /\ said[e]["confirmed"] = 0 /\ event[e].attempts <= SnapshotMaxAttempts
  BY <1>1 DEF Inv, OwnWork
<1>3. row' \in [EventId -> EventRow] /\ NoEarlyPictures
  <2>1. event[e] \in EventObject
    BY <1>2 DEF Inv, TypeOK
  <2>2. /\ [NoRow EXCEPT !.state = event[e].state] \in EventRow
        /\ ~[NoRow EXCEPT !.state = event[e].state].snapshot
    BY <2>1, <1>2 DEF EventObject, EventRow, NoRow
  <2>3. event[e].state # "confirmed" => ~row[e].snapshot
    BY <1>2 DEF Inv, Quiet
  <2>4. row \in [EventId -> EventRow]
    BY DEF Inv, TypeOK
  <2>5. /\ row'[e] = [NoRow EXCEPT !.state = event[e].state]
        /\ \A d \in EventId \ {e} : row'[d] = row[d]
    BY <1>1, <1>2, <2>4
  <2>6. event[e].state # "confirmed" => row'[e].snapshot = row[e].snapshot
    <3>1. row[e].snapshot \in BOOLEAN
      BY <1>2, <2>4 DEF EventRow
    <3>. QED
      BY <2>2, <2>3, <2>5, <3>1 DEF NoRow
  <2>7. row' \in [EventId -> EventRow]
    BY <1>1, <2>2, <2>4
  <2>. QED
    BY <2>5, <2>6, <2>7 DEF NoEarlyPictures
<1>4. dbQueue' \in Seq(Caller)
  BY <1>1, ServedQueue DEF Inv
<1>5. CASE event[e].state = "confirmed"
  <2>1. /\ event' \in [EventId -> EventObject] /\ call' \in [Caller -> Call]
        /\ running' = None
        /\ OpenOnes' /\ OwnWork' /\ Closing' /\ Retrying' /\ Quiet'
    BY <1>1, <1>2, <1>3, <1>5, Asking
  <2>. QED
    BY <1>1, <1>3, <1>4, <2>1 DEF Inv, TypeOK
<1>6. CASE event[e].state # "confirmed"
  <2>1. PICK r \in Call : RunOn(p, r) /\ r.pc = "promote"
    <3>1. At(p, "promote") \in Call /\ At(p, "promote").pc = "promote"
      BY CallsGoOn DEF Inv, Place
    <3>2. /\ [At(p, "promote") EXCEPT !.on = None] \in Call
          /\ [At(p, "promote") EXCEPT !.on = None].pc = "promote"
      BY <3>1 DEF Call
    <3>. QED
      BY <1>1, <1>6, <3>2
  <2>2. UNCHANGED event /\ SameStanding
    BY <1>1, <1>6 DEF SameStanding
  <2>3. TypeOK'
    BY <1>1, <1>3, <1>4, <2>1, <2>2 DEF Inv, TypeOK, RunOn
  <2>. QED
    BY <1>1, <1>2, <1>3, <2>1, <2>2, <2>3, JoiningIsHarmless DEF Inv, RunOn, Roaming
<1>. QED
  BY <1>5, <1>6

LEMMA ConfirmStoredInv == ASSUME Inv, NEW p \in Caller, ConfirmStored(p) PROVE Inv'
<1> DEFINE e == call[p].on
<1>1. /\ call[p].pc = "confirmRow" /\ Served(p, "confirmRow")
      /\ row' = IF row[e] = NoRow THEN row ELSE [row EXCEPT ![e].state = "confirmed"]
      /\ AskSnapshot(p, e, "snapshot", 1)
      /\ UNCHANGED <<now, known, open, footage, said, faults, restarts>>
  BY DEF ConfirmStored, Served, Foremost
<1>2. /\ p \in Camera /\ e \in EventId /\ event[e].camera = p /\ event[e].state = "confirmed"
      /\ said[e]["confirmed"] = 0 /\ event[e].attempts <= SnapshotMaxAttempts
  BY <1>1 DEF Inv, OwnWork
<1>3. row' \in [EventId -> EventRow] /\ NoEarlyPictures
  <2>1. row \in [EventId -> EventRow] /\ row[e] \in EventRow
    BY <1>2 DEF Inv, TypeOK
  <2>2. [row[e] EXCEPT !.state = "confirmed"] \in EventRow
    BY <2>1 DEF EventRow
  <2>3. row' = row \/ row' = [row EXCEPT ![e] = [row[e] EXCEPT !.state = "confirmed"]]
    BY <1>1
  <2>. QED
    BY <1>2, <2>1, <2>2, <2>3 DEF NoEarlyPictures
<1>4. /\ event' \in [EventId -> EventObject] /\ call' \in [Caller -> Call]
      /\ running' = None
      /\ OpenOnes' /\ OwnWork' /\ Closing' /\ Retrying' /\ Quiet'
  BY <1>1, <1>2, <1>3, Asking
<1>5. dbQueue' \in Seq(Caller)
  BY <1>1, ServedQueue DEF Inv
<1>. QED
  BY <1>1, <1>3, <1>4, <1>5 DEF Inv, TypeOK

LEMMA SnapshotTakenInv == ASSUME Inv, NEW p \in Caller, SnapshotTaken(p) PROVE Inv'
<1> DEFINE e == call[p].on
           pc == IF call[p].pc = "snapshot" THEN "snapshotRow" ELSE "retryRow"
           r == At(p, pc)
<1>1. /\ call[p].pc \in {"snapshot", "retrySnapshot"}
      /\ event' = [event EXCEPT ![e].snapshot = TRUE]
      /\ call' = [call EXCEPT ![p] = r] /\ running' = None
      /\ dbQueue' = Append(dbQueue, p)
      /\ UNCHANGED <<now, known, open, dbVars, said, faults, restarts>>
  BY DEF SnapshotTaken, AwaitDb, Await
<1>2. e \in EventId
  BY <1>1 DEF Inv, OwnWork, Retrying
<1>3. r \in Call /\ r.pc = pc /\ r.on = e
  BY CallsGoOn DEF Inv, Place
<1>4. SameStanding /\ event' \in [EventId -> EventObject]
  <2>1. event \in [EventId -> EventObject] /\ event[e] \in EventObject
    BY <1>2 DEF Inv, TypeOK
  <2>2. [event[e] EXCEPT !.snapshot = TRUE] \in EventObject
    BY <2>1 DEF EventObject
  <2>3. event' = [event EXCEPT ![e] = [event[e] EXCEPT !.snapshot = TRUE]]
    BY <1>1
  <2>. QED
    BY <1>2, <2>1, <2>2, <2>3 DEF SameStanding, EventObject
<1>5. /\ call'[p] = r /\ \A q \in Caller \ {p} : call'[q] = call[q]
  BY <1>1 DEF Inv, TypeOK
<1>. HIDE DEF r
<1>6. TypeOK'
  BY <1>1, <1>3, <1>4 DEF Inv, TypeOK, dbVars
<1>7. OpenOnes'
  BY <1>1, <1>4 DEF Inv, TypeOK, OpenOnes, SameStanding
<1>8. OwnWork'
  BY <1>1, <1>3, <1>4, <1>5 DEF Inv, OwnWork, SameStanding
<1>9. Closing'
  BY <1>1, <1>3, <1>4, <1>5 DEF Inv, Closing, SameStanding
<1>10. Retrying'
  BY <1>1, <1>3, <1>4, <1>5 DEF Inv, Retrying, SameStanding
<1>11. Quiet'
  BY <1>1, <1>4 DEF Inv, Quiet, SameStanding, dbVars
<1>. QED
  BY <1>6, <1>7, <1>8, <1>9, <1>10, <1>11 DEF Inv

\* After the snapshot of a promotion its own camera announces the event; after
\* one of the retry loop nothing is said.
LEMMA AfterSnapshotIsSafe ==
  ASSUME Inv, NEW p \in Caller, NEW promoting \in BOOLEAN,
         promoting => call[p].pc \in {"snapshot", "snapshotRow"},
         AfterSnapshot(p, promoting),
         NoEarlyPictures, UNCHANGED <<open, event, footage>>
  PROVE  /\ said' \in [EventId -> [Topic -> Nat]] /\ call' \in [Caller -> Call]
         /\ running' \in Caller
         /\ OpenOnes' /\ OwnWork' /\ Closing' /\ Retrying' /\ Quiet'
<1>1. SameStanding
  BY DEF SameStanding
<1>2. CASE ~promoting
  <2>1. OnwardAt(p, "retry") \in Call /\ OnwardAt(p, "retry").pc = "retry"
    BY CallsGoOn DEF Inv, Place
  <2>2. RunOn(p, OnwardAt(p, "retry")) /\ UNCHANGED said
    BY <1>2 DEF AfterSnapshot
  <2>. QED
    BY <1>1, <2>1, <2>2, JoiningIsHarmless DEF Inv, TypeOK, RunOn, Roaming
<1>3. CASE promoting
  <2> DEFINE e == call[p].on
             r == [At(p, "promote") EXCEPT !.on = None]
  <2>1. /\ said' = [said EXCEPT ![e]["confirmed"] = @ + 1]
        /\ call' = [call EXCEPT ![p] = r] /\ running' = p
    BY <1>3 DEF AfterSnapshot, Publish, RunOn
  <2>2. /\ p \in Camera /\ e \in EventId /\ event[e].camera = p /\ event[e].state = "confirmed"
    BY <1>3 DEF Inv, OwnWork
  <2>3. r \in Call /\ r.pc = "promote"
    <3>1. At(p, "promote") \in Call /\ At(p, "promote").pc = "promote"
      BY CallsGoOn DEF Inv, Place
    <3>. QED
      BY <3>1 DEF Call
  <2>4. /\ call'[p] = r /\ \A q \in Caller \ {p} : call'[q] = call[q]
        /\ call' \in [Caller -> Call]
    BY <2>1, <2>3 DEF Inv, TypeOK
  <2>5. /\ said' \in [EventId -> [Topic -> Nat]]
        /\ said'[e]["ended"] = said[e]["ended"]
        /\ \A d \in EventId \ {e} : said'[d] = said[d]
    <3>1. said \in [EventId -> [Topic -> Nat]] /\ said[e] \in [Topic -> Nat]
      BY <2>2 DEF Inv, TypeOK
    <3>2. [said[e] EXCEPT !["confirmed"] = @ + 1] \in [Topic -> Nat]
      BY <3>1 DEF Topic
    <3>3. said' = [said EXCEPT ![e] = [said[e] EXCEPT !["confirmed"] = @ + 1]]
      BY <2>1
    <3>. QED
      BY <2>2, <3>1, <3>2, <3>3 DEF Topic
  <2>. HIDE DEF r
  <2>6. OpenOnes'
    BY DEF Inv, OpenOnes
  <2>7. OwnWork'
    BY <2>2, <2>3, <2>4, <2>5 DEF Inv, OwnWork
  <2>8. Closing'
    BY <2>2, <2>3, <2>4, <2>5 DEF Inv, Closing
  <2>9. Retrying'
    BY <2>3, <2>4 DEF Inv, Retrying
  <2>10. Quiet'
    BY <2>2, <2>5 DEF Inv, Quiet, NoEarlyPictures
  <2>. QED
    BY <2>1, <2>4, <2>5, <2>6, <2>7, <2>8, <2>9, <2>10
<1>. QED
  BY <1>2, <1>3

LEMMA SnapshotFailsInv == ASSUME Inv, NEW p \in Caller, SnapshotFails(p) PROVE Inv'
<1>1. /\ AfterSnapshot(p, call[p].pc = "snapshot")
      /\ UNCHANGED <<now, memVars, dbVars, dbQueue, faults, restarts>>
  BY DEF SnapshotFails
<1>2. NoEarlyPictures
  BY <1>1 DEF NoEarlyPictures, dbVars
<1>3. /\ said' \in [EventId -> [Topic -> Nat]] /\ call' \in [Caller -> Call]
      /\ running' \in Caller
      /\ OpenOnes' /\ OwnWork' /\ Closing' /\ Retrying' /\ Quiet'
  <2> DEFINE promoting == call[p].pc = "snapshot"
  <2>1. promoting \in BOOLEAN /\ AfterSnapshot(p, promoting)
    BY <1>1
  <2>2. promoting => call[p].pc \in {"snapshot", "snapshotRow"}
    OBVIOUS
  <2>3. UNCHANGED <<open, event, footage>>
    BY <1>1 DEF memVars, dbVars
  <2>. HIDE DEF promoting
  <2>. QED
    BY <1>2, <2>1, <2>2, <2>3, AfterSnapshotIsSafe
<1>. QED
  BY <1>1, <1>3 DEF Inv, TypeOK, memVars, dbVars

LEMMA SnapshotStoredInv == ASSUME Inv, NEW p \in Caller, SnapshotStored(p) PROVE Inv'
<1> DEFINE e == call[p].on
<1>1. /\ call[p].pc \in {"snapshotRow", "retryRow"}
      /\ \/ /\ row' = IF row[e] = NoRow THEN row ELSE [row EXCEPT ![e].snapshot = TRUE]
            /\ UNCHANGED faults
         \/ faults < MaxFaults /\ faults' = faults + 1 /\ UNCHANGED row
      /\ AfterSnapshot(p, call[p].pc = "snapshotRow")
      /\ UNCHANGED <<now, memVars, footage, restarts>>
  BY DEF SnapshotStored, Served, Foremost
<1>2. dbQueue' \in Seq(Caller)
  BY ServedQueue DEF SnapshotStored, Inv
<1>3. e \in EventId /\ event[e].state = "confirmed"
  BY <1>1 DEF Inv, OwnWork, Retrying
<1>4. row' \in [EventId -> EventRow] /\ NoEarlyPictures
  <2>1. row \in [EventId -> EventRow] /\ row[e] \in EventRow
    BY <1>3 DEF Inv, TypeOK
  <2>2. [row[e] EXCEPT !.snapshot = TRUE] \in EventRow
    BY <2>1 DEF EventRow
  <2>3. row' = row \/ row' = [row EXCEPT ![e] = [row[e] EXCEPT !.snapshot = TRUE]]
    BY <1>1
  <2>. QED
    BY <1>3, <2>1, <2>2, <2>3 DEF NoEarlyPictures
<1>5. faults' \in 0 .. MaxFaults
  BY <1>1, EngineAssumption DEF Inv, TypeOK
<1>6. /\ said' \in [EventId -> [Topic -> Nat]] /\ call' \in [Caller -> Call]
      /\ running' \in Caller
      /\ OpenOnes' /\ OwnWork' /\ Closing' /\ Retrying' /\ Quiet'
  <2> DEFINE promoting == call[p].pc = "snapshotRow"
  <2>1. promoting \in BOOLEAN /\ AfterSnapshot(p, promoting)
    BY <1>1
  <2>2. promoting => call[p].pc \in {"snapshot", "snapshotRow"}
    OBVIOUS
  <2>3. UNCHANGED <<open, event, footage>>
    BY <1>1 DEF memVars
  <2>. HIDE DEF promoting
  <2>. QED
    BY <1>4, <2>1, <2>2, <2>3, AfterSnapshotIsSafe
<1>. QED
  BY <1>1, <1>2, <1>4, <1>5, <1>6 DEF Inv, TypeOK, memVars

-----------------------------------------------------------------------------
(* The two loops.                                                          *)

\* What a loop works on is the open event of a camera.
LEMMA DueEvents ==
  ASSUME Inv, NEW p \in Caller, NEW pc, NEW i \in 1 .. Len(known), FirstDue(p, pc, i)
  PROVE  /\ known[i] \in Camera /\ OpenAt(i) \in EventId
         /\ event[OpenAt(i)].camera = known[i] /\ event[OpenAt(i)].state # "unborn"
         /\ ~event[OpenAt(i)].ended
         /\ call[p].pc = pc
         /\ pc = "retry" => NeedsSnapshot(OpenAt(i), call[p].ts)
<1>1. known[i] \in Camera
  BY DEF Inv, TypeOK
<1>2. i \in Due(p) /\ call[p].pc = pc
  BY DEF FirstDue, Looping
<1>3. OpenAt(i) # None /\ OpenAt(i) = open[known[i]]
  BY <1>2 DEF Due, OpenAt
<1>4. pc = "retry" => NeedsSnapshot(OpenAt(i), call[p].ts)
  BY <1>2 DEF Due
<1>. QED
  BY <1>1, <1>2, <1>3, <1>4 DEF Inv, TypeOK, OpenOnes

LEMMA RetrySnapshotInv == ASSUME Inv, NEW p \in Caller, RetrySnapshot(p) PROVE Inv'
<1>1. PICK i \in 1 .. Len(known) :
        FirstDue(p, "retry", i) /\ AskSnapshot(p, OpenAt(i), "retrySnapshot", i)
  BY DEF RetrySnapshot
<1>2. UNCHANGED <<now, known, open, dbVars, said, dbQueue, faults, restarts>>
  BY DEF RetrySnapshot
<1>3. /\ OpenAt(i) \in EventId /\ event[OpenAt(i)].state = "confirmed"
      /\ event[OpenAt(i)].attempts < SnapshotMaxAttempts
  BY <1>1, DueEvents DEF NeedsSnapshot
<1>4. event[OpenAt(i)].attempts <= SnapshotMaxAttempts
  <2>1. event[OpenAt(i)] \in EventObject
    BY <1>3 DEF Inv, TypeOK
  <2>. QED
    BY <1>3, <2>1, EngineAssumption DEF EventObject
<1>5. NoEarlyPictures /\ i \in Nat
  BY <1>2 DEF NoEarlyPictures, dbVars
<1>6. /\ event' \in [EventId -> EventObject] /\ call' \in [Caller -> Call]
      /\ running' = None
      /\ OpenOnes' /\ OwnWork' /\ Closing' /\ Retrying' /\ Quiet'
  <2>1. UNCHANGED <<open, said, footage>>
    BY <1>2 DEF dbVars
  <2>. QED
    BY <1>1, <1>3, <1>4, <1>5, <2>1, Asking
<1>. QED
  BY <1>2, <1>6 DEF Inv, TypeOK, dbVars

LEMMA CloseEventInv == ASSUME Inv, NEW p \in Caller, CloseEvent(p) PROVE Inv'
<1>1. PICK i \in 1 .. Len(known) :
        /\ FirstDue(p, "close", i)
        /\ open' = [open EXCEPT ![known[i]] = None]
        /\ event' = [event EXCEPT ![OpenAt(i)].ended = TRUE]
        /\ AwaitDb(p, [At(p, "closeRow") EXCEPT !.on = OpenAt(i), !.place = i])
  BY DEF CloseEvent
<1> DEFINE c == known[i]
           e == OpenAt(i)
           r == [At(p, "closeRow") EXCEPT !.on = e, !.place = i]
<1>2. UNCHANGED <<now, known, dbVars, said, faults, restarts>>
  BY DEF CloseEvent
<1>3. /\ c \in Camera /\ e \in EventId /\ event[e].camera = c
      /\ event[e].state # "unborn" /\ ~event[e].ended
  BY <1>1, DueEvents
<1>4. r \in Call /\ r.pc = "closeRow" /\ r.on = e
  <2>1. At(p, "closeRow") \in Call /\ At(p, "closeRow").pc = "closeRow"
    BY CallsGoOn DEF Inv, Place
  <2>2. i \in Nat
    OBVIOUS
  <2>. QED
    BY <1>3, <2>1, <2>2 DEF Call
<1>5. /\ event' \in [EventId -> EventObject]
      /\ event'[e].camera = c /\ event'[e].state = event[e].state
      /\ event'[e].attempts = event[e].attempts /\ event'[e].ended
      /\ \A d \in EventId \ {e} : event'[d] = event[d]
  <2>1. event \in [EventId -> EventObject] /\ event[e] \in EventObject
    BY <1>3 DEF Inv, TypeOK
  <2>2. [event[e] EXCEPT !.ended = TRUE] \in EventObject
    BY <2>1 DEF EventObject
  <2>3. event' = [event EXCEPT ![e] = [event[e] EXCEPT !.ended = TRUE]]
    BY <1>1
  <2>. QED
    BY <1>3, <2>1, <2>2, <2>3 DEF EventObject
<1>6. /\ call'[p] = r /\ \A q \in Caller \ {p} : call'[q] = call[q]
      /\ call' \in [Caller -> Call] /\ running' = None /\ dbQueue' \in Seq(Caller)
  BY <1>1, <1>4 DEF Inv, TypeOK, AwaitDb, Await
<1>7. /\ open'[c] = None /\ \A b \in Camera \ {c} : open'[b] = open[b]
      /\ open' \in [Camera -> EventId \union {None}]
  BY <1>1, <1>3 DEF Inv, TypeOK
<1>. HIDE DEF r, c, e
<1>8. TypeOK'
  BY <1>2, <1>5, <1>6, <1>7 DEF Inv, TypeOK, dbVars
<1>9. OpenOnes'
  <2> SUFFICES ASSUME NEW b \in Camera, open'[b] # None
               PROVE  /\ event'[open'[b]].camera = b
                      /\ event'[open'[b]].state # "unborn" /\ ~event'[open'[b]].ended
    BY DEF OpenOnes
  <2>1. b # c /\ open'[b] = open[b] /\ open[b] \in EventId
    BY <1>7 DEF Inv, TypeOK
  <2>2. /\ event[open[b]].camera = b
        /\ event[open[b]].state # "unborn" /\ ~event[open[b]].ended
    BY <2>1 DEF Inv, OpenOnes
  <2>. QED
    BY <1>3, <1>5, <2>1, <2>2
<1>10. OwnWork'
  BY <1>2, <1>3, <1>4, <1>5, <1>6 DEF Inv, OwnWork
<1>11. Closing'
  <2>1. \A q \in Caller : call[q].pc \in {"closeRow", "upgrade"} => call[q].on # e
    BY <1>3 DEF Inv, Closing
  <2>2. said'[e]["ended"] = 0
    BY <1>2, <1>3 DEF Inv, Quiet
  <2>. QED
    BY <1>2, <1>3, <1>4, <1>5, <1>6, <2>1, <2>2 DEF Inv, Closing
<1>12. Retrying'
  BY <1>3, <1>4, <1>5, <1>6 DEF Inv, Retrying
<1>13. Quiet'
  BY <1>2, <1>3, <1>5 DEF Inv, Quiet, dbVars
<1>. QED
  BY <1>8, <1>9, <1>10, <1>11, <1>12, <1>13 DEF Inv

LEMMA CloseStoredInv == ASSUME Inv, NEW p \in Caller, CloseStored(p) PROVE Inv'
<1> DEFINE e == call[p].on
<1>1. /\ call[p].pc = "closeRow" /\ dbQueue # <<>>
      /\ row' = IF row[e] = NoRow THEN row ELSE [row EXCEPT ![e].ended = TRUE]
      /\ UNCHANGED <<now, memVars, footage, said, faults, restarts>>
  BY DEF CloseStored, Foremost
<1>2. e \in EventId /\ event[e].ended /\ said[e]["ended"] = 0
  BY <1>1 DEF Inv, Closing
<1>3. row' \in [EventId -> EventRow] /\ NoEarlyPictures
  <2>1. row \in [EventId -> EventRow] /\ row[e] \in EventRow
    BY <1>2 DEF Inv, TypeOK
  <2>2. [row[e] EXCEPT !.ended = TRUE] \in EventRow
    BY <2>1 DEF EventRow
  <2>3. [row[e] EXCEPT !.ended = TRUE].snapshot = row[e].snapshot
    BY <2>1 DEF EventRow
  <2>4. row' = row \/ row' = [row EXCEPT ![e] = [row[e] EXCEPT !.ended = TRUE]]
    BY <1>1
  <2>. QED
    BY <1>2, <2>1, <2>2, <2>3, <2>4 DEF NoEarlyPictures
<1>4. Tail(dbQueue) \in Seq(Caller)
  BY <1>1, HeadTailProperties DEF Inv, TypeOK
<1>5. CASE event[e].state = "confirmed"
  <2> DEFINE r == At(p, "upgrade")
  <2>1. /\ call' = [call EXCEPT ![p] = r] /\ running' = None
        /\ dbQueue' = Append(Tail(dbQueue), p)
    BY <1>5 DEF CloseStored, Await
  <2>2. r \in Call /\ r.pc = "upgrade" /\ r.on = e
    BY CallsGoOn DEF Inv, Place
  <2>3. /\ call'[p] = r /\ \A q \in Caller \ {p} : call'[q] = call[q]
    BY <2>1 DEF Inv, TypeOK
  <2>. HIDE DEF r
  <2>4. TypeOK'
    BY <1>1, <1>3, <1>4, <2>1, <2>2 DEF Inv, TypeOK, memVars
  <2>5. OpenOnes'
    BY <1>1 DEF Inv, OpenOnes, memVars
  <2>6. OwnWork'
    BY <1>1, <2>2, <2>3 DEF Inv, OwnWork, memVars
  <2>7. Closing'
    BY <1>1, <1>5, <2>2, <2>3 DEF Inv, Closing, memVars
  <2>8. Retrying'
    BY <1>1, <2>2, <2>3 DEF Inv, Retrying, memVars
  <2>9. Quiet'
    BY <1>1, <1>3 DEF Inv, Quiet, NoEarlyPictures, memVars
  <2>. QED
    BY <2>4, <2>5, <2>6, <2>7, <2>8, <2>9 DEF Inv
<1>6. CASE event[e].state # "confirmed"
  <2>1. /\ OnwardAt(p, "close") \in Call /\ OnwardAt(p, "close").pc = "close"
    BY CallsGoOn DEF Inv, Place
  <2>2. /\ call' = [call EXCEPT ![p] = OnwardAt(p, "close")] /\ running' = p
        /\ dbQueue' = Tail(dbQueue)
    BY <1>6 DEF CloseStored, RunOn
  <2>3. TypeOK'
    BY <1>1, <1>3, <1>4, <2>1, <2>2 DEF Inv, TypeOK, memVars
  <2>4. SameStanding /\ UNCHANGED <<open, said, footage>>
    BY <1>1 DEF SameStanding, memVars
  <2>. QED
    BY <1>3, <2>1, <2>2, <2>3, <2>4, JoiningIsHarmless DEF Inv, Roaming
<1>. QED
  BY <1>5, <1>6

LEMMA FootageLiftedInv == ASSUME Inv, NEW p \in Caller, FootageLifted(p) PROVE Inv'
<1> DEFINE e == call[p].on
           r == OnwardAt(p, "close")
<1>1. /\ call[p].pc = "upgrade" /\ Served(p, "upgrade")
      /\ \/ footage' = footage \union {e} /\ UNCHANGED faults
         \/ faults < MaxFaults /\ faults' = faults + 1 /\ UNCHANGED footage
      /\ said' = [said EXCEPT ![e]["ended"] = @ + 1]
      /\ call' = [call EXCEPT ![p] = r] /\ running' = p
      /\ UNCHANGED <<now, memVars, row, restarts>>
  BY DEF FootageLifted, Served, Foremost, Publish, RunOn
<1>2. e \in EventId /\ event[e].ended /\ event[e].state = "confirmed"
  BY <1>1 DEF Inv, Closing
<1>3. r \in Call /\ r.pc = "close"
  BY CallsGoOn DEF Inv, Place
<1>4. /\ call'[p] = r /\ \A q \in Caller \ {p} : call'[q] = call[q]
  BY <1>1 DEF Inv, TypeOK
<1>5. dbQueue' \in Seq(Caller)
  BY <1>1, ServedQueue DEF Inv
<1>6. faults' \in 0 .. MaxFaults /\ footage' \subseteq EventId
      /\ \A d \in EventId \ {e} : d \in footage' => d \in footage
  <2>1. faults' \in 0 .. MaxFaults
    BY <1>1, EngineAssumption DEF Inv, TypeOK
  <2>2. footage \subseteq EventId
    BY DEF Inv, TypeOK
  <2>3. footage' \in {footage, footage \union {e}}
    BY <1>1
  <2>. QED
    BY <1>2, <2>1, <2>2, <2>3
<1>7. /\ said' \in [EventId -> [Topic -> Nat]]
      /\ said'[e]["confirmed"] = said[e]["confirmed"]
      /\ \A d \in EventId \ {e} : said'[d] = said[d]
  <2>1. said \in [EventId -> [Topic -> Nat]] /\ said[e] \in [Topic -> Nat]
    BY <1>2 DEF Inv, TypeOK
  <2>2. [said[e] EXCEPT !["ended"] = @ + 1] \in [Topic -> Nat]
    BY <2>1 DEF Topic
  <2>3. said' = [said EXCEPT ![e] = [said[e] EXCEPT !["ended"] = @ + 1]]
    BY <1>1
  <2>. QED
    BY <1>2, <2>1, <2>2, <2>3 DEF Topic
<1>. HIDE DEF r
<1>8. TypeOK'
  BY <1>1, <1>3, <1>5, <1>6, <1>7 DEF Inv, TypeOK, memVars
<1>9. OpenOnes'
  BY <1>1 DEF Inv, OpenOnes, memVars
<1>10. OwnWork'
  BY <1>1, <1>2, <1>3, <1>4, <1>7 DEF Inv, OwnWork, memVars
<1>11. Closing'
  BY <1>1, <1>3, <1>4, <1>7 DEF Inv, Closing, memVars
<1>12. Retrying'
  BY <1>1, <1>3, <1>4 DEF Inv, Retrying, memVars
<1>13. Quiet'
  BY <1>1, <1>2, <1>6, <1>7 DEF Inv, Quiet, memVars
<1>. QED
  BY <1>8, <1>9, <1>10, <1>11, <1>12, <1>13 DEF Inv

-----------------------------------------------------------------------------
LEMMA StepInv == Inv /\ [Next]_vars => Inv'
<1> SUFFICES ASSUME Inv, [Next]_vars PROVE Inv'
  OBVIOUS
<1>1. ASSUME NEW c \in Camera, Frame(c) \/ PipelineStep(c) PROVE Inv'
  BY <1>1, FrameInv, DetectedInv, PassOverInv, ExtendInv, ExtendAndConfirmInv, OpenEventInv
  DEF PipelineStep
<1>2. ASSUME NEW p \in Caller, Step(p) PROVE Inv'
  BY <1>2, InsertedInv, ConfirmStoredInv, CallFailsInv, SnapshotTakenInv, SnapshotFailsInv,
     SnapshotStoredInv, LoopBreaksInv, RetrySnapshotInv, CloseEventInv, LoopEndsInv,
     CloseStoredInv, FootageLiftedInv DEF Step
<1>3. CASE UNCHANGED vars
  BY <1>3 DEF vars, memVars, dbVars, Inv, TypeOK, OpenOnes, OwnWork, Closing, Retrying, Quiet
<1>. QED
  BY <1>1, <1>2, <1>3, TickInv, AdvanceInv, CrashInv DEF Next

\* The invariant holds in every behaviour.
THEOREM EngineInvariant == Spec => []Inv
<1>1. Init => Inv
  BY InitInv
<1>2. Inv /\ [Next]_vars => Inv'
  BY StepInv
<1>. QED
  BY <1>1, <1>2, PTL DEF Spec

\* Every variable keeps its type, and no event is photographed more than once
\* beyond SNAPSHOT_MAX_ATTEMPTS.
THEOREM EngineTypeOK == Spec => []TypeOK
<1>1. Inv => TypeOK
  BY DEF Inv
<1>. QED
  BY <1>1, EngineInvariant, PTL

\* A dismissed event is never announced, photographed or lifted.
THEOREM DismissedStaysCheap == Spec => []DismissedCostsNothing
<1>1. Inv => DismissedCostsNothing
  BY DEF Inv, Quiet, DismissedCostsNothing
<1>. QED
  BY <1>1, EngineInvariant, PTL

-----------------------------------------------------------------------------
(* The engine implements EventLife.                                        *)

\* A step that opens, confirms, closes and says nothing is a stutter.
LEMMA Stutters ==
  ASSUME \A e \in EventId :
           event'[e].state = event[e].state /\ event'[e].ended = event[e].ended,
         UNCHANGED <<open, said>>
  PROVE  UNCHANGED Life!vars
BY DEF Life!vars

\* What each caller's step is to EventLife.
LEMMA OpenEventOpens ==
  ASSUME Inv, NEW c \in Camera, NEW e \in EventId, OpenEvent(c, e)
  PROVE  Life!Open(c, e)
<1>1. /\ Promoting(c) /\ open[c] = None /\ event[e].state = "unborn"
      /\ open' = [open EXCEPT ![c] = e] /\ UNCHANGED said
  BY DEF OpenEvent
<1>2. Promoted(c) \in {"dismissed", "confirmed"}
  BY <1>1 DEF Promoting, Promoted, VerdictOn, Verdict
<1>3. /\ event' \in [EventId -> EventObject] /\ event \in [EventId -> EventObject]
      /\ event'[e].state = Promoted(c) /\ ~event'[e].ended
      /\ \A d \in EventId \ {e} : event'[d] = event[d]
  <2>1. event \in [EventId -> EventObject]
    BY DEF Inv, TypeOK
  <2>2. event' \in [EventId -> EventObject]
    BY OpenEventInv DEF Inv, TypeOK
  <2>3. event' = [event EXCEPT ![e] =
          [Unborn EXCEPT !.camera = c, !.state = Promoted(c),
             !.tracks = {Head(call[c].batch).id}, !.lastSeen = call[c].ts]]
    BY DEF OpenEvent
  <2>. QED
    BY <2>1, <2>2, <2>3 DEF Unborn
<1>4. ~event[e].ended
  BY <1>1 DEF Inv, Quiet
<1>5. [d \in EventId |-> event'[d].state] =
        [[d \in EventId |-> event[d].state] EXCEPT ![e] = Promoted(c)]
  BY <1>3
<1>6. {d \in EventId : event'[d].ended} = {d \in EventId : event[d].ended}
  BY <1>3, <1>4
<1>. QED
  BY <1>1, <1>2, <1>5, <1>6 DEF Life!Open

LEMMA ConfirmConfirms ==
  ASSUME Inv, NEW c \in Camera, ExtendAndConfirm(c)
  PROVE  Life!Confirm(c)
<1> DEFINE e == open[c]
<1>1. /\ Promoting(c) /\ e # None /\ event[e].state # "confirmed"
      /\ event' = [event EXCEPT ![e] = [Joined(c) EXCEPT !.state = "confirmed"]]
      /\ UNCHANGED <<open, said>>
  BY DEF ExtendAndConfirm
<1>2. /\ e \in EventId /\ Joined(c) \in EventObject /\ Joined(c).ended = event[e].ended
  BY <1>1, JoinedEvent
<1>3. event \in [EventId -> EventObject] /\ event[e].state = "dismissed"
  BY <1>1, <1>2 DEF Inv, TypeOK, OpenOnes, EventObject
<1>4. /\ event'[e].state = "confirmed" /\ event'[e].ended = event[e].ended
      /\ \A d \in EventId \ {e} : event'[d] = event[d]
  BY <1>1, <1>2, <1>3 DEF EventObject
<1>5. [d \in EventId |-> event'[d].state] =
        [[d \in EventId |-> event[d].state] EXCEPT ![e] = "confirmed"]
  BY <1>2, <1>4
<1>6. {d \in EventId : event'[d].ended} = {d \in EventId : event[d].ended}
  BY <1>4
<1>. QED
  BY <1>1, <1>2, <1>3, <1>5, <1>6 DEF Life!Confirm

LEMMA CloseEventCloses ==
  ASSUME Inv, NEW p \in Caller, CloseEvent(p)
  PROVE  \E c \in Camera : Life!Close(c)
<1>1. PICK i \in 1 .. Len(known) :
        /\ FirstDue(p, "close", i)
        /\ open' = [open EXCEPT ![known[i]] = None]
        /\ event' = [event EXCEPT ![OpenAt(i)].ended = TRUE]
  BY DEF CloseEvent
<1>2. UNCHANGED said
  BY DEF CloseEvent
<1>3. known[i] \in Camera /\ OpenAt(i) \in EventId /\ OpenAt(i) = open[known[i]]
  BY <1>1, DueEvents DEF OpenAt
<1>4. event \in [EventId -> EventObject] /\ event[OpenAt(i)] \in EventObject
  BY <1>3 DEF Inv, TypeOK
<1>5. event' = [event EXCEPT ![OpenAt(i)] = [event[OpenAt(i)] EXCEPT !.ended = TRUE]]
  BY <1>1
<1>6. /\ event'[OpenAt(i)].state = event[OpenAt(i)].state /\ event'[OpenAt(i)].ended
      /\ \A d \in EventId \ {OpenAt(i)} : event'[d] = event[d]
  BY <1>3, <1>4, <1>5 DEF EventObject
<1>7. [d \in EventId |-> event'[d].state] = [d \in EventId |-> event[d].state]
  BY <1>6
<1>8. {d \in EventId : event'[d].ended} =
        {d \in EventId : event[d].ended} \union {open[known[i]]}
  BY <1>3, <1>6
<1>9. open[known[i]] # None
  BY <1>3, EngineAssumption
<1>. QED
  BY <1>1, <1>2, <1>3, <1>7, <1>8, <1>9 DEF Life!Close

LEMMA AfterSnapshotSays ==
  ASSUME Inv, NEW p \in Caller, NEW promoting \in BOOLEAN,
         promoting => call[p].pc \in {"snapshot", "snapshotRow"},
         AfterSnapshot(p, promoting), UNCHANGED <<open, event>>
  PROVE  Life!Next \/ UNCHANGED Life!vars
<1>1. CASE ~promoting
  <2>1. UNCHANGED <<open, event, said>>
    BY <1>1 DEF AfterSnapshot
  <2>. QED
    BY <2>1, Stutters
<1>2. CASE promoting
  <2> DEFINE e == call[p].on
  <2>1. /\ e \in EventId /\ event[e].state = "confirmed" /\ said[e]["confirmed"] = 0
    BY <1>2 DEF Inv, OwnWork
  <2>2. said' = [said EXCEPT ![e]["confirmed"] = @ + 1]
    BY <1>2 DEF AfterSnapshot, Publish
  <2>3. said' = [said EXCEPT ![e]["confirmed"] = 1]
    BY <2>1, <2>2 DEF Inv, TypeOK, Topic
  <2>4. Life!Say(e, "confirmed")
    BY <2>1, <2>3 DEF Life!Say
  <2>. QED
    BY <2>1, <2>4 DEF Life!Next, Life!Topic
<1>. QED
  BY <1>1, <1>2

LEMMA FootageLiftedSays ==
  ASSUME Inv, NEW p \in Caller, FootageLifted(p)
  PROVE  Life!Say(call[p].on, "ended") /\ call[p].on \in EventId
<1> DEFINE e == call[p].on
<1>1. /\ call[p].pc = "upgrade"
      /\ said' = [said EXCEPT ![e]["ended"] = @ + 1] /\ UNCHANGED <<open, event>>
  BY DEF FootageLifted, Served, Foremost, Publish, memVars
<1>2. /\ e \in EventId /\ event[e].ended /\ event[e].state = "confirmed"
      /\ said[e]["ended"] = 0
  BY <1>1 DEF Inv, Closing
<1>3. said' = [said EXCEPT ![e]["ended"] = 1]
  BY <1>1, <1>2 DEF Inv, TypeOK, Topic
<1>. QED
  BY <1>1, <1>2, <1>3 DEF Life!Say

\* A field of an event other than its state and its end does not matter.
LEMMA QuietEdits ==
  ASSUME Inv, NEW e \in EventId, NEW o \in EventObject,
         o.state = event[e].state, o.ended = event[e].ended,
         event' = [event EXCEPT ![e] = o], UNCHANGED <<open, said>>
  PROVE  UNCHANGED Life!vars
<1>1. \A d \in EventId :
        event'[d].state = event[d].state /\ event'[d].ended = event[d].ended
  BY DEF Inv, TypeOK
<1>. QED
  BY <1>1, Stutters

LEMMA AskingIsQuiet ==
  ASSUME Inv, NEW p, NEW e \in EventId, NEW pc, NEW place, AskSnapshot(p, e, pc, place),
         event' \in [EventId -> EventObject], UNCHANGED <<open, said>>
  PROVE  UNCHANGED Life!vars
<1> DEFINE o == [event[e] EXCEPT !.attempts = @ + 1, !.lastTry = call[p].ts]
<1>1. event' = [event EXCEPT ![e] = o] /\ event \in [EventId -> EventObject]
  BY DEF AskSnapshot, Inv, TypeOK
<1>2. event'[e] = o
  BY <1>1
<1>3. o \in EventObject /\ o.state = event[e].state /\ o.ended = event[e].ended
  BY <1>1, <1>2 DEF EventObject
<1>. HIDE DEF o
<1>. QED
  BY <1>1, <1>3, QuietEdits

LEMMA PipelineStepRefines ==
  ASSUME Inv, NEW c \in Camera, Frame(c) \/ PipelineStep(c)
  PROVE  Life!Next \/ UNCHANGED Life!vars
<1>1. CASE Frame(c) \/ PassOver(c)
  BY <1>1, Stutters DEF Frame, PassOver, memVars
<1>2. CASE Detected(c)
  <2>1. UNCHANGED <<open, said>>
    BY <1>2 DEF Detected
  <2>2. CASE event' = event
    BY <2>1, <2>2, Stutters
  <2>3. CASE open[c] # None /\ event' = [event EXCEPT ![open[c]].lastSeen = call[c].ts]
    <3> DEFINE o == [event[open[c]] EXCEPT !.lastSeen = call[c].ts]
    <3>1. event' = [event EXCEPT ![open[c]] = o] /\ open[c] \in EventId
      BY <2>3 DEF Inv, TypeOK
    <3>2. event[open[c]] \in EventObject /\ call[c].ts \in 0 .. MaxNow
      BY <3>1 DEF Inv, TypeOK, Call, Caller
    <3>3. /\ o \in EventObject /\ o.state = event[open[c]].state
          /\ o.ended = event[open[c]].ended
      BY <3>2 DEF EventObject
    <3>. HIDE DEF o
    <3>. QED
      BY <2>1, <3>1, <3>3, QuietEdits
  <2>. QED
    BY <1>2, <2>2, <2>3 DEF Detected
<1>3. CASE Extend(c)
  <2>1. /\ Promoting(c) /\ open[c] # None
        /\ event' = [event EXCEPT ![open[c]] = Joined(c)] /\ UNCHANGED <<open, said>>
    BY <1>3 DEF Extend
  <2>. QED
    BY <2>1, JoinedEvent, QuietEdits
<1>4. CASE ExtendAndConfirm(c)
  BY <1>4, ConfirmConfirms DEF Life!Next
<1>5. CASE \E e \in EventId : OpenEvent(c, e)
  BY <1>5, OpenEventOpens DEF Life!Next
<1>. QED
  BY <1>1, <1>2, <1>3, <1>4, <1>5 DEF PipelineStep

LEMMA CallerStepRefines ==
  ASSUME Inv, NEW p \in Caller, Step(p)
  PROVE  Life!Next \/ UNCHANGED Life!vars
<1>1. event' \in [EventId -> EventObject]
  <2>1. [Next]_vars
    BY DEF Next
  <2>. QED
    BY <2>1, StepInv DEF Inv, TypeOK
<1>2. CASE Inserted(p)
  <2>1. call[p].on \in EventId
    BY <1>2 DEF Inserted, Served, Foremost, Inv, OwnWork
  <2>2. UNCHANGED <<open, said>>
    BY <1>2 DEF Inserted
  <2>3. AskSnapshot(p, call[p].on, "snapshot", 1) \/ UNCHANGED event
    BY <1>2 DEF Inserted
  <2>. QED
    BY <1>1, <2>1, <2>2, <2>3, AskingIsQuiet, Stutters
<1>3. CASE ConfirmStored(p)
  <2>1. call[p].on \in EventId
    BY <1>3 DEF ConfirmStored, Served, Foremost, Inv, OwnWork
  <2>2. AskSnapshot(p, call[p].on, "snapshot", 1) /\ UNCHANGED <<open, said>>
    BY <1>3 DEF ConfirmStored
  <2>. QED
    BY <1>1, <2>1, <2>2, AskingIsQuiet
<1>4. CASE CallFails(p) \/ LoopBreaks(p) \/ LoopEnds(p) \/ CloseStored(p)
  BY <1>4, Stutters DEF CallFails, LoopBreaks, LoopEnds, CloseStored, memVars
<1>5. CASE SnapshotTaken(p)
  <2> DEFINE e == call[p].on
             o == [event[e] EXCEPT !.snapshot = TRUE]
  <2>1. event' = [event EXCEPT ![e] = o] /\ UNCHANGED <<open, said>>
    BY <1>5 DEF SnapshotTaken
  <2>2. e \in EventId /\ event[e] \in EventObject
    BY <1>5 DEF SnapshotTaken, Inv, TypeOK, OwnWork, Retrying
  <2>3. o \in EventObject /\ o.state = event[e].state /\ o.ended = event[e].ended
    BY <2>2 DEF EventObject
  <2>. HIDE DEF o, e
  <2>. QED
    BY <2>1, <2>2, <2>3, QuietEdits
<1>6. CASE SnapshotFails(p)
  <2> DEFINE promoting == call[p].pc = "snapshot"
  <2>1. promoting \in BOOLEAN /\ AfterSnapshot(p, promoting) /\ UNCHANGED <<open, event>>
    BY <1>6 DEF SnapshotFails, memVars
  <2>2. promoting => call[p].pc \in {"snapshot", "snapshotRow"}
    OBVIOUS
  <2>. HIDE DEF promoting
  <2>. QED
    BY <2>1, <2>2, AfterSnapshotSays
<1>7. CASE SnapshotStored(p)
  <2> DEFINE promoting == call[p].pc = "snapshotRow"
  <2>1. promoting \in BOOLEAN /\ AfterSnapshot(p, promoting) /\ UNCHANGED <<open, event>>
    BY <1>7 DEF SnapshotStored, memVars
  <2>2. promoting => call[p].pc \in {"snapshot", "snapshotRow"}
    OBVIOUS
  <2>. HIDE DEF promoting
  <2>. QED
    BY <2>1, <2>2, AfterSnapshotSays
<1>8. CASE RetrySnapshot(p)
  <2>1. PICK i \in 1 .. Len(known) :
          FirstDue(p, "retry", i) /\ AskSnapshot(p, OpenAt(i), "retrySnapshot", i)
    BY <1>8 DEF RetrySnapshot
  <2>2. UNCHANGED <<open, said>> /\ OpenAt(i) \in EventId
    BY <1>8, <2>1, DueEvents DEF RetrySnapshot
  <2>. QED
    BY <1>1, <2>1, <2>2, AskingIsQuiet
<1>9. CASE CloseEvent(p)
  BY <1>9, CloseEventCloses DEF Life!Next
<1>10. CASE FootageLifted(p)
  BY <1>10, FootageLiftedSays DEF Life!Next, Life!Topic
<1>. QED
  BY <1>2, <1>3, <1>4, <1>5, <1>6, <1>7, <1>8, <1>9, <1>10 DEF Step

\* The engine implements the abstract life of an event: one open event per
\* camera, a verdict that never falls, announcements of confirmed events only
\* and each at most once.
THEOREM EngineKeepsEventLife == Spec => KeepsEventLife
<1>1. Init => Life!Init
  <2> SUFFICES ASSUME Init PROVE Life!Init
    OBVIOUS
  <2>2. \A e \in EventId : event[e].state = "unborn" /\ ~event[e].ended
    BY DEF Init, Unborn
  <2>. QED
    BY <2>2 DEF Init, Life!Init, Topic, Life!Topic
<1>2. Inv /\ [Next]_vars => [Life!Next]_(Life!vars)
  <2> SUFFICES ASSUME Inv, [Next]_vars PROVE Life!Next \/ UNCHANGED Life!vars
    OBVIOUS
  <2>1. CASE Tick \/ Advance \/ UNCHANGED vars
    BY <2>1, Stutters DEF Tick, Advance, vars, memVars
  <2>2. CASE Crash
    <3>1. open' = [c \in Camera |-> None] /\ UNCHANGED <<event, said>>
      BY <2>2 DEF Crash
    <3>. QED
      BY <3>1 DEF Life!Next, Life!Lose
  <2>. QED
    BY <2>1, <2>2, PipelineStepRefines, CallerStepRefines DEF Next
<1>. QED
  BY <1>1, <1>2, EngineInvariant, PTL DEF Spec, KeepsEventLife, Life!Spec

-----------------------------------------------------------------------------
(* Nothing is lost on the way, while no database call fails.  The argument *)
(* rests on the lock: whoever has an event's row to insert queued before   *)
(* all who change that row, so that no change meets a row that is not yet  *)
(* there; and of what memory says and the table does not, or was not yet   *)
(* announced, some caller is at the place where it does it.                *)

DbPlace == {"insert", "confirmRow", "snapshotRow", "retryRow", "closeRow", "upgrade"}
WorkPlace == DbPlace \union {"snapshot"}

QueueInOrder ==
  /\ \A p \in Caller : call[p].pc \in DbPlace => \E i \in 1 .. Len(dbQueue) : dbQueue[i] = p
  /\ \A i, j \in 1 .. Len(dbQueue) : dbQueue[i] = dbQueue[j] => i = j
  /\ \A i \in 1 .. Len(dbQueue) : call[dbQueue[i]].pc \in DbPlace

InsertFirst ==
  \A i, j \in 1 .. Len(dbQueue) :
    call[dbQueue[i]].pc = "insert" /\ call[dbQueue[j]].on = call[dbQueue[i]].on => i <= j

\* Whether a call in calls works on e at one of the places.
Working(calls, e, places) == \E p \in Caller : calls[p].on = e /\ calls[p].pc \in places

ToldOf(e, ev, rw, sd, lifted, calls) ==
  /\ ev.state = "unborn" \/ Working(calls, e, {"insert"}) => rw = NoRow
  /\ ev.state # "unborn" /\ ~Working(calls, e, {"insert"}) =>
       rw.state # "none" /\ (rw.state = ev.state \/ Working(calls, e, {"confirmRow"}))
  /\ rw.ended => ev.ended
  /\ ev.ended => rw.ended \/ Working(calls, e, {"closeRow"})
  /\ rw.snapshot => ev.snapshot
  /\ ev.snapshot => rw.snapshot \/ Working(calls, e, {"snapshotRow", "retryRow"})
  /\ Working(calls, e, {"snapshotRow", "retryRow"}) => ev.snapshot
  /\ ev.state = "confirmed" =>
       sd["confirmed"] = 1 \/ Working(calls, e, {"insert", "confirmRow", "snapshot", "snapshotRow"})
  /\ ev.state = "confirmed" /\ ev.ended =>
       (sd["ended"] = 1 /\ e \in lifted) \/ Working(calls, e, {"closeRow", "upgrade"})

Told(e) == ToldOf(e, event[e], row[e], said[e], footage, call)

Undisturbed == faults = 0 /\ restarts = 0
ToldInv == QueueInOrder /\ InsertFirst /\ \A e \in EventId : Told(e)

\* A caller that moves takes its own work with it and leaves that of the others.
Others(p, e, places) == \E q \in Caller \ {p} : call[q].on = e /\ call[q].pc \in places

LEMMA WorkMoves ==
  ASSUME TypeOK, NEW p \in Caller, NEW r, call' = [call EXCEPT ![p] = r]
  PROVE  \A e, places :
           /\ Working(call, e, places) <=>
                Others(p, e, places) \/ (call[p].on = e /\ call[p].pc \in places)
           /\ Working(call', e, places) <=> Others(p, e, places) \/ (r.on = e /\ r.pc \in places)
<1>1. call'[p] = r /\ \A q \in Caller \ {p} : call'[q] = call[q]
  BY DEF TypeOK
<1> QED BY <1>1 DEF Working, Others

\* Of an event whose standing stays and that the caller did not and does not work on
\* nothing becomes owed.
LEMMA Elsewhere ==
  ASSUME TypeOK, NEW p \in Caller, NEW r, call' = [call EXCEPT ![p] = r],
         NEW e \in EventId, Told(e),
         call[p].on # e \/ call[p].pc \notin WorkPlace, r.on # e \/ r.pc \notin WorkPlace,
         event'[e].state = event[e].state, event'[e].ended = event[e].ended,
         event'[e].snapshot = event[e].snapshot, row'[e] = row[e], said'[e] = said[e],
         e \in footage' <=> e \in footage
  PROVE  Told(e)'
<1>1. ASSUME NEW places, places \subseteq WorkPlace
      PROVE  Working(call', e, places) <=> Working(call, e, places)
  BY <1>1, WorkMoves
<1>2. /\ Working(call', e, {"insert"}) <=> Working(call, e, {"insert"})
      /\ Working(call', e, {"confirmRow"}) <=> Working(call, e, {"confirmRow"})
      /\ Working(call', e, {"closeRow"}) <=> Working(call, e, {"closeRow"})
      /\ Working(call', e, {"snapshotRow", "retryRow"})
           <=> Working(call, e, {"snapshotRow", "retryRow"})
      /\ Working(call', e, {"insert", "confirmRow", "snapshot", "snapshotRow"})
           <=> Working(call, e, {"insert", "confirmRow", "snapshot", "snapshotRow"})
      /\ Working(call', e, {"closeRow", "upgrade"}) <=> Working(call, e, {"closeRow", "upgrade"})
  BY <1>1 DEF WorkPlace, DbPlace
<1>3. ToldOf(e, event[e], row[e], said[e], footage, call)
  BY DEF Told
<1>4. ToldOf(e, event'[e], row'[e], said'[e], footage', call')
  BY <1>2, <1>3 DEF ToldOf
<1> QED BY <1>4 DEF Told

\* The queue, when a caller neither joins nor leaves it, when one joins, and when the
\* foremost is served.
LEMMA QueueRests ==
  ASSUME TypeOK, QueueInOrder, InsertFirst, NEW p \in Caller, NEW r,
         call' = [call EXCEPT ![p] = r], call[p].pc \notin DbPlace, r.pc \notin DbPlace,
         UNCHANGED dbQueue
  PROVE  QueueInOrder' /\ InsertFirst'
<1>1. call'[p] = r /\ \A q \in Caller \ {p} : call'[q] = call[q]
  BY DEF TypeOK
<1>2. \A i \in 1 .. Len(dbQueue) : dbQueue[i] \in Caller \ {p}
  BY DEF TypeOK, QueueInOrder
<1>3. QueueInOrder'
  BY <1>1, <1>2 DEF QueueInOrder
<1>4. InsertFirst'
  BY <1>1, <1>2 DEF InsertFirst
<1> QED BY <1>3, <1>4

LEMMA QueueJoined ==
  ASSUME TypeOK, QueueInOrder, InsertFirst, NEW p \in Caller, NEW r,
         call' = [call EXCEPT ![p] = r], call[p].pc \notin DbPlace, r.pc \in DbPlace,
         dbQueue' = Append(dbQueue, p),
         r.pc = "insert" =>
           \A q \in Caller \ {p} : call[q].pc \in DbPlace => call[q].on # r.on
  PROVE  QueueInOrder' /\ InsertFirst'
<1>1. call'[p] = r /\ \A q \in Caller \ {p} : call'[q] = call[q]
  BY DEF TypeOK
<1>2. PICK n \in Nat : n = Len(dbQueue)
  BY DEF TypeOK
<1>3. /\ Len(dbQueue') = n + 1 /\ dbQueue'[n + 1] = p
      /\ \A i \in 1 .. n : dbQueue'[i] = dbQueue[i] /\ dbQueue[i] \in Caller
  BY <1>2 DEF TypeOK
<1>4. \A i \in 1 .. n : dbQueue[i] # p /\ call[dbQueue[i]].pc \in DbPlace
  BY <1>2 DEF QueueInOrder
<1>5. \A i \in 1 .. (n + 1) : i \in 1 .. n \/ i = n + 1
  OBVIOUS
<1>6. ASSUME NEW q \in Caller, call'[q].pc \in DbPlace
      PROVE  \E i \in 1 .. (n + 1) : dbQueue'[i] = q
  <2>1. CASE q = p
    BY <1>3, <2>1
  <2>2. CASE q # p
    <3>1. PICK i \in 1 .. n : dbQueue[i] = q
      BY <1>1, <1>2, <1>6, <2>2 DEF QueueInOrder
    <3> QED BY <1>3, <3>1
  <2> QED BY <2>1, <2>2
<1>7. ASSUME NEW i \in 1 .. (n + 1), NEW j \in 1 .. (n + 1), dbQueue'[i] = dbQueue'[j]
      PROVE  i = j
  BY <1>2, <1>3, <1>4, <1>5, <1>7 DEF QueueInOrder
<1>8. ASSUME NEW i \in 1 .. (n + 1) PROVE call'[dbQueue'[i]].pc \in DbPlace
  BY <1>1, <1>3, <1>4, <1>5
<1>9. ASSUME NEW i \in 1 .. (n + 1), NEW j \in 1 .. (n + 1),
             call'[dbQueue'[i]].pc = "insert", call'[dbQueue'[j]].on = call'[dbQueue'[i]].on
      PROVE  i <= j
  <2>1. CASE i \in 1 .. n /\ j \in 1 .. n
    BY <1>1, <1>2, <1>3, <1>4, <1>9, <2>1 DEF InsertFirst
  <2>2. CASE j = n + 1
    BY <2>2
  <2>3. CASE i = n + 1 /\ j \in 1 .. n
    BY <1>1, <1>3, <1>4, <1>9, <2>3
  <2> QED BY <1>5, <2>1, <2>2, <2>3
<1> QED BY <1>3, <1>6, <1>7, <1>8, <1>9 DEF QueueInOrder, InsertFirst

\* Whoever is served leaves, or goes to the end to have the footage lifted.
LEMMA QueueServed ==
  ASSUME TypeOK, QueueInOrder, InsertFirst, NEW p \in Caller, NEW r, NEW pc, Foremost(p, pc),
         call' = [call EXCEPT ![p] = r],
         \/ r.pc \notin DbPlace /\ dbQueue' = Tail(dbQueue)
         \/ r.pc = "upgrade" /\ dbQueue' = Append(Tail(dbQueue), p)
  PROVE  QueueInOrder' /\ InsertFirst'
<1>1. call'[p] = r /\ \A q \in Caller \ {p} : call'[q] = call[q]
  BY DEF TypeOK
<1>2. PICK n \in Nat : Len(dbQueue) = n + 1
  <2>1. Len(dbQueue) \in Nat /\ Len(dbQueue) # 0
    BY DEF TypeOK, Foremost
  <2>2. Len(dbQueue) - 1 \in Nat /\ Len(dbQueue) = (Len(dbQueue) - 1) + 1
    BY <2>1
  <2> QED BY <2>2
<1>3. PICK rest : rest = Tail(dbQueue)
  OBVIOUS
<1>4. /\ rest \in Seq(Caller) /\ Len(rest) = n
      /\ \A i \in 1 .. n : rest[i] = dbQueue[i + 1] /\ rest[i] \in Caller
  BY <1>2, <1>3 DEF TypeOK, Foremost
<1>5. dbQueue[1] = p
  BY DEF TypeOK, Foremost
<1>6. \A i \in 1 .. n : i + 1 \in 1 .. (n + 1) /\ i + 1 # 1
  OBVIOUS
<1>7. \A i \in 1 .. n : rest[i] # p /\ call[rest[i]].pc \in DbPlace
  BY <1>2, <1>4, <1>5, <1>6 DEF QueueInOrder
<1>8. ASSUME NEW i \in 1 .. n, NEW j \in 1 .. n, rest[i] = rest[j] PROVE i = j
  <2>1. i + 1 = j + 1
    BY <1>2, <1>4, <1>6, <1>8 DEF QueueInOrder
  <2> QED BY <2>1
<1>9. ASSUME NEW q \in Caller \ {p}, call[q].pc \in DbPlace
      PROVE  \E i \in 1 .. n : rest[i] = q
  <2>1. PICK i \in 1 .. (n + 1) : dbQueue[i] = q
    BY <1>2, <1>9 DEF QueueInOrder
  <2>2. i # 1 /\ i - 1 \in 1 .. n /\ (i - 1) + 1 = i
    BY <1>5, <2>1
  <2> QED BY <1>4, <2>1, <2>2
<1>10. ASSUME NEW i \in 1 .. n, NEW j \in 1 .. n,
              call[rest[i]].pc = "insert", call[rest[j]].on = call[rest[i]].on
       PROVE  i <= j
  <2>1. i + 1 <= j + 1
    BY <1>2, <1>4, <1>6, <1>10 DEF InsertFirst
  <2> QED BY <2>1
<1>11. CASE r.pc \notin DbPlace /\ dbQueue' = Tail(dbQueue)
  <2>1. dbQueue' = rest /\ Len(dbQueue') = n
    BY <1>3, <1>4, <1>11
  <2>2. \A q \in Caller : call'[q].pc \in DbPlace => \E i \in 1 .. n : rest[i] = q
    <3> SUFFICES ASSUME NEW q \in Caller, call'[q].pc \in DbPlace
                 PROVE  \E i \in 1 .. n : rest[i] = q
      OBVIOUS
    <3>1. q \in Caller \ {p} /\ call[q].pc \in DbPlace
      BY <1>1, <1>11
    <3> QED BY <1>9, <3>1
  <2>3. \A i \in 1 .. n : call'[rest[i]] = call[rest[i]]
    BY <1>1, <1>4, <1>7
  <2>4. QueueInOrder'
    BY <1>7, <1>8, <2>1, <2>2, <2>3 DEF QueueInOrder
  <2>5. InsertFirst'
    BY <1>10, <2>1, <2>3 DEF InsertFirst
  <2> QED BY <2>4, <2>5
<1>12. CASE r.pc = "upgrade" /\ dbQueue' = Append(Tail(dbQueue), p)
  <2>1. /\ Len(dbQueue') = n + 1 /\ dbQueue'[n + 1] = p
        /\ \A i \in 1 .. n : dbQueue'[i] = rest[i]
    BY <1>3, <1>4, <1>12
  <2>2. \A i \in 1 .. (n + 1) : i \in 1 .. n \/ i = n + 1
    OBVIOUS
  <2>3. \A q \in Caller : call'[q].pc \in DbPlace => \E i \in 1 .. (n + 1) : dbQueue'[i] = q
    <3> SUFFICES ASSUME NEW q \in Caller, call'[q].pc \in DbPlace
                 PROVE  \E i \in 1 .. (n + 1) : dbQueue'[i] = q
      OBVIOUS
    <3>1. CASE q = p
      BY <2>1, <3>1
    <3>2. CASE q # p
      <4>1. PICK i \in 1 .. n : rest[i] = q
        BY <1>1, <1>9, <3>2
      <4> QED BY <2>1, <4>1
    <3> QED BY <3>1, <3>2
  <2>4. ASSUME NEW i \in 1 .. (n + 1), NEW j \in 1 .. (n + 1), dbQueue'[i] = dbQueue'[j] PROVE i = j
    <3>1. CASE i \in 1 .. n /\ j \in 1 .. n
      BY <1>8, <2>1, <2>4, <3>1
    <3>2. CASE i = n + 1 /\ j \in 1 .. n
      BY <1>7, <2>1, <2>4, <3>2
    <3>3. CASE i \in 1 .. n /\ j = n + 1
      BY <1>7, <2>1, <2>4, <3>3
    <3> QED BY <2>2, <3>1, <3>2, <3>3
  <2>5. ASSUME NEW i \in 1 .. (n + 1) PROVE call'[dbQueue'[i]].pc \in DbPlace
    <3>1. CASE i \in 1 .. n
      BY <1>1, <1>4, <1>7, <2>1, <3>1
    <3>2. CASE i = n + 1
      BY <1>1, <1>12, <2>1, <3>2 DEF DbPlace
    <3> QED BY <2>2, <3>1, <3>2
  <2>6. ASSUME NEW i \in 1 .. (n + 1), NEW j \in 1 .. (n + 1),
               call'[dbQueue'[i]].pc = "insert", call'[dbQueue'[j]].on = call'[dbQueue'[i]].on
        PROVE  i <= j
    <3>0. i # n + 1
      BY <1>1, <1>12, <2>1, <2>6
    <3>1. i \in 1 .. n /\ dbQueue'[i] = rest[i] /\ rest[i] \in Caller \ {p}
      BY <1>4, <1>7, <2>1, <2>2, <3>0
    <3>2. CASE j \in 1 .. n
      BY <1>1, <1>4, <1>7, <1>10, <2>1, <2>6, <3>1, <3>2
    <3>3. CASE j = n + 1
      BY <3>1, <3>3
    <3> QED BY <2>2, <3>2, <3>3
  <2> QED BY <2>1, <2>3, <2>4, <2>5, <2>6 DEF QueueInOrder, InsertFirst
<1> QED BY <1>11, <1>12

\* Who is served finds the row in place, unless it inserts it.
LEMMA RowsAreThere ==
  ASSUME TypeOK, QueueInOrder, InsertFirst, NEW p \in Caller, NEW pc, Foremost(p, pc), pc # "insert"
  PROVE  ~Working(call, call[p].on, {"insert"})
<1> SUFFICES ASSUME NEW q \in Caller, call[q].on = call[p].on, call[q].pc = "insert" PROVE FALSE
  BY DEF Working
<1>1. PICK i \in 1 .. Len(dbQueue) : dbQueue[i] = q
  BY DEF QueueInOrder, DbPlace
<1>2. 1 \in 1 .. Len(dbQueue) /\ dbQueue[1] = p /\ call[p].pc = pc
  BY DEF TypeOK, Foremost
<1>3. i <= 1
  BY <1>1, <1>2 DEF InsertFirst
<1> QED BY <1>1, <1>2, <1>3 DEF TypeOK

\* Nothing becomes owed by a caller that roams or asks again for a snapshot.
LEMMA NothingOwed ==
  ASSUME Inv, ToldInv, NEW p \in Caller, NEW r, call' = [call EXCEPT ![p] = r],
         call[p].pc \notin WorkPlace, r.pc \notin WorkPlace,
         \A e \in EventId :
           event'[e].state = event[e].state /\ event'[e].ended = event[e].ended
           /\ event'[e].snapshot = event[e].snapshot,
         UNCHANGED <<row, said, footage, dbQueue>>
  PROVE  ToldInv'
<1>1. QueueInOrder' /\ InsertFirst'
  BY QueueRests DEF Inv, ToldInv, WorkPlace
<1>2. ASSUME NEW e \in EventId PROVE Told(e)'
  BY <1>2, Elsewhere DEF Inv, ToldInv
<1> QED BY <1>1, <1>2 DEF ToldInv

\* A step that concerns one event owes the others nothing new.
LEMMA OthersStayTold ==
  ASSUME Inv, ToldInv, NEW p \in Caller, NEW r, call' = [call EXCEPT ![p] = r],
         NEW one \in EventId,
         call[p].on = one \/ call[p].pc \notin WorkPlace, r.on = one \/ r.pc \notin WorkPlace,
         \A e \in EventId \ {one} :
           /\ event'[e].state = event[e].state /\ event'[e].ended = event[e].ended
           /\ event'[e].snapshot = event[e].snapshot
           /\ row'[e] = row[e] /\ said'[e] = said[e] /\ (e \in footage' <=> e \in footage),
         Told(one)'
  PROVE  \A e \in EventId : Told(e)'
<1> SUFFICES ASSUME NEW e \in EventId \ {one} PROVE Told(e)'
  OBVIOUS
<1>1. /\ call[p].on # e \/ call[p].pc \notin WorkPlace
      /\ r.on # e \/ r.pc \notin WorkPlace
  OBVIOUS
<1> QED BY <1>1, Elsewhere DEF Inv, ToldInv

\* Who works on the one event, before and after the step of p.
LEMMA WorkOnOne ==
  ASSUME TypeOK, NEW p \in Caller, NEW r, call' = [call EXCEPT ![p] = r], NEW one,
         call[p].on = one \/ call[p].pc \notin WorkPlace, r.on = one \/ r.pc \notin WorkPlace
  PROVE  \A places \in SUBSET WorkPlace :
           /\ Working(call, one, places) <=> Others(p, one, places) \/ call[p].pc \in places
           /\ Working(call', one, places) <=> Others(p, one, places) \/ r.pc \in places
BY WorkMoves

LEMMA WorkPlaces ==
  /\ {"insert"} \in SUBSET WorkPlace /\ {"confirmRow"} \in SUBSET WorkPlace
  /\ {"closeRow"} \in SUBSET WorkPlace /\ {"snapshotRow", "retryRow"} \in SUBSET WorkPlace
  /\ {"insert", "confirmRow", "snapshot", "snapshotRow"} \in SUBSET WorkPlace
  /\ {"closeRow", "upgrade"} \in SUBSET WorkPlace
BY DEF WorkPlace, DbPlace

SameTale ==
  \A e \in EventId :
    /\ event'[e].state = event[e].state /\ event'[e].ended = event[e].ended
    /\ event'[e].snapshot = event[e].snapshot

LEMMA AskingTellsNothing ==
  ASSUME TypeOK, NEW p \in Caller, NEW e \in EventId, NEW pc, NEW place,
         AskSnapshot(p, e, pc, place)
  PROVE  /\ SameTale
         /\ \E r : call' = [call EXCEPT ![p] = r] /\ r.pc = pc /\ r.on = e
<1>1. event[e] \in EventObject /\ call[p] \in Call
  BY DEF TypeOK
<1>2. PICK asked : asked = [event[e] EXCEPT !.attempts = @ + 1, !.lastTry = call[p].ts]
  OBVIOUS
<1>3. asked.state = event[e].state /\ asked.ended = event[e].ended
      /\ asked.snapshot = event[e].snapshot
  BY <1>1, <1>2 DEF EventObject
<1>4. event' = [event EXCEPT ![e] = asked]
  BY <1>2 DEF AskSnapshot
<1>5. SameTale
  BY <1>3, <1>4 DEF SameTale, TypeOK
<1>6. PICK r : r = [call[p] EXCEPT !.pc = pc, !.on = e, !.place = place]
  OBVIOUS
<1>7. r.pc = pc /\ r.on = e
  BY <1>1, <1>6 DEF Call
<1>8. call' = [call EXCEPT ![p] = r]
  BY <1>6 DEF AskSnapshot, Await
<1> QED BY <1>5, <1>7, <1>8

LEMMA FrameTells == ASSUME Inv, ToldInv, NEW c \in Camera, Frame(c) PROVE ToldInv'
<1>1. \E r : call' = [call EXCEPT ![c] = r] /\ r.pc = "detecting"
  <2>1. PICK r : r = [Idle EXCEPT !.pc = "detecting", !.ts = now]
    OBVIOUS
  <2>2. r.pc = "detecting"
    BY <2>1 DEF Idle
  <2> QED BY <2>1, <2>2 DEF Frame, Await
<1>2. call[c].pc = "idle" /\ UNCHANGED <<event, row, said, footage, dbQueue>>
  BY DEF Frame, memVars, dbVars
<1> QED BY <1>1, <1>2, NothingOwed DEF Caller, WorkPlace, DbPlace

LEMMA PassOverTells == ASSUME Inv, ToldInv, NEW c \in Camera, PassOver(c) PROVE ToldInv'
<1>1. c \in Caller /\ call[c] \in Call
  BY DEF Caller, Inv, TypeOK
<1>2. PICK r : call' = [call EXCEPT ![c] = r] /\ r.pc \in {"promote", "retry"}
  BY <1>1, ZenonT(60) DEF PassOver, RunOn, LoopAt, Call
<1>3. call[c].pc = "promote" /\ UNCHANGED <<event, row, said, footage, dbQueue>>
  BY DEF PassOver, memVars, dbVars
<1> QED BY <1>1, <1>2, <1>3, NothingOwed DEF WorkPlace, DbPlace

LEMMA TickTells == ASSUME Inv, ToldInv, Tick PROVE ToldInv'
<1>1. Ticker \in Caller
  BY DEF Caller
<1>2. LoopAt(Ticker, "retry").pc = "retry" /\ LoopAt(Ticker, "retry") \in Call
  BY <1>1, CallsGoOn DEF Inv, Place
<1>3. \E r : call' = [call EXCEPT ![Ticker] = r] /\ r.pc = "retry"
  <2>1. PICK r : r = [LoopAt(Ticker, "retry") EXCEPT !.ts = now]
    OBVIOUS
  <2>2. r.pc = "retry"
    BY <2>1, <1>2 DEF Call
  <2> QED BY <2>1, <2>2 DEF Tick, RunOn
<1>4. call[Ticker].pc = "idle" /\ UNCHANGED <<event, row, said, footage, dbQueue>>
  BY DEF Tick, memVars, dbVars
<1> QED BY <1>1, <1>3, <1>4, NothingOwed DEF WorkPlace, DbPlace

LEMMA LoopBreaksTells == ASSUME Inv, ToldInv, NEW p \in Caller, LoopBreaks(p) PROVE ToldInv'
<1>1. \E r : call' = [call EXCEPT ![p] = r] /\ r.pc = "idle"
  <2>1. PICK r : r = Idle
    OBVIOUS
  <2>2. r.pc = "idle"
    BY <2>1 DEF Idle
  <2> QED BY <2>1, <2>2 DEF LoopBreaks, Await
<1>2. call[p].pc \in {"retry", "close"} /\ UNCHANGED <<event, row, said, footage, dbQueue>>
  BY DEF LoopBreaks, Looping, memVars, dbVars
<1> QED BY <1>1, <1>2, NothingOwed DEF WorkPlace, DbPlace

LEMMA LoopEndsTells == ASSUME Inv, ToldInv, NEW p \in Caller, LoopEnds(p) PROVE ToldInv'
<1>1. LoopAt(p, "close").pc = "close"
  BY CallsGoOn DEF Inv, Place
<1>2. PICK r : call' = [call EXCEPT ![p] = r] /\ r.pc \in {"idle", "close"}
  BY <1>1 DEF LoopEnds, RunOn, Await, Idle
<1>3. call[p].pc \in {"retry", "close"} /\ UNCHANGED <<event, row, said, footage, dbQueue>>
  BY DEF LoopEnds, Looping, memVars, dbVars
<1> QED BY <1>2, <1>3, NothingOwed DEF WorkPlace, DbPlace

LEMMA RetrySnapshotTells ==
  ASSUME Inv, ToldInv, NEW p \in Caller, RetrySnapshot(p) PROVE ToldInv'
<1>1. PICK i \in 1 .. Len(known) :
        FirstDue(p, "retry", i) /\ AskSnapshot(p, OpenAt(i), "retrySnapshot", i)
  BY DEF RetrySnapshot
<1>2. OpenAt(i) \in EventId /\ call[p].pc = "retry"
  BY <1>1, DueEvents
<1>3. SameTale /\ \E r : call' = [call EXCEPT ![p] = r] /\ r.pc = "retrySnapshot"
  BY <1>1, <1>2, AskingTellsNothing DEF Inv
<1>4. UNCHANGED <<row, said, footage, dbQueue>>
  BY DEF RetrySnapshot, dbVars
<1> QED BY <1>2, <1>3, <1>4, NothingOwed DEF WorkPlace, DbPlace, SameTale

LEMMA DetectedTells == ASSUME Inv, ToldInv, NEW c \in Camera, Detected(c) PROVE ToldInv'
<1>1. c \in Caller /\ call[c] \in Call
  BY DEF Caller, Inv, TypeOK
<1>2. PICK batch \in Batches :
        /\ event' =
             IF open[c] # None /\ \E i \in 1 .. Len(batch) : batch[i].id \in event[open[c]].tracks
               THEN [event EXCEPT ![open[c]].lastSeen = call[c].ts]
               ELSE event
        /\ RunOn(c, [call[c] EXCEPT !.pc = "promote", !.batch = batch])
  BY DEF Detected
<1>3. SameTale
  <2>1. CASE open[c] # None /\ event' = [event EXCEPT ![open[c]].lastSeen = call[c].ts]
    <3>1. open[c] \in EventId /\ event[open[c]] \in EventObject
      BY <2>1 DEF Inv, TypeOK
    <3>2. PICK seen : seen = [event[open[c]] EXCEPT !.lastSeen = call[c].ts]
      OBVIOUS
    <3>3. seen.state = event[open[c]].state /\ seen.ended = event[open[c]].ended
          /\ seen.snapshot = event[open[c]].snapshot
      BY <3>1, <3>2 DEF EventObject
    <3>4. event' = [event EXCEPT ![open[c]] = seen]
      BY <2>1, <3>2
    <3> QED BY <3>1, <3>3, <3>4 DEF SameTale, Inv, TypeOK
  <2>2. CASE event' = event
    BY <2>2 DEF SameTale
  <2> QED BY <1>2, <2>1, <2>2
<1>4. \E r : call' = [call EXCEPT ![c] = r] /\ r.pc = "promote"
  <2>1. PICK r : r = [call[c] EXCEPT !.pc = "promote", !.batch = batch]
    OBVIOUS
  <2>2. r.pc = "promote"
    BY <2>1, <1>1 DEF Call
  <2> QED BY <2>1, <2>2, <1>2 DEF RunOn
<1>5. call[c].pc = "detecting" /\ UNCHANGED <<row, said, footage, dbQueue>>
  BY DEF Detected, dbVars
<1> QED BY <1>1, <1>3, <1>4, <1>5, NothingOwed DEF SameTale, WorkPlace, DbPlace

LEMMA ExtendTells == ASSUME Inv, ToldInv, NEW c \in Camera, Extend(c) PROVE ToldInv'
<1>1. /\ Promoting(c) /\ open[c] # None
      /\ event' = [event EXCEPT ![open[c]] = Joined(c)]
      /\ UNCHANGED <<row, said, footage, dbQueue>>
  BY DEF Extend, dbVars
<1>2. c \in Caller /\ call[c] \in Call /\ call[c].pc = "promote"
  BY <1>1, BatchesAreTracks DEF Inv
<1>3. \E r : call' = [call EXCEPT ![c] = r] /\ r.pc = "promote"
  <2>1. PICK r : r = [call[c] EXCEPT !.batch = Tail(@)]
    OBVIOUS
  <2>2. r.pc = "promote"
    BY <2>1, <1>2 DEF Call
  <2> QED BY <2>1, <2>2 DEF Extend, RunOn
<1>4. SameTale
  <2>1. open[c] \in EventId /\ event[open[c]] \in EventObject
        /\ Joined(c).state = event[open[c]].state /\ Joined(c).ended = event[open[c]].ended
    BY <1>1, JoinedEvent DEF Inv, TypeOK
  <2>2. Joined(c).snapshot = event[open[c]].snapshot
    BY <2>1 DEF Joined, EventObject
  <2> QED BY <1>1, <2>1, <2>2 DEF SameTale, Inv, TypeOK
<1> QED BY <1>1, <1>2, <1>3, <1>4, NothingOwed DEF SameTale, WorkPlace, DbPlace

LEMMA AfterSnapshotTells ==
  ASSUME Inv, NEW p \in Caller, NEW promoting \in BOOLEAN, call[p].on \in EventId,
         promoting => call[p].pc \in {"snapshot", "snapshotRow"}, AfterSnapshot(p, promoting)
  PROVE  /\ \E r : call' = [call EXCEPT ![p] = r]
                   /\ r.pc = IF promoting THEN "promote" ELSE "retry"
         /\ \A e \in EventId \ {call[p].on} : said'[e] = said[e]
         /\ said'[call[p].on]["ended"] = said[call[p].on]["ended"]
         /\ said'[call[p].on]["confirmed"] =
              IF promoting THEN 1 ELSE said[call[p].on]["confirmed"]
<1>1. CASE promoting
  <2>1. PICK e \in EventId : e = call[p].on
    OBVIOUS
  <2>2. said \in [EventId -> [Topic -> Nat]] /\ said[e] \in [Topic -> Nat]
        /\ said[e]["confirmed"] = 0
    BY <1>1, <2>1 DEF Inv, TypeOK, OwnWork
  <2>3. PICK heard : heard = [said[e] EXCEPT !["confirmed"] = @ + 1]
    OBVIOUS
  <2>4. said' = [said EXCEPT ![e] = heard]
    BY <1>1, <2>1, <2>3 DEF AfterSnapshot, Publish
  <2>5. heard["confirmed"] = 1 /\ heard["ended"] = said[e]["ended"]
    BY <2>2, <2>3 DEF Topic
  <2>6. PICK r : r = [At(p, "promote") EXCEPT !.on = None]
    OBVIOUS
  <2>7. At(p, "promote") \in Call /\ At(p, "promote").pc = "promote"
    BY CallsGoOn DEF Inv, Place
  <2>8. r.pc = "promote"
    BY <2>6, <2>7 DEF Call
  <2>9. call' = [call EXCEPT ![p] = r]
    BY <1>1, <2>6 DEF AfterSnapshot, RunOn
  <2>10. said'[e] = heard /\ \A d \in EventId \ {e} : said'[d] = said[d]
    BY <2>2, <2>4
  <2> QED BY <1>1, <2>1, <2>5, <2>8, <2>9, <2>10
<1>2. CASE ~promoting
  <2>1. OnwardAt(p, "retry").pc = "retry"
    BY CallsGoOn DEF Inv, Place
  <2>2. call' = [call EXCEPT ![p] = OnwardAt(p, "retry")] /\ said' = said
    BY <1>2 DEF AfterSnapshot, RunOn
  <2> QED BY <1>2, <2>1, <2>2
<1> QED BY <1>1, <1>2

LEMMA SnapshotFailsTells ==
  ASSUME Inv, ToldInv, NEW p \in Caller, SnapshotFails(p) PROVE ToldInv'
<1>1. /\ call[p].pc \in {"snapshot", "retrySnapshot"}
      /\ AfterSnapshot(p, call[p].pc = "snapshot")
      /\ UNCHANGED <<event, row, footage, dbQueue>>
  BY DEF SnapshotFails, memVars, dbVars
<1>2. PICK e \in EventId : e = call[p].on
  BY <1>1 DEF Inv, OwnWork, Retrying
<1>3. PICK r :
        /\ call' = [call EXCEPT ![p] = r] /\ r.pc \in {"promote", "retry"}
        /\ \A d \in EventId \ {e} : said'[d] = said[d]
        /\ said'[e]["ended"] = said[e]["ended"]
        /\ said'[e]["confirmed"] =
             IF call[p].pc = "snapshot" THEN 1 ELSE said[e]["confirmed"]
  <2> DEFINE promoting == call[p].pc = "snapshot"
  <2>1. promoting \in BOOLEAN /\ AfterSnapshot(p, promoting)
        /\ (promoting => call[p].pc \in {"snapshot", "snapshotRow"})
    BY <1>1
  <2> HIDE DEF promoting
  <2>2. /\ \E r : call' = [call EXCEPT ![p] = r]
                  /\ r.pc = IF promoting THEN "promote" ELSE "retry"
        /\ \A d \in EventId \ {e} : said'[d] = said[d]
        /\ said'[e]["ended"] = said[e]["ended"]
        /\ said'[e]["confirmed"] = IF promoting THEN 1 ELSE said[e]["confirmed"]
    BY <1>2, <2>1, AfterSnapshotTells
  <2> QED BY <2>2 DEF promoting
<1>4. call[p].pc \notin DbPlace /\ r.pc \notin WorkPlace
  BY <1>1, <1>3 DEF DbPlace, WorkPlace
<1>5. \A places \in SUBSET WorkPlace :
        /\ Working(call, e, places) <=> Others(p, e, places) \/ call[p].pc \in places
        /\ Working(call', e, places) <=> Others(p, e, places) \/ r.pc \in places
  BY <1>2, <1>3, <1>4, WorkOnOne DEF Inv
<1>6. ToldOf(e, event[e], row[e], said[e], footage, call)
  BY DEF ToldInv, Told
<1>7. ToldOf(e, event[e], row[e], said'[e], footage, call')
  BY <1>1, <1>3, <1>5, <1>6, WorkPlaces DEF ToldOf
<1>8. \A d \in EventId : Told(d)'
  BY <1>1, <1>2, <1>3, <1>4, <1>7, OthersStayTold DEF Told
<1>9. QueueInOrder' /\ InsertFirst'
  BY <1>1, <1>3, <1>4, QueueRests DEF Inv, ToldInv, WorkPlace
<1> QED BY <1>8, <1>9 DEF ToldInv

LEMMA SnapshotTakenTells ==
  ASSUME Inv, ToldInv, NEW p \in Caller, SnapshotTaken(p) PROVE ToldInv'
<1>1. /\ call[p].pc \in {"snapshot", "retrySnapshot"}
      /\ event' = [event EXCEPT ![call[p].on].snapshot = TRUE]
      /\ dbQueue' = Append(dbQueue, p)
      /\ UNCHANGED <<row, said, footage>>
  BY DEF SnapshotTaken, AwaitDb, dbVars
<1>2. PICK e \in EventId : e = call[p].on
  BY <1>1 DEF Inv, OwnWork, Retrying
<1>3. PICK r :
        /\ call' = [call EXCEPT ![p] = r] /\ r.on = e
        /\ r.pc = IF call[p].pc = "snapshot" THEN "snapshotRow" ELSE "retryRow"
  <2>1. PICK pc \in Place : pc = IF call[p].pc = "snapshot" THEN "snapshotRow" ELSE "retryRow"
    BY DEF Place
  <2>2. call' = [call EXCEPT ![p] = At(p, pc)]
    BY <2>1 DEF SnapshotTaken, AwaitDb, Await
  <2> QED BY <1>2, <2>1, <2>2, CallsGoOn, ZenonT(60) DEF Inv
<1>4. call[p].pc \notin DbPlace /\ r.pc \in DbPlace /\ r.pc # "insert"
  BY <1>1, <1>3 DEF DbPlace
<1>5. \A places \in SUBSET WorkPlace :
        /\ Working(call, e, places) <=> Others(p, e, places) \/ call[p].pc \in places
        /\ Working(call', e, places) <=> Others(p, e, places) \/ r.pc \in places
  BY <1>2, <1>3, WorkOnOne DEF Inv
<1>6. /\ event'[e].snapshot /\ event'[e].state = event[e].state
      /\ event'[e].ended = event[e].ended
      /\ \A d \in EventId \ {e} : event'[d] = event[d]
  <2>1. event[e] \in EventObject
    BY DEF Inv, TypeOK
  <2>2. PICK pictured : pictured = [event[e] EXCEPT !.snapshot = TRUE]
    OBVIOUS
  <2>3. pictured.snapshot /\ pictured.state = event[e].state /\ pictured.ended = event[e].ended
    BY <2>1, <2>2 DEF EventObject
  <2>4. event' = [event EXCEPT ![e] = pictured]
    BY <1>1, <1>2, <2>2
  <2> QED BY <2>3, <2>4 DEF Inv, TypeOK
<1>7. ToldOf(e, event[e], row[e], said[e], footage, call)
  BY DEF ToldInv, Told
<1>8. ToldOf(e, event'[e], row[e], said[e], footage, call')
  BY <1>1, <1>3, <1>5, <1>6, <1>7, WorkPlaces DEF ToldOf
<1>9. \A d \in EventId : Told(d)'
  <2>1. Told(e)'
    BY <1>1, <1>8 DEF Told
  <2>2. \A d \in EventId \ {e} :
          /\ event'[d].state = event[d].state /\ event'[d].ended = event[d].ended
          /\ event'[d].snapshot = event[d].snapshot
          /\ row'[d] = row[d] /\ said'[d] = said[d] /\ (d \in footage' <=> d \in footage)
    BY <1>1, <1>6
  <2> QED BY <1>2, <1>3, <2>1, <2>2, OthersStayTold
<1>10. QueueInOrder' /\ InsertFirst'
  BY <1>1, <1>3, <1>4, QueueJoined DEF Inv, ToldInv
<1> QED BY <1>9, <1>10 DEF ToldInv

LEMMA SnapshotStoredTells ==
  ASSUME Inv, ToldInv, faults = 0, faults' = 0, NEW p \in Caller, SnapshotStored(p)
  PROVE  ToldInv'
<1>1. PICK pc \in {"snapshotRow", "retryRow"} : Served(p, pc)
  BY DEF SnapshotStored
<1>2. /\ call[p].pc = pc /\ Foremost(p, pc) /\ dbQueue' = Tail(dbQueue)
      /\ AfterSnapshot(p, call[p].pc = "snapshotRow")
      /\ UNCHANGED <<event, footage>>
  BY <1>1 DEF SnapshotStored, Served, Foremost, memVars
<1>3. PICK e \in EventId : e = call[p].on /\ event[e].state = "confirmed"
  BY <1>2 DEF Inv, OwnWork, Retrying
<1>4. PICK r :
        /\ call' = [call EXCEPT ![p] = r] /\ r.pc \in {"promote", "retry"}
        /\ \A d \in EventId \ {e} : said'[d] = said[d]
        /\ said'[e]["ended"] = said[e]["ended"]
        /\ said'[e]["confirmed"] =
             IF call[p].pc = "snapshotRow" THEN 1 ELSE said[e]["confirmed"]
  <2> DEFINE promoting == call[p].pc = "snapshotRow"
  <2>1. promoting \in BOOLEAN /\ AfterSnapshot(p, promoting)
        /\ (promoting => call[p].pc \in {"snapshot", "snapshotRow"})
    BY <1>2
  <2> HIDE DEF promoting
  <2>2. /\ \E r : call' = [call EXCEPT ![p] = r]
                  /\ r.pc = IF promoting THEN "promote" ELSE "retry"
        /\ \A d \in EventId \ {e} : said'[d] = said[d]
        /\ said'[e]["ended"] = said[e]["ended"]
        /\ said'[e]["confirmed"] = IF promoting THEN 1 ELSE said[e]["confirmed"]
    BY <1>3, <2>1, AfterSnapshotTells
  <2> QED BY <2>2 DEF promoting
<1>5. r.pc \notin WorkPlace /\ r.pc \notin DbPlace
  BY <1>4 DEF DbPlace, WorkPlace
<1>6. \A places \in SUBSET WorkPlace :
        /\ Working(call, e, places) <=> Others(p, e, places) \/ call[p].pc \in places
        /\ Working(call', e, places) <=> Others(p, e, places) \/ r.pc \in places
  BY <1>3, <1>4, <1>5, WorkOnOne DEF Inv
<1>7. ToldOf(e, event[e], row[e], said[e], footage, call)
  BY DEF ToldInv, Told
<1>8. ~Working(call, e, {"insert"})
  BY <1>1, <1>2, <1>3, RowsAreThere DEF Inv, ToldInv
<1>9. /\ row'[e].snapshot /\ row'[e].state = row[e].state /\ row'[e].ended = row[e].ended
      /\ \A d \in EventId \ {e} : row'[d] = row[d]
  <2>1. row[e].state # "none"
    BY <1>3, <1>7, <1>8 DEF ToldOf
  <2>2. row[e] # NoRow /\ row[e] \in EventRow
    BY <2>1 DEF NoRow, Inv, TypeOK
  <2>3. row' = [row EXCEPT ![e].snapshot = TRUE]
    BY <1>3, <2>2 DEF SnapshotStored
  <2>4. PICK written : written = [row[e] EXCEPT !.snapshot = TRUE]
    OBVIOUS
  <2>5. written.snapshot /\ written.state = row[e].state /\ written.ended = row[e].ended
    BY <2>2, <2>4 DEF EventRow
  <2>6. row' = [row EXCEPT ![e] = written]
    BY <2>3, <2>4
  <2> QED BY <2>5, <2>6 DEF Inv, TypeOK
<1>10. ToldOf(e, event[e], row'[e], said'[e], footage, call')
  BY <1>1, <1>2, <1>3, <1>4, <1>6, <1>7, <1>8, <1>9, WorkPlaces DEF ToldOf
<1>11. \A d \in EventId : Told(d)'
  BY <1>2, <1>3, <1>4, <1>5, <1>9, <1>10, OthersStayTold, ZenonT(60) DEF Told
<1>12. QueueInOrder' /\ InsertFirst'
  BY <1>2, <1>4, <1>5, QueueServed DEF Inv, ToldInv
<1> QED BY <1>11, <1>12 DEF ToldInv

LEMMA ConfirmStoredTells ==
  ASSUME Inv, ToldInv, NEW p \in Caller, ConfirmStored(p) PROVE ToldInv'
<1>1. /\ call[p].pc = "confirmRow" /\ Foremost(p, "confirmRow") /\ dbQueue' = Tail(dbQueue)
      /\ AskSnapshot(p, call[p].on, "snapshot", 1)
      /\ UNCHANGED <<said, footage>>
  BY DEF ConfirmStored, Served, Foremost
<1>2. PICK e \in EventId : e = call[p].on /\ event[e].state = "confirmed"
  BY <1>1 DEF Inv, OwnWork
<1>3. SameTale
  BY <1>1, <1>2, AskingTellsNothing DEF Inv
<1>4. PICK r : call' = [call EXCEPT ![p] = r] /\ r.pc = "snapshot" /\ r.on = e
  BY <1>1, <1>2, AskingTellsNothing DEF Inv
<1>5. r.pc \notin DbPlace
  BY <1>4 DEF DbPlace
<1>6. \A places \in SUBSET WorkPlace :
        /\ Working(call, e, places) <=> Others(p, e, places) \/ call[p].pc \in places
        /\ Working(call', e, places) <=> Others(p, e, places) \/ r.pc \in places
  BY <1>2, <1>4, WorkOnOne DEF Inv
<1>7. ToldOf(e, event[e], row[e], said[e], footage, call)
  BY DEF ToldInv, Told
<1>8. ~Working(call, e, {"insert"})
  BY <1>1, <1>2, RowsAreThere DEF Inv, ToldInv
<1>9. /\ row'[e].state = "confirmed" /\ row'[e].ended = row[e].ended
      /\ row'[e].snapshot = row[e].snapshot
      /\ \A d \in EventId \ {e} : row'[d] = row[d]
  <2>1. row[e].state # "none"
    BY <1>2, <1>7, <1>8 DEF ToldOf
  <2>2. row[e] # NoRow /\ row[e] \in EventRow
    BY <2>1 DEF NoRow, Inv, TypeOK
  <2>3. row' = [row EXCEPT ![e].state = "confirmed"]
    BY <1>2, <2>2 DEF ConfirmStored
  <2>4. PICK written : written = [row[e] EXCEPT !.state = "confirmed"]
    OBVIOUS
  <2>5. written.state = "confirmed" /\ written.ended = row[e].ended
        /\ written.snapshot = row[e].snapshot
    BY <2>2, <2>4 DEF EventRow
  <2>6. row' = [row EXCEPT ![e] = written]
    BY <2>3, <2>4
  <2> QED BY <2>5, <2>6 DEF Inv, TypeOK
<1>10. ToldOf(e, event'[e], row'[e], said[e], footage, call')
  BY <1>1, <1>2, <1>3, <1>4, <1>6, <1>7, <1>8, <1>9, WorkPlaces DEF ToldOf, SameTale
<1>11. \A d \in EventId : Told(d)'
  <2>1. Told(e)'
    BY <1>1, <1>10 DEF Told
  <2>2. \A d \in EventId \ {e} :
          /\ event'[d].state = event[d].state /\ event'[d].ended = event[d].ended
          /\ event'[d].snapshot = event[d].snapshot
          /\ row'[d] = row[d] /\ said'[d] = said[d] /\ (d \in footage' <=> d \in footage)
    BY <1>1, <1>3, <1>9 DEF SameTale
  <2> QED BY <1>2, <1>4, <2>1, <2>2, OthersStayTold
<1>12. QueueInOrder' /\ InsertFirst'
  BY <1>1, <1>4, <1>5, QueueServed DEF Inv, ToldInv
<1> QED BY <1>11, <1>12 DEF ToldInv

LEMMA InsertedTells ==
  ASSUME Inv, ToldInv, NEW p \in Caller, Inserted(p) PROVE ToldInv'
<1>1. /\ call[p].pc = "insert" /\ Foremost(p, "insert") /\ dbQueue' = Tail(dbQueue)
      /\ row' = [row EXCEPT ![call[p].on] = [NoRow EXCEPT !.state = event[call[p].on].state]]
      /\ IF event[call[p].on].state = "confirmed"
           THEN AskSnapshot(p, call[p].on, "snapshot", 1)
           ELSE RunOn(p, [At(p, "promote") EXCEPT !.on = None]) /\ UNCHANGED event
      /\ UNCHANGED <<said, footage>>
  BY DEF Inserted, Served, Foremost
<1>2. PICK e \in EventId :
        /\ e = call[p].on /\ p \in Camera /\ event[e].camera = p /\ event[e].state # "unborn"
  BY <1>1 DEF Inv, OwnWork
<1>3. PICK r :
        /\ call' = [call EXCEPT ![p] = r] /\ SameTale
        /\ \/ event[e].state = "confirmed" /\ r.pc = "snapshot" /\ r.on = e
           \/ event[e].state # "confirmed" /\ r.pc = "promote"
  <2>1. CASE event[e].state = "confirmed"
    BY <1>1, <1>2, <2>1, AskingTellsNothing DEF Inv
  <2>2. CASE event[e].state # "confirmed"
    <3>1. PICK r : r = [At(p, "promote") EXCEPT !.on = None]
      OBVIOUS
    <3>2. At(p, "promote") \in Call /\ At(p, "promote").pc = "promote"
      BY CallsGoOn DEF Inv, Place
    <3>3. r.pc = "promote"
      BY <3>1, <3>2 DEF Call
    <3>4. call' = [call EXCEPT ![p] = r] /\ UNCHANGED event
      BY <1>1, <1>2, <2>2, <3>1 DEF RunOn
    <3>5. SameTale
      BY <3>4 DEF SameTale
    <3> QED BY <2>2, <3>3, <3>4, <3>5
  <2> QED BY <2>1, <2>2
<1>4. r.pc \notin DbPlace /\ (r.on = e \/ r.pc \notin WorkPlace)
  BY <1>3 DEF DbPlace, WorkPlace
<1>5. \A places \in SUBSET WorkPlace :
        /\ Working(call, e, places) <=> Others(p, e, places) \/ call[p].pc \in places
        /\ Working(call', e, places) <=> Others(p, e, places) \/ r.pc \in places
  BY <1>2, <1>3, <1>4, WorkOnOne DEF Inv
<1>6. ToldOf(e, event[e], row[e], said[e], footage, call)
  BY DEF ToldInv, Told
<1>7. ~Others(p, e, {"insert"})
  BY <1>2 DEF Others, Inv, OwnWork
<1>8. row[e] = NoRow
  BY <1>1, <1>5, <1>6, WorkPlaces DEF ToldOf
<1>9. /\ row'[e].state = event[e].state /\ ~row'[e].ended /\ ~row'[e].snapshot
      /\ \A d \in EventId \ {e} : row'[d] = row[d]
  <2>1. PICK written : written = [NoRow EXCEPT !.state = event[e].state]
    OBVIOUS
  <2>2. written.state = event[e].state /\ ~written.ended /\ ~written.snapshot
    BY <2>1 DEF NoRow
  <2>3. row' = [row EXCEPT ![e] = written]
    BY <1>1, <1>2, <2>1
  <2> QED BY <2>2, <2>3 DEF Inv, TypeOK
<1>10. event[e].state # "none"
  BY DEF Inv, TypeOK, EventObject
<1>11. /\ event[e].ended => Others(p, e, {"closeRow"})
       /\ event[e].snapshot => Others(p, e, {"snapshotRow", "retryRow"})
  BY <1>1, <1>5, <1>6, <1>8, WorkPlaces DEF ToldOf, NoRow
<1>12. ToldOf(e, event'[e], row'[e], said[e], footage, call')
  <2>1. event'[e].state = event[e].state /\ event'[e].ended = event[e].ended
        /\ event'[e].snapshot = event[e].snapshot
    BY <1>3 DEF SameTale
  <2>2. ~Working(call', e, {"insert"})
    BY <1>3, <1>5, <1>7, WorkPlaces
  <2>3. /\ event[e].ended => Working(call', e, {"closeRow"})
        /\ event[e].snapshot => Working(call', e, {"snapshotRow", "retryRow"})
        /\ Working(call', e, {"snapshotRow", "retryRow"}) => event[e].snapshot
    BY <1>1, <1>3, <1>5, <1>6, <1>11, WorkPlaces DEF ToldOf
  <2>4. event[e].state = "confirmed" =>
          Working(call', e, {"insert", "confirmRow", "snapshot", "snapshotRow"})
    BY <1>3, <1>5, WorkPlaces
  <2>5. event[e].state = "confirmed" /\ event[e].ended =>
          (said[e]["ended"] = 1 /\ e \in footage) \/ Working(call', e, {"closeRow", "upgrade"})
    BY <1>1, <1>3, <1>5, <1>6, WorkPlaces DEF ToldOf
  <2> QED BY <1>2, <1>9, <1>10, <2>1, <2>2, <2>3, <2>4, <2>5 DEF ToldOf
<1>13. \A d \in EventId : Told(d)'
  <2>1. Told(e)'
    BY <1>1, <1>12 DEF Told
  <2>2. \A d \in EventId \ {e} :
          /\ event'[d].state = event[d].state /\ event'[d].ended = event[d].ended
          /\ event'[d].snapshot = event[d].snapshot
          /\ row'[d] = row[d] /\ said'[d] = said[d] /\ (d \in footage' <=> d \in footage)
    BY <1>1, <1>3, <1>9 DEF SameTale
  <2> QED BY <1>2, <1>3, <1>4, <2>1, <2>2, OthersStayTold, ZenonT(60)
<1>14. QueueInOrder' /\ InsertFirst'
  BY <1>1, <1>3, <1>4, QueueServed DEF Inv, ToldInv
<1> QED BY <1>13, <1>14 DEF ToldInv

LEMMA OpenEventTells ==
  ASSUME Inv, ToldInv, NEW c \in Camera, NEW e \in EventId, OpenEvent(c, e) PROVE ToldInv'
<1>1. /\ Promoting(c) /\ event[e].state = "unborn"
      /\ dbQueue' = Append(dbQueue, c)
      /\ UNCHANGED <<row, said, footage>>
  BY DEF OpenEvent, AwaitDb, dbVars
<1>2. c \in Caller /\ call[c] \in Call /\ call[c].pc = "promote"
  BY <1>1, BatchesAreTracks DEF Inv
<1>3. PICK r : call' = [call EXCEPT ![c] = r] /\ r.pc = "insert" /\ r.on = e
  <2>1. PICK r : r = [call[c] EXCEPT !.pc = "insert", !.on = e, !.batch = Tail(@)]
    OBVIOUS
  <2>2. r.pc = "insert" /\ r.on = e
    BY <1>2, <2>1 DEF Call
  <2> QED BY <2>1, <2>2 DEF OpenEvent, AwaitDb, Await
<1>4. call[c].pc \notin WorkPlace /\ call[c].pc \notin DbPlace /\ r.pc \in DbPlace
  BY <1>2, <1>3 DEF DbPlace, WorkPlace
<1>5. \A places \in SUBSET WorkPlace :
        /\ Working(call, e, places) <=> Others(c, e, places) \/ call[c].pc \in places
        /\ Working(call', e, places) <=> Others(c, e, places) \/ r.pc \in places
  BY <1>2, <1>3, <1>4, WorkOnOne DEF Inv
<1>6. ToldOf(e, event[e], row[e], said[e], footage, call)
  BY DEF ToldInv, Told
<1>7. /\ event'[e].state # "unborn" /\ ~event'[e].ended /\ ~event'[e].snapshot
      /\ \A d \in EventId \ {e} : event'[d] = event[d]
  <2>1. PICK new : new = [Unborn EXCEPT !.camera = c, !.state = Promoted(c),
                            !.tracks = {Head(call[c].batch).id}, !.lastSeen = call[c].ts]
    OBVIOUS
  <2>2. Promoted(c) \in {"dismissed", "confirmed"}
    BY <1>1 DEF Promoting, Promoted, VerdictOn, Verdict
  <2>3. new.state # "unborn" /\ ~new.ended /\ ~new.snapshot
    BY <2>1, <2>2 DEF Unborn
  <2>4. event' = [event EXCEPT ![e] = new]
    BY <2>1 DEF OpenEvent
  <2> QED BY <2>3, <2>4 DEF Inv, TypeOK
<1>8. \A q \in Caller : call[q].pc \in DbPlace => call[q].on # e
  BY <1>1 DEF Inv, OwnWork, Closing, Retrying, DbPlace
<1>9. ~Others(c, e, {"snapshotRow", "retryRow"})
  BY <1>8 DEF Others, DbPlace
<1>10. row[e] = NoRow
  BY <1>1, <1>6 DEF ToldOf
<1>11. ToldOf(e, event'[e], row[e], said[e], footage, call')
  <2>1. /\ Working(call', e, {"insert"})
        /\ Working(call', e, {"insert", "confirmRow", "snapshot", "snapshotRow"})
        /\ ~Working(call', e, {"snapshotRow", "retryRow"})
    BY <1>3, <1>5, <1>9, WorkPlaces
  <2>2. ~row[e].ended /\ ~row[e].snapshot
    BY <1>10 DEF NoRow
  <2> QED BY <1>7, <1>10, <2>1, <2>2 DEF ToldOf
<1>12. \A d \in EventId : Told(d)'
  <2>1. Told(e)'
    BY <1>1, <1>11 DEF Told
  <2>2. \A d \in EventId \ {e} :
          /\ event'[d].state = event[d].state /\ event'[d].ended = event[d].ended
          /\ event'[d].snapshot = event[d].snapshot
          /\ row'[d] = row[d] /\ said'[d] = said[d] /\ (d \in footage' <=> d \in footage)
    BY <1>1, <1>7
  <2> QED BY <1>2, <1>3, <1>4, <2>1, <2>2, OthersStayTold
<1>13. QueueInOrder' /\ InsertFirst'
  BY <1>1, <1>2, <1>3, <1>4, <1>8, QueueJoined DEF Inv, ToldInv
<1> QED BY <1>12, <1>13 DEF ToldInv

LEMMA ExtendAndConfirmTells ==
  ASSUME Inv, ToldInv, NEW c \in Camera, ExtendAndConfirm(c) PROVE ToldInv'
<1>1. /\ Promoting(c) /\ open[c] # None
      /\ event' = [event EXCEPT ![open[c]] = [Joined(c) EXCEPT !.state = "confirmed"]]
      /\ dbQueue' = Append(dbQueue, c)
      /\ UNCHANGED <<row, said, footage>>
  BY DEF ExtendAndConfirm, AwaitDb, dbVars
<1>2. c \in Caller /\ call[c] \in Call /\ call[c].pc = "promote"
  BY <1>1, BatchesAreTracks DEF Inv
<1>3. PICK e \in EventId :
        /\ e = open[c] /\ event[e] \in EventObject
        /\ event[e].state # "unborn" /\ ~event[e].ended
  BY <1>1 DEF Inv, TypeOK, OpenOnes
<1>4. PICK r : call' = [call EXCEPT ![c] = r] /\ r.pc = "confirmRow" /\ r.on = e
  <2>1. PICK r : r = [call[c] EXCEPT !.pc = "confirmRow", !.on = open[c], !.batch = Tail(@)]
    OBVIOUS
  <2>2. r.pc = "confirmRow" /\ r.on = e
    BY <1>2, <1>3, <2>1 DEF Call
  <2> QED BY <2>1, <2>2 DEF ExtendAndConfirm, AwaitDb, Await
<1>5. call[c].pc \notin WorkPlace /\ call[c].pc \notin DbPlace /\ r.pc \in DbPlace
      /\ r.pc # "insert"
  BY <1>2, <1>4 DEF DbPlace, WorkPlace
<1>6. \A places \in SUBSET WorkPlace :
        /\ Working(call, e, places) <=> Others(c, e, places) \/ call[c].pc \in places
        /\ Working(call', e, places) <=> Others(c, e, places) \/ r.pc \in places
  BY <1>2, <1>4, <1>5, WorkOnOne DEF Inv
<1>7. ToldOf(e, event[e], row[e], said[e], footage, call)
  BY DEF ToldInv, Told
<1>8. /\ event'[e].state = "confirmed" /\ ~event'[e].ended
      /\ event'[e].snapshot = event[e].snapshot
      /\ \A d \in EventId \ {e} : event'[d] = event[d]
  <2>1. Joined(c) \in EventObject /\ Joined(c).ended = event[e].ended
    BY <1>1, <1>3, JoinedEvent
  <2>2. Joined(c).snapshot = event[e].snapshot
    BY <1>3 DEF Joined, EventObject
  <2>3. PICK joined : joined = [Joined(c) EXCEPT !.state = "confirmed"]
    OBVIOUS
  <2>4. joined.state = "confirmed" /\ ~joined.ended /\ joined.snapshot = event[e].snapshot
    BY <1>3, <2>1, <2>2, <2>3 DEF EventObject
  <2>5. event' = [event EXCEPT ![e] = joined]
    BY <1>1, <1>3, <2>3
  <2> QED BY <2>4, <2>5 DEF Inv, TypeOK
<1>9. ToldOf(e, event'[e], row[e], said[e], footage, call')
  BY <1>2, <1>3, <1>4, <1>6, <1>7, <1>8, WorkPlaces DEF ToldOf
<1>10. \A d \in EventId : Told(d)'
  <2>1. Told(e)'
    BY <1>1, <1>9 DEF Told
  <2>2. \A d \in EventId \ {e} :
          /\ event'[d].state = event[d].state /\ event'[d].ended = event[d].ended
          /\ event'[d].snapshot = event[d].snapshot
          /\ row'[d] = row[d] /\ said'[d] = said[d] /\ (d \in footage' <=> d \in footage)
    BY <1>1, <1>8
  <2> QED BY <1>2, <1>4, <1>5, <2>1, <2>2, OthersStayTold
<1>11. QueueInOrder' /\ InsertFirst'
  BY <1>1, <1>2, <1>4, <1>5, QueueJoined DEF Inv, ToldInv
<1> QED BY <1>10, <1>11 DEF ToldInv

LEMMA CloseEventTells ==
  ASSUME Inv, ToldInv, NEW p \in Caller, CloseEvent(p) PROVE ToldInv'
<1>1. PICK i \in 1 .. Len(known) :
        /\ FirstDue(p, "close", i)
        /\ event' = [event EXCEPT ![OpenAt(i)].ended = TRUE]
        /\ AwaitDb(p, [At(p, "closeRow") EXCEPT !.on = OpenAt(i), !.place = i])
  BY DEF CloseEvent
<1>2. UNCHANGED <<row, said, footage>>
  BY DEF CloseEvent, dbVars
<1>3. PICK e \in EventId :
        /\ e = OpenAt(i) /\ event[e] \in EventObject
        /\ event[e].state # "unborn" /\ call[p].pc = "close"
  BY <1>1, DueEvents DEF Inv, TypeOK
<1>4. PICK r : call' = [call EXCEPT ![p] = r] /\ r.pc = "closeRow" /\ r.on = e
  <2>1. At(p, "closeRow") \in Call /\ At(p, "closeRow").pc = "closeRow"
    BY CallsGoOn DEF Inv, Place
  <2>2. PICK r : r = [At(p, "closeRow") EXCEPT !.on = OpenAt(i), !.place = i]
    OBVIOUS
  <2>3. r.pc = "closeRow" /\ r.on = e
    BY <1>3, <2>1, <2>2 DEF Call
  <2> QED BY <1>1, <2>2, <2>3 DEF AwaitDb, Await
<1>5. call[p].pc \notin WorkPlace /\ call[p].pc \notin DbPlace /\ r.pc \in DbPlace
      /\ r.pc # "insert"
  BY <1>3, <1>4 DEF DbPlace, WorkPlace
<1>6. \A places \in SUBSET WorkPlace :
        /\ Working(call, e, places) <=> Others(p, e, places) \/ call[p].pc \in places
        /\ Working(call', e, places) <=> Others(p, e, places) \/ r.pc \in places
  BY <1>4, <1>5, WorkOnOne DEF Inv
<1>7. ToldOf(e, event[e], row[e], said[e], footage, call)
  BY DEF ToldInv, Told
<1>8. /\ event'[e].state = event[e].state /\ event'[e].ended
      /\ event'[e].snapshot = event[e].snapshot
      /\ \A d \in EventId \ {e} : event'[d] = event[d]
  <2>1. PICK closed : closed = [event[e] EXCEPT !.ended = TRUE]
    OBVIOUS
  <2>2. closed.state = event[e].state /\ closed.ended /\ closed.snapshot = event[e].snapshot
    BY <1>3, <2>1 DEF EventObject
  <2>3. event' = [event EXCEPT ![e] = closed]
    BY <1>1, <1>3, <2>1
  <2> QED BY <2>2, <2>3 DEF Inv, TypeOK
<1>9. ToldOf(e, event'[e], row[e], said[e], footage, call')
  BY <1>3, <1>4, <1>6, <1>7, <1>8, WorkPlaces DEF ToldOf
<1>10. \A d \in EventId : Told(d)'
  <2>1. Told(e)'
    BY <1>2, <1>9 DEF Told
  <2>2. \A d \in EventId \ {e} :
          /\ event'[d].state = event[d].state /\ event'[d].ended = event[d].ended
          /\ event'[d].snapshot = event[d].snapshot
          /\ row'[d] = row[d] /\ said'[d] = said[d] /\ (d \in footage' <=> d \in footage)
    BY <1>2, <1>8
  <2> QED BY <1>4, <1>5, <2>1, <2>2, OthersStayTold
<1>11. QueueInOrder' /\ InsertFirst'
  <2>1. dbQueue' = Append(dbQueue, p)
    BY <1>1 DEF AwaitDb
  <2> QED BY <1>4, <1>5, <2>1, QueueJoined DEF Inv, ToldInv
<1> QED BY <1>10, <1>11 DEF ToldInv

LEMMA CloseStoredTells ==
  ASSUME Inv, ToldInv, NEW p \in Caller, CloseStored(p) PROVE ToldInv'
<1>1. /\ call[p].pc = "closeRow" /\ Foremost(p, "closeRow")
      /\ UNCHANGED <<event, said, footage>>
  BY DEF CloseStored, Foremost, memVars
<1>2. PICK e \in EventId : e = call[p].on /\ event[e].ended /\ event[e].state # "unborn"
  BY <1>1 DEF Inv, Closing
<1>3. PICK r :
        /\ call' = [call EXCEPT ![p] = r]
        /\ \/ /\ event[e].state = "confirmed" /\ r.pc = "upgrade" /\ r.on = e
              /\ dbQueue' = Append(Tail(dbQueue), p)
           \/ /\ event[e].state # "confirmed" /\ r.pc = "close" /\ dbQueue' = Tail(dbQueue)
  <2>1. At(p, "upgrade").pc = "upgrade" /\ At(p, "upgrade").on = e
        /\ OnwardAt(p, "close").pc = "close"
    BY <1>2, CallsGoOn DEF Inv, Place
  <2>2. CASE event[e].state = "confirmed"
    <3>1. call' = [call EXCEPT ![p] = At(p, "upgrade")] /\ dbQueue' = Append(Tail(dbQueue), p)
      BY <1>2, <2>2 DEF CloseStored, Await
    <3> QED BY <2>1, <2>2, <3>1
  <2>3. CASE event[e].state # "confirmed"
    <3>1. call' = [call EXCEPT ![p] = OnwardAt(p, "close")] /\ dbQueue' = Tail(dbQueue)
      BY <1>2, <2>3 DEF CloseStored, RunOn
    <3> QED BY <2>1, <2>3, <3>1
  <2> QED BY <2>2, <2>3
<1>4. r.on = e \/ r.pc \notin WorkPlace
  BY <1>3 DEF DbPlace, WorkPlace
<1>5. \A places \in SUBSET WorkPlace :
        /\ Working(call, e, places) <=> Others(p, e, places) \/ call[p].pc \in places
        /\ Working(call', e, places) <=> Others(p, e, places) \/ r.pc \in places
  BY <1>2, <1>3, <1>4, WorkOnOne DEF Inv
<1>6. ToldOf(e, event[e], row[e], said[e], footage, call)
  BY DEF ToldInv, Told
<1>7. ~Working(call, e, {"insert"})
  BY <1>1, <1>2, RowsAreThere DEF Inv, ToldInv
<1>8. /\ row'[e].ended /\ row'[e].state = row[e].state /\ row'[e].snapshot = row[e].snapshot
      /\ \A d \in EventId \ {e} : row'[d] = row[d]
  <2>1. row[e].state # "none"
    BY <1>2, <1>6, <1>7 DEF ToldOf
  <2>2. row[e] # NoRow /\ row[e] \in EventRow
    BY <2>1 DEF NoRow, Inv, TypeOK
  <2>3. row' = [row EXCEPT ![e].ended = TRUE]
    BY <1>2, <2>2 DEF CloseStored
  <2>4. PICK written : written = [row[e] EXCEPT !.ended = TRUE]
    OBVIOUS
  <2>5. written.ended /\ written.state = row[e].state /\ written.snapshot = row[e].snapshot
    BY <2>2, <2>4 DEF EventRow
  <2>6. row' = [row EXCEPT ![e] = written]
    BY <2>3, <2>4
  <2> QED BY <2>5, <2>6 DEF Inv, TypeOK
<1>9. ToldOf(e, event[e], row'[e], said[e], footage, call')
  BY <1>1, <1>2, <1>3, <1>5, <1>6, <1>7, <1>8, WorkPlaces DEF ToldOf
<1>10. \A d \in EventId : Told(d)'
  <2>1. Told(e)'
    BY <1>1, <1>9 DEF Told
  <2>2. \A d \in EventId \ {e} :
          /\ event'[d].state = event[d].state /\ event'[d].ended = event[d].ended
          /\ event'[d].snapshot = event[d].snapshot
          /\ row'[d] = row[d] /\ said'[d] = said[d] /\ (d \in footage' <=> d \in footage)
    BY <1>1, <1>8
  <2> QED BY <1>2, <1>3, <1>4, <2>1, <2>2, OthersStayTold
<1>11. QueueInOrder' /\ InsertFirst'
  <2>1. \/ r.pc \notin DbPlace /\ dbQueue' = Tail(dbQueue)
        \/ r.pc = "upgrade" /\ dbQueue' = Append(Tail(dbQueue), p)
    BY <1>3 DEF DbPlace
  <2> QED BY <1>1, <1>3, <2>1, QueueServed DEF Inv, ToldInv
<1> QED BY <1>10, <1>11 DEF ToldInv

LEMMA FootageLiftedTells ==
  ASSUME Inv, ToldInv, faults = 0, faults' = 0, NEW p \in Caller, FootageLifted(p)
  PROVE  ToldInv'
<1>1. /\ call[p].pc = "upgrade" /\ Foremost(p, "upgrade") /\ dbQueue' = Tail(dbQueue)
      /\ footage' = footage \union {call[p].on}
      /\ said' = [said EXCEPT ![call[p].on]["ended"] = @ + 1]
      /\ call' = [call EXCEPT ![p] = OnwardAt(p, "close")]
      /\ UNCHANGED <<event, row>>
  BY DEF FootageLifted, Served, Foremost, Publish, RunOn, memVars
<1>2. PICK e \in EventId :
        /\ e = call[p].on /\ event[e].ended /\ event[e].state = "confirmed"
        /\ said[e]["ended"] = 0
  BY <1>1 DEF Inv, Closing
<1>3. PICK r : call' = [call EXCEPT ![p] = r] /\ r.pc = "close"
  BY <1>1, CallsGoOn, ZenonT(60) DEF Inv, Place
<1>4. r.pc \notin WorkPlace /\ r.pc \notin DbPlace
  BY <1>3 DEF DbPlace, WorkPlace
<1>5. \A places \in SUBSET WorkPlace :
        /\ Working(call, e, places) <=> Others(p, e, places) \/ call[p].pc \in places
        /\ Working(call', e, places) <=> Others(p, e, places) \/ r.pc \in places
  BY <1>2, <1>3, <1>4, WorkOnOne DEF Inv
<1>6. ToldOf(e, event[e], row[e], said[e], footage, call)
  BY DEF ToldInv, Told
<1>7. /\ said'[e]["ended"] = 1 /\ said'[e]["confirmed"] = said[e]["confirmed"]
      /\ e \in footage'
      /\ \A d \in EventId \ {e} : said'[d] = said[d] /\ (d \in footage' <=> d \in footage)
  <2>1. said \in [EventId -> [Topic -> Nat]] /\ said[e] \in [Topic -> Nat]
    BY DEF Inv, TypeOK
  <2>2. PICK heard : heard = [said[e] EXCEPT !["ended"] = @ + 1]
    OBVIOUS
  <2>3. heard["ended"] = 1 /\ heard["confirmed"] = said[e]["confirmed"]
    BY <1>2, <2>1, <2>2 DEF Topic
  <2>4. said' = [said EXCEPT ![e] = heard]
    BY <1>1, <1>2, <2>2
  <2>5. said'[e] = heard /\ \A d \in EventId \ {e} : said'[d] = said[d]
    BY <2>1, <2>4
  <2>6. e \in footage' /\ \A d \in EventId \ {e} : (d \in footage' <=> d \in footage)
    BY <1>1, <1>2
  <2> QED BY <2>3, <2>5, <2>6
<1>8. ToldOf(e, event[e], row[e], said'[e], footage', call')
  BY <1>1, <1>2, <1>3, <1>5, <1>6, <1>7, WorkPlaces DEF ToldOf
<1>9. \A d \in EventId : Told(d)'
  <2>1. Told(e)'
    BY <1>1, <1>8 DEF Told
  <2>2. \A d \in EventId \ {e} :
          /\ event'[d].state = event[d].state /\ event'[d].ended = event[d].ended
          /\ event'[d].snapshot = event[d].snapshot
          /\ row'[d] = row[d] /\ said'[d] = said[d] /\ (d \in footage' <=> d \in footage)
    BY <1>1, <1>7
  <2> QED BY <1>2, <1>3, <1>4, <2>1, <2>2, OthersStayTold
<1>10. QueueInOrder' /\ InsertFirst'
  BY <1>1, <1>3, <1>4, QueueServed DEF Inv, ToldInv
<1> QED BY <1>9, <1>10 DEF ToldInv

-----------------------------------------------------------------------------
\* Faults and crashes are counted and never forgotten.
LEMMA DisturbanceStays ==
  ASSUME Inv, [Next]_vars, Undisturbed'
  PROVE  Undisturbed /\ ~Crash /\ \A p \in Caller : ~CallFails(p)
<1>1. faults \in Nat /\ restarts \in Nat
  BY EngineAssumption DEF Inv, TypeOK
<1>2. UNCHANGED <<faults, restarts>>
      \/ (faults' = faults + 1 /\ UNCHANGED restarts)
      \/ (restarts' = restarts + 1 /\ UNCHANGED faults)
  <2>1. ASSUME NEW p \in Caller, Step(p)
        PROVE  /\ UNCHANGED restarts
               /\ UNCHANGED faults \/ faults' = faults + 1
    BY <2>1 DEF Step, Inserted, ConfirmStored, CallFails, SnapshotTaken, SnapshotFails,
       SnapshotStored, LoopBreaks, RetrySnapshot, CloseEvent, LoopEnds, CloseStored, FootageLifted
  <2>2. ASSUME NEW c \in Camera, Frame(c) \/ PipelineStep(c)
        PROVE  UNCHANGED <<faults, restarts>>
    BY <2>2 DEF Frame, PipelineStep, Detected, PassOver, Extend, ExtendAndConfirm, OpenEvent
  <2>3. CASE Tick \/ Advance
    BY <2>3 DEF Tick, Advance
  <2>4. CASE Crash
    BY <2>4 DEF Crash
  <2>5. CASE UNCHANGED vars
    BY <2>5 DEF vars
  <2> QED BY <2>1, <2>2, <2>3, <2>4, <2>5 DEF Next
<1>3. Undisturbed /\ UNCHANGED <<faults, restarts>>
  BY <1>1, <1>2 DEF Undisturbed
<1>4. ~Crash /\ \A p \in Caller : ~CallFails(p)
  BY <1>1, <1>3 DEF Crash, CallFails
<1> QED BY <1>3, <1>4

LEMMA ToldAtFirst == Init => ToldInv
<1> SUFFICES ASSUME Init PROVE ToldInv
  OBVIOUS
<1>1. \A p \in Caller : call[p].pc = "idle"
  BY DEF Init, Idle
<1>2. Len(dbQueue) = 0
  BY DEF Init
<1>3. QueueInOrder /\ InsertFirst
  BY <1>1, <1>2 DEF QueueInOrder, InsertFirst, DbPlace
<1>4. \A e, places : "idle" \notin places => ~Working(call, e, places)
  BY <1>1 DEF Working
<1>5. ASSUME NEW e \in EventId PROVE Told(e)
  <2>1. /\ event[e].state = "unborn" /\ ~event[e].ended /\ ~event[e].snapshot
        /\ row[e] = NoRow /\ ~row[e].ended /\ ~row[e].snapshot
    BY DEF Init, Unborn, NoRow
  <2>2. ~Working(call, e, {"snapshotRow", "retryRow"})
    BY <1>4
  <2> QED BY <2>1, <2>2 DEF Told, ToldOf
<1> QED BY <1>3, <1>5 DEF ToldInv

LEMMA ToldAlways ==
  ASSUME Inv, [Next]_vars, Undisturbed => ToldInv, Undisturbed' PROVE ToldInv'
<1>1. /\ ToldInv /\ ~Crash /\ \A p \in Caller : ~CallFails(p)
      /\ faults = 0 /\ faults' = 0
  BY DisturbanceStays DEF Undisturbed
<1>2. ASSUME NEW c \in Camera, Frame(c) \/ PipelineStep(c) PROVE ToldInv'
  BY <1>1, <1>2, FrameTells, DetectedTells, PassOverTells, ExtendTells, ExtendAndConfirmTells,
     OpenEventTells DEF PipelineStep
<1>3. ASSUME NEW p \in Caller, Step(p) PROVE ToldInv'
  BY <1>1, <1>3, InsertedTells, ConfirmStoredTells, SnapshotTakenTells, SnapshotFailsTells,
     SnapshotStoredTells, LoopBreaksTells, RetrySnapshotTells, CloseEventTells, LoopEndsTells,
     CloseStoredTells, FootageLiftedTells DEF Step
<1>4. CASE Advance \/ UNCHANGED vars
  <2>1. UNCHANGED <<event, row, said, footage, call, dbQueue>>
    BY <1>4 DEF Advance, vars, memVars, dbVars
  <2>2. QueueInOrder' /\ InsertFirst'
    BY <1>1, <2>1 DEF ToldInv, QueueInOrder, InsertFirst
  <2>3. \A e \in EventId : Told(e)'
    BY <1>1, <2>1 DEF ToldInv, Told
  <2> QED BY <2>2, <2>3 DEF ToldInv
<1> QED BY <1>1, <1>2, <1>3, <1>4, TickTells DEF Next

\* While no database call fails and nothing crashes, an event nobody works on is told in
\* full: its row says what memory says, and it was announced as often as it is due
\* (engine.py:280-420), for any cameras, policies and batches.
THEOREM EventsAreToldInFull == Spec => []ToldInFull
<1>1. Init => Inv /\ (Undisturbed => ToldInv)
  BY InitInv, ToldAtFirst
<1>2. Inv /\ (Undisturbed => ToldInv) /\ [Next]_vars => (Inv /\ (Undisturbed => ToldInv))'
  BY StepInv, ToldAlways
<1>3. Inv /\ (Undisturbed => ToldInv) => ToldInFull
  <2> SUFFICES ASSUME Inv, ToldInv, NEW e \in EventId, event[e].state # "unborn", AtRest(e)
               PROVE  /\ row[e] = [state |-> event[e].state, ended |-> event[e].ended,
                                   snapshot |-> event[e].snapshot]
                      /\ event[e].state = "confirmed" =>
                           /\ said[e]["confirmed"] = 1
                           /\ event[e].ended => said[e]["ended"] = 1 /\ e \in footage
    BY DEF ToldInFull, Undisturbed
  <2>1. \A places : ~Working(call, e, places)
    BY DEF AtRest, Working
  <2>2. ToldOf(e, event[e], row[e], said[e], footage, call)
    BY DEF ToldInv, Told
  <2>3. row[e].state = event[e].state
    BY <2>1, <2>2 DEF ToldOf
  <2>4. (row[e].ended <=> event[e].ended) /\ (row[e].snapshot <=> event[e].snapshot)
    BY <2>1, <2>2 DEF ToldOf
  <2>5. row[e] \in EventRow /\ event[e] \in EventObject
    BY DEF Inv, TypeOK
  <2>6. row[e].ended = event[e].ended /\ row[e].snapshot = event[e].snapshot
    BY <2>4, <2>5 DEF EventRow, EventObject
  <2>7. row[e] = [state |-> event[e].state, ended |-> event[e].ended,
                  snapshot |-> event[e].snapshot]
    BY <2>3, <2>5, <2>6 DEF EventRow
  <2>8. event[e].state = "confirmed" =>
          /\ said[e]["confirmed"] = 1
          /\ event[e].ended => said[e]["ended"] = 1 /\ e \in footage
    BY <2>1, <2>2 DEF ToldOf
  <2> QED BY <2>7, <2>8
<1> QED BY <1>1, <1>2, <1>3, PTL DEF Spec
==============================================================================
