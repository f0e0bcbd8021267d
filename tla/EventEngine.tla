----------------------------- MODULE EventEngine -----------------------------
(***************************************************************************)
(* The event engine of events/engine.py: every camera's pipeline calls     *)
(* on_detections, a ticker calls tick, and both walk over the open events  *)
(* of all cameras to retry snapshots and to close events.                  *)
(*                                                                         *)
(* All calls are coroutines of one event loop.  The one that runs holds    *)
(* it (running) until it awaits a database call, a snapshot or the         *)
(* detector; meanwhile others run and may change what it read before.      *)
(* Database calls queue at the write lock and are served in order.         *)
(***************************************************************************)
EXTENDS Promotion, Sequences

CONSTANTS
  Camera, Ticker,     \* the callers: one pipeline per camera, and the ticker
  EventId,            \* bound: the events that can be opened
  None,
  Zones,              \* each camera's zones: a function from names to kinds
  Policies,           \* the sensitivities of the policies for each camera
  Cascades,           \* the thresholds (one record for all cameras)
  Batches,            \* bound: the lists of tracks the tracker returns
  CloseAfterAbsent,   \* CLOSE_AFTER_ABSENT_S
  SnapshotRetryAfter, SnapshotMaxAttempts,
  MaxNow,             \* bound: how long the clock runs
  MaxFaults,          \* bound: database calls that fail
  MaxRestarts         \* bound: crashes

ASSUME EngineAssumption ==
  /\ Ticker \notin Camera /\ None \notin Camera \union {Ticker}
  /\ EventId \subseteq Nat /\ None \notin EventId
  /\ Cascades \in Cascade /\ Batches \subseteq Seq(Track)
  /\ CloseAfterAbsent \in Nat /\ SnapshotRetryAfter \in Nat /\ SnapshotMaxAttempts \in Nat
  /\ MaxNow \in Nat /\ MaxFaults \in Nat /\ MaxRestarts \in Nat

VARIABLES
  now,
  known,      \* the cameras with a state, in the order they were first seen
  open,       \* state.open_event of each camera, or None
  event,      \* the event objects; they outlive their place in open
  row,        \* the events table
  footage,    \* events whose segments were lifted to class event
  said,       \* how often each event was published on each topic
  call,       \* what each caller is doing
  running,    \* the coroutine that holds the event loop, or None
  dbQueue,    \* callers waiting at the write lock, first come first served
  faults, restarts

memVars == <<known, open, event>>
dbVars == <<row, footage>>
vars == <<now, memVars, dbVars, said, call, running, dbQueue, faults, restarts>>

Caller == Camera \union {Ticker}
Topic == {"confirmed", "ended"}

Unborn ==
  [camera |-> None, state |-> "unborn", tracks |-> {}, lastSeen |-> 0, ended |-> FALSE,
   snapshot |-> FALSE, attempts |-> 0, lastTry |-> -SnapshotRetryAfter]
NoRow == [state |-> "none", ended |-> FALSE, snapshot |-> FALSE]

\* A call: where it awaits or runs on, the time it was made for, the tracks it
\* has still to promote, the event it works on and its place in a loop over
\* the size cameras the loop started with.
Idle == [pc |-> "idle", ts |-> 0, batch |-> <<>>, on |-> None, place |-> 1, size |-> 0]

Place ==
  {"idle", "detecting", "promote", "insert", "confirmRow", "snapshot", "snapshotRow",
   "retry", "retrySnapshot", "retryRow", "close", "closeRow", "upgrade"}

Init ==
  /\ now = 0
  /\ known = <<>>
  /\ open = [c \in Camera |-> None]
  /\ event = [e \in EventId |-> Unborn]
  /\ row = [e \in EventId |-> NoRow]
  /\ footage = {}
  /\ said = [e \in EventId |-> [t \in Topic |-> 0]]
  /\ call = [p \in Caller |-> Idle]
  /\ running = None /\ dbQueue = <<>>
  /\ faults = 0 /\ restarts = 0

\* p runs on with r, or awaits something in r.
RunOn(p, r) ==
  call' = [call EXCEPT ![p] = r] /\ running' = p
Await(p, r) ==
  call' = [call EXCEPT ![p] = r] /\ running' = None
AwaitDb(p, r) ==
  Await(p, r) /\ dbQueue' = Append(dbQueue, p)

At(p, pc) == [call[p] EXCEPT !.pc = pc]
LoopAt(p, pc) == [call[p] EXCEPT !.pc = pc, !.on = None, !.place = 1, !.size = Len(known)]
OnwardAt(p, pc) == [call[p] EXCEPT !.pc = pc, !.on = None, !.place = @ + 1]

-----------------------------------------------------------------------------
(* on_detections: the pipeline reads a frame, awaits the detector, and     *)
(* hands the tracker's result to the engine.                               *)

Frame(c) ==
  /\ running = None /\ call[c].pc = "idle"
  /\ Await(c, [Idle EXCEPT !.pc = "detecting", !.ts = now])
  /\ UNCHANGED <<now, memVars, dbVars, said, dbQueue, faults, restarts>>

Detected(c) ==
  /\ running = None /\ call[c].pc = "detecting"
  /\ known' = IF \E i \in 1 .. Len(known) : known[i] = c THEN known ELSE Append(known, c)
  /\ \E batch \in Batches :
       /\ event' =
            IF open[c] # None /\ \E i \in 1 .. Len(batch) : batch[i].id \in event[open[c]].tracks
              THEN [event EXCEPT ![open[c]].lastSeen = call[c].ts]
              ELSE event
       /\ RunOn(c, [call[c] EXCEPT !.pc = "promote", !.batch = batch])
  /\ UNCHANGED <<now, open, dbVars, said, dbQueue, faults, restarts>>

VerdictOn(c, track) == Verdict(track, Zones[c], Cascades, Policies[c])

\* Bound: with no event left to open, a track that would open one passes.
NoneLeft(c) == open[c] = None /\ \A e \in EventId : event[e].state # "unborn"

\* The next track of the batch promotes nothing, or the batch is through.
PassOver(c) ==
  /\ running = c /\ call[c].pc = "promote"
  /\ IF call[c].batch = <<>>
       THEN RunOn(c, LoopAt(c, "retry"))
       ELSE /\ VerdictOn(c, Head(call[c].batch)) = "none" \/ NoneLeft(c)
            /\ RunOn(c, [call[c] EXCEPT !.batch = Tail(@)])
  /\ UNCHANGED <<now, memVars, dbVars, said, dbQueue, faults, restarts>>

Promoted(c) == VerdictOn(c, Head(call[c].batch))

Promoting(c) ==
  /\ running = c /\ call[c].pc = "promote" /\ call[c].batch # <<>>
  /\ Promoted(c) # "none"

\* _promote without an open event: the event is in place before its row is.
OpenEvent(c, e) ==
  /\ Promoting(c)
  /\ open[c] = None
  /\ event[e].state = "unborn" /\ \A d \in EventId : d < e => event[d].state # "unborn"
  /\ open' = [open EXCEPT ![c] = e]
  /\ event' = [event EXCEPT ![e] =
       [Unborn EXCEPT !.camera = c, !.state = Promoted(c), !.tracks = {Head(call[c].batch).id},
                      !.lastSeen = call[c].ts]]
  /\ AwaitDb(c, [call[c] EXCEPT !.pc = "insert", !.on = e, !.batch = Tail(@)])
  /\ UNCHANGED <<now, known, dbVars, said, faults, restarts>>

Joined(c) ==
  [event[open[c]] EXCEPT !.tracks = @ \union {Head(call[c].batch).id}, !.lastSeen = call[c].ts]

\* Mutant: every confirming track confirms the event anew.
ExtendAndConfirmAgain(c) ==
  /\ Promoting(c) /\ open[c] # None
  /\ Promoted(c) = "confirmed"
  /\ event' = [event EXCEPT ![open[c]] = [Joined(c) EXCEPT !.state = "confirmed"]]
  /\ AwaitDb(c, [call[c] EXCEPT !.pc = "confirmRow", !.on = open[c], !.batch = Tail(@)])
  /\ UNCHANGED <<now, known, open, dbVars, said, faults, restarts>>

\* _promote with an open event: the track joins it, and may confirm it.
Extend(c) ==
  /\ Promoting(c) /\ open[c] # None
  /\ Promoted(c) = "dismissed" \/ event[open[c]].state = "confirmed"
  /\ event' = [event EXCEPT ![open[c]] = Joined(c)]
  /\ RunOn(c, [call[c] EXCEPT !.batch = Tail(@)])
  /\ UNCHANGED <<now, known, open, dbVars, said, dbQueue, faults, restarts>>

ExtendAndConfirm(c) ==
  /\ Promoting(c) /\ open[c] # None
  /\ Promoted(c) = "confirmed" /\ event[open[c]].state # "confirmed"
  /\ event' = [event EXCEPT ![open[c]] = [Joined(c) EXCEPT !.state = "confirmed"]]
  /\ AwaitDb(c, [call[c] EXCEPT !.pc = "confirmRow", !.on = open[c], !.batch = Tail(@)])
  /\ UNCHANGED <<now, known, open, dbVars, said, faults, restarts>>

-----------------------------------------------------------------------------
(* Database calls.  The first in the queue is served; on an exception the  *)
(* caller unwinds to the handler of its entry point.                       *)

Foremost(p, pc) ==
  /\ running = None /\ call[p].pc = pc
  /\ dbQueue # <<>> /\ Head(dbQueue) = p

Served(p, pc) ==
  Foremost(p, pc) /\ dbQueue' = Tail(dbQueue)

\* _attach_snapshot: count the attempt, then ask the gateway.
AskSnapshot(p, e, pc, place) ==
  /\ event' = [event EXCEPT ![e].attempts = @ + 1, ![e].lastTry = call[p].ts]
  /\ Await(p, [call[p] EXCEPT !.pc = pc, !.on = e, !.place = place])

Inserted(p) ==
  /\ Served(p, "insert")
  /\ LET e == call[p].on IN
       /\ row' = [row EXCEPT ![e] = [NoRow EXCEPT !.state = event[e].state]]
       /\ IF event[e].state = "confirmed"
            THEN AskSnapshot(p, e, "snapshot", 1)
            ELSE RunOn(p, [At(p, "promote") EXCEPT !.on = None]) /\ UNCHANGED event
  /\ UNCHANGED <<now, known, open, footage, said, faults, restarts>>

\* Mutant: the confirmation is not written.
ConfirmForgotten(p) ==
  /\ Served(p, "confirmRow")
  /\ AskSnapshot(p, call[p].on, "snapshot", 1)
  /\ UNCHANGED <<now, known, open, row, footage, said, faults, restarts>>

ConfirmStored(p) ==
  /\ Served(p, "confirmRow")
  /\ LET e == call[p].on IN
       /\ row' = IF row[e] = NoRow THEN row ELSE [row EXCEPT ![e].state = "confirmed"]
       /\ AskSnapshot(p, e, "snapshot", 1)
  /\ UNCHANGED <<now, known, open, footage, said, faults, restarts>>

\* insert_event, update_event(state) or update_event(ended_at) raises: the
\* rest of the call is given up.
CallFails(p) ==
  /\ \E pc \in {"insert", "confirmRow", "closeRow"} : Served(p, pc)
  /\ faults < MaxFaults /\ faults' = faults + 1
  /\ Await(p, Idle)
  /\ UNCHANGED <<now, memVars, dbVars, said, restarts>>

-----------------------------------------------------------------------------
(* Snapshots: within _promote (then the event is published) or within the  *)
(* retry loop (then the loop goes on).                                     *)

Publish(e, topic) == said' = [said EXCEPT ![e][topic] = @ + 1]

AfterSnapshot(p, promoting) ==
  IF promoting
    THEN Publish(call[p].on, "confirmed") /\ RunOn(p, [At(p, "promote") EXCEPT !.on = None])
    ELSE RunOn(p, OnwardAt(p, "retry")) /\ UNCHANGED said

SnapshotTaken(p) ==
  /\ running = None /\ call[p].pc \in {"snapshot", "retrySnapshot"}
  /\ event' = [event EXCEPT ![call[p].on].snapshot = TRUE]
  /\ AwaitDb(p, At(p, IF call[p].pc = "snapshot" THEN "snapshotRow" ELSE "retryRow"))
  /\ UNCHANGED <<now, known, open, dbVars, said, faults, restarts>>

\* The gateway gives no picture: the event goes on without one.
SnapshotFails(p) ==
  /\ running = None /\ call[p].pc \in {"snapshot", "retrySnapshot"}
  /\ AfterSnapshot(p, call[p].pc = "snapshot")
  /\ UNCHANGED <<now, memVars, dbVars, dbQueue, faults, restarts>>

\* update_event(snapshot_path), whose failure is contained like the gateway's.
SnapshotStored(p) ==
  /\ \E pc \in {"snapshotRow", "retryRow"} : Served(p, pc)
  /\ LET e == call[p].on IN
       \/ /\ row' = IF row[e] = NoRow THEN row ELSE [row EXCEPT ![e].snapshot = TRUE]
          /\ UNCHANGED faults
       \/ faults < MaxFaults /\ faults' = faults + 1 /\ UNCHANGED row
  /\ AfterSnapshot(p, call[p].pc = "snapshotRow")
  /\ UNCHANGED <<now, memVars, footage, restarts>>

-----------------------------------------------------------------------------
(* tick, and the two loops over all cameras.                               *)

Tick ==
  /\ running = None /\ call[Ticker].pc = "idle"
  /\ RunOn(Ticker, [LoopAt(Ticker, "retry") EXCEPT !.ts = now])
  /\ UNCHANGED <<now, memVars, dbVars, said, dbQueue, faults, restarts>>

Looping(p, pc) == running = p /\ call[p].pc = pc

\* Mutant: nobody catches what the loop raises, its task is dead.
LoopBreaksForGood(p) ==
  /\ Looping(p, "retry") \/ Looping(p, "close")
  /\ Len(known) # call[p].size
  /\ Await(p, call[p])
  /\ UNCHANGED <<now, memVars, dbVars, said, dbQueue, faults, restarts>>

\* A camera joined during an await: the dict iterator raises, the call ends.
LoopBreaks(p) ==
  /\ Looping(p, "retry") \/ Looping(p, "close")
  /\ Len(known) # call[p].size
  /\ Await(p, Idle)
  /\ UNCHANGED <<now, memVars, dbVars, said, dbQueue, faults, restarts>>

\* Mutant: the number of attempts is not looked at.
NeedsSnapshotForEver(e, ts) ==
  /\ event[e].state = "confirmed" /\ ~event[e].snapshot
  /\ ts - event[e].lastTry >= SnapshotRetryAfter

NeedsSnapshot(e, ts) ==
  /\ event[e].state = "confirmed" /\ ~event[e].snapshot
  /\ event[e].attempts < SnapshotMaxAttempts
  /\ ts - event[e].lastTry >= SnapshotRetryAfter

Absent(e, ts) == ts - event[e].lastSeen > CloseAfterAbsent

\* What p's loop still has to do.  Nothing else runs until it awaits, so it
\* goes to the first such camera at once.
OpenAt(i) == open[known[i]]
Due(p) ==
  {i \in call[p].place .. call[p].size :
     /\ OpenAt(i) # None
     /\ \/ call[p].pc = "retry" /\ NeedsSnapshot(OpenAt(i), call[p].ts)
        \/ call[p].pc = "close" /\ Absent(OpenAt(i), call[p].ts)}

FirstDue(p, pc, i) ==
  /\ Looping(p, pc) /\ Len(known) = call[p].size
  /\ i \in Due(p) /\ \A j \in Due(p) : i <= j

RetrySnapshot(p) ==
  /\ \E i \in 1 .. Len(known) :
       /\ FirstDue(p, "retry", i)
       /\ AskSnapshot(p, OpenAt(i), "retrySnapshot", i)
  /\ UNCHANGED <<now, known, open, dbVars, said, dbQueue, faults, restarts>>

\* Mutant: the event stays in its place until its row is written.
CloseEventLate(p) ==
  /\ \E i \in 1 .. Len(known) :
       /\ FirstDue(p, "close", i)
       /\ event' = [event EXCEPT ![OpenAt(i)].ended = TRUE]
       /\ AwaitDb(p, [At(p, "closeRow") EXCEPT !.on = OpenAt(i), !.place = i])
  /\ UNCHANGED <<now, known, open, dbVars, said, faults, restarts>>

\* The event leaves its place before the first await.
CloseEvent(p) ==
  /\ \E i \in 1 .. Len(known) :
       /\ FirstDue(p, "close", i)
       /\ open' = [open EXCEPT ![known[i]] = None]
       /\ event' = [event EXCEPT ![OpenAt(i)].ended = TRUE]
       /\ AwaitDb(p, [At(p, "closeRow") EXCEPT !.on = OpenAt(i), !.place = i])
  /\ UNCHANGED <<now, known, dbVars, said, faults, restarts>>

LoopEnds(p) ==
  /\ Len(known) = call[p].size /\ Due(p) = {}
  /\ \/ Looping(p, "retry") /\ RunOn(p, LoopAt(p, "close"))
     \/ Looping(p, "close") /\ Await(p, Idle)
  /\ UNCHANGED <<now, memVars, dbVars, said, dbQueue, faults, restarts>>

\* Mutant: dismissed events keep their footage and announce their end too.
CloseStoredForAll(p) ==
  /\ Foremost(p, "closeRow")
  /\ LET e == call[p].on IN
       row' = IF row[e] = NoRow THEN row ELSE [row EXCEPT ![e].ended = TRUE]
  /\ Await(p, At(p, "upgrade")) /\ dbQueue' = Append(Tail(dbQueue), p)
  /\ UNCHANGED <<now, memVars, footage, said, faults, restarts>>

\* update_event(ended_at); a confirmed event goes on to lift its footage.
CloseStored(p) ==
  /\ Foremost(p, "closeRow")
  /\ LET e == call[p].on IN
       /\ row' = IF row[e] = NoRow THEN row ELSE [row EXCEPT ![e].ended = TRUE]
       /\ IF event[e].state = "confirmed"
            THEN /\ Await(p, At(p, "upgrade"))
                 /\ dbQueue' = Append(Tail(dbQueue), p)
            ELSE /\ RunOn(p, OnwardAt(p, "close"))
                 /\ dbQueue' = Tail(dbQueue)
  /\ UNCHANGED <<now, memVars, footage, said, faults, restarts>>

\* upgrade_segments_class, whose failure does not stop the announcement.
FootageLifted(p) ==
  /\ Served(p, "upgrade")
  /\ \/ footage' = footage \union {call[p].on} /\ UNCHANGED faults
     \/ faults < MaxFaults /\ faults' = faults + 1 /\ UNCHANGED footage
  /\ Publish(call[p].on, "ended")
  /\ RunOn(p, OnwardAt(p, "close"))
  /\ UNCHANGED <<now, memVars, row, restarts>>

-----------------------------------------------------------------------------
Advance ==
  /\ running = None /\ now < MaxNow
  /\ now' = now + 1
  /\ UNCHANGED <<memVars, dbVars, said, call, running, dbQueue, faults, restarts>>

\* The process dies and starts again: nothing in memory is left.
Crash ==
  /\ running = None /\ restarts < MaxRestarts /\ restarts' = restarts + 1
  /\ known' = <<>> /\ open' = [c \in Camera |-> None]
  /\ call' = [p \in Caller |-> Idle] /\ dbQueue' = <<>>
  /\ UNCHANGED <<now, event, dbVars, said, running, faults>>

Step(p) ==
  \/ Inserted(p) \/ ConfirmStored(p) \/ CallFails(p)
  \/ SnapshotTaken(p) \/ SnapshotFails(p) \/ SnapshotStored(p)
  \/ LoopBreaks(p) \/ RetrySnapshot(p) \/ CloseEvent(p) \/ LoopEnds(p)
  \/ CloseStored(p) \/ FootageLifted(p)

PipelineStep(c) ==
  \/ Detected(c) \/ PassOver(c) \/ Extend(c) \/ ExtendAndConfirm(c)
  \/ \E e \in EventId : OpenEvent(c, e)

Next ==
  \/ \E c \in Camera : Frame(c) \/ PipelineStep(c)
  \/ Tick
  \/ \E p \in Caller : Step(p)
  \/ Advance
  \/ Crash

Spec == Init /\ [][Next]_vars

-----------------------------------------------------------------------------
EventObject ==
  [camera : Camera \union {None}, state : {"unborn", "dismissed", "confirmed"},
   tracks : SUBSET Nat, lastSeen : 0 .. MaxNow, ended : BOOLEAN, snapshot : BOOLEAN,
   attempts : 0 .. SnapshotMaxAttempts + 1, lastTry : -SnapshotRetryAfter .. MaxNow]

EventRow ==
  [state : {"none", "dismissed", "confirmed"}, ended : BOOLEAN, snapshot : BOOLEAN]

Call ==
  [pc : Place, ts : 0 .. MaxNow, batch : Seq(Track), on : EventId \union {None},
   place : Nat, size : Nat]

\* Besides the types: the retry loop and the promotion may both count an
\* attempt, so that there is one more than SNAPSHOT_MAX_ATTEMPTS at most.
TypeOK ==
  /\ now \in 0 .. MaxNow
  /\ known \in Seq(Camera)
  /\ open \in [Camera -> EventId \union {None}]
  /\ event \in [EventId -> EventObject]
  /\ row \in [EventId -> EventRow]
  /\ footage \subseteq EventId
  /\ said \in [EventId -> [Topic -> Nat]]
  /\ call \in [Caller -> Call]
  /\ running \in Caller \union {None}
  /\ dbQueue \in Seq(Caller)
  /\ faults \in 0 .. MaxFaults /\ restarts \in 0 .. MaxRestarts

\* What is promised of an event's life (EventLife.tla): it opens once, in the
\* one place its camera has, its verdict never falls, and it is announced only
\* when confirmed, once per topic, its end only after it was closed - whichever
\* coroutines promote, close and crash in between.
Life == INSTANCE EventLife WITH
  state <- [e \in EventId |-> event[e].state],
  closed <- {e \in EventId : event[e].ended}

KeepsEventLife == Life!Spec

\* "kept, silent" must not cost disk (engine.py:390-393): as long as an event is
\* dismissed it is neither announced nor photographed, and its footage stays on
\* the continuous schedule.
DismissedCostsNothing ==
  \A e \in EventId : event[e].state = "dismissed" =>
    /\ e \notin footage
    /\ said[e] = [t \in Topic |-> 0]
    /\ event[e].attempts = 0 /\ ~row[e].snapshot

\* While no database call fails, an event nobody works on is told in full: its
\* row says what memory says, a confirmed event has been announced, and a
\* closed one has its end announced and its footage lifted - although another
\* camera's coroutine may have closed it before its own had stored it.
AtRest(e) == \A p \in Caller : call[p].on # e
ToldInFull ==
  faults = 0 /\ restarts = 0 =>
    \A e \in EventId : event[e].state # "unborn" /\ AtRest(e) =>
      /\ row[e] = [state |-> event[e].state, ended |-> event[e].ended,
                   snapshot |-> event[e].snapshot]
      /\ event[e].state = "confirmed" =>
           /\ said[e]["confirmed"] = 1
           /\ event[e].ended => said[e]["ended"] = 1 /\ e \in footage

-----------------------------------------------------------------------------
(* Liveness.  asyncio resumes ready coroutines in the order in which they  *)
(* became ready, the write lock is first come first served, the gateway's  *)
(* client has timeouts, and the ticker loops for ever.  Nothing is assumed   *)
(* of frames and detectors.                                                *)

Fairness ==
  /\ \A c \in Camera :
       SF_vars(PassOver(c) \/ Extend(c) \/ ExtendAndConfirm(c) \/ \E e \in EventId : OpenEvent(c, e))
  /\ \A p \in Caller : SF_vars(Step(p))
  /\ SF_vars(Tick)

FairSpec == Spec /\ Fairness

\* An event whose tracks are gone does not stay open: it is closed unless a
\* track comes back, even if calls fail or break off on the way.
OverdueEventsClose ==
  \A c \in Camera, e \in EventId :
    open[c] = e /\ Absent(e, now) ~> open[c] # e \/ ~Absent(e, now)

-----------------------------------------------------------------------------
\* "At most every SNAPSHOT_RETRY_AFTER_S seconds" (engine.py:47-48): an event
\* that was photographed before is tried again only after that time, whichever
\* coroutine tries.
SnapshotsAreThrottled ==
  [][\A e \in EventId : event[e].attempts \in 1 .. event'[e].attempts - 1 =>
       event'[e].lastTry - event[e].lastTry >= SnapshotRetryAfter]_vars
==============================================================================
