------------------------------- MODULE Storage -------------------------------
(***************************************************************************)
(* The footage store: segment files on the media volume, their rows in the *)
(* index, and everybody who touches them.                                  *)
(*   - the recorders index what ffmpeg finalizes (recording/recorder.py);  *)
(*   - the boot and reload scan adopts or removes files that have no row   *)
(*     (recording/reconcile.py);                                           *)
(*   - the janitor deletes by retention and by disk pressure               *)
(*     (recording/janitor.py, planned by Retention.tla);                   *)
(*   - the event engine and the favorite endpoint move rows between        *)
(*     retention classes (db/__init__.py:upgrade_segments_class).          *)
(* All of them are coroutines of one event loop: an action is what runs    *)
(* between two awaits, and a database call is one action.  One unit of     *)
(* time is one segment.                                                    *)
(***************************************************************************)
EXTENDS Retention

CONSTANTS
  Camera,          \* camera ranks, in the order of the configuration
  CameraLimits,    \* the retention that applies to each camera
  SizeOf,          \* bytes of one segment of each camera
  DiskBytes,       \* size of the media volume
  PressureFree,    \* below this many free bytes the pressure pass runs
  TargetFree,      \* what the pressure pass tries to restore
  Lane,            \* bound: recorder supervisors that exist at a time
  Spans,           \* bound: the ranges <<from, until>> whose rows change class
  MinAge,          \* orphans younger than this are left alone
  MaxNow,          \* bound: how long the clock runs
  MaxRestarts,     \* bound: crashes, shutdowns and reloads
  MaxFaults        \* bound: refused unlinks, failed DB writes, ffmpeg deaths, stat errors

ASSUME StorageAssumption ==
  /\ Camera \subseteq Nat /\ IsFiniteSet(Camera)
  /\ CameraLimits \in [Camera -> Limits]
  /\ SizeOf \in [Camera -> Nat]
  /\ DiskBytes \in Nat /\ PressureFree \in Nat /\ TargetFree \in Nat
  /\ Lane # {} /\ IsFiniteSet(Lane)
  /\ Spans \subseteq Nat \X Nat
  /\ MinAge \in Nat /\ MaxNow \in Nat /\ MaxRestarts \in Nat /\ MaxFaults \in Nat

VARIABLES
  now,         \* wall clock
  disk,        \* finalized or torn segment files on the volume
  torn,        \* the files ffmpeg could not finalize (no moov atom: unreadable)
  row,         \* the index: the class of each file's row, "none" without a row
  lane,        \* the supervisor the runtime's recorder attribute points at
  heard,       \* per lane: notices on the recorders' pipes, not indexed yet
  capture,     \* per lane and camera: how far the supervisor's start got
  scan,        \* per lane: the running scan
  contested,   \* history: files a scan listed while another lane had them to announce
  pass,        \* the janitor: off, idle, or what its running pass does next
  passAt,      \* the clock when the pass started
  snapshot,    \* the rows as the pass read them
  camerasLeft, \* cameras whose expiry the pass has still to run
  unlinked,    \* files of the batch whose rows are still to be deleted
  deleted,     \* deleted_paths of the pass
  measured, measuredAt,  \* the free bytes the pass found, and when it looked
  stranded,    \* history: rows whose deletion was interrupted after the unlink
  faults, restarts

clockVars == <<now, restarts>>
fileVars == <<disk, torn>>
captureVars == <<lane, heard, capture>>
scanVars == <<scan, contested>>
measureVars == <<measured, measuredAt>>
passVars == <<pass, passAt, snapshot, camerasLeft, unlinked, deleted, measureVars>>
vars == <<clockVars, fileVars, row, captureVars, scanVars, passVars, stranded, faults>>

Segment == Camera \X (0 .. MaxNow - 1)
CameraOf(s) == s[1]
StartOf(s) == s[2]
EndOf(s) == s[2] + 1

RowClass == SegmentClass \union {"none"}
CaptureState == {"off", "waiting", "scanning", "recording"}
PassState == {"off", "idle", "expiry", "expiryRows", "pressure", "pressureRows"}

\* A scan: the clock when it listed the directory, the orphans it has not judged
\* yet, whether the next of them was probed and waits for its row, and whether a
\* call failed (history).
ScanState == [at : 0 .. MaxNow, todo : SUBSET Segment, read : BOOLEAN, fault : BOOLEAN]
NoScan == [at |-> 0, todo |-> {}, read |-> FALSE, fault |-> FALSE]

Nothing == [s \in Segment |-> "none"]
Rows == {s \in Segment : row[s] # "none"}

Recording(l) == {c \in Camera : capture[l][c] = "recording"}
Running == \E l \in Lane, c \in Camera : capture[l][c] # "off"
Starting == \E l \in Lane, c \in Camera : capture[l][c] \in {"waiting", "scanning"}

\* All cameras of lane l, and those of the others.
OnLane(l, here, elsewhere) ==
  [m \in Lane |-> IF m = l THEN [c \in Camera |-> here] ELSE elsewhere[m]]
AllOff == [m \in Lane |-> [c \in Camera |-> "off"]]
NothingHeard == [m \in Lane |-> {}]

\* The files that lane l has still to announce to the index.
Announced(l) == heard[l] \union scan[l].todo

\* What the planner sees of row s when it has class k.
Planned(s, k) ==
  [path |-> s, camera |-> CameraOf(s), start |-> StartOf(s), end |-> EndOf(s),
   size |-> SizeOf[CameraOf(s)], klass |-> k]

TypeOK ==
  /\ now \in 0 .. MaxNow
  /\ disk \subseteq Segment /\ torn \subseteq Segment
  /\ row \in [Segment -> RowClass]
  /\ lane \in Lane
  /\ heard \in [Lane -> SUBSET Segment]
  /\ capture \in [Lane -> [Camera -> CaptureState]]
  /\ scan \in [Lane -> ScanState] /\ contested \subseteq Segment
  /\ pass \in PassState /\ passAt \in 0 .. MaxNow
  /\ snapshot \in [Segment -> RowClass]
  /\ camerasLeft \subseteq Camera
  /\ unlinked \subseteq Segment /\ deleted \subseteq Segment
  /\ measured \in Int /\ measuredAt \in 0 .. MaxNow
  /\ stranded \subseteq Segment
  /\ faults \in 0 .. MaxFaults /\ restarts \in 0 .. MaxRestarts

Init ==
  /\ now = 0
  /\ disk = {} /\ torn = {}
  /\ row = Nothing
  /\ lane \in Lane
  /\ heard = NothingHeard
  /\ capture = OnLane(lane, "waiting", AllOff)
  /\ scan = [l \in Lane |-> NoScan] /\ contested = {}
  /\ pass = "off" /\ passAt = 0 /\ snapshot = Nothing
  /\ camerasLeft = {} /\ unlinked = {} /\ deleted = {}
  /\ measured = 0 /\ measuredAt = 0
  /\ stranded = {}
  /\ faults = 0 /\ restarts = 0

-----------------------------------------------------------------------------
(* Recording: time passes and ffmpeg finalizes files.                      *)

\* In one slot a recorder writes a whole segment and lists it on the pipe, dies
\* in the middle of it, or writes nothing.  (Two recorders of one camera were
\* started at different times; a slot holds a file of one of them.)
Tick ==
  /\ now < MaxNow
  /\ \E wrote \in [Lane -> SUBSET Camera] :
       /\ \A l \in Lane : wrote[l] \subseteq Recording(l)
       /\ \A l, m \in Lane : l # m => wrote[l] \cap wrote[m] = {}
       /\ \E cut \in SUBSET UNION {wrote[l] : l \in Lane} :
            /\ cut # {} => faults < MaxFaults
            /\ faults' = IF cut = {} THEN faults ELSE faults + 1
            /\ torn' = torn \union {<<c, now>> : c \in cut}
            /\ heard' = [l \in Lane |-> heard[l] \union {<<c, now>> : c \in wrote[l] \ cut}]
       /\ disk' = disk \union {<<c, now>> : c \in UNION {wrote[l] : l \in Lane}}
  /\ now' = now + 1
  /\ UNCHANGED <<restarts, row, lane, capture, scanVars, passVars, stranded>>

\* Mutant: the row gets the record mode of the camera for its class.
UpsertMode(s) == row' = [row EXCEPT ![s] = "events"]

\* add_segment: an upsert that sets the class whatever the row held.
Upsert(s) == row' = [row EXCEPT ![s] = "continuous"]

\* The supervise loop reads a notice; a file that is gone yields none.
Index(l, s) ==
  /\ s \in heard[l]
  /\ heard' = [heard EXCEPT ![l] = @ \ {s}]
  /\ IF s \in disk THEN Upsert(s) ELSE UNCHANGED row
  /\ UNCHANGED <<clockVars, fileVars, lane, capture, scanVars, passVars, stranded, faults>>

\* Indexing fails: recorder.index_failed is emitted and the file stays unindexed.
IndexFails(l, s) ==
  /\ s \in heard[l] /\ faults < MaxFaults
  /\ heard' = [heard EXCEPT ![l] = @ \ {s}]
  /\ faults' = faults + 1
  /\ UNCHANGED <<clockVars, fileVars, row, lane, capture, scanVars, passVars, stranded>>

-----------------------------------------------------------------------------
(* The supervisor's start: scan a camera's directory, then record it.      *)

\* Mutant: the scan does not ask the index which files it knows.
AllFiles(c) == {s \in disk : CameraOf(s) = c}

\* The files without a row, as the scan finds them when it lists the directory.
Orphans(c) == {s \in disk : CameraOf(s) = c /\ row[s] = "none"}

\* One supervisor takes its cameras one after the other.
ScanStart(l, c) ==
  /\ capture[l][c] = "waiting"
  /\ \A d \in Camera : d < c => capture[l][d] \notin {"waiting", "scanning"}
  /\ capture' = [capture EXCEPT ![l][c] = "scanning"]
  /\ scan' = [scan EXCEPT ![l] = [at |-> now, todo |-> Orphans(c), read |-> FALSE, fault |-> FALSE]]
  /\ contested' = contested \union
       (Orphans(c) \cap UNION {Announced(m) : m \in Lane \ {l}})
  /\ UNCHANGED <<clockVars, fileVars, row, lane, heard, passVars, stranded, faults>>

\* The scan looks at its files in name order, which is the order of time.
NextOrphan(l, s) ==
  s \in scan[l].todo /\ \A t \in scan[l].todo : StartOf(s) <= StartOf(t)

Young(l, s) == scan[l].at - EndOf(s) < MinAge

\* What the scan does with the next file depends on what stat and ffprobe say.
Judge(l, s) == NextOrphan(l, s) /\ ~scan[l].read
Judged(l, s) == scan' = [scan EXCEPT ![l].todo = @ \ {s}]

\* A file that vanished or is too young is passed over.
ScanSkip(l, s) ==
  /\ Judge(l, s)
  /\ s \notin disk \/ Young(l, s)
  /\ Judged(l, s)
  /\ UNCHANGED <<clockVars, fileVars, row, captureVars, contested, passVars, stranded, faults>>

\* Mutant: the unreadable file is counted as removed and stays.
ScanRemoveInName(l, s) ==
  /\ Judge(l, s) /\ s \in disk /\ ~Young(l, s)
  /\ \/ s \in torn /\ UNCHANGED faults
     \/ s \notin torn /\ faults < MaxFaults /\ faults' = faults + 1
  /\ Judged(l, s)
  /\ UNCHANGED <<clockVars, fileVars, row, captureVars, contested, passVars, stranded>>

\* ffprobe gives no duration - the file is torn, or the probe ran into its
\* timeout - and the scan unlinks the file.
ScanRemove(l, s) ==
  /\ Judge(l, s) /\ s \in disk /\ ~Young(l, s)
  /\ \/ s \in torn /\ UNCHANGED faults
     \/ s \notin torn /\ faults < MaxFaults /\ faults' = faults + 1   \* timed out
  /\ disk' = disk \ {s} /\ torn' = torn \ {s}
  /\ Judged(l, s)
  /\ UNCHANGED <<clockVars, row, captureVars, contested, passVars, stranded>>

\* The unlink of an unreadable file fails; the error is suppressed.
ScanRemoveFails(l, s) ==
  /\ Judge(l, s) /\ s \in torn /\ ~Young(l, s)
  /\ faults < MaxFaults /\ faults' = faults + 1
  /\ scan' = [scan EXCEPT ![l].todo = @ \ {s}, ![l].fault = TRUE]
  /\ UNCHANGED <<clockVars, fileVars, row, captureVars, contested, passVars, stranded>>

\* ffprobe gives a duration; the scan awaits add_segment.
ScanProbe(l, s) ==
  /\ Judge(l, s) /\ s \in disk \ torn /\ ~Young(l, s)
  /\ scan' = [scan EXCEPT ![l].read = TRUE]
  /\ UNCHANGED <<clockVars, fileVars, row, captureVars, contested, passVars, stranded, faults>>

ScanAdopt(l, s) ==
  /\ NextOrphan(l, s) /\ scan[l].read
  /\ Upsert(s)
  /\ scan' = [scan EXCEPT ![l].todo = @ \ {s}, ![l].read = FALSE]
  /\ UNCHANGED <<clockVars, fileVars, captureVars, contested, passVars, stranded, faults>>

\* A failing call ends the scan; the camera records all the same.
ScanFails(l, c) ==
  /\ capture[l][c] = "scanning" /\ scan[l].todo # {}
  /\ faults < MaxFaults /\ faults' = faults + 1
  /\ scan' = [scan EXCEPT ![l].todo = {}, ![l].read = FALSE, ![l].fault = TRUE]
  /\ UNCHANGED <<clockVars, fileVars, row, captureVars, contested, passVars, stranded>>

StartRecorder(l, c) ==
  /\ capture[l][c] = "scanning" /\ scan[l].todo = {}
  /\ capture' = [capture EXCEPT ![l][c] = "recording"]
  /\ UNCHANGED <<clockVars, fileVars, row, lane, heard, scanVars, passVars, stranded, faults>>

-----------------------------------------------------------------------------
(* The janitor's pass.                                                     *)

\* Runtime.start starts the janitor when the recorders are up.
JanitorStart ==
  /\ pass = "off" /\ Recording(lane) = Camera
  /\ pass' = "idle"
  /\ UNCHANGED <<clockVars, fileVars, row, captureVars, scanVars, passAt, snapshot,
                 camerasLeft, unlinked, deleted, measureVars, stranded, faults>>

\* all_segments: the pass works from here on with the rows it read.
PassStart ==
  /\ pass = "idle"
  /\ pass' = "expiry" /\ passAt' = now
  /\ snapshot' = row
  /\ camerasLeft' = {CameraOf(s) : s \in Rows}
  /\ UNCHANGED <<clockVars, fileVars, row, captureVars, scanVars,
                 unlinked, deleted, measureVars, stranded, faults>>

Listed(S) == {Planned(s, snapshot[s]) : s \in {t \in S : snapshot[t] # "none"}}

ExpiryPlan(c) ==
  {p.path : p \in Expired(Listed({s \in Segment : CameraOf(s) = c}), CameraLimits[c], passAt)}

FreeBytes == DiskBytes - MapThenSumSet(LAMBDA s : SizeOf[CameraOf(s)], disk)

\* Mutant: the files the expiry pass deleted count as survivors.
PressurePlanOfAll ==
  {p.path : p \in Pressure(Listed(Segment), NoLimits, passAt, TargetFree - measured)}

PressurePlan ==
  {p.path : p \in Pressure(Listed(Segment \ deleted), NoLimits, passAt,
                           TargetFree - measured)}

\* Mutant: a file that refuses to die is listed as deleted all the same.
UnlinkRegardless(plan) ==
  \E refused \in SUBSET plan :
    /\ refused # {} => faults < MaxFaults
    /\ faults' = IF refused = {} THEN faults ELSE faults + 1
    /\ unlinked' = plan
    /\ disk' = disk \ (plan \ refused)
    /\ torn' = torn \ (plan \ refused)

\* _delete_segments, first half: unlink every file of the plan but those that
\* refuse to die, which keep their rows.
Unlink(plan) ==
  \E refused \in SUBSET plan :
    /\ refused # {} => faults < MaxFaults
    /\ faults' = IF refused = {} THEN faults ELSE faults + 1
    /\ unlinked' = plan \ refused
    /\ disk' = disk \ (plan \ refused)
    /\ torn' = torn \ (plan \ refused)

PassExpire(c) ==
  /\ pass = "expiry" /\ c \in camerasLeft
  /\ \A d \in camerasLeft : c <= d
  /\ Unlink(ExpiryPlan(c))
  /\ camerasLeft' = camerasLeft \ {c}
  /\ pass' = "expiryRows"
  /\ UNCHANGED <<clockVars, row, captureVars, scanVars, passAt, snapshot, deleted,
                 measureVars, stranded>>

\* _check_watermarks: the volume is short of space, and the event that says so
\* is awaited.
PassMeasure ==
  /\ pass = "expiry" /\ camerasLeft = {}
  /\ FreeBytes < PressureFree
  /\ measured' = FreeBytes /\ measuredAt' = now
  /\ pass' = "pressure"
  /\ UNCHANGED <<clockVars, fileVars, row, captureVars, scanVars, passAt, snapshot,
                 camerasLeft, unlinked, deleted, stranded, faults>>

\* The pressure plan is made for the bytes that were missing then.
PassPressure ==
  /\ pass = "pressure"
  /\ Unlink(PressurePlan)
  /\ pass' = "pressureRows"
  /\ UNCHANGED <<clockVars, row, captureVars, scanVars, passAt, snapshot,
                 camerasLeft, deleted, measureVars, stranded>>

EndPass(then) ==
  /\ pass' = then
  /\ snapshot' = Nothing /\ camerasLeft' = {} /\ unlinked' = {} /\ deleted' = {}
  /\ measured' = 0 /\ measuredAt' = 0
  /\ UNCHANGED passAt

\* Enough space, or the volume cannot be stat'ed: no pressure deletion.
PassWithoutPressure ==
  /\ pass = "expiry" /\ camerasLeft = {}
  /\ \/ FreeBytes >= PressureFree /\ UNCHANGED faults
     \/ faults < MaxFaults /\ faults' = faults + 1
  /\ EndPass("idle")
  /\ UNCHANGED <<clockVars, fileVars, row, captureVars, scanVars, stranded>>

\* Mutant: the delete is guarded by the class the planner mostly sees.
DropContinuousRows(S) ==
  row' = [s \in Segment |-> IF s \in S /\ row[s] = "continuous" THEN "none" ELSE row[s]]

\* _delete_segments, second half: delete_segments_by_path.
DropRows(S) == row' = [s \in Segment |-> IF s \in S THEN "none" ELSE row[s]]

PassDeleteRows ==
  /\ DropRows(unlinked)
  /\ stranded' = stranded \ unlinked
  /\ \/ /\ pass = "expiryRows"
        /\ pass' = "expiry"
        /\ deleted' = deleted \union unlinked /\ unlinked' = {}
        /\ UNCHANGED <<passAt, snapshot, camerasLeft, measureVars>>
     \/ pass = "pressureRows" /\ EndPass("idle")
  /\ UNCHANGED <<clockVars, fileVars, captureVars, scanVars, faults>>

\* Mutant: the exception ends the janitor's task.
PassAbortsForGood ==
  /\ pass \in {"expiryRows", "pressure", "pressureRows"}
  /\ faults < MaxFaults /\ faults' = faults + 1
  /\ stranded' = stranded \union unlinked
  /\ EndPass("dead")
  /\ UNCHANGED <<clockVars, fileVars, row, captureVars, scanVars>>

\* The delete or the event raises: the loop logs it and starts over at the next interval.
PassAborts ==
  /\ pass \in {"expiryRows", "pressure", "pressureRows"}
  /\ faults < MaxFaults /\ faults' = faults + 1
  /\ stranded' = stranded \union unlinked
  /\ EndPass("idle")
  /\ UNCHANGED <<clockVars, fileVars, row, captureVars, scanVars>>

-----------------------------------------------------------------------------
(* Class changes: upgrade_segments_class over the rows that overlap the    *)
(* range [from, until) of a camera.                                        *)

Reclass(c, from, until, klass, onlyFrom) ==
  /\ pass # "off"   \* engine and API run once the boot is through
  /\ row' = [s \in Segment |->
               IF /\ CameraOf(s) = c /\ EndOf(s) > from /\ StartOf(s) < until
                  /\ row[s] \in onlyFrom
                 THEN klass ELSE row[s]]
  /\ UNCHANGED <<clockVars, fileVars, captureVars, scanVars, passVars, stranded, faults>>

\* The engine closes a confirmed event.
CloseEvent(c, from, until) ==
  Reclass(c, from, until, "event", {"continuous", "motion"})

\* POST /events/{id}/favorite, both ways.
Star(c, from, until) ==
  Reclass(c, from, until, "favorite", {"continuous", "motion", "event"})

Unstar(c, from, until) == Reclass(c, from, until, "event", {"favorite"})

-----------------------------------------------------------------------------
(* The end of the process, and the reload that replaces the recorders.     *)

\* Everything in memory is gone.
MemoryIsLost ==
  /\ heard' = NothingHeard
  /\ capture' = AllOff
  /\ scan' = [l \in Lane |-> NoScan]
  /\ stranded' = stranded \union unlinked
  /\ EndPass("off")
  /\ UNCHANGED <<lane, contested>>

\* ffmpeg leaves a torn file per recording camera.
Crash ==
  /\ Running /\ now < MaxNow /\ restarts < MaxRestarts
  /\ \E cut \in SUBSET UNION {Recording(l) : l \in Lane} :
       /\ disk' = disk \union {<<c, now>> : c \in cut}
       /\ torn' = torn \union {<<c, now>> : c \in cut}
  /\ now' = now + 1 /\ restarts' = restarts + 1
  /\ MemoryIsLost
  /\ UNCHANGED <<row, faults>>

\* RecorderSupervisor.stop, on the recorders it has started so far: SIGTERM makes
\* ffmpeg finalize the open segment, and the drain indexes it with what is left
\* on the pipe.
StopRecorders ==
  /\ now < MaxNow /\ restarts < MaxRestarts
  /\ \E last \in SUBSET Recording(lane) :
       LET drained == heard[lane] \union {<<c, now>> : c \in last} IN
       /\ disk' = disk \union {<<c, now>> : c \in last}
       /\ row' = [s \in Segment |->
                    IF s \in drained /\ s \in disk' THEN "continuous" ELSE row[s]]
  /\ now' = now + 1 /\ restarts' = restarts + 1
  /\ UNCHANGED <<torn, faults>>

\* Runtime.stop, once the requests are answered: it cancels the janitor and stops
\* the recorders it knows; what another lane records dies with the process.
Shutdown ==
  /\ Running /\ ~Starting /\ pass # "off"
  /\ StopRecorders
  /\ MemoryIsLost

\* reload_cameras replaces the supervisor under the running janitor.  Nothing
\* holds it back while another reload is still starting recorders: those it has
\* started are stopped, and the start goes on with the cameras that are left.
Reload ==
  /\ pass # "off"
  /\ StopRecorders
  /\ LET stopped == [capture EXCEPT ![lane] =
                       [c \in Camera |-> IF @[c] = "recording" THEN "off" ELSE @[c]]]
     IN \E next \in Lane :
          /\ \A c \in Camera : stopped[next][c] = "off"
          /\ lane' = next
          /\ capture' = OnLane(next, "waiting", stopped)
  /\ heard' = [heard EXCEPT ![lane] = {}]
  /\ UNCHANGED <<scanVars, passVars, stranded>>

Boot ==
  /\ ~Running
  /\ lane' \in Lane
  /\ capture' = OnLane(lane', "waiting", AllOff)
  /\ UNCHANGED <<clockVars, fileVars, row, heard, scanVars, passVars, stranded, faults>>

-----------------------------------------------------------------------------
Scan ==
  \E l \in Lane :
    \/ \E c \in Camera : ScanStart(l, c) \/ ScanFails(l, c) \/ StartRecorder(l, c)
    \/ \E s \in Segment :
         \/ ScanSkip(l, s) \/ ScanRemove(l, s) \/ ScanRemoveFails(l, s)
         \/ ScanProbe(l, s) \/ ScanAdopt(l, s)

Pass ==
  \/ JanitorStart \/ PassStart
  \/ \E c \in Camera : PassExpire(c)
  \/ PassMeasure \/ PassPressure \/ PassWithoutPressure
  \/ PassDeleteRows \/ PassAborts

Reclassify ==
  \E c \in Camera, span \in Spans :
    \/ CloseEvent(c, span[1], span[2])
    \/ Star(c, span[1], span[2])
    \/ Unstar(c, span[1], span[2])

Next ==
  \/ Tick
  \/ \E l \in Lane, s \in Segment : Index(l, s) \/ IndexFails(l, s)
  \/ Scan
  \/ Pass
  \/ Reclassify
  \/ Crash \/ Shutdown \/ Reload \/ Boot

Spec == Init /\ [][Next]_vars

-----------------------------------------------------------------------------
\* "Event (within retention) and favorite segments" outlive a pass that saw
\* them as such (retention.py:7-10): a file leaves the disk only if the pass,
\* when it read the index, did not find it favorite, and found it event only
\* if the event schedule was over.  No other actor removes indexed footage, but
\* for a file that two overlapping starts judge at once.
SparesEvidence ==
  [][\A s \in disk \ (disk' \union contested) :
       /\ snapshot[s] # "favorite"
       /\ snapshot[s] = "event" =>
            /\ CameraLimits[CameraOf(s)]["event"] # Forever
            /\ passAt - EndOf(s) > CameraLimits[CameraOf(s)]["event"]]_vars

\* Evidence never falls back to the continuous schedule: whoever re-announces
\* a file (add_segment overwrites the class), no row that was lifted to event
\* or favorite becomes continuous again.  Reloads may overlap; what is exempt is
\* the single file that one start listed as an orphan while another start had it
\* to announce (NoWriterRaces shows what becomes of that).
EvidenceNeverReverts ==
  [][\A s \in Segment \ contested :
       row[s] \in {"event", "favorite"} => row'[s] \in {"event", "favorite", "none"}]_vars

\* The index never promises footage that is gone, except for the files whose
\* row deletion is still due or was cut off by a failure, and those that two
\* starts announce.
RowsHaveFiles == \A s \in Rows : s \in disk \union unlinked \union stranded \union contested

\* A row is deleted only after its file: a file that refuses to die keeps its
\* row, or retention would lose sight of it (janitor.py:292-293).
RowsOutliveFiles ==
  [][\A s \in Rows : row'[s] = "none" => s \notin disk']_vars

\* A scan in which no call failed leaves nothing behind on its camera: when
\* recording starts, every file had its row, was too young to judge, or came
\* from another lane's recorder since the scan listed the directory.
ScanLeavesNoOrphan ==
  [][\A l \in Lane, c \in Camera :
       capture[l][c] = "scanning" /\ capture'[l][c] = "recording" /\ ~scan[l].fault =>
         \A s \in Orphans(c) : Young(l, s)]_vars

\* The bytes of the files that came since the pass looked at the volume.
Arrived ==
  MapThenSumSet(LAMBDA s : SizeOf[CameraOf(s)], {s \in disk : StartOf(s) >= measuredAt})

\* The pressure pass counts only bytes it really frees: unless a file refused
\* to die or a row without file misled it, the volume is back at the target but
\* for what came in since the pass measured it, or nothing the pass knew as
\* continuous or motion is left.
PressureRestoresTarget ==
  [][(pass = "pressure" /\ pass' = "pressureRows" /\ faults' = faults
      /\ stranded = {} /\ contested = {}) =>
       \/ FreeBytes' + Arrived >= TargetFree
       \/ \A s \in disk' : snapshot[s] \notin PressureDeletable]_vars

\* Pressure is global: over all cameras, no continuous file is taken while the
\* pass knows of an older continuous one ("oldest continuous goes first",
\* retention.py:7), unless that one refuses to die.
PressureTakesOldestOfAll ==
  [][pass = "pressure" /\ pass' = "pressureRows" /\ faults' = faults =>
       \A gone \in disk \ disk', kept \in disk' :
         snapshot[kept] = "continuous" => StartOf(gone) <= StartOf(kept)]_vars

-----------------------------------------------------------------------------
(* Liveness.  The janitor loops for ever, the supervisor's start runs to   *)
(* its end (ffprobe is cut off after 10 s) and the service manager starts  *)
(* the process again.                                                      *)

Fairness ==
  /\ WF_vars(Pass)
  /\ WF_vars(Scan)
  /\ WF_vars(Boot)

FairSpec == Spec /\ Fairness

Due(s, k) ==
  /\ s \in disk /\ row[s] = k
  /\ CameraLimits[CameraOf(s)][k] # Forever
  /\ now - EndOf(s) > CameraLimits[CameraOf(s)][k]

\* Footage whose schedule is over does not stay: it is deleted, or it changes
\* class, whatever passes are aborted and processes restarted meanwhile.  (No
\* code gives a row the class motion.)
ExpiredFootageGoes ==
  \A s \in Segment, k \in {"continuous", "event"} :
    Due(s, k) ~> (s \notin disk \/ row[s] # k)

-----------------------------------------------------------------------------
\* What the docs say of favorites: "favorites are immortal" (retention.py:6),
\* "retention never eats it" (db/schema.py:108-109).
FavoritesAreImmortal ==
  [][\A s \in disk : row[s] = "favorite" => s \in disk']_vars

\* What reconcile.py:41 says of a probe that timed out: the file is "left for
\* the next boot"; the scan removes truncated files only.
OnlyTornOrphansAreRemoved ==
  [][\A l \in Lane : \A s \in scan[l].todo : s \in disk \ disk' => s \in torn]_vars

\* What recorder.py:417-418 says of the adoption of footage: it is done "before
\* the recorder starts, so no writer races".  Then no row that was lifted to
\* event or favorite is overwritten by an adoption.
NoWriterRaces ==
  [][\A s \in Segment : row[s] \in {"event", "favorite"} => row'[s] # "continuous"]_vars
==============================================================================
