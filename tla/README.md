# Vidette in TLA+

Vidette is a self-hosted camera recorder: one Python process (asyncio, one event
loop, SQLite through one connection) that records cameras with ffmpeg, detects
what happens in front of them, keeps the footage by retention class and notifies.
This directory holds its TLA+ models, the TLC configurations that check them on
small instances, and theorems checked by the TLA+ proof system.

All source paths below are relative to `src/server/vidette/`.

## 1. The system

| Component | Source | State it keeps | Operations |
|---|---|---|---|
| Retention planner | `recording/retention.py` | none (pure) | `plan_deletions` |
| Janitor | `recording/janitor.py` | last run, once-per-crossing flags | `run_once` every 60 s |
| Segment index | `db/__init__.py`, `db/schema.py` | SQLite tables | upsert, list, delete, change class, ... |
| Reconciler | `recording/reconcile.py` | none; the media directory | scan of one camera's directory |
| Recorder | `recording/recorder.py`, `segments.py` | ffmpeg child, backoff, stall clock | spawn, index, restart, drain, stop |
| Pipeline | `pipeline/runner.py`, `decode.py` | ffmpeg decoder, backoff, failure streak | supervise loop, stop |
| Keep-warm | `streams/keepwarm.py` | a session per mains camera, silent sessions in a row | hold, reset, stop |
| Gateway manager | `streams/go2rtc.py` | generated configuration | sync, restart, probe |
| Event engine | `events/engine.py` | per camera: tracker, one open event | `on_detections`, `tick` |
| Events API | `api/routers/events.py`, `events/clips.py` | events table, clip files | favorite, review, clip, snapshot |
| Runtime | `runtime.py` | references to all subsystems | start, stop, reload, emit |
| Managed cameras | `core/managed.py`, `api/routers/config_cameras.py` | managed camera rows | merge, create, update, delete |
| Tracker | `pipeline/track.py` | tracks per camera | `update` |
| Object detector | `pipeline/detect.py` | model file and its stamp | ensure, download, open, detect |
| Event bus | `core/events.py` | bounded queue per subscription | publish, subscribe, get |
| Dispatcher and channels | `notify/dispatcher.py`, `webhook.py`, `webpush.py`, `apprise_channel.py` | a pump per rule, a lock per channel, the push keys | deliver with retries, subscribe |
| MQTT publisher | `notify/mqtt.py` | session, two consumers | announce, publish, reconnect |
| Live feed | `api/routers/ws.py` | one forwarder per client | subscribe, forward |
| Exporter, previews | `recording/exporter.py`, `previews.py` | jobs, files | create, run, cancel, clean up |
| Authentication | `auth/*`, `api/routers/auth.py` | accounts, sessions, tokens, failures | bootstrap, login, logout, check, tokens |
| Camera adapters | `adapters/onvif.py`, `rtsp.py` | none; the device | probe, stream endpoints |
| Motion gate, configuration, web client | see PROJECT.json | | not modelled |

How they interact. Recorders and the scan write segment rows; the engine, when it
closes a confirmed event, and the favorite endpoint move rows between retention
classes; the janitor reads all rows once per pass, plans, unlinks files and deletes
rows. The pipeline hands detections to the engine; the engine writes event rows and
publishes on the bus, from which the notifier, MQTT and web sockets consume. The
runtime owns the objects and replaces engine, recorders, pipeline, keep-warm and
MQTT when cameras change, without stopping janitor, exporter or notifier.

What is hard. Everything shares one event loop: code between two `await`s is atomic,
and whatever was read before an `await` may be stale after it. Files and rows are
two stores with no common transaction. ffmpeg children die, hang, and finalize files
on their own clock. Reload, shutdown and crash cut through all of it. PROJECT.json
lists the places where this bites (`hazards`), each at its line.

What makes each component correct:

- planner: never takes event (within retention) or favorite footage, takes the oldest
  first, frees what was asked or reports exactly what is missing;
- store: rows and files agree up to what a failure cut off, evidence neither
  disappears nor falls back to the continuous schedule, expired footage goes;
- event engine: one open event per camera, announcements of confirmed events only and
  each at most once, dismissed events stay silent and cheap, abandoned events close;
- capture: one ffmpeg child per supervisor, which is reaped; waits as long as the power
  profile and the failure justify; recording and detection come back by themselves;
- runtime: a replaced chain does not run on; cameras are captured as they are stored;
- bus and notifications: bounded memory, order kept, losses only by the drop-oldest rule,
  a broker that shows what is true;
- media: what is served was finished, what nobody owns is swept;
- keys and credentials: one key pair for all, ended credentials let nobody in;
- detector: only the pinned model runs, whatever downloads and crashes did before;
- gateway and adapters: what is streamed is what the last sync found, and a failure is
  reported as what it was.

## 2. Modules

| Module | Models | Builds on |
|---|---|---|
| `Retention` | the planner in closed form, as operators | |
| `PlanDeletions` | the planner's two loops, step by step | `Retention` |
| `Storage` | files, rows, recorders' indexing, scan, janitor pass, class changes, end of the process, reload | `Retention` |
| `Promotion` | suppression, promotion rules and sensitivities, as operators | |
| `EventLife` | abstract: what is promised of an event's life | |
| `EventEngine` | pipelines, ticker, engine, event rows | `Promotion`; implements `EventLife` |
| `Streams` | cameras, gateway sessions, ffmpeg children, the order to stop | |
| `Recorder` | the recorder's supervise loop | `Streams` |
| `Pipeline` | the pipeline's supervise loop and its decoder | `Recorder` |
| `KeepWarm` | holders and the gateway restart | `Pipeline` |
| `Capture` | the three side by side, until the runtime stops them | `KeepWarm` |
| `EventBus` | emissions, subscriptions, bounded queues | |
| `Dispatcher` | rules, channels, retries | `EventBus` |
| `MqttBridge` | the MQTT publisher and the broker | `Dispatcher` |
| `LiveStream` | the live feed of one client | `MqttBridge` |
| `Notifications` | the consumers of the bus side by side | `LiveStream` |
| `Exports`, `Previews`, `Clips` | the three makers of media files | each on the one before |
| `Runtime` | boots, camera requests, reload | |
| `VapidKeys` | web push keys, subscriptions, a delivery | |
| `Tracker` | matching, births and deaths of tracks | |
| `Access` | accounts, sessions, API tokens, requests | |
| `ModelStore` | the detector's model file and how it is opened | |
| `Onvif` | a conversation with a device | |
| `Gateway` | sync, the generated file, what the gateway serves | `Onvif` |
| `Services` | all from `EventBus` on, one at work per behaviour | all of them |
| `RetentionProofs`, `PlanDeletionsProofs`, `StorageProofs`, `EventEngineProofs`, `CaptureProofs` | theorems | the module they are named for |
| `NotificationProofs` | theorems | `Notifications`, with the bus and its consumers under it |
| `WebProofs` | theorems | `Access`, `VapidKeys`, `Clips` with `Exports` and `Previews` |
| `ServicesProofs` | theorems | `Services` and the two before: `Runtime`, `ModelStore`, `Onvif`, `Gateway`, `Tracker` |
| `MCPlanDeletions`, `MCStorage`, `MCEventEngine`, `MCCapture`, `MCServices`, `MCReload` | small instances | |

### Retention and PlanDeletions

A segment is a record with camera, start, end, size and class. The code walks lists;
the closed form says which set results: a segment is under pressure deletion when all
candidates that go before it do not yet free enough. `GoesBefore` breaks ties by the
camera's rank because the list comes from `ORDER BY camera, start_ts` and Python's
sort is stable. `PlanDeletions` runs the loops and `PlanIsTheClosedForm` shows both
agree; `Storage` then uses the closed form. The lists the loops walk are `Sorted`: the
elements of a set in an order without ties. Path strings and timestamps are abstracted to
ranks and integers.

### Storage

One unit of time is one segment. A segment is `<<camera, slot>>`; its path is itself.
`disk` and `torn` are the files (torn: no moov atom, `ffprobe` reports nothing), `row`
the class in the index or "none", `heard` what stands on ffmpeg's stdout.
Each action is the code between two awaits:

- `Tick`: ffmpeg finalizes (or tears) a file per recording camera;
- `Index`, `IndexFails`: the read loop of `CameraRecorder._supervise`;
- `ScanStart` .. `StartRecorder`: `RecorderSupervisor.start`, camera after camera,
  with the reconciler's scan file after file;
- `PassStart` (all_segments), `PassExpire` / `PassPressure` (unlinks),
  `PassDeleteRows` (delete_segments_by_path), `PassWithoutPressure`, `PassAborts`:
  `Janitor.run_once` and `_loop`;
- `CloseEvent`, `Star`, `Unstar`: `upgrade_segments_class` with the `only_from` lists
  of its three callers;
- `Crash`, `Shutdown`, `Reload`, `Boot`: the end of the process and
  `Runtime.stop / reload_cameras / start`. Shutdown cancels the janitor first, which
  may be between its unlinks and its row deletion; reload leaves it running.

The variables `scanFault` and `stranded` are history variables: the properties need to
know whether a call failed. A file whose unlink is refused, a failed delete, a failed
upsert, a probe timeout and a death of ffmpeg in mid-segment each cost one of
`MaxFaults`. The unlinks of one batch are one action: between them the code only awaits
`add_system_event` for a refused file, and the plan is fixed by then.

### Promotion, EventLife and EventEngine

`Promotion` translates `is_suppressed` and `promotion_reason`; the reason string is
abstracted to whether there is one, and `Verdict` is what `on_detections` makes of a
track. A track is what the tracker returned: its geometry is an input.

`EventEngine` has one caller per camera (its pipeline) and the ticker. All are
coroutines of one event loop: `running` names the one that holds it, and it keeps it
until it awaits. The awaits of the code are the places of `call[p].pc`: the detector,
`insert_event`, the confirming `update_event`, the gateway's snapshot, the row of the
snapshot, the row of the end, the class upgrade. Database calls wait in `dbQueue` for the
write lock, an `asyncio.Lock`, first come first served. `event` are the Python objects,
which a coroutine may still hold after the event left its place in `open`; `row` is the
table. `known` is the dict of cameras in insertion order, with the size an iteration
started with in the call: a camera that joins during an await makes the iterator raise
(`LoopBreaks`), and the handler of the entry point ends the call.

- `Frame`, `Detected`: the pipeline up to the loop over tracks;
- `PassOver`, `OpenEvent`, `Extend`, `ExtendAndConfirm`: that loop with `_promote`;
- `Inserted`, `ConfirmStored`, `CallFails`: the database answers or raises;
- `SnapshotTaken`, `SnapshotFails`, `SnapshotStored`: `_attach_snapshot`, then the
  publication or the retry loop;
- `Tick`, `RetrySnapshot`, `CloseEvent`, `CloseStored`, `FootageLifted`, `LoopEnds`:
  `_retry_missing_snapshots` and `_close_absent`. A loop has no await for a camera with
  nothing to do, so it goes to the first camera that is due in one step;
- `Crash`: memory is gone, rows and announcements stay.

The publication is one step: `InProcessEventBus.publish` does not await.

`EventLife` promises neither that the two announcements are made (a database call that
fails ends the call: an event whose insert failed is never confirmed to anyone, one whose
end was not written is never announced as ended) nor their order: with a slow insert or
snapshot the ticker may close the event meanwhile, and `event.ended` precedes
`event.confirmed`. `ToldInFull` says what remains true without failures.

### Streams, Recorder, Pipeline, KeepWarm, Capture

Three supervisors per camera contend for the sessions of one gateway. The gateway is not in
the repository; `Streams` models what `keepwarm.py` and `go2rtc.py` say they rely on: one
producer per stream, dialled for the first consumer and hung up after the last; a producer
whose camera hung up may stay listed and silent (`"zombie"`) while any consumer waits on it; a
restart drops every session. `child` is the ffmpeg process, separate from the task that
supervises it: it connects, exits, is killed, or is not yet known to its task while the spawn
is awaited.

`Recorder` follows `_supervise`: `RecStartFails`, `RecSpawn`, `RecSpawned`, the read loop with
`Segment` / `ReadTimesOut` (the read tick, where the order to stop and the stall clock are
looked at) / `RecEof`, then `RecTerminated` and the backoff with its three caps. `Pipeline`
follows `_run` and `SubstreamDecoder`: its read has no tick, a frame is read however long that
takes. `KeepWarm` follows `_hold` and `Go2rtcManager.restart_gateway`, which is limited to one
per interval. `CaptureStops` is the order of `AppRuntime.stop` and of a reload.

Time is abstracted to order. The stall timeout is longer than a connection and a segment
take (`Coming`), so a recorder does not give up on a session that is about to deliver;
backoffs are counted, with caps in the order the constants have.

### EventBus, Dispatcher, MqttBridge, LiveStream, Notifications

A message is its place in `emitted`, of which only the topic matters. `Publish` puts it into
the queues of all matching subscriptions without an await; `twice` is `AppRuntime.emit`, whose
persisting hook has published already. The engine's messages are those of one camera's
events, alternately confirmed and ended.

`Dispatcher` has a pump per rule, which hands a message to its channels side by side and waits
for all, and a lock per channel. An attempt that counts as failed may have arrived. `heard`,
`latest`, `givenUp` are history. `MqttBridge` is the supervisor's loop with its two consumers
and the broker: a session that breaks is noticed when something is published on it. Retained
topics, the will and the last `person` state are what the broker shows. `LiveStream`
subscribes before it accepts, so that nothing published after the handshake is missed.

### Exports, Previews, Clips

The files are `"partial"` while ffmpeg writes and after it was interrupted, `"whole"` once it
ended well. `Exports` has the registry in memory, the queue, the one worker, the cleanup by
age (`CleanupOld`, whose unlinks may fail for the files in `stuck`), and restarts that lose the
registry. `Previews` renders through a temporary file, once per hour that is over. `Clips` is
one event's clip asked for by several viewers; `crowded` marks that a request missed the clip
while another was at work on the same path, which the code does not guard against.

### Runtime

A generation is one set of freshly made parts (recorders, pipelines, keep-warm, MQTT). A camera
request checks, stores its row, merges rows and file, then stops, rebuilds, syncs and starts,
with an await at every step; `call[c].on` is the generation an awaited method belongs to, while
the attributes are read anew at each step. A boot finds the media directory or not (`mode`).

### VapidKeys, Access, ModelStore

Each step is one access to the database or the file system. In `VapidKeys`, `overtaken` is a
history of the calls whose pair was overwritten after they had read it back. In `Access`, a
request remembers as history (`late`) whether the credential that decides about it had ended
when it was made. In `ModelStore` a crash falls between any two steps, and an operator may
place or remove the model file while nothing loads; `swapped` is the history of a wrong file
placed under a right stamp, which the stamp cannot reveal.

### Tracker, Onvif, Gateway

`Tracker` keeps of geometry only the rank of the overlap of two boxes; `GreedyMatch` is the
greedy matching with its stable order, in closed form. `Onvif` makes every POST a step, which
the device may answer in six ways; a call refused with 401 is made again with HTTP digest.
`Gateway` asks the cameras one after the other, writes the file as a whole, and asks for a
restart; `unheard` is the history of a restart that nobody answered.

`Services` puts these beside each other. They share no variable, so nothing is lost by having
one at work in a behaviour, and the run stays small.

## 3. Runs

| Run | Instance | Shows |
|---|---|---|
| `plan_deletions` | indexes of up to 3 segments, 2 cameras, 2 starts, 2 sizes, 4 classes, 3 settings, 0..4 bytes to free | loops = closed form (`PlanIsTheClosedForm`); order; exact shortage and nothing in vain (`FreesJustEnough`) |
| `storage` | 2 cameras with different sizes and limits, 2 slots, all ranges, 1 restart, no failing call | rows have files, evidence is spared and never reverts, pressure frees enough and takes the oldest of all cameras |
| `storage_fair` | 1 camera, 3 slots, 1 failing call, 1 restart, fairness | types, files go before rows, the scan leaves no orphan, expired footage goes |
| `storage_favorites` (violation) | 1 camera, 2 slots | a segment starred during a pass is deleted |
| `storage_probe` (violation) | 1 camera, 3 slots, 1 failing call | a slow probe deletes a readable file |
| `event_engine` | 2 cameras, 2 events, batches that dismiss, confirm or do both, 2 attempts per snapshot | `EventLife` is implemented, dismissed events cost nothing, events at rest are told in full |
| `event_engine_fair` | 2 cameras, 1 event, 1 failing call, 1 crash, fairness | types and bounds, abandoned events close |
| `event_engine_snapshots` (violation) | 1 camera, 1 event | two coroutines photograph one event at once |
| `capture` | 1 camera in 7 set-ups of power, streams, supervisors; 1 or 2 faults; fairness | types, justified waits, no orphaned child; recording and detection resume; a stop ends |
| `services` | every service once (bounds below); fairness | one to three properties of each, see section 1 |
| `reload_concurrent` (violation) | 2 requests at once, 1 camera | a recorder runs while its footage is reconciled |
| `reload_degraded` (violation) | 1 camera, boot without media directory | a camera request leaves no holder running |

Why the bounds are enough. Three segments are one that expires, one that pressure takes
and one that must stay; two cameras make the global order differ from the index order;
two sizes make exact, short and over-freeing plans. In the store, two cameras make the
scan of one run beside the recording of the other, and one restart is enough for every
pair of a torn or unindexed file and a scan; the disk (5 units for 4 + 2 units of
footage) fills up so the pressure pass runs with all, some or no deletable footage. What
the small clock cannot show (many slots, many restarts) is what the theorems are for.

In the engine, two cameras are needed for a loop that meets another camera's event and for
a dict that grows during an iteration; two events so that a camera opens another one while
the first is still being closed; a clock of two readings makes every event fresh or
absent. `event_engine` uses symmetry of the cameras, which its action properties and
invariants allow; the run with liveness does not. When all events are used, a track that
would open one is passed over (`NoneLeft`).

In `capture`, one camera has three supervisors on one or two streams, which is where they
meet: what happens to another camera's streams is independent except for the gateway's
outages and restarts, and those come at any time. One fault is enough for every single failure at
every place of all three loops at once, two for a second one during the recovery, checked with
fewer supervisors. The caps 1 < 2 < 3 < 4 keep the order of the code's.

In `services`: 3 emissions over queues of 2 (one is dropped), 2 rules that share a channel and
one of them a second, 1 broken MQTT session, a webhook tried twice (3 times in the code, 2
already make a retry after an arrival); 2 exports and ages up to one hour beyond the limit; 2
hours, 2 viewers; 2 ids of which one is in the file, 2 payloads, one request at a time
(`InFlight = 1`: two are `reload_concurrent`), boots of both kinds, 2 generations; 2 first calls
for the keys and 2 browsers; a row of three boxes whose neighbours overlap, 2 detections per
frame, 3 track ids; 1 account, 1 session, 1 token with any scopes, 2 requests; 3 providers of which
2 are wanted; an RTSP and an ONVIF camera, 2 profiles of 2 resolutions. These are the least sizes
at which two of everything that can meet do meet; the theorems of section 5 lift the bounds
for every safety property, except that `CaptureFollowsTheStore` keeps one request at a time.

Fairness (`storage_fair`): weak fairness of the janitor's steps (its loop catches every
exception and sleeps 60 s), of the scan (`ffprobe` is cut off after 10 s) and of `Boot`
(the container's restart policy). None for `Tick`, starring, crashes or failures.

Fairness (`event_engine_fair`): strong fairness of each coroutine's steps and of `Tick`.
A coroutine is ready only while no other runs, so weak fairness would promise nothing;
asyncio resumes ready coroutines in the order in which they became ready, the write lock
is first come first served, and the gateway's client has timeouts. Frames and the detector
get none: a camera may fall silent for ever, and the ticker must close its event.

Fairness (`capture`): weak fairness of each task's steps, of an ffmpeg child that can connect or
has to exit, of the restart interval, and of a live stream's delivery. None for cameras, the
gateway's return, faults and the order to stop: `RecordingResumes` and `DetectionResumes` say
nothing while the camera is asleep or the gateway down, and nothing of a battery camera whose one
stream is shared with detection: it has no holder, and nobody ends a silent session there.

Fairness (`services`): weak fairness of each rule's deliveries (locks are first come, first
served, requests have timeouts), of the bridge's task, of the exporter's worker, of the clock of
files and of a cleanup whose unlinks succeed. None of broker, receivers or users.

## 4. Findings

- `storage_favorites`: `Janitor.run_once` decides by the class a row had at
  `all_segments`. A segment starred between that and the unlink is deleted, although
  `retention.py:6` calls favorites immortal and `schema.py:108-109` says retention never
  eats them. The same window exists for an event closing; the code's guarantee is what
  `SparesEvidence` states.
- `storage_probe`: `_probe_duration` returns None on a timeout, and None means
  unreadable, so the file is unlinked; `reconcile.py:41` says such files are left for
  the next boot.
- `event_engine_snapshots`: `_promote` photographs without looking at the last attempt,
  although it awaited the row in between and the retry loop may just have tried; the
  comment at `events/engine.py:47-48` limits attempts to one per
  `SNAPSHOT_RETRY_AFTER_S` and `SNAPSHOT_MAX_ATTEMPTS` in total. The total is exceeded by
  one at most (`EngineTypeOK`).
- `reload_concurrent`: `reload_cameras` takes no lock. The second request stops a supervisor
  whose start is still reconciling and has no recorder yet; that start then goes on and leaves
  recorders nobody points at, while the second start scans the same directories.
  `recorder.py:418` says footage is adopted before the recorder starts, "so no writer races".
- `reload_degraded`: without a media directory `_workers_started` stays false, so a reload
  replaces keep-warm and MQTT without stopping the old ones or starting the new ones;
  `runtime.py:324` says the holders are independent of the media directory.

## 5. Proofs

| Module | Theorems (property of a run) |
|---|---|
| `RetentionProofs` | lemmas about sums of bytes and about the planner's closed form |
| `PlanDeletionsProofs` | `LoopsComputeThePlan` (`PlanIsTheClosedForm`), `OldestGoesFirst` (`OldestContinuousGoesFirst`), `NeitherMoreNorLess` (`FreesJustEnough`) |
| `StorageProofs` | `StorageTypeOK`, `IndexIsHonest` (`RowsHaveFiles`), `EvidenceSpared`, `NoReversion`, `FilesGoFirst`, `PressureReachesTarget` (`PressureRestoresTarget`), `PressureIsGlobal` (`PressureTakesOldestOfAll`), `ScanIsComplete` (`ScanLeavesNoOrphan`) |
| `EventEngineProofs` | `EngineKeepsEventLife` (the refinement), `DismissedStaysCheap`, `EngineTypeOK`, `EventsAreToldInFull` (`ToldInFull`), and of the rules `PresetsAreOrdered`, `PassersByStaySuppressed` |
| `CaptureProofs` | `CaptureKeepsTypes`, `ChildrenAreReaped` (`NoOrphans`), `WaitsAreJustified` (`BackoffJustified`) |
| `NotificationProofs` | `NotifyKeepsTypes`, `NoMessageVanishes` (`NothingVanishes`), `ReceiversHearInOrder` (`HeardInOrder`), `BrokerStaysInStep` (`BrokerInStep`), `BreaksCostWhatIsInHand` (`OneLossPerBreak`), `LiveClientMissesNothing` (`ClientMissesNothing`) |
| `WebProofs` | `EndedStaysOut` (`EndedIsRefused`), `OnePairForAll` (`KeysAreStable`), `FinishedOnly` (`ServedMediaIsWhole`) |
| `ServicesProofs` | `OneByOneCaptureFollows` (`CaptureFollowsTheStore`), `OneByOneNoWriterRaces`, `PinnedModelOnly` (`RunsThePinnedModel`), `ProbesTellTheTruth` and `EndpointsAsReported` (`ReportsWhatHappened`), `ServedAsSynced` (`StreamsServedOrSkipped`), `OneThingOneTrack` (`OneTrackEach`), `ServicesKeepTheirTypes` (`ServicesTypeOK`), `ServicesKeepTheirPromises` |

Every safety property that a passing run checks is proved. Each theorem holds for all values of
the constants that the named assumptions of its module allow (`StorageAssumption`,
`EngineAssumption`, `StreamsAssumption`, ...; the runs evaluate them), with failures, crashes and
restarts as the module has them. Each rests on one inductive invariant; the step lemma has one
case per action. The assumptions worth knowing: cameras are finitely many and have a rank (the
order of the configuration), an index has finitely many rows and no two segments of one camera
that start at the same time (both from the `path` being the key and made of the two).

`RetentionProofs`. A sum of bytes is a fold of the community modules, which chooses a function
over all subsets. The lemmas show once that such a function exists (`SumExists`), that two of them
agree (`OneSum`), and that the terms may be taken in any order (`WeighAdds`); from there sums of
parts, of a renamed set and of a larger set follow. Where one would argue by induction over a
finite set they take a least counterexample instead (`LeastSubset`), which needs no theorem with
an operator as parameter. What the planner takes is then the shortest front part of the
candidates that is enough (`TakenFromTheFront`, `TakenIsEnough`, `TakenIsNoMore`).

`PlanDeletionsProofs`. `Classified`: the first loop has split what it has looked at by the expiry
test, so the order it works in does not matter. `InLine`: what waits for the second loop is the
rest of the candidates in order, everything taken goes before everything that waits, and
`remaining` is what was needed less the bytes taken. `SortedExists` shows that a finite set whose
elements an order tells apart can be listed in it, which is what makes `Sorted` a sorted list.

`StorageProofs`. `RowsHaveFiles` alone is not inductive. `Inv` adds:

- `PastOnly`: everything on disk, listed or in the index is of a slot before `now`, so
  the file a recorder adds is new;
- `NoWriterRaces`: a notice on a pipe and an orphan of the running scan have no row, and
  they belong to different cameras' phases. This is the comment "so no writer races"
  (`recorder.py:417-418`) made precise, and it is why an upsert that overwrites the class
  never hits evidence;
- `PassCondemns`: what a pass has unlinked or deleted is gone from the disk and cannot
  come back during the pass;
- `PassRemembers`: rows the pass has listed are those it read.

The action properties follow from `Inv` and a case analysis over the actions that can disturb
them. The two about pressure add the planner's lemmas, once the bytes on the disk and the bytes of
the plan are shown to be the same sums. `ScanIsComplete` adds that cameras start one at a time
(`InTurn`) and that a file without a row on the scanned camera is too young or still listed
(`ScanIsThorough`): no other actor takes the row of a file that stays.

`EventEngineProofs`. The refinement needs to know who may touch an event when. `OpenOnes`: what
is open belongs to its camera and has not ended. `OwnWork`: only its own camera stores,
photographs and announces an event first, and as long as it is on its way there nobody has
announced it; as a camera has one call at a time this makes the first announcement unique.
`Closing`: an event leaves its place before the first await of its closing, so two closings never
meet. `Retrying` and `Quiet` keep events that are not confirmed out of the photographs and
announcements. Each action is then mapped to an action of `EventLife` or a stutter.

`EventsAreToldInFull` needs the lock. The database serves calls in the order in which they asked
(`QueueInOrder`), and whoever inserts an event's row asked before all who change it
(`InsertFirst`), so no change meets a row that is not there yet. `Told` then says of each event:
where its row or its announcements are behind what memory says, some caller is at the place that
makes up for it. This holds until the first failed call or crash, and at rest nobody is behind.

`CaptureProofs`. What a wait is long for is decided when an attempt ends, but spent later.
`RecCareful` keeps the two together: why the last attempt ended is among the failures since the
last segment, it is forgotten when the next attempt begins, and a child exists only while its task
is at a place that reaps it. `PipeCareful` is the same for the pipeline and its streak.

`NotificationProofs`. `BusInv`: queues are sorted, but for a system event that stands twice.
For a rule (`RuleInv`), what a receiver got last is not newer than the message its pump is on, and
that is not newer than what waits; a message wanted is dropped, waiting, in hand, heard or given
up. For the publisher, `SensorInv` orders what is pending behind what was published, of which the
broker shows the last; `LossInv` sets two losses aside when a session breaks (one per consumer)
and books them when they happen. For the live client, `FramesInv` is the same order. The four are
inductive side by side because a consumer moves only its own queue.

`WebProofs`. `Careful` follows a request: the credential of a late request has ended and stays
ended, and the places after the lookup are reached only with one that had not. `AccountsFirst`:
sessions and tokens have an owner, so a first account finds none. A call that has read the row of
the push keys back holds the stored pair (`HoldsTheStored`), as long as no call that was still
minting has overtaken it; nobody subscribes before a call returned (`ReturnedFirst`). A job waits
once and as queued (`QueueInOrder`), only the worker's is running (`WorkerHasItsJob`), so nobody
but the worker writes an export; a viewer at work on the clip is alone (`ClipsInv`) unless the
clip was `crowded`. The three makers share no file, which `MediaSpec` states by running them side
by side.

`ServicesProofs`.

- `RuntimeInv` says for each place of a reload which parts are still up, which are up again and
  of which generation, and what rows, configuration and gateway file say by then. It needs
  `InFlight <= 1`: with two requests at once the code breaks it, which `reload_concurrent` shows.
  Under the same hypothesis, `OneByOneNoWriterRaces` proves the very property that run refutes.
- `LoaderKnows` what the model file is at each place: pinned before a stamp is written, gone
  before a download, and unverified only under a stamp somebody made wrong.
- `Truthful` follows a conversation with a device: each outcome reported was met at a call that
  was made, and each endpoint is the profile with the most or the fewest pixels.
- What a sync has gathered is of the cameras it has asked, less those left out (`Gathered`); the
  file is what `managed` tells (`FileIsManaged`); the gateway serves the file unless a restart is
  to come or went unheard (`ServesTheFile`).
- That there is a greedy matching for any boxes, and so that `Update` is defined by what it
  chooses, is shown by a least set of pairs that is left over (`GreedyExists`).
- `Services` runs one service per behaviour. Each sees of it its own steps and stutters
  (`EachSeesItsOwn`), so what is proved of a service holds there; this is why the run `services`
  and the theorems speak of the same properties.

Only model-checked: liveness (`ExpiredFootageGoes`, `OverdueEventsClose`, `RecordingResumes`,
`DetectionResumes`, `RecorderStopEnds`, `RulesCatchUp`, `BridgeRecovers`, `ExportsSettle`) and
`ENABLED`, which are out of the prover's reach.

## 6. Not modelled, and the plan

Not modelled, because only data is transformed and no property here looks at it: file names and
directory layout, command lines, the wording and rate of events and logs, configuration parsing,
XML, pixels and the motion gate, inference and non-maximum suppression, password hashing, cookie
attributes, MQTT discovery payloads. The tracker's velocities, dwell, loitering and repeated
passes are left out for the same reason: `EventEngine` takes what they yield as an input.

Not modelled, because no state is kept: relays of live video, listings, health and metrics, device
discovery. Not modelled although state is kept: schema migrations, the janitor's write probe and
its once-per-crossing flags, the mode without authentication, accounts of viewers (nothing creates
one), and the web client.

What the models assume:

- the gateway outside this repository keeps one producer per stream and drops all at a restart,
  which is what `keepwarm.py` and `go2rtc.py` say they rely on;
- the stall timeout is longer than a session that works needs for a segment;
- an idle MQTT session that broke is not noticed before the next publication;
- an operator replaces the model file only while nothing loads it;
- a crash leaves a `.part` file of a model download, which the next download overwrites, so it is
  not part of the state;
- one conversation with an ONVIF device at a time, and probes beside syncs do not disturb them.

Where a property makes an exception the code forces it to, the exception is a history variable:
`crowded` (clips), `overtaken` (keys), `swapped` (model), `unheard` (gateway), `scanFault` and
`stranded` (store). A hazard without a property is one the code does have and of which nothing in
the repository says that it must not happen: PROJECT.json gives the reason for each. The one
worth naming here is a stop that falls into the spawn of the decoder's child
(`pipeline/runner.py:147`): `stop` finds no process to terminate and waits for a read that need
not return. `Pipeline` has this window, so only `RecorderStopEnds` is checked.

What would come next, in order:

1. event rows and segments in one module, so that the range of a star or of a late class upgrade
   can be related to the event it is for;
2. `capture` with two cameras behind one gateway, with fewer supervisors each;
3. the tracker's dwell and loitering over a row of frames, as the source of `EventEngine`'s inputs;
4. a refinement of `EventBus` with its consumers to an abstract feed (each subscriber reads the
   emissions it wants in order, with gaps), which the invariants of `NotificationProofs` prepare.
