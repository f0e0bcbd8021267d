------------------------------ MODULE Runtime ------------------------------
(***************************************************************************)
(* AppRuntime of runtime.py with the camera requests that change it        *)
(* (api/routers/config_cameras.py, core/managed.py, Go2rtcManager.sync):   *)
(* cameras come from the configuration file and from rows of the database; *)
(* a request stores its row, then the whole capture chain is stopped,      *)
(* rebuilt for the merged configuration and started.  A generation is one  *)
(* set of freshly made parts; what the runtime's attributes point at is    *)
(* read anew at every step of a reload.                                    *)
(***************************************************************************)
EXTENDS Naturals, FiniteSets

CONSTANTS
  Id, FileId,     \* camera ids, and those the configuration file defines
  Payload,        \* configurations a request may send that are valid
  Call,           \* camera requests
  InFlight,       \* bound: how many are served at a time
  BootModes,      \* how a boot may turn out
  MaxGeneration   \* bound: generations

ASSUME RuntimeAssumption ==
  /\ FileId \subseteq Id /\ InFlight \in Nat /\ MaxGeneration \in Nat
  /\ BootModes \subseteq {"workers", "degraded"}
  /\ Payload \intersect {"file", "invalid", "none"} = {}

VARIABLES
  rows,        \* managed_cameras: per id a payload, one that validates no more, or none
  mode,        \* "off", all workers, or degraded: no media directory
  config,      \* the merged configuration every passive part looks at
  gatewayFile, \* the cameras in the generated gateway configuration
  current,     \* the generation the attributes of the runtime point at
  made,        \* per generation: the configuration it was made for
  begun,       \* parts whose start has begun, as <<part, generation>>
  running,     \* parts that run
  call,        \* per request: its place, what it asks, what it holds over an await
  reloadFailed \* whether the last reload raised, or the boot could not merge

runtimeVars ==
  <<rows, mode, config, gatewayFile, current, made, begun, running, call, reloadFailed>>

Part == {"pipeline", "keepwarm", "recorder", "mqtt"}
Generation == 0 .. MaxGeneration
Stored == [Id -> Payload \union {"invalid", "none"}]
Cameras == [Id -> Payload \union {"file", "none"}]
FileCameras == [i \in Id |-> IF i \in FileId THEN "file" ELSE "none"]

CallPlace == Part \union {
  "none", "checking", "storing", "merging", "syncing", "recorder starts", "reconciling",
  "keepwarm starts", "pipeline starts", "opening", "mqtt starts"}
NoCall == [pc |-> "none", does |-> "delete", id |-> CHOOSE i \in Id : TRUE,
           payload |-> "none", on |-> 0, merged |-> FileCameras]

RuntimeTypeOK ==
  /\ rows \in Stored /\ mode \in {"off", "workers", "degraded"}
  /\ config \in Cameras /\ gatewayFile \in Cameras
  /\ current \in Generation /\ \A g \in Generation : made[g] \in Cameras
  /\ begun \union running \subseteq Part \X Generation
  /\ \A c \in Call :
       /\ call[c].pc \in CallPlace /\ call[c].does \in {"create", "update", "delete"}
       /\ call[c].payload \in Payload \union {"none", "invalid"} /\ call[c].on \in Generation
  /\ reloadFailed \in BOOLEAN

\* A row may outlive an edit of the file and a change of the schema.
RuntimeInit ==
  /\ rows \in Stored /\ mode = "off" /\ config = FileCameras /\ gatewayFile = FileCameras
  /\ current = 0 /\ made = [g \in Generation |-> FileCameras]
  /\ begun = {} /\ running = {} /\ call = [c \in Call |-> NoCall] /\ reloadFailed = FALSE

\* merge_managed_cameras: the file wins, a row that does not validate is skipped.
Merged(stored) ==
  [i \in Id |-> IF i \in FileId THEN "file" ELSE IF stored[i] \in Payload THEN stored[i] ELSE "none"]

\* The two writes of managed_cameras: an upsert, and a delete that tells of a row.
PutRow(i, payload) == rows' = [rows EXCEPT ![i] = payload]
DropRow(i) == rows' = [rows EXCEPT ![i] = "none"]

Serving == {c \in Call : call[c].pc # "none"}
Goes(c, pc) == call' = [call EXCEPT ![c] = IF pc = "none" THEN NoCall ELSE [@ EXCEPT !.pc = pc]]
\* The next step awaits a method of what the attribute points at now.
Awaits(c, part, generation) == call' = [call EXCEPT ![c].pc = part, ![c].on = generation]

-----------------------------------------------------------------------------
(* The process.                                                            *)

\* start(): the rows are merged, unless that fails; the gateway file is written;
\* without a media directory only mqtt and keep-warm are started.
Boot ==
  /\ mode = "off" /\ mode' \in BootModes
  /\ config' \in {Merged(rows), FileCameras} /\ gatewayFile' = config'
  /\ current' = 0 /\ made' = [g \in Generation |-> config']
  /\ running' = (IF mode' = "workers" THEN Part ELSE {"mqtt", "keepwarm"}) \X {0}
  /\ begun' = running' /\ reloadFailed' = (config' # Merged(rows))
  /\ UNCHANGED <<rows, call>>

\* A stop, which waits for the requests, or a crash: the process is gone.
ProcessEnds ==
  /\ mode # "off" /\ mode' = "off" /\ running' = {} /\ begun' = {}
  /\ call' = [c \in Call |-> NoCall]
  /\ UNCHANGED <<rows, config, gatewayFile, current, made, reloadFailed>>

-----------------------------------------------------------------------------
(* Camera requests.                                                        *)

\* POST and PUT refuse ids of the file; DELETE goes straight to the row.
Ask(c) ==
  /\ mode # "off" /\ call[c].pc = "none" /\ Cardinality(Serving) < InFlight
  /\ \E i \in Id : \E does \in {"create", "update", "delete"} :
     \E p \in IF does = "delete" THEN {"none"} ELSE Payload \union {"invalid"} :
       /\ does # "delete" => i \notin FileId
       /\ call' = [call EXCEPT ![c] = [NoCall EXCEPT !.pc = IF does = "delete" THEN "storing" ELSE "checking",
                                       !.does = does, !.id = i, !.payload = p]]
  /\ UNCHANGED <<rows, mode, config, gatewayFile, current, made, begun, running, reloadFailed>>

\* The stored ids are listed, then the payload is validated.
Check(c) ==
  LET r == call[c]
      known == rows[r.id] # "none" IN
  /\ r.pc = "checking"
  /\ Goes(c, IF r.payload = "invalid"
                \/ (r.does = "update" /\ ~known)
                \/ (r.does = "create" /\ (known \/ config[r.id] # "none"))
             THEN "none" ELSE "storing")
  /\ UNCHANGED <<rows, mode, config, gatewayFile, current, made, begun, running, reloadFailed>>

Store(c) ==
  LET r == call[c] IN
  /\ r.pc = "storing"
  /\ IF r.does = "delete" THEN DropRow(r.id) ELSE PutRow(r.id, r.payload)
  /\ Goes(c, IF r.does = "delete" /\ rows[r.id] = "none" THEN "none" ELSE "merging")
  /\ UNCHANGED <<mode, config, gatewayFile, current, made, begun, running, reloadFailed>>

\* A statement of the database raises and the request ends there.  When it is the
\* listing a reload begins with, the row is stored and nothing follows it.
RequestFails(c) ==
  /\ call[c].pc \in {"checking", "storing", "merging"} /\ Goes(c, "none")
  /\ reloadFailed' = (reloadFailed \/ call[c].pc = "merging")
  /\ UNCHANGED <<rows, mode, config, gatewayFile, current, made, begun, running>>

-----------------------------------------------------------------------------
(* reload_cameras.                                                         *)

\* _rebuild_capture and a new MqttPublisher.
Rebuild(merged) ==
  /\ current < MaxGeneration /\ current' = current + 1
  /\ made' = [made EXCEPT ![current + 1] = merged]

MergeRows(c) ==
  LET merged == Merged(rows) IN
  /\ call[c].pc = "merging" /\ config' = merged
  /\ IF mode = "workers"
     THEN /\ call' = [call EXCEPT ![c].pc = "pipeline", ![c].on = current, ![c].merged = merged]
          /\ UNCHANGED <<current, made>>
     ELSE Rebuild(merged) /\ Goes(c, "syncing")
  /\ UNCHANGED <<rows, mode, gatewayFile, begun, running, reloadFailed>>

\* Mutant: the recorder is not stopped.
AfterStopSkipping == [pipeline |-> "keepwarm", keepwarm |-> "mqtt", recorder |-> "mqtt"]

\* stop() of one part; a start() of it that is still at work goes on.
AfterStop == [pipeline |-> "keepwarm", keepwarm |-> "recorder", recorder |-> "mqtt"]
StopPart(c) ==
  LET it == <<call[c].pc, call[c].on>> IN
  /\ call[c].pc \in Part
  /\ running' = running \ {it} /\ begun' = begun \ {it}
  /\ IF call[c].pc = "mqtt" THEN Rebuild(call[c].merged) /\ Goes(c, "syncing")
     ELSE Awaits(c, AfterStop[call[c].pc], current) /\ UNCHANGED <<current, made>>
  /\ UNCHANGED <<rows, mode, config, gatewayFile, reloadFailed>>

\* Go2rtcManager.sync raises when an adapter cannot be built, or the file cannot be
\* read or written: the request fails there, whatever was stopped before it.
Sync(c) ==
  /\ call[c].pc = "syncing"
  /\ \/ /\ gatewayFile' = config /\ reloadFailed' = FALSE
        /\ Goes(c, IF mode = "workers" THEN "recorder starts" ELSE "none")
     \/ reloadFailed' = TRUE /\ Goes(c, "none") /\ UNCHANGED gatewayFile
  /\ UNCHANGED <<rows, mode, config, current, made, begun, running>>

AtStart == [recorder |-> "recorder starts", keepwarm |-> "keepwarm starts",
            pipeline |-> "pipeline starts", mqtt |-> "mqtt starts"]
AtWork == [recorder |-> "reconciling", pipeline |-> "opening"]
AfterStart == [recorder |-> "keepwarm starts", keepwarm |-> "pipeline starts",
               pipeline |-> "mqtt starts", mqtt |-> "none"]

\* start() of recorder and pipeline awaits between the flag and the work: the
\* reconciliation of each camera, the events they emit.
BeginPart(c, part) ==
  /\ call[c].pc = AtStart[part]
  /\ IF <<part, current>> \in begun THEN Goes(c, AfterStart[part]) /\ UNCHANGED begun
     ELSE Awaits(c, AtWork[part], current) /\ begun' = begun \union {<<part, current>>}
  /\ UNCHANGED <<rows, mode, config, gatewayFile, current, made, running, reloadFailed>>

PartRuns(c, part) ==
  /\ call[c].pc = AtWork[part] /\ Goes(c, AfterStart[part])
  /\ running' = running \union {<<part, call[c].on>>}
  /\ UNCHANGED <<rows, mode, config, gatewayFile, current, made, begun, reloadFailed>>

\* start() of keep-warm and mqtt awaits nothing.
StartAtOnce(c, part) ==
  /\ call[c].pc = AtStart[part] /\ Goes(c, AfterStart[part])
  /\ running' = running \union {<<part, current>>} /\ begun' = begun \union {<<part, current>>}
  /\ UNCHANGED <<rows, mode, config, gatewayFile, current, made, reloadFailed>>

RuntimeNext ==
  \/ Boot \/ ProcessEnds
  \/ \E c \in Call :
       \/ Ask(c) \/ Check(c) \/ Store(c) \/ RequestFails(c) \/ MergeRows(c) \/ StopPart(c) \/ Sync(c)
       \/ BeginPart(c, "recorder") \/ PartRuns(c, "recorder")
       \/ BeginPart(c, "pipeline") \/ PartRuns(c, "pipeline")
       \/ StartAtOnce(c, "keepwarm") \/ StartAtOnce(c, "mqtt")

RuntimeSpec == RuntimeInit /\ [][RuntimeNext]_runtimeVars

-----------------------------------------------------------------------------
\* A reload that replaces the chain has stopped every part of it first; between
\* requests the chain is whole or, after a failure, gone, and made for the
\* configuration in force; and unless the last reload failed, rows, file, gateway and
\* every running part agree: cameras are captured as they are stored (runtime.py
\* 213-273, managed.py 50-75).  Requests come one at a time: of reloads that overlap
\* Storage speaks.
CaptureFollowsTheStore ==
  mode = "workers" =>
    /\ \A p \in running : p[2] = current
    /\ Serving = {} =>
         /\ made[current] = config /\ running \in {{}, Part \X {current}}
         /\ ~reloadFailed => config = Merged(rows) /\ gatewayFile = config /\ running # {}

\* A camera's footage is reconciled "before the recorder starts, so no writer
\* races" (recorder.py 417-418).
NoWriterRaces ==
  (\E c \in Call : call[c].pc = "reconciling") => \A p \in running : p[1] # "recorder"

\* "Keep-warm holders are independent of the media dir: live view must stay
\* instant even when recording is degraded" (runtime.py 324-325).
HoldersStayWarm ==
  mode = "degraded" /\ Serving = {} => <<"keepwarm", current>> \in running
=============================================================================
