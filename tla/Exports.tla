------------------------------ MODULE Exports ------------------------------
(***************************************************************************)
(* ExportManager of recording/exporter.py: jobs in memory, a queue and one *)
(* worker that cuts them with ffmpeg, and the cleanup the janitor calls,   *)
(* which drops old jobs with their files and sweeps the files of jobs that *)
(* a restart forgot.                                                       *)
(***************************************************************************)
EXTENDS Naturals, Sequences, FiniteSets

CONSTANTS
  ExportId,    \* bound: requests
  KeepFor,     \* 24 h
  MaxNow       \* bound: ages are counted up to here

ASSUME ExportsAssumption == KeepFor \in Nat /\ MaxNow \in Nat /\ KeepFor < MaxNow

VARIABLES
  job,       \* per id: its state in the registry, and hours since it was created
  toDo,      \* the queue
  worker,    \* the job in the worker's hands, and how far it is
  cut,       \* per id: the .mp4, and hours since it was written
  list,      \* per id: the .txt beside it: hours since it was written, or "none"
  used       \* ids given out

exportVars == <<job, toDo, worker, cut, list, used>>

Nobody == "nobody"
Age == 0 .. MaxNow
NoJob == [state |-> "none", age |-> 0]
NoFile == [is |-> "none", age |-> 0]
Idle == [on |-> Nobody, at |-> "idle"]

ExportsTypeOK ==
  /\ job \in [ExportId -> [state : {"none", "queued", "running", "done", "error"}, age : Age]]
  /\ toDo \in Seq(ExportId)
  /\ worker \in [on : ExportId \union {Nobody}, at : {"idle", "listing", "cutting"}]
  /\ cut \in [ExportId -> [is : {"none", "partial", "whole"}, age : Age]]
  /\ list \in [ExportId -> Age \union {MaxNow + 1}] /\ used \subseteq ExportId

NoList == MaxNow + 1

ExportsInit ==
  /\ job = [e \in ExportId |-> NoJob] /\ toDo = <<>> /\ worker = Idle
  /\ cut = [e \in ExportId |-> NoFile] /\ list = [e \in ExportId |-> NoList] /\ used = {}

\* POST /export, once there is footage in the range; without it nothing happens.
CreateExport(e) ==
  /\ e \notin used /\ used' = used \union {e}
  /\ job' = [job EXCEPT ![e] = [state |-> "queued", age |-> 0]]
  /\ toDo' = Append(toDo, e)
  /\ UNCHANGED <<worker, cut, list>>

WorkerTakes ==
  /\ worker = Idle /\ toDo # <<>> /\ toDo' = Tail(toDo)
  /\ worker' = [on |-> Head(toDo), at |-> "listing"]
  /\ job' = [job EXCEPT ![Head(toDo)].state = "running"]
  /\ UNCHANGED <<cut, list, used>>

\* The footage is looked up again: it may be gone, or its list not writable;
\* else ffmpeg starts.
StartCut ==
  LET e == worker.on IN
  /\ worker.at = "listing"
  /\ \/ /\ worker' = Idle /\ job' = [job EXCEPT ![e].state = "error"]
        /\ UNCHANGED <<cut, list>>
     \/ /\ worker' = [worker EXCEPT !.at = "cutting"]
        /\ list' = [list EXCEPT ![e] = 0]
        /\ cut' = [cut EXCEPT ![e] = [is |-> "partial", age |-> 0]]
        /\ UNCHANGED job
  /\ UNCHANGED <<toDo, used>>

\* ffmpeg exits; the list is removed in any case, the output when it failed.
EndCut ==
  LET e == worker.on IN
  /\ worker.at = "cutting" /\ worker' = Idle
  /\ list' = [list EXCEPT ![e] = NoList]
  /\ \E ok \in BOOLEAN :
       /\ job' = [job EXCEPT ![e].state = IF ok THEN "done" ELSE "error"]
       /\ cut' = [cut EXCEPT ![e] = IF ok THEN [is |-> "whole", age |-> 0] ELSE NoFile]
  /\ UNCHANGED <<toDo, used>>

\* cleanup_old, in one go; an unlink may fail, which leaves record and file.
Old(e) == job[e].state \in {"done", "error"} /\ job[e].age > KeepFor
Kept(e) == job[e].state = "done"                \* a registered job has this path
\* Mutant: the sweep looks at the cuts only.
OldListsKept == {}

OldLists == {e \in ExportId : list[e] \in KeepFor + 1 .. MaxNow}

CleanupOld(stuck) ==
  LET gone == {e \in ExportId : Old(e) /\ ~(Kept(e) /\ e \in stuck)}
      swept == {e \in ExportId : cut[e].age > KeepFor /\ ~Kept(e)} \ stuck IN
  /\ job' = [e \in ExportId |-> IF e \in gone THEN NoJob ELSE job[e]]
  /\ cut' = [e \in ExportId |->
       IF e \in swept \/ (e \in gone /\ Kept(e)) THEN NoFile ELSE cut[e]]
  /\ list' = [e \in ExportId |-> IF e \in OldLists THEN NoList ELSE list[e]]
  /\ UNCHANGED <<toDo, worker, used>>

\* An hour passes; what ffmpeg writes stays fresh.
Older(a) == IF a < MaxNow THEN a + 1 ELSE a
ExportsAge ==
  /\ job' = [e \in ExportId |-> IF job[e].state = "none" THEN NoJob
                                ELSE [job[e] EXCEPT !.age = Older(@)]]
  /\ cut' = [e \in ExportId |-> IF cut[e].is = "none" \/ worker.on = e THEN cut[e]
                                ELSE [cut[e] EXCEPT !.age = Older(@)]]
  /\ list' = [e \in ExportId |-> IF list[e] = NoList THEN NoList ELSE Older(list[e])]
  /\ UNCHANGED <<toDo, worker, used>>

\* The registry is lost with the process; a stop that is awaited still removes
\* the list of the job it interrupts, a crash does not; neither removes the cut.
ExportsRestart ==
  /\ used # {} /\ job' = [e \in ExportId |-> NoJob] /\ toDo' = <<>> /\ worker' = Idle
  /\ list' \in {list, [e \in ExportId |-> IF e = worker.on THEN NoList ELSE list[e]]}
  /\ UNCHANGED <<cut, used>>

ExportSteps == WorkerTakes \/ StartCut \/ EndCut
ExportsNext ==
  \/ \E e \in ExportId : CreateExport(e)
  \/ \E stuck \in SUBSET {e \in ExportId : cut[e].is # "none"} : CleanupOld(stuck)
  \/ ExportSteps \/ ExportsAge \/ ExportsRestart

\* The worker runs, hours pass, and a cleanup that can delete is made.
ExportsFairness ==
  WF_exportVars(ExportSteps) /\ WF_exportVars(CleanupOld({})) /\ WF_exportVars(ExportsAge)

-----------------------------------------------------------------------------
\* What GET /export/{id}/download serves is there and whole.
DoneIsDownloadable == \A e \in ExportId : job[e].state = "done" => cut[e].is = "whole"

\* A job that is taken on ends, or is lost with the registry; and what no job
\* owns any more does not stay on the disk.
ExportsSettle ==
  \A e \in ExportId :
    /\ job[e].state \in {"queued", "running"} ~> job[e].state \notin {"queued", "running"}
    /\ (cut[e].is # "none" \/ list[e] # NoList) /\ job[e].state = "none" ~>
         cut[e].is = "none" /\ list[e] = NoList
=============================================================================
