------------------------------- MODULE Clips -------------------------------
(***************************************************************************)
(* GET /events/{id}/clip.mp4 (api/routers/events.py) and materialize_clip  *)
(* (events/clips.py) for one event: a stored clip is served, else one is   *)
(* cut into the place all requests for the event share, stored, served.    *)
(***************************************************************************)
EXTENDS Previews

CONSTANT Viewer   \* requests for the clip

VARIABLES
  viewer,    \* per request: its place
  clip,      \* the file of the event's clip
  clipList,  \* the list beside it that ffmpeg reads
  clipPath,  \* whether the event's row has the path
  crowded    \* history: a request missed the clip while another was at work

clipVars == <<viewer, clip, clipList, clipPath, crowded>>

ClipsTypeOK ==
  /\ viewer \in [Viewer -> {"none", "asking", "listed", "cutting", "cut", "serving"}]
  /\ clip \in File /\ clipList \in BOOLEAN /\ clipPath \in BOOLEAN /\ crowded \in BOOLEAN

ClipsInit ==
  /\ viewer = [v \in Viewer |-> "none"] /\ clip = "none" /\ clipList = FALSE
  /\ clipPath = FALSE /\ crowded = FALSE

ViewerGoes(v, place) == viewer' = [viewer EXCEPT ![v] = place]

\* The row is read; a path in it counts only if the file is there.
FindClip(v) ==
  LET found == clipPath /\ clip # "none" IN
  /\ viewer[v] = "none" /\ ViewerGoes(v, IF found THEN "serving" ELSE "asking")
  /\ crowded' = (crowded \/ (~found /\ \E u \in Viewer : viewer[u] # "none"))
  /\ UNCHANGED <<clip, clipList, clipPath>>

\* No footage ends the request; else the list is written and ffmpeg starts.
ListClip(v) ==
  /\ viewer[v] = "asking"
  /\ \/ ViewerGoes(v, "none") /\ UNCHANGED clipList
     \/ ViewerGoes(v, "listed") /\ clipList' = TRUE
  /\ UNCHANGED <<clip, clipPath, crowded>>

\* ffmpeg reads the list, unless another request has removed it, and overwrites.
CutClip(v) ==
  /\ viewer[v] = "listed" /\ ViewerGoes(v, "cutting")
  /\ clip' = IF clipList THEN "partial" ELSE clip
  /\ UNCHANGED <<clipList, clipPath, crowded>>

\* ffmpeg has finished, or failed: then its output is removed.  The list is
\* removed in either case.
EndClip(v) ==
  /\ viewer[v] = "cutting" /\ clipList' = FALSE
  /\ \/ ViewerGoes(v, "cut") /\ clip' = "whole"
     \/ ViewerGoes(v, "none") /\ clip' = "none"
  /\ UNCHANGED <<clipPath, crowded>>

StoreClip(v) ==
  /\ viewer[v] = "cut" /\ ViewerGoes(v, "serving") /\ clipPath' = TRUE
  /\ UNCHANGED <<clip, clipList, crowded>>

ClipServed(v) ==
  /\ viewer[v] = "serving" /\ ViewerGoes(v, "none")
  /\ UNCHANGED <<clip, clipList, clipPath, crowded>>

\* A crash while ffmpeg writes: the partial file stays, its path is not stored.
ClipsCrash ==
  /\ viewer' = [v \in Viewer |-> "none"]
  /\ UNCHANGED <<clip, clipList, clipPath, crowded>>

ClipsNext ==
  \/ \E v \in Viewer : FindClip(v) \/ ListClip(v) \/ CutClip(v) \/ EndClip(v)
                       \/ StoreClip(v) \/ ClipServed(v)
  \/ ClipsCrash

\* The three makers of media files side by side: they share no file.
MediaInit == ExportsInit /\ PreviewsInit /\ ClipsInit
MediaNext ==
  \/ ExportsNext /\ UNCHANGED <<previewVars, clipVars>>
  \/ PreviewsNext /\ UNCHANGED <<exportVars, clipVars>>
  \/ ClipsNext /\ UNCHANGED <<exportVars, previewVars>>

MediaSpec == MediaInit /\ [][MediaNext]_<<exportVars, previewVars, clipVars>>

-----------------------------------------------------------------------------
\* Whatever the API serves is a file that was finished: the download of an export
\* that is done, a preview in place, and, as long as no request missed it while
\* another was at work on it, the clip of an event (recordings.py 168-208, previews.py 160-189,
\* events.py 157-184).
ServedMediaIsWhole ==
  /\ DoneIsDownloadable
  /\ \A h \in Hour : preview[h] # "partial"
  /\ crowded \/ \A v \in Viewer : viewer[v] = "serving" => clip = "whole"
=============================================================================
