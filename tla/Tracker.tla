------------------------------- MODULE Tracker -------------------------------
(***************************************************************************)
(* IouTracker of pipeline/track.py for one camera: detections are matched  *)
(* to the live tracks, best overlap first, the sure ones before the weak;  *)
(* a sure detection nobody claims becomes a track.  Boxes are places, and  *)
(* only how much two of them overlap matters.                              *)
(***************************************************************************)
EXTENDS Naturals, Sequences, FiniteSets, Functions

CONSTANTS
  Box,
  Overlap(_, _),   \* rank of the overlap of two boxes; 0 is below the threshold
  MaxDetections,   \* bound: detections in a frame
  MaxTracks,       \* bound: ids given out
  MaxAge           \* how long a track outlives its last detection

ASSUME TrackerAssumption ==
  /\ \A b, c \in Box : Overlap(b, c) \in Nat /\ Overlap(b, c) = Overlap(c, b)
  /\ MaxDetections \in Nat /\ MaxTracks \in Nat /\ MaxAge \in Nat

VARIABLES
  tracks,   \* per live id: its box, and the time since it was last seen
  nextId,
  frame     \* history: the time since the frame before, and what it saw

trackVars == <<tracks, nextId, frame>>

TracksTypeOK ==
  /\ frame.dt \in 1 .. MaxAge + 1 /\ Len(frame.seen) <= MaxDetections
  /\ nextId \in 1 .. MaxTracks + 1 /\ DOMAIN tracks \subseteq 1 .. nextId - 1
  /\ \A i \in DOMAIN tracks : tracks[i] \in [box : Box, unseen : 0 .. MaxAge]

TracksInit ==
  /\ tracks = [i \in {} |-> 0] /\ nextId = 1 /\ frame = [dt |-> 1, seen |-> <<>>]

\* Mutant: the worst overlap first.
WorstBefore(p, q, score) ==
  score[p] < score[q] \/ (score[p] = score[q] /\ (p[1] < q[1] \/ (p[1] = q[1] /\ p[2] < q[2])))

\* greedy_iou_match: of the pairs that overlap enough, sorted stably by overlap,
\* each is taken unless one before it took its track or its detection.
Before(p, q, score) ==
  score[p] > score[q] \/ (score[p] = score[q] /\ (p[1] < q[1] \/ (p[1] = q[1] /\ p[2] < q[2])))

GreedyMatch(ids, found, seen) ==
  LET pairs == {p \in ids \X found : Overlap(tracks[p[1]].box, seen[p[2]].box) > 0}
      score == [p \in pairs |-> Overlap(tracks[p[1]].box, seen[p[2]].box)]
      excludes(p, q) == Before(p, q, score) /\ (p[1] = q[1] \/ p[2] = q[2]) IN
  CHOOSE match \in SUBSET pairs :
    \A p \in pairs : p \in match <=> ~ \E q \in match : excludes(q, p)

Firsts(pairs) == {p[1] : p \in pairs}
Seconds(pairs) == {p[2] : p \in pairs}

\* What a frame sees: boxes, each a sure or a weak detection.
Frames == UNION {[1 .. n -> [box : Box, sure : BOOLEAN]] : n \in 0 .. MaxDetections}

Alive(dt) == {i \in DOMAIN tracks : tracks[i].unseen + dt <= MaxAge}
Sure(seen) == {d \in DOMAIN seen : seen[d].sure}
SureMatch(dt, seen) == GreedyMatch(Alive(dt), Sure(seen), seen)
WeakMatch(dt, seen) ==
  GreedyMatch(Alive(dt) \ Firsts(SureMatch(dt, seen)), DOMAIN seen \ Sure(seen), seen)
Births(dt, seen) == Sure(seen) \ Seconds(SureMatch(dt, seen))

\* update(ts, detections): tracks age out before the matching.
Update(dt, seen) ==
  LET match == SureMatch(dt, seen) \union WeakMatch(dt, seen)
      born == Births(dt, seen)
      idOf(d) == nextId + Cardinality({e \in born : e < d}) IN
  /\ nextId + Cardinality(born) <= MaxTracks + 1
  /\ nextId' = nextId + Cardinality(born) /\ frame' = [dt |-> dt, seen |-> seen]
  /\ tracks' = [i \in Alive(dt) \union {idOf(d) : d \in born} |->
       IF i >= nextId THEN [box |-> seen[CHOOSE d \in born : idOf(d) = i].box, unseen |-> 0]
       ELSE IF i \in Firsts(match)
       THEN [box |-> seen[CHOOSE d \in DOMAIN seen : <<i, d>> \in match].box, unseen |-> 0]
       ELSE [tracks[i] EXCEPT !.unseen = @ + dt]]

TracksNext == \E dt \in 1 .. MaxAge + 1 : \E seen \in Frames : Update(dt, seen)

TracksSpec == TracksInit /\ [][TracksNext]_trackVars

-----------------------------------------------------------------------------
\* One thing seen is one track: every sure detection has a track of its own; an
\* id is new only for a detection all of whose overlapping tracks another sure
\* one claimed with at least its overlap, and was never used before; a track
\* goes only when its time is over (track.py 141-165, 221-273).
Claimed(d, dt, seen) ==
  \A i \in Alive(dt) : Overlap(tracks[i].box, seen[d].box) > 0 =>
    \E e \in Sure(seen) \ {d} :
      /\ tracks'[i] = [box |-> seen[e].box, unseen |-> 0]
      /\ Overlap(tracks[i].box, seen[e].box) >= Overlap(tracks[i].box, seen[d].box)

OneTrackEach ==
  [][LET dt == frame'.dt
         seen == frame'.seen
         new == DOMAIN tracks' \ DOMAIN tracks IN
     /\ DOMAIN tracks \ DOMAIN tracks' = DOMAIN tracks \ Alive(dt)
     /\ \E of \in Injection(Sure(seen), DOMAIN tracks') :
          /\ \A d \in Sure(seen) : tracks'[of[d]] = [box |-> seen[d].box, unseen |-> 0]
          /\ \A i \in new : i >= nextId /\ \E d \in Sure(seen) : of[d] = i /\ Claimed(d, dt, seen)
    ]_trackVars
=============================================================================
