---------------------------- MODULE StorageProofs ----------------------------
(***************************************************************************)
(* What holds of Storage for every set of cameras, any number of recorder  *)
(* supervisors at a time, every retention policy and every bound.  The     *)
(* inductive invariant Inv joins the type invariant, RowsHaveFiles and     *)
(* four facts that make the actors safe against each other:                *)
(*   PastOnly      nothing is known of files that do not exist yet;        *)
(*   OneAnnouncer  a path that is not contested is announced by one lane   *)
(*                 at a time, and only while it has no row;                *)
(*   PassCondemns  what the pass deletes, its snapshot condemned;          *)
(*   PassRemembers a row of the snapshot is still there, or the pass       *)
(*                 deleted it itself.                                      *)
(* What pressure deletes follows from the planner's lemmas of              *)
(* RetentionProofs, once bytes on the disk and bytes of the plan are the   *)
(* same sums, and from what has arrived since the pass measured the volume *)
(* (Foreseen).  That a scan is complete takes two more facts: cameras of a *)
(* lane start one at a time (InTurn), and a file without a row on the      *)
(* scanned camera is too young or still listed (ScanIsThorough).           *)
(***************************************************************************)
EXTENDS Storage, RetentionProofs

PastOnly ==
  /\ \A s \in disk : StartOf(s) < now
  /\ \A l \in Lane : \A s \in Announced(l) : StartOf(s) < now
  /\ \A s \in Segment : row[s] # "none" => StartOf(s) < now
  /\ \A s \in Segment : snapshot[s] # "none" => StartOf(s) < now

\* Lane l announces only what its own recorders and its own scan found.
Announces(l) ==
  /\ \A s \in heard[l] : capture[l][CameraOf(s)] = "recording"
  /\ \A s \in scan[l].todo : capture[l][CameraOf(s)] = "scanning"
  /\ \A s, t \in scan[l].todo : CameraOf(s) = CameraOf(t)
  /\ scan[l].read => \A s \in scan[l].todo : NextOrphan(l, s) => s \in disk \union contested

OneAnnouncer ==
  /\ \A l \in Lane : Announces(l)
  /\ \A l \in Lane : \A s \in Announced(l) \ contested :
       row[s] = "none" /\ \A m \in Lane \ {l} : s \notin Announced(m)

PassCondemns ==
  /\ \A s \in unlinked \union deleted :
       s \notin disk /\ snapshot[s] \notin {"none", "favorite"}
  /\ pass \in {"off", "idle", "expiry", "pressure"} => unlinked = {}
  /\ pass \in {"off", "idle"} => deleted = {} /\ snapshot = Nothing

PassRemembers ==
  \A s \in Segment : snapshot[s] # "none" => row[s] # "none" \/ s \in deleted

Inv ==
  /\ TypeOK
  /\ PastOnly
  /\ OneAnnouncer
  /\ PassCondemns
  /\ PassRemembers
  /\ RowsHaveFiles

-----------------------------------------------------------------------------
\* A file that exists now and starts now is a segment.
LEMMA NowIsASegment ==
  ASSUME TypeOK, now < MaxNow, NEW c \in Camera
  PROVE  /\ <<c, now>> \in Segment
         /\ CameraOf(<<c, now>>) = c /\ StartOf(<<c, now>>) = now
BY StorageAssumption DEF TypeOK, Segment, CameraOf, StartOf

\* A segment is its camera and its start.
LEMMA SegmentFields ==
  ASSUME NEW x \in Segment
  PROVE  /\ CameraOf(x) \in Camera /\ CameraOf(x) \in Nat /\ StartOf(x) \in Nat
         /\ StartOf(x) \in 0 .. MaxNow - 1 /\ x = <<CameraOf(x), StartOf(x)>>
<1>1. PICK c, n : x = <<c, n>> /\ c \in Camera /\ n \in 0 .. MaxNow - 1
  BY DEF Segment
<1>2. c \in Nat /\ n \in Nat
  BY <1>1, StorageAssumption
<1>. QED
  BY <1>1, <1>2 DEF CameraOf, StartOf

\* What a lane may still announce are segments.
LEMMA AnnouncedAreSegments ==
  ASSUME TypeOK, NEW l \in Lane
  PROVE  /\ heard[l] \subseteq Segment /\ scan[l].todo \subseteq Segment
         /\ Announced(l) \subseteq Segment
         /\ scan[l].at \in 0 .. MaxNow /\ scan[l].read \in BOOLEAN /\ scan[l].fault \in BOOLEAN
BY DEF TypeOK, ScanState, Announced

\* A lane none of whose cameras records or scans has nothing to announce.
LEMMA SilentLane ==
  ASSUME TypeOK, OneAnnouncer, NEW l \in Lane,
         \A c \in Camera : capture[l][c] \notin {"recording", "scanning"}
  PROVE  heard[l] = {} /\ scan[l].todo = {}
BY AnnouncedAreSegments, SegmentFields DEF OneAnnouncer, Announces

\* No lane has heard of a file that it is scanning.
LEMMA HeardIsNotScanned ==
  ASSUME OneAnnouncer, NEW l \in Lane
  PROVE  heard[l] \cap scan[l].todo = {}
BY DEF OneAnnouncer, Announces

\* A lane's next orphan is one file.
LEMMA OneNextOrphan ==
  ASSUME TypeOK, OneAnnouncer, NEW l \in Lane, NEW s, NEW t,
         NextOrphan(l, s), NextOrphan(l, t)
  PROVE  s = t
<1>1. s \in Segment /\ t \in Segment /\ s \in scan[l].todo /\ t \in scan[l].todo
  BY AnnouncedAreSegments DEF NextOrphan
<1>2. CameraOf(s) = CameraOf(t)
  BY <1>1 DEF OneAnnouncer, Announces
<1>3. StartOf(s) = StartOf(t)
  BY <1>1, SegmentFields DEF NextOrphan
<1>. QED
  BY <1>1, <1>2, <1>3, SegmentFields

\* What the snapshot knows and the disk holds has a row: no lane announces it.
LEMMA KnownToThePass ==
  ASSUME Inv, NEW s \in disk, snapshot[s] # "none"
  PROVE  row[s] # "none" /\ \A l \in Lane : s \in Announced(l) => s \in contested
<1>1. s \in Segment /\ s \notin deleted
  BY DEF Inv, TypeOK, PassCondemns
<1>2. row[s] # "none"
  BY <1>1 DEF Inv, PassRemembers
<1>. QED
  BY <1>2 DEF Inv, OneAnnouncer

\* The expiry plan holds rows of the snapshot whose own schedule is over,
\* never a favorite.
LEMMA ExpiryPlanCondemns ==
  ASSUME TypeOK, NEW c \in Camera, NEW s \in ExpiryPlan(c)
  PROVE  /\ s \in Segment
         /\ snapshot[s] \in SegmentClass \ {"favorite"}
         /\ CameraLimits[CameraOf(s)][snapshot[s]] # Forever
         /\ passAt - EndOf(s) > CameraLimits[CameraOf(s)][snapshot[s]]
<1>1. PICK p \in Expired(Listed({t \in Segment : CameraOf(t) = c}), CameraLimits[c], passAt) :
        s = p.path
  BY DEF ExpiryPlan
<1>2. PICK t \in Segment :
        CameraOf(t) = c /\ snapshot[t] # "none" /\ p = Planned(t, snapshot[t])
  BY <1>1 DEF Expired, Listed
<1>3. TimeIsUp(p, CameraLimits[c], passAt)
  BY <1>1 DEF Expired
<1>4. p.path = t /\ p.klass = snapshot[t] /\ p.end = EndOf(t)
  BY <1>2 DEF Planned
<1>5. snapshot[t] \in RowClass
  BY DEF TypeOK
<1>. QED
  BY <1>1, <1>2, <1>3, <1>4, <1>5 DEF TimeIsUp, RowClass

\* The pressure plan holds rows of the snapshot that are continuous or motion
\* footage and that the pass has not deleted yet.
LEMMA PressurePlanCondemns ==
  ASSUME TypeOK, NEW s \in PressurePlan
  PROVE  s \in Segment \ deleted /\ snapshot[s] \in PressureDeletable
<1>1. PICK p \in Pressure(Listed(Segment \ deleted), NoLimits, passAt, TargetFree - measured) :
        s = p.path
  BY DEF PressurePlan
<1>2. p \in Listed(Segment \ deleted) /\ p.klass \in PressureDeletable
  BY <1>1 DEF Pressure, Deletable
<1>3. PICK t \in Segment \ deleted : p = Planned(t, snapshot[t])
  BY <1>2 DEF Listed
<1>. QED
  BY <1>1, <1>2, <1>3 DEF Planned

-----------------------------------------------------------------------------
(* Bytes.  The planner's lemmas speak of the rows it is given; these carry *)
(* them over to the files.                                                 *)

\* The bytes of each file.
BytesOf == [s \in Segment |-> SizeOf[CameraOf(s)]]

\* The sum that FreeBytes makes over the files.
LEMMA DiskWeighed ==
  ASSUME NEW S \in SUBSET Segment, IsFiniteSet(S)
  PROVE  MapThenSumSet(LAMBDA s : SizeOf[CameraOf(s)], S) = Weigh(BytesOf, S)
<1> DEFINE w == BytesOf
<1>1. MapThenSumSet(LAMBDA s : SizeOf[CameraOf(s)], S)
        = (CHOOSE g : g = [s \in SUBSET S |-> IF s = {} THEN 0
                            ELSE SizeOf[CameraOf(Any(s))] + g[s \ {Any(s)}]])[S]
  BY DEF MapThenSumSet, MapThenFoldSet, Any
<1>0. \A s \in SUBSET S : s # {} => w[Any(s)] = SizeOf[CameraOf(Any(s))]
  BY AnyIn DEF BytesOf
<1> HIDE DEF w
<1>2. ASSUME NEW g, IsSum(g, w, S)
      PROVE  g = [s \in SUBSET S |-> IF s = {} THEN 0
                    ELSE SizeOf[CameraOf(Any(s))] + g[s \ {Any(s)}]]
  BY <1>0, <1>2 DEF IsSum
<1>3. ASSUME NEW g, g = [s \in SUBSET S |-> IF s = {} THEN 0
                           ELSE SizeOf[CameraOf(Any(s))] + g[s \ {Any(s)}]]
      PROVE  IsSum(g, w, S)
  BY <1>0, <1>3 DEF IsSum
<1>4. \E f : IsSum(f, w, S)
  BY SumExists
<1>5. PICK h : h = CHOOSE g : g = [s \in SUBSET S |-> IF s = {} THEN 0
                                   ELSE SizeOf[CameraOf(Any(s))] + g[s \ {Any(s)}]]
  OBVIOUS
<1>6. IsSum(h, w, S)
  BY <1>2, <1>3, <1>4, <1>5
<1> QED BY <1>1, <1>5, <1>6, WeighIs DEF w

\* There are finitely many files.
LEMMA FinitelyMany ==
  ASSUME NEW S \in SUBSET Segment
  PROVE  IsFiniteSet(S)
<1>1. IsFiniteSet(0 .. MaxNow - 1)
  BY StorageAssumption, FS_Interval
<1>2. IsFiniteSet(Segment)
  BY <1>1, StorageAssumption, FS_Product DEF Segment
<1> QED BY <1>2, FS_Subset

LEMMA SegmentSizes == \A s \in Segment : BytesOf[s] \in Nat
BY StorageAssumption DEF Segment, BytesOf, CameraOf

\* What is free is what the files on the disk leave.
LEMMA FreeBytesWeighed ==
  ASSUME TypeOK
  PROVE  /\ FreeBytes = DiskBytes - Weigh(BytesOf, disk)
         /\ Weigh(BytesOf, disk) \in Nat /\ FreeBytes \in Int
<1>1. IsFiniteSet(disk) /\ disk \in SUBSET Segment
  BY FinitelyMany DEF TypeOK
<1>2. Weigh(BytesOf, disk) \in Nat
  BY <1>1, SegmentSizes, WeighNat
<1>3. MapThenSumSet(LAMBDA s : SizeOf[CameraOf(s)], disk) = Weigh(BytesOf, disk)
  BY <1>1, DiskWeighed
<1> QED BY <1>2, <1>3, StorageAssumption DEF FreeBytes

-----------------------------------------------------------------------------
LEMMA InitInv == Init => Inv
<1> SUFFICES ASSUME Init PROVE Inv
  OBVIOUS
<1> USE DEF Init
<1>0. \A l \in Lane : heard[l] = {} /\ scan[l] = NoScan
  BY DEF NothingHeard
<1>1. TypeOK
  <2>1. row \in [Segment -> RowClass] /\ snapshot \in [Segment -> RowClass]
    BY DEF Nothing, RowClass
  <2>2. capture \in [Lane -> [Camera -> CaptureState]] /\ pass \in PassState
    BY DEF OnLane, AllOff, CaptureState, PassState
  <2>3. 0 \in 0 .. MaxNow /\ 0 \in 0 .. MaxFaults /\ 0 \in 0 .. MaxRestarts
    BY StorageAssumption
  <2>4. heard \in [Lane -> SUBSET Segment] /\ scan \in [Lane -> ScanState]
    BY <2>3 DEF NothingHeard, NoScan, ScanState
  <2>. QED
    BY <2>1, <2>2, <2>3, <2>4 DEF TypeOK
<1>2. PastOnly
  BY <1>0 DEF PastOnly, Announced, NoScan, Nothing
<1>3. OneAnnouncer
  BY <1>0 DEF OneAnnouncer, Announces, Announced, NoScan
<1>4. PassCondemns /\ PassRemembers /\ RowsHaveFiles
  BY DEF PassCondemns, PassRemembers, RowsHaveFiles, Rows, Nothing
<1>. QED
  BY <1>1, <1>2, <1>3, <1>4 DEF Inv

\* The lanes stay safe against each other when none takes on a file and no file
\* still announced gets a row.
LEMMA AnnouncersStay ==
  ASSUME OneAnnouncer, contested' = contested,
         \A l \in Lane : \A s \in heard'[l] :
           s \in heard[l] /\ capture'[l][CameraOf(s)] = capture[l][CameraOf(s)],
         \A l \in Lane : \A s \in scan'[l].todo :
           s \in scan[l].todo /\ capture'[l][CameraOf(s)] = capture[l][CameraOf(s)],
         \A l \in Lane : scan'[l].read =>
           \A s \in scan'[l].todo : NextOrphan(l, s)' => s \in disk' \union contested,
         \A l \in Lane : \A s \in Announced(l)' \ contested : row'[s] = "none"
  PROVE  OneAnnouncer'
<1>1. ASSUME NEW l \in Lane PROVE Announced(l)' \subseteq Announced(l)
  BY DEF Announced
<1>2. ASSUME NEW l \in Lane PROVE Announces(l)'
  BY DEF OneAnnouncer, Announces
<1>3. ASSUME NEW l \in Lane, NEW s \in Announced(l)' \ contested'
      PROVE  row'[s] = "none" /\ \A m \in Lane \ {l} : s \notin Announced(m)'
  BY <1>1 DEF OneAnnouncer
<1>. QED
  BY <1>2, <1>3 DEF OneAnnouncer

\* In particular when the lanes do not move and the disk keeps what they probed.
LEMMA LanesStill ==
  ASSUME Inv, UNCHANGED <<heard, capture, scan, contested>>,
         \A s \in disk \ disk' : row[s] # "none",
         \A s \in Segment : row[s] = "none" => row'[s] = "none"
  PROVE  OneAnnouncer'
<1>1. ASSUME NEW l \in Lane, NEW s \in Announced(l) \ contested
      PROVE  row[s] = "none" /\ row'[s] = "none"
  BY <1>1, AnnouncedAreSegments DEF Inv, OneAnnouncer
<1>2. ASSUME NEW l \in Lane, scan[l].read, NEW s \in scan[l].todo, NextOrphan(l, s)
      PROVE  s \in disk' \union contested
  BY <1>1, <1>2 DEF Inv, OneAnnouncer, Announces, Announced
<1>3. \A l \in Lane : Announced(l)' = Announced(l)
  BY DEF Announced
<1>4. \A l \in Lane : \A s \in scan[l].todo : NextOrphan(l, s)' = NextOrphan(l, s)
  BY DEF NextOrphan
<1>. QED
  BY <1>1, <1>2, <1>3, <1>4, AnnouncersStay DEF Inv

\* The clock advances and ffmpeg adds files of the slot that just ended.
LEMMA TickInv == Inv /\ Tick => Inv'
<1> SUFFICES ASSUME Inv, Tick PROVE Inv'
  OBVIOUS
<1> USE DEF Inv
<1>1. PICK wrote \in [Lane -> SUBSET Camera] :
        /\ \A l \in Lane : wrote[l] \subseteq Recording(l)
        /\ \A l, m \in Lane : l # m => wrote[l] \cap wrote[m] = {}
        /\ \E cut \in SUBSET UNION {wrote[l] : l \in Lane} :
             /\ cut # {} => faults < MaxFaults
             /\ faults' = IF cut = {} THEN faults ELSE faults + 1
             /\ torn' = torn \union {<<c, now>> : c \in cut}
             /\ heard' = [l \in Lane |-> heard[l] \union {<<c, now>> : c \in wrote[l] \ cut}]
        /\ disk' = disk \union {<<c, now>> : c \in UNION {wrote[l] : l \in Lane}}
  BY DEF Tick
<1>0. PICK cut \in SUBSET UNION {wrote[l] : l \in Lane} :
        /\ cut # {} => faults < MaxFaults
        /\ faults' = IF cut = {} THEN faults ELSE faults + 1
        /\ torn' = torn \union {<<c, now>> : c \in cut}
        /\ heard' = [l \in Lane |-> heard[l] \union {<<c, now>> : c \in wrote[l] \ cut}]
  BY <1>1
<1>2. /\ now < MaxNow /\ now' = now + 1
      /\ UNCHANGED <<restarts, row, lane, capture, scanVars, passVars, stranded>>
  BY DEF Tick
<1>3. /\ disk \subseteq disk' /\ disk' \subseteq Segment /\ torn' \subseteq Segment
      /\ \A s \in disk' \ disk : StartOf(s) = now
  <2>1. \A c \in UNION {wrote[l] : l \in Lane} : c \in Camera
    OBVIOUS
  <2>. QED
    BY <1>0, <1>1, <1>2, <2>1, NowIsASegment DEF TypeOK
<1>4. ASSUME NEW l \in Lane, NEW s \in heard'[l]
      PROVE  /\ s \in Segment
             /\ \/ s \in heard[l]
                \/ /\ StartOf(s) = now /\ CameraOf(s) \in wrote[l] /\ capture[l][CameraOf(s)] = "recording"
                   /\ s \notin Announced(l)
  <2>1. CASE s \in heard[l]
    BY <2>1, AnnouncedAreSegments
  <2>2. CASE s \notin heard[l]
    <3>1. PICK c \in wrote[l] \ cut : s = <<c, now>>
      BY <1>0, <1>1, <1>4, <2>2
    <3>2. c \in Camera /\ c \in Recording(l)
      BY <1>0, <1>1, <3>1
    <3>3. StartOf(s) = now /\ CameraOf(s) = c /\ s \in Segment
      BY <1>2, <3>1, <3>2, NowIsASegment
    <3>4. s \notin Announced(l)
      BY <3>3, SegmentFields DEF PastOnly
    <3>. QED
      BY <3>1, <3>2, <3>3, <3>4 DEF Recording
  <2>. QED
    BY <2>1, <2>2
<1>5. TypeOK'
  <2>1. heard' \in [Lane -> SUBSET Segment]
    BY <1>0, <1>1, <1>4 DEF TypeOK
  <2>2. now' \in 0 .. MaxNow /\ faults' \in 0 .. MaxFaults
    BY <1>0, <1>1, <1>2, StorageAssumption DEF TypeOK
  <2>. QED
    BY <1>2, <1>3, <2>1, <2>2 DEF TypeOK, scanVars, passVars, measureVars
<1>6. PastOnly'
  <2>1. now \in Nat /\ \A s \in Segment : StartOf(s) \in Nat
    BY StorageAssumption, SegmentFields DEF TypeOK
  <2>2. \A s \in disk' : StartOf(s) < now'
    BY <1>2, <1>3, <2>1 DEF PastOnly, TypeOK
  <2>3. ASSUME NEW l \in Lane, NEW s \in Announced(l)' PROVE StartOf(s) < now'
    <3>1. s \in Segment /\ (s \in Announced(l) \/ StartOf(s) = now)
      BY <1>2, <1>4, <2>3, AnnouncedAreSegments DEF Announced, scanVars
    <3>. QED
      BY <1>2, <2>1, <3>1 DEF PastOnly
  <2>. QED
    BY <1>2, <2>1, <2>2, <2>3 DEF PastOnly, TypeOK, passVars
<1>7. OneAnnouncer'
  <2>0. UNCHANGED <<row, capture, scan, contested>>
    BY <1>2 DEF scanVars
  <2>1. ASSUME NEW l \in Lane PROVE Announces(l)'
    <3>1. \A s \in heard'[l] : capture'[l][CameraOf(s)] = "recording"
      BY <1>4, <2>0 DEF OneAnnouncer, Announces
    <3>2. \A s \in scan[l].todo : NextOrphan(l, s)' = NextOrphan(l, s)
      BY <2>0 DEF NextOrphan
    <3>. QED
      BY <1>3, <2>0, <3>1, <3>2 DEF OneAnnouncer, Announces
  <2>2. ASSUME NEW l \in Lane, NEW s \in Announced(l)' \ contested
        PROVE  row[s] = "none" /\ \A m \in Lane \ {l} : s \notin Announced(m)'
    <3>1. CASE s \in Announced(l)
      <4>1. row[s] = "none" /\ \A m \in Lane \ {l} : s \notin Announced(m)
        BY <2>2, <3>1 DEF OneAnnouncer
      <4>2. StartOf(s) # now
        BY <3>1, AnnouncedAreSegments, SegmentFields DEF PastOnly
      <4>. QED
        BY <1>4, <2>0, <4>1, <4>2 DEF Announced
    <3>2. CASE s \notin Announced(l)
      <4>1. s \in heard'[l] /\ StartOf(s) = now /\ CameraOf(s) \in wrote[l] /\ s \in Segment
        BY <1>4, <2>0, <2>2, <3>2 DEF Announced
      <4>2. row[s] = "none"
        BY <1>2, <4>1, SegmentFields DEF PastOnly
      <4>3. ASSUME NEW m \in Lane \ {l} PROVE s \notin Announced(m)'
        <5>1. s \notin Announced(m)
          BY <1>2, <4>1, SegmentFields DEF PastOnly
        <5>2. CameraOf(s) \notin wrote[m]
          BY <1>0, <1>1, <4>1, <4>3
        <5>. QED
          BY <1>4, <2>0, <5>1, <5>2 DEF Announced
      <4>. QED
        BY <4>2, <4>3
    <3>. QED
      BY <3>1, <3>2
  <2>. QED
    BY <2>0, <2>1, <2>2 DEF OneAnnouncer
<1>8. PassCondemns'
  <2>1. ASSUME NEW s \in unlinked \union deleted
        PROVE  s \notin disk'
    BY <1>2, <1>3, SegmentFields DEF PassCondemns, PastOnly, TypeOK
  <2>2. QED
    BY <1>2, <2>1 DEF PassCondemns, passVars
<1>9. PassRemembers' /\ RowsHaveFiles'
  BY <1>2, <1>3 DEF PassRemembers, RowsHaveFiles, Rows, passVars, scanVars
<1>. QED
  BY <1>5, <1>6, <1>7, <1>8, <1>9

\* Indexing a notice gives a row to a file that has none, or a contested one.
LEMMA IndexInv ==
  ASSUME Inv, NEW l \in Lane, NEW s \in Segment, Index(l, s) \/ IndexFails(l, s)
  PROVE  Inv'
<1> USE DEF Inv
<1>1. /\ UNCHANGED <<clockVars, fileVars, lane, capture, scanVars, passVars, stranded>>
      /\ s \in heard[l] /\ heard' = [heard EXCEPT ![l] = @ \ {s}]
      /\ \/ row' = row
         \/ s \in disk /\ row' = [row EXCEPT ![s] = "continuous"]
      /\ faults' \in 0 .. MaxFaults
  BY StorageAssumption DEF Index, IndexFails, Upsert, TypeOK
<1>2. TypeOK'
  BY <1>1 DEF TypeOK, clockVars, fileVars, scanVars, passVars, measureVars, RowClass, SegmentClass
<1>3. PastOnly'
  <2>1. \A m \in Lane : Announced(m)' \subseteq Announced(m)
    BY <1>1 DEF Announced, scanVars, TypeOK
  <2>. QED
    BY <1>1, <2>1 DEF PastOnly, TypeOK, clockVars, fileVars, passVars
<1>4. OneAnnouncer'
  <2>0. UNCHANGED <<disk, capture, scan, contested>>
    BY <1>1 DEF scanVars, fileVars
  <2>1. \A m \in Lane : heard'[m] \subseteq heard[m] /\ (m = l => s \notin heard'[m])
    BY <1>1 DEF TypeOK
  <2>2. ASSUME NEW m \in Lane, NEW t \in Announced(m)' \ contested PROVE row'[t] = "none"
    <3>1. t \in Announced(m) /\ t \in Segment
      BY <2>0, <2>1, <2>2, AnnouncedAreSegments DEF Announced
    <3>2. row[t] = "none" /\ \A k \in Lane \ {m} : t \notin Announced(k)
      BY <2>2, <3>1 DEF OneAnnouncer
    <3>3. t # s
      BY <1>1, <2>0, <2>1, <2>2, <3>2, HeardIsNotScanned DEF Announced
    <3>. QED
      BY <1>1, <3>1, <3>2, <3>3 DEF TypeOK
  <2>3. \A m \in Lane : \A t \in scan[m].todo : NextOrphan(m, t)' = NextOrphan(m, t)
    BY <2>0 DEF NextOrphan
  <2>4. ASSUME NEW m \in Lane, scan[m].read, NEW t \in scan[m].todo, NextOrphan(m, t)
        PROVE  t \in disk \union contested
    BY <2>4 DEF OneAnnouncer, Announces
  <2>. QED
    BY <2>0, <2>1, <2>2, <2>3, <2>4, AnnouncersStay
<1>5. PassCondemns'
  BY <1>1 DEF PassCondemns, fileVars, passVars
<1>6. PassRemembers'
  BY <1>1 DEF PassRemembers, TypeOK, passVars
<1>7. RowsHaveFiles'
  BY <1>1 DEF RowsHaveFiles, Rows, TypeOK, fileVars, passVars, scanVars
<1>. QED
  BY <1>2, <1>3, <1>4, <1>5, <1>6, <1>7

-----------------------------------------------------------------------------
(* The scan of a camera that its lane does not record.                     *)

\* A start leaves the files, the rows and the pass alone.
LEMMA ScanCameraInv ==
  ASSUME Inv, NEW l \in Lane, NEW c \in Camera,
         ScanStart(l, c) \/ ScanFails(l, c) \/ StartRecorder(l, c)
  PROVE  Inv'
<1> USE DEF Inv
<1>1. /\ UNCHANGED <<clockVars, fileVars, row, lane, heard, passVars, stranded>>
      /\ faults' \in 0 .. MaxFaults
  BY StorageAssumption DEF ScanStart, ScanFails, StartRecorder, TypeOK, captureVars, scanVars
<1>2. /\ capture' \in [Lane -> [Camera -> CaptureState]]
      /\ capture[l][c] # "recording"
      /\ \A m \in Lane, d \in Camera : (m # l \/ d # c) => capture'[m][d] = capture[m][d]
  <2>1. CASE ScanFails(l, c)
    BY <2>1 DEF ScanFails, TypeOK, captureVars
  <2>2. CASE ScanStart(l, c)
    <3>1. capture[l][c] = "waiting" /\ capture' = [capture EXCEPT ![l][c] = "scanning"]
      BY <2>2 DEF ScanStart
    <3>. QED
      BY <3>1 DEF TypeOK, CaptureState
  <2>3. CASE StartRecorder(l, c)
    <3>1. capture[l][c] = "scanning" /\ capture' = [capture EXCEPT ![l][c] = "recording"]
      BY <2>3 DEF StartRecorder
    <3>. QED
      BY <3>1 DEF TypeOK, CaptureState
  <2>. QED
    BY <2>1, <2>2, <2>3
<1>3. scan' \in [Lane -> ScanState] /\ \A m \in Lane \ {l} : scan'[m] = scan[m]
  <2>1. CASE ScanStart(l, c)
    <3>1. scan' = [scan EXCEPT ![l] =
                     [at |-> now, todo |-> Orphans(c), read |-> FALSE, fault |-> FALSE]]
      BY <2>1 DEF ScanStart
    <3>2. [at |-> now, todo |-> Orphans(c), read |-> FALSE, fault |-> FALSE] \in ScanState
      BY DEF ScanState, Orphans, TypeOK
    <3>. QED
      BY <3>1, <3>2 DEF TypeOK
  <2>2. CASE ScanFails(l, c)
    <3>1. scan' = [scan EXCEPT ![l].todo = {}, ![l].read = FALSE, ![l].fault = TRUE]
      BY <2>2 DEF ScanFails
    <3>2. scan \in [Lane -> ScanState]
      BY DEF TypeOK
    <3>. QED
      BY <3>1, <3>2 DEF ScanState
  <2>3. CASE StartRecorder(l, c)
    BY <2>3 DEF StartRecorder, TypeOK, scanVars
  <2>. QED
    BY <2>1, <2>2, <2>3
<1>4. /\ scan'[l].read = TRUE => scan'[l].todo = {}
      /\ \A s \in scan'[l].todo :
           /\ s \in disk /\ row[s] = "none" /\ CameraOf(s) = c /\ capture'[l][c] = "scanning"
           /\ \A m \in Lane \ {l} : s \in Announced(m) => s \in contested'
      /\ contested \subseteq contested' /\ contested' \subseteq Segment
  <2>1. CASE ScanStart(l, c)
    <3>1. /\ scan'[l].todo = Orphans(c) /\ scan'[l].read = FALSE /\ capture'[l][c] = "scanning"
          /\ contested' = contested \union
               (Orphans(c) \cap UNION {Announced(m) : m \in Lane \ {l}})
      BY <2>1 DEF ScanStart, TypeOK
    <3>2. Orphans(c) \subseteq Segment
      BY DEF Orphans, TypeOK
    <3>. QED
      BY <3>1, <3>2 DEF Orphans, TypeOK
  <2>2. CASE ScanFails(l, c)
    BY <2>2 DEF ScanFails, TypeOK, ScanState
  <2>3. CASE StartRecorder(l, c)
    BY <2>3 DEF StartRecorder, TypeOK, scanVars
  <2>. QED
    BY <2>1, <2>2, <2>3
<1>5. TypeOK'
  BY <1>1, <1>2, <1>3, <1>4 DEF TypeOK, clockVars, fileVars, passVars, measureVars
<1>6. PastOnly'
  <2>1. ASSUME NEW m \in Lane, NEW s \in Announced(m)' PROVE StartOf(s) < now
    BY <1>1, <1>3, <1>4, <2>1 DEF PastOnly, Announced
  <2>. QED
    BY <1>1, <2>1 DEF PastOnly, clockVars, fileVars, passVars
<1>7. OneAnnouncer'
  <2>1. ASSUME NEW m \in Lane, NEW s \in heard[m] PROVE capture'[m][CameraOf(s)] = "recording"
    <3>1. s \in Segment /\ capture[m][CameraOf(s)] = "recording"
      BY <2>1, AnnouncedAreSegments DEF OneAnnouncer, Announces
    <3>. QED
      BY <1>2, <3>1, SegmentFields
  <2>2. ASSUME NEW m \in Lane PROVE Announces(m)'
    <3>1. CASE m = l
      BY <1>1, <1>4, <2>1, <3>1 DEF Announces
    <3>2. CASE m # l
      <4>1. scan'[m] = scan[m]
        BY <1>3, <3>2
      <4>2. \A s \in scan[m].todo : capture'[m][CameraOf(s)] = "scanning"
        BY <1>2, <3>2, AnnouncedAreSegments, SegmentFields DEF OneAnnouncer, Announces
      <4>3. \A s \in scan[m].todo : NextOrphan(m, s)' = NextOrphan(m, s)
        BY <4>1 DEF NextOrphan
      <4>4. UNCHANGED <<disk, heard>> /\ contested \subseteq contested'
        BY <1>1, <1>4 DEF fileVars
      <4>. QED
        BY <2>1, <4>1, <4>2, <4>3, <4>4 DEF OneAnnouncer, Announces
    <3>. QED
      BY <3>1, <3>2
  <2>3. ASSUME NEW m \in Lane, NEW s \in Announced(m)' \ contested'
        PROVE  row'[s] = "none" /\ \A k \in Lane \ {m} : s \notin Announced(k)'
    <3>1. \A k \in Lane \ {l} : Announced(k)' = Announced(k)
      BY <1>1, <1>3 DEF Announced
    <3>2. Announced(l)' \subseteq Announced(l) \union scan'[l].todo
      BY <1>1 DEF Announced
    <3>3. CASE s \in Announced(m)
      <4>1. row[s] = "none" /\ \A k \in Lane \ {m} : s \notin Announced(k)
        BY <1>4, <2>3, <3>3 DEF OneAnnouncer
      <4>2. m # l => s \notin scan'[l].todo
        BY <1>4, <2>3, <3>3
      <4>. QED
        BY <1>1, <3>1, <3>2, <4>1, <4>2
    <3>4. CASE s \notin Announced(m)
      <4>1. m = l /\ s \in scan'[l].todo
        BY <2>3, <3>1, <3>2, <3>4
      <4>. QED
        BY <1>1, <1>4, <2>3, <3>1, <4>1
    <3>. QED
      BY <3>3, <3>4
  <2>. QED
    BY <2>2, <2>3 DEF OneAnnouncer
<1>8. PassCondemns' /\ PassRemembers' /\ RowsHaveFiles'
  BY <1>1, <1>4 DEF PassCondemns, PassRemembers, RowsHaveFiles, Rows,
                    clockVars, fileVars, passVars
<1>. QED
  BY <1>5, <1>6, <1>7, <1>8

JudgesFile(l, s) ==
  \/ ScanSkip(l, s) \/ ScanRemove(l, s) \/ ScanRemoveFails(l, s)
  \/ ScanProbe(l, s) \/ ScanAdopt(l, s)

\* What judging does to the scans: the file leaves the list, or has been read.
LEMMA JudgedFacts ==
  ASSUME TypeOK, NEW l \in Lane, NEW s \in Segment, JudgesFile(l, s)
  PROVE  /\ scan' \in [Lane -> ScanState] /\ \A m \in Lane \ {l} : scan'[m] = scan[m]
         /\ scan'[l].at = scan[l].at
         /\ NextOrphan(l, s)
         /\ \/ scan'[l].todo = scan[l].todo \ {s} /\ scan'[l].read = FALSE /\ ~ScanProbe(l, s)
            \/ scan'[l].todo = scan[l].todo /\ s \in disk /\ UNCHANGED disk
               /\ scan'[l].fault = scan[l].fault /\ ScanProbe(l, s)
         /\ scan'[l].fault = scan[l].fault \/ scan'[l].fault = TRUE
<1>s. scan \in [Lane -> ScanState]
  BY DEF TypeOK
<1>0. NextOrphan(l, s) /\ s \in scan[l].todo
  BY DEF JudgesFile, ScanSkip, ScanRemove, ScanRemoveFails, ScanProbe, ScanAdopt, Judge, NextOrphan
<1>1. CASE ScanSkip(l, s) \/ ScanRemove(l, s)
  <2>1. scan' = [scan EXCEPT ![l].todo = @ \ {s}] /\ scan[l].read = FALSE
    BY <1>1, AnnouncedAreSegments DEF ScanSkip, ScanRemove, Judge, Judged
  <2>2. scan' \in [Lane -> ScanState] /\ \A m \in Lane \ {l} : scan'[m] = scan[m]
    BY <1>s, <2>1, SMTT(20) DEF ScanState
  <2>3. /\ scan'[l].at = scan[l].at /\ scan'[l].fault = scan[l].fault
        /\ scan'[l].todo = scan[l].todo \ {s} /\ scan'[l].read = FALSE
    BY <1>s, <2>1, SMTT(20) DEF ScanState
  <2>4. ~ScanProbe(l, s)
    BY <2>3 DEF ScanProbe, TypeOK, ScanState
  <2>. QED
    BY <1>0, <2>2, <2>3, <2>4
<1>2. CASE ScanRemoveFails(l, s)
  <2>1. /\ scan' = [scan EXCEPT ![l].todo = @ \ {s}, ![l].fault = TRUE]
        /\ scan[l].read = FALSE
    BY <1>2, AnnouncedAreSegments DEF ScanRemoveFails, Judge
  <2>2. scan' \in [Lane -> ScanState] /\ \A m \in Lane \ {l} : scan'[m] = scan[m]
    BY <1>s, <2>1 DEF ScanState
  <2>3. /\ scan'[l].at = scan[l].at /\ scan'[l].fault = TRUE
        /\ scan'[l].todo = scan[l].todo \ {s} /\ scan'[l].read = FALSE
    BY <1>s, <2>1, SMTT(20) DEF ScanState
  <2>4. ~ScanProbe(l, s)
    BY <2>3 DEF ScanProbe, TypeOK, ScanState
  <2>. QED
    BY <1>0, <2>2, <2>3, <2>4
<1>3. CASE ScanProbe(l, s)
  <2>1. scan' = [scan EXCEPT ![l].read = TRUE] /\ s \in disk /\ UNCHANGED disk
    BY <1>3 DEF ScanProbe, fileVars
  <2>2. scan' \in [Lane -> ScanState] /\ \A m \in Lane \ {l} : scan'[m] = scan[m]
    BY <1>s, <2>1 DEF ScanState
  <2>3. /\ scan'[l].at = scan[l].at /\ scan'[l].fault = scan[l].fault
        /\ scan'[l].todo = scan[l].todo
    BY <1>s, <2>1, SMTT(20) DEF ScanState
  <2>. QED
    BY <1>0, <1>3, <2>1, <2>2, <2>3
<1>4. CASE ScanAdopt(l, s)
  <2>1. scan' = [scan EXCEPT ![l].todo = @ \ {s}, ![l].read = FALSE] /\ scan[l].read
    BY <1>4 DEF ScanAdopt
  <2>2. scan' \in [Lane -> ScanState] /\ \A m \in Lane \ {l} : scan'[m] = scan[m]
    BY <1>s, <2>1, SMTT(20) DEF ScanState
  <2>3. /\ scan'[l].at = scan[l].at /\ scan'[l].fault = scan[l].fault
        /\ scan'[l].todo = scan[l].todo \ {s} /\ scan'[l].read = FALSE
    BY <1>s, <2>1, SMTT(20) DEF ScanState
  <2>4. ~ScanProbe(l, s)
    BY <2>1 DEF ScanProbe, Judge
  <2>. QED
    BY <1>0, <2>2, <2>3, <2>4
<1>. QED
  BY <1>1, <1>2, <1>3, <1>4 DEF JudgesFile

\* Judging one file.
LEMMA ScanFileInv ==
  ASSUME Inv, NEW l \in Lane, NEW s \in Segment, JudgesFile(l, s)
  PROVE  Inv'
<1> USE DEF Inv
<1>1. /\ UNCHANGED <<clockVars, captureVars, contested, passVars, stranded>>
      /\ s \in scan[l].todo
  BY JudgedFacts DEF JudgesFile, ScanSkip, ScanRemove, ScanRemoveFails, ScanProbe, ScanAdopt, NextOrphan
<1>a. faults' \in 0 .. MaxFaults
  BY StorageAssumption
     DEF JudgesFile, ScanSkip, ScanRemove, ScanRemoveFails, ScanProbe, ScanAdopt, TypeOK
<1>2. \/ UNCHANGED <<disk, torn, row>>
      \/ disk' = disk \ {s} /\ torn' = torn \ {s} /\ row' = row /\ ~ScanProbe(l, s)
      \/ /\ s \in disk \union contested /\ UNCHANGED <<disk, torn>>
         /\ row' = [row EXCEPT ![s] = "continuous"] /\ ~ScanProbe(l, s)
  <2>1. CASE ScanAdopt(l, s)
    <3>1. s \in disk \union contested
      BY <2>1 DEF ScanAdopt, NextOrphan, OneAnnouncer, Announces
    <3>2. ~ScanProbe(l, s)
      BY <2>1 DEF ScanAdopt, ScanProbe, Judge
    <3>. QED
      BY <2>1, <3>1, <3>2 DEF ScanAdopt, Upsert, fileVars
  <2>2. CASE ScanRemove(l, s)
    <3>1. ~ScanProbe(l, s)
      BY <2>2, JudgedFacts DEF JudgesFile, ScanRemove, ScanProbe, Judge, Judged, TypeOK, fileVars, ScanState
    <3>. QED
      BY <2>2, <3>1 DEF ScanRemove
  <2>3. CASE ScanSkip(l, s) \/ ScanRemoveFails(l, s) \/ ScanProbe(l, s)
    BY <2>3 DEF ScanSkip, ScanRemoveFails, ScanProbe, fileVars
  <2>. QED
    BY <2>1, <2>2, <2>3 DEF JudgesFile
<1>3. /\ s \in Announced(l)
      /\ s \notin contested =>
           row[s] = "none" /\ s \notin heard[l] /\ \A m \in Lane \ {l} : s \notin Announced(m)
  BY <1>1, HeardIsNotScanned DEF OneAnnouncer, Announced
<1>4. TypeOK'
  <2>1. disk' \subseteq Segment /\ torn' \subseteq Segment
    BY <1>2 DEF TypeOK
  <2>2. row' \in [Segment -> RowClass]
    BY <1>2 DEF TypeOK, RowClass, SegmentClass
  <2>3. scan' \in [Lane -> ScanState]
    BY JudgedFacts
  <2>. QED
    BY <1>1, <1>a, <2>1, <2>2, <2>3 DEF TypeOK, clockVars, captureVars, passVars, measureVars
<1>b. \A m \in Lane : scan'[m].todo \subseteq scan[m].todo /\ Announced(m)' \subseteq Announced(m)
  BY <1>1, JudgedFacts DEF Announced, captureVars
<1>5. PastOnly'
  BY <1>1, <1>2, <1>b, <1>3 DEF PastOnly, TypeOK, clockVars, passVars
<1>6. OneAnnouncer'
  <2>0. UNCHANGED <<heard, capture, contested>>
    BY <1>1 DEF captureVars
  <2>1. ASSUME NEW m \in Lane, NEW t \in Announced(m)' \ contested PROVE row'[t] = "none"
    <3>1. t \in Announced(m) /\ t \in Segment /\ row[t] = "none"
      BY <1>b, <2>1, AnnouncedAreSegments DEF OneAnnouncer
    <3>2. CASE ScanProbe(l, s)
      BY <1>2, <3>1, <3>2
    <3>3. CASE ~ScanProbe(l, s)
      <4>1. m = l => t \in heard[l] \union (scan[l].todo \ {s})
        BY <2>0, <2>1, <3>3, JudgedFacts DEF Announced
      <4>2. t # s
        BY <1>3, <2>1, <3>1, <4>1
      <4>. QED
        BY <1>2, <3>1, <4>2 DEF TypeOK
    <3>. QED
      BY <3>2, <3>3
  <2>2. ASSUME NEW m \in Lane, scan'[m].read, NEW t \in scan'[m].todo, NextOrphan(m, t)'
        PROVE  t \in disk' \union contested
    <3>1. CASE m = l
      <4>1. ScanProbe(l, s) /\ scan'[l].todo = scan[l].todo /\ disk' = disk /\ s \in disk
        BY <2>2, <3>1, JudgedFacts
      <4>2. NextOrphan(l, t) /\ NextOrphan(l, s)
        BY <2>2, <3>1, <4>1, JudgedFacts DEF NextOrphan
      <4>3. t = s
        BY <4>2, OneNextOrphan
      <4>. QED
        BY <4>1, <4>3
    <3>2. CASE m # l
      <4>1. scan'[m] = scan[m]
        BY <3>2, JudgedFacts
      <4>2. t \in disk \union contested
        BY <2>2, <4>1 DEF NextOrphan, OneAnnouncer, Announces
      <4>3. t # s \/ s \in contested
        BY <1>3, <2>2, <3>2, <4>1 DEF Announced
      <4>. QED
        BY <1>2, <4>2, <4>3
    <3>. QED
      BY <3>1, <3>2
  <2>. QED
    BY <1>b, <2>0, <2>1, <2>2, AnnouncersStay
<1>7. PassCondemns'
  BY <1>1, <1>2 DEF PassCondemns, passVars
<1>8. PassRemembers'
  BY <1>1, <1>2 DEF PassRemembers, TypeOK, passVars
<1>9. RowsHaveFiles'
  BY <1>1, <1>2, <1>3 DEF RowsHaveFiles, Rows, TypeOK, passVars
<1>. QED
  BY <1>4, <1>5, <1>6, <1>7, <1>8, <1>9

-----------------------------------------------------------------------------
(* The janitor's pass.                                                     *)

LEMMA PassStartInv == Inv /\ (JanitorStart \/ PassStart) => Inv'
<1> SUFFICES ASSUME Inv, JanitorStart \/ PassStart PROVE Inv'
  OBVIOUS
<1> USE DEF Inv
<1>1. UNCHANGED <<clockVars, fileVars, row, captureVars, scanVars,
                  unlinked, deleted, measureVars, stranded, faults>>
  BY DEF JanitorStart, PassStart
<1>2. /\ pass \in {"off", "idle"} /\ pass' \in {"idle", "expiry"}
      /\ passAt' \in 0 .. MaxNow
      /\ \/ pass' = "idle" /\ snapshot' = snapshot /\ camerasLeft' = camerasLeft
         \/ /\ pass' = "expiry" /\ snapshot' = row
            /\ camerasLeft' = {CameraOf(s) : s \in Rows}
  BY DEF JanitorStart, PassStart, TypeOK
<1>3. deleted = {} /\ unlinked = {} /\ snapshot = Nothing
  BY <1>2 DEF PassCondemns
<1>4. TypeOK'
  <2>1. {CameraOf(s) : s \in Rows} \subseteq Camera
    BY DEF Rows, CameraOf, Segment
  <2>. QED
    BY <1>1, <1>2, <2>1
       DEF TypeOK, clockVars, fileVars, captureVars, scanVars, measureVars, PassState
<1>5. PastOnly' /\ PassRemembers'
  BY <1>1, <1>2, <1>3
     DEF PastOnly, PassRemembers, Announced, clockVars, fileVars, captureVars, scanVars
<1>6. OneAnnouncer'
  BY <1>1, LanesStill DEF fileVars, captureVars, scanVars
<1>7. RowsHaveFiles' /\ PassCondemns'
  BY <1>1, <1>2, <1>3 DEF PassCondemns, RowsHaveFiles, Rows, fileVars, scanVars
<1>. QED
  BY <1>4, <1>5, <1>6, <1>7

\* What _check_watermarks finds, before it deletes anything.
LEMMA PassMeasureInv == Inv /\ PassMeasure => Inv'
<1> SUFFICES ASSUME Inv, PassMeasure PROVE Inv'
  OBVIOUS
<1> USE DEF Inv
<1>1. /\ pass = "expiry" /\ pass' = "pressure"
      /\ measured' = FreeBytes /\ measuredAt' = now
      /\ UNCHANGED <<clockVars, fileVars, row, captureVars, scanVars, passAt, snapshot,
                     camerasLeft, unlinked, deleted, stranded, faults>>
  BY DEF PassMeasure
<1>2. TypeOK'
  BY <1>1, FreeBytesWeighed DEF TypeOK, clockVars, fileVars, captureVars, scanVars, PassState
<1>3. OneAnnouncer'
  BY <1>1, LanesStill DEF fileVars, captureVars, scanVars
<1>4. PastOnly' /\ PassCondemns' /\ PassRemembers' /\ RowsHaveFiles'
  BY <1>1 DEF PastOnly, PassCondemns, PassRemembers, RowsHaveFiles, Rows, Announced,
              clockVars, fileVars, captureVars, scanVars
<1>. QED
  BY <1>2, <1>3, <1>4

\* Unlinking a plan whose files the snapshot condemned.
LEMMA UnlinkInv ==
  ASSUME Inv, NEW plan \in SUBSET Segment, Unlink(plan),
         \A s \in plan : snapshot[s] \notin {"none", "favorite"},
         pass \in {"expiry", "pressure"}, pass' \in {"expiryRows", "pressureRows"},
         camerasLeft' \subseteq Camera,
         UNCHANGED <<clockVars, row, captureVars, scanVars, passAt, snapshot, deleted,
                     measureVars, stranded>>
  PROVE  Inv'
<1> USE DEF Inv
<1>1. /\ unlinked' \subseteq plan
      /\ disk' = disk \ unlinked' /\ torn' = torn \ unlinked'
      /\ faults' \in 0 .. MaxFaults
  BY StorageAssumption DEF Unlink, TypeOK
<1>2. unlinked = {}
  BY DEF PassCondemns
<1>3. TypeOK'
  BY <1>1 DEF TypeOK, clockVars, captureVars, scanVars, measureVars, PassState
<1>4. PastOnly' /\ PassRemembers'
  BY <1>1 DEF PastOnly, PassRemembers, Announced, clockVars, captureVars, scanVars
<1>5. OneAnnouncer'
  BY <1>1, KnownToThePass, LanesStill DEF captureVars, scanVars
<1>6. PassCondemns'
  BY <1>1 DEF PassCondemns
<1>7. RowsHaveFiles'
  BY <1>1, <1>2 DEF RowsHaveFiles, Rows, TypeOK, scanVars
<1>. QED
  BY <1>3, <1>4, <1>5, <1>6, <1>7

LEMMA PassExpireInv == ASSUME Inv, NEW c \in Camera, PassExpire(c) PROVE Inv'
<1>1. /\ ExpiryPlan(c) \subseteq Segment
      /\ \A s \in ExpiryPlan(c) : snapshot[s] \notin {"none", "favorite"}
  BY ExpiryPlanCondemns DEF Inv, SegmentClass
<1>2. camerasLeft' \subseteq Camera
  BY DEF PassExpire, Inv, TypeOK
<1>. QED
  BY <1>1, <1>2, UnlinkInv DEF PassExpire

LEMMA PassPressureInv == Inv /\ PassPressure => Inv'
<1> SUFFICES ASSUME Inv, PassPressure PROVE Inv'
  OBVIOUS
<1>1. /\ PressurePlan \subseteq Segment
      /\ \A s \in PressurePlan : snapshot[s] \notin {"none", "favorite"}
  BY PressurePlanCondemns DEF Inv, PressureDeletable
<1>2. camerasLeft' \subseteq Camera
  BY DEF PassPressure, Inv, TypeOK
<1>. QED
  BY <1>1, <1>2, UnlinkInv DEF PassPressure

\* The end of a pass that leaves the rows of its last batch undeleted.
LEMMA EndPassInv ==
  ASSUME Inv, EndPass("idle"),
         stranded' = stranded \union unlinked, faults' \in 0 .. MaxFaults,
         UNCHANGED <<clockVars, fileVars, row, captureVars, scanVars>>
  PROVE  Inv'
<1> USE DEF Inv
<1>1. /\ pass' = "idle" /\ passAt' = passAt /\ measured' = 0 /\ measuredAt' = 0
      /\ snapshot' = Nothing /\ camerasLeft' = {} /\ unlinked' = {} /\ deleted' = {}
  BY DEF EndPass
<1>2. TypeOK'
  BY <1>1, StorageAssumption
     DEF TypeOK, clockVars, fileVars, captureVars, scanVars, PassState, Nothing, RowClass
<1>3. OneAnnouncer'
  BY LanesStill DEF fileVars, captureVars, scanVars
<1>4. PastOnly' /\ PassCondemns' /\ PassRemembers' /\ RowsHaveFiles'
  BY <1>1 DEF PastOnly, PassCondemns, PassRemembers, RowsHaveFiles, Rows, Announced,
              Nothing, clockVars, fileVars, captureVars, scanVars
<1>. QED
  BY <1>2, <1>3, <1>4

LEMMA PassEndsInv == Inv /\ (PassWithoutPressure \/ PassAborts) => Inv'
<1> SUFFICES ASSUME Inv, PassWithoutPressure \/ PassAborts PROVE Inv'
  OBVIOUS
<1>1. EndPass("idle") /\ faults' \in 0 .. MaxFaults
      /\ UNCHANGED <<clockVars, fileVars, row, captureVars, scanVars>>
  BY StorageAssumption DEF PassWithoutPressure, PassAborts, Inv, TypeOK
<1>2. stranded' = stranded \union unlinked
  BY DEF PassWithoutPressure, PassAborts, Inv, PassCondemns
<1>. QED
  BY <1>1, <1>2, EndPassInv

LEMMA PassDeleteRowsInv == Inv /\ PassDeleteRows => Inv'
<1> SUFFICES ASSUME Inv, PassDeleteRows PROVE Inv'
  OBVIOUS
<1> USE DEF Inv
<1>1. /\ row' = [s \in Segment |-> IF s \in unlinked THEN "none" ELSE row[s]]
      /\ stranded' = stranded \ unlinked
      /\ UNCHANGED <<clockVars, fileVars, captureVars, scanVars, faults>>
  BY DEF PassDeleteRows, DropRows
<1>2. \/ /\ pass' = "expiry" /\ pass = "expiryRows"
         /\ deleted' = deleted \union unlinked /\ unlinked' = {}
         /\ UNCHANGED <<passAt, snapshot, camerasLeft, measured, measuredAt>>
      \/ /\ pass' = "idle" /\ passAt' = passAt /\ measured' = 0 /\ measuredAt' = 0
         /\ snapshot' = Nothing /\ camerasLeft' = {} /\ unlinked' = {} /\ deleted' = {}
  BY DEF PassDeleteRows, EndPass, measureVars
<1>3. TypeOK'
  <2>1. row' \in [Segment -> RowClass] /\ snapshot' \in [Segment -> RowClass]
    BY <1>1, <1>2 DEF TypeOK, RowClass, Nothing
  <2>3. 0 \in 0 .. MaxNow /\ 0 \in Int
    BY StorageAssumption
  <2>2. /\ pass' \in PassState /\ passAt' \in 0 .. MaxNow /\ camerasLeft' \subseteq Camera
        /\ unlinked' \subseteq Segment /\ deleted' \subseteq Segment
        /\ measured' \in Int /\ measuredAt' \in 0 .. MaxNow
    BY <1>2, <2>3 DEF TypeOK, PassState
  <2>. QED
    BY <1>1, <2>1, <2>2 DEF TypeOK, clockVars, fileVars, captureVars, scanVars
<1>4. PastOnly'
  BY <1>1, <1>2 DEF PastOnly, TypeOK, Announced, clockVars, fileVars, captureVars, scanVars, Nothing
<1>5. OneAnnouncer'
  BY <1>1, LanesStill DEF fileVars, captureVars, scanVars
<1>6. PassCondemns'
  BY <1>1, <1>2 DEF PassCondemns, fileVars
<1>7. PassRemembers'
  BY <1>1, <1>2 DEF PassRemembers, TypeOK, Nothing
<1>8. RowsHaveFiles'
  BY <1>1, <1>2 DEF RowsHaveFiles, Rows, TypeOK, fileVars, scanVars
<1>. QED
  BY <1>3, <1>4, <1>5, <1>6, <1>7, <1>8

-----------------------------------------------------------------------------
\* Moving rows between classes neither adds nor removes a row.
LEMMA ReclassInv ==
  ASSUME Inv, NEW c \in Camera, NEW from, NEW until,
         NEW klass \in SegmentClass, NEW onlyFrom \in SUBSET SegmentClass,
         Reclass(c, from, until, klass, onlyFrom)
  PROVE  Inv'
<1> USE DEF Inv
<1>1. UNCHANGED <<clockVars, fileVars, captureVars, scanVars, passVars, stranded, faults>>
  BY DEF Reclass
<1>2. /\ row' \in [Segment -> RowClass]
      /\ \A s \in Segment : row'[s] = "none" <=> row[s] = "none"
  BY DEF Reclass, TypeOK, RowClass, SegmentClass
<1>3. TypeOK'
  BY <1>1, <1>2 DEF TypeOK, clockVars, fileVars, captureVars, scanVars, passVars, measureVars
<1>4. OneAnnouncer'
  BY <1>1, <1>2, LanesStill DEF fileVars, captureVars, scanVars
<1>5. PastOnly'
  BY <1>1, <1>2 DEF PastOnly, Announced, clockVars, fileVars, captureVars, scanVars, passVars
<1>6. PassCondemns' /\ PassRemembers' /\ RowsHaveFiles'
  BY <1>1, <1>2 DEF PassCondemns, PassRemembers, RowsHaveFiles, Rows, fileVars, passVars, scanVars
<1>. QED
  BY <1>3, <1>4, <1>5, <1>6

-----------------------------------------------------------------------------
(* The end of the process and the reload.                                  *)

\* With its memory the process loses all that was under way.
LEMMA MemoryLossFacts ==
  ASSUME Inv, MemoryIsLost
  PROVE  /\ \A l \in Lane : heard'[l] = {} /\ scan'[l] = NoScan
         /\ heard' \in [Lane -> SUBSET Segment] /\ scan' \in [Lane -> ScanState]
         /\ capture' \in [Lane -> [Camera -> CaptureState]]
         /\ UNCHANGED <<lane, contested, passAt>> /\ stranded' = stranded \union unlinked
         /\ pass' = "off" /\ measured' = 0 /\ measuredAt' = 0 /\ snapshot' = Nothing
         /\ camerasLeft' = {} /\ unlinked' = {} /\ deleted' = {}
         /\ OneAnnouncer' /\ PassCondemns' /\ PassRemembers'
<1>1. /\ heard' = [m \in Lane |-> {}] /\ scan' = [l \in Lane |-> NoScan]
      /\ capture' = [m \in Lane |-> [c \in Camera |-> "off"]]
      /\ UNCHANGED <<lane, contested, passAt>> /\ stranded' = stranded \union unlinked
      /\ pass' = "off" /\ measured' = 0 /\ measuredAt' = 0 /\ snapshot' = Nothing
      /\ camerasLeft' = {} /\ unlinked' = {} /\ deleted' = {}
  BY DEF MemoryIsLost, EndPass, NothingHeard, AllOff
<1>2. NoScan \in ScanState
  BY StorageAssumption DEF NoScan, ScanState
<1>3. capture' \in [Lane -> [Camera -> CaptureState]]
  BY <1>1 DEF CaptureState
<1>4. OneAnnouncer'
  BY <1>1 DEF OneAnnouncer, Announces, Announced, NoScan
<1>5. PassCondemns' /\ PassRemembers'
  BY <1>1 DEF PassCondemns, PassRemembers, Nothing
<1>. QED
  BY <1>1, <1>2, <1>3, <1>4, <1>5

LEMMA CrashInv == Inv /\ Crash => Inv'
<1> SUFFICES ASSUME Inv, Crash PROVE Inv'
  OBVIOUS
<1> USE DEF Inv
<1>1. PICK cut \in SUBSET UNION {Recording(l) : l \in Lane} :
        /\ disk' = disk \union {<<c, now>> : c \in cut}
        /\ torn' = torn \union {<<c, now>> : c \in cut}
  BY DEF Crash
<1>2. /\ now < MaxNow /\ now' = now + 1 /\ restarts' \in 0 .. MaxRestarts
      /\ now' \in 0 .. MaxNow /\ MemoryIsLost /\ UNCHANGED <<row, faults>>
  BY StorageAssumption DEF Crash, TypeOK
<1>3. /\ disk \subseteq disk' /\ disk' \subseteq Segment /\ torn' \subseteq Segment
      /\ \A s \in disk' \ disk : StartOf(s) = now
  <2>1. \A c \in cut : c \in Camera
    BY DEF Recording
  <2>. QED
    BY <1>1, <1>2, <2>1, NowIsASegment DEF TypeOK
<1>4. TypeOK'
  <2>1. /\ pass' \in PassState /\ snapshot' \in [Segment -> RowClass] /\ 0 \in 0 .. MaxNow
        /\ stranded' \subseteq Segment
    BY <1>2, MemoryLossFacts, StorageAssumption DEF TypeOK, PassState, Nothing, RowClass
  <2>. QED
    BY <1>2, <1>3, <2>1, MemoryLossFacts DEF TypeOK
<1>5. PastOnly'
  <2>1. now \in Nat
    BY StorageAssumption DEF TypeOK
  <2>2. \A s \in disk' : StartOf(s) < now'
    BY <1>2, <1>3, <2>1, SegmentFields DEF PastOnly, TypeOK
  <2>3. \A l \in Lane : Announced(l)' = {}
    BY <1>2, MemoryLossFacts DEF Announced, NoScan
  <2>4. \A s \in Segment : row'[s] # "none" => StartOf(s) < now'
    BY <1>2, <2>1, SegmentFields DEF PastOnly
  <2>5. \A s \in Segment : snapshot'[s] = "none"
    BY <1>2, MemoryLossFacts DEF Nothing
  <2>. QED
    BY <2>2, <2>3, <2>4, <2>5 DEF PastOnly
<1>6. RowsHaveFiles'
  BY <1>2, <1>3, MemoryLossFacts DEF RowsHaveFiles, Rows
<1>. QED
  BY <1>2, <1>4, <1>5, <1>6, MemoryLossFacts

\* What StopRecorders drains had no row before, but for what is contested, and no
\* other lane has it to announce.
LEMMA DrainFacts ==
  ASSUME Inv, StopRecorders
  PROVE  /\ now < MaxNow /\ now' = now + 1 /\ now' \in 0 .. MaxNow
         /\ restarts' \in 0 .. MaxRestarts
         /\ UNCHANGED <<torn, faults>>
         /\ disk \subseteq disk' /\ disk' \subseteq Segment
         /\ \A s \in disk' \ disk : StartOf(s) = now
         /\ row' \in [Segment -> RowClass]
         /\ \A s \in Segment :
              \/ row'[s] = row[s]
              \/ /\ s \in disk' /\ row'[s] = "continuous"
                 /\ \/ s \in heard[lane]
                    \/ StartOf(s) = now
         /\ \A s \in Segment : row'[s] = row[s] \/ row[s] = "none" \/ s \in contested
<1> USE DEF Inv
<1>1. PICK last \in SUBSET Recording(lane) :
        /\ disk' = disk \union {<<c, now>> : c \in last}
        /\ row' = [s \in Segment |->
                     IF s \in (heard[lane] \union {<<c, now>> : c \in last}) /\ s \in disk'
                       THEN "continuous" ELSE row[s]]
  BY DEF StopRecorders
<1>2. /\ now < MaxNow /\ now' = now + 1 /\ now' \in 0 .. MaxNow
      /\ restarts' \in 0 .. MaxRestarts /\ UNCHANGED <<torn, faults>>
  BY StorageAssumption DEF StopRecorders, TypeOK
<1>3. \A c \in last : <<c, now>> \in Segment /\ StartOf(<<c, now>>) = now
  BY <1>2, NowIsASegment DEF Recording
<1>4. /\ disk \subseteq disk' /\ disk' \subseteq Segment
      /\ \A s \in disk' \ disk : StartOf(s) = now
  BY <1>1, <1>3 DEF TypeOK
<1>5. row' \in [Segment -> RowClass]
  BY <1>1 DEF TypeOK, RowClass, SegmentClass
<1>6. ASSUME NEW s \in Segment
      PROVE  \/ row'[s] = row[s]
             \/ /\ s \in disk' /\ row'[s] = "continuous"
                /\ s \in heard[lane] \/ StartOf(s) = now
  BY <1>1, <1>3
<1>7. ASSUME NEW s \in Segment, row'[s] # row[s]
      PROVE  row[s] = "none" \/ s \in contested
  <2>1. CASE s \in heard[lane]
    BY <2>1 DEF TypeOK, OneAnnouncer, Announced
  <2>2. CASE StartOf(s) = now
    BY <2>2, <1>2 DEF PastOnly, TypeOK
  <2>. QED
    BY <1>6, <1>7, <2>1, <2>2
<1>. QED
  BY <1>2, <1>4, <1>5, <1>6, <1>7

LEMMA ShutdownInv == Inv /\ Shutdown => Inv'
<1> SUFFICES ASSUME Inv, Shutdown PROVE Inv'
  OBVIOUS
<1> USE DEF Inv
<1>1. StopRecorders /\ MemoryIsLost
  BY DEF Shutdown
<1>2. TypeOK'
  <2>1. /\ pass' \in PassState /\ snapshot' \in [Segment -> RowClass] /\ 0 \in 0 .. MaxNow
        /\ stranded' \subseteq Segment
    BY <1>1, MemoryLossFacts, StorageAssumption DEF TypeOK, PassState, Nothing, RowClass
  <2>2. now' \in 0 .. MaxNow /\ restarts' \in 0 .. MaxRestarts /\ UNCHANGED <<torn, faults>>
        /\ disk' \subseteq Segment /\ row' \in [Segment -> RowClass]
    BY <1>1, DrainFacts
  <2>. QED
    BY <1>1, <2>1, <2>2, MemoryLossFacts DEF TypeOK
<1>3. PastOnly'
  <2>1. now \in Nat
    BY StorageAssumption DEF TypeOK
  <2>2. \A s \in disk' : StartOf(s) < now'
    BY <1>1, <2>1, DrainFacts, SegmentFields DEF PastOnly, TypeOK
  <2>3. \A l \in Lane : Announced(l)' = {}
    BY <1>1, MemoryLossFacts DEF Announced, NoScan
  <2>4. \A s \in Segment : row'[s] # "none" => StartOf(s) < now'
    BY <1>1, <2>1, <2>2, DrainFacts, SegmentFields DEF PastOnly
  <2>5. \A s \in Segment : snapshot'[s] = "none"
    BY <1>1, MemoryLossFacts DEF Nothing
  <2>. QED
    BY <2>2, <2>3, <2>4, <2>5 DEF PastOnly
<1>4. RowsHaveFiles'
  BY <1>1, DrainFacts, MemoryLossFacts DEF RowsHaveFiles, Rows
<1>. QED
  BY <1>1, <1>2, <1>3, <1>4, MemoryLossFacts

LEMMA ReloadInv == Inv /\ Reload => Inv'
<1> SUFFICES ASSUME Inv, Reload PROVE Inv'
  OBVIOUS
<1> USE DEF Inv
<1> DEFINE stopped == [capture EXCEPT ![lane] =
                         [c \in Camera |-> IF @[c] = "recording" THEN "off" ELSE @[c]]]
<1>1. /\ StopRecorders /\ heard' = [heard EXCEPT ![lane] = {}]
      /\ UNCHANGED <<scanVars, passVars, stranded>>
  BY DEF Reload
<1>2. PICK next \in Lane :
        /\ \A c \in Camera : stopped[next][c] = "off"
        /\ lane' = next /\ capture' = OnLane(next, "waiting", stopped)
  BY DEF Reload
<1>0. lane \in Lane
  BY DEF TypeOK
<1>3. \A m \in Lane, c \in Camera :
        stopped[m][c] = IF m = lane /\ capture[m][c] = "recording" THEN "off" ELSE capture[m][c]
  BY <1>0 DEF TypeOK
<1> HIDE DEF stopped
<1>4. \A m \in Lane, c \in Camera :
        capture'[m][c] = IF m = next THEN "waiting" ELSE stopped[m][c]
  BY <1>2 DEF OnLane
<1>5. capture' \in [Lane -> [Camera -> CaptureState]]
  <2>1. stopped \in [Lane -> [Camera -> CaptureState]]
    BY <1>0 DEF stopped, TypeOK, CaptureState
  <2>. QED
    BY <1>2, <2>1 DEF OnLane, CaptureState
<1>6. TypeOK'
  <2>1. heard' \in [Lane -> SUBSET Segment]
    BY <1>1 DEF TypeOK
  <2>2. now' \in 0 .. MaxNow /\ restarts' \in 0 .. MaxRestarts /\ UNCHANGED <<torn, faults>>
        /\ disk' \subseteq Segment /\ row' \in [Segment -> RowClass]
    BY <1>1, DrainFacts
  <2>. QED
    BY <1>1, <1>2, <1>5, <2>1, <2>2 DEF TypeOK, scanVars, passVars, measureVars
<1>7. /\ \A m \in Lane : heard'[m] = IF m = lane THEN {} ELSE heard[m]
      /\ \A m \in Lane : Announced(m)' \subseteq Announced(m)
  <2>1. \A m \in Lane : heard'[m] = IF m = lane THEN {} ELSE heard[m]
    BY <1>1 DEF TypeOK
  <2>. QED
    BY <1>1, <2>1 DEF Announced, scanVars
<1>8. PastOnly'
  <2>1. now \in Nat /\ now' = now + 1
    BY <1>1, DrainFacts, StorageAssumption DEF TypeOK
  <2>2. \A s \in disk' : StartOf(s) < now'
    BY <1>1, <2>1, DrainFacts, SegmentFields DEF PastOnly, TypeOK
  <2>3. \A l \in Lane : \A s \in Announced(l)' : StartOf(s) < now'
    BY <1>7, <2>1, AnnouncedAreSegments, SegmentFields DEF PastOnly
  <2>4. \A s \in Segment : row'[s] # "none" => StartOf(s) < now'
    BY <1>1, <2>1, <2>2, DrainFacts, SegmentFields DEF PastOnly
  <2>5. \A s \in Segment : snapshot'[s] # "none" => StartOf(s) < now'
    BY <1>1, <2>1, SegmentFields DEF PastOnly, passVars
  <2>. QED
    BY <2>2, <2>3, <2>4, <2>5 DEF PastOnly
<1>9. OneAnnouncer'
  <2>1. \A m \in Lane, c \in Camera :
          \/ capture'[m][c] = capture[m][c]
          \/ m = next /\ capture[m][c] \notin {"recording", "scanning"}
          \/ m = lane /\ capture[m][c] = "recording"
    BY <1>2, <1>3, <1>4
  <2>2. ASSUME NEW m \in Lane, NEW s \in heard'[m]
        PROVE  s \in heard[m] /\ capture'[m][CameraOf(s)] = capture[m][CameraOf(s)]
    <3>1. s \in heard[m] /\ m # lane /\ s \in Segment
      BY <1>7, <2>2, AnnouncedAreSegments
    <3>2. capture[m][CameraOf(s)] = "recording"
      BY <3>1 DEF OneAnnouncer, Announces
    <3>. QED
      BY <2>1, <3>1, <3>2, SegmentFields
  <2>3. ASSUME NEW m \in Lane, NEW s \in scan[m].todo
        PROVE  capture'[m][CameraOf(s)] = capture[m][CameraOf(s)]
    <3>1. s \in Segment /\ capture[m][CameraOf(s)] = "scanning"
      BY <2>3, AnnouncedAreSegments DEF OneAnnouncer, Announces
    <3>. QED
      BY <2>1, <3>1, SegmentFields
  <2>4. ASSUME NEW m \in Lane, NEW s \in Announced(m)' \ contested PROVE row'[s] = "none"
    <3>1. s \in Announced(m) /\ s \in Segment
      BY <1>7, <2>4, AnnouncedAreSegments
    <3>2. row[s] = "none" /\ \A k \in Lane \ {m} : s \notin Announced(k)
      BY <2>4, <3>1 DEF OneAnnouncer
    <3>3. s \notin heard[lane]
      <4>1. CASE m = lane
        BY <1>0, <1>1, <1>7, <2>4, <4>1, HeardIsNotScanned DEF Announced, scanVars
      <4>2. CASE m # lane
        BY <1>0, <3>2, <4>2 DEF Announced
      <4>. QED
        BY <4>1, <4>2
    <3>4. StartOf(s) # now
      BY <3>1, SegmentFields DEF PastOnly
    <3>. QED
      BY <1>1, <3>1, <3>2, <3>3, <3>4, DrainFacts
  <2>5. ASSUME NEW m \in Lane, scan[m].read, NEW s \in scan[m].todo, NextOrphan(m, s)
        PROVE  s \in disk' \union contested
    BY <1>1, <2>5, DrainFacts DEF OneAnnouncer, Announces
  <2>6. scan' = scan /\ contested' = contested
        /\ \A m \in Lane : \A s \in scan[m].todo : NextOrphan(m, s)' = NextOrphan(m, s)
    BY <1>1 DEF scanVars, NextOrphan
  <2>. QED
    BY <2>2, <2>3, <2>4, <2>5, <2>6, AnnouncersStay
<1>10. PassCondemns'
  <2>1. ASSUME NEW s \in unlinked \union deleted PROVE s \notin disk'
    BY <1>1, <2>1, DrainFacts, SegmentFields DEF PassCondemns, PastOnly, TypeOK
  <2>. QED
    BY <1>1, <2>1 DEF PassCondemns, passVars
<1>11. PassRemembers' /\ RowsHaveFiles'
  <2>1. \A s \in Segment : row'[s] # row[s] => row'[s] # "none" /\ s \in disk'
    BY <1>1, DrainFacts
  <2>. QED
    BY <1>1, <2>1, DrainFacts DEF PassRemembers, RowsHaveFiles, Rows, passVars, scanVars
<1>. QED
  BY <1>6, <1>8, <1>9, <1>10, <1>11

LEMMA BootInv == Inv /\ Boot => Inv'
<1> SUFFICES ASSUME Inv, Boot PROVE Inv'
  OBVIOUS
<1> USE DEF Inv
<1>1. /\ \A l \in Lane, c \in Camera : capture[l][c] = "off"
      /\ lane' \in Lane /\ capture' = OnLane(lane', "waiting", AllOff)
      /\ UNCHANGED <<clockVars, fileVars, row, heard, scanVars, passVars, stranded, faults>>
  BY DEF Boot, Running
<1>2. \A l \in Lane : heard[l] = {} /\ scan[l].todo = {}
  BY <1>1, SilentLane
<1>3. TypeOK'
  BY <1>1 DEF TypeOK, clockVars, fileVars, scanVars, passVars, measureVars, CaptureState, OnLane, AllOff
<1>4. OneAnnouncer'
  BY <1>1, <1>2 DEF OneAnnouncer, Announces, Announced, scanVars
<1>5. PastOnly' /\ PassCondemns' /\ PassRemembers' /\ RowsHaveFiles'
  BY <1>1 DEF PastOnly, PassCondemns, PassRemembers, RowsHaveFiles, Rows, Announced,
              clockVars, fileVars, scanVars, passVars
<1>. QED
  BY <1>3, <1>4, <1>5

LEMMA StutterInv == Inv /\ UNCHANGED vars => Inv'
<1> SUFFICES ASSUME Inv, UNCHANGED vars PROVE Inv'
  OBVIOUS
<1>1. OneAnnouncer'
  BY LanesStill DEF vars, fileVars, captureVars, scanVars
<1>. QED
  BY <1>1 DEF Inv, TypeOK, PastOnly, PassCondemns, PassRemembers, RowsHaveFiles, Rows, Announced,
       vars, clockVars, fileVars, captureVars, scanVars, passVars, measureVars
-----------------------------------------------------------------------------
LEMMA NextInv == Inv /\ [Next]_vars => Inv'
<1> SUFFICES ASSUME Inv, [Next]_vars PROVE Inv'
  OBVIOUS
<1>1. CASE Tick
  BY <1>1, TickInv
<1>2. ASSUME NEW l \in Lane, NEW s \in Segment, Index(l, s) \/ IndexFails(l, s) PROVE Inv'
  BY <1>2, IndexInv
<1>3. CASE Scan
  BY <1>3, ScanCameraInv, ScanFileInv DEF Scan, JudgesFile
<1>4. CASE Pass
  BY <1>4, PassStartInv, PassExpireInv, PassMeasureInv, PassPressureInv, PassEndsInv,
     PassDeleteRowsInv DEF Pass
<1>5. CASE Reclassify
  BY <1>5, ReclassInv DEF Reclassify, CloseEvent, Star, Unstar, SegmentClass
<1>6. CASE Crash \/ Shutdown \/ Reload \/ Boot
  BY <1>6, CrashInv, ShutdownInv, ReloadInv, BootInv
<1>7. CASE UNCHANGED vars
  BY <1>7, StutterInv
<1>. QED
  BY <1>1, <1>2, <1>3, <1>4, <1>5, <1>6, <1>7 DEF Next

LEMMA InvHolds == Spec => []Inv
BY InitInv, NextInv, PTL DEF Spec

-----------------------------------------------------------------------------
(* Which parts of the state the groups of actions move.                    *)

LEMMA ScanChanges ==
  ASSUME Scan
  PROVE  /\ UNCHANGED <<clockVars, lane, heard, passVars, stranded>>
         /\ UNCHANGED row \/ \E l \in Lane, s \in Segment : ScanAdopt(l, s)
         /\ UNCHANGED disk \/ \E l \in Lane, s \in Segment : ScanRemove(l, s)
         /\ UNCHANGED capture \/ \E l \in Lane, c \in Camera : ScanStart(l, c) \/ StartRecorder(l, c)
<1>1. ASSUME NEW l \in Lane, NEW c \in Camera, ScanStart(l, c) \/ StartRecorder(l, c)
      PROVE  UNCHANGED <<clockVars, lane, heard, passVars, stranded, row, disk>>
  BY <1>1 DEF ScanStart, StartRecorder, fileVars
<1>2. ASSUME NEW l \in Lane, NEW c \in Camera, ScanFails(l, c)
      PROVE  UNCHANGED <<clockVars, lane, heard, passVars, stranded, row, disk, capture>>
  BY <1>2 DEF ScanFails, fileVars, captureVars
<1>3. ASSUME NEW l \in Lane, NEW s \in Segment,
             ScanSkip(l, s) \/ ScanRemoveFails(l, s) \/ ScanProbe(l, s)
      PROVE  UNCHANGED <<clockVars, lane, heard, passVars, stranded, row, disk, capture>>
  BY <1>3 DEF ScanSkip, ScanRemoveFails, ScanProbe, fileVars, captureVars
<1>4. ASSUME NEW l \in Lane, NEW s \in Segment, ScanRemove(l, s)
      PROVE  UNCHANGED <<clockVars, lane, heard, passVars, stranded, row, capture>>
  BY <1>4 DEF ScanRemove, captureVars
<1>5. ASSUME NEW l \in Lane, NEW s \in Segment, ScanAdopt(l, s)
      PROVE  UNCHANGED <<clockVars, lane, heard, passVars, stranded, disk, capture>>
  BY <1>5 DEF ScanAdopt, fileVars, captureVars
<1> QED BY <1>1, <1>2, <1>3, <1>4, <1>5 DEF Scan

LEMMA PassChanges ==
  ASSUME Pass
  PROVE  /\ UNCHANGED <<clockVars, captureVars, scanVars>>
         /\ UNCHANGED row \/ PassDeleteRows
         /\ disk' \subseteq disk
         /\ UNCHANGED disk \/ PassPressure \/ \E c \in Camera : PassExpire(c)
<1>1. ASSUME NEW c \in Camera, PassExpire(c)
      PROVE  UNCHANGED <<clockVars, captureVars, scanVars, row>> /\ disk' \subseteq disk
  BY <1>1 DEF PassExpire, Unlink
<1>2. CASE PassPressure
  BY <1>2 DEF PassPressure, Unlink
<1>3. CASE JanitorStart \/ PassStart \/ PassMeasure \/ PassWithoutPressure \/ PassAborts
  BY <1>3 DEF JanitorStart, PassStart, PassMeasure, PassWithoutPressure, PassAborts, fileVars
<1>4. CASE PassDeleteRows
  BY <1>4 DEF PassDeleteRows, fileVars
<1> QED BY <1>1, <1>2, <1>3, <1>4 DEF Pass

LEMMA ReclassChanges ==
  ASSUME Reclassify
  PROVE  UNCHANGED <<clockVars, fileVars, captureVars, scanVars, passVars>>
BY DEF Reclassify, CloseEvent, Star, Unstar, Reclass

LEMMA IndexChanges ==
  ASSUME NEW l \in Lane, NEW s \in Segment, Index(l, s) \/ IndexFails(l, s)
  PROVE  UNCHANGED <<clockVars, fileVars, capture, scanVars, passVars>>
BY DEF Index, IndexFails

-----------------------------------------------------------------------------
\* Every reachable state of the store is well typed.
THEOREM StorageTypeOK == Spec => []TypeOK
<1>1. Inv => TypeOK
  BY DEF Inv
<1>. QED
  BY <1>1, InvHolds, PTL

\* The index never promises footage that is gone, except for files whose row
\* deletion is due or was cut off and for those that two starts announced:
\* janitor, scans, recorders, class changes, crashes, shutdowns and reloads, one
\* over the other, in any order.
THEOREM IndexIsHonest == Spec => []RowsHaveFiles
<1>1. Inv => RowsHaveFiles
  BY DEF Inv
<1>. QED
  BY <1>1, InvHolds, PTL

\* What a pass deletes, it knows; what a scan removes, it does not know.
LEMMA StepSparesEvidence ==
  ASSUME Inv, [Next]_vars, NEW s \in disk \ (disk' \union contested)
  PROVE  /\ snapshot[s] # "favorite"
         /\ snapshot[s] = "event" =>
              /\ CameraLimits[CameraOf(s)]["event"] # Forever
              /\ passAt - EndOf(s) > CameraLimits[CameraOf(s)]["event"]
<1> USE DEF Inv
<1>1. ASSUME NEW l \in Lane, NEW t \in Segment, ScanRemove(l, t)
      PROVE  snapshot[s] = "none"
  <2>1. s = t /\ s \in Announced(l)
    BY <1>1 DEF ScanRemove, Judge, NextOrphan, Announced
  <2>. QED
    BY <2>1, KnownToThePass
<1>2. ASSUME NEW c \in Camera, PassExpire(c)
      PROVE  s \in ExpiryPlan(c)
  BY <1>2 DEF PassExpire, Unlink
<1>3. ASSUME PassPressure
      PROVE  s \in PressurePlan
  BY <1>3 DEF PassPressure, Unlink
<1>4. \/ \E l \in Lane, t \in Segment : ScanRemove(l, t)
      \/ \E c \in Camera : PassExpire(c)
      \/ PassPressure
  <2>1. disk' # disk /\ ~(disk \subseteq disk')
    OBVIOUS
  <2>2. CASE Tick \/ Crash \/ Boot \/ UNCHANGED vars
    BY <2>1, <2>2 DEF Tick, Crash, Boot, vars, fileVars
  <2>3. CASE Shutdown \/ Reload
    BY <2>1, <2>3, DrainFacts DEF Shutdown, Reload
  <2>4. CASE Scan
    BY <2>1, <2>4, ScanChanges
  <2>5. CASE Pass
    BY <2>1, <2>5, PassChanges
  <2>6. CASE Reclassify
    BY <2>1, <2>6, ReclassChanges DEF fileVars
  <2>7. ASSUME NEW l \in Lane, NEW t \in Segment, Index(l, t) \/ IndexFails(l, t) PROVE FALSE
    BY <2>1, <2>7, IndexChanges DEF fileVars
  <2>. QED
    BY <2>2, <2>3, <2>4, <2>5, <2>6, <2>7 DEF Next
<1>. QED
  BY <1>1, <1>2, <1>3, <1>4, ExpiryPlanCondemns, PressurePlanCondemns
     DEF PressureDeletable, SegmentClass

\* "Event (within retention) and favorite segments" survive every pass that
\* saw them as such, whoever else runs meanwhile, for every policy; what two
\* overlapping starts judge at once is not promised.
THEOREM EvidenceSpared == Spec => SparesEvidence
<1>1. Inv /\ [Next]_vars =>
        [\A s \in disk \ (disk' \union contested) :
           /\ snapshot[s] # "favorite"
           /\ snapshot[s] = "event" =>
                /\ CameraLimits[CameraOf(s)]["event"] # Forever
                /\ passAt - EndOf(s) > CameraLimits[CameraOf(s)]["event"]]_vars
  BY StepSparesEvidence
<1>. QED
  BY <1>1, InvHolds, PTL DEF Spec, SparesEvidence

\* No re-announcement takes a row lifted to event or favorite back to the
\* continuous schedule, however many reloads overlap, unless one start listed
\* the file as an orphan while another had it to announce.
THEOREM NoReversion == Spec => EvidenceNeverReverts
<1>1. ASSUME Inv, [Next]_vars, NEW s \in Segment \ contested, row[s] \in {"event", "favorite"}
      PROVE  row'[s] \in {"event", "favorite", "none"}
  <2> USE <1>1 DEF Inv
  <2>0. \A l \in Lane : s \notin Announced(l)
    BY DEF OneAnnouncer
  <2>1. ASSUME NEW l \in Lane, NEW t \in Segment, Index(l, t) \/ IndexFails(l, t)
        PROVE  row'[s] = row[s]
    <3>1. t \in Announced(l)
      BY <2>1 DEF Index, IndexFails, Announced
    <3>. QED
      BY <2>0, <2>1, <3>1 DEF Index, IndexFails, Upsert, TypeOK
  <2>2. ASSUME NEW l \in Lane, NEW t \in Segment, ScanAdopt(l, t)
        PROVE  row'[s] = row[s]
    <3>1. t \in Announced(l)
      BY <2>2 DEF ScanAdopt, NextOrphan, Announced
    <3>. QED
      BY <2>0, <2>2, <3>1 DEF ScanAdopt, Upsert, TypeOK
  <2>3. ASSUME Pass
        PROVE  row'[s] \in {row[s], "none"}
    BY <2>3 DEF Pass, JanitorStart, PassStart, PassExpire, PassMeasure, PassPressure,
                PassWithoutPressure, PassDeleteRows, DropRows, PassAborts
  <2>4. ASSUME Reclassify
        PROVE  row'[s] \in {"event", "favorite"}
    BY <2>4 DEF Reclassify, CloseEvent, Star, Unstar, Reclass
  <2>5. ASSUME Shutdown \/ Reload
        PROVE  row'[s] = row[s]
    <3>1. StopRecorders
      BY <2>5 DEF Shutdown, Reload
    <3>. QED
      BY <3>1, DrainFacts
  <2>6. CASE Tick \/ Crash \/ Boot \/ UNCHANGED vars
    BY <2>6 DEF Tick, Crash, Boot, vars
  <2>7. ASSUME Scan PROVE row' = row \/ \E l \in Lane, t \in Segment : ScanAdopt(l, t)
    BY <2>7, ScanChanges
  <2>. QED
    BY <2>1, <2>2, <2>3, <2>4, <2>5, <2>6, <2>7 DEF Next
<1>2. Inv /\ [Next]_vars =>
        [\A s \in Segment \ contested :
           row[s] \in {"event", "favorite"} => row'[s] \in {"event", "favorite", "none"}]_vars
  BY <1>1
<1>. QED
  BY <1>2, InvHolds, PTL DEF Spec, EvidenceNeverReverts

\* A row goes only after its file is gone.
THEOREM FilesGoFirst == Spec => RowsOutliveFiles
<1>1. ASSUME Inv, [Next]_vars, NEW s \in Rows, row'[s] = "none"
      PROVE  s \notin disk'
  <2> USE <1>1 DEF Inv
  <2>0. s \in Segment /\ row[s] # "none"
    BY DEF Rows
  <2>1. CASE PassDeleteRows
    <3>1. s \in unlinked /\ disk' = disk
      BY <2>0, <2>1 DEF PassDeleteRows, DropRows, fileVars
    <3>. QED
      BY <3>1 DEF PassCondemns
  <2>2. ASSUME NEW l \in Lane, NEW t \in Segment,
               Index(l, t) \/ IndexFails(l, t) \/ ScanAdopt(l, t)
        PROVE  FALSE
    <3>1. row' = row \/ row' = [row EXCEPT ![t] = "continuous"]
      BY <2>2 DEF Index, IndexFails, ScanAdopt, Upsert
    <3>. QED
      BY <2>0, <3>1 DEF TypeOK
  <2>3. ASSUME Shutdown \/ Reload
        PROVE  FALSE
    <3>1. StopRecorders
      BY <2>3 DEF Shutdown, Reload
    <3>. QED
      BY <3>1, <2>0, DrainFacts
  <2>4. ASSUME Reclassify
        PROVE  FALSE
    BY <2>0, <2>4 DEF Reclassify, CloseEvent, Star, Unstar, Reclass
  <2>5. ASSUME row' = row
        PROVE  FALSE
    BY <2>0, <2>5
  <2>6. Tick \/ Crash \/ Boot \/ UNCHANGED vars => row' = row
    BY DEF Tick, Crash, Boot, vars
  <2>. QED
    BY <2>1, <2>2, <2>3, <2>4, <2>5, <2>6, ScanChanges, PassChanges DEF Next
<1>2. Inv /\ [Next]_vars => [\A s \in Rows : row'[s] = "none" => s \notin disk']_vars
  BY <1>1
<1>. QED
  BY <1>2, InvHolds, PTL DEF Spec, RowsOutliveFiles
-----------------------------------------------------------------------------
(* The pressure pass.                                                      *)

\* A file as the planner sees it in this pass.
Known(s) == Planned(s, snapshot[s])

\* The files the pressure pass may take, and the rows it hands to the planner.
Candidate == {s \in Segment \ deleted : snapshot[s] \in PressureDeletable}
Pool == Deletable(Listed(Segment \ deleted), NoLimits, passAt)
Wanted == TargetFree - measured

\* What the planner is told of a file.
LEMMA KnownFields ==
  ASSUME NEW s
  PROVE  /\ Known(s).path = s /\ Known(s).camera = CameraOf(s) /\ Known(s).start = StartOf(s)
         /\ Known(s).size = SizeOf[CameraOf(s)] /\ Known(s).klass = snapshot[s]
BY DEF Known, Planned

\* The planner adds up the sizes the files have.
LEMMA KnownWeighed ==
  ASSUME NEW S \in SUBSET Segment
  PROVE  Bytes({Known(s) : s \in S}) = Weigh(BytesOf, S)
<1> DEFINE f == [s \in S |-> Known(s)]
           Image == {f[s] : s \in S}
           v == [p \in Image |-> p.size]
<1>1. Image = {Known(s) : s \in S}
  OBVIOUS
<1>2. IsFiniteSet(S)
  BY FinitelyMany
<1>3. IsFiniteSet(Image)
  <2>1. f \in Surjection(S, Image)
    BY DEF Surjection
  <2> QED BY <1>2, <2>1, FS_Surjection
<1>4. \A s \in S : v[f[s]] = BytesOf[s]
  BY KnownFields DEF BytesOf
<1>5. \A s \in S, t \in S : f[s] = f[t] => s = t
  <2> SUFFICES ASSUME NEW s \in S, NEW t \in S, Known(s) = Known(t) PROVE s = t
    OBVIOUS
  <2> QED BY KnownFields
<1>6. \A p \in Image : v[p] = p.size
  OBVIOUS
<1> HIDE DEF v, f
<1>7. Weigh(v, Image) = Weigh(BytesOf, S)
  BY <1>2, <1>4, <1>5, SegmentSizes, WeighRenamed
<1>8. Bytes(Image) = Weigh(v, Image)
  BY <1>3, <1>6, BytesWeighed
<1> QED BY <1>1, <1>7, <1>8

\* What the pressure plan is made of.
LEMMA PlanIs ==
  ASSUME TypeOK
  PROVE  /\ Footage(Pool) /\ Wanted \in Int
         /\ Pool = {Known(s) : s \in Candidate}
         /\ PressurePlan = {s \in Candidate : Known(s) \in Taken(Pool, Wanted)}
         /\ {Known(s) : s \in PressurePlan} = Taken(Pool, Wanted)
<1> DEFINE L == Listed(Segment \ deleted)
<1>1. Wanted \in Int
  BY StorageAssumption DEF Wanted, TypeOK
<1>2. Expired(L, NoLimits, passAt) = {}
  <2> SUFFICES ASSUME NEW p \in Expired(L, NoLimits, passAt) PROVE FALSE
    OBVIOUS
  <2>1. TimeIsUp(p, NoLimits, passAt) /\ p \in Listed(Segment \ deleted)
    BY DEF Expired
  <2>2. p.klass \in SegmentClass
    BY <2>1 DEF Listed, Planned, TypeOK, RowClass
  <2> QED BY <2>1, <2>2 DEF TimeIsUp, NoLimits
<1>3. Pool = {Known(s) : s \in Candidate}
  <2>1. L = {Known(s) : s \in {t \in Segment \ deleted : snapshot[t] # "none"}}
    BY DEF Listed, Known
  <2>2. Pool = {p \in L : p.klass \in PressureDeletable}
    BY <1>2 DEF Deletable, Pool
  <2> HIDE DEF L
  <2> QED BY <2>1, <2>2, KnownFields DEF Candidate, PressureDeletable
<1>4. Footage(Pool)
  <2>1. IsFiniteSet(Candidate)
    BY FinitelyMany DEF Candidate
  <2> DEFINE f == [s \in Candidate |-> Known(s)]
  <2>2. f \in Surjection(Candidate, Pool)
    BY <1>3 DEF Surjection
  <2>3. IsFiniteSet(Pool)
    BY <2>1, <2>2, FS_Surjection
  <2>4. ASSUME NEW s \in Candidate
        PROVE  Known(s).camera \in Nat /\ Known(s).start \in Nat /\ Known(s).size \in Nat
    <3>1. s \in Segment /\ BytesOf[s] \in Nat /\ BytesOf[s] = SizeOf[CameraOf(s)]
      BY SegmentSizes DEF Candidate, BytesOf
    <3>2. CameraOf(s) \in Nat /\ StartOf(s) \in Nat
      BY <3>1, SegmentFields
    <3> QED BY <3>1, <3>2, KnownFields
  <2> HIDE DEF f
  <2> QED BY <1>3, <2>3, <2>4 DEF Footage
<1>5. StillToFree(L, NoLimits, passAt, Wanted) = Wanted
  <2> HIDE DEF L
  <2> QED BY <1>1, <1>2, NoBytes DEF StillToFree
<1>6. PressurePlan = {p.path : p \in Taken(Pool, Wanted)}
  <2>1. PressurePlan = {p.path : p \in Pressure(L, NoLimits, passAt, Wanted)}
    BY DEF PressurePlan, Wanted
  <2>2. Pressure(L, NoLimits, passAt, Wanted) = Taken(Pool, Wanted)
    BY <1>5, PressureIsTaken DEF Pool
  <2> QED BY <2>1, <2>2
<1>7. PressurePlan = {s \in Candidate : Known(s) \in Taken(Pool, Wanted)}
  <2>1. \A p \in Taken(Pool, Wanted) : p \in Pool
    BY DEF Taken
  <2>2. ASSUME NEW s \in PressurePlan PROVE s \in Candidate /\ Known(s) \in Taken(Pool, Wanted)
    <3>1. PICK p \in Taken(Pool, Wanted) : s = p.path
      BY <1>6
    <3>2. PICK r \in Candidate : p = Known(r)
      BY <1>3, <2>1
    <3> QED BY <3>1, <3>2, KnownFields
  <2>3. ASSUME NEW s \in Candidate, Known(s) \in Taken(Pool, Wanted) PROVE s \in PressurePlan
    <3>1. Known(s).path = s
      BY KnownFields
    <3> QED BY <1>6, <2>3, <3>1
  <2> QED BY <2>2, <2>3
<1>8. {Known(s) : s \in PressurePlan} = Taken(Pool, Wanted)
  <2>1. \A p \in Taken(Pool, Wanted) : p \in Pool
    BY DEF Taken
  <2> QED BY <1>3, <1>7, <2>1
<1> QED BY <1>1, <1>3, <1>4, <1>7, <1>8

\* What happens between the look at the volume and the deletion: files come, and
\* none of those that were there grows.
Older == {s \in disk : StartOf(s) < measuredAt}
Newer == {s \in disk : StartOf(s) >= measuredAt}

Foreseen ==
  pass = "pressure" =>
    measuredAt <= now /\ Weigh(BytesOf, Older) <= DiskBytes - measured

\* Part of the files weighs no more than all of them.
LEMMA PartWeighed ==
  ASSUME NEW S \in SUBSET Segment, NEW T \in SUBSET S
  PROVE  /\ Weigh(BytesOf, S) \in Nat /\ Weigh(BytesOf, T) \in Nat
         /\ Weigh(BytesOf, S \ T) \in Nat
         /\ Weigh(BytesOf, S) = Weigh(BytesOf, T) + Weigh(BytesOf, S \ T)
         /\ Weigh(BytesOf, T) <= Weigh(BytesOf, S)
<1>1. \A U \in SUBSET S : IsFiniteSet(U) /\ \A x \in U : BytesOf[x] \in Nat
  BY FinitelyMany, SegmentSizes
<1>2. \A U \in SUBSET S : Weigh(BytesOf, U) \in Nat
  BY <1>1, WeighNat
<1>3. Weigh(BytesOf, S) = Weigh(BytesOf, T) + Weigh(BytesOf, S \ T)
  BY <1>1, WeighSplits
<1>4. S \in SUBSET S /\ S \ T \in SUBSET S
  OBVIOUS
<1> QED BY <1>2, <1>3, <1>4

\* New files start at the clock of the step that brings them.
LEMMA NewFilesAreNew ==
  ASSUME Inv, [Next]_vars
  PROVE  /\ disk' \subseteq Segment /\ now \in Nat /\ now' \in Nat /\ now <= now'
         /\ \A s \in disk' \ disk : StartOf(s) = now
<1> USE DEF Inv
<1>1. disk' \subseteq Segment /\ now' \in 0 .. MaxNow /\ now \in 0 .. MaxNow
  BY NextInv DEF TypeOK
<1>2. CASE Tick
  <2>1. disk' \ disk \subseteq {<<c, now>> : c \in Camera} /\ now < MaxNow /\ now' = now + 1
    <3>1. \A l \in Lane : Recording(l) \subseteq Camera
      BY DEF Recording
    <3>. QED
      BY <1>2, <3>1 DEF Tick
  <2>2. \A c \in Camera : StartOf(<<c, now>>) = now
    BY DEF StartOf
  <2> QED BY <1>1, <2>1, <2>2
<1>3. CASE Crash
  <2>1. disk' \ disk \subseteq {<<c, now>> : c \in Camera} /\ now' = now + 1
    BY <1>3 DEF Crash, Recording
  <2> QED BY <1>1, <2>1 DEF StartOf
<1>4. CASE Shutdown \/ Reload
  BY <1>1, <1>4, DrainFacts DEF Shutdown, Reload
<1>5. CASE ~(Tick \/ Crash \/ Shutdown \/ Reload)
  <2>1. disk' \subseteq disk /\ now' = now
    <3>1. CASE Scan
      BY <3>1, ScanChanges DEF ScanRemove, clockVars
    <3>2. CASE Pass
      BY <3>2, PassChanges DEF clockVars
    <3>3. CASE Reclassify
      BY <3>3, ReclassChanges DEF fileVars, clockVars
    <3>4. ASSUME NEW l \in Lane, NEW t \in Segment, Index(l, t) \/ IndexFails(l, t)
          PROVE  disk' = disk /\ now' = now
      BY <3>4, IndexChanges DEF fileVars, clockVars
    <3>5. CASE Boot \/ UNCHANGED vars
      BY <3>5 DEF Boot, vars, fileVars, clockVars
    <3> QED BY <1>5, <3>1, <3>2, <3>3, <3>4, <3>5 DEF Next
  <2> QED BY <1>1, <2>1
<1> QED BY <1>2, <1>3, <1>4, <1>5

LEMMA ForeseenStep == ASSUME Inv, Foreseen, [Next]_vars PROVE Foreseen'
<1> SUFFICES ASSUME pass' = "pressure"
             PROVE  measuredAt' <= now' /\ Weigh(BytesOf, Older') <= DiskBytes - measured'
  BY DEF Foreseen, Older
<1> USE DEF Inv
<1>1. CASE PassMeasure
  <2>1. measured' = FreeBytes /\ measuredAt' = now /\ disk' = disk /\ now' = now
    BY <1>1 DEF PassMeasure, fileVars, clockVars
  <2>2. Older' = disk
    BY <2>1 DEF Older, PastOnly
  <2>3. now \in Nat
    BY NewFilesAreNew
  <2> QED BY <2>1, <2>2, <2>3, FreeBytesWeighed, StorageAssumption
<1>2. CASE ~PassMeasure
  <2>1. pass = "pressure" /\ measured' = measured /\ measuredAt' = measuredAt
    <3>1. CASE Pass
      <4>1. CASE JanitorStart \/ PassStart \/ \E c \in Camera : PassExpire(c)
        BY <4>1 DEF JanitorStart, PassStart, PassExpire
      <4>2. CASE PassPressure \/ PassWithoutPressure \/ PassAborts
        BY <4>2 DEF PassPressure, PassWithoutPressure, PassAborts, EndPass
      <4>3. CASE PassDeleteRows
        BY <4>3 DEF PassDeleteRows, EndPass
      <4> QED BY <1>2, <3>1, <4>1, <4>2, <4>3 DEF Pass
    <3>2. CASE Crash \/ Shutdown
      BY <3>2 DEF Crash, Shutdown, MemoryIsLost, EndPass
    <3>3. CASE ~(Pass \/ Crash \/ Shutdown)
      <4>1. UNCHANGED passVars
        <5>1. CASE Scan
          BY <5>1, ScanChanges
        <5>2. CASE Reclassify
          BY <5>2, ReclassChanges
        <5>3. CASE Tick \/ Reload \/ Boot \/ UNCHANGED vars
          BY <5>3 DEF Tick, Reload, Boot, vars
        <5>4. ASSUME NEW l \in Lane, NEW s \in Segment, Index(l, s) \/ IndexFails(l, s)
              PROVE  UNCHANGED passVars
          BY <5>4, IndexChanges
        <5> QED BY <3>3, <5>1, <5>2, <5>3, <5>4 DEF Next
      <4> QED BY <4>1 DEF passVars, measureVars
    <3> QED BY <3>1, <3>2, <3>3
  <2>2. measuredAt <= now /\ Weigh(BytesOf, Older) <= DiskBytes - measured
        /\ measuredAt \in Nat /\ measured \in Int
    BY <2>1, StorageAssumption DEF Foreseen, TypeOK
  <2>3. Older \in SUBSET Segment /\ Older' \in SUBSET Older
    BY <2>1, <2>2, NewFilesAreNew DEF Older, TypeOK
  <2>4. Weigh(BytesOf, Older') <= Weigh(BytesOf, Older)
        /\ Weigh(BytesOf, Older') \in Nat /\ Weigh(BytesOf, Older) \in Nat
    BY <2>3, PartWeighed
  <2>5. measuredAt <= now'
    BY <2>2, NewFilesAreNew
  <2> QED BY <2>1, <2>2, <2>4, <2>5, StorageAssumption
<1> QED BY <1>1, <1>2

LEMMA ForeseenHolds == Spec => []Foreseen
<1>1. Init => Foreseen
  BY DEF Init, Foreseen
<1>2. Inv /\ Foreseen /\ [Next]_vars => Foreseen'
  BY ForeseenStep
<1> QED BY <1>1, <1>2, InvHolds, PTL DEF Spec

\* A step that carries the pressure deletion out and meets no failing call removes
\* exactly the plan.
LEMMA PressureStep ==
  ASSUME Inv, [Next]_vars, pass = "pressure", pass' = "pressureRows", faults' = faults
  PROVE  disk' = disk \ PressurePlan /\ unlinked = {}
<1> USE DEF Inv
<1>1. faults \in Nat /\ unlinked = {}
  BY StorageAssumption DEF TypeOK, PassCondemns
<1>2. PassPressure
  <2>1. pass' # pass
    OBVIOUS
  <2>2. CASE Scan
    BY <2>1, <2>2, ScanChanges DEF passVars
  <2>3. CASE Reclassify
    BY <2>1, <2>3, ReclassChanges DEF passVars
  <2>4. ASSUME NEW l \in Lane, NEW s \in Segment, Index(l, s) \/ IndexFails(l, s) PROVE FALSE
    BY <2>1, <2>4, IndexChanges DEF passVars
  <2>5. CASE Tick \/ Reload \/ Boot \/ UNCHANGED vars
    BY <2>1, <2>5 DEF Tick, Reload, Boot, vars, passVars
  <2>6. CASE Crash \/ Shutdown
    BY <2>6 DEF Crash, Shutdown, MemoryIsLost, EndPass
  <2>7. CASE Pass
    <3>1. ~(JanitorStart \/ PassStart \/ \E c \in Camera : PassExpire(c))
      BY DEF JanitorStart, PassStart, PassExpire
    <3>2. ~(PassMeasure \/ PassWithoutPressure \/ PassDeleteRows)
      BY DEF PassMeasure, PassWithoutPressure, PassDeleteRows
    <3>3. ~PassAborts
      BY DEF PassAborts, EndPass
    <3> QED BY <2>7, <3>1, <3>2, <3>3 DEF Pass
  <2> QED BY <2>2, <2>3, <2>4, <2>5, <2>6, <2>7 DEF Next
<1>3. PICK refused \in SUBSET PressurePlan :
        /\ faults' = IF refused = {} THEN faults ELSE faults + 1
        /\ disk' = disk \ (PressurePlan \ refused)
  BY <1>2 DEF PassPressure, Unlink
<1>4. refused = {}
  BY <1>1, <1>3
<1> QED BY <1>1, <1>3, <1>4

\* In a pass whose unlinks all succeed, no file goes while an older continuous
\* one that the pass saw stays, on whichever cameras they are.
THEOREM PressureIsGlobal == Spec => PressureTakesOldestOfAll
<1>1. ASSUME Inv, [Next]_vars, pass = "pressure", pass' = "pressureRows", faults' = faults,
             NEW gone \in disk \ disk', NEW kept \in disk', snapshot[kept] = "continuous"
      PROVE  StartOf(gone) <= StartOf(kept)
  <2>1. disk' = disk \ PressurePlan
    BY <1>1, PressureStep
  <2>2. gone \in PressurePlan /\ kept \in disk \ PressurePlan
    BY <1>1, <2>1
  <2>3. gone \in Candidate /\ Known(gone) \in Taken(Pool, Wanted)
    BY <1>1, <2>2, PlanIs DEF Inv
  <2>4. kept \in Candidate
    BY <1>1, <2>2 DEF Candidate, PressureDeletable, Inv, TypeOK, PassCondemns
  <2>5. Known(kept) \in Pool \ Taken(Pool, Wanted)
    BY <1>1, <2>2, <2>4, PlanIs DEF Inv
  <2>6. /\ StartOf(gone) \in Nat /\ StartOf(kept) \in Nat
        /\ snapshot[gone] \in {"continuous", "motion"}
    BY <2>3, <2>4, SegmentFields DEF Candidate, PressureDeletable
  <2>7. ~GoesBefore(Known(kept), Known(gone))
    BY <1>1, <2>3, <2>5, PlanIs, TakenFromTheFront DEF Inv
  <2> QED BY <1>1, <2>6, <2>7, KnownFields DEF GoesBefore, ClassIndex
<1>2. Inv /\ [Next]_vars =>
        [pass = "pressure" /\ pass' = "pressureRows" /\ faults' = faults =>
           \A gone \in disk \ disk', kept \in disk' :
             snapshot[kept] = "continuous" => StartOf(gone) <= StartOf(kept)]_vars
  BY <1>1
<1> QED BY <1>2, InvHolds, PTL DEF Spec, PressureTakesOldestOfAll

\* In a pass whose unlinks all succeed and that no row without file misleads,
\* the volume is back at its target but for what was finalized since the pass
\* measured it, or no deletable file the pass saw is left: all that the plan
\* counts is on the disk, once.
THEOREM PressureReachesTarget == Spec => PressureRestoresTarget
<1>1. ASSUME Inv, Foreseen, [Next]_vars,
             pass = "pressure", pass' = "pressureRows", faults' = faults,
             stranded = {}, contested = {},
             NEW left \in disk', snapshot[left] \in PressureDeletable
      PROVE  FreeBytes' + Arrived >= TargetFree
  <2>1. disk' = disk \ PressurePlan /\ unlinked = {}
    BY <1>1, PressureStep
  <2>2. left \in Candidate /\ left \notin PressurePlan
    BY <1>1, <2>1 DEF Candidate, Inv, TypeOK, PassCondemns
  <2>3. PressurePlan \in SUBSET disk
    <3> SUFFICES ASSUME NEW s \in PressurePlan PROVE s \in disk
      OBVIOUS
    <3>1. s \in Candidate
      BY <1>1, PlanIs DEF Inv
    <3>2. s \in Rows
      BY <1>1, <3>1 DEF Candidate, PressureDeletable, Inv, PassRemembers, Rows
    <3> QED BY <1>1, <2>1, <3>2 DEF Inv, RowsHaveFiles
  <2>4. disk \in SUBSET Segment
    BY <1>1 DEF Inv, TypeOK
  <2>5. Weigh(BytesOf, PressurePlan) >= Wanted
    <3>1. Taken(Pool, Wanted) # Pool
      BY <1>1, <2>2, PlanIs DEF Inv
    <3>2. Bytes(Taken(Pool, Wanted)) >= Wanted
      BY <1>1, <3>1, PlanIs, TakenIsEnough DEF Inv
    <3>3. PressurePlan \in SUBSET Segment
      BY <2>3, <2>4
    <3>4. Bytes({Known(s) : s \in PressurePlan}) = Weigh(BytesOf, PressurePlan)
      BY <3>3, KnownWeighed
    <3> QED BY <1>1, <3>2, <3>4, PlanIs DEF Inv
  <2>6. /\ Weigh(BytesOf, disk) = Weigh(BytesOf, PressurePlan) + Weigh(BytesOf, disk \ PressurePlan)
        /\ Weigh(BytesOf, disk) \in Nat /\ Weigh(BytesOf, PressurePlan) \in Nat
        /\ Weigh(BytesOf, disk \ PressurePlan) \in Nat
    BY <2>3, <2>4, PartWeighed
  <2>7. /\ Weigh(BytesOf, disk) = Weigh(BytesOf, Older) + Weigh(BytesOf, Newer)
        /\ Weigh(BytesOf, Older) \in Nat /\ Weigh(BytesOf, Newer) \in Nat
    <3>1. Older \in SUBSET disk /\ Newer = disk \ Older
      <4>1. measuredAt \in Nat /\ \A s \in disk : StartOf(s) \in Nat
        BY <1>1, <2>4, SegmentFields, StorageAssumption DEF Inv, TypeOK
      <4> QED BY <4>1 DEF Older, Newer
    <3> QED BY <2>4, <3>1, PartWeighed
  <2>8. Arrived = Weigh(BytesOf, Newer)
    <3>1. Newer \in SUBSET Segment
      BY <2>4 DEF Newer
    <3>2. IsFiniteSet(Newer)
      BY <3>1, FinitelyMany
    <3>3. MapThenSumSet(LAMBDA s : SizeOf[CameraOf(s)], Newer) = Weigh(BytesOf, Newer)
      BY <3>1, <3>2, DiskWeighed
    <3> QED BY <3>3 DEF Arrived, Newer
  <2>9. FreeBytes' = DiskBytes - Weigh(BytesOf, disk \ PressurePlan)
    <3>1. disk' \in SUBSET Segment /\ IsFiniteSet(disk')
      BY <2>1, <2>4, FinitelyMany
    <3>2. MapThenSumSet(LAMBDA s : SizeOf[CameraOf(s)], disk') = Weigh(BytesOf, disk')
      BY <3>1, DiskWeighed
    <3>3. FreeBytes' = DiskBytes - MapThenSumSet(LAMBDA s : SizeOf[CameraOf(s)], disk')
      BY DEF FreeBytes, MapThenSumSet, MapThenFoldSet
    <3>4. Weigh(BytesOf, disk') = Weigh(BytesOf, disk \ PressurePlan)
      BY <2>1
    <3> QED BY <3>2, <3>3, <3>4
  <2>10. Weigh(BytesOf, Older) <= DiskBytes - measured /\ measured \in Int
    BY <1>1 DEF Foreseen, Inv, TypeOK
  <2> QED BY <2>5, <2>6, <2>7, <2>8, <2>9, <2>10, StorageAssumption DEF Wanted
<1>2. Inv /\ Foreseen /\ [Next]_vars =>
        [(pass = "pressure" /\ pass' = "pressureRows" /\ faults' = faults
          /\ stranded = {} /\ contested = {}) =>
           \/ FreeBytes' + Arrived >= TargetFree
           \/ \A s \in disk' : snapshot[s] \notin PressureDeletable]_vars
  BY <1>1
<1> QED BY <1>2, InvHolds, ForeseenHolds, PTL DEF Spec, PressureRestoresTarget
-----------------------------------------------------------------------------
(* The scan before a recording.                                            *)

\* Cameras of a lane start in their order, one at a time.
InTurn ==
  \A l \in Lane, c, d \in Camera :
    c < d /\ capture[l][c] \in {"waiting", "scanning"} => capture[l][d] = "waiting"

\* While nothing fails, a file without a row was judged too young, came after the
\* scan listed the directory, or waits for its turn.
Attended(l, s) == Young(l, s) \/ s \in scan[l].todo
ScanIsThorough ==
  /\ \A l \in Lane : scan[l].at <= now
  /\ \A l \in Lane, c \in Camera :
       capture[l][c] = "scanning" /\ ~scan[l].fault => \A s \in Orphans(c) : Attended(l, s)

LEMMA CameraRanks == \A c, d \in Camera : c \in Nat /\ (c < d \/ d < c \/ c = d)
<1>1. Camera \subseteq Nat
  BY StorageAssumption
<1> QED BY <1>1

LEMMA OneScan ==
  ASSUME InTurn, NEW l \in Lane, NEW c \in Camera, NEW d \in Camera,
         capture[l][c] = "scanning", capture[l][d] = "scanning"
  PROVE  c = d
<1>1. c < d \/ d < c \/ c = d
  BY CameraRanks
<1> QED BY <1>1 DEF InTurn

\* What begins no scan, brings only new files, takes no row of a file on the disk
\* and strikes no file off a list unjudged, leaves the scans as thorough as they were.
LEMMA ThoroughStays ==
  ASSUME Inv, [Next]_vars, ScanIsThorough,
         \A l \in Lane : scan'[l].at = scan[l].at,
         \A l \in Lane, c \in Camera :
           capture'[l][c] = "scanning" /\ ~scan'[l].fault => capture[l][c] = "scanning" /\ ~scan[l].fault,
         \A s \in disk' \cap disk : row'[s] = "none" => row[s] = "none",
         \A l \in Lane : \A s \in scan[l].todo \ scan'[l].todo :
           s \notin disk' \/ row'[s] # "none" \/ Young(l, s) \/ scan'[l].fault
  PROVE  ScanIsThorough'
<1>1. /\ disk' \subseteq Segment /\ now \in Nat /\ now' \in Nat /\ now <= now'
      /\ \A s \in disk' \ disk : StartOf(s) = now
  BY NewFilesAreNew
<1>2. \A l \in Lane : scan[l].at \in Nat /\ scan[l].at <= now
  BY AnnouncedAreSegments, StorageAssumption DEF Inv, ScanIsThorough
<1>3. \A l \in Lane : scan'[l].at <= now'
  BY <1>1, <1>2
<1>4. ASSUME NEW l \in Lane, NEW c \in Camera, capture'[l][c] = "scanning", ~scan'[l].fault,
             NEW s \in disk', CameraOf(s) = c, row'[s] = "none"
      PROVE  Attended(l, s)'
  <2>1. Young(l, s)' <=> Young(l, s)
    BY DEF Young, EndOf
  <2>2. CASE s \in disk
    <3>1. s \in Orphans(c)
      BY <1>4, <2>2 DEF Orphans
    <3>2. Attended(l, s)
      BY <1>4, <3>1 DEF ScanIsThorough
    <3> QED BY <1>4, <2>1, <3>2 DEF Attended
  <2>3. CASE s \notin disk
    <3>1. StartOf(s) = now /\ s[2] = now
      BY <1>1, <1>4, <2>3 DEF StartOf
    <3>2. scan[l].at - EndOf(s) < MinAge
      BY <1>1, <1>2, <3>1, StorageAssumption DEF EndOf
    <3> QED BY <2>1, <3>2 DEF Attended, Young
  <2> QED BY <2>2, <2>3
<1> QED BY <1>3, <1>4 DEF ScanIsThorough, Orphans

LEMMA ScanStep ==
  ASSUME Inv, InTurn, ScanIsThorough, Scan
  PROVE  InTurn' /\ ScanIsThorough'
<1>0. capture \in [Lane -> [Camera -> CaptureState]] /\ [Next]_vars
  BY DEF Inv, TypeOK, Next
<1>1. ASSUME NEW l \in Lane, NEW c \in Camera, ScanStart(l, c) PROVE InTurn' /\ ScanIsThorough'
  <2>1. /\ capture[l][c] = "waiting"
        /\ \A d \in Camera : d < c => capture[l][d] \notin {"waiting", "scanning"}
        /\ capture' = [capture EXCEPT ![l][c] = "scanning"]
        /\ UNCHANGED <<disk, row, now>>
    BY <1>1 DEF ScanStart, fileVars, clockVars
  <2>2. /\ scan'[l].todo = Orphans(c) /\ scan'[l].at = now
        /\ \A m \in Lane \ {l} : scan'[m] = scan[m]
    BY <1>1 DEF ScanStart, Inv, TypeOK
  <2>3. \A m \in Lane, d \in Camera :
          capture'[m][d] = IF m = l /\ d = c THEN "scanning" ELSE capture[m][d]
    BY <1>0, <2>1
  <2>4. InTurn'
    BY <2>1, <2>3 DEF InTurn
  <2>5. ASSUME NEW d \in Camera, capture'[l][d] = "scanning" PROVE d = c
    <3>1. c < d \/ d < c \/ c = d
      BY CameraRanks
    <3> QED BY <2>1, <2>3, <2>5, <3>1 DEF InTurn
  <2>6. \A m \in Lane : scan'[m].at <= now'
    <3>1. now <= now
      BY NewFilesAreNew, <1>0
    <3> QED BY <2>1, <2>2, <3>1 DEF ScanIsThorough
  <2>7. ASSUME NEW m \in Lane, NEW d \in Camera, capture'[m][d] = "scanning", ~scan'[m].fault,
               NEW s \in Orphans(d)
        PROVE  Attended(m, s)'
    <3>1. CASE m = l
      BY <2>2, <2>5, <2>7, <3>1 DEF Attended
    <3>2. CASE m # l
      <4>1. scan'[m] = scan[m] /\ capture[m][d] = "scanning"
        BY <2>2, <2>3, <2>7, <3>2
      <4> QED BY <2>7, <4>1 DEF ScanIsThorough, Attended, Young
    <3> QED BY <3>1, <3>2
  <2>8. \A d \in Camera : Orphans(d)' = Orphans(d)
    BY <2>1 DEF Orphans
  <2> QED BY <2>4, <2>6, <2>7, <2>8 DEF ScanIsThorough
<1>2. ASSUME NEW l \in Lane, NEW c \in Camera, StartRecorder(l, c) PROVE InTurn' /\ ScanIsThorough'
  <2>1. /\ capture[l][c] = "scanning" /\ capture' = [capture EXCEPT ![l][c] = "recording"]
        /\ UNCHANGED <<disk, row, scan>>
    BY <1>2 DEF StartRecorder, fileVars, scanVars
  <2>2. \A m \in Lane, d \in Camera :
          capture'[m][d] = IF m = l /\ d = c THEN "recording" ELSE capture[m][d]
    BY <1>0, <2>1
  <2>3. InTurn'
    <3>1. ASSUME NEW m \in Lane, NEW d \in Camera, NEW e \in Camera, d < e,
                 capture'[m][d] \in {"waiting", "scanning"}
          PROVE  capture'[m][e] = "waiting"
      <4>1. capture[m][d] \in {"waiting", "scanning"}
        BY <2>2, <3>1
      <4>2. capture[m][e] = "waiting"
        BY <3>1, <4>1 DEF InTurn
      <4> QED BY <2>1, <2>2, <4>2
    <3> QED BY <3>1 DEF InTurn
  <2> QED BY <1>0, <2>1, <2>2, <2>3, ThoroughStays
<1>3. ASSUME NEW l \in Lane, NEW c \in Camera, ScanFails(l, c) PROVE InTurn' /\ ScanIsThorough'
  <2>1. /\ UNCHANGED <<disk, row, capture>>
        /\ scan' = [scan EXCEPT ![l].todo = {}, ![l].read = FALSE, ![l].fault = TRUE]
    BY <1>3 DEF ScanFails, fileVars, captureVars
  <2>2. /\ scan'[l].fault = TRUE /\ scan'[l].at = scan[l].at
        /\ \A m \in Lane \ {l} : scan'[m] = scan[m]
    BY <2>1 DEF Inv, TypeOK, ScanState
  <2>3. \A m \in Lane : scan'[m].at = scan[m].at /\ (~scan'[m].fault => scan'[m] = scan[m])
    BY <2>2
  <2>4. \A m \in Lane : \A s \in scan[m].todo \ scan'[m].todo : scan'[m].fault
    BY <2>3
  <2>5. InTurn'
    BY <2>1 DEF InTurn
  <2> QED BY <1>0, <2>1, <2>3, <2>4, <2>5, ThoroughStays
<1>4. ASSUME NEW l \in Lane, NEW s \in Segment, JudgesFile(l, s)
      PROVE  InTurn' /\ ScanIsThorough'
  <2>1. /\ UNCHANGED capture /\ disk' \subseteq disk
        /\ row' = row \/ row' = [row EXCEPT ![s] = "continuous"]
    BY <1>4 DEF JudgesFile, ScanSkip, ScanRemove, ScanRemoveFails, ScanProbe, ScanAdopt, Upsert,
                captureVars, fileVars
  <2>2. InTurn'
    BY <2>1 DEF InTurn
  <2>3. /\ \A m \in Lane : scan'[m].at = scan[m].at /\ (~scan'[m].fault => ~scan[m].fault)
        /\ \A m \in Lane \ {l} : scan'[m] = scan[m]
        /\ scan[l].todo \ scan'[l].todo \subseteq {s}
        /\ ScanProbe(l, s) => scan'[l].todo = scan[l].todo
    <3>1. scan[l].fault \in BOOLEAN /\ scan'[l].fault \in BOOLEAN
      BY <1>4, JudgedFacts, AnnouncedAreSegments DEF Inv, ScanState
    <3> QED BY <1>4, <3>1, JudgedFacts DEF Inv
  <2>4. \A t \in disk' \cap disk : row'[t] = "none" => row[t] = "none"
    BY <2>1 DEF Inv, TypeOK
  <2>5. s \notin disk' \/ row'[s] # "none" \/ Young(l, s) \/ scan'[l].fault \/ ScanProbe(l, s)
    <3>1. CASE ScanSkip(l, s)
      BY <3>1 DEF ScanSkip, fileVars
    <3>2. CASE ScanRemove(l, s)
      BY <3>2 DEF ScanRemove
    <3>3. CASE ScanRemoveFails(l, s)
      BY <3>3 DEF ScanRemoveFails, Inv, TypeOK, ScanState
    <3>4. CASE ScanAdopt(l, s)
      BY <3>4 DEF ScanAdopt, Upsert, Inv, TypeOK
    <3> QED BY <1>4, <3>1, <3>2, <3>3, <3>4 DEF JudgesFile
  <2>6. \A m \in Lane : \A t \in scan[m].todo \ scan'[m].todo :
          t \notin disk' \/ row'[t] # "none" \/ Young(m, t) \/ scan'[m].fault
    BY <2>3, <2>5
  <2> QED BY <1>0, <2>1, <2>2, <2>3, <2>4, <2>6, ThoroughStays
<1> QED BY <1>1, <1>2, <1>3, <1>4 DEF Scan, JudgesFile

LEMMA ThoroughStep ==
  ASSUME Inv, InTurn, ScanIsThorough, [Next]_vars
  PROVE  InTurn' /\ ScanIsThorough'
<1>1. CASE Tick
  <2>1. UNCHANGED <<row, capture, scan>>
    BY <1>1 DEF Tick, scanVars
  <2> QED BY <2>1, ThoroughStays DEF InTurn
<1>2. ASSUME NEW l \in Lane, NEW s \in Segment, Index(l, s) \/ IndexFails(l, s)
      PROVE  InTurn' /\ ScanIsThorough'
  <2>1. /\ UNCHANGED <<disk, capture, scan>>
        /\ row' = row \/ row' = [row EXCEPT ![s] = "continuous"]
    BY <1>2 DEF Index, IndexFails, Upsert, fileVars, scanVars
  <2>2. \A t \in disk' : row'[t] = "none" => row[t] = "none"
    BY <2>1 DEF Inv, TypeOK
  <2> QED BY <2>1, <2>2, ThoroughStays DEF InTurn
<1>3. CASE Scan
  BY <1>3, ScanStep
<1>4. CASE Pass
  <2>1. UNCHANGED <<capture, scan>>
    BY <1>4 DEF Pass, JanitorStart, PassStart, PassExpire, PassMeasure, PassPressure,
                PassWithoutPressure, PassDeleteRows, PassAborts, captureVars, scanVars
  <2>2. \A s \in disk' \cap disk : row'[s] = "none" => row[s] = "none"
    <3>1. CASE PassDeleteRows
      BY <3>1 DEF PassDeleteRows, DropRows, fileVars, Inv, TypeOK, PassCondemns
    <3>2. ASSUME NEW c \in Camera, PassExpire(c) PROVE UNCHANGED row
      BY <3>2 DEF PassExpire
    <3>3. CASE PassPressure \/ PassMeasure \/ JanitorStart \/ PassStart \/ PassWithoutPressure
               \/ PassAborts
      BY <3>3 DEF PassPressure, PassMeasure, JanitorStart, PassStart, PassWithoutPressure, PassAborts
    <3> QED BY <1>4, <3>1, <3>2, <3>3 DEF Pass
  <2> QED BY <2>1, <2>2, ThoroughStays DEF InTurn
<1>5. CASE Reclassify
  <2>1. PICK c, from, until, klass, onlyFrom :
          Reclass(c, from, until, klass, onlyFrom) /\ klass # "none" /\ "none" \notin onlyFrom
    <3>1. PICK c \in Camera, span \in Spans :
            \/ CloseEvent(c, span[1], span[2]) \/ Star(c, span[1], span[2]) \/ Unstar(c, span[1], span[2])
      BY <1>5 DEF Reclassify
    <3>2. CASE CloseEvent(c, span[1], span[2])
      BY <3>2 DEF CloseEvent
    <3>3. CASE Star(c, span[1], span[2])
      BY <3>3 DEF Star
    <3>4. CASE Unstar(c, span[1], span[2])
      BY <3>4 DEF Unstar
    <3> QED BY <3>1, <3>2, <3>3, <3>4
  <2>2. /\ UNCHANGED <<disk, capture, scan>>
        /\ \A s \in Segment : row'[s] = "none" => row[s] = "none"
    BY <2>1 DEF Reclass, fileVars, captureVars, scanVars
  <2> QED BY <2>2, ThoroughStays DEF InTurn, Inv, TypeOK
<1>6. CASE Crash \/ Shutdown
  <2>1. MemoryIsLost
    BY <1>6 DEF Crash, Shutdown
  <2>2. \A l \in Lane, c \in Camera : capture'[l][c] = "off"
    BY <2>1 DEF MemoryIsLost, AllOff
  <2>3. \A l \in Lane : scan'[l].at = 0
    BY <2>1, MemoryLossFacts DEF NoScan
  <2>4. 0 <= now'
    BY NewFilesAreNew
  <2> QED BY <2>2, <2>3, <2>4 DEF InTurn, ScanIsThorough
<1>7. CASE Reload
  <2>0. capture \in [Lane -> [Camera -> CaptureState]] /\ lane \in Lane
    BY DEF Inv, TypeOK
  <2>1. PICK next \in Lane :
          capture' = OnLane(next, "waiting",
                       [capture EXCEPT ![lane] =
                          [c \in Camera |-> IF @[c] = "recording" THEN "off" ELSE @[c]]])
    BY <1>7 DEF Reload
  <2>2. \A m \in Lane, c \in Camera :
          capture'[m][c] = IF m = next THEN "waiting"
                           ELSE IF m = lane /\ capture[m][c] = "recording" THEN "off"
                           ELSE capture[m][c]
    BY <2>0, <2>1 DEF OnLane
  <2>3. InTurn'
    BY <2>2 DEF InTurn
  <2>4. StopRecorders /\ UNCHANGED scan
    BY <1>7 DEF Reload, scanVars
  <2>5. \A s \in disk' \cap disk : row'[s] = "none" => row[s] = "none"
    BY <2>4, DrainFacts
  <2> QED BY <2>2, <2>3, <2>4, <2>5, ThoroughStays
<1>8. CASE Boot
  <2>1. \A l \in Lane, c \in Camera : capture'[l][c] \in {"waiting", "off"}
        /\ (capture'[l][c] = "waiting" <=> l = lane')
    BY <1>8 DEF Boot, OnLane, AllOff
  <2>2. UNCHANGED <<scan, disk, row>>
    BY <1>8 DEF Boot, scanVars, fileVars
  <2>3. InTurn'
    BY <2>1 DEF InTurn
  <2> QED BY <2>1, <2>2, <2>3, ThoroughStays
<1>9. CASE UNCHANGED vars
  <2>1. UNCHANGED <<disk, row, capture, scan>>
    BY <1>9 DEF vars, fileVars, captureVars, scanVars
  <2> QED BY <2>1, ThoroughStays DEF InTurn
<1> QED BY <1>1, <1>2, <1>3, <1>4, <1>5, <1>6, <1>7, <1>8, <1>9 DEF Next

\* A scan in which no call failed leaves no file without a row but the young ones,
\* whatever the janitor, other starts, events and stars do meanwhile (reconcile.py
\* 88-123, recorder.py 417-451).
THEOREM ScanIsComplete == Spec => ScanLeavesNoOrphan
<1>1. Init => InTurn /\ ScanIsThorough
  <2>1. Init => \A l \in Lane, c, d \in Camera : capture[l][c] = capture[l][d]
                                               /\ capture[l][c] # "scanning"
    BY DEF Init, OnLane, AllOff
  <2>2. Init => \A l \in Lane : scan[l].at = 0 /\ now = 0
    BY DEF Init, NoScan
  <2> QED BY <2>1, <2>2 DEF InTurn, ScanIsThorough
<1> DEFINE Complete ==
      \A l \in Lane, c \in Camera :
        capture[l][c] = "scanning" /\ capture'[l][c] = "recording" /\ ~scan[l].fault =>
          \A s \in Orphans(c) : Young(l, s)
<1>2. Inv /\ InTurn /\ ScanIsThorough /\ [Next]_vars => [Complete]_vars
  <2> SUFFICES ASSUME Inv, InTurn, ScanIsThorough, Next, NEW l \in Lane, NEW c \in Camera,
                      capture[l][c] = "scanning", capture'[l][c] = "recording", ~scan[l].fault
               PROVE  \A s \in Orphans(c) : Young(l, s)
    OBVIOUS
  <2>1. scan[l].todo = {}
    <3>0. capture \in [Lane -> [Camera -> CaptureState]] /\ lane \in Lane
      BY DEF Inv, TypeOK
    <3>1. CASE Tick \/ Pass \/ Reclassify \/ \E m \in Lane, s \in Segment : Index(m, s) \/ IndexFails(m, s)
      <4>1. UNCHANGED capture
        BY <3>1 DEF Tick, Pass, JanitorStart, PassStart, PassExpire, PassMeasure, PassPressure,
             PassWithoutPressure, PassDeleteRows, PassAborts, Reclassify, CloseEvent, Star, Unstar,
             Reclass, Index, IndexFails, captureVars
      <4> QED BY <4>1
    <3>2. CASE Crash \/ Shutdown
      BY <3>2 DEF Crash, Shutdown, MemoryIsLost, AllOff
    <3>3. CASE Boot
      BY <3>3 DEF Boot, OnLane, AllOff
    <3>4. CASE Reload
      <4>1. PICK next \in Lane :
              capture' = OnLane(next, "waiting",
                           [capture EXCEPT ![lane] =
                              [d \in Camera |-> IF @[d] = "recording" THEN "off" ELSE @[d]]])
        BY <3>4 DEF Reload
      <4> QED BY <3>0, <4>1 DEF OnLane
    <3>5. CASE Scan
      <4>1. ASSUME NEW m \in Lane, NEW d \in Camera, ScanStart(m, d) PROVE FALSE
        <5>1. capture[m][d] = "waiting" /\ capture' = [capture EXCEPT ![m][d] = "scanning"]
          BY <4>1 DEF ScanStart
        <5> QED BY <3>0, <5>1
      <4>2. ASSUME NEW m \in Lane, NEW d \in Camera, StartRecorder(m, d) PROVE scan[l].todo = {}
        <5>1. scan[m].todo = {} /\ capture' = [capture EXCEPT ![m][d] = "recording"]
          BY <4>2 DEF StartRecorder
        <5> QED BY <3>0, <5>1
      <4>3. CASE UNCHANGED capture
        BY <4>3
      <4>4. \/ \E m \in Lane, d \in Camera : ScanStart(m, d) \/ StartRecorder(m, d)
            \/ UNCHANGED capture
        BY <3>5, ScanChanges
      <4> QED BY <4>1, <4>2, <4>3, <4>4
    <3> QED BY <3>1, <3>2, <3>3, <3>4, <3>5 DEF Next
  <2> QED BY <2>1 DEF ScanIsThorough, Attended
<1>3. Inv /\ InTurn /\ ScanIsThorough /\ [Next]_vars => (InTurn /\ ScanIsThorough)'
  BY ThoroughStep
<1>4. ScanLeavesNoOrphan <=> [][Complete]_vars
  BY DEF ScanLeavesNoOrphan
<1> QED BY <1>1, <1>2, <1>3, <1>4, InvHolds, PTL DEF Spec
==============================================================================
