---------------------------- MODULE ServicesProofs ----------------------------
(***************************************************************************)
(* What holds of the services around the cameras, for every set of cameras *)
(* and providers, any device and any detections:                           *)
(*   - Runtime: with one camera request at a time the capture chain follows*)
(*     the stored cameras and no camera has two recorders; the invariant   *)
(*     says which parts a stop has still to come to and which a start has  *)
(*     come to;                                                            *)
(*   - ModelStore: detections run on the pinned model; the invariant says  *)
(*     what the loader knows of the file at each place;                    *)
(*   - Onvif and Gateway: a conversation reports what was said in it, and  *)
(*     between two syncs the gateway streams what the last one found; the  *)
(*     invariant follows a sync, what it has gathered is of the cameras it *)
(*     has asked less those left out, the file is what managed tells, and  *)
(*     the gateway serves the file unless a restart is to come or went     *)
(*     unheard;                                                            *)
(*   - Tracker: one thing has one track; a greedy matching exists for any  *)
(*     scores, by the least pair that is left;                             *)
(*   - Services: a behaviour of all of them is, for each, one of its own,  *)
(*     so what is proved of each by itself holds of all of them.           *)
(***************************************************************************)
EXTENDS Services, NotificationProofs, WebProofs

-----------------------------------------------------------------------------
(* The runtime, with one camera request at a time.                         *)

RequestTyped(r) ==
  /\ r = [pc |-> r.pc, does |-> r.does, id |-> r.id, payload |-> r.payload, on |-> r.on,
          merged |-> r.merged]
  /\ r.pc \in CallPlace /\ r.does \in {"create", "update", "delete"}
  /\ r.payload \in Payload \union {"none", "invalid"} /\ r.on \in Generation /\ r.merged \in Cameras

RuntimeTyped ==
  /\ rows \in Stored /\ mode \in {"off", "workers", "degraded"}
  /\ config \in Cameras /\ gatewayFile \in Cameras
  /\ current \in Generation /\ made \in [Generation -> Cameras]
  /\ begun \subseteq Part \X Generation /\ running \subseteq Part \X Generation
  /\ DOMAIN call = Call /\ (\A c \in Call : RequestTyped(call[c]))
  /\ reloadFailed \in BOOLEAN

\* Everything in place for what is stored.
Follows == config = Merged(rows) /\ gatewayFile = config /\ made[current] = config

\* The parts a stop has still to come to, and those a start has come to, at each place.
StillUp(pc) ==
  CASE pc = "pipeline" -> Part
    [] pc = "keepwarm" -> {"keepwarm", "recorder", "mqtt"}
    [] pc = "recorder" -> {"recorder", "mqtt"}
    [] pc = "mqtt" -> {"mqtt"}

UpAgain(pc) ==
  CASE pc \in {"recorder starts", "reconciling"} -> {}
    [] pc = "keepwarm starts" -> {"recorder"}
    [] pc \in {"pipeline starts", "opening"} -> {"recorder", "keepwarm"}
    [] pc = "mqtt starts" -> {"recorder", "keepwarm", "pipeline"}

BegunAgain(pc) ==
  UpAgain(pc) \union (CASE pc = "reconciling" -> {"recorder"} [] pc = "opening" -> {"pipeline"}
                        [] OTHER -> {})

Starts == {"recorder starts", "reconciling", "keepwarm starts", "pipeline starts", "opening",
           "mqtt starts"}

\* With nobody stopping or starting it the chain is whole or gone, and up to date
\* unless a reload failed.
WholeOrGone ==
  begun = running /\ running \in {{}, Part \X {current}} /\ made[current] = config

AtRest == WholeOrGone /\ (~reloadFailed => Follows /\ running = Part \X {current})

\* How far the reload of a request is.
ReloadAt(r) ==
  /\ r.pc \in {"checking", "storing"} => AtRest
  /\ r.pc = "merging" => WholeOrGone
  /\ r.pc \in Part =>
       /\ r.on = current /\ r.merged = config /\ config = Merged(rows)
       /\ begun = running /\ running \subseteq StillUp(r.pc) \X {current}
  /\ r.pc = "syncing" =>
       /\ made[current] = config /\ config = Merged(rows) /\ running = {} /\ begun = {}
  /\ r.pc \in Starts =>
       /\ Follows /\ ~reloadFailed
       /\ running = UpAgain(r.pc) \X {current} /\ begun = BegunAgain(r.pc) \X {current}
       /\ r.pc \in {"reconciling", "opening"} => r.on = current

OneAtATime == \A c, d \in Serving : c = d

RuntimeInv ==
  /\ RuntimeTyped /\ OneAtATime
  /\ mode = "off" => Serving = {}
  /\ mode = "workers" =>
       /\ Serving = {} => AtRest
       /\ \A c \in Serving : ReloadAt(call[c])

LEMMA NoCallIs ==
  /\ RequestTyped(NoCall) /\ NoCall.pc = "none"
  /\ FileCameras \in Cameras /\ "none" \in CallPlace /\ 0 \in Generation
  BY RuntimeAssumption DEF NoCall, RequestTyped, CallPlace, Generation, FileCameras, Cameras

LEMMA MergedIs == ASSUME NEW stored PROVE Merged(stored) \in Cameras
  BY DEF Merged, Cameras

\* The one request that is served goes on, or ends.
LEMMA OneMoves ==
  ASSUME RuntimeInv, NEW c \in Serving, NEW r, RequestTyped(r), call' = [call EXCEPT ![c] = r]
  PROVE  /\ DOMAIN call' = Call /\ \A d \in Call : RequestTyped(call'[d])
         /\ call'[c] = r /\ Serving' = IF r.pc = "none" THEN {} ELSE {c}
<1>1. /\ c \in Call /\ DOMAIN call = Call /\ \A d \in Call : RequestTyped(call[d])
      /\ \A d \in Call \ {c} : call[d].pc = "none"
  BY DEF RuntimeInv, RuntimeTyped, OneAtATime, Serving
<1>2. /\ DOMAIN call' = Call /\ call'[c] = r /\ \A d \in Call \ {c} : call'[d] = call[d]
  BY <1>1
<1>3. Serving' = IF r.pc = "none" THEN {} ELSE {c}
  BY <1>1, <1>2 DEF Serving
<1>4. \A d \in Call : RequestTyped(call'[d])
  BY <1>1, <1>2
<1> QED BY <1>2, <1>3, <1>4

LEMMA GoesStep ==
  ASSUME RuntimeInv, NEW c \in Serving, NEW pc \in CallPlace, Goes(c, pc)
  PROVE  /\ DOMAIN call' = Call /\ \A d \in Call : RequestTyped(call'[d])
         /\ pc = "none" => Serving' = {}
         /\ pc # "none" => /\ Serving' = {c} /\ call'[c].pc = pc
                           /\ call'[c].on = call[c].on /\ call'[c].merged = call[c].merged
<1>1. c \in Call /\ DOMAIN call = Call /\ RequestTyped(call[c])
  BY DEF RuntimeInv, RuntimeTyped, Serving
<1>2. CASE pc = "none"
  BY <1>2, OneMoves, NoCallIs DEF Goes
<1>3. CASE pc # "none"
  <2>1. PICK r : r = [call[c] EXCEPT !.pc = pc]
    OBVIOUS
  <2>2. call' = [call EXCEPT ![c] = r]
    BY <1>3, <2>1 DEF Goes
  <2>3. RequestTyped(r) /\ r.pc = pc /\ r.on = call[c].on /\ r.merged = call[c].merged
    BY <1>1, <2>1 DEF RequestTyped
  <2> QED BY <1>3, <2>2, <2>3, OneMoves
<1> QED BY <1>2, <1>3

LEMMA AwaitsStep ==
  ASSUME RuntimeInv, NEW c \in Serving, NEW pc \in CallPlace \ {"none"}, NEW on \in Generation,
         Awaits(c, pc, on)
  PROVE  /\ DOMAIN call' = Call /\ \A d \in Call : RequestTyped(call'[d])
         /\ Serving' = {c} /\ call'[c].pc = pc /\ call'[c].on = on
         /\ call'[c].merged = call[c].merged
<1>1. c \in Call /\ DOMAIN call = Call /\ RequestTyped(call[c])
  BY DEF RuntimeInv, RuntimeTyped, Serving
<1>2. PICK r : r = [[call[c] EXCEPT !.pc = pc] EXCEPT !.on = on]
  OBVIOUS
<1>3. call' = [call EXCEPT ![c] = r]
  BY <1>1, <1>2 DEF Awaits
<1>4. RequestTyped(r) /\ r.pc = pc /\ r.on = on /\ r.merged = call[c].merged
  BY <1>1, <1>2 DEF RequestTyped
<1> QED BY <1>3, <1>4, OneMoves

LEMMA BootStep == ASSUME RuntimeInv, Boot PROVE RuntimeInv'
<1>1. Serving = {} /\ RuntimeTyped
  BY DEF RuntimeInv, Boot
<1>2. /\ mode' \in {"workers", "degraded"} /\ config' \in {Merged(rows), FileCameras}
      /\ gatewayFile' = config' /\ current' = 0 /\ made' = [g \in Generation |-> config']
      /\ running' = (IF mode' = "workers" THEN Part ELSE {"mqtt", "keepwarm"}) \X {0}
      /\ begun' = running' /\ reloadFailed' = (config' # Merged(rows)) /\ UNCHANGED <<rows, call>>
  BY RuntimeAssumption DEF Boot
<1>3. Serving' = {} /\ config' \in Cameras /\ 0 \in Generation
  BY <1>1, <1>2, NoCallIs, MergedIs DEF Serving
<1>4. RuntimeTyped'
  BY <1>1, <1>2, <1>3 DEF RuntimeTyped, Part
<1>5. mode' = "workers" => AtRest'
  BY <1>2, <1>3 DEF AtRest, WholeOrGone, Follows, Merged
<1> QED BY <1>2, <1>3, <1>4, <1>5 DEF RuntimeInv, OneAtATime

LEMMA EndStep == ASSUME RuntimeInv, ProcessEnds PROVE RuntimeInv'
<1>1. /\ mode' = "off" /\ running' = {} /\ begun' = {} /\ call' = [c \in Call |-> NoCall]
      /\ UNCHANGED <<rows, config, gatewayFile, current, made, reloadFailed>>
  BY DEF ProcessEnds
<1>2. RuntimeTyped'
  BY <1>1, NoCallIs DEF RuntimeInv, RuntimeTyped
<1>3. Serving' = {}
  BY <1>1, NoCallIs DEF Serving
<1> QED BY <1>1, <1>2, <1>3 DEF RuntimeInv, OneAtATime

LEMMA AskStep ==
  ASSUME RuntimeInv, InFlight <= 1, NEW c \in Call, Ask(c)
  PROVE  RuntimeInv'
<1>1. PICK i \in Id, does \in {"create", "update", "delete"}, p \in Payload \union {"none", "invalid"} :
        call' = [call EXCEPT ![c] = [NoCall EXCEPT !.pc = IF does = "delete" THEN "storing" ELSE "checking",
                                                   !.does = does, !.id = i, !.payload = p]]
  BY DEF Ask
<1>2. mode # "off" /\ UNCHANGED <<rows, mode, config, gatewayFile, current, made, begun, running, reloadFailed>>
  BY DEF Ask
<1>3. Serving = {}
  <2>1. Cardinality(Serving) < 1
    <3>1. Cardinality(Serving) < InFlight /\ InFlight \in Nat
      BY RuntimeAssumption DEF Ask
    <3>2. Cardinality(Serving) \in Nat
      <4>1. Serving = {} \/ \E d \in Serving : Serving = {d}
        BY DEF RuntimeInv, OneAtATime
      <4>2. IsFiniteSet(Serving)
        <5>1. CASE Serving = {}
          BY <5>1, FS_EmptySet
        <5>2. ASSUME NEW d, Serving = {d} PROVE IsFiniteSet(Serving)
          BY <5>2, FS_Singleton
        <5> QED BY <4>1, <5>1, <5>2
      <4> QED BY <4>2, FS_CardinalityType
    <3> QED BY <3>1, <3>2
  <2>2. ASSUME NEW d \in Serving PROVE FALSE
    <3>1. Serving = {d}
      BY DEF RuntimeInv, OneAtATime
    <3> QED BY <2>1, <3>1, FS_Singleton
  <2> QED BY <2>2
<1>4. PICK r : r = [NoCall EXCEPT !.pc = IF does = "delete" THEN "storing" ELSE "checking",
                                  !.does = does, !.id = i, !.payload = p]
  OBVIOUS
<1>5. RequestTyped(r) /\ r.pc \in {"checking", "storing"}
  BY <1>4, NoCallIs DEF RequestTyped, CallPlace
<1>6. /\ DOMAIN call = Call /\ (\A d \in Call : RequestTyped(call[d]) /\ call[d].pc = "none")
      /\ RuntimeTyped
  BY <1>3 DEF RuntimeInv, RuntimeTyped, Serving
<1>7. call'[c] = r /\ DOMAIN call' = Call /\ \A d \in Call \ {c} : call'[d] = call[d]
  BY <1>1, <1>4, <1>6
<1>8. Serving' = {c}
  BY <1>5, <1>6, <1>7 DEF Serving
<1>9. RuntimeTyped'
  BY <1>2, <1>5, <1>6, <1>7 DEF RuntimeTyped
<1>10. mode = "workers" => AtRest'
  BY <1>2, <1>3 DEF RuntimeInv, AtRest, WholeOrGone, Follows, Merged
<1>11. mode = "workers" => ReloadAt(call[c])'
  BY <1>5, <1>7, <1>10 DEF ReloadAt, Part, Starts
<1> QED BY <1>2, <1>8, <1>9, <1>11 DEF RuntimeInv, OneAtATime

\* The two ends of a step of the request that is served.
LEMMA RequestEnds ==
  ASSUME RuntimeTyped', Serving' = {}, mode' = "workers" => AtRest'
  PROVE  RuntimeInv'
  BY DEF RuntimeInv, OneAtATime

LEMMA WentOn ==
  ASSUME RuntimeTyped', NEW c \in Call, Serving' = {c}, mode' # "off",
         mode' = "workers" => ReloadAt(call[c])'
  PROVE  RuntimeInv'
  BY DEF RuntimeInv, OneAtATime

LEMMA Served ==
  ASSUME RuntimeInv, NEW c \in Call, call[c].pc # "none"
  PROVE  /\ c \in Serving /\ mode # "off" /\ (mode = "workers" => ReloadAt(call[c]))
         /\ RuntimeTyped /\ RequestTyped(call[c])
  BY DEF RuntimeInv, RuntimeTyped, Serving

LEMMA CheckStep ==
  ASSUME RuntimeInv, NEW c \in Call, Check(c)
  PROVE  RuntimeInv'
<1>1. /\ call[c].pc = "checking" /\ (Goes(c, "none") \/ Goes(c, "storing"))
      /\ UNCHANGED <<rows, mode, config, gatewayFile, current, made, begun, running, reloadFailed>>
  BY DEF Check
<1>2. c \in Serving /\ mode # "off" /\ (mode = "workers" => ReloadAt(call[c])) /\ RuntimeTyped
  BY <1>1, Served
<1>3. /\ DOMAIN call' = Call /\ \A d \in Call : RequestTyped(call'[d])
      /\ Serving' = {} \/ (Serving' = {c} /\ call'[c].pc = "storing")
  BY <1>1, <1>2, GoesStep DEF CallPlace
<1>4. RuntimeTyped'
  BY <1>1, <1>2, <1>3 DEF RuntimeTyped
<1>5. mode = "workers" => AtRest'
  BY <1>1, <1>2 DEF ReloadAt, AtRest, WholeOrGone, Follows, Merged
<1>6. CASE Serving' = {}
  BY <1>1, <1>4, <1>5, <1>6, RequestEnds
<1>7. CASE Serving' = {c} /\ call'[c].pc = "storing"
  <2>1. mode = "workers" => ReloadAt(call[c])'
    BY <1>5, <1>7 DEF ReloadAt, Part, Starts
  <2> QED BY <1>1, <1>2, <1>4, <1>7, <2>1, WentOn
<1> QED BY <1>3, <1>6, <1>7

LEMMA StoreStep ==
  ASSUME RuntimeInv, NEW c \in Call, Store(c)
  PROVE  RuntimeInv'
<1> DEFINE idle == call[c].does = "delete" /\ rows[call[c].id] = "none"
<1>1. /\ call[c].pc = "storing" /\ (idle => Goes(c, "none")) /\ (~idle => Goes(c, "merging"))
      /\ rows' = [rows EXCEPT ![call[c].id] = IF call[c].does = "delete" THEN "none" ELSE call[c].payload]
      /\ UNCHANGED <<mode, config, gatewayFile, current, made, begun, running, reloadFailed>>
  BY DEF Store, DropRow, PutRow
<1>2. /\ c \in Serving /\ mode # "off" /\ (mode = "workers" => ReloadAt(call[c])) /\ RuntimeTyped
      /\ RequestTyped(call[c])
  BY <1>1, Served
<1>3. rows' \in Stored /\ (idle => rows' = rows)
  BY <1>1, <1>2 DEF RuntimeTyped, Stored, RequestTyped
<1>4. /\ DOMAIN call' = Call /\ (\A d \in Call : RequestTyped(call'[d]))
      /\ idle => Serving' = {}
      /\ ~idle => Serving' = {c} /\ call'[c].pc = "merging"
  <2> HIDE DEF idle
  <2>1. "none" \in CallPlace /\ "merging" \in CallPlace
    BY DEF CallPlace
  <2>2. CASE idle
    BY <1>1, <1>2, <2>1, <2>2, GoesStep
  <2>3. CASE ~idle
    BY <1>1, <1>2, <2>1, <2>3, GoesStep
  <2> QED BY <2>2, <2>3
<1>5. RuntimeTyped'
  BY <1>1, <1>2, <1>3, <1>4 DEF RuntimeTyped
<1> HIDE DEF idle
<1>6. CASE idle
  <2>1. mode = "workers" => AtRest'
    BY <1>1, <1>2, <1>3, <1>6 DEF ReloadAt, AtRest, WholeOrGone, Follows, Merged
  <2> QED BY <1>1, <1>4, <1>5, <1>6, <2>1, RequestEnds
<1>7. CASE ~idle
  <2>1. mode = "workers" => ReloadAt(call[c])'
    BY <1>1, <1>2, <1>4, <1>7 DEF ReloadAt, AtRest, WholeOrGone, Part, Starts
  <2> QED BY <1>1, <1>2, <1>4, <1>5, <1>7, <2>1, WentOn
<1> QED BY <1>6, <1>7

LEMMA RequestFailsStep ==
  ASSUME RuntimeInv, NEW c \in Call, RequestFails(c)
  PROVE  RuntimeInv'
<1>1. /\ call[c].pc \in {"checking", "storing", "merging"} /\ Goes(c, "none")
      /\ reloadFailed' = (reloadFailed \/ call[c].pc = "merging")
      /\ UNCHANGED <<rows, mode, config, gatewayFile, current, made, begun, running>>
  BY DEF RequestFails
<1>2. c \in Serving /\ mode # "off" /\ (mode = "workers" => ReloadAt(call[c])) /\ RuntimeTyped
  BY <1>1, Served
<1>3. DOMAIN call' = Call /\ (\A d \in Call : RequestTyped(call'[d])) /\ Serving' = {}
  BY <1>1, <1>2, GoesStep DEF CallPlace
<1>4. RuntimeTyped'
  BY <1>1, <1>2, <1>3 DEF RuntimeTyped
<1>5. mode' = "workers" => AtRest'
  <2>1. CASE call[c].pc = "merging"
    BY <1>1, <1>2, <2>1 DEF ReloadAt, AtRest, WholeOrGone
  <2>2. CASE call[c].pc # "merging"
    <3>1. reloadFailed' = reloadFailed
      BY <1>1, <1>2, <2>2 DEF RuntimeTyped
    <3> QED BY <1>1, <1>2, <2>2, <3>1 DEF ReloadAt, AtRest, WholeOrGone, Follows, Merged
  <2> QED BY <2>1, <2>2
<1> QED BY <1>3, <1>4, <1>5, RequestEnds

LEMMA MergeStep ==
  ASSUME RuntimeInv, NEW c \in Call, MergeRows(c)
  PROVE  RuntimeInv'
<1> DEFINE merged == Merged(rows)
<1>1. /\ call[c].pc = "merging" /\ config' = merged
      /\ UNCHANGED <<rows, mode, gatewayFile, begun, running, reloadFailed>>
      /\ mode = "workers" =>
           /\ call' = [call EXCEPT ![c].pc = "pipeline", ![c].on = current, ![c].merged = merged]
           /\ UNCHANGED <<current, made>>
      /\ mode # "workers" => Rebuild(merged) /\ Goes(c, "syncing")
  BY DEF MergeRows
<1>2. /\ c \in Serving /\ mode # "off" /\ (mode = "workers" => ReloadAt(call[c])) /\ RuntimeTyped
      /\ RequestTyped(call[c]) /\ merged \in Cameras
  BY <1>1, Served, MergedIs
<1>3. merged' = merged
  BY <1>1 DEF Merged
<1> HIDE DEF merged
<1>4. CASE mode = "workers"
  <2>1. PICK r : r = [call[c] EXCEPT !.pc = "pipeline", !.on = current, !.merged = merged]
    OBVIOUS
  <2>2. RequestTyped(r) /\ r.pc = "pipeline" /\ r.on = current /\ r.merged = merged
    BY <1>2, <2>1 DEF RequestTyped, RuntimeTyped, CallPlace, Part
  <2>3. call' = [call EXCEPT ![c] = r]
    BY <1>1, <1>2, <1>4, <2>1 DEF RuntimeTyped
  <2>4. /\ DOMAIN call' = Call /\ (\A d \in Call : RequestTyped(call'[d]))
        /\ call'[c] = r /\ Serving' = {c}
    BY <1>2, <2>2, <2>3, OneMoves
  <2>5. RuntimeTyped'
    BY <1>1, <1>2, <1>4, <2>4 DEF RuntimeTyped
  <2>6. ReloadAt(call[c])'
    <3>1. running \subseteq Part \X {current} /\ begun = running
      BY <1>1, <1>2, <1>4 DEF ReloadAt, WholeOrGone
    <3> QED BY <1>1, <1>2, <1>3, <1>4, <2>2, <2>4, <3>1 DEF ReloadAt, Starts, StillUp, merged
  <2> QED BY <1>1, <1>2, <2>4, <2>5, <2>6, WentOn
<1>5. CASE mode # "workers"
  <2>1. "syncing" \in CallPlace
    BY DEF CallPlace
  <2>2. /\ DOMAIN call' = Call /\ (\A d \in Call : RequestTyped(call'[d])) /\ Serving' = {c}
    BY <1>1, <1>2, <1>5, <2>1, GoesStep
  <2>3. current' \in Generation /\ made' \in [Generation -> Cameras]
    BY <1>1, <1>2, <1>5, RuntimeAssumption DEF Rebuild, RuntimeTyped, Generation
  <2>4. RuntimeTyped'
    BY <1>1, <1>2, <2>2, <2>3 DEF RuntimeTyped
  <2> QED BY <1>1, <1>2, <1>5, <2>2, <2>4, WentOn
<1> QED BY <1>4, <1>5

LEMMA StopStep ==
  ASSUME RuntimeInv, NEW c \in Call, StopPart(c)
  PROVE  RuntimeInv'
<1> DEFINE pc == call[c].pc
           it == <<pc, call[c].on>>
<1>1. /\ pc \in Part /\ running' = running \ {it} /\ begun' = begun \ {it}
      /\ pc = "mqtt" => Rebuild(call[c].merged) /\ Goes(c, "syncing")
      /\ pc # "mqtt" => Awaits(c, AfterStop[pc], current) /\ UNCHANGED <<current, made>>
      /\ UNCHANGED <<rows, mode, config, gatewayFile, reloadFailed>>
  BY DEF StopPart
<1>2. /\ c \in Serving /\ mode # "off" /\ (mode = "workers" => ReloadAt(call[c])) /\ RuntimeTyped
      /\ RequestTyped(call[c])
  BY <1>1, Served DEF Part
<1>3. mode = "workers" =>
        /\ call[c].merged = config /\ config = Merged(rows) /\ begun' = running'
        /\ running' \subseteq (StillUp(pc) \ {pc}) \X {current}
  <2> SUFFICES ASSUME mode = "workers"
               PROVE  /\ call[c].merged = config /\ config = Merged(rows) /\ begun' = running'
                      /\ running' \subseteq (StillUp(pc) \ {pc}) \X {current}
    OBVIOUS
  <2>1. /\ call[c].on = current /\ call[c].merged = config /\ config = Merged(rows)
        /\ begun = running /\ running \subseteq StillUp(pc) \X {current}
    BY <1>1, <1>2 DEF ReloadAt
  <2> HIDE DEF pc
  <2> QED BY <1>1, <2>1
<1>4. Merged(rows)' = Merged(rows)
  BY <1>1 DEF Merged
<1>5. CASE pc # "mqtt"
  <2>1. /\ AfterStop[pc] \in {"keepwarm", "recorder", "mqtt"}
        /\ StillUp(pc) \ {pc} = StillUp(AfterStop[pc])
    BY <1>1, <1>5 DEF Part, AfterStop, StillUp
  <2>2. AfterStop[pc] \in CallPlace \ {"none"} /\ current \in Generation
    BY <1>2, <2>1 DEF CallPlace, Part, RuntimeTyped
  <2>3. PICK next : next = AfterStop[pc]
    OBVIOUS
  <2>4. /\ DOMAIN call' = Call /\ (\A d \in Call : RequestTyped(call'[d])) /\ Serving' = {c}
        /\ call'[c].pc = next /\ call'[c].on = current /\ call'[c].merged = call[c].merged
    BY <1>1, <1>2, <1>5, <2>2, <2>3, AwaitsStep
  <2>5. RuntimeTyped'
    BY <1>1, <1>2, <1>5, <2>4 DEF RuntimeTyped
  <2>6. mode = "workers" => ReloadAt(call[c])'
    <3> HIDE DEF pc
    <3> QED BY <1>1, <1>3, <1>4, <1>5, <2>1, <2>3, <2>4 DEF ReloadAt, Starts, Part
  <2> QED BY <1>1, <1>2, <2>4, <2>5, <2>6, WentOn
<1>6. CASE pc = "mqtt"
  <2>1. "syncing" \in CallPlace
    BY DEF CallPlace
  <2>2. /\ DOMAIN call' = Call /\ (\A d \in Call : RequestTyped(call'[d])) /\ Serving' = {c}
        /\ call'[c].pc = "syncing"
    BY <1>1, <1>2, <1>6, <2>1, GoesStep
  <2>3. /\ current' \in Generation /\ made' \in [Generation -> Cameras]
        /\ made'[current'] = call[c].merged
    BY <1>1, <1>2, <1>6, RuntimeAssumption DEF Rebuild, RuntimeTyped, Generation, RequestTyped
  <2>4. RuntimeTyped'
    BY <1>1, <1>2, <2>2, <2>3 DEF RuntimeTyped
  <2>5. mode = "workers" => running' = {}
    <3>1. StillUp("mqtt") \ {"mqtt"} = {}
      BY DEF StillUp
    <3> QED BY <1>3, <1>6, <3>1
  <2>6. mode = "workers" => ReloadAt(call[c])'
    <3> HIDE DEF pc
    <3> QED BY <1>1, <1>3, <1>4, <2>2, <2>3, <2>5 DEF ReloadAt, Starts, Part
  <2> QED BY <1>1, <1>2, <2>2, <2>4, <2>6, WentOn
<1> QED BY <1>5, <1>6

LEMMA SyncStep ==
  ASSUME RuntimeInv, NEW c \in Call, Sync(c)
  PROVE  RuntimeInv'
<1>1. call[c].pc = "syncing" /\ UNCHANGED <<rows, mode, config, current, made, begun, running>>
  BY DEF Sync
<1>2. /\ c \in Serving /\ mode # "off" /\ (mode = "workers" => ReloadAt(call[c])) /\ RuntimeTyped
  BY <1>1, Served
<1>3. mode = "workers" =>
        made[current] = config /\ config = Merged(rows) /\ running = {} /\ begun = {}
  BY <1>1, <1>2 DEF ReloadAt
<1>4. Merged(rows)' = Merged(rows)
  BY <1>1 DEF Merged
<1>5. "none" \in CallPlace /\ "recorder starts" \in CallPlace
  BY DEF CallPlace
<1>6. CASE gatewayFile' = config /\ reloadFailed' = FALSE /\ mode = "workers" /\ Goes(c, "recorder starts")
  <2>1. /\ DOMAIN call' = Call /\ (\A d \in Call : RequestTyped(call'[d])) /\ Serving' = {c}
        /\ call'[c].pc = "recorder starts"
    BY <1>2, <1>5, <1>6, GoesStep
  <2>2. RuntimeTyped'
    BY <1>1, <1>2, <1>6, <2>1 DEF RuntimeTyped
  <2>3. ReloadAt(call[c])'
    BY <1>1, <1>3, <1>4, <1>6, <2>1 DEF ReloadAt, Follows, Starts, UpAgain, BegunAgain, Part
  <2> QED BY <1>1, <1>2, <2>1, <2>2, <2>3, WentOn
<1>7. CASE gatewayFile' = config /\ reloadFailed' = FALSE /\ mode # "workers" /\ Goes(c, "none")
  <2>1. DOMAIN call' = Call /\ (\A d \in Call : RequestTyped(call'[d])) /\ Serving' = {}
    BY <1>2, <1>5, <1>7, GoesStep
  <2>2. RuntimeTyped'
    BY <1>1, <1>2, <1>7, <2>1 DEF RuntimeTyped
  <2> QED BY <1>1, <1>7, <2>1, <2>2, RequestEnds
<1>8. CASE reloadFailed' = TRUE /\ Goes(c, "none") /\ UNCHANGED gatewayFile
  <2>1. DOMAIN call' = Call /\ (\A d \in Call : RequestTyped(call'[d])) /\ Serving' = {}
    BY <1>2, <1>5, <1>8, GoesStep
  <2>2. RuntimeTyped'
    BY <1>1, <1>2, <1>8, <2>1 DEF RuntimeTyped
  <2>3. mode' = "workers" => AtRest'
    BY <1>1, <1>3, <1>8 DEF AtRest, WholeOrGone
  <2> QED BY <2>1, <2>2, <2>3, RequestEnds
<1> QED BY <1>6, <1>7, <1>8 DEF Sync

\* Of a step that starts: the configuration, the gateway and the generation stay.
LEMMA StartsStep ==
  ASSUME RuntimeInv, NEW c \in Call, call[c].pc \in Starts,
         NEW pc \in Starts,
         UNCHANGED <<rows, mode, config, gatewayFile, current, made, reloadFailed>>,
         running' \subseteq Part \X Generation, begun' \subseteq Part \X Generation,
         mode = "workers" => /\ running' = UpAgain(pc) \X {current}
                             /\ begun' = BegunAgain(pc) \X {current},
         \/ Goes(c, pc) /\ pc \notin {"reconciling", "opening"}
         \/ Awaits(c, pc, current)
  PROVE  RuntimeInv'
<1>1. /\ c \in Serving /\ mode # "off" /\ (mode = "workers" => ReloadAt(call[c])) /\ RuntimeTyped
  BY Served DEF Starts
<1>2. pc \in CallPlace \ {"none"} /\ current \in Generation
  BY <1>1 DEF Starts, CallPlace, RuntimeTyped
<1>3. /\ DOMAIN call' = Call /\ (\A d \in Call : RequestTyped(call'[d])) /\ Serving' = {c}
      /\ call'[c].pc = pc /\ (pc \in {"reconciling", "opening"} => call'[c].on = current)
  BY <1>1, <1>2, GoesStep, AwaitsStep
<1>4. RuntimeTyped'
  BY <1>1, <1>3 DEF RuntimeTyped
<1>5. Follows' = Follows
  BY DEF Follows, Merged
<1>6. mode = "workers" => ReloadAt(call[c])'
  <2>1. pc \notin Part /\ pc \notin {"checking", "storing", "merging", "syncing"}
    BY DEF Starts, Part
  <2>2. mode = "workers" => Follows /\ ~reloadFailed
    BY <1>1 DEF ReloadAt
  <2> QED BY <1>3, <1>5, <2>1, <2>2 DEF ReloadAt
<1> QED BY <1>1, <1>3, <1>4, <1>6, WentOn

\* What a start finds.
LEMMA Starting ==
  ASSUME RuntimeInv, NEW c \in Call, call[c].pc \in Starts
  PROVE  /\ RuntimeTyped /\ current \in Generation /\ call[c].on \in Generation
         /\ mode = "workers" =>
              /\ running = UpAgain(call[c].pc) \X {current}
              /\ begun = BegunAgain(call[c].pc) \X {current}
              /\ call[c].pc \in {"reconciling", "opening"} => call[c].on = current
<1>1. /\ (mode = "workers" => ReloadAt(call[c])) /\ RuntimeTyped /\ RequestTyped(call[c])
  BY Served DEF Starts
<1> QED BY <1>1 DEF ReloadAt, RuntimeTyped, RequestTyped

\* The places around the start of a part that awaits, and what is up at each.
LEMMA PlacesOf ==
  ASSUME NEW part \in {"recorder", "pipeline"}
  PROVE  /\ part \in Part /\ AtStart[part] \in Starts /\ AtWork[part] \in {"reconciling", "opening"}
         /\ AtWork[part] \in Starts /\ AfterStart[part] \in Starts
         /\ AfterStart[part] \notin {"reconciling", "opening"}
         /\ part \notin BegunAgain(AtStart[part])
         /\ UpAgain(AtWork[part]) = UpAgain(AtStart[part])
         /\ BegunAgain(AtWork[part]) = BegunAgain(AtStart[part]) \union {part}
         /\ UpAgain(AfterStart[part]) = UpAgain(AtWork[part]) \union {part}
         /\ BegunAgain(AfterStart[part]) = BegunAgain(AtWork[part])
<1>1. CASE part = "recorder"
  <2>1. /\ AtStart[part] = "recorder starts" /\ AtWork[part] = "reconciling"
        /\ AfterStart[part] = "keepwarm starts"
    BY <1>1 DEF AtStart, AtWork, AfterStart
  <2>2. /\ UpAgain("recorder starts") = {} /\ UpAgain("reconciling") = {}
        /\ UpAgain("keepwarm starts") = {"recorder"}
    BY DEF UpAgain
  <2>3. /\ BegunAgain("recorder starts") = {} /\ BegunAgain("reconciling") = {"recorder"}
        /\ BegunAgain("keepwarm starts") = {"recorder"}
    BY <2>2 DEF BegunAgain
  <2> QED BY <1>1, <2>1, <2>2, <2>3 DEF Part, Starts
<1>2. CASE part = "pipeline"
  <2>1. /\ AtStart[part] = "pipeline starts" /\ AtWork[part] = "opening"
        /\ AfterStart[part] = "mqtt starts"
    BY <1>2 DEF AtStart, AtWork, AfterStart
  <2>2. /\ UpAgain("pipeline starts") = {"recorder", "keepwarm"}
        /\ UpAgain("opening") = {"recorder", "keepwarm"}
        /\ UpAgain("mqtt starts") = {"recorder", "keepwarm", "pipeline"}
    BY DEF UpAgain
  <2>3. /\ BegunAgain("pipeline starts") = {"recorder", "keepwarm"}
        /\ BegunAgain("opening") = {"recorder", "keepwarm", "pipeline"}
        /\ BegunAgain("mqtt starts") = {"recorder", "keepwarm", "pipeline"}
    BY <2>2 DEF BegunAgain
  <2> QED BY <1>2, <2>1, <2>2, <2>3 DEF Part, Starts
<1> QED BY <1>1, <1>2

LEMMA BeginStep ==
  ASSUME RuntimeInv, NEW c \in Call, NEW part \in {"recorder", "pipeline"}, BeginPart(c, part)
  PROVE  RuntimeInv'
<1>1. /\ call[c].pc = AtStart[part] /\ running' = running
      /\ UNCHANGED <<rows, mode, config, gatewayFile, current, made, running, reloadFailed>>
      /\ \/ <<part, current>> \in begun /\ Goes(c, AfterStart[part]) /\ UNCHANGED begun
         \/ /\ Awaits(c, AtWork[part], current) /\ begun' = begun \union {<<part, current>>}
            /\ <<part, current>> \notin begun
  BY DEF BeginPart
<1>2. call[c].pc \in Starts /\ AtStart[part] \in Starts /\ AtWork[part] \in Starts
      /\ AfterStart[part] \in Starts /\ AfterStart[part] \notin {"reconciling", "opening"}
      /\ part \in Part
  BY <1>1, PlacesOf
<1>3. /\ RuntimeTyped /\ current \in Generation
      /\ mode = "workers" =>
           /\ running = UpAgain(AtStart[part]) \X {current}
           /\ begun = BegunAgain(AtStart[part]) \X {current}
  BY <1>1, <1>2, Starting
<1>4. /\ part \notin BegunAgain(AtStart[part])
      /\ UpAgain(AtWork[part]) = UpAgain(AtStart[part])
      /\ BegunAgain(AtWork[part]) = BegunAgain(AtStart[part]) \union {part}
  BY PlacesOf
<1>5. running' \subseteq Part \X Generation /\ begun' \subseteq Part \X Generation
  BY <1>1, <1>2, <1>3 DEF RuntimeTyped
<1>6. CASE mode = "workers"
  <2>1. <<part, current>> \notin begun
    BY <1>3, <1>4, <1>6
  <2>2. /\ running' = UpAgain(AtWork[part]) \X {current}
        /\ begun' = BegunAgain(AtWork[part]) \X {current}
    BY <1>1, <1>3, <1>4, <1>6, <2>1
  <2> QED BY <1>1, <1>2, <1>5, <2>1, <2>2, StartsStep
<1>7. CASE mode # "workers"
  <2> QED BY <1>1, <1>2, <1>5, <1>7, StartsStep
<1> QED BY <1>6, <1>7

LEMMA RunsStep ==
  ASSUME RuntimeInv, NEW c \in Call, NEW part \in {"recorder", "pipeline"}, PartRuns(c, part)
  PROVE  RuntimeInv'
<1>1. /\ call[c].pc = AtWork[part] /\ Goes(c, AfterStart[part])
      /\ running' = running \union {<<part, call[c].on>>} /\ begun' = begun
      /\ UNCHANGED <<rows, mode, config, gatewayFile, current, made, begun, reloadFailed>>
  BY DEF PartRuns
<1>2. call[c].pc \in Starts /\ AtWork[part] \in Starts /\ AtWork[part] \in {"reconciling", "opening"}
      /\ AfterStart[part] \in Starts /\ AfterStart[part] \notin {"reconciling", "opening"}
      /\ part \in Part
  BY <1>1, PlacesOf
<1>3. /\ RuntimeTyped /\ current \in Generation /\ call[c].on \in Generation
      /\ mode = "workers" =>
           /\ running = UpAgain(AtWork[part]) \X {current} /\ call[c].on = current
           /\ begun = BegunAgain(AtWork[part]) \X {current}
  BY <1>1, <1>2, Starting
<1>4. /\ UpAgain(AfterStart[part]) = UpAgain(AtWork[part]) \union {part}
      /\ BegunAgain(AfterStart[part]) = BegunAgain(AtWork[part])
  BY PlacesOf
<1>5. running' \subseteq Part \X Generation /\ begun' \subseteq Part \X Generation
  BY <1>1, <1>2, <1>3 DEF RuntimeTyped
<1>6. mode = "workers" => /\ running' = UpAgain(AfterStart[part]) \X {current}
                          /\ begun' = BegunAgain(AfterStart[part]) \X {current}
  BY <1>1, <1>3, <1>4
<1> QED BY <1>1, <1>2, <1>5, <1>6, StartsStep

LEMMA AtOnceStep ==
  ASSUME RuntimeInv, NEW c \in Call, NEW part \in {"keepwarm", "mqtt"}, StartAtOnce(c, part)
  PROVE  RuntimeInv'
<1>1. /\ call[c].pc = AtStart[part] /\ Goes(c, AfterStart[part])
      /\ running' = running \union {<<part, current>>} /\ begun' = begun \union {<<part, current>>}
      /\ UNCHANGED <<rows, mode, config, gatewayFile, current, made, reloadFailed>>
  BY DEF StartAtOnce
<1>2. call[c].pc \in Starts /\ part \in Part /\ AtStart[part] \in Starts
  <2>1. AtStart["keepwarm"] = "keepwarm starts" /\ AtStart["mqtt"] = "mqtt starts"
    BY DEF AtStart
  <2> QED BY <1>1, <2>1 DEF Starts, Part
<1>3. /\ RuntimeTyped /\ current \in Generation
      /\ mode = "workers" =>
           /\ running = UpAgain(AtStart[part]) \X {current}
           /\ begun = BegunAgain(AtStart[part]) \X {current}
  BY <1>1, <1>2, Starting
<1>4. running' \subseteq Part \X Generation /\ begun' \subseteq Part \X Generation
  BY <1>1, <1>2, <1>3 DEF RuntimeTyped
<1>5. CASE part = "keepwarm"
  <2>1. /\ AfterStart[part] = "pipeline starts" /\ "pipeline starts" \in Starts
        /\ UpAgain("pipeline starts") = UpAgain(AtStart[part]) \union {part}
        /\ BegunAgain("pipeline starts") = BegunAgain(AtStart[part]) \union {part}
    <3>1. AtStart[part] = "keepwarm starts" /\ AfterStart[part] = "pipeline starts"
      BY <1>5 DEF AtStart, AfterStart
    <3>2. UpAgain("keepwarm starts") = {"recorder"} /\ UpAgain("pipeline starts") = {"recorder", "keepwarm"}
      BY DEF UpAgain
    <3>3. /\ BegunAgain("keepwarm starts") = {"recorder"}
          /\ BegunAgain("pipeline starts") = {"recorder", "keepwarm"}
      BY <3>2 DEF BegunAgain
    <3> QED BY <1>5, <3>1, <3>2, <3>3 DEF Starts
  <2>2. mode = "workers" => /\ running' = UpAgain("pipeline starts") \X {current}
                            /\ begun' = BegunAgain("pipeline starts") \X {current}
    <3>1. ASSUME NEW S, NEW T, S = T \union {part} PROVE (T \X {current}) \union {<<part, current>>} = S \X {current}
      BY <3>1
    <3>2. /\ (UpAgain(AtStart[part]) \X {current}) \union {<<part, current>>}
               = UpAgain("pipeline starts") \X {current}
          /\ (BegunAgain(AtStart[part]) \X {current}) \union {<<part, current>>}
               = BegunAgain("pipeline starts") \X {current}
      BY <2>1, <3>1
    <3> QED BY <1>1, <1>3, <3>2
  <2> QED BY <1>1, <1>2, <1>4, <2>1, <2>2, StartsStep
<1>6. CASE part = "mqtt"
  <2>1. /\ AfterStart[part] = "none"
        /\ UpAgain(AtStart[part]) \union {part} = Part /\ BegunAgain(AtStart[part]) \union {part} = Part
    <3>1. AtStart[part] = "mqtt starts" /\ AfterStart[part] = "none"
      BY <1>6 DEF AtStart, AfterStart
    <3>2. UpAgain("mqtt starts") = {"recorder", "keepwarm", "pipeline"}
      BY DEF UpAgain
    <3>3. BegunAgain("mqtt starts") = {"recorder", "keepwarm", "pipeline"}
      BY <3>2 DEF BegunAgain
    <3> QED BY <1>6, <3>1, <3>2, <3>3 DEF Part
  <2>2. c \in Serving /\ (mode = "workers" => ReloadAt(call[c]))
    BY <1>2, Served DEF Starts
  <2>3. /\ DOMAIN call' = Call /\ (\A d \in Call : RequestTyped(call'[d])) /\ Serving' = {}
    BY <1>1, <2>1, <2>2, GoesStep DEF CallPlace
  <2>4. RuntimeTyped'
    BY <1>1, <1>3, <1>4, <2>3 DEF RuntimeTyped
  <2>5. mode = "workers" => running' = Part \X {current} /\ begun' = Part \X {current}
    BY <1>1, <1>3, <2>1
  <2>6. mode = "workers" => Follows /\ ~reloadFailed
    BY <1>2, <2>2 DEF ReloadAt
  <2>7. mode' = "workers" => AtRest'
    BY <1>1, <2>5, <2>6 DEF AtRest, WholeOrGone, Follows, Merged
  <2> QED BY <2>3, <2>4, <2>7, RequestEnds
<1> QED BY <1>5, <1>6

LEMMA RuntimeStarts == RuntimeInit => RuntimeInv
<1> SUFFICES ASSUME RuntimeInit PROVE RuntimeInv
  OBVIOUS
<1>1. /\ call = [c \in Call |-> NoCall] /\ mode = "off" /\ running = {} /\ begun = {}
      /\ rows \in Stored /\ config = FileCameras /\ gatewayFile = FileCameras
      /\ current = 0 /\ made = [g \in Generation |-> FileCameras] /\ reloadFailed = FALSE
  BY DEF RuntimeInit
<1>2. Serving = {}
  BY <1>1, NoCallIs DEF Serving
<1>3. RuntimeTyped
  BY <1>1, NoCallIs DEF RuntimeTyped
<1> QED BY <1>1, <1>2, <1>3 DEF RuntimeInv, OneAtATime

\* A request that moves keeps what is known of the others.
LEMMA RequestMoves ==
  ASSUME RuntimeTyped, NEW c \in Call, NEW r, RequestTyped(r), call' = [call EXCEPT ![c] = r]
  PROVE  DOMAIN call' = Call /\ (\A d \in Call : RequestTyped(call'[d]))
  BY DEF RuntimeTyped

LEMMA RequestGoes ==
  ASSUME RuntimeTyped, NEW c \in Call, NEW pc \in CallPlace, Goes(c, pc)
  PROVE  DOMAIN call' = Call /\ (\A d \in Call : RequestTyped(call'[d]))
<1>1. PICK r : r = IF pc = "none" THEN NoCall ELSE [call[c] EXCEPT !.pc = pc]
  OBVIOUS
<1>2. RequestTyped(r)
  BY <1>1, NoCallIs DEF RequestTyped, RuntimeTyped
<1>3. call' = [call EXCEPT ![c] = r]
  BY <1>1 DEF Goes, RuntimeTyped
<1> QED BY <1>2, <1>3, RequestMoves

LEMMA RequestAwaits ==
  ASSUME RuntimeTyped, NEW c \in Call, NEW pc \in CallPlace, Awaits(c, pc, current)
  PROVE  DOMAIN call' = Call /\ (\A d \in Call : RequestTyped(call'[d]))
<1>1. PICK r : r = [[call[c] EXCEPT !.pc = pc] EXCEPT !.on = current]
  OBVIOUS
<1>4. RequestTyped(call[c]) /\ current \in Generation
  BY DEF RuntimeTyped
<1>2. RequestTyped(r)
  BY <1>1, <1>4 DEF RequestTyped
<1>3. call' = [call EXCEPT ![c] = r]
  BY <1>1 DEF Awaits, RuntimeTyped
<1> QED BY <1>2, <1>3, RequestMoves

LEMMA RebuildTypes ==
  ASSUME RuntimeTyped, NEW merged \in Cameras, Rebuild(merged)
  PROVE  current' \in Generation /\ made' \in [Generation -> Cameras]
  BY RuntimeAssumption DEF RuntimeTyped, Rebuild, Generation

\* However many requests are served at once, everything keeps its type.
LEMMA RuntimeTypesStep == RuntimeTyped /\ [RuntimeNext]_runtimeVars => RuntimeTyped'
<1> SUFFICES ASSUME RuntimeTyped, [RuntimeNext]_runtimeVars PROVE RuntimeTyped'
  OBVIOUS
<1> DEFINE Typed2 == DOMAIN call' = Call /\ (\A d \in Call : RequestTyped(call'[d]))
<1>0. current \in Generation /\ made \in [Generation -> Cameras] /\ config \in Cameras
  BY DEF RuntimeTyped
<1>1. CASE Boot
  <2>1. /\ mode' \in {"workers", "degraded"} /\ config' \in {Merged(rows), FileCameras}
        /\ gatewayFile' = config' /\ current' = 0 /\ made' = [g \in Generation |-> config']
        /\ running' = (IF mode' = "workers" THEN Part ELSE {"mqtt", "keepwarm"}) \X {0}
        /\ begun' = running' /\ reloadFailed' = (config' # Merged(rows)) /\ UNCHANGED <<rows, call>>
    BY <1>1, RuntimeAssumption DEF Boot
  <2>2. config' \in Cameras /\ 0 \in Generation
    BY <2>1, NoCallIs, MergedIs
  <2> QED BY <2>1, <2>2 DEF RuntimeTyped, Part
<1>2. CASE ProcessEnds
  BY <1>2, NoCallIs DEF ProcessEnds, RuntimeTyped
<1>3. ASSUME NEW c \in Call, Ask(c) PROVE RuntimeTyped'
  <2>1. PICK i \in Id, does \in {"create", "update", "delete"}, p \in Payload \union {"none", "invalid"} :
          call' = [call EXCEPT ![c] = [NoCall EXCEPT !.pc = IF does = "delete" THEN "storing" ELSE "checking",
                                                     !.does = does, !.id = i, !.payload = p]]
    BY <1>3 DEF Ask
  <2>2. PICK r : r = [NoCall EXCEPT !.pc = IF does = "delete" THEN "storing" ELSE "checking",
                                    !.does = does, !.id = i, !.payload = p]
    OBVIOUS
  <2>3. RequestTyped(r)
    BY <2>2, NoCallIs DEF RequestTyped, CallPlace
  <2>4. Typed2
    BY <2>1, <2>2, <2>3, RequestMoves
  <2> QED BY <1>3, <2>4 DEF Ask, RuntimeTyped
<1>4. ASSUME NEW c \in Call, Check(c) \/ Store(c) PROVE RuntimeTyped'
  <2>1. \E pc \in CallPlace : Goes(c, pc)
    BY <1>4 DEF Check, Store, CallPlace
  <2>2. Typed2
    BY <2>1, RequestGoes
  <2>3. rows' \in Stored
    <3>1. call[c].payload \in Payload \union {"none", "invalid"}
      BY DEF RuntimeTyped, RequestTyped
    <3> QED BY <1>4, <3>1 DEF Check, Store, PutRow, DropRow, RuntimeTyped, Stored
  <2> QED BY <1>4, <2>2, <2>3 DEF Check, Store, RuntimeTyped
<1>11. ASSUME NEW c \in Call, RequestFails(c) PROVE RuntimeTyped'
  <2>1. Typed2
    BY <1>11, RequestGoes DEF RequestFails, CallPlace
  <2> QED BY <1>11, <2>1 DEF RequestFails, RuntimeTyped
<1>5. ASSUME NEW c \in Call, MergeRows(c) PROVE RuntimeTyped'
  <2>1. PICK merged : merged = Merged(rows)
    OBVIOUS
  <2>2. merged \in Cameras
    BY <2>1, MergedIs
  <2>3. /\ config' = merged /\ UNCHANGED <<rows, mode, gatewayFile, begun, running, reloadFailed>>
        /\ \/ /\ call' = [call EXCEPT ![c].pc = "pipeline", ![c].on = current, ![c].merged = merged]
              /\ UNCHANGED <<current, made>>
           \/ Rebuild(merged) /\ Goes(c, "syncing")
    BY <1>5, <2>1 DEF MergeRows
  <2>4. CASE Rebuild(merged) /\ Goes(c, "syncing")
    <3>1. Typed2
      BY <2>4, RequestGoes DEF CallPlace
    <3>2. current' \in Generation /\ made' \in [Generation -> Cameras]
      BY <2>2, <2>4, RebuildTypes
    <3> QED BY <2>2, <2>3, <3>1, <3>2 DEF RuntimeTyped
  <2>5. CASE /\ call' = [call EXCEPT ![c].pc = "pipeline", ![c].on = current, ![c].merged = merged]
             /\ UNCHANGED <<current, made>>
    <3>1. PICK r : r = [[[call[c] EXCEPT !.pc = "pipeline"] EXCEPT !.on = current] EXCEPT !.merged = merged]
      OBVIOUS
    <3>2. RequestTyped(r)
      <4>1. RequestTyped(call[c]) /\ "pipeline" \in CallPlace
        BY DEF RuntimeTyped, CallPlace, Part
      <4> QED BY <1>0, <2>2, <3>1, <4>1 DEF RequestTyped
    <3>3. call' = [call EXCEPT ![c] = r]
      BY <2>5, <3>1 DEF RuntimeTyped
    <3>4. Typed2
      BY <3>2, <3>3, RequestMoves
    <3> QED BY <2>2, <2>3, <2>5, <3>4 DEF RuntimeTyped
  <2> QED BY <2>3, <2>4, <2>5
<1>6. ASSUME NEW c \in Call, StopPart(c) PROVE RuntimeTyped'
  <2>1. /\ call[c].pc \in Part /\ running' \subseteq running /\ begun' \subseteq begun
        /\ UNCHANGED <<rows, mode, config, gatewayFile, reloadFailed>>
        /\ \/ Rebuild(call[c].merged) /\ Goes(c, "syncing")
           \/ /\ call[c].pc # "mqtt" /\ Awaits(c, AfterStop[call[c].pc], current)
              /\ UNCHANGED <<current, made>>
    BY <1>6 DEF StopPart
  <2>2. call[c].merged \in Cameras
    BY DEF RuntimeTyped, RequestTyped
  <2>3. CASE Rebuild(call[c].merged) /\ Goes(c, "syncing")
    <3>1. Typed2
      BY <2>3, RequestGoes DEF CallPlace
    <3>2. current' \in Generation /\ made' \in [Generation -> Cameras]
      BY <2>2, <2>3, RebuildTypes
    <3> QED BY <2>1, <3>1, <3>2 DEF RuntimeTyped
  <2>4. CASE /\ call[c].pc # "mqtt" /\ Awaits(c, AfterStop[call[c].pc], current)
             /\ UNCHANGED <<current, made>>
    <3>1. AfterStop[call[c].pc] \in CallPlace
      <4>1. CASE call[c].pc = "pipeline"
        BY <4>1 DEF AfterStop, Part, CallPlace
      <4>2. CASE call[c].pc = "keepwarm"
        BY <4>2 DEF AfterStop, Part, CallPlace
      <4>3. CASE call[c].pc = "recorder"
        BY <4>3 DEF AfterStop, Part, CallPlace
      <4> QED BY <2>1, <2>4, <4>1, <4>2, <4>3 DEF Part
    <3>2. Typed2
      BY <2>4, <3>1, RequestAwaits
    <3> QED BY <2>1, <2>4, <3>2 DEF RuntimeTyped
  <2> QED BY <2>1, <2>3, <2>4
<1>7. ASSUME NEW c \in Call, Sync(c) PROVE RuntimeTyped'
  <2>1. \E pc \in CallPlace : Goes(c, pc)
    BY <1>7 DEF Sync, CallPlace
  <2>2. Typed2
    BY <2>1, RequestGoes
  <2> QED BY <1>7, <2>2 DEF Sync, RuntimeTyped
<1>8. ASSUME NEW c \in Call, NEW part \in {"recorder", "pipeline"}, BeginPart(c, part) \/ PartRuns(c, part)
      PROVE  RuntimeTyped'
  <2>1. AfterStart[part] \in CallPlace /\ AtWork[part] \in CallPlace /\ part \in Part
    <3>1. CASE part = "recorder"
      BY <3>1 DEF AfterStart, AtWork, CallPlace, Part
    <3>2. CASE part = "pipeline"
      BY <3>2 DEF AfterStart, AtWork, CallPlace, Part
    <3> QED BY <3>1, <3>2
  <2>2. (\E pc \in CallPlace : Goes(c, pc)) \/ Awaits(c, AtWork[part], current)
    BY <1>8, <2>1 DEF BeginPart, PartRuns
  <2>3. Typed2
    BY <2>1, <2>2, RequestGoes, RequestAwaits
  <2>4. call[c].on \in Generation
    BY DEF RuntimeTyped, RequestTyped
  <2>5. begun' \subseteq Part \X Generation /\ running' \subseteq Part \X Generation
    BY <1>0, <1>8, <2>1, <2>4 DEF BeginPart, PartRuns, RuntimeTyped
  <2> QED BY <1>8, <2>3, <2>5 DEF BeginPart, PartRuns, RuntimeTyped
<1>9. ASSUME NEW c \in Call, NEW part \in {"keepwarm", "mqtt"}, StartAtOnce(c, part) PROVE RuntimeTyped'
  <2>1. AfterStart[part] \in CallPlace /\ part \in Part
    <3>1. CASE part = "keepwarm"
      BY <3>1 DEF AfterStart, CallPlace, Part
    <3>2. CASE part = "mqtt"
      BY <3>2 DEF AfterStart, CallPlace, Part
    <3> QED BY <3>1, <3>2
  <2>2. Typed2
    BY <1>9, <2>1, RequestGoes DEF StartAtOnce
  <2>3. begun' \subseteq Part \X Generation /\ running' \subseteq Part \X Generation
    BY <1>0, <1>9, <2>1 DEF StartAtOnce, RuntimeTyped
  <2> QED BY <1>9, <2>2, <2>3 DEF StartAtOnce, RuntimeTyped
<1>10. CASE UNCHANGED runtimeVars
  BY <1>10 DEF runtimeVars, RuntimeTyped
<1> QED
  BY <1>1, <1>2, <1>3, <1>4, <1>5, <1>6, <1>7, <1>8, <1>9, <1>10, <1>11 DEF RuntimeNext

LEMMA RuntimeKeeps ==
  ASSUME InFlight <= 1, RuntimeInv, [RuntimeNext]_runtimeVars
  PROVE  RuntimeInv'
<1>1. CASE Boot \/ ProcessEnds
  BY <1>1, BootStep, EndStep
<1>2. ASSUME NEW c \in Call,
             \/ Ask(c) \/ Check(c) \/ Store(c) \/ RequestFails(c) \/ MergeRows(c)
             \/ StopPart(c) \/ Sync(c)
      PROVE  RuntimeInv'
  BY <1>2, AskStep, CheckStep, StoreStep, RequestFailsStep, MergeStep, StopStep, SyncStep
<1>3. ASSUME NEW c \in Call,
             \/ BeginPart(c, "recorder") \/ PartRuns(c, "recorder")
             \/ BeginPart(c, "pipeline") \/ PartRuns(c, "pipeline")
             \/ StartAtOnce(c, "keepwarm") \/ StartAtOnce(c, "mqtt")
      PROVE  RuntimeInv'
  BY <1>3, BeginStep, RunsStep, AtOnceStep
<1>4. CASE UNCHANGED runtimeVars
  BY <1>4 DEF runtimeVars, RuntimeInv, RuntimeTyped, OneAtATime, Serving, AtRest, ReloadAt,
              WholeOrGone, Follows, Merged
<1> QED BY <1>1, <1>2, <1>3, <1>4 DEF RuntimeNext

LEMMA RuntimeTypes == RuntimeInv => RuntimeTypeOK
  BY DEF RuntimeInv, RuntimeTyped, RequestTyped, RuntimeTypeOK

LEMMA RuntimeFollows == RuntimeInv => CaptureFollowsTheStore
<1> SUFFICES ASSUME RuntimeInv, mode = "workers" PROVE CaptureFollowsTheStore
  BY DEF CaptureFollowsTheStore
<1>1. (Serving = {} => AtRest) /\ \A c \in Serving : ReloadAt(call[c])
  BY DEF RuntimeInv
<1>2. \E S : running \subseteq S \X {current}
  <2>1. CASE Serving = {}
    BY <1>1, <2>1 DEF AtRest, WholeOrGone
  <2>2. ASSUME NEW c \in Serving PROVE \E S : running \subseteq S \X {current}
    <3>0. WholeOrGone => running \subseteq Part \X {current}
      BY DEF WholeOrGone
    <3>1. call[c].pc \in CallPlace \ {"none"}
      BY DEF Serving, RuntimeInv, RuntimeTyped, RequestTyped
    <3>2. CASE call[c].pc \in {"checking", "storing"}
      BY <1>1, <3>0, <3>2 DEF ReloadAt, AtRest
    <3>3. CASE call[c].pc = "merging"
      BY <1>1, <3>0, <3>3 DEF ReloadAt
    <3>4. CASE call[c].pc \in Part
      BY <1>1, <3>4 DEF ReloadAt
    <3>5. CASE call[c].pc = "syncing"
      BY <1>1, <3>5 DEF ReloadAt
    <3>6. CASE call[c].pc \in Starts
      BY <1>1, <3>6 DEF ReloadAt
    <3> QED BY <3>1, <3>2, <3>3, <3>4, <3>5, <3>6 DEF CallPlace, Starts
  <2> QED BY <2>1, <2>2
<1>3. Part \X {current} # {}
  <2>1. <<"mqtt", current>> \in Part \X {current}
    BY DEF Part
  <2> QED BY <2>1
<1>4. \A p \in running : p[2] = current
  BY <1>2
<1>5. Serving = {} =>
        /\ made[current] = config /\ running \in {{}, Part \X {current}}
        /\ ~reloadFailed => config = Merged(rows) /\ gatewayFile = config /\ running # {}
  BY <1>1, <1>3 DEF AtRest, WholeOrGone, Follows
<1> QED BY <1>4, <1>5 DEF CaptureFollowsTheStore

\* With camera requests served one at a time, whatever they ask, wherever the database
\* or the sync fails them and whenever the process ends: every part that runs is of the
\* current generation, between requests the chain is whole or gone and made for the
\* configuration in force, and rows, gateway file and running parts agree unless the
\* last reload failed (runtime.py 213-273, managed.py 50-75).  Requests that overlap
\* break this.
THEOREM OneByOneCaptureFollows ==
  ASSUME InFlight <= 1
  PROVE  RuntimeSpec => []CaptureFollowsTheStore
<1>1. RuntimeInv /\ [RuntimeNext]_runtimeVars => RuntimeInv'
  BY RuntimeKeeps
<1> QED BY <1>1, RuntimeStarts, RuntimeFollows, PTL DEF RuntimeSpec

\* With camera requests served one at a time, no recorder runs while a camera's footage
\* is reconciled with the index (recorder.py 417-418).
THEOREM OneByOneNoWriterRaces ==
  ASSUME InFlight <= 1
  PROVE  RuntimeSpec => [](mode = "workers" => NoWriterRaces)
<1>1. RuntimeInv /\ [RuntimeNext]_runtimeVars => RuntimeInv'
  BY RuntimeKeeps
<1>2. RuntimeInv => (mode = "workers" => NoWriterRaces)
  <2> SUFFICES ASSUME RuntimeInv, mode = "workers", NEW c \in Call, call[c].pc = "reconciling"
               PROVE  running = {}
    BY DEF NoWriterRaces
  <2>1. c \in Serving
    BY DEF Serving
  <2>2. running = UpAgain("reconciling") \X {current}
    BY <2>1 DEF RuntimeInv, ReloadAt, Starts
  <2> QED BY <2>2 DEF UpAgain
<1> QED BY <1>1, <1>2, RuntimeStarts, PTL DEF RuntimeSpec

-----------------------------------------------------------------------------
(* The detector's model.                                                   *)

LoaderKnows ==
  /\ loader.pc = "stamping" => modelFile = "pinned"
  /\ loader.pc \in {"clearing", "downloading", "checking"} => modelFile = "nothing"
  /\ loader.pc \in {"opening", "last resort"} /\ modelFile = "other" => swapped

ModelInv == ModelTypeOK /\ LoaderKnows /\ RunsThePinnedModel

\* The records that are built afresh.
LEMMA FreshLoader ==
  /\ NotLoading \in Loader /\ NotLoading.pc = "off"
  /\ \A pc \in {"ready", "disabled"} :
       [NotLoading EXCEPT !.pc = pc] \in Loader /\ [NotLoading EXCEPT !.pc = pc].pc = pc
  BY DEF NotLoading, Loader, Content

LEMMA FreshDetector ==
  ASSUME modelFile \in Content, swapped \in BOOLEAN
  PROVE  /\ NullDetector \in Detector /\ NullDetector.model = "nothing"
         /\ [model |-> modelFile, blind |-> swapped] \in Detector
  BY DEF NullDetector, Detector, Content

\* A session is opened on what the loader knows the file to be.
LEMMA LoadedStep ==
  ASSUME ModelInv, Loaded, loader.pc \in {"opening", "last resort"},
         UNCHANGED <<modelFile, stampFile, swapped>>
  PROVE  ModelInv'
<1>1. loader' \in Loader /\ loader'.pc = "ready"
  BY FreshLoader DEF Loaded
<1>2. detector' \in Detector
  BY FreshDetector DEF Loaded, ModelInv, ModelTypeOK
<1>3. detector'.model = "other" => detector'.blind
  <2>1. detector'.model = modelFile /\ detector'.blind = swapped
    BY DEF Loaded
  <2>2. modelFile = "other" => swapped
    BY DEF ModelInv, LoaderKnows
  <2> QED
    BY <2>1, <2>2
<1>4. stampFile' = "pinned" /\ modelFile' = "other" => swapped'
  BY DEF ModelInv, RunsThePinnedModel
<1>5. RunsThePinnedModel'
  BY <1>3, <1>4 DEF RunsThePinnedModel
<1>6. LoaderKnows'
  BY <1>1 DEF LoaderKnows
<1>7. ModelTypeOK'
  BY <1>1, <1>2 DEF ModelInv, ModelTypeOK
<1> QED
  BY <1>5, <1>6, <1>7 DEF ModelInv

LEMMA DisableStep ==
  ASSUME ModelInv, Disable, UNCHANGED <<modelFile, swapped>>,
         stampFile' \in {stampFile, "torn"}
  PROVE  ModelInv'
<1>1. loader' \in Loader /\ loader'.pc = "disabled"
  BY FreshLoader DEF Disable
<1> QED
  BY <1>1 DEF ModelInv, ModelTypeOK, LoaderKnows, RunsThePinnedModel, Disable

\* A session that cannot be opened is tried once more, on the CPU alone.
LEMMA OpenEnds ==
  ASSUME OpenDetector
  PROVE  \/ Loaded \/ Disable
         \/ \E usable \in SUBSET Provider :
              loader' = [loader EXCEPT !.pc = "last resort", !.tries = usable] /\ UNCHANGED detector
<1> DEFINE Usable(available) ==
      IF Preferred \intersect available = {} THEN {Cpu} ELSE Preferred \intersect available
<1>1. PICK available \in SUBSET Provider :
        \/ Loaded
        \/ IF Usable(available) = {Cpu} THEN Disable
           ELSE /\ loader' = [loader EXCEPT !.pc = "last resort", !.tries = Usable(available)]
                /\ UNCHANGED detector
  BY Zenon DEF OpenDetector
<1>2. Usable(available) \in SUBSET Provider
  BY ModelAssumption
<1> HIDE DEF Usable
<1> QED
  BY <1>1, <1>2, Zenon

\* The actions that move the loader on keep the invariant, and so do a crash
\* and what the operator does to the files.
LEMMA ModelStep == ModelInv /\ [ModelNext]_modelVars => ModelInv'
<1> SUFFICES ASSUME ModelInv, [ModelNext]_modelVars PROVE ModelInv'
  OBVIOUS
<1> USE DEF ModelInv, ModelTypeOK, LoaderKnows, RunsThePinnedModel
<1>1. CASE StartLoading BY <1>1 DEF StartLoading, To, Loader
<1>2. CASE LookForModel BY <1>2 DEF LookForModel, To, Loader
<1>3. CASE HashModel BY <1>3 DEF HashModel, To, Loader
<1>4. CASE DeleteModel BY <1>4 DEF DeleteModel, To, Loader, Content
<1>5. CASE ClearStamp BY <1>5 DEF ClearStamp, To, Loader
<1>6. CASE Download
  <2>1. CASE Disable
    BY <1>6, <2>1, DisableStep DEF Download
  <2>2. CASE \E got \in {"pinned", "other"} :
               loader' = [loader EXCEPT !.pc = "checking", !.part = got] /\ UNCHANGED detector
    BY <1>6, <2>2 DEF Download, Loader, Content
  <2> QED BY <1>6, <2>1, <2>2 DEF Download
<1>7. CASE InstallModel
  <2>1. CASE loader.part = "pinned"
    BY <1>7, <2>1 DEF InstallModel, To, Loader, Content
  <2>2. CASE loader.part # "pinned"
    BY <1>7, <2>2, DisableStep DEF InstallModel
  <2> QED BY <2>1, <2>2
<1>8. CASE WriteStamp
  <2>1. CASE stampFile' = "pinned" /\ To("opening") /\ UNCHANGED detector
    BY <1>8, <2>1 DEF WriteStamp, To, Loader
  <2>2. CASE stampFile' = "torn" /\ Disable
    BY <1>8, <2>2, DisableStep DEF WriteStamp
  <2> QED BY <1>8, <2>1, <2>2 DEF WriteStamp
<1>9. CASE OpenDetector
  <2>1. CASE Loaded
    BY <1>9, <2>1, LoadedStep DEF OpenDetector
  <2>2. CASE Disable
    BY <1>9, <2>2, DisableStep DEF OpenDetector
  <2>3. CASE \E usable \in SUBSET Provider :
               loader' = [loader EXCEPT !.pc = "last resort", !.tries = usable] /\ UNCHANGED detector
    BY <1>9, <2>3 DEF OpenDetector, Loader
  <2> QED BY <1>9, <2>1, <2>2, <2>3, OpenEnds
<1>10. CASE OpenOnCpu
  BY <1>10, LoadedStep, DisableStep DEF OpenOnCpu
<1>11. CASE LoaderCrash
  <2>1. loader' = NotLoading /\ detector' = NullDetector /\ UNCHANGED <<modelFile, swapped>>
        /\ stampFile' \in {stampFile, "torn"}
    BY <1>11 DEF LoaderCrash
  <2> QED BY <2>1, FreshLoader, FreshDetector
<1>12. CASE PlaceModel BY <1>12 DEF PlaceModel, Content
<1>13. CASE RemoveModel BY <1>13 DEF RemoveModel, Content
<1>14. CASE UNCHANGED modelVars BY <1>14 DEF modelVars
<1> QED
  BY <1>1, <1>2, <1>3, <1>4, <1>5, <1>6, <1>7, <1>8, <1>9, <1>10, <1>11, <1>12, <1>13, <1>14
  DEF ModelNext

LEMMA ModelStarts == ModelInit => ModelInv
<1> SUFFICES ASSUME ModelInit PROVE ModelInv
  OBVIOUS
<1>1. modelFile \in Content /\ swapped \in BOOLEAN
  BY DEF ModelInit, Content
<1> QED
  BY <1>1, FreshLoader, FreshDetector
  DEF ModelInit, ModelInv, ModelTypeOK, LoaderKnows, RunsThePinnedModel

\* Detections run on the pinned model or on none, wherever earlier boots were
\* cut off and whatever the network sent (detect.py 163-223, runtime.py 189-209).
THEOREM PinnedModelOnly == ModelSpec => []RunsThePinnedModel
<1>1. ModelInv => RunsThePinnedModel
  BY DEF ModelInv
<1> QED
  BY <1>1, ModelStarts, ModelStep, PTL DEF ModelSpec

-----------------------------------------------------------------------------
(* The gateway.                                                            *)

CamsOf(streams) == {s[1] : s \in streams}

Gathered ==
  /\ syncing.asking \subseteq syncing.todo
  /\ syncing.pc = "building" =>
       /\ syncing.todo \subseteq syncing.cams /\ syncing.skipped \subseteq syncing.cams \ syncing.todo
       /\ CamsOf(syncing.streams) = (syncing.cams \ syncing.todo) \ syncing.skipped
  /\ syncing.pc # "building" => syncing.todo = {}

FileIsManaged == CamsOf(confFile) = managed.cams \ managed.skipped

ServesTheFile == syncing.pc # "restarting" /\ ~unheard => serves = confFile

SyncFields ==
  syncing = [pc |-> syncing.pc, cams |-> syncing.cams, todo |-> syncing.todo,
             asking |-> syncing.asking, streams |-> syncing.streams, skipped |-> syncing.skipped]

GatewayInv == SyncFields /\ Gathered /\ FileIsManaged /\ ServesTheFile

LEMMA CamsGrow ==
  ASSUME NEW streams, NEW c, NEW roles
  PROVE  CamsOf(streams \union ({c} \X roles)) =
           IF roles = {} THEN CamsOf(streams) ELSE CamsOf(streams) \union {c}
<1>1. ASSUME NEW r \in roles PROVE c \in CamsOf(streams \union ({c} \X roles))
  <2>1. <<c, r>> \in streams \union ({c} \X roles) /\ <<c, r>>[1] = c
    OBVIOUS
  <2> QED BY <2>1 DEF CamsOf
<1>2. CamsOf(streams) \subseteq CamsOf(streams \union ({c} \X roles))
  BY DEF CamsOf
<1>3. CamsOf(streams \union ({c} \X roles)) \subseteq CamsOf(streams) \union {c}
  BY DEF CamsOf
<1>4. CASE roles = {}
  BY <1>4 DEF CamsOf
<1>5. CASE roles # {}
  BY <1>1, <1>2, <1>3, <1>5
<1> QED BY <1>4, <1>5

\* A camera that has answered, or was left out, is accounted for.
LEMMA SettlesStep ==
  ASSUME GatewayInv, NEW c \in syncing.todo, NEW roles, Settles(c, roles),
         UNCHANGED <<confFile, serves, managed, unheard>>
  PROVE  GatewayInv'
<1>1. /\ syncing'.pc = syncing.pc /\ syncing'.cams = syncing.cams
      /\ syncing'.todo = syncing.todo \ {c} /\ syncing'.asking = {}
      /\ syncing'.streams = syncing.streams \union ({c} \X roles)
      /\ syncing'.skipped = IF roles = {} THEN syncing.skipped \union {c} ELSE syncing.skipped
      /\ SyncFields'
  BY DEF GatewayInv, SyncFields, Settles
<1>2. syncing.pc = "building"
  BY DEF GatewayInv, Gathered
<1>3. /\ syncing.todo \subseteq syncing.cams /\ syncing.skipped \subseteq syncing.cams \ syncing.todo
      /\ CamsOf(syncing.streams) = (syncing.cams \ syncing.todo) \ syncing.skipped
  BY <1>2 DEF GatewayInv, Gathered
<1>4. CamsOf(syncing'.streams) =
        IF roles = {} THEN CamsOf(syncing.streams) ELSE CamsOf(syncing.streams) \union {c}
  <2>1. PICK before : before = syncing.streams
    OBVIOUS
  <2>2. PICK after : after = syncing'.streams
    OBVIOUS
  <2>3. after = before \union ({c} \X roles)
    BY <1>1, <2>1, <2>2
  <2>4. CamsOf(after) = IF roles = {} THEN CamsOf(before) ELSE CamsOf(before) \union {c}
    BY <2>3, CamsGrow
  <2> QED BY <2>1, <2>2, <2>4
<1>5. CamsOf(syncing'.streams) = (syncing'.cams \ syncing'.todo) \ syncing'.skipped
  <2>1. CASE roles = {} BY <1>1, <1>3, <1>4, <2>1
  <2>2. CASE roles # {} BY <1>1, <1>3, <1>4, <2>2
  <2> QED BY <2>1, <2>2
<1>6. syncing'.todo \subseteq syncing'.cams /\ syncing'.skipped \subseteq syncing'.cams \ syncing'.todo
  BY <1>1, <1>3
<1>7. CamsOf(syncing.streams)' = CamsOf(syncing'.streams)
  BY DEF CamsOf
<1>8. Gathered'
  BY <1>1, <1>2, <1>5, <1>6, <1>7 DEF Gathered
<1>9. FileIsManaged' /\ ServesTheFile'
  BY <1>1, <1>2 DEF GatewayInv, FileIsManaged, ServesTheFile, CamsOf
<1> QED BY <1>1, <1>8, <1>9 DEF GatewayInv

LEMMA GatewayStep == GatewayInv /\ [GatewayNext]_gatewayVars => GatewayInv'
<1> SUFFICES ASSUME GatewayInv, [GatewayNext]_gatewayVars PROVE GatewayInv'
  OBVIOUS
<1>1. CASE StartSync
  <2>1. PICK cs \in SUBSET Cam : syncing' = [NoSync EXCEPT !.pc = "building", !.cams = cs, !.todo = cs]
    BY <1>1 DEF StartSync
  <2>2. /\ syncing'.pc = "building" /\ syncing'.cams = cs /\ syncing'.todo = cs
        /\ syncing'.asking = {} /\ syncing'.streams = {} /\ syncing'.skipped = {} /\ SyncFields'
    BY <2>1 DEF NoSync, SyncFields
  <2>3. Gathered'
    BY <2>2 DEF Gathered, CamsOf
  <2>4. syncing.pc = "none" /\ UNCHANGED <<confFile, serves, managed, unheard>>
    BY <1>1 DEF StartSync, NoSync
  <2> QED BY <2>2, <2>3, <2>4 DEF GatewayInv, FileIsManaged, ServesTheFile, CamsOf
<1>2. ASSUME NEW c \in Cam, AskAtHome(c) PROVE GatewayInv'
  <2>1. PICK roles : Settles(c, roles)
    BY <1>2 DEF AskAtHome
  <2> QED BY <1>2, <2>1, SettlesStep DEF AskAtHome
<1>3. ASSUME NEW c \in Cam, DeviceSaid(c) PROVE GatewayInv'
  <2>1. c \in syncing.todo
    BY <1>3 DEF DeviceSaid, GatewayInv, Gathered
  <2>2. PICK roles : Settles(c, roles)
    BY <1>3 DEF DeviceSaid
  <2> QED BY <1>3, <2>1, <2>2, SettlesStep DEF DeviceSaid
<1>4. ASSUME NEW c \in Cam, AskDevice(c) PROVE GatewayInv'
  <2>1. /\ syncing'.pc = syncing.pc /\ syncing'.cams = syncing.cams /\ syncing'.todo = syncing.todo
        /\ syncing'.asking = {c} /\ syncing'.streams = syncing.streams
        /\ syncing'.skipped = syncing.skipped /\ SyncFields'
    BY <1>4 DEF AskDevice, GatewayInv, SyncFields
  <2>2. c \in syncing.todo /\ UNCHANGED <<confFile, serves, managed, unheard>>
    BY <1>4 DEF AskDevice
  <2> QED
    BY <2>1, <2>2 DEF GatewayInv, Gathered, FileIsManaged, ServesTheFile, CamsOf
<1>5. CASE WriteConfig
  <2>1. syncing.pc = "building" /\ CamsOf(syncing.streams) = syncing.cams \ syncing.skipped
        /\ UNCHANGED <<serves, unheard>>
    BY <1>5 DEF WriteConfig, GatewayInv, Gathered
  <2>2. /\ NoSync.pc = "none" /\ NoSync.todo = {} /\ NoSync.asking = {}
        /\ syncing' = NoSync => SyncFields'
    BY DEF NoSync, SyncFields
  <2>3. CASE syncing' = NoSync /\ UNCHANGED <<managed, confFile>>
    BY <2>1, <2>2, <2>3 DEF GatewayInv, Gathered, FileIsManaged, ServesTheFile, CamsOf
  <2>4. CASE /\ managed' = [cams |-> syncing.cams, skipped |-> syncing.skipped]
             /\ confFile' = syncing.streams
             /\ syncing' = IF confFile = syncing.streams THEN NoSync
                           ELSE [syncing EXCEPT !.pc = "restarting"]
    <3>1. CamsOf(confFile') = managed'.cams \ managed'.skipped
      BY <2>1, <2>4
    <3>2. FileIsManaged'
      BY <3>1 DEF FileIsManaged, CamsOf
    <3>3. CASE confFile = syncing.streams
      BY <2>1, <2>2, <2>4, <3>2, <3>3 DEF GatewayInv, Gathered, ServesTheFile
    <3>4. CASE confFile # syncing.streams
      <4>1. /\ syncing'.pc = "restarting" /\ syncing'.todo = syncing.todo
            /\ syncing'.asking = syncing.asking /\ SyncFields'
        BY <2>4, <3>4 DEF GatewayInv, SyncFields
      <4>2. syncing.todo = {}
        BY <1>5 DEF WriteConfig
      <4> QED BY <3>2, <4>1, <4>2 DEF GatewayInv, Gathered, ServesTheFile
    <3> QED BY <3>3, <3>4
  <2> QED BY <1>5, <2>3, <2>4 DEF WriteConfig
<1>6. CASE AskRestart
  <2>1. /\ syncing'.pc = "none" /\ syncing'.todo = {} /\ syncing'.asking = {} /\ SyncFields'
    BY <1>6 DEF AskRestart, NoSync, SyncFields
  <2>2. FileIsManaged' /\ ServesTheFile'
    BY <1>6 DEF AskRestart, GatewayInv, FileIsManaged, ServesTheFile, CamsOf
  <2> QED BY <2>1, <2>2 DEF GatewayInv, Gathered
<1>7. CASE GatewayReads
  BY <1>7 DEF GatewayReads, GatewayInv, SyncFields, Gathered, FileIsManaged, ServesTheFile, CamsOf
<1>8. ASSUME UNCHANGED <<confFile, serves, syncing, managed, unheard>> PROVE GatewayInv'
  BY <1>8 DEF GatewayInv, SyncFields, Gathered, FileIsManaged, ServesTheFile, CamsOf
<1>9. CASE GatewayHangs \/ DeviceTalks \/ UNCHANGED gatewayVars
  BY <1>8, <1>9 DEF GatewayHangs, DeviceTalks, gatewayVars
<1> QED
  BY <1>1, <1>2, <1>3, <1>4, <1>5, <1>6, <1>7, <1>9 DEF GatewayNext

-----------------------------------------------------------------------------
(* Conversations with a device.                                            *)

LEMMA Smallest ==
  ASSUME NEW T \in SUBSET Nat, T # {}
  PROVE  \E x \in T : \A y \in T : x <= y
<1>1. PICK x \in T : \A y \in T : <<y, x>> \notin OpToRel(<, Nat)
  <2>1. IsWellFoundedOn(OpToRel(<, Nat), Nat)
    BY NatLessThanWellFounded
  <2> QED BY <2>1, WFMin
<1>2. ASSUME NEW y \in T PROVE x <= y
  <2>1. <<y, x>> \in Nat \X Nat /\ <<y, x>>[1] = y /\ <<y, x>>[2] = x
    OBVIOUS
  <2> QED BY <1>1, <2>1 DEF OpToRel
<1> QED BY <1>2

\* Of finitely many numbers one is the greatest: if not, there is a first prefix of
\* them that has none, and the one before it has.
LEMMA Largest ==
  ASSUME NEW n \in Nat \ {0}, NEW ps \in [1 .. n -> Nat]
  PROVE  \E m \in 1 .. n : \A i \in 1 .. n : ps[i] <= ps[m]
<1> DEFINE Has(k) == \E m \in 1 .. k : \A i \in 1 .. k : ps[i] <= ps[m]
           Bad == {k \in 1 .. n : ~Has(k)}
<1> SUFFICES ASSUME ~Has(n) PROVE FALSE
  OBVIOUS
<1>1. n \in Bad
  <2>1. n \in 1 .. n
    OBVIOUS
  <2> HIDE DEF Has
  <2> QED BY <2>1
<1>2. Bad \in SUBSET Nat
  <2> HIDE DEF Has
  <2> QED OBVIOUS
<1> HIDE DEF Bad
<1>3. PICK k \in Bad : \A j \in Bad : k <= j
  BY <1>1, <1>2, Smallest
<1>4. k \in 1 .. n /\ ~Has(k) /\ k # 1
  BY <1>3 DEF Bad
<1>5. k - 1 \in 1 .. n /\ Has(k - 1)
  <2>1. k - 1 \in 1 .. n
    BY <1>4
  <2>2. k - 1 \notin Bad
    BY <1>3, <1>4
  <2> QED BY <2>1, <2>2 DEF Bad
<1>6. PICK m \in 1 .. (k - 1) : \A i \in 1 .. (k - 1) : ps[i] <= ps[m]
  BY <1>5
<1>7. /\ k \in Nat /\ k >= 1 /\ k <= n /\ m \in Nat /\ m >= 1 /\ m <= k
      /\ \A i \in 1 .. k : i \in 1 .. (k - 1) \/ i = k
  BY <1>4, <1>5
<1>8. \A i \in 1 .. k : ps[i] \in Nat
  <2> SUFFICES ASSUME NEW i \in 1 .. k PROVE i \in 1 .. n
    OBVIOUS
  <2> QED BY <1>7
<1>9. m \in 1 .. k /\ k \in 1 .. k
  BY <1>7
<1> HIDE DEF Bad
<1>10. CASE ps[k] <= ps[m]
  <2>1. \A i \in 1 .. k : ps[i] <= ps[m]
    BY <1>6, <1>7, <1>10
  <2> QED BY <1>4, <1>9, <2>1
<1>11. CASE ~(ps[k] <= ps[m])
  <2>1. \A i \in 1 .. k : ps[i] <= ps[k]
    <3> SUFFICES ASSUME NEW i \in 1 .. k PROVE ps[i] <= ps[k]
      OBVIOUS
    <3>1. ps[i] \in Nat /\ ps[k] \in Nat /\ ps[m] \in Nat
      BY <1>8, <1>9
    <3>0. \A a, b, c \in Nat : a <= a /\ (a <= c /\ ~(b <= c) => a <= b)
      OBVIOUS
    <3>2. CASE i = k
      BY <3>0, <3>1, <3>2, Zenon
    <3>3. CASE i # k
      <4>1. ps[i] <= ps[m]
        BY <1>6, <1>7, <3>3
      <4> QED BY <1>11, <3>0, <3>1, <4>1, Zenon
    <3> QED BY <3>2, <3>3
  <2> QED BY <1>4, <1>9, <2>1
<1> QED BY <1>10, <1>11

\* Endpoints are of the best profile and of the poorest.
Bounded(t) ==
  \A r \in DOMAIN t.pixels :
    /\ t.pixels[r] \in {t.profiles[i] : i \in DOMAIN t.profiles}
    /\ \A px \in {t.profiles[i] : i \in DOMAIN t.profiles} :
         IF r = "main" THEN px <= t.pixels[r] ELSE px >= t.pixels[r]

\* Answers that end no probe: silence and faults only where the media service may be
\* guessed, a 401 only on the first try of a user's call.
Harmless(said) ==
  \A p \in said :
    /\ p[3] \in {"ok", "401", "odd"} \/ (p[1] = "caps" /\ p[3] \in {"fault", "down"})
    /\ p[1] # "reach" /\ p[3] = "401" => p[2] = FALSE /\ HasUser

\* What a probe has heard before it goes on; a second try had a first.
SoFar(t) ==
  /\ Harmless(t.said)
  /\ t.pc \in {"caps", "profiles"} => \E second \in BOOLEAN : <<"info", second, "ok">> \in t.said
  /\ t.digest => HasUser /\ <<t.pc, FALSE, "401">> \in t.said

\* Refused, of any conversation.
RefusedIn(said, c) ==
  /\ c # "reach"
  /\ \/ /\ <<c, FALSE, "401">> \in said
        /\ HasUser => <<c, TRUE, "401">> \in said
     \/ \E second \in BOOLEAN : <<c, second, "auth">> \in said

SilentIn(said, c) == \E second \in BOOLEAN : <<c, second, "down">> \in said

Reported(t) ==
  /\ t.result = "auth_failed" <=> \E c \in Calls : RefusedIn(t.said, c)
  /\ t.result = "unreachable" <=> \E c \in {"reach", "info", "profiles"} : SilentIn(t.said, c)
  /\ t.result = "ok" => \A c \in {"info", "profiles"} : \E second \in BOOLEAN : <<c, second, "ok">> \in t.said

TalkTyped(t) ==
  /\ t = [is |-> t.is, pc |-> t.pc, digest |-> t.digest, profiles |-> t.profiles,
          pixels |-> t.pixels, result |-> t.result, said |-> t.said]
  /\ t.is \in {"none", "probe", "endpoints"} /\ t.pc \in Calls \union {"done"}
  /\ t.digest \in BOOLEAN /\ t.profiles \in Profiles
  /\ DOMAIN t.pixels \subseteq {"main", "sub"}
  /\ t.result \in {"none", "ok", "unreachable", "auth_failed", "misconfigured", "error", "raised"}
  /\ t.said \subseteq Calls \X BOOLEAN \X Answer

Truthful(t) ==
  /\ TalkTyped(t)
  /\ t.is = "none" => t.pc = "done"
  /\ t.is = "probe" => IF t.pc = "done" THEN Reported(t)
                       ELSE SoFar(t) /\ t.pc \in {"reach", "info", "caps", "profiles"}
  /\ t.is = "endpoints" => t.pc \in {"caps", "profiles", "main", "sub", "done"} /\ t.said = {}
  /\ t.pc \in {"reach", "info", "caps", "profiles"} => DOMAIN t.pixels = {}
  /\ t.pc \in {"main", "sub"} => t.profiles # <<>>
  /\ Bounded(t)

LEMMA EmptyProfile == <<>> \in Profiles
<1>1. 0 \in 0 .. MaxProfiles
  BY OnvifAssumption
<1>2. <<>> \in [1 .. 0 -> Pixels]
  OBVIOUS
<1> QED BY <1>1, <1>2 DEF Profiles

LEMMA QuietIs ==
  /\ Truthful(Quiet) /\ Quiet.pc = "done" /\ Quiet.is = "none" /\ Quiet.said = {}
  /\ Quiet.result = "none" /\ DOMAIN Quiet.pixels = {}
<1>1. /\ Quiet.pc = "done" /\ Quiet.is = "none" /\ Quiet.said = {} /\ Quiet.digest = FALSE
      /\ Quiet.result = "none" /\ DOMAIN Quiet.pixels = {} /\ Quiet.profiles = <<>>
  BY DEF Quiet
<1>2. Quiet = [is |-> Quiet.is, pc |-> Quiet.pc, digest |-> Quiet.digest,
               profiles |-> Quiet.profiles, pixels |-> Quiet.pixels,
               result |-> Quiet.result, said |-> Quiet.said]
  BY DEF Quiet
<1> QED BY <1>1, <1>2, EmptyProfile DEF Truthful, TalkTyped, Bounded

\* Harmless answers blame nobody.
LEMMA NobodyBlamed ==
  ASSUME NEW said, Harmless(said)
  PROVE  /\ \A c \in Calls : ~RefusedIn(said, c)
         /\ \A c \in {"reach", "info", "profiles"} : ~SilentIn(said, c)
<1>1. ASSUME NEW c \in Calls, RefusedIn(said, c) PROVE FALSE
  <2>1. ASSUME NEW second \in BOOLEAN, <<c, second, "auth">> \in said PROVE FALSE
    BY <2>1 DEF Harmless
  <2>2. c # "reach" /\ <<c, FALSE, "401">> \in said /\ (HasUser => <<c, TRUE, "401">> \in said)
    BY <1>1, <2>1 DEF RefusedIn
  <2>3. HasUser
    BY <2>2 DEF Harmless
  <2> QED BY <2>2, <2>3 DEF Harmless
<1>2. ASSUME NEW c \in {"reach", "info", "profiles"}, NEW second \in BOOLEAN, <<c, second, "down">> \in said
      PROVE  FALSE
  BY <1>2 DEF Harmless
<1> QED BY <1>1, <1>2 DEF SilentIn

LEMMA OneMoreHarmless ==
  ASSUME NEW said, Harmless(said), NEW c, NEW second, NEW a,
         a \in {"ok", "401", "odd"} \/ (c = "caps" /\ a \in {"fault", "down"}),
         c # "reach" /\ a = "401" => second = FALSE /\ HasUser
  PROVE  Harmless(said \union {<<c, second, a>>})
<1>1. \A p \in {<<c, second, a>>} : p[1] = c /\ p[2] = second /\ p[3] = a
  OBVIOUS
<1> QED BY <1>1 DEF Harmless

\* One answer more is typed.
LEMMA SaidTyped ==
  ASSUME Truthful(talk), NEW answer \in Answer, talk.pc \in Calls
  PROVE  Said(answer) \subseteq Calls \X BOOLEAN \X Answer
<1>1. <<talk.pc, talk.digest, answer>> \in Calls \X BOOLEAN \X Answer
  BY DEF Truthful, TalkTyped
<1> QED BY <1>1 DEF Truthful, TalkTyped, Said

\* A conversation is begun on a clean sheet.
LEMMA BeginsTalk ==
  ASSUME NEW is \in {"probe", "endpoints"}, NEW u,
         \/ is = "probe" /\ u = [Quiet EXCEPT !.is = is, !.pc = "reach"]
         \/ is = "probe" /\ u = [Quiet EXCEPT !.is = is, !.result = "misconfigured"]
         \/ is = "endpoints" /\ u = [Quiet EXCEPT !.is = is, !.pc = "caps"]
         \/ is = "endpoints" /\ u = [Quiet EXCEPT !.is = is, !.result = "raised"]
  PROVE  Truthful(u)
<1>1. PICK pc, result : 
        /\ u = [is |-> is, pc |-> pc, digest |-> FALSE, profiles |-> <<>>,
                pixels |-> [r \in {} |-> 0], result |-> result, said |-> {}]
        /\ \/ is = "probe" /\ pc = "reach" /\ result = "none"
           \/ is = "probe" /\ pc = "done" /\ result = "misconfigured"
           \/ is = "endpoints" /\ pc = "caps" /\ result = "none"
           \/ is = "endpoints" /\ pc = "done" /\ result = "raised"
  BY DEF Quiet
<1>2. /\ u.is = is /\ u.pc = pc /\ u.digest = FALSE /\ u.profiles = <<>>
      /\ DOMAIN u.pixels = {} /\ u.result = result /\ u.said = {}
  BY <1>1
<1>3. TalkTyped(u)
  BY <1>1, <1>2, EmptyProfile DEF TalkTyped, Calls
<1>4. Harmless(u.said)
  BY <1>2 DEF Harmless
<1>5. is = "probe" /\ pc = "done" => Reported(u)
  BY <1>1, <1>2, <1>4, NobodyBlamed DEF Reported
<1>6. pc = "reach" => SoFar(u)
  BY <1>2, <1>4 DEF SoFar
<1> QED BY <1>1, <1>2, <1>3, <1>5, <1>6 DEF Truthful, Bounded

\* What the three ways to change a conversation leave as it was.
LEMMA EndsAs ==
  ASSUME Truthful(talk), NEW result, NEW said, TalkEnds(result, said),
         result \in {"none", "ok", "unreachable", "auth_failed", "misconfigured", "error", "raised"},
         said \subseteq Calls \X BOOLEAN \X Answer
  PROVE  /\ TalkTyped(talk') /\ Bounded(talk') /\ talk'.pc = "done" /\ talk'.is = talk.is
         /\ talk'.result = result /\ talk'.said = said /\ talk'.profiles = talk.profiles
         /\ talk'.digest = talk.digest
<1>1. TalkTyped(talk) /\ Bounded(talk)
  BY DEF Truthful
<1>2. /\ talk' = [is |-> talk.is, pc |-> "done", digest |-> talk.digest, profiles |-> talk.profiles,
                  pixels |-> talk.pixels, result |-> result, said |-> said]
  BY <1>1 DEF TalkTyped, TalkEnds
<1>3. /\ talk'.is = talk.is /\ talk'.pc = "done" /\ talk'.digest = talk.digest
      /\ talk'.profiles = talk.profiles /\ talk'.pixels = talk.pixels
      /\ talk'.result = result /\ talk'.said = said
  BY <1>2
<1> QED BY <1>1, <1>2, <1>3 DEF TalkTyped, Bounded

LEMMA GoesOn ==
  ASSUME Truthful(talk), NEW pc \in Calls, NEW answer \in Answer, TalkGoes(pc, answer),
         talk.pc \in Calls
  PROVE  /\ TalkTyped(talk') /\ Bounded(talk') /\ talk'.pc = pc /\ talk'.is = talk.is
         /\ talk'.said = Said(answer) /\ talk'.profiles = talk.profiles
         /\ talk'.pixels = talk.pixels /\ talk'.result = talk.result /\ talk'.digest = FALSE
<1>1. TalkTyped(talk) /\ Bounded(talk)
  BY DEF Truthful
<1>2. PICK said : said = Said(answer)
  OBVIOUS
<1>3. said \subseteq Calls \X BOOLEAN \X Answer
  BY <1>2, SaidTyped
<1>4. /\ talk' = [is |-> talk.is, pc |-> pc, digest |-> FALSE, profiles |-> talk.profiles,
                  pixels |-> talk.pixels, result |-> talk.result, said |-> said]
  BY <1>1, <1>2 DEF TalkTyped, TalkGoes
<1>5. /\ talk'.is = talk.is /\ talk'.pc = pc /\ talk'.digest = FALSE
      /\ talk'.profiles = talk.profiles /\ talk'.pixels = talk.pixels
      /\ talk'.result = talk.result /\ talk'.said = said
  BY <1>4
<1> QED BY <1>1, <1>2, <1>3, <1>4, <1>5 DEF TalkTyped, Bounded

\* A second try is the user's, after a first that was answered 401.
LEMMA AsksAgain ==
  ASSUME Truthful(talk), NEW answer \in Answer, AskAgain(answer), talk.pc # "done"
  PROVE  Truthful(talk')
<1>1. /\ answer = "401" /\ HasUser /\ talk.digest = FALSE /\ talk.pc # "reach"
      /\ talk.pc \in Calls /\ TalkTyped(talk) /\ Bounded(talk)
  BY DEF AskAgain, SecondTry, Truthful, TalkTyped
<1>2. PICK said : said = Said(answer)
  OBVIOUS
<1>3. said \subseteq Calls \X BOOLEAN \X Answer
  BY <1>1, <1>2, SaidTyped
<1>4. talk' = [is |-> talk.is, pc |-> talk.pc, digest |-> TRUE, profiles |-> talk.profiles,
               pixels |-> talk.pixels, result |-> talk.result, said |-> said]
  BY <1>1, <1>2 DEF TalkTyped, AskAgain
<1>5. /\ talk'.is = talk.is /\ talk'.pc = talk.pc /\ talk'.digest = TRUE
      /\ talk'.profiles = talk.profiles /\ talk'.pixels = talk.pixels
      /\ talk'.result = talk.result /\ talk'.said = said
  BY <1>4
<1>6. TalkTyped(talk') /\ Bounded(talk')
  BY <1>1, <1>3, <1>4, <1>5 DEF TalkTyped, Bounded
<1>7. ASSUME talk.is = "probe" PROVE SoFar(talk')
  <2>1. SoFar(talk) /\ said = talk.said \union {<<talk.pc, FALSE, "401">>}
    BY <1>1, <1>2, <1>7 DEF Truthful, Said
  <2>2. Harmless(said)
    BY <1>1, <2>1, OneMoreHarmless DEF SoFar
  <2> QED BY <1>1, <1>5, <2>1, <2>2 DEF SoFar
<1>8. talk.is = "endpoints" => said = {}
  BY <1>2 DEF Said
<1> QED BY <1>1, <1>5, <1>6, <1>7, <1>8 DEF Truthful

\* A call that fails ends the conversation, and its diagnosis is the answer's; what was
\* refused is refused for good.
LEMMA FailsTruthfully ==
  ASSUME Truthful(talk), NEW answer \in {"401", "auth", "fault", "down"}, TalkFails(answer),
         ~SecondTry(answer), talk.pc \in {"reach", "info", "caps", "profiles"},
         talk.pc = "reach" => answer = "down", talk.pc = "caps" => answer \in Refusals
  PROVE  Truthful(talk')
<1>1. PICK result : result = IF talk.is = "probe" THEN Diagnosis(answer) ELSE "raised"
  OBVIOUS
<1>2. /\ answer \in Refusals => Diagnosis(answer) = "auth_failed"
      /\ answer = "down" => Diagnosis(answer) = "unreachable"
      /\ answer = "fault" => Diagnosis(answer) = "misconfigured"
  BY DEF Diagnosis, Refusals
<1>3. result \in {"unreachable", "auth_failed", "misconfigured", "raised"}
  BY <1>1, <1>2 DEF Refusals
<1>4. answer \in Answer /\ talk.pc \in Calls
  BY DEF Calls, Answer
<1>5. Said(answer) \subseteq Calls \X BOOLEAN \X Answer
  BY <1>4, SaidTyped
<1>6. /\ TalkTyped(talk') /\ Bounded(talk') /\ talk'.pc = "done" /\ talk'.is = talk.is
      /\ talk'.result = result /\ talk'.said = Said(answer) /\ talk'.profiles = talk.profiles
  <2>1. TalkEnds(result, Said(answer))
    BY <1>1 DEF TalkFails
  <2> QED BY <1>3, <1>5, <2>1, EndsAs
<1>7. ASSUME talk.is = "probe" PROVE Reported(talk')
  <2>1. SoFar(talk) /\ talk'.said = talk.said \union {<<talk.pc, talk.digest, answer>>}
    BY <1>6, <1>7 DEF Truthful, Said
  <2>2. talk'.result = Diagnosis(answer)
    BY <1>1, <1>6, <1>7
  <2>3. talk.digest \in BOOLEAN
    BY DEF Truthful, TalkTyped
  <2>4. answer = "401" => (HasUser <=> talk.digest)
    BY <2>1, <2>3 DEF SecondTry, SoFar
  <2>5. answer \in Refusals => RefusedIn(talk'.said, talk.pc)
    <3>1. CASE answer = "auth"
      BY <2>1, <2>3, <3>1 DEF RefusedIn
    <3>2. CASE answer = "401" /\ talk.digest
      BY <2>1, <3>2 DEF RefusedIn, SoFar
    <3>3. CASE answer = "401" /\ ~talk.digest
      BY <2>1, <2>3, <2>4, <3>3 DEF RefusedIn
    <3> QED BY <3>1, <3>2, <3>3 DEF Refusals
  <2>6. ASSUME NEW c \in Calls, answer \notin Refusals PROVE ~RefusedIn(talk'.said, c)
    <3>1. ~RefusedIn(talk.said, c)
      BY <2>1, NobodyBlamed DEF SoFar
    <3>2. \A second \in BOOLEAN, a \in Refusals :
            <<c, second, a>> \in talk'.said => <<c, second, a>> \in talk.said
      BY <2>1, <2>6
    <3> QED BY <3>1, <3>2 DEF RefusedIn, Refusals
  <2>7. \A c \in {"reach", "info", "profiles"} :
          SilentIn(talk'.said, c) <=> c = talk.pc /\ answer = "down"
    <3> SUFFICES ASSUME NEW c \in {"reach", "info", "profiles"}
                 PROVE  SilentIn(talk'.said, c) <=> c = talk.pc /\ answer = "down"
      OBVIOUS
    <3>1. ~SilentIn(talk.said, c)
      BY <2>1, NobodyBlamed DEF SoFar
    <3> QED BY <2>1, <2>3, <3>1 DEF SilentIn
  <2>8. talk'.result = "auth_failed" <=> answer \in Refusals
    BY <1>2, <2>2 DEF Refusals
  <2>9. talk'.result = "unreachable" <=> answer = "down"
    BY <1>2, <2>2 DEF Refusals
  <2>10. talk'.result # "ok"
    BY <1>2, <2>2 DEF Refusals
  <2>11. answer = "down" => talk.pc \in {"reach", "info", "profiles"}
    BY DEF Refusals
  <2>12. talk'.result = "auth_failed" <=> \E c \in Calls : RefusedIn(talk'.said, c)
    BY <1>4, <2>5, <2>6, <2>8
  <2>13. talk'.result = "unreachable"
           <=> \E c \in {"reach", "info", "profiles"} : SilentIn(talk'.said, c)
    BY <2>7, <2>9, <2>11
  <2> QED BY <2>10, <2>12, <2>13 DEF Reported
<1>8. talk.is = "endpoints" => talk'.said = {}
  BY <1>6 DEF Said
<1>9. talk.is # "none"
  BY DEF Truthful
<1> QED BY <1>6, <1>7, <1>8, <1>9 DEF Truthful

LEMMA ReachStep ==
  ASSUME Truthful(talk), NEW answer \in Answer, Reach(answer), ~SecondTry(answer)
  PROVE  Truthful(talk')
<1>1. talk.is = "probe" /\ SoFar(talk) /\ talk.pc = "reach" /\ answer \in {"ok", "401", "down"}
  BY DEF Reach, Truthful, TalkTyped
<1>2. CASE answer = "down"
  BY <1>1, <1>2, FailsTruthfully DEF Reach
<1>3. CASE answer # "down"
  <2>1. TalkGoes("info", answer) /\ "info" \in Calls /\ talk.pc \in Calls
    BY <1>3 DEF Reach, Calls
  <2>2. /\ TalkTyped(talk') /\ Bounded(talk') /\ talk'.pc = "info" /\ talk'.is = talk.is
        /\ talk'.said = Said(answer) /\ talk'.pixels = talk.pixels /\ talk'.digest = FALSE
    BY <2>1, GoesOn
  <2>3. talk'.said = talk.said \union {<<"reach", talk.digest, answer>>}
    BY <1>1, <2>2 DEF Said
  <2>4. Harmless(talk'.said)
    <3>1. answer \in {"ok", "401", "odd"} /\ Harmless(talk.said)
      BY <1>1, <1>3 DEF SoFar
    <3>2. Harmless(talk.said \union {<<"reach", talk.digest, answer>>})
      BY <3>1, OneMoreHarmless
    <3> QED BY <2>3, <3>2
  <2>5. SoFar(talk')
    BY <2>2, <2>4 DEF SoFar
  <2>6. DOMAIN talk.pixels = {}
    BY DEF Truthful, Reach
  <2> QED BY <1>1, <2>2, <2>5, <2>6 DEF Truthful
<1> QED BY <1>2, <1>3

LEMMA InformationStep ==
  ASSUME Truthful(talk), NEW answer \in Answer, AskInformation(answer), ~SecondTry(answer)
  PROVE  Truthful(talk')
<1>1. talk.is = "probe" /\ SoFar(talk) /\ talk.pc = "info" /\ talk.digest \in BOOLEAN
  BY DEF AskInformation, Truthful, TalkTyped
<1>2. CASE answer # "ok"
  <2>1. answer \in {"401", "auth", "fault", "down"} /\ TalkFails(answer)
    BY <1>2 DEF AskInformation, Answer
  <2> QED BY <1>1, <2>1, FailsTruthfully
<1>3. CASE answer = "ok"
  <2>1. TalkGoes("caps", "ok") /\ "caps" \in Calls /\ "ok" \in Answer /\ talk.pc \in Calls
    BY <1>3 DEF AskInformation, Calls, Answer
  <2>2. /\ TalkTyped(talk') /\ Bounded(talk') /\ talk'.pc = "caps" /\ talk'.is = talk.is
        /\ talk'.said = Said("ok") /\ talk'.pixels = talk.pixels /\ talk'.digest = FALSE
    BY <2>1, GoesOn
  <2>3. talk'.said = talk.said \union {<<"info", talk.digest, "ok">>}
    BY <1>1, <2>2 DEF Said
  <2>4. Harmless(talk'.said)
    <3>1. Harmless(talk.said)
      BY <1>1 DEF SoFar
    <3>2. Harmless(talk.said \union {<<"info", talk.digest, "ok">>})
      BY <3>1, OneMoreHarmless
    <3> QED BY <2>3, <3>2
  <2>5. SoFar(talk')
    BY <1>1, <2>2, <2>3, <2>4 DEF SoFar
  <2>6. DOMAIN talk.pixels = {}
    BY DEF Truthful, AskInformation
  <2> QED BY <1>1, <2>2, <2>5, <2>6 DEF Truthful
<1> QED BY <1>2, <1>3

LEMMA MediaPathStep ==
  ASSUME Truthful(talk), NEW answer \in Answer, AskMediaPath(answer), ~SecondTry(answer)
  PROVE  Truthful(talk')
<1>1. CASE answer \in Refusals
  <2>1. TalkFails(answer) /\ talk.pc = "caps" /\ answer \in {"401", "auth", "fault", "down"}
    BY <1>1 DEF AskMediaPath, Refusals
  <2> QED BY <1>1, <2>1, FailsTruthfully
<1>2. CASE answer \notin Refusals
  <2>1. TalkGoes("profiles", answer) /\ "profiles" \in Calls /\ talk.pc \in Calls
    BY <1>2 DEF AskMediaPath, Calls
  <2>2. /\ TalkTyped(talk') /\ Bounded(talk') /\ talk'.pc = "profiles" /\ talk'.is = talk.is
        /\ talk'.said = Said(answer) /\ talk'.pixels = talk.pixels /\ talk'.digest = FALSE
    BY <2>1, GoesOn
  <2>3. ASSUME talk.is = "probe" PROVE SoFar(talk')
    <3>1. SoFar(talk) /\ answer \in {"ok", "fault", "down"} /\ talk.pc = "caps"
      BY <1>2, <2>3 DEF Truthful, AskMediaPath, Answer, Refusals
    <3>2. talk'.said = talk.said \union {<<"caps", talk.digest, answer>>}
      BY <2>2, <2>3, <3>1 DEF Said
    <3>3. Harmless(talk'.said)
      <4>1. Harmless(talk.said) /\ answer # "401"
        BY <3>1 DEF SoFar
      <4>2. Harmless(talk.said \union {<<"caps", talk.digest, answer>>})
        BY <3>1, <4>1, OneMoreHarmless
      <4> QED BY <3>2, <4>2
    <3>4. \E second \in BOOLEAN : <<"info", second, "ok">> \in talk'.said
      BY <3>1, <3>2 DEF SoFar
    <3> QED BY <2>2, <3>3, <3>4 DEF SoFar
  <2>4. talk.is = "endpoints" => talk'.said = {}
    BY <2>2 DEF Said
  <2>5. DOMAIN talk.pixels = {} /\ talk.is # "none" /\ talk.is \in {"none", "probe", "endpoints"}
    BY DEF Truthful, AskMediaPath, TalkTyped
  <2> QED BY <2>2, <2>3, <2>4, <2>5 DEF Truthful
<1> QED BY <1>1, <1>2

\* A device whose profiles are heard has answered all that a probe asks.
LEMMA ProfilesStep ==
  ASSUME Truthful(talk), NEW answer \in Answer, AskProfiles(answer), ~SecondTry(answer)
  PROVE  Truthful(talk')
<1>1. /\ talk.pc = "profiles" /\ talk.is \in {"probe", "endpoints"} /\ DOMAIN talk.pixels = {}
      /\ talk.pc \in Calls /\ talk.digest \in BOOLEAN
  BY DEF AskProfiles, Truthful, TalkTyped, Calls
<1>2. Said(answer) \subseteq Calls \X BOOLEAN \X Answer
  BY <1>1, SaidTyped
<1>3. CASE answer \in {"401", "auth", "fault", "down"}
  <2>1. TalkFails(answer)
    BY <1>3 DEF AskProfiles, Refusals
  <2> QED BY <1>1, <1>3, <2>1, FailsTruthfully
<1>4. talk.is = "endpoints" => Said(answer) = {}
  BY DEF Said
<1>5. ASSUME talk.is = "probe", answer \in {"ok", "odd"}
      PROVE  /\ Said(answer) = talk.said \union {<<"profiles", talk.digest, answer>>}
             /\ \A c \in Calls : ~RefusedIn(Said(answer), c)
             /\ \A c \in {"reach", "info", "profiles"} : ~SilentIn(Said(answer), c)
             /\ \E second \in BOOLEAN : <<"info", second, "ok">> \in Said(answer)
  <2>1. SoFar(talk) /\ Said(answer) = talk.said \union {<<"profiles", talk.digest, answer>>}
    BY <1>1, <1>5 DEF Truthful, Said
  <2>2. PICK said : said = Said(answer)
    OBVIOUS
  <2>3. Harmless(said)
    <3>1. Harmless(talk.said) /\ answer # "401" /\ answer \in {"ok", "401", "odd"}
      BY <1>5, <2>1 DEF SoFar
    <3>2. Harmless(talk.said \union {<<"profiles", talk.digest, answer>>})
      BY <3>1, OneMoreHarmless
    <3> QED BY <2>1, <2>2, <3>2
  <2>4. \E second \in BOOLEAN : <<"info", second, "ok">> \in said
    BY <1>1, <2>1, <2>2 DEF SoFar
  <2> QED BY <2>1, <2>2, <2>3, <2>4, NobodyBlamed
<1>6. ASSUME NEW result \in {"error", "misconfigured", "raised"}, answer \in {"ok", "odd"},
             TalkEnds(result, Said(answer))
      PROVE  Truthful(talk')
  <2>1. /\ TalkTyped(talk') /\ Bounded(talk') /\ talk'.pc = "done" /\ talk'.is = talk.is
        /\ talk'.result = result /\ talk'.said = Said(answer)
    BY <1>2, <1>6, EndsAs
  <2>2. talk.is = "probe" => Reported(talk')
    BY <1>5, <1>6, <2>1 DEF Reported
  <2> QED BY <1>1, <1>4, <2>1, <2>2 DEF Truthful
<1>7. CASE answer = "odd"
  <2>1. PICK result : result = IF talk.is = "probe" THEN "error" ELSE "raised"
    OBVIOUS
  <2>2. TalkEnds(result, Said(answer)) /\ result \in {"error", "raised"}
    BY <1>7, <2>1 DEF AskProfiles, Refusals
  <2> QED BY <1>6, <1>7, <2>2
<1>8. CASE answer = "ok"
  <2>1. PICK ps \in Profiles :
          IF ps = <<>> THEN TalkEnds(IF talk.is = "probe" THEN "misconfigured" ELSE "raised", Said(answer))
          ELSE talk' = [talk EXCEPT !.profiles = ps, !.said = Said(answer), !.digest = FALSE,
                 !.pc = IF talk.is = "probe" THEN "done" ELSE "main",
                 !.result = IF talk.is = "probe" THEN "ok" ELSE "none"]
    BY <1>8 DEF AskProfiles, Refusals
  <2>2. CASE ps = <<>>
    BY <1>1, <1>6, <1>8, <2>1, <2>2
  <2>3. CASE ps # <<>>
    <3>1. PICK pc, result, said :
            /\ pc = IF talk.is = "probe" THEN "done" ELSE "main"
            /\ result = IF talk.is = "probe" THEN "ok" ELSE "none"
            /\ said = Said(answer)
      OBVIOUS
    <3>2. talk' = [is |-> talk.is, pc |-> pc, digest |-> FALSE, profiles |-> ps,
                   pixels |-> talk.pixels, result |-> result, said |-> said]
      <4>1. talk = [is |-> talk.is, pc |-> talk.pc, digest |-> talk.digest, profiles |-> talk.profiles,
                    pixels |-> talk.pixels, result |-> talk.result, said |-> talk.said]
        BY DEF Truthful, TalkTyped
      <4>2. talk' = [talk EXCEPT !.profiles = ps, !.said = said, !.digest = FALSE, !.pc = pc,
                                 !.result = result]
        BY <2>1, <2>3, <3>1
      <4> QED BY <4>1, <4>2
    <3>3. /\ talk'.is = talk.is /\ talk'.pc = pc /\ talk'.digest = FALSE /\ talk'.profiles = ps
          /\ talk'.pixels = talk.pixels /\ talk'.result = result /\ talk'.said = said
      BY <3>2
    <3>4. TalkTyped(talk')
      BY <1>1, <1>2, <3>1, <3>2, <3>3 DEF TalkTyped, Calls
    <3>5. Bounded(talk')
      BY <1>1, <3>3 DEF Bounded
    <3>6. CASE talk.is = "probe"
      <4>1. <<"profiles", talk.digest, "ok">> \in said
        BY <1>5, <1>8, <3>1, <3>6
      <4>2. Reported(talk')
        BY <1>1, <1>5, <1>8, <3>1, <3>3, <3>6, <4>1 DEF Reported
      <4> QED BY <3>1, <3>3, <3>4, <3>5, <3>6, <4>2 DEF Truthful
    <3>7. CASE talk.is = "endpoints"
      BY <1>4, <2>3, <3>1, <3>3, <3>4, <3>5, <3>7 DEF Truthful
    <3> QED BY <1>1, <3>6, <3>7
  <2> QED BY <2>2, <2>3
<1> QED BY <1>3, <1>7, <1>8 DEF Answer

\* Of a device with profiles one is the best, and one the poorest.
LEMMA Chosen ==
  ASSUME Truthful(talk), talk.profiles # <<>>, NEW role \in {"main", "sub"}
  PROVE  /\ ChosenPixels(role) \in {talk.profiles[i] : i \in DOMAIN talk.profiles}
         /\ \A px \in {talk.profiles[i] : i \in DOMAIN talk.profiles} :
              IF role = "main" THEN px <= ChosenPixels(role) ELSE px >= ChosenPixels(role)
<1>1. PICK ps : ps = talk.profiles
  OBVIOUS
<1>2. PICK n \in 0 .. MaxProfiles : ps \in [1 .. n -> Pixels]
  BY <1>1 DEF Truthful, TalkTyped, Profiles
<1>3. n \in Nat \ {0}
  BY <1>1, <1>2, OnvifAssumption
<1>4. ps \in [1 .. n -> Nat] /\ DOMAIN ps = 1 .. n
  BY <1>2, OnvifAssumption
<1> DEFINE S == {ps[i] : i \in DOMAIN ps}
<1>5. S \in SUBSET Nat /\ S # {}
  BY <1>3, <1>4
<1>6. \E px \in S : \A i \in DOMAIN ps : IF role = "main" THEN ps[i] <= px ELSE ps[i] >= px
  <2>1. CASE role = "main"
    <3>1. PICK m \in 1 .. n : \A i \in 1 .. n : ps[i] <= ps[m]
      BY <1>3, <1>4, Largest
    <3>2. ps[m] \in S
      BY <1>4
    <3> QED BY <1>4, <2>1, <3>1, <3>2
  <2>2. CASE role # "main"
    <3>1. PICK px \in S : \A y \in S : px <= y
      BY <1>5, Smallest
    <3>2. \A i \in DOMAIN ps : ps[i] \in S
      OBVIOUS
    <3>3. px \in Nat /\ \A i \in DOMAIN ps : ps[i] \in Nat
      BY <1>5, <3>2
    <3> HIDE DEF S
    <3>4. \A i \in DOMAIN ps : ps[i] >= px
      BY <3>1, <3>2, <3>3
    <3> QED BY <2>2, <3>4
  <2> QED BY <2>1, <2>2
<1> HIDE DEF S
<1>7. ChosenPixels(role) = CHOOSE px \in S :
        \A i \in DOMAIN ps : IF role = "main" THEN ps[i] <= px ELSE ps[i] >= px
  BY <1>1 DEF ChosenPixels, S
<1>8. /\ ChosenPixels(role) \in S
      /\ \A i \in DOMAIN ps :
           IF role = "main" THEN ps[i] <= ChosenPixels(role) ELSE ps[i] >= ChosenPixels(role)
  BY <1>6, <1>7
<1> QED BY <1>1, <1>8 DEF S

\* An endpoint of the best profile, or of the poorest, is added to those there are.
LEMMA UriStep ==
  ASSUME Truthful(talk), NEW answer \in Answer, AskUri(answer)
  PROVE  Truthful(talk')
<1>1. /\ talk.pc \in {"main", "sub"} /\ talk.is = "endpoints" /\ talk.profiles # <<>>
      /\ talk.said = {} /\ TalkTyped(talk) /\ Bounded(talk)
  BY DEF AskUri, Truthful, TalkTyped
<1>2. Said(answer) = {}
  BY <1>1 DEF Said
<1>3. CASE answer # "ok"
  <2>1. TalkEnds("raised", Said(answer))
    BY <1>3 DEF AskUri
  <2>2. /\ TalkTyped(talk') /\ Bounded(talk') /\ talk'.pc = "done" /\ talk'.is = talk.is
        /\ talk'.result = "raised" /\ talk'.said = Said(answer)
    BY <1>2, <2>1, EndsAs
  <2> QED BY <1>1, <1>2, <2>2 DEF Truthful
<1>4. CASE answer = "ok"
  <2>1. PICK role \in {"main", "sub"} : role = talk.pc
    BY <1>1
  <2>2. PICK more \in BOOLEAN : more = (role = "main" /\ Len(talk.profiles) > 1)
    OBVIOUS
  <2>3. PICK pixels :
          pixels = [r \in DOMAIN talk.pixels \union {role} |->
                     IF r = role THEN ChosenPixels(role) ELSE talk.pixels[r]]
    OBVIOUS
  <2>4. PICK pc, result :
          /\ pc = IF role = "main" /\ Len(talk.profiles) > 1 THEN "sub" ELSE "done"
          /\ result = IF role = "main" /\ Len(talk.profiles) > 1 THEN "none" ELSE "ok"
    OBVIOUS
  <2>5. talk' = [talk EXCEPT !.digest = FALSE, !.said = Said(answer),
          !.pixels = [r \in DOMAIN @ \union {role} |-> IF r = role THEN ChosenPixels(role) ELSE @[r]],
          !.pc = IF role = "main" /\ Len(talk.profiles) > 1 THEN "sub" ELSE "done",
          !.result = IF role = "main" /\ Len(talk.profiles) > 1 THEN "none" ELSE "ok"]
    BY <1>4, <2>1 DEF AskUri
  <2>6. talk' = [talk EXCEPT !.digest = FALSE, !.said = {}, !.pixels = pixels,
                             !.pc = pc, !.result = result]
    BY <1>2, <2>3, <2>4, <2>5
  <2>7. talk' = [is |-> talk.is, pc |-> pc, digest |-> FALSE, profiles |-> talk.profiles,
                 pixels |-> pixels, result |-> result, said |-> {}]
    BY <1>1, <2>6 DEF TalkTyped
  <2>8. /\ talk'.is = talk.is /\ talk'.pc = pc /\ talk'.digest = FALSE
        /\ talk'.profiles = talk.profiles /\ talk'.pixels = pixels /\ talk'.result = result
        /\ talk'.said = {}
    BY <2>7
  <2>9. pc \in {"sub", "done"} /\ result \in {"none", "ok"}
    BY <2>4
  <2>10. DOMAIN pixels \subseteq {"main", "sub"}
    BY <1>1, <2>3 DEF TalkTyped
  <2>11. TalkTyped(talk')
    BY <1>1, <2>7, <2>8, <2>9, <2>10 DEF TalkTyped, Calls
  <2>12. Bounded(talk')
    <3> SUFFICES ASSUME NEW r \in DOMAIN pixels
                 PROVE  /\ pixels[r] \in {talk.profiles[i] : i \in DOMAIN talk.profiles}
                        /\ \A px \in {talk.profiles[i] : i \in DOMAIN talk.profiles} :
                             IF r = "main" THEN px <= pixels[r] ELSE px >= pixels[r]
      BY <2>8 DEF Bounded
    <3>1. CASE r = role
      <4>1. pixels[r] = ChosenPixels(role)
        BY <2>3, <3>1
      <4> QED BY <1>1, <3>1, <4>1, Chosen
    <3>2. CASE r # role
      <4>1. pixels[r] = talk.pixels[r] /\ r \in DOMAIN talk.pixels
        BY <2>3, <3>2
      <4> QED BY <1>1, <4>1 DEF Bounded
    <3> QED BY <3>1, <3>2
  <2> QED BY <1>1, <2>8, <2>9, <2>11, <2>12 DEF Truthful
<1> QED BY <1>3, <1>4

LEMMA TalkStep ==
  ASSUME Truthful(talk), TalkSteps
  PROVE  Truthful(talk')
<1>1. PICK answer \in Answer :
        \/ AskAgain(answer)
        \/ /\ ~SecondTry(answer)
           /\ \/ Reach(answer) \/ AskInformation(answer) \/ AskMediaPath(answer)
              \/ AskProfiles(answer) \/ AskUri(answer)
  BY DEF TalkSteps
<1>2. talk.pc # "done"
  BY DEF TalkSteps
<1> QED
  BY <1>1, <1>2, AsksAgain, ReachStep, InformationStep, MediaPathStep, ProfilesStep, UriStep

LEMMA TruthfulReports ==
  ASSUME Truthful(talk)
  PROVE  ReportsWhatHappened /\ OnvifTypeOK
<1>1. OnvifTypeOK
  BY DEF Truthful, TalkTyped, OnvifTypeOK
<1>2. ASSUME talk.pc = "done", talk.is = "probe" PROVE ProbeDiagnosed
  <2>1. Reported(talk)
    BY <1>2 DEF Truthful
  <2>2. \A c \in Calls : Refused(c) <=> RefusedIn(talk.said, c)
    BY DEF Refused, RefusedIn
  <2>3. \A c \in {"reach", "info", "profiles"} : Silent(c) <=> SilentIn(talk.said, c)
    BY DEF Silent, SilentIn
  <2>4. talk.result = "ok" => Heard("info") /\ Heard("profiles")
    BY <2>1 DEF Reported, Heard
  <2> QED BY <2>1, <2>2, <2>3, <2>4 DEF ProbeDiagnosed, Reported
<1>3. EndpointsChosen
  BY DEF Truthful, Bounded, EndpointsChosen
<1> QED BY <1>1, <1>2, <1>3 DEF ReportsWhatHappened, ProbeDiagnosed

LEMMA ProbeStep == Truthful(talk) /\ [ProbeNext]_talk => Truthful(talk)'
<1> SUFFICES ASSUME Truthful(talk), [ProbeNext]_talk PROVE Truthful(talk')
  OBVIOUS
<1>1. CASE StartProbe
  <2>1. \/ talk' = [Quiet EXCEPT !.is = "probe", !.pc = "reach"]
        \/ talk' = [Quiet EXCEPT !.is = "probe", !.result = "misconfigured"]
    BY <1>1 DEF StartProbe
  <2> QED BY <2>1, BeginsTalk
<1>2. CASE TalkSteps
  BY <1>2, TalkStep
<1>3. CASE ProbeAnswered
  BY <1>3, QuietIs DEF ProbeAnswered
<1>4. CASE UNCHANGED talk
  BY <1>4
<1> QED BY <1>1, <1>2, <1>3, <1>4 DEF ProbeNext

\* What a probe of any device reports is what happened (onvif.py 3-4), with a user or
\* without: the credentials are blamed exactly when a call was refused for good (401 on
\* every try there was, or a fault that names authentication on one), the network when
\* a call that cannot be done without got no answer.
THEOREM ProbesTellTheTruth == ProbeSpec => [](OnvifTypeOK /\ ReportsWhatHappened)
<1>1. talk = Quiet => Truthful(talk)
  BY QuietIs
<1> QED BY <1>1, ProbeStep, TruthfulReports, PTL DEF ProbeSpec

-----------------------------------------------------------------------------
(* The gateway's types, and the conversations a sync holds.                *)

SyncTyped(s) ==
  /\ s.pc \in {"none", "building", "restarting"} /\ s.cams \subseteq Cam /\ s.todo \subseteq Cam
  /\ s.asking \subseteq Cam /\ s.streams \subseteq Stream /\ s.skipped \subseteq Cam

GatewayTyped ==
  /\ GatewayInv /\ Truthful(talk) /\ confFile \subseteq Stream /\ serves \subseteq Stream
  /\ up \in BOOLEAN /\ unheard \in BOOLEAN /\ SyncTyped(syncing)
  /\ managed = [cams |-> managed.cams, skipped |-> managed.skipped]
  /\ managed.cams \subseteq Cam /\ managed.skipped \subseteq Cam

LEMMA NoSyncTyped == SyncTyped(NoSync)
  BY DEF SyncTyped, NoSync

LEMMA SettlesTyped ==
  ASSUME GatewayTyped, NEW c \in Cam, NEW roles, Settles(c, roles), roles \subseteq {"main", "sub"}
  PROVE  SyncTyped(syncing')
<1>1. /\ syncing'.pc = syncing.pc /\ syncing'.cams = syncing.cams
      /\ syncing'.todo = syncing.todo \ {c} /\ syncing'.asking = {}
      /\ syncing'.streams = syncing.streams \union ({c} \X roles)
      /\ syncing'.skipped = IF roles = {} THEN syncing.skipped \union {c} ELSE syncing.skipped
  BY DEF GatewayTyped, GatewayInv, SyncFields, Settles
<1>2. {c} \X roles \subseteq Stream
  BY DEF Stream
<1> QED BY <1>1, <1>2 DEF GatewayTyped, SyncTyped

LEMMA GatewayTypedStep ==
  ASSUME GatewayTyped, [GatewayNext]_gatewayVars
  PROVE  GatewayTyped'
<1>1. GatewayInv'
  BY GatewayStep DEF GatewayTyped
<1>2. CASE StartSync
  <2>1. PICK cs \in SUBSET Cam :
          syncing' = [NoSync EXCEPT !.pc = "building", !.cams = cs, !.todo = cs]
    BY <1>2 DEF StartSync
  <2>2. SyncTyped(syncing')
    BY <2>1 DEF NoSync, SyncTyped
  <2> QED BY <1>1, <1>2, <2>2 DEF StartSync, GatewayTyped, SyncTyped
<1>3. ASSUME NEW c \in Cam, AskAtHome(c) PROVE GatewayTyped'
  <2>1. PICK roles : Settles(c, roles) /\ roles \subseteq {"main", "sub"}
    BY <1>3 DEF AskAtHome, RtspRoles
  <2>2. SyncTyped(syncing')
    BY <2>1, SettlesTyped
  <2> QED BY <1>1, <1>3, <2>2 DEF AskAtHome, GatewayTyped, SyncTyped
<1>4. ASSUME NEW c \in Cam, AskDevice(c) PROVE GatewayTyped'
  <2>1. Truthful(talk')
    <3>1. \/ talk' = [Quiet EXCEPT !.is = "endpoints", !.pc = "caps"]
          \/ talk' = [Quiet EXCEPT !.is = "endpoints", !.result = "raised"]
      BY <1>4 DEF AskDevice
    <3> QED BY <3>1, BeginsTalk
  <2>2. SyncTyped(syncing')
    BY <1>4 DEF AskDevice, GatewayTyped, GatewayInv, SyncFields, SyncTyped
  <2> QED BY <1>1, <1>4, <2>1, <2>2 DEF AskDevice, GatewayTyped, SyncTyped
<1>5. ASSUME NEW c \in Cam, DeviceSaid(c) PROVE GatewayTyped'
  <2>1. PICK roles : Settles(c, roles) /\ roles \subseteq {"main", "sub"}
    <3>1. DOMAIN talk.pixels \subseteq {"main", "sub"}
      BY DEF GatewayTyped, Truthful, TalkTyped
    <3> QED BY <1>5, <3>1 DEF DeviceSaid
  <2>2. SyncTyped(syncing')
    BY <2>1, SettlesTyped
  <2>3. Truthful(talk')
    BY <1>5, QuietIs DEF DeviceSaid
  <2> QED BY <1>1, <1>5, <2>2, <2>3 DEF DeviceSaid, GatewayTyped, SyncTyped
<1>6. CASE WriteConfig
  <2>1. SyncTyped(syncing')
    <3>1. CASE syncing' = NoSync
      BY <3>1, NoSyncTyped
    <3>2. CASE syncing' = [syncing EXCEPT !.pc = "restarting"]
      BY <3>2 DEF GatewayTyped, GatewayInv, SyncFields, SyncTyped
    <3> QED BY <1>6, <3>1, <3>2 DEF WriteConfig
  <2>2. /\ managed' = [cams |-> managed'.cams, skipped |-> managed'.skipped]
        /\ managed'.cams \subseteq Cam /\ managed'.skipped \subseteq Cam
        /\ confFile' \subseteq Stream
    BY <1>6 DEF WriteConfig, GatewayTyped, SyncTyped
  <2> QED BY <1>1, <1>6, <2>1, <2>2 DEF WriteConfig, GatewayTyped, SyncTyped
<1>7. CASE AskRestart
  <2>1. SyncTyped(syncing')
    BY <1>7, NoSyncTyped DEF AskRestart
  <2> QED BY <1>1, <1>7, <2>1 DEF AskRestart, GatewayTyped, SyncTyped
<1>8. CASE GatewayReads
  BY <1>1, <1>8 DEF GatewayReads, GatewayTyped, SyncTyped
<1>9. CASE GatewayHangs
  BY <1>1, <1>9 DEF GatewayHangs, GatewayTyped, SyncTyped
<1>10. CASE DeviceTalks
  <2>1. Truthful(talk')
    BY <1>10, TalkStep DEF DeviceTalks, GatewayTyped
  <2> QED BY <1>1, <1>10, <2>1 DEF DeviceTalks, GatewayTyped, SyncTyped
<1>11. CASE UNCHANGED gatewayVars
  BY <1>1, <1>11 DEF gatewayVars, GatewayTyped, SyncTyped
<1> QED
  BY <1>2, <1>3, <1>4, <1>5, <1>6, <1>7, <1>8, <1>9, <1>10, <1>11 DEF GatewayNext

LEMMA GatewayStarts == GatewayInit => GatewayTyped
<1> SUFFICES ASSUME GatewayInit PROVE GatewayTyped
  OBVIOUS
<1>1. GatewayInv
  BY DEF GatewayInit, NoSync, Nowhere, GatewayInv, SyncFields, Gathered, FileIsManaged,
         ServesTheFile, CamsOf
<1> QED BY <1>1, QuietIs, NoSyncTyped DEF GatewayInit, GatewayTyped, Nowhere

LEMMA GatewayTypes ==
  ASSUME GatewayTyped
  PROVE  GatewayTypeOK /\ ReportsWhatHappened /\ StreamsServedOrSkipped
<1>1. OnvifTypeOK /\ ReportsWhatHappened
  BY TruthfulReports DEF GatewayTyped
<1>2. syncing \in [pc : {"none", "building", "restarting"}, cams : SUBSET Cam, todo : SUBSET Cam,
                   asking : SUBSET Cam, streams : SUBSET Stream, skipped : SUBSET Cam]
  BY DEF GatewayTyped, GatewayInv, SyncFields, SyncTyped
<1>3. managed \in [cams : SUBSET Cam, skipped : SUBSET Cam]
  BY DEF GatewayTyped
<1>4. StreamsServedOrSkipped
  <2> SUFFICES ASSUME syncing = NoSync, ~unheard
               PROVE  CamsOf(serves) = managed.cams \ managed.skipped
    BY DEF StreamsServedOrSkipped, CamsOf
  <2>1. syncing.pc = "none"
    BY DEF NoSync
  <2> QED BY <2>1 DEF GatewayTyped, GatewayInv, ServesTheFile, FileIsManaged
<1> QED BY <1>1, <1>2, <1>3, <1>4 DEF GatewayTyped, GatewayTypeOK

\* Between two syncs the gateway streams exactly the cameras of the last one that
\* were not left out, unless the last restart was asked for in vain: not heard, or
\* refused (go2rtc.py 140-171).
THEOREM ServedAsSynced == GatewaySpec => []StreamsServedOrSkipped
  BY GatewayStarts, GatewayTypedStep, GatewayTypes, PTL DEF GatewaySpec

\* The endpoints a sync works with are of the device's best profile and of its
\* poorest, whatever its profiles (onvif.py 403-429, go2rtc.py 140-171).
THEOREM SyncedEndpoints == GatewaySpec => [](GatewayTypeOK /\ EndpointsChosen)
<1>1. GatewayTyped => GatewayTypeOK /\ EndpointsChosen
  BY GatewayTypes DEF ReportsWhatHappened
<1> QED BY <1>1, GatewayStarts, GatewayTypedStep, PTL DEF GatewaySpec

-----------------------------------------------------------------------------
(* The tracker.                                                            *)

LEMMA SmallestSet ==
  ASSUME NEW S, IsFiniteSet(S), NEW T \in SUBSET (SUBSET S), T # {}
  PROVE  \E x \in T : \A y \in T : y \subseteq x => y = x
<1>1. IsWellFoundedOn(StrictSubsetOrdering(S), FiniteSubsetsOf(S)) /\ T \subseteq FiniteSubsetsOf(S)
  BY FS_StrictSubsetOrderingWellFounded, FS_FiniteSubsetsOfFinite
<1>2. PICK x \in T : \A y \in T : <<y, x>> \notin StrictSubsetOrdering(S)
  BY <1>1, WFMin
<1> QED BY <1>2 DEF StrictSubsetOrdering

\* Pairs that overlap are put in one order: by overlap, then as they came.
LEMMA BeforeIsAnOrder ==
  ASSUME NEW pairs \in SUBSET (Nat \X Nat), NEW score \in [pairs -> Nat],
         NEW p \in pairs, NEW q \in pairs, NEW r \in pairs
  PROVE  /\ ~Before(p, p, score)
         /\ Before(p, q, score) /\ Before(q, r, score) => Before(p, r, score)
         /\ p = q \/ Before(p, q, score) \/ Before(q, p, score)
         /\ Before(p, q, score) => score[p] >= score[q]
<1>1. /\ p = <<p[1], p[2]>> /\ q = <<q[1], q[2]>> /\ r = <<r[1], r[2]>>
      /\ p[1] \in Nat /\ p[2] \in Nat /\ q[1] \in Nat /\ q[2] \in Nat /\ r[1] \in Nat /\ r[2] \in Nat
  OBVIOUS
<1>2. score[p] \in Nat /\ score[q] \in Nat /\ score[r] \in Nat
  OBVIOUS
<1> QED BY <1>1, <1>2 DEF Before

\* Some pair comes last.
LEMMA LastPair ==
  ASSUME NEW pairs \in SUBSET (Nat \X Nat), IsFiniteSet(pairs), NEW score \in [pairs -> Nat],
         NEW S \in SUBSET pairs, S # {}
  PROVE  \E p \in S : \A q \in S : ~Before(p, q, score)
<1> DEFINE Endless == {U \in SUBSET pairs : U # {} /\ \A p \in U : \E q \in U : Before(p, q, score)}
<1> SUFFICES ASSUME S \in Endless PROVE FALSE
  OBVIOUS
<1>1. PICK U \in Endless : \A V \in Endless : V \subseteq U => V = U
  <2>1. Endless \in SUBSET (SUBSET pairs) /\ Endless # {}
    OBVIOUS
  <2> HIDE DEF Endless
  <2> QED BY <2>1, SmallestSet
<1>2. PICK p \in U : TRUE
  BY <1>1
<1> DEFINE V == {q \in U : Before(p, q, score)}
<1>3. V # {}
  BY <1>1, <1>2
<1>4. ASSUME NEW q \in V PROVE \E r \in V : Before(q, r, score)
  <2>1. PICK r \in U : Before(q, r, score)
    BY <1>1, <1>4
  <2>2. Before(p, r, score)
    BY <1>1, <1>2, <1>4, <2>1, BeforeIsAnOrder
  <2> QED BY <2>1, <2>2
<1>5. V \in Endless
  BY <1>1, <1>3, <1>4
<1>6. p \notin V
  BY <1>1, <1>2, BeforeIsAnOrder
<1> QED BY <1>1, <1>2, <1>5, <1>6

Excludes(p, q, score) == Before(p, q, score) /\ (p[1] = q[1] \/ p[2] = q[2])
GreedyOf(match, S, score) == \A p \in S : p \in match <=> ~ \E q \in match : Excludes(q, p, score)

\* So one can go through them and take each that nothing taken before it excludes:
\* with a greedy choice of all but the last, there is one of all.
LEMMA GreedyExists ==
  ASSUME NEW pairs \in SUBSET (Nat \X Nat), IsFiniteSet(pairs), NEW score \in [pairs -> Nat]
  PROVE  \E match \in SUBSET pairs : GreedyOf(match, pairs, score)
<1> DEFINE Stuck == {S \in SUBSET pairs : ~ \E match \in SUBSET S : GreedyOf(match, S, score)}
<1> SUFFICES ASSUME pairs \in Stuck PROVE FALSE
  OBVIOUS
<1>1. PICK S \in Stuck : \A U \in Stuck : U \subseteq S => U = S
  <2>1. Stuck \in SUBSET (SUBSET pairs) /\ Stuck # {}
    OBVIOUS
  <2> HIDE DEF Stuck
  <2> QED BY <2>1, SmallestSet
<1>2. S # {}
  BY <1>1 DEF GreedyOf
<1>3. PICK last \in S : \A q \in S : ~Before(last, q, score)
  BY <1>1, <1>2, LastPair
<1>4. PICK match \in SUBSET (S \ {last}) : GreedyOf(match, S \ {last}, score)
  <2>1. S \ {last} \notin Stuck
    BY <1>1, <1>3
  <2> QED BY <1>1, <2>1
<1>5. CASE \E q \in match : Excludes(q, last, score)
  <2>1. GreedyOf(match, S, score)
    BY <1>4, <1>5 DEF GreedyOf
  <2> QED BY <1>1, <1>4, <2>1
<1>6. CASE ~ \E q \in match : Excludes(q, last, score)
  <2> DEFINE more == match \union {last}
  <2>1. \A p \in S : ~Excludes(last, p, score)
    BY <1>3 DEF Excludes
  <2>2. GreedyOf(more, S, score)
    <3> SUFFICES ASSUME NEW p \in S
                 PROVE  p \in more <=> ~ \E q \in more : Excludes(q, p, score)
      BY DEF GreedyOf
    <3>1. (\E q \in more : Excludes(q, p, score)) <=> \E q \in match : Excludes(q, p, score)
      BY <2>1
    <3>2. CASE p = last
      BY <1>6, <3>1, <3>2
    <3>3. CASE p # last
      BY <1>4, <3>1, <3>3 DEF GreedyOf
    <3> QED BY <3>2, <3>3
  <2> QED BY <1>1, <1>3, <1>4, <2>2
<1> QED BY <1>5, <1>6

\* What a frame may see, number by number.
LEMMA FrameIs ==
  ASSUME NEW sight \in Frames
  PROVE  /\ DOMAIN sight \subseteq Nat /\ IsFiniteSet(DOMAIN sight) /\ Len(sight) <= MaxDetections
         /\ \A d \in DOMAIN sight : sight[d].box \in Box /\ sight[d].sure \in BOOLEAN
<1>1. PICK n \in 0 .. MaxDetections : sight \in [1 .. n -> [box : Box, sure : BOOLEAN]]
  BY DEF Frames
<1>2. n \in Nat /\ n <= MaxDetections /\ DOMAIN sight = 1 .. n
  BY <1>1, TrackerAssumption
<1>3. IsFiniteSet(1 .. n)
  BY <1>2, FS_Interval
<1>4. Len(sight) = n
  BY <1>1, <1>2
<1> QED BY <1>1, <1>2, <1>3, <1>4

\* The greedy matching gives a track at most one detection and a detection at most one
\* track, and passes a pair over only for one that overlaps at least as much.
LEMMA GreedyMatchIs ==
  ASSUME TracksTypeOK, NEW sight \in Frames, NEW ids \in SUBSET (DOMAIN tracks),
         NEW found \in SUBSET (DOMAIN sight)
  PROVE  LET match == GreedyMatch(ids, found, sight)
             rank(i, d) == Overlap(tracks[i].box, sight[d].box) IN
         /\ match \subseteq ids \X found
         /\ \A p, q \in match : p[1] = q[1] \/ p[2] = q[2] => p = q
         /\ \A i \in ids, d \in found : rank(i, d) > 0 /\ <<i, d>> \notin match =>
              \E q \in match : (q[1] = i \/ q[2] = d) /\ rank(q[1], q[2]) >= rank(i, d)
<1> DEFINE rank(i, d) == Overlap(tracks[i].box, sight[d].box)
           pairs == {p \in ids \X found : rank(p[1], p[2]) > 0}
           score == [p \in pairs |-> rank(p[1], p[2])]
           match == GreedyMatch(ids, found, sight)
<1>1. ids \subseteq Nat /\ found \subseteq Nat /\ IsFiniteSet(ids) /\ IsFiniteSet(found)
  <2>1. DOMAIN tracks \subseteq 1 .. (nextId - 1) /\ nextId \in Int
    BY TrackerAssumption DEF TracksTypeOK
  <2>2. IsFiniteSet(1 .. (nextId - 1))
    BY <2>1, FS_Interval
  <2> QED BY <2>1, <2>2, FrameIs, FS_Subset
<1>2. pairs \in SUBSET (Nat \X Nat) /\ IsFiniteSet(pairs)
  BY <1>1, FS_Product, FS_Subset
<1>3. \A i \in ids, d \in found : rank(i, d) \in Nat
  BY FrameIs, TrackerAssumption DEF TracksTypeOK
<1>4. score \in [pairs -> Nat]
  BY <1>3
<1>5. match = CHOOSE m \in SUBSET pairs : GreedyOf(m, pairs, score)
  BY DEF GreedyMatch, GreedyOf, Excludes
<1>6. match \in SUBSET pairs /\ GreedyOf(match, pairs, score)
  <2> HIDE DEF pairs, score, match
  <2> QED BY <1>2, <1>4, <1>5, GreedyExists
<1>7. match \subseteq ids \X found
  BY <1>6
<1> HIDE DEF match
<1>8. ASSUME NEW p \in match, NEW q \in match, p[1] = q[1] \/ p[2] = q[2] PROVE p = q
  <2>1. p \in pairs /\ q \in pairs
    BY <1>6
  <2>2. ~Excludes(p, q, score) /\ ~Excludes(q, p, score)
    BY <1>6, <2>1 DEF GreedyOf
  <2>3. p = q \/ Before(p, q, score) \/ Before(q, p, score)
    <3> HIDE DEF pairs, score
    <3> QED BY <1>2, <1>4, <2>1, BeforeIsAnOrder
  <2> QED BY <1>8, <2>2, <2>3 DEF Excludes
<1>9. ASSUME NEW i \in ids, NEW d \in found, rank(i, d) > 0, <<i, d>> \notin match
      PROVE  \E q \in match : (q[1] = i \/ q[2] = d) /\ rank(q[1], q[2]) >= rank(i, d)
  <2>1. PICK p : p = <<i, d>> /\ p \in pairs /\ p[1] = i /\ p[2] = d
    BY <1>9
  <2>2. PICK q \in match : Excludes(q, p, score)
    BY <1>6, <1>9, <2>1 DEF GreedyOf
  <2>3. q \in pairs /\ score[q] >= score[p]
    <3>1. q \in pairs /\ Before(q, p, score)
      BY <1>6, <2>2 DEF Excludes
    <3> HIDE DEF pairs, score
    <3> QED BY <1>2, <1>4, <2>1, <3>1, BeforeIsAnOrder
  <2>4. score[q] = rank(q[1], q[2]) /\ score[p] = rank(i, d)
    BY <2>1, <2>3
  <2> QED BY <2>1, <2>2, <2>3, <2>4 DEF Excludes
<1> QED BY <1>7, <1>8, <1>9 DEF match

\* Tracks are born in the order of their detections, each with an id of its own.
LEMMA BirthsAreCounted ==
  ASSUME NEW born \in SUBSET Nat, IsFiniteSet(born)
  PROVE  LET rank(d) == Cardinality({e \in born : e < d}) IN
         /\ Cardinality(born) \in Nat
         /\ \A d \in born : rank(d) \in Nat /\ rank(d) < Cardinality(born)
         /\ \A d, e \in born : rank(d) = rank(e) => d = e
<1> DEFINE below(d) == {e \in born : e < d}
<1>1. Cardinality(born) \in Nat
  BY FS_CardinalityType
<1>2. \A d \in born : IsFiniteSet(below(d)) /\ Cardinality(below(d)) \in Nat
  BY FS_Subset, FS_CardinalityType
<1>3. ASSUME NEW d \in born PROVE Cardinality(below(d)) < Cardinality(born)
  <2>1. below(d) \in SUBSET born /\ below(d) # born
    <3>1. d \notin below(d)
      OBVIOUS
    <3> QED BY <3>1
  <2> HIDE DEF below
  <2>2. Cardinality(below(d)) <= Cardinality(born) /\ Cardinality(below(d)) # Cardinality(born)
    BY <2>1, FS_Subset
  <2> QED BY <1>1, <1>2, <2>2
<1>4. ASSUME NEW d \in born, NEW e \in born, d < e
      PROVE  Cardinality(below(d)) < Cardinality(below(e))
  <2>1. below(d) \in SUBSET below(e)
    <3> SUFFICES ASSUME NEW f \in born, f < d PROVE f < e
      OBVIOUS
    <3>1. f \in Nat /\ d \in Nat /\ e \in Nat
      OBVIOUS
    <3> QED BY <1>4, <3>1
  <2>2. d \in below(e) /\ d \notin below(d)
    BY <1>4
  <2> HIDE DEF below
  <2>3. below(d) # below(e)
    BY <2>2
  <2>4. Cardinality(below(d)) <= Cardinality(below(e)) /\ Cardinality(below(d)) # Cardinality(below(e))
    BY <1>2, <2>1, <2>3, FS_Subset
  <2> QED BY <1>2, <2>4
<1>5. ASSUME NEW d \in born, NEW e \in born, Cardinality(below(d)) = Cardinality(below(e))
      PROVE  d = e
  <2>1. ~(d < e) /\ ~(e < d)
    <3> HIDE DEF below
    <3> QED BY <1>2, <1>4, <1>5
  <2> QED BY <2>1
<1> QED BY <1>1, <1>2, <1>3, <1>5

\* What a frame makes of the tracks: those alive, and one per birth; a track that a
\* detection was matched to is where the detection is.
LEMMA FrameMakes ==
  ASSUME TracksTypeOK, NEW dt \in 1 .. MaxAge + 1, NEW sight \in Frames, Update(dt, sight)
  PROVE  LET born == Births(dt, sight)
             idOf(d) == nextId + Cardinality({e \in born : e < d})
             sureOnes == SureMatch(dt, sight)
             weakOnes == WeakMatch(dt, sight) IN
         /\ DOMAIN tracks' = Alive(dt) \union {idOf(d) : d \in born}
         /\ \A i \in Alive(dt) : i \in Nat /\ i < nextId
         /\ \A d \in born : idOf(d) \in Nat /\ idOf(d) >= nextId /\ idOf(d) < nextId'
         /\ \A d, e \in born : idOf(d) = idOf(e) => d = e
         /\ \A d \in born : tracks'[idOf(d)] = [box |-> sight[d].box, unseen |-> 0]
         /\ \A p \in sureOnes \union weakOnes : tracks'[p[1]] = [box |-> sight[p[2]].box, unseen |-> 0]
         /\ \A i \in Alive(dt) \ Firsts(sureOnes \union weakOnes) :
              tracks'[i] = [tracks[i] EXCEPT !.unseen = @ + dt]
<1> DEFINE born == Births(dt, sight)
           idOf(d) == nextId + Cardinality({e \in born : e < d})
           sureOnes == SureMatch(dt, sight)
           weakOnes == WeakMatch(dt, sight)
           match == sureOnes \union weakOnes
<1>1. /\ DOMAIN tracks \subseteq 1 .. (nextId - 1) /\ nextId \in Nat /\ nextId >= 1
      /\ Alive(dt) \subseteq DOMAIN tracks
  BY TrackerAssumption DEF TracksTypeOK, Alive
<1>2. Sure(sight) \subseteq DOMAIN sight /\ DOMAIN sight \subseteq Nat /\ IsFiniteSet(DOMAIN sight)
  BY FrameIs DEF Sure
<1>3. born \in SUBSET Nat /\ IsFiniteSet(born) /\ born \subseteq Sure(sight)
  BY <1>2, FS_Subset DEF Births
<1>4. /\ sureOnes \subseteq Alive(dt) \X Sure(sight)
      /\ \A p, q \in sureOnes : p[1] = q[1] \/ p[2] = q[2] => p = q
  BY <1>1, <1>2, GreedyMatchIs DEF SureMatch
<1>5. /\ weakOnes \subseteq (Alive(dt) \ Firsts(sureOnes)) \X (DOMAIN sight \ Sure(sight))
      /\ \A p, q \in weakOnes : p[1] = q[1] \/ p[2] = q[2] => p = q
  BY <1>1, GreedyMatchIs DEF WeakMatch
<1>6. Cardinality(born) \in Nat /\ nextId' = nextId + Cardinality(born)
  BY <1>3, BirthsAreCounted DEF Update
<1>7. \A d \in born : /\ Cardinality({e \in born : e < d}) \in Nat
                      /\ Cardinality({e \in born : e < d}) < Cardinality(born)
  BY <1>3, BirthsAreCounted
<1>8. \A d, e \in born :
        Cardinality({f \in born : f < d}) = Cardinality({f \in born : f < e}) => d = e
  BY <1>3, BirthsAreCounted
<1>9. tracks' = [i \in Alive(dt) \union {idOf(d) : d \in born} |->
        IF i >= nextId THEN [box |-> sight[CHOOSE d \in born : idOf(d) = i].box, unseen |-> 0]
        ELSE IF i \in Firsts(match)
        THEN [box |-> sight[CHOOSE d \in DOMAIN sight : <<i, d>> \in match].box, unseen |-> 0]
        ELSE [tracks[i] EXCEPT !.unseen = @ + dt]]
  BY DEF Update
<1> HIDE DEF born, sureOnes, weakOnes
<1>10. \A i \in Alive(dt) : i \in Nat /\ i < nextId
  BY <1>1
<1>11. \A d \in born : idOf(d) \in Nat /\ idOf(d) >= nextId /\ idOf(d) < nextId'
  BY <1>1, <1>6, <1>7
<1>12. \A d, e \in born : idOf(d) = idOf(e) => d = e
  <2> SUFFICES ASSUME NEW d \in born, NEW e \in born, idOf(d) = idOf(e) PROVE d = e
    OBVIOUS
  <2>1. Cardinality({f \in born : f < d}) = Cardinality({f \in born : f < e})
    BY <1>1, <1>7
  <2> QED BY <1>8, <2>1
<1> HIDE DEF idOf
<1>13. DOMAIN tracks' = Alive(dt) \union {idOf(d) : d \in born}
  BY <1>9
<1>14. ASSUME NEW d \in born PROVE tracks'[idOf(d)] = [box |-> sight[d].box, unseen |-> 0]
  <2>1. (CHOOSE e \in born : idOf(e) = idOf(d)) = d
    BY <1>12
  <2> QED BY <1>9, <1>11, <2>1
<1>15. ASSUME NEW p \in match PROVE tracks'[p[1]] = [box |-> sight[p[2]].box, unseen |-> 0]
  <2>1. p[1] \in Alive(dt) /\ p[2] \in DOMAIN sight /\ p = <<p[1], p[2]>>
    BY <1>2, <1>4, <1>5
  <2>2. p[1] \in Firsts(match)
    BY DEF Firsts
  <2>3. \A d : <<p[1], d>> \in match => d = p[2]
    <3> SUFFICES ASSUME NEW d, <<p[1], d>> \in match PROVE d = p[2]
      OBVIOUS
    <3>1. PICK q \in match : q = <<p[1], d>> /\ q[1] = p[1] /\ q[2] = d
      OBVIOUS
    <3>2. p \in sureOnes => p[1] \in Firsts(sureOnes)
      BY DEF Firsts
    <3>3. q \in sureOnes => q[1] \in Firsts(sureOnes)
      BY DEF Firsts
    <3>4. p \in weakOnes => p[1] \notin Firsts(sureOnes)
      BY <1>5
    <3>5. q \in weakOnes => q[1] \notin Firsts(sureOnes)
      BY <1>5
    <3>6. p = q
      BY <1>4, <1>5, <3>1, <3>2, <3>3, <3>4, <3>5
    <3> QED BY <3>1, <3>6
  <2>4. (CHOOSE d \in DOMAIN sight : <<p[1], d>> \in match) = p[2]
    BY <2>1, <2>3
  <2>5. p[1] \in Nat /\ ~(p[1] >= nextId)
    BY <1>1, <1>10, <2>1
  <2> QED BY <1>9, <2>1, <2>2, <2>4, <2>5
<1>16. ASSUME NEW i \in Alive(dt) \ Firsts(match)
       PROVE  tracks'[i] = [tracks[i] EXCEPT !.unseen = @ + dt]
  <2>1. i \in Nat /\ ~(i >= nextId)
    BY <1>1, <1>10
  <2> QED BY <1>9, <1>16, <2>1
<1> QED BY <1>10, <1>11, <1>12, <1>13, <1>14, <1>15, <1>16 DEF born, idOf, sureOnes, weakOnes

\* A frame's types: an id is given once, and within the bound.
LEMMA TracksTypesStep ==
  ASSUME TracksTypeOK, NEW dt \in 1 .. MaxAge + 1, NEW sight \in Frames, Update(dt, sight)
  PROVE  TracksTypeOK'
<1> DEFINE born == Births(dt, sight)
           idOf(d) == nextId + Cardinality({e \in born : e < d})
           match == SureMatch(dt, sight) \union WeakMatch(dt, sight)
<1>1. /\ DOMAIN tracks' = Alive(dt) \union {idOf(d) : d \in born}
      /\ \A i \in Alive(dt) : i \in Nat /\ i < nextId
      /\ \A d \in born : idOf(d) \in Nat /\ idOf(d) >= nextId /\ idOf(d) < nextId'
      /\ \A d \in born : tracks'[idOf(d)] = [box |-> sight[d].box, unseen |-> 0]
      /\ \A p \in match : tracks'[p[1]] = [box |-> sight[p[2]].box, unseen |-> 0]
      /\ \A i \in Alive(dt) \ Firsts(match) : tracks'[i] = [tracks[i] EXCEPT !.unseen = @ + dt]
  BY FrameMakes
<1>2. /\ DOMAIN tracks \subseteq 1 .. (nextId - 1) /\ nextId \in Nat /\ nextId >= 1 /\ dt \in Nat
      /\ Alive(dt) \subseteq DOMAIN tracks
  BY TrackerAssumption DEF TracksTypeOK, Alive
<1>3. Sure(sight) \subseteq DOMAIN sight /\ DOMAIN sight \subseteq Nat /\ IsFiniteSet(DOMAIN sight)
  BY FrameIs DEF Sure
<1>4. born \in SUBSET Nat /\ IsFiniteSet(born) /\ born \subseteq DOMAIN sight
  BY <1>3, FS_Subset DEF Births
<1>5. Cardinality(born) \in Nat /\ nextId' = nextId + Cardinality(born)
      /\ nextId + Cardinality(born) <= MaxTracks + 1
  BY <1>4, FS_CardinalityType DEF Update
<1>6. match \subseteq Alive(dt) \X DOMAIN sight
  <2>1. SureMatch(dt, sight) \subseteq Alive(dt) \X Sure(sight)
    BY <1>2, <1>3, GreedyMatchIs DEF SureMatch
  <2>2. WeakMatch(dt, sight) \subseteq (Alive(dt) \ Firsts(SureMatch(dt, sight))) \X (DOMAIN sight \ Sure(sight))
    BY <1>2, GreedyMatchIs DEF WeakMatch
  <2> QED BY <1>3, <2>1, <2>2
<1> HIDE DEF born, idOf, match
<1>7. nextId' \in 1 .. MaxTracks + 1 /\ nextId' \in Nat
  BY <1>2, <1>5, TrackerAssumption
<1>8. DOMAIN tracks' \subseteq 1 .. (nextId' - 1)
  <2> SUFFICES ASSUME NEW i \in DOMAIN tracks' PROVE i \in Nat /\ 1 <= i /\ i < nextId'
    BY <1>7
  <2>1. CASE i \in Alive(dt)
    BY <1>1, <1>2, <1>5, <2>1
  <2>2. CASE i \notin Alive(dt)
    <3>1. PICK d \in born : i = idOf(d)
      BY <1>1, <2>2
    <3> QED BY <1>1, <1>2, <3>1
  <2> QED BY <2>1, <2>2
<1>9. \A d \in DOMAIN sight : sight[d].box \in Box
  BY FrameIs
<1>10. \A d \in DOMAIN sight : [box |-> sight[d].box, unseen |-> 0] \in [box : Box, unseen : 0 .. MaxAge]
  <2>1. 0 \in 0 .. MaxAge
    BY TrackerAssumption
  <2> QED BY <1>9, <2>1
<1>11. ASSUME NEW i \in DOMAIN tracks' PROVE tracks'[i] \in [box : Box, unseen : 0 .. MaxAge]
  <2>1. CASE i \notin Alive(dt)
    <3>1. PICK d \in born : i = idOf(d)
      BY <1>1, <2>1
    <3>2. d \in DOMAIN sight /\ tracks'[i] = [box |-> sight[d].box, unseen |-> 0]
      BY <1>1, <1>4, <3>1
    <3> QED BY <1>10, <3>2
  <2>2. CASE i \in Firsts(match)
    <3>1. PICK p \in match : i = p[1]
      BY <2>2 DEF Firsts
    <3>2. p[2] \in DOMAIN sight
      BY <1>6
    <3>3. tracks'[i] = [box |-> sight[p[2]].box, unseen |-> 0]
      BY <1>1, <3>1
    <3> QED BY <1>10, <3>2, <3>3
  <2>3. CASE i \in Alive(dt) /\ i \notin Firsts(match)
    <3>1. tracks'[i] = [tracks[i] EXCEPT !.unseen = @ + dt]
      BY <1>1, <2>3
    <3>2. tracks[i] \in [box : Box, unseen : 0 .. MaxAge] /\ tracks[i].unseen + dt <= MaxAge
      BY <1>2, <2>3 DEF TracksTypeOK, Alive
    <3>3. tracks[i].unseen + dt \in 0 .. MaxAge
      BY <1>2, <3>2, TrackerAssumption
    <3> QED BY <3>1, <3>2, <3>3
  <2> QED BY <2>1, <2>2, <2>3
<1>12. (frame.dt \in 1 .. MaxAge + 1 /\ Len(frame.seen) <= MaxDetections)'
  <2>1. frame'.dt = dt /\ frame'.seen = sight
    BY DEF Update
  <2> QED BY <2>1, FrameIs
<1> QED BY <1>7, <1>8, <1>11, <1>12 DEF TracksTypeOK

\* In every frame each sure detection has a track of its own, and an id is new only
\* where every track that overlaps went to another sure detection, with at least as
\* much overlap; a track is given up only when its time is over (track.py 141-165,
\* 221-273).
LEMMA EachHasItsTrack ==
  ASSUME TracksTypeOK, NEW dt \in 1 .. MaxAge + 1, NEW sight \in Frames, Update(dt, sight)
  PROVE  LET new == DOMAIN tracks' \ DOMAIN tracks IN
     /\ DOMAIN tracks \ DOMAIN tracks' = DOMAIN tracks \ Alive(dt)
     /\ \E of \in Injection(Sure(sight), DOMAIN tracks') :
          /\ \A d \in Sure(sight) : tracks'[of[d]] = [box |-> sight[d].box, unseen |-> 0]
          /\ \A i \in new : i >= nextId /\ \E d \in Sure(sight) : of[d] = i /\ Claimed(d, dt, sight)
<1> DEFINE born == Births(dt, sight)
           idOf(d) == nextId + Cardinality({e \in born : e < d})
           sureOnes == SureMatch(dt, sight)
           match == sureOnes \union WeakMatch(dt, sight)
           new == DOMAIN tracks' \ DOMAIN tracks
           of == [d \in Sure(sight) |->
                   IF d \in born THEN idOf(d) ELSE CHOOSE i \in Alive(dt) : <<i, d>> \in sureOnes]
<1>1. /\ DOMAIN tracks' = Alive(dt) \union {idOf(d) : d \in born}
      /\ \A i \in Alive(dt) : i \in Nat /\ i < nextId
      /\ \A d \in born : idOf(d) \in Nat /\ idOf(d) >= nextId /\ idOf(d) < nextId'
      /\ \A d, e \in born : idOf(d) = idOf(e) => d = e
      /\ \A d \in born : tracks'[idOf(d)] = [box |-> sight[d].box, unseen |-> 0]
      /\ \A p \in sureOnes : tracks'[p[1]] = [box |-> sight[p[2]].box, unseen |-> 0]
  <2>1. /\ DOMAIN tracks' = Alive(dt) \union {idOf(d) : d \in born}
        /\ \A i \in Alive(dt) : i \in Nat /\ i < nextId
        /\ \A d \in born : idOf(d) \in Nat /\ idOf(d) >= nextId /\ idOf(d) < nextId'
        /\ \A d, e \in born : idOf(d) = idOf(e) => d = e
        /\ \A d \in born : tracks'[idOf(d)] = [box |-> sight[d].box, unseen |-> 0]
        /\ \A p \in match : tracks'[p[1]] = [box |-> sight[p[2]].box, unseen |-> 0]
    BY FrameMakes, Zenon
  <2>2. sureOnes \subseteq match
    OBVIOUS
  <2> HIDE DEF born, idOf, sureOnes, match
  <2> QED BY <2>1, <2>2
<1>2. /\ DOMAIN tracks \subseteq 1 .. (nextId - 1) /\ nextId \in Nat
      /\ Alive(dt) \subseteq DOMAIN tracks
  BY TrackerAssumption DEF TracksTypeOK, Alive
<1>3. Sure(sight) \subseteq DOMAIN sight
  BY DEF Sure
<1>4. /\ sureOnes \subseteq Alive(dt) \X Sure(sight)
      /\ \A p, q \in sureOnes : p[1] = q[1] \/ p[2] = q[2] => p = q
      /\ \A i \in Alive(dt), d \in Sure(sight) :
           Overlap(tracks[i].box, sight[d].box) > 0 /\ <<i, d>> \notin sureOnes =>
             \E q \in sureOnes :
               /\ q[1] = i \/ q[2] = d
               /\ Overlap(tracks[q[1]].box, sight[q[2]].box) >= Overlap(tracks[i].box, sight[d].box)
  BY <1>2, <1>3, GreedyMatchIs DEF SureMatch
<1>5. born = Sure(sight) \ Seconds(sureOnes)
  BY DEF Births
<1> HIDE DEF born, idOf, sureOnes
<1>6. ASSUME NEW d \in Sure(sight) \ born
      PROVE  of[d] \in Alive(dt) /\ \E p \in sureOnes : p = <<of[d], d>> /\ p[1] = of[d] /\ p[2] = d
  <2>1. PICK p \in sureOnes : p[2] = d
    BY <1>5 DEF Seconds
  <2>2. p[1] \in Alive(dt) /\ <<p[1], d>> \in sureOnes
    BY <1>4, <2>1
  <2>3. of[d] = CHOOSE i \in Alive(dt) : <<i, d>> \in sureOnes
    OBVIOUS
  <2> HIDE DEF of
  <2>4. of[d] \in Alive(dt) /\ <<of[d], d>> \in sureOnes
    BY <2>2, <2>3
  <2> QED BY <2>4
<1>7. \A d \in born : of[d] = idOf(d) /\ d \in Sure(sight)
  BY <1>5
<1>8. of \in [Sure(sight) -> DOMAIN tracks']
  <2> SUFFICES ASSUME NEW d \in Sure(sight) PROVE of[d] \in DOMAIN tracks'
    OBVIOUS
  <2> HIDE DEF of
  <2>1. CASE d \in born
    BY <1>1, <1>7, <2>1
  <2>2. CASE d \notin born
    <3>1. of[d] \in Alive(dt)
      BY <1>6, <2>2
    <3> QED BY <1>1, <3>1
  <2> QED BY <2>1, <2>2
<1> HIDE DEF of
<1>9. ASSUME NEW d \in Sure(sight), NEW e \in Sure(sight), of[d] = of[e] PROVE d = e
  <2>1. CASE d \in born /\ e \in born
    BY <1>1, <1>7, <1>9, <2>1
  <2>2. CASE d \notin born /\ e \notin born
    <3>1. PICK p \in sureOnes : p = <<of[d], d>> /\ p[1] = of[d] /\ p[2] = d
      BY <1>6, <2>2
    <3>2. PICK q \in sureOnes : q = <<of[e], e>> /\ q[1] = of[e] /\ q[2] = e
      BY <1>6, <2>2
    <3> QED BY <1>4, <1>9, <3>1, <3>2
  <2>3. \A f \in born : of[f] \in Nat /\ of[f] >= nextId
    BY <1>1, <1>7
  <2>4. \A f \in Sure(sight) \ born : of[f] \in Nat /\ of[f] < nextId
    BY <1>1, <1>6
  <2>5. CASE (d \in born) # (e \in born)
    BY <1>2, <1>9, <2>3, <2>4, <2>5
  <2> QED BY <2>1, <2>2, <2>5
<1>10. of \in Injection(Sure(sight), DOMAIN tracks')
  BY <1>8, <1>9 DEF Injection, IsInjective
<1>11. ASSUME NEW d \in Sure(sight) PROVE tracks'[of[d]] = [box |-> sight[d].box, unseen |-> 0]
  <2>1. CASE d \in born
    BY <1>1, <1>7, <2>1
  <2>2. CASE d \notin born
    <3>1. PICK p \in sureOnes : p = <<of[d], d>> /\ p[1] = of[d] /\ p[2] = d
      BY <1>6, <2>2
    <3> QED BY <1>1, <3>1
  <2> QED BY <2>1, <2>2
<1>12. ASSUME NEW d \in born PROVE Claimed(d, dt, sight)
  <2> SUFFICES ASSUME NEW i \in Alive(dt), Overlap(tracks[i].box, sight[d].box) > 0
               PROVE  \E e \in Sure(sight) \ {d} :
                        /\ tracks'[i] = [box |-> sight[e].box, unseen |-> 0]
                        /\ Overlap(tracks[i].box, sight[e].box) >= Overlap(tracks[i].box, sight[d].box)
    BY DEF Claimed
  <2>1. \A q \in sureOnes : q[2] # d
    BY <1>5 DEF Seconds
  <2>2. <<i, d>> \notin sureOnes /\ d \in Sure(sight)
    <3>1. <<i, d>>[2] = d
      OBVIOUS
    <3> QED BY <1>7, <2>1, <3>1
  <2>3. PICK q \in sureOnes :
          /\ q[1] = i
          /\ Overlap(tracks[i].box, sight[q[2]].box) >= Overlap(tracks[i].box, sight[d].box)
    BY <1>4, <2>1, <2>2
  <2>4. q[2] \in Sure(sight) \ {d}
    BY <1>4, <2>1
  <2> QED BY <1>1, <2>3, <2>4
<1>13. DOMAIN tracks \ DOMAIN tracks' = DOMAIN tracks \ Alive(dt)
  <2>1. \A d \in born : idOf(d) \notin DOMAIN tracks
    BY <1>1, <1>2
  <2> QED BY <1>1, <1>2, <2>1
<1>14. ASSUME NEW i \in new
       PROVE  i >= nextId /\ \E d \in Sure(sight) : of[d] = i /\ Claimed(d, dt, sight)
  <2>1. PICK d \in born : i = idOf(d)
    BY <1>1, <1>2
  <2> QED BY <1>1, <1>7, <1>12, <2>1
<1> QED BY <1>10, <1>11, <1>13, <1>14

LEMMA TracksStart == TracksInit => TracksTypeOK
  BY TrackerAssumption DEF TracksInit, TracksTypeOK

LEMMA TracksStep == TracksTypeOK /\ [TracksNext]_trackVars => TracksTypeOK'
<1>1. ASSUME TracksTypeOK, TracksNext PROVE TracksTypeOK'
  BY <1>1, TracksTypesStep DEF TracksNext
<1>2. ASSUME TracksTypeOK, UNCHANGED trackVars PROVE TracksTypeOK'
  BY <1>2 DEF TracksTypeOK, trackVars
<1> QED BY <1>1, <1>2

\* One thing seen is one track, whatever boxes overlap and however much (track.py
\* 141-165, 221-273).
THEOREM OneThingOneTrack == TracksSpec => []TracksTypeOK /\ OneTrackEach
<1> DEFINE Each ==
      LET dt == frame'.dt
          sight == frame'.seen
          new == DOMAIN tracks' \ DOMAIN tracks IN
      /\ DOMAIN tracks \ DOMAIN tracks' = DOMAIN tracks \ Alive(dt)
      /\ \E of \in Injection(Sure(sight), DOMAIN tracks') :
           /\ \A d \in Sure(sight) : tracks'[of[d]] = [box |-> sight[d].box, unseen |-> 0]
           /\ \A i \in new : i >= nextId /\ \E d \in Sure(sight) : of[d] = i /\ Claimed(d, dt, sight)
<1>1. TracksTypeOK /\ [TracksNext]_trackVars => [Each]_trackVars
  <2> SUFFICES ASSUME TracksTypeOK, TracksNext PROVE Each
    OBVIOUS
  <2>1. PICK dt \in 1 .. MaxAge + 1, sight \in Frames : Update(dt, sight)
    BY DEF TracksNext
  <2>2. frame'.dt = dt /\ frame'.seen = sight
    BY <2>1 DEF Update
  <2> QED BY <2>1, <2>2, EachHasItsTrack
<1>2. OneTrackEach <=> [][Each]_trackVars
  BY DEF OneTrackEach
<1> QED BY TracksStart, TracksStep, <1>1, <1>2, PTL DEF TracksSpec

-----------------------------------------------------------------------------
(* All of them, one at work per behaviour.                                 *)

\* A service sees of a behaviour of all of them its own steps and stutters; what
\* probes have of the gateway's is the conversation.
LEMMA EachSeesItsOwn ==
  ASSUME [ServicesNext]_servicesVars
  PROVE  /\ [NotifyNext]_notifyVars /\ [RuntimeNext]_runtimeVars
         /\ [ExportsNext]_exportVars /\ [PreviewsNext]_previewVars /\ [ClipsNext]_clipVars
         /\ [MediaNext]_<<exportVars, previewVars, clipVars>>
         /\ [KeysNext]_keyVars /\ [AccessNext]_accessVars
         /\ [TracksNext]_trackVars /\ [ModelNext]_modelVars
         /\ \/ [GatewayNext]_gatewayVars
            \/ ProbeNext /\ UNCHANGED <<confFile, serves, up, syncing, managed, unheard>>
         /\ service' = service
<1>1. CASE UNCHANGED servicesVars
  BY <1>1 DEF servicesVars
<1>2. CASE NotifyActs /\ UNCHANGED service
  BY <1>2 DEF NotifyActs, mediaVars, watchVars, webVars
<1>3. CASE RuntimeActs /\ UNCHANGED service
  BY <1>3 DEF RuntimeActs, mediaVars, watchVars, webVars
<1>4. CASE ExportsAct /\ UNCHANGED service
  BY <1>4 DEF ExportsAct, OnlyMedia, watchVars, webVars, MediaNext
<1>5. CASE PreviewsAct /\ UNCHANGED service
  BY <1>5 DEF PreviewsAct, OnlyMedia, watchVars, webVars, MediaNext
<1>6. CASE ClipsAct /\ UNCHANGED service
  BY <1>6 DEF ClipsAct, OnlyMedia, watchVars, webVars, MediaNext
<1>7. CASE TrackerActs /\ UNCHANGED service
  BY <1>7 DEF TrackerActs, OnlyWatch, mediaVars, webVars
<1>8. CASE LoaderActs /\ UNCHANGED service
  BY <1>8 DEF LoaderActs, OnlyWatch, mediaVars, webVars
<1>9. CASE GatewayActs /\ UNCHANGED service
  BY <1>9 DEF GatewayActs, OnlyWatch, mediaVars, webVars
<1>10. CASE ProbesAct /\ UNCHANGED service
  BY <1>10 DEF ProbesAct, OnlyWatch, mediaVars, webVars
<1>11. CASE KeysAct /\ UNCHANGED service
  BY <1>11 DEF KeysAct, OnlyWeb, mediaVars, watchVars
<1>12. CASE AccessActs /\ UNCHANGED service
  BY <1>12 DEF AccessActs, OnlyWeb, mediaVars, watchVars
<1> QED BY <1>1, <1>2, <1>3, <1>4, <1>5, <1>6, <1>7, <1>8, <1>9, <1>10, <1>11, <1>12 DEF ServicesNext

\* A service's part of a behaviour of all of them is a behaviour of the service.
LEMMA EachIsItself ==
  ServicesSpec => /\ NotifySpec /\ RuntimeSpec /\ MediaSpec /\ KeysSpec /\ AccessSpec
                  /\ TracksSpec /\ ModelSpec
<1>1. ServicesInit => /\ NotifyInit /\ RuntimeInit /\ MediaInit /\ KeysInit /\ AccessInit
                      /\ TracksInit /\ ModelInit
  BY DEF ServicesInit, MediaInit
<1>2. [ServicesNext]_servicesVars =>
        /\ [NotifyNext]_notifyVars /\ [RuntimeNext]_runtimeVars
        /\ [MediaNext]_<<exportVars, previewVars, clipVars>>
        /\ [KeysNext]_keyVars /\ [AccessNext]_accessVars
        /\ [TracksNext]_trackVars /\ [ModelNext]_modelVars
  BY EachSeesItsOwn
<1> QED
  BY <1>1, <1>2, PTL
  DEF ServicesSpec, NotifySpec, RuntimeSpec, MediaSpec, KeysSpec, AccessSpec, TracksSpec, ModelSpec

\* A probe beside a gateway at rest disturbs only the conversation.
LEMMA GatewayOrProbe ==
  ASSUME GatewayTyped, [ServicesNext]_servicesVars PROVE GatewayTyped'
<1>1. CASE [GatewayNext]_gatewayVars
  BY <1>1, GatewayTypedStep
<1>2. CASE ProbeNext /\ UNCHANGED <<confFile, serves, up, syncing, managed, unheard>>
  <2>1. Truthful(talk')
    BY <1>2, ProbeStep DEF GatewayTyped
  <2>2. GatewayInv'
    BY <1>2 DEF GatewayTyped, GatewayInv, SyncFields, Gathered, FileIsManaged, ServesTheFile, CamsOf
  <2> QED BY <1>2, <2>1, <2>2 DEF GatewayTyped, SyncTyped
<1> QED BY <1>1, <1>2, EachSeesItsOwn

\* The types of those whose own theorems do not state them.
AllTyped ==
  /\ ExportsTypeOK /\ PreviewsTypeOK /\ ClipsTypeOK /\ KeysTypeOK /\ AccessInv /\ ModelInv
  /\ TracksTypeOK /\ RuntimeTyped /\ GatewayTyped /\ service \in Service

LEMMA AllTypedStarts == ServicesInit => AllTyped
<1> SUFFICES ASSUME ServicesInit PROVE AllTyped
  OBVIOUS
<1>1. /\ ExportsInit /\ PreviewsInit /\ ClipsInit /\ KeysInit /\ AccessInit /\ ModelInit
      /\ TracksInit /\ RuntimeInit /\ GatewayInit /\ service \in Service
  BY DEF ServicesInit
<1>2. ExportsTypeOK /\ PreviewsTypeOK /\ ClipsTypeOK /\ KeysTypeOK
  BY <1>1, WebTypesStart
<1>3. RuntimeTyped
  BY <1>1, RuntimeStarts DEF RuntimeInv
<1>4. AccessInv /\ ModelInv
  BY <1>1, AccessStarts, ModelStarts
<1>5. TracksTypeOK
  BY <1>1, TracksStart
<1> QED BY <1>1, <1>2, <1>3, <1>4, <1>5, GatewayStarts DEF AllTyped

LEMMA AllTypedStep == AllTyped /\ [ServicesNext]_servicesVars => AllTyped'
<1> SUFFICES ASSUME AllTyped, [ServicesNext]_servicesVars PROVE AllTyped'
  OBVIOUS
<1>1. ExportsTypeOK' /\ PreviewsTypeOK' /\ ClipsTypeOK'
  <2>1. UNCHANGED exportVars => ExportsTypeOK'
    BY DEF AllTyped, ExportsTypeOK, exportVars
  <2>2. UNCHANGED previewVars => PreviewsTypeOK'
    BY DEF AllTyped, PreviewsTypeOK, previewVars
  <2>3. UNCHANGED clipVars => ClipsTypeOK'
    BY DEF AllTyped, ClipsTypeOK, clipVars
  <2> QED BY <2>1, <2>2, <2>3, EachSeesItsOwn, ExportsTypesStep, PreviewsTypesStep, ClipsTypesStep DEF AllTyped
<1>2. KeysTypeOK' /\ AccessInv' /\ ModelInv'
  <2>1. UNCHANGED keyVars => KeysTypeOK'
    BY DEF AllTyped, KeysTypeOK, keyVars
  <2> QED BY <2>1, EachSeesItsOwn, KeysTypesStep, AccessStep, ModelStep DEF AllTyped
<1>3. TracksTypeOK' /\ RuntimeTyped'
  BY EachSeesItsOwn, TracksStep, RuntimeTypesStep DEF AllTyped
<1>4. GatewayTyped'
  BY GatewayOrProbe DEF AllTyped
<1> QED BY <1>1, <1>2, <1>3, <1>4, EachSeesItsOwn DEF AllTyped

\* Whichever service is at work keeps its types and bounds, and nobody moves the
\* others' state.
THEOREM ServicesKeepTheirTypes == ServicesSpec => []ServicesTypeOK
<1>1. NotifyTypeOK /\ AllTyped => ServicesTypeOK
  <2>1. RuntimeTyped => RuntimeTypeOK
    BY DEF RuntimeTyped, RequestTyped, RuntimeTypeOK
  <2> QED BY <2>1, GatewayTypes
      DEF AllTyped, AccessInv, ModelInv, Service, ServicesTypeOK
<1> QED
  BY <1>1, AllTypedStarts, AllTypedStep, EachIsItself, NotifyKeepsTypes, PTL DEF ServicesSpec

\* Every service keeps its promises in a behaviour of all of them, each with the
\* exemptions its property names.  No message is lost untold and each channel of each
\* rule hears in order; the broker shows what was last said while the bridge could say
\* it; the live client misses what was dropped and no more; exports, previews and clips
\* that no two requests worked on are whole; a key call that was not overtaken returned
\* the stored pair; an ended credential is refused; the pinned model runs; a probe's
\* diagnosis is what the device answered, and the endpoints of a sync are the best
\* profile and the poorest; the gateway streams what it was told unless the last restart
\* was asked in vain; one thing has one track; and with one camera request at a time
\* capture follows the store unless the last reload failed.
THEOREM ServicesKeepTheirPromises ==
  ServicesSpec =>
    /\ []NothingVanishes /\ HeardInOrder /\ []BrokerInStep /\ []OneLossPerBreak
    /\ []ClientMissesNothing /\ []ServedMediaIsWhole /\ []KeysAreStable /\ []EndedIsRefused
    /\ []RunsThePinnedModel /\ []ReportsWhatHappened /\ []StreamsServedOrSkipped /\ OneTrackEach
    /\ (InFlight <= 1 => []CaptureFollowsTheStore)
<1>1. ServicesSpec => [](ReportsWhatHappened /\ StreamsServedOrSkipped)
  <2>1. AllTyped => ReportsWhatHappened /\ StreamsServedOrSkipped
    BY GatewayTypes DEF AllTyped
  <2> QED BY <2>1, AllTypedStarts, AllTypedStep, PTL DEF ServicesSpec
<1>2. InFlight <= 1 => (RuntimeSpec => []CaptureFollowsTheStore)
  BY OneByOneCaptureFollows
<1> QED
  BY <1>1, <1>2, EachIsItself, NoMessageVanishes, ReceiversHearInOrder, BrokerStaysInStep,
     BreaksCostWhatIsInHand, LiveClientMissesNothing, FinishedOnly, OnePairForAll,
     EndedStaysOut, PinnedModelOnly, OneThingOneTrack, PTL

=============================================================================
