------------------------------ MODULE Gateway ------------------------------
(***************************************************************************)
(* Go2rtcManager of streams/go2rtc.py and the gateway behind it.  sync()   *)
(* asks every camera's adapter for its streams, one after the other, drops *)
(* those that cannot say, writes the gateway's file when it changes and    *)
(* asks the gateway to restart.  ONVIF cameras answer over the network.    *)
(***************************************************************************)
EXTENDS Onvif

CONSTANTS
  Cam,
  AdapterOf(_),   \* "rtsp", "onvif", or "unknown" when nobody installed it
  HasSub(_),      \* of an RTSP camera: whether its source names a substream
  Syntax(_)       \* of an RTSP camera: whether its URLs are such

VARIABLES
  confFile,   \* the streams in the gateway's file
  serves,     \* the streams the gateway has read
  up,         \* whether it answers
  syncing,    \* a call of sync: its place, the cameras, those to ask, the one that is
              \* asked over the network, the streams so far, the cameras left out
  managed,    \* cameras of the last sync that wrote or found its file, and those it left out
  unheard     \* history: the last restart that was asked for was not carried out

gatewayVars == <<talk, confFile, serves, up, syncing, managed, unheard>>

Stream == Cam \X {"main", "sub"}
NoSync == [pc |-> "none", cams |-> {}, todo |-> {}, asking |-> {},
           streams |-> {}, skipped |-> {}]
Nowhere == [cams |-> {}, skipped |-> {}]

GatewayTypeOK ==
  /\ OnvifTypeOK /\ confFile \subseteq Stream /\ serves \subseteq Stream
  /\ up \in BOOLEAN /\ unheard \in BOOLEAN
  /\ syncing \in [pc : {"none", "building", "restarting"}, cams : SUBSET Cam, todo : SUBSET Cam,
                  asking : SUBSET Cam, streams : SUBSET Stream, skipped : SUBSET Cam]
  /\ managed \in [cams : SUBSET Cam, skipped : SUBSET Cam]

GatewayInit ==
  /\ talk = Quiet /\ confFile = {} /\ serves = {} /\ up \in BOOLEAN
  /\ syncing = NoSync /\ managed = Nowhere /\ unheard = FALSE

StartSync ==
  /\ syncing = NoSync
  /\ \E cs \in SUBSET Cam :
       syncing' = [NoSync EXCEPT !.pc = "building", !.cams = cs, !.todo = cs]
  /\ UNCHANGED <<talk, confFile, serves, up, managed, unheard>>

\* A camera has said what streams it has, or has been left out.
Settles(c, roles) ==
  syncing' = [syncing EXCEPT !.todo = @ \ {c}, !.asking = {}, !.streams = @ \union ({c} \X roles),
                             !.skipped = IF roles = {} THEN @ \union {c} ELSE @]

\* RtspAdapter: a probe of the URLs, then what the source names.
RtspRoles(c) ==
  IF ~Syntax(c) THEN {} ELSE IF HasSub(c) THEN {"main", "sub"} ELSE {"main"}

AskAtHome(c) ==
  /\ syncing.pc = "building" /\ syncing.asking = {} /\ c \in syncing.todo
  /\ AdapterOf(c) # "onvif"
  /\ Settles(c, IF AdapterOf(c) = "rtsp" THEN RtspRoles(c) ELSE {})
  /\ UNCHANGED <<talk, confFile, serves, up, managed, unheard>>

AskDevice(c) ==
  /\ syncing.pc = "building" /\ syncing.asking = {} /\ c \in syncing.todo
  /\ AdapterOf(c) = "onvif" /\ talk = Quiet
  /\ \/ talk' = [Quiet EXCEPT !.is = "endpoints", !.pc = "caps"]
     \/ talk' = [Quiet EXCEPT !.is = "endpoints", !.result = "raised"]
  /\ syncing' = [syncing EXCEPT !.asking = {c}]
  /\ UNCHANGED <<confFile, serves, up, managed, unheard>>

DeviceSaid(c) ==
  /\ talk.is = "endpoints" /\ talk.pc = "done" /\ talk' = Quiet
  /\ syncing.asking = {c}
  /\ Settles(c, IF talk.result = "ok" THEN DOMAIN talk.pixels ELSE {})
  /\ UNCHANGED <<confFile, serves, up, managed, unheard>>

\* Mutant: a change of the file is not followed by a restart.
WriteOnly ==
  /\ syncing.pc = "building" /\ syncing.todo = {}
  /\ managed' = [cams |-> syncing.cams, skipped |-> syncing.skipped]
  /\ confFile' = syncing.streams /\ syncing' = NoSync
  /\ UNCHANGED <<talk, serves, up, unheard>>

\* The file is replaced as a whole, and only by something else.  A write that
\* fails is a GatewayError, and nothing has changed.
WriteConfig ==
  /\ syncing.pc = "building" /\ syncing.todo = {}
  /\ \/ /\ managed' = [cams |-> syncing.cams, skipped |-> syncing.skipped]
        /\ confFile' = syncing.streams
        /\ syncing' = IF confFile = syncing.streams THEN NoSync
                      ELSE [syncing EXCEPT !.pc = "restarting"]
     \/ syncing' = NoSync /\ UNCHANGED <<managed, confFile>>
  /\ UNCHANGED <<talk, serves, up, unheard>>

\* Best effort: a gateway that does not answer, or answers with a refusal, which
\* nobody looks at, is not asked again.
AskRestart ==
  /\ syncing.pc = "restarting" /\ syncing' = NoSync
  /\ \/ up /\ serves' = confFile /\ unheard' = FALSE
     \/ unheard' = TRUE /\ UNCHANGED serves
  /\ UNCHANGED <<talk, confFile, up, managed>>

\* The keep-warm's kick (restart_gateway), and a gateway that restarts by itself.
GatewayReads ==
  /\ serves' = confFile /\ up' = TRUE /\ unheard' = FALSE
  /\ UNCHANGED <<talk, confFile, syncing, managed>>

\* A hang that passes, too: the gateway answers again with what it had.
GatewayHangs ==
  up' = ~up /\ UNCHANGED <<talk, confFile, serves, syncing, managed, unheard>>

\* The adapters keep no state between calls: probes are left to Onvif.
DeviceTalks ==
  /\ TalkSteps
  /\ UNCHANGED <<confFile, serves, up, syncing, managed, unheard>>

GatewayNext ==
  \/ StartSync \/ WriteConfig \/ AskRestart \/ GatewayReads \/ GatewayHangs \/ DeviceTalks
  \/ \E c \in Cam : AskAtHome(c) \/ AskDevice(c) \/ DeviceSaid(c)

GatewaySpec == GatewayInit /\ [][GatewayNext]_gatewayVars

-----------------------------------------------------------------------------
\* Between two syncs the gateway streams exactly the cameras of the last one
\* that were not left out, and nothing of a camera that is gone, unless the last
\* restart was asked for in vain: the gateway did not answer, or refused
\* (go2rtc.py 140-171).
StreamsServedOrSkipped ==
  syncing = NoSync /\ ~unheard =>
    {s[1] : s \in serves} = managed.cams \ managed.skipped
=============================================================================
