------------------------------ MODULE Services ------------------------------
(***************************************************************************)
(* The services around capture and storage, each with the part of the      *)
(* state that is its own: what consumes the bus, exports, previews, clips, *)
(* the runtime's reload, the web push keys, the tracker, access, the detector's *)
(* model, the gateway and ONVIF probes.  They share no variables, so a     *)
(* behaviour has one of them at work.                                      *)
(***************************************************************************)
EXTENDS Notifications, Clips, Runtime, VapidKeys, Tracker, Access, ModelStore, Gateway

VARIABLE service   \* chosen once

Service == {"notify", "exports", "previews", "clips", "runtime", "keys", "tracker", "access", "model",
            "gateway", "probe"}

servicesVars == <<service, notifyVars, exportVars, previewVars, clipVars, runtimeVars,
                  keyVars, trackVars, accessVars, modelVars, gatewayVars>>

\* The part that is at work keeps its types and bounds; the others do not move.
ServicesTypeOK ==
  CASE service = "notify" -> NotifyTypeOK
    [] service = "exports" -> ExportsTypeOK
    [] service = "previews" -> PreviewsTypeOK
    [] service = "clips" -> ClipsTypeOK
    [] service = "runtime" -> RuntimeTypeOK
    [] service = "keys" -> KeysTypeOK
    [] service = "tracker" -> TracksTypeOK
    [] service = "access" -> AccessTypeOK
    [] service = "model" -> ModelTypeOK
    [] service \in {"gateway", "probe"} -> GatewayTypeOK

ServicesInit ==
  /\ service \in Service
  /\ NotifyInit /\ (service = "notify") = (clients # {})
  /\ ExportsInit /\ PreviewsInit /\ ClipsInit /\ RuntimeInit
  /\ (service # "runtime" => rows = [i \in Id |-> "none"])
  /\ KeysInit /\ TracksInit /\ AccessInit /\ ModelInit
  /\ GatewayInit /\ (service # "gateway" => up)

mediaVars == <<exportVars, previewVars, clipVars>>
watchVars == <<trackVars, modelVars, gatewayVars>>
webVars == <<keyVars, accessVars>>

OnlyMedia == UNCHANGED <<notifyVars, runtimeVars, watchVars, webVars>>
OnlyWatch == UNCHANGED <<notifyVars, runtimeVars, mediaVars, webVars>>
OnlyWeb == UNCHANGED <<notifyVars, runtimeVars, mediaVars, watchVars>>

NotifyActs ==
  service = "notify" /\ NotifyNext /\ UNCHANGED <<runtimeVars, mediaVars, watchVars, webVars>>
RuntimeActs ==
  service = "runtime" /\ RuntimeNext /\ UNCHANGED <<notifyVars, mediaVars, watchVars, webVars>>

ExportsAct == service = "exports" /\ ExportsNext /\ UNCHANGED <<previewVars, clipVars>> /\ OnlyMedia
PreviewsAct == service = "previews" /\ PreviewsNext /\ UNCHANGED <<exportVars, clipVars>> /\ OnlyMedia
ClipsAct == service = "clips" /\ ClipsNext /\ UNCHANGED <<exportVars, previewVars>> /\ OnlyMedia

TrackerActs == service = "tracker" /\ TracksNext /\ UNCHANGED <<modelVars, gatewayVars>> /\ OnlyWatch
LoaderActs == service = "model" /\ ModelNext /\ UNCHANGED <<trackVars, gatewayVars>> /\ OnlyWatch
GatewayActs ==
  service = "gateway" /\ GatewayNext /\ UNCHANGED <<trackVars, modelVars>> /\ OnlyWatch
ProbesAct ==
  /\ service = "probe" /\ ProbeNext
  /\ UNCHANGED <<confFile, serves, up, syncing, managed, unheard, trackVars, modelVars>> /\ OnlyWatch

KeysAct == service = "keys" /\ KeysNext /\ UNCHANGED accessVars /\ OnlyWeb
AccessActs == service = "access" /\ AccessNext /\ UNCHANGED keyVars /\ OnlyWeb

ServicesNext ==
  /\ UNCHANGED service
  /\ \/ NotifyActs \/ ExportsAct \/ PreviewsAct \/ ClipsAct
     \/ RuntimeActs \/ KeysAct \/ TrackerActs \/ AccessActs
     \/ LoaderActs \/ GatewayActs \/ ProbesAct

\* Tasks run, sends end, waits expire, hours pass; nothing is assumed of users.
ServicesSpec ==
  /\ ServicesInit /\ [][ServicesNext]_servicesVars
  /\ NotifyFairness /\ ExportsFairness
=============================================================================
