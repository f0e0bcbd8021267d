------------------------------- MODULE Streams -------------------------------
(***************************************************************************)
(* What the supervisors of a camera share: the camera, the gateway that    *)
(* dials it, and the order to stop.  The gateway (go2rtc) is external; it  *)
(* is modelled as streams/keepwarm.py and streams/go2rtc.py rely on it:    *)
(* one producer per stream, dialled for the first consumer and hung up     *)
(* after the last; a producer whose camera hung up may stay listed, silent *)
(* (a zombie), for as long as any consumer waits on it; a restart drops    *)
(* every session.                                                          *)
(***************************************************************************)
EXTENDS Naturals, FiniteSets

CONSTANTS
  Camera,
  Setups      \* cameras on battery, with a substream, recorded, watched; the bound
              \* on faults (hang-ups, outages, failing starts, crashes); and whether
              \* the runtime may stop the chain

ASSUME StreamsAssumption ==
  Setups \subseteq [battery : SUBSET Camera, sub : SUBSET Camera,
                    record : SUBSET Camera, detect : SUBSET Camera,
                    faults : Nat, stops : BOOLEAN]

VARIABLES
  setup,      \* chosen once: the configuration of the cameras
  awake,      \* cameras that answer
  up,         \* whether the gateway answers
  producer,   \* per stream: "none", "live" or "zombie"
  attached,   \* consumers with a session at the gateway
  child,      \* per supervisor: no ffmpeg, one connecting, or one connected
  stopping,   \* kinds of supervisors that were told to stop
  faults      \* faults that may still come

streamVars == <<setup, awake, up, producer, attached, child, stopping, faults>>

Kind == {"recorder", "pipeline", "holder"}
Consumer == Kind \X Camera
Supervisor == {"recorder", "pipeline"} \X Camera   \* those that run an ffmpeg child
Stream == Camera \X {"main", "sub"}
Battery == setup.battery

\* The recorder and the holder take the main stream, the pipeline the substream
\* of a camera that has one.
StreamOf(k) == <<k[2], IF k[1] = "pipeline" /\ k[2] \in setup.sub THEN "sub" ELSE "main">>

StreamsTypeOK ==
  /\ setup \in Setups /\ awake \subseteq Camera /\ up \in BOOLEAN
  /\ producer \in [Stream -> {"none", "live", "zombie"}]
  /\ attached \subseteq Consumer /\ child \in [Supervisor -> {"none", "new", "on"}]
  /\ stopping \subseteq Kind /\ faults \in 0 .. setup.faults

StreamsInit ==
  /\ setup \in Setups /\ awake = Camera /\ up = TRUE
  /\ producer = [s \in Stream |-> "none"]
  /\ attached = {} /\ child = [k \in Supervisor |-> "none"]
  /\ stopping = {} /\ faults = setup.faults

Fault == faults > 0 /\ faults' = faults - 1

\* The gateway can give k a session, and does.
Served(k) == up /\ (producer[StreamOf(k)] # "none" \/ k[2] \in awake)
Attach(k) ==
  /\ attached' = attached \union {k}
  /\ producer' = [producer EXCEPT ![StreamOf(k)] = IF @ = "none" THEN "live" ELSE @]

\* The consumers in K leave; a producer nobody waits on is hung up.
Leave(K) ==
  /\ attached' = attached \ K
  /\ producer' = [s \in Stream |->
       IF \E k \in attached \ K : StreamOf(k) = s THEN producer[s] ELSE "none"]

DropAll == Leave(attached)

Live(k) == k \in attached /\ producer[StreamOf(k)] = "live"

-----------------------------------------------------------------------------
(* The ffmpeg child of a supervisor.                                       *)

SpawnChild(k) == child' = [child EXCEPT ![k] = "new"]

\* SIGTERM, and SIGKILL after 5 s: the children of K are gone and reaped.
Reap(K) ==
  /\ child' = [k \in Supervisor |-> IF k \in K THEN "none" ELSE child[k]]
  /\ Leave(K)

\* A child gets its session, or exits: nothing to connect to, dropped, crashed.
ChildConnects(k) ==
  /\ child[k] = "new" /\ Served(k) /\ Attach(k)
  /\ child' = [child EXCEPT ![k] = "on"]
  /\ UNCHANGED <<setup, awake, up, stopping, faults>>

ChildExits(k) ==
  /\ child[k] # "none" /\ k \notin attached /\ (child[k] = "on" \/ ~Served(k))
  /\ child' = [child EXCEPT ![k] = "none"]
  /\ UNCHANGED <<setup, awake, up, producer, attached, stopping, faults>>

ChildCrashes(k) ==
  /\ child[k] # "none" /\ Fault /\ Reap({k})
  /\ UNCHANGED <<setup, awake, up, stopping>>

\* Timing: a stall timeout is longer than a connection and a segment take.
Coming(k) == Live(k) \/ (child[k] = "new" /\ Served(k))

-----------------------------------------------------------------------------
(* The world.                                                              *)

\* A camera hangs up on some of its streams: their consumers see the end, or
\* the gateway does not notice.  A camera that falls asleep hangs up on all.
HangUp(c) ==
  LET live == {s \in {c} \X {"main", "sub"} : producer[s] = "live"} IN
  /\ Fault
  /\ \E hung \in SUBSET live \ {{}} : \E zombies \in SUBSET hung :
       /\ producer' = [s \in Stream |->
            IF s \in zombies THEN "zombie" ELSE IF s \in hung THEN "none" ELSE producer[s]]
       /\ attached' = {k \in attached : StreamOf(k) \notin hung \ zombies}
       /\ awake' \in {awake} \union (IF hung = live THEN {awake \ {c}} ELSE {})
  /\ UNCHANGED <<setup, up, child, stopping>>

Wake(c) ==
  /\ c \notin awake /\ awake' = awake \union {c}
  /\ UNCHANGED <<setup, up, producer, attached, child, stopping, faults>>

GatewayFails ==
  /\ up /\ Fault /\ up' = FALSE /\ DropAll
  /\ UNCHANGED <<setup, awake, child, stopping>>

GatewayReturns ==
  /\ ~up /\ up' = TRUE
  /\ UNCHANGED <<setup, awake, producer, attached, child, stopping, faults>>

WorldNext == GatewayFails \/ GatewayReturns \/ \E c \in Camera : HangUp(c) \/ Wake(c)

\* Nothing outside the supervisors keeps camera c from being recorded.
Reachable(c) == up /\ c \in awake
=============================================================================
