------------------------------ MODULE KeepWarm ------------------------------
(***************************************************************************)
(* StreamKeepWarm of streams/keepwarm.py: one holder per mains camera that *)
(* keeps a session on its main stream and counts the sessions that end     *)
(* without media; enough of them in a row restart the gateway, at most     *)
(* once per interval for all cameras (Go2rtcManager.restart_gateway).      *)
(***************************************************************************)
EXTENDS Pipeline

VARIABLES
  holder,   \* per camera: the place of its task, silent sessions in a row,
            \* whether the session brought media
  mayReset  \* whether the interval since the last restart has passed

keepWarmVars == <<holder, mayReset>>

DrySessionsBeforeReset == 3

HolderPlace == {"absent", "connecting", "session", "resetting", "wait", "stopped"}
KeepWarmTypeOK ==
  /\ holder \in [Camera -> [pc : HolderPlace, dry : 0 .. DrySessionsBeforeReset - 1, got : BOOLEAN]]
  /\ mayReset \in BOOLEAN

\* Battery cameras have no holder; no restart is allowed until the monotonic
\* clock is older than the interval.
KeepWarmInit ==
  /\ holder = [c \in Camera |->
       [pc |-> IF c \in Battery THEN "absent" ELSE "connecting", dry |-> 0, got |-> FALSE]]
  /\ mayReset = FALSE

H(c) == <<"holder", c>>
HolderGo(c, pc) == holder' = [holder EXCEPT ![c].pc = pc]

\* The WebSocket comes up wherever the gateway does; if the camera does not answer the
\* gateway, the session stays silent.
HolderConnects(c) ==
  /\ holder[c].pc = "connecting" /\ up
  /\ IF Served(H(c)) THEN Attach(H(c)) ELSE UNCHANGED <<producer, attached>>
  /\ holder' = [holder EXCEPT ![c].pc = "session", ![c].got = FALSE]
  /\ UNCHANGED <<mayReset, setup, awake, up, child, stopping, faults>>

\* A connection that never came up does not count as silent.
HolderRefused(c) ==
  /\ holder[c].pc = "connecting" /\ ~up /\ HolderGo(c, "wait")
  /\ UNCHANGED <<mayReset, streamVars>>

HolderReceives(c) ==
  /\ holder[c].pc = "session" /\ Live(H(c)) /\ ~holder[c].got
  /\ holder' = [holder EXCEPT ![c].got = TRUE]
  /\ UNCHANGED <<mayReset, streamVars>>

\* The session is gone, or was idle for too long.
HolderSessionEnds(c) ==
  LET silent == IF holder[c].got THEN 0 ELSE holder[c].dry + 1
      reset == silent = DrySessionsBeforeReset IN
  /\ holder[c].pc = "session" /\ ~Live(H(c))
  /\ holder' = [holder EXCEPT ![c] = [pc |-> IF reset /\ mayReset THEN "resetting" ELSE "wait",
                                      dry |-> IF reset THEN 0 ELSE silent, got |-> FALSE]]
  /\ mayReset' = (mayReset /\ ~reset)
  /\ Leave({H(c)})
  /\ UNCHANGED <<setup, awake, up, child, stopping, faults>>

\* Mutant: the restart reaches nobody.
ResetNothing(c) ==
  /\ holder[c].pc = "resetting" /\ HolderGo(c, "wait")
  /\ UNCHANGED <<mayReset, streamVars>>

\* The restart, after the event that announces it; a gateway that does not
\* answer is left alone.
ResetGateway(c) ==
  /\ holder[c].pc = "resetting" /\ HolderGo(c, "wait")
  /\ IF up THEN DropAll ELSE UNCHANGED <<producer, attached>>
  /\ UNCHANGED <<mayReset, setup, awake, up, child, stopping, faults>>

HolderRetries(c) ==
  /\ holder[c].pc = "wait" /\ HolderGo(c, "connecting")
  /\ UNCHANGED <<mayReset, streamVars>>

IntervalPasses ==
  /\ ~mayReset /\ mayReset' = TRUE
  /\ UNCHANGED <<holder, streamVars>>

\* stop() cancels the holders wherever they are.
HoldersStop ==
  /\ "holder" \notin stopping /\ stopping' = stopping \union {"holder"}
  /\ holder' = [c \in Camera |-> [pc |-> IF c \in Battery THEN "absent" ELSE "stopped",
                                  dry |-> 0, got |-> FALSE]]
  /\ Leave({H(c) : c \in Camera})
  /\ UNCHANGED <<mayReset, setup, awake, up, child, faults>>

HolderSteps(c) ==
  \/ HolderConnects(c) \/ HolderRefused(c) \/ HolderSessionEnds(c)
  \/ ResetGateway(c) \/ HolderRetries(c)

KeepWarmNext == IntervalPasses \/ \E c \in Camera : HolderSteps(c) \/ HolderReceives(c)
=============================================================================
