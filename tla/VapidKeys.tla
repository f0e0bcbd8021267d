----------------------------- MODULE VapidKeys -----------------------------
(***************************************************************************)
(* Web push: the key pair of notify/webpush.py that is minted on first use *)
(* and kept in two rows of meta, the browsers that subscribe with its      *)
(* public half (api/routers/push.py), and a delivery to all of them, which *)
(* prunes the ones the push service calls gone.  A pair stands for its     *)
(* private half; the public one is derived from it.                        *)
(***************************************************************************)
EXTENDS Naturals, FiniteSets

CONSTANTS
  KeyCall,    \* calls of ensure_vapid_keys; each could mint its own pair
  Browser     \* browsers, each with one endpoint

VARIABLES
  meta,       \* per row of the two: the pair whose half it holds, or none
  asking,     \* per call: its place, and the pair it holds
  overtaken,  \* history: calls that read the row back and then had it overwritten
  subscribed, \* per browser: the pair it subscribed with, or none
  pushing     \* a delivery: its place, the pair it signs with, the subscriptions it still
              \* sends to, whether one was delivered and whether one failed

keyVars == <<meta, asking, overtaken, subscribed, pushing>>

NoKey == "no key"
Key == KeyCall \union {NoKey}
NotPushing == [pc |-> "none", key |-> NoKey, to |-> {}, ok |-> FALSE, failed |-> FALSE]

KeysTypeOK ==
  /\ meta \in [{"private", "public"} -> Key] /\ overtaken \subseteq KeyCall
  /\ asking \in [KeyCall -> [pc : {"none", "minting", "rereading", "deriving", "returned"},
                             key : Key]]
  /\ subscribed \in [Browser -> Key]
  /\ pushing \in [pc : {"none", "listed", "sending"}, key : Key, to : SUBSET (Browser \X Key),
                  ok : BOOLEAN, failed : BOOLEAN]

KeysInit ==
  /\ meta = [row \in {"private", "public"} |-> NoKey] /\ overtaken = {} /\ pushing = NotPushing
  /\ asking = [c \in KeyCall |-> [pc |-> "none", key |-> NoKey]]
  /\ subscribed = [b \in Browser |-> NoKey]

\* What the calls of the database do to the tables.
SetMeta(row, key) == meta' = [meta EXCEPT ![row] = key]
PutSubscription(b, key) == subscribed' = [subscribed EXCEPT ![b] = key]
DeleteSubscription(b) == subscribed' = [subscribed EXCEPT ![b] = NoKey]
Subscriptions == {<<b, subscribed[b]>> : b \in {d \in Browser : subscribed[d] # NoKey}}

At(c, pc, key) == asking' = [asking EXCEPT ![c] = [pc |-> pc, key |-> key]]

\* ensure_vapid_keys, from one access to the database to the next.
ReadKey(c) ==
  /\ asking[c].pc = "none"
  /\ At(c, IF meta["private"] = NoKey THEN "minting" ELSE "deriving", meta["private"])
  /\ UNCHANGED <<meta, overtaken, subscribed, pushing>>

MintKey(c) ==
  /\ asking[c].pc = "minting" /\ At(c, "rereading", c) /\ SetMeta("private", c)
  /\ overtaken' = overtaken \union {d \in KeyCall : asking[d].pc \in {"deriving", "returned"}}
  /\ UNCHANGED <<subscribed, pushing>>

\* Mutant: the call trusts the pair it has minted.
RereadNothing(c) ==
  /\ asking[c].pc = "rereading" /\ At(c, "deriving", c)
  /\ UNCHANGED <<meta, overtaken, subscribed, pushing>>

RereadKey(c) ==
  /\ asking[c].pc = "rereading" /\ At(c, "deriving", meta["private"])
  /\ UNCHANGED <<meta, overtaken, subscribed, pushing>>

\* The public row is written when it differs; a browser subscribes with the answer.
DeriveKey(c) ==
  /\ asking[c].pc = "deriving" /\ At(c, "returned", asking[c].key)
  /\ SetMeta("public", asking[c].key)
  /\ UNCHANGED <<overtaken, subscribed, pushing>>

Subscribe(b) ==
  /\ \E c \in KeyCall :
       asking[c].pc = "returned" /\ PutSubscription(b, asking[c].key)
  /\ UNCHANGED <<meta, asking, overtaken, pushing>>

Unsubscribe(b) ==
  /\ DeleteSubscription(b)
  /\ UNCHANGED <<meta, asking, overtaken, pushing>>

\* WebPushNotifier.send, when somebody is subscribed: the subscriptions are read
\* once, then the pair.
ListSubscriptions ==
  /\ pushing = NotPushing /\ Subscriptions # {}
  /\ pushing' = [NotPushing EXCEPT !.pc = "listed", !.to = Subscriptions]
  /\ UNCHANGED <<meta, asking, overtaken, subscribed>>

StartPush ==
  /\ pushing.pc = "listed"
  /\ \E c \in KeyCall : asking[c].pc = "returned" /\
       pushing' = [pushing EXCEPT !.pc = "sending", !.key = asking[c].key]
  /\ UNCHANGED <<meta, asking, overtaken, subscribed>>

\* A gone endpoint is pruned, whatever is stored under it by now; a signature
\* with another pair than the browser subscribed with is refused.
PushOne(it) ==
  /\ pushing.pc = "sending" /\ it \in pushing.to
  /\ \/ /\ pushing' = [pushing EXCEPT !.to = @ \ {it}]
        /\ DeleteSubscription(it[1])
     \/ /\ \E ok \in {FALSE, it[2] = pushing.key} :
             pushing' = [pushing EXCEPT !.to = @ \ {it}, !.ok = @ \/ ok, !.failed = @ \/ ~ok]
        /\ UNCHANGED subscribed
  /\ UNCHANGED <<meta, asking, overtaken>>

\* The delivery counts as failed when one failed and none arrived.
EndPush ==
  /\ pushing.pc = "sending" /\ pushing.to = {} /\ pushing' = NotPushing
  /\ UNCHANGED <<meta, asking, overtaken, subscribed>>

KeysNext ==
  \/ \E c \in KeyCall : ReadKey(c) \/ MintKey(c) \/ RereadKey(c) \/ DeriveKey(c)
  \/ \E b \in Browser : Subscribe(b) \/ Unsubscribe(b)
  \/ \E it \in Browser \X Key : PushOne(it)
  \/ ListSubscriptions \/ StartPush \/ EndPush

KeysSpec == KeysInit /\ [][KeysNext]_keyVars

-----------------------------------------------------------------------------
\* What the calls returned that a first call, still minting, overwrote the row behind.
Superseded == {asking[c].key : c \in overtaken}

\* Every call that was not overtaken returned the stored pair, and neither the public
\* row nor a browser has any pair but that one or one an overtaken call returned:
\* never one nobody was given (webpush.py 59-82).
KeysAreStable ==
  /\ \A c \in KeyCall \ overtaken : asking[c].pc = "returned" => asking[c].key = meta["private"]
  /\ meta["public"] \in {NoKey, meta["private"]} \union Superseded
  /\ \A b \in Browser : subscribed[b] \in {NoKey, meta["private"]} \union Superseded

\* "Later calls return the stored pair unchanged", and "if two first calls raced, the
\* row that landed is the single source of truth for both halves of the pair"
\* (webpush.py 62, 75-76).
ReturnedIsStored ==
  \A c \in KeyCall : asking[c].pc = "returned" => asking[c].key = meta["private"]
=============================================================================
