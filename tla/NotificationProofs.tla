-------------------------- MODULE NotificationProofs --------------------------
(***************************************************************************)
(* What holds of Notifications for any subscriptions, rules, channels and  *)
(* bounds.  The bus gives every queue its messages in order and tells what *)
(* it drops; each consumer keeps what it took apart from what still waits. *)
(***************************************************************************)
EXTENDS Notifications, FiniteSetTheorems, WellFoundedInduction, TLAPS

-----------------------------------------------------------------------------
(* Queues.                                                                 *)

Contents(q) == {q[i] : i \in 1 .. Len(q)}

\* Only a system event may stand twice, in a row, in a queue.
SortedIn(q, topics) ==
  \A i, j \in 1 .. Len(q) :
    i < j => q[i] < q[j] \/ (q[i] = q[j] /\ topics[q[j]] = "system")

BusInv ==
  /\ BusTypeOK
  /\ \A s \in Subscription :
       /\ SortedIn(queue[s], emitted)
       /\ \A i \in 1 .. Len(queue[s]) : emitted[queue[s][i]] \in Wants(s)

LEMMA ElementsIn ==
  ASSUME NEW S, NEW q \in Seq(S), NEW i \in 1 .. Len(q)
  PROVE  q[i] \in S
  OBVIOUS

\* A full queue loses its first message to the new one.
LEMMA PutIs ==
  ASSUME NEW k \in Nat, NEW q \in Seq(1 .. k), Len(q) <= MaxQueue, NEW m \in 1 .. k
  PROVE  /\ Put(q, m) \in Seq(1 .. k) /\ Len(Put(q, m)) <= MaxQueue
         /\ \E off \in {0, 1} :
              /\ off <= Len(q)
              /\ Len(Put(q, m)) = Len(q) + 1 - off
              /\ \A i \in 1 .. Len(q) - off : Put(q, m)[i] = q[i + off]
              /\ Put(q, m)[Len(q) + 1 - off] = m
              /\ Dropped(q) = IF off = 1 THEN {q[1]} ELSE {}
<1>1. MaxQueue \in Nat /\ MaxQueue > 0
  BY BusAssumption
<1>2. CASE Len(q) = MaxQueue
  <2>1. q # <<>> /\ Tail(q) \in Seq(1 .. k) /\ Len(Tail(q)) = Len(q) - 1
        /\ \A i \in 1 .. Len(q) - 1 : Tail(q)[i] = q[i + 1]
    BY <1>1, <1>2
  <2>2. Put(q, m) = Append(Tail(q), m) /\ Dropped(q) = {q[1]}
    BY <1>2, <2>1 DEF Put, Dropped
  <2>3. /\ Put(q, m) \in Seq(1 .. k) /\ Len(Put(q, m)) = Len(q)
        /\ Put(q, m)[Len(q)] = m /\ \A i \in 1 .. Len(q) - 1 : Put(q, m)[i] = q[i + 1]
    BY <2>1, <2>2
  <2> QED
    BY <1>1, <1>2, <2>2, <2>3
<1>3. CASE Len(q) # MaxQueue
  <2>1. Put(q, m) = Append(q, m) /\ Dropped(q) = {}
    BY <1>3 DEF Put, Dropped
  <2> QED
    BY <1>1, <1>3, <2>1
<1> QED
  BY <1>2, <1>3

\* A message as new as any enters a queue in order.
LEMMA PutInOrder ==
  ASSUME NEW k \in Nat, NEW q \in Seq(1 .. k), Len(q) <= MaxQueue, NEW m \in 1 .. k,
         NEW topics, SortedIn(q, topics),
         \A i \in 1 .. Len(q) : q[i] < m \/ (q[i] = m /\ topics[m] = "system")
  PROVE  /\ Put(q, m) \in Seq(1 .. k) /\ Len(Put(q, m)) <= MaxQueue
         /\ SortedIn(Put(q, m), topics)
         /\ m \in Contents(Put(q, m)) /\ Contents(Put(q, m)) \subseteq Contents(q) \union {m}
         /\ Contents(q) \subseteq Contents(Put(q, m)) \union Dropped(q)
         /\ Dropped(q) \subseteq Contents(q)
<1> DEFINE p == Put(q, m)
<1>1. p \in Seq(1 .. k) /\ Len(p) <= MaxQueue
  BY PutIs
<1>2. PICK off \in {0, 1} :
        /\ off <= Len(q) /\ Len(p) = Len(q) + 1 - off
        /\ \A i \in 1 .. Len(q) - off : p[i] = q[i + off]
        /\ p[Len(q) + 1 - off] = m
        /\ Dropped(q) = IF off = 1 THEN {q[1]} ELSE {}
  BY PutIs
<1> HIDE DEF p
<1>3. Len(q) \in Nat
  OBVIOUS
<1>4. \A i \in 1 .. Len(p) : (i \in 1 .. Len(q) - off /\ i + off \in 1 .. Len(q)) \/ i = Len(q) + 1 - off
  BY <1>2, <1>3
<1>5. \A i \in 1 .. Len(q) : q[i] \in 1 .. k
  OBVIOUS
<1>6. SortedIn(p, topics)
  <2> SUFFICES ASSUME NEW i \in 1 .. Len(p), NEW j \in 1 .. Len(p), i < j
               PROVE  p[i] < p[j] \/ (p[i] = p[j] /\ topics[p[j]] = "system")
    BY DEF SortedIn
  <2>1. i \in 1 .. Len(q) - off /\ i + off \in 1 .. Len(q) /\ p[i] = q[i + off]
    BY <1>2, <1>3, <1>4
  <2>2. CASE j = Len(q) + 1 - off
    BY <1>2, <2>1, <2>2
  <2>3. CASE j \in 1 .. Len(q) - off /\ j + off \in 1 .. Len(q)
    <3>1. i + off < j + off /\ p[j] = q[j + off]
      BY <1>1, <1>2, <2>1, <2>3
    <3>2. \A x, y \in 1 .. Len(q) : x < y => q[x] < q[y] \/ (q[x] = q[y] /\ topics[q[y]] = "system")
      BY DEF SortedIn
    <3> QED BY <2>1, <2>3, <3>1, <3>2
  <2> QED BY <1>4, <2>2, <2>3
<1>7. m \in Contents(p)
  BY <1>1, <1>2, <1>3 DEF Contents
<1>8. Contents(p) \subseteq Contents(q) \union {m}
  BY <1>2, <1>4 DEF Contents
<1>9. Contents(q) \subseteq Contents(p) \union Dropped(q) /\ Dropped(q) \subseteq Contents(q)
  <2>1. ASSUME NEW i \in 1 .. Len(q) PROVE q[i] \in Contents(p) \union Dropped(q)
    <3>1. CASE off = 1 /\ i = 1
      BY <1>2, <3>1
    <3>2. CASE ~(off = 1 /\ i = 1)
      <4>1. i - off \in 1 .. Len(q) - off /\ i - off \in 1 .. Len(p) /\ (i - off) + off = i
        BY <1>2, <1>3, <3>2
      <4>2. p[i - off] = q[i]
        BY <1>2, <4>1
      <4> QED BY <4>1, <4>2 DEF Contents
    <3> QED BY <3>1, <3>2
  <2>2. Dropped(q) \subseteq Contents(q)
    BY <1>2, <1>3 DEF Contents
  <2> QED BY <2>1, <2>2 DEF Contents
<1> QED
  BY <1>1, <1>6, <1>7, <1>8, <1>9 DEF p

-----------------------------------------------------------------------------
(* The bus.                                                                *)

\* What an emission does to a subscription: it gets the message if it is attached and
\* asks for it, and whatever leaves its queue is dropped.
Gets(s, m) ==
  /\ Waiting(s)' \subseteq Waiting(s) \union {m}
  /\ Waiting(s) \union dropped[s] \subseteq Waiting(s)' \union dropped'[s]
  /\ dropped[s] \subseteq dropped'[s]
  /\ s \in open /\ emitted'[m] \in Wants(s) => m \in Waiting(s)'
  /\ emitted'[m] \notin Wants(s) => queue'[s] = queue[s] /\ dropped'[s] = dropped[s]

LEMMA Published ==
  ASSUME BusInv, NEW topic \in Topic, NEW twice \in BOOLEAN, twice => topic = "system",
         Publish(topic, twice)
  PROVE  /\ BusInv' /\ open' = open
         /\ Len(emitted') = Len(emitted) + 1 /\ emitted'[Len(emitted) + 1] = topic
         /\ \A i \in 1 .. Len(emitted) : emitted'[i] = emitted[i]
         /\ \A s \in Subscription : Gets(s, Len(emitted) + 1)
<1> DEFINE m == Len(emitted) + 1
           asks(s) == s \in open /\ topic \in Wants(s)
           once(s) == Put(queue[s], m)
<1>1. /\ emitted \in Seq(Topic) /\ Len(emitted) < MaxEmits /\ emitted' = Append(emitted, topic)
      /\ open' = open
      /\ queue' = [s \in Subscription |->
           IF ~asks(s) THEN queue[s] ELSE IF twice THEN Put(once(s), m) ELSE once(s)]
      /\ dropped' = [s \in Subscription |->
           IF ~asks(s) THEN dropped[s]
           ELSE dropped[s] \union Dropped(queue[s]) \union (IF twice THEN Dropped(once(s)) ELSE {})]
  BY DEF Publish, BusInv, BusTypeOK
<1>2. /\ emitted' \in Seq(Topic) /\ Len(emitted') = m /\ emitted'[m] = topic
      /\ \A i \in 1 .. Len(emitted) : emitted'[i] = emitted[i]
      /\ m \in Nat /\ m \in 1 .. m /\ m <= MaxEmits /\ 1 .. Len(emitted) \subseteq 1 .. m
      /\ \A i \in 1 .. Len(emitted) : i < m
  BY <1>1, BusAssumption
<1>3. ASSUME NEW s \in Subscription
      PROVE  /\ queue[s] \in Seq(1 .. m) /\ queue[s] \in Seq(1 .. Len(emitted))
             /\ Len(queue[s]) <= MaxQueue /\ dropped[s] \subseteq 1 .. m
             /\ SortedIn(queue[s], emitted') /\ Contents(queue[s]) \subseteq 1 .. Len(emitted)
             /\ \A x \in Contents(queue[s]) : emitted'[x] \in Wants(s)
  <2>1. /\ queue[s] \in Seq(1 .. Len(emitted)) /\ Len(queue[s]) <= MaxQueue
        /\ dropped[s] \subseteq 1 .. Len(emitted)
    BY DEF BusInv, BusTypeOK
  <2>2. \A i \in 1 .. Len(queue[s]) : queue[s][i] \in 1 .. Len(emitted)
    BY <2>1
  <2>3. SortedIn(queue[s], emitted')
    BY <1>2, <2>2 DEF BusInv, SortedIn
  <2>4. \A x \in Contents(queue[s]) : emitted'[x] \in Wants(s)
    BY <1>2, <2>2 DEF BusInv, Contents
  <2> QED BY <1>2, <2>1, <2>2, <2>3, <2>4 DEF Contents
<1> HIDE DEF m
<1>a. ASSUME NEW q \in Seq(1 .. m), Len(q) <= MaxQueue, SortedIn(q, emitted'),
             \A i \in 1 .. Len(q) : q[i] < m \/ (q[i] = m /\ emitted'[m] = "system")
      PROVE  /\ Put(q, m) \in Seq(1 .. m) /\ Len(Put(q, m)) <= MaxQueue
             /\ SortedIn(Put(q, m), emitted') /\ m \in Contents(Put(q, m))
             /\ Contents(Put(q, m)) \subseteq Contents(q) \union {m}
             /\ Contents(q) \subseteq Contents(Put(q, m)) \union Dropped(q)
             /\ Dropped(q) \subseteq Contents(q)
  BY <1>2, <1>a, PutInOrder
<1>4. ASSUME NEW s \in Subscription, asks(s)
      PROVE  /\ once(s) \in Seq(1 .. m) /\ Len(once(s)) <= MaxQueue
             /\ SortedIn(once(s), emitted') /\ m \in Contents(once(s))
             /\ Contents(once(s)) \subseteq Contents(queue[s]) \union {m}
             /\ Contents(queue[s]) \subseteq Contents(once(s)) \union Dropped(queue[s])
             /\ Dropped(queue[s]) \subseteq Contents(queue[s])
  <2>1. \A i \in 1 .. Len(queue[s]) : queue[s][i] < m
    BY <1>2, <1>3 DEF Contents
  <2> QED BY <1>3, <2>1, <1>a
<1>5. ASSUME NEW s \in Subscription, asks(s), twice
      PROVE  /\ Put(once(s), m) \in Seq(1 .. m) /\ Len(Put(once(s), m)) <= MaxQueue
             /\ SortedIn(Put(once(s), m), emitted') /\ m \in Contents(Put(once(s), m))
             /\ Contents(Put(once(s), m)) \subseteq Contents(once(s)) \union {m}
             /\ Contents(once(s)) \subseteq Contents(Put(once(s), m)) \union Dropped(once(s))
             /\ Dropped(once(s)) \subseteq Contents(once(s))
  <2>1. \A i \in 1 .. Len(once(s)) : once(s)[i] \in 1 .. m
    BY <1>4, <1>5, ElementsIn
  <2>2. \A i \in 1 .. Len(once(s)) : once(s)[i] < m \/ (once(s)[i] = m /\ emitted'[m] = "system")
    BY <1>2, <1>5, <2>1 DEF m
  <2> HIDE DEF once
  <2> QED BY <1>4, <1>5, <2>2, <1>a
<1> HIDE DEF once
<1>6. ASSUME NEW s \in Subscription
      PROVE  /\ queue'[s] \in Seq(1 .. m) /\ Len(queue'[s]) <= MaxQueue /\ dropped'[s] \subseteq 1 .. m
             /\ SortedIn(queue'[s], emitted')
             /\ \A x \in Contents(queue'[s]) : emitted'[x] \in Wants(s)
             /\ Contents(queue'[s]) \subseteq Contents(queue[s]) \union {m}
             /\ Contents(queue[s]) \union dropped[s] \subseteq Contents(queue'[s]) \union dropped'[s]
             /\ dropped[s] \subseteq dropped'[s]
             /\ asks(s) => m \in Contents(queue'[s])
             /\ ~asks(s) => queue'[s] = queue[s] /\ dropped'[s] = dropped[s]
  <2>1. CASE ~asks(s)
    BY <1>1, <1>3, <2>1
  <2>2. CASE asks(s) /\ twice
    <3>1. /\ queue'[s] = Put(once(s), m)
          /\ dropped'[s] = dropped[s] \union Dropped(queue[s]) \union Dropped(once(s))
      BY <1>1, <2>2
    <3>2. /\ queue'[s] \in Seq(1 .. m) /\ Len(queue'[s]) <= MaxQueue
          /\ SortedIn(queue'[s], emitted') /\ m \in Contents(queue'[s])
          /\ Contents(queue'[s]) \subseteq Contents(once(s)) \union {m}
          /\ Contents(once(s)) \subseteq Contents(queue'[s]) \union Dropped(once(s))
          /\ Dropped(once(s)) \subseteq Contents(once(s))
      BY <1>5, <2>2, <3>1
    <3>3. /\ Contents(once(s)) \subseteq Contents(queue[s]) \union {m}
          /\ Contents(queue[s]) \subseteq Contents(once(s)) \union Dropped(queue[s])
          /\ Dropped(queue[s]) \subseteq Contents(queue[s])
      BY <1>4, <2>2
    <3>7. PICK M : M = 1 .. m
      OBVIOUS
    <3>4. /\ dropped[s] \subseteq M /\ Contents(queue[s]) \subseteq M /\ m \in M
      <4>1. Contents(queue[s]) \subseteq 1 .. Len(emitted) /\ 1 .. Len(emitted) \subseteq 1 .. m
        BY <1>2, <1>3
      <4> QED BY <1>2, <1>3, <3>7, <4>1, Zenon
    <3>8. /\ \A x \in Contents(queue[s]) : emitted'[x] \in Wants(s)
          /\ emitted'[m] \in Wants(s)
      BY <1>2, <1>3, <2>2
    <3>5. dropped'[s] \subseteq M
      BY <3>1, <3>2, <3>3, <3>4
    <3>6. \A x \in Contents(queue'[s]) : emitted'[x] \in Wants(s)
      BY <3>2, <3>3, <3>8
    <3> QED BY <2>2, <3>1, <3>2, <3>3, <3>5, <3>6, <3>7
  <2>3. CASE asks(s) /\ ~twice
    <3>1. queue'[s] = once(s) /\ dropped'[s] = dropped[s] \union Dropped(queue[s])
      BY <1>1, <2>3
    <3> QED BY <1>2, <1>3, <1>4, <2>3, <3>1
  <2> QED BY <2>1, <2>2, <2>3
<1>7. BusInv'
  <2>1. BusTypeOK'
    BY <1>1, <1>2, <1>6 DEF BusInv, BusTypeOK
  <2>2. \A s \in Subscription : \A i \in 1 .. Len(queue'[s]) : emitted'[queue'[s][i]] \in Wants(s)
    BY <1>6 DEF Contents
  <2> QED BY <1>6, <2>1, <2>2 DEF BusInv
<1>8. \A s \in Subscription : Gets(s, m)
  BY <1>2, <1>6 DEF Gets, Waiting, Contents
<1> QED
  BY <1>1, <1>2, <1>7, <1>8 DEF m

LEMMA Emitted ==
  ASSUME BusInv, Emission
  PROVE  /\ BusInv' /\ open' = open /\ Len(emitted') = Len(emitted) + 1
         /\ emitted'[Len(emitted) + 1] \in Topic
         /\ \A i \in 1 .. Len(emitted) : emitted'[i] = emitted[i]
         /\ \A s \in Subscription : Gets(s, Len(emitted) + 1)
  BY Published DEF Emission, EngineSays, SystemEvent, Topic

\* A consumer takes the oldest message of its own queue.
LEMMA TailIs ==
  ASSUME NEW k \in Nat, NEW q \in Seq(1 .. k), q # <<>>
  PROVE  /\ Head(q) = q[1] /\ 1 \in 1 .. Len(q) /\ Head(q) \in 1 .. k
         /\ Tail(q) \in Seq(1 .. k) /\ Len(Tail(q)) = Len(q) - 1 /\ Len(q) \in Nat
         /\ \A i \in 1 .. Len(q) - 1 : Tail(q)[i] = q[i + 1] /\ i + 1 \in 1 .. Len(q)
  OBVIOUS

LEMMA TailInOrder ==
  ASSUME NEW k \in Nat, NEW q \in Seq(1 .. k), q # <<>>, NEW topics, SortedIn(q, topics)
  PROVE  /\ SortedIn(Tail(q), topics)
         /\ Contents(q) = Contents(Tail(q)) \union {Head(q)}
         /\ \A m \in Contents(Tail(q)) : Head(q) < m \/ (Head(q) = m /\ topics[m] = "system")
<1> DEFINE t == Tail(q)
<1>1. /\ Head(q) = q[1] /\ 1 \in 1 .. Len(q) /\ Len(t) = Len(q) - 1 /\ Len(q) \in Nat
      /\ \A i \in 1 .. Len(q) - 1 : t[i] = q[i + 1] /\ i + 1 \in 1 .. Len(q)
  BY TailIs
<1> HIDE DEF t
<1>2. \A i, j \in 1 .. Len(q) : i < j => q[i] < q[j] \/ (q[i] = q[j] /\ topics[q[j]] = "system")
  BY DEF SortedIn
<1>3. SortedIn(t, topics)
  <2> SUFFICES ASSUME NEW i \in 1 .. Len(t), NEW j \in 1 .. Len(t), i < j
               PROVE  t[i] < t[j] \/ (t[i] = t[j] /\ topics[t[j]] = "system")
    BY DEF SortedIn
  <2>1. /\ t[i] = q[i + 1] /\ t[j] = q[j + 1] /\ i + 1 < j + 1
        /\ i + 1 \in 1 .. Len(q) /\ j + 1 \in 1 .. Len(q)
    BY <1>1
  <2> QED BY <1>2, <2>1
<1>4. Contents(q) = Contents(t) \union {Head(q)}
  <2>1. \A i \in 1 .. Len(q) : i = 1 \/ (i - 1 \in 1 .. Len(q) - 1 /\ (i - 1) + 1 = i)
    BY <1>1
  <2>2. \A i \in 1 .. Len(q) : q[i] = q[1] \/ (i - 1 \in 1 .. Len(t) /\ t[i - 1] = q[i])
    BY <1>1, <2>1
  <2>3. \A i \in 1 .. Len(t) : i + 1 \in 1 .. Len(q) /\ q[i + 1] = t[i]
    BY <1>1
  <2>4. \A x \in Contents(q) : x \in Contents(t) \/ x = Head(q)
    <3>1. ASSUME NEW i \in 1 .. Len(q) PROVE q[i] \in Contents(t) \/ q[i] = Head(q)
      <4>1. CASE q[i] = q[1]
        BY <4>1, <1>1
      <4>2. CASE i - 1 \in 1 .. Len(t) /\ t[i - 1] = q[i]
        BY <4>2 DEF Contents
      <4> QED BY <2>2, <4>1, <4>2
    <3>2. ASSUME NEW x \in Contents(q) PROVE x \in Contents(t) \/ x = Head(q)
      <4>1. PICK i \in 1 .. Len(q) : x = q[i]
        BY DEF Contents
      <4>2. q[i] \in Contents(t) \/ q[i] = Head(q)
        BY <3>1
      <4> QED BY <4>1, <4>2
    <3> QED BY <3>2
  <2>5. ASSUME NEW x \in Contents(t) PROVE x \in Contents(q)
    <3>1. PICK i \in 1 .. Len(t) : x = t[i]
      BY DEF Contents
    <3>2. PICK j \in 1 .. Len(q) : q[j] = t[i]
      BY <2>3
    <3> QED BY <3>1, <3>2 DEF Contents
  <2>6. Head(q) \in Contents(q)
    BY <1>1, Zenon DEF Contents
  <2> QED BY <2>4, <2>5, <2>6
<1>5. \A m \in Contents(t) : Head(q) < m \/ (Head(q) = m /\ topics[m] = "system")
  <2>2. ASSUME NEW i \in 1 .. Len(t)
        PROVE  q[1] < t[i] \/ (q[1] = t[i] /\ topics[t[i]] = "system")
    <3>1. i + 1 \in 1 .. Len(q) /\ t[i] = q[i + 1] /\ i \in Nat /\ i > 0
      BY <1>1
    <3>2. 1 < i + 1
      BY <3>1
    <3> QED BY <1>1, <1>2, <3>1, <3>2
  <2> QED BY <1>1, <2>2 DEF Contents
<1> QED BY <1>3, <1>4, <1>5 DEF t

LEMMA Taken ==
  ASSUME BusInv, NEW s \in Subscription, Take(s), UNCHANGED <<emitted, open, dropped>>
  PROVE  /\ BusInv' /\ Head(queue[s]) \in 1 .. Len(emitted)
         /\ emitted[Head(queue[s])] \in Wants(s)
         /\ Waiting(s) = Waiting(s)' \union {Head(queue[s])} /\ Waiting(s) \subseteq 1 .. Len(emitted)
         /\ \A m \in Waiting(s)' : Head(queue[s]) < m \/ (Head(queue[s]) = m /\ emitted[m] = "system")
         /\ \A t \in Subscription \ {s} : queue'[t] = queue[t] /\ Waiting(t)' = Waiting(t)
<1>1. /\ queue[s] \in Seq(1 .. Len(emitted)) /\ queue[s] # <<>> /\ Len(queue[s]) <= MaxQueue
      /\ queue' = [queue EXCEPT ![s] = Tail(queue[s])]
  BY DEF BusInv, BusTypeOK, Take
<1>2. /\ Head(queue[s]) \in 1 .. Len(emitted) /\ emitted[Head(queue[s])] \in Wants(s)
      /\ Tail(queue[s]) \in Seq(1 .. Len(emitted)) /\ Len(Tail(queue[s])) <= MaxQueue
      /\ \A i \in 1 .. Len(Tail(queue[s])) : emitted[Tail(queue[s])[i]] \in Wants(s)
  <2>1. Len(emitted) \in Nat /\ MaxQueue \in Nat
    BY BusAssumption DEF BusInv, BusTypeOK
  <2>2. PICK q \in Seq(1 .. Len(emitted)) : q = queue[s] /\ q # <<>> /\ Len(q) <= MaxQueue
    BY <1>1
  <2>3. \A i \in 1 .. Len(q) : emitted[q[i]] \in Wants(s)
    BY <2>2 DEF BusInv
  <2>4. /\ Head(q) = q[1] /\ 1 \in 1 .. Len(q) /\ Head(q) \in 1 .. Len(emitted)
        /\ Tail(q) \in Seq(1 .. Len(emitted)) /\ Len(Tail(q)) = Len(q) - 1 /\ Len(q) \in Nat
        /\ \A i \in 1 .. Len(q) - 1 : Tail(q)[i] = q[i + 1] /\ i + 1 \in 1 .. Len(q)
    BY <2>1, <2>2, TailIs
  <2>5. \A i \in 1 .. Len(Tail(q)) : emitted[Tail(q)[i]] \in Wants(s)
    BY <2>3, <2>4
  <2>6. Head(q) \in 1 .. Len(emitted) /\ emitted[Head(q)] \in Wants(s) /\ Len(Tail(q)) <= MaxQueue
    BY <2>1, <2>2, <2>3, <2>4
  <2> QED BY <2>2, <2>4, <2>5, <2>6
<1>3. /\ SortedIn(Tail(queue[s]), emitted)
      /\ Contents(queue[s]) = Contents(Tail(queue[s])) \union {Head(queue[s])}
      /\ \A m \in Contents(Tail(queue[s])) :
           Head(queue[s]) < m \/ (Head(queue[s]) = m /\ emitted[m] = "system")
  <2>1. Len(emitted) \in Nat /\ SortedIn(queue[s], emitted)
    BY DEF BusInv, BusTypeOK
  <2> QED BY <1>1, <2>1, TailInOrder
<1>4. /\ queue'[s] = Tail(queue[s]) /\ \A t \in Subscription \ {s} : queue'[t] = queue[t]
      /\ queue' \in [Subscription -> Seq(1 .. Len(emitted))]
      /\ \A t \in Subscription : Len(queue'[t]) <= MaxQueue
  BY <1>1, <1>2 DEF BusInv, BusTypeOK
<1>5. BusInv'
  BY <1>2, <1>3, <1>4 DEF BusInv, BusTypeOK
<1>6. \A t \in Subscription : Waiting(t) = Contents(queue[t]) /\ Waiting(t)' = Contents(queue'[t])
  BY DEF Waiting, Contents
<1>7. Contents(queue[s]) \subseteq 1 .. Len(emitted)
  BY <1>1, ElementsIn DEF Contents
<1> QED
  BY <1>2, <1>3, <1>4, <1>5, <1>6, <1>7

LEMMA BusRests ==
  ASSUME BusInv, UNCHANGED <<emitted, queue, dropped>>, open' \subseteq Subscription
  PROVE  BusInv'
  BY DEF BusInv, BusTypeOK

LEMMA SubsDiffer ==
  /\ \A r \in Rule : RuleSub(r) \in Subscription /\ RuleSub(r) \notin MqttSub /\ RuleSub(r) # LiveSub
  /\ \A r, q \in Rule : RuleSub(r) = RuleSub(q) => r = q
  /\ MqttSub \subseteq Subscription /\ LiveSub \in Subscription /\ LiveSub \notin MqttSub
  BY DispatcherAssumption, MqttAssumption, LiveAssumption DEF RuleSub, MqttSub, LiveSub

-----------------------------------------------------------------------------
(* Rules.                                                                  *)

\* NothingVanishes, of one rule.
Accounted(r) ==
  \A ch \in ChannelsOf(r) : \A m \in Wanted(RuleSub(r)) :
    \/ <<r, m>> \in givenUp[ch] \union heard[ch] \union unreached[ch]
    \/ m \in Waiting(RuleSub(r)) \union dropped[RuleSub(r)]
    \/ pump[r].on = m /\ pump[r].at[ch] # "settled"

\* What receivers got last is not newer than what the pump is on, and that is not
\* newer than what waits.
RuleInv(r) ==
  /\ pump[r].on <= Len(emitted)
  /\ \A ch \in ChannelsOf(r) : pump[r].at[ch] # "settled" => pump[r].on # 0
  /\ notifying =>
       /\ RuleSub(r) \in open
       /\ \A m \in Waiting(RuleSub(r)) : pump[r].on <= m
       /\ \A ch \in Channel : latest[r][ch] <= pump[r].on
       /\ Accounted(r)
  /\ ~notifying => pump[r].at = Settled(r)

DispatcherInv == DispatcherTypeOK /\ \A r \in Rule : RuleInv(r)

\* A rule whose own things stay.
LEMMA RuleKeeps ==
  ASSUME NEW r \in Rule, RuleInv(r), DispatcherTypeOK,
         pump'[r] = pump[r], latest'[r] = latest[r], UNCHANGED <<notifying, emitted>>,
         \A ch \in Channel : /\ heard[ch] \subseteq heard'[ch] /\ givenUp[ch] \subseteq givenUp'[ch]
                             /\ unreached[ch] \subseteq unreached'[ch],
         queue'[RuleSub(r)] = queue[RuleSub(r)], dropped'[RuleSub(r)] = dropped[RuleSub(r)],
         RuleSub(r) \in open => RuleSub(r) \in open'
  PROVE  RuleInv(r)'
<1>1. Waiting(RuleSub(r))' = Waiting(RuleSub(r)) /\ Wanted(RuleSub(r))' = Wanted(RuleSub(r))
  BY DEF Waiting, Wanted, RuleSub
<1>2. ChannelsOf(r) \subseteq Channel
  BY DispatcherAssumption
<1>3. Accounted(r) => Accounted(r)'
  BY <1>1, <1>2 DEF Accounted
<1> QED
  BY <1>1, <1>3 DEF RuleInv, Settled

LEMMA DispatcherRests ==
  ASSUME DispatcherInv, UNCHANGED <<dispatcherVars, emitted>>,
         \A r \in Rule : /\ queue'[RuleSub(r)] = queue[RuleSub(r)]
                         /\ dropped'[RuleSub(r)] = dropped[RuleSub(r)]
                         /\ RuleSub(r) \in open => RuleSub(r) \in open'
  PROVE  DispatcherInv'
<1>1. DispatcherTypeOK'
  BY DEF DispatcherInv, DispatcherTypeOK, dispatcherVars
<1>2. \A r \in Rule : RuleInv(r)'
  BY RuleKeeps DEF DispatcherInv, dispatcherVars
<1> QED BY <1>1, <1>2 DEF DispatcherInv

LEMMA DispatcherHearsEmission ==
  ASSUME BusInv, DispatcherInv, Emission, UNCHANGED dispatcherVars
  PROVE  DispatcherInv'
<1>1. DispatcherTypeOK'
  BY DEF DispatcherInv, DispatcherTypeOK, dispatcherVars
<1>2. ASSUME NEW r \in Rule PROVE RuleInv(r)'
  <2> DEFINE s == RuleSub(r)
             m == Len(emitted) + 1
  <2>1. /\ s \in Subscription /\ open' = open /\ Len(emitted') = m
        /\ \A i \in 1 .. Len(emitted) : emitted'[i] = emitted[i]
        /\ Gets(s, m) /\ Len(emitted) \in Nat
    BY SubsDiffer, Emitted DEF BusInv, BusTypeOK
  <2>2. RuleInv(r)
    BY DEF DispatcherInv
  <2>3. \A w \in Wanted(s)' : w \in Wanted(s) \/ (w = m /\ emitted'[m] \in Wants(s))
    BY <2>1 DEF Wanted
  <2>4. pump'[r] = pump[r] /\ latest'[r] = latest[r] /\ heard' = heard /\ givenUp' = givenUp
        /\ unreached' = unreached /\ notifying' = notifying
    BY DEF dispatcherVars
  <2> HIDE DEF s, m
  <2>5. notifying => Accounted(r)'
    BY <2>1, <2>2, <2>3, <2>4 DEF RuleInv, Accounted, Gets, s
  <2>6. notifying => \A w \in Waiting(s)' : pump[r].on <= w
    BY <2>1, <2>2 DEF RuleInv, Gets, s, m, DispatcherInv, DispatcherTypeOK
  <2>7. pump[r].on <= Len(emitted')
    BY <2>1, <2>2 DEF RuleInv, m, DispatcherInv, DispatcherTypeOK
  <2> QED BY <2>1, <2>2, <2>4, <2>5, <2>6, <2>7 DEF RuleInv, Settled, s
<1> QED BY <1>1, <1>2 DEF DispatcherInv

LEMMA PumpStep ==
  ASSUME BusInv, DispatcherInv, NEW r \in Rule, PumpTakes(r)
  PROVE  BusInv' /\ DispatcherInv'
<1> DEFINE s == RuleSub(r)
           m == Head(queue[s])
<1>1. /\ notifying /\ pump[r].at = Settled(r) /\ Take(s)
      /\ pump' = [pump EXCEPT ![r] = [on |-> m, at |-> [ch \in ChannelsOf(r) |-> "waiting"]]]
      /\ UNCHANGED <<tries, heard, latest, givenUp, unreached, notifying, emitted, open, dropped>>
  BY DEF PumpTakes
<1>2. /\ BusInv' /\ m \in 1 .. Len(emitted) /\ Waiting(s) = Waiting(s)' \union {m}
      /\ Waiting(s) \subseteq 1 .. Len(emitted)
      /\ \A w \in Waiting(s)' : m < w \/ (m = w /\ emitted[w] = "system")
      /\ \A t \in Subscription \ {s} : queue'[t] = queue[t]
  BY <1>1, SubsDiffer, Taken
<1>3. RuleInv(r) /\ ChannelsOf(r) \subseteq Channel /\ Len(emitted) \in Nat /\ Len(emitted) <= MaxEmits
      /\ MaxEmits \in Nat
  BY DispatcherAssumption, BusAssumption DEF DispatcherInv, BusInv, BusTypeOK
<1> HIDE DEF m
<1>4. pump'[r] = [on |-> m, at |-> [ch \in ChannelsOf(r) |-> "waiting"]]
      /\ (\A q \in Rule \ {r} : pump'[q] = pump[q]) /\ DOMAIN pump' = Rule
  BY <1>1 DEF DispatcherInv, DispatcherTypeOK
<1>5. DispatcherTypeOK'
  <2>1. pump'[r] \in [on : 0 .. MaxEmits, at : [ChannelsOf(r) -> Progress]]
    BY <1>2, <1>3, <1>4 DEF Progress
  <2> QED BY <1>1, <1>4, <2>1 DEF DispatcherInv, DispatcherTypeOK
<1>6. \A q \in Rule \ {r} : RuleInv(q)'
  <2> SUFFICES ASSUME NEW q \in Rule \ {r} PROVE RuleInv(q)'
    OBVIOUS
  <2>1. RuleSub(q) \in Subscription \ {s}
    BY SubsDiffer
  <2> QED BY <1>1, <1>2, <1>4, <2>1, RuleKeeps DEF DispatcherInv
<1> HIDE DEF s
<1>7. RuleInv(r)'
  <2>1. \A ch \in ChannelsOf(r) : pump[r].at[ch] = "settled" /\ pump'[r].at[ch] = "waiting"
    BY <1>1, <1>4 DEF Settled
  <2>2. m \in Waiting(s) /\ \A ch \in Channel : latest[r][ch] <= m
    <3>1. pump[r].on \in Nat /\ m \in Nat /\ \A ch \in Channel : latest[r][ch] \in Nat
      BY <1>2, <1>3 DEF DispatcherInv, DispatcherTypeOK
    <3>2. pump[r].on <= m /\ \A ch \in Channel : latest[r][ch] <= pump[r].on
      BY <1>1, <1>2, <1>3 DEF RuleInv, s
    <3> QED BY <1>2, <3>1, <3>2
  <2>3. Accounted(r)'
    BY <1>1, <1>2, <1>3, <1>4, <2>1 DEF RuleInv, Accounted, Wanted, s
  <2>4. \A w \in Waiting(s)' : m <= w
    <3>1. \A w \in Waiting(s)' : w \in Nat /\ m \in Nat
      BY <1>2, <1>3
    <3> QED BY <1>2, <3>1
  <2> QED BY <1>1, <1>2, <1>3, <1>4, <2>1, <2>2, <2>3, <2>4 DEF RuleInv, s
<1> QED BY <1>2, <1>5, <1>6, <1>7 DEF DispatcherInv

\* HeardInOrder, of one step.
HeardOn == \A r \in Rule, ch \in Channel : latest'[r][ch] >= latest[r][ch]

\* A delivery goes on, or ends with the message heard or given up.
LEMMA DeliveryStep ==
  ASSUME BusInv, DispatcherInv, NEW r \in Rule, NEW ch \in ChannelsOf(r), NEW place \in Progress,
         pump[r].at[ch] # "settled",
         DOMAIN pump' = Rule, \A q \in Rule \ {r} : pump'[q] = pump[q],
         pump'[r] = [on |-> pump[r].on, at |-> [pump[r].at EXCEPT ![ch] = place]],
         tries' \in [Channel -> Nat], \A c \in Channel : tries'[c] < Attempts(c),
         heard' \in [Channel -> SUBSET (Rule \X Message)],
         givenUp' \in [Channel -> SUBSET (Rule \X Message)],
         unreached' \in [Channel -> SUBSET (Rule \X Message)],
         \A c \in Channel : /\ heard[c] \subseteq heard'[c] /\ givenUp[c] \subseteq givenUp'[c]
                            /\ unreached[c] \subseteq unreached'[c],
         place = "settled" => <<r, pump[r].on>> \in givenUp'[ch] \union heard'[ch] \union unreached'[ch],
         latest' = latest \/ latest' = [latest EXCEPT ![r][ch] = pump[r].on],
         UNCHANGED <<notifying, busVars>>
  PROVE  DispatcherInv' /\ HeardOn
<1>1. /\ RuleInv(r) /\ ChannelsOf(r) \subseteq Channel /\ DispatcherTypeOK
      /\ pump[r] \in [on : 0 .. MaxEmits, at : [ChannelsOf(r) -> Progress]]
      /\ latest \in [Rule -> [Channel -> 0 .. MaxEmits]] /\ MaxEmits \in Nat
  BY DispatcherAssumption, BusAssumption DEF DispatcherInv, DispatcherTypeOK
<1>2. notifying /\ \A c \in Channel : latest[r][c] <= pump[r].on
  BY <1>1 DEF RuleInv, Settled
<1>3. /\ pump'[r] \in [on : 0 .. MaxEmits, at : [ChannelsOf(r) -> Progress]]
      /\ pump'[r].on = pump[r].on /\ pump'[r].at[ch] = place
      /\ \A c \in ChannelsOf(r) \ {ch} : pump'[r].at[c] = pump[r].at[c]
  BY <1>1
<1>4. /\ latest' \in [Rule -> [Channel -> 0 .. MaxEmits]]
      /\ \A q \in Rule \ {r} : latest'[q] = latest[q]
      /\ \A c \in Channel : latest'[r][c] \in {latest[r][c], pump[r].on}
  <2>1. CASE latest' = latest
    BY <1>1, <2>1
  <2>2. CASE latest' = [latest EXCEPT ![r][ch] = pump[r].on]
    <3>1. latest[r] \in [Channel -> 0 .. MaxEmits] /\ pump[r].on \in 0 .. MaxEmits /\ ch \in Channel
      BY <1>1
    <3>2. /\ latest'[r] = [latest[r] EXCEPT ![ch] = pump[r].on]
          /\ \A q \in Rule \ {r} : latest'[q] = latest[q]
      BY <1>1, <2>2
    <3>3. latest'[r] \in [Channel -> 0 .. MaxEmits]
      BY <3>1, <3>2
    <3> QED BY <1>1, <2>2, <3>1, <3>2, <3>3
  <2> QED BY <2>1, <2>2
<1>5. DispatcherTypeOK'
  <2>1. \A q \in Rule : pump'[q] \in [on : 0 .. MaxEmits, at : [ChannelsOf(q) -> Progress]]
    BY <1>1, <1>3 DEF DispatcherTypeOK
  <2>2. notifying' \in BOOLEAN
    BY <1>1 DEF DispatcherTypeOK
  <2>3. \A q \in Rule : (pump[q] \in [on : 0 .. MaxEmits, at : [ChannelsOf(q) -> Progress]])'
    BY <2>1
  <2> QED BY <1>4, <2>2, <2>3 DEF DispatcherTypeOK
<1>6. \A q \in Rule \ {r} : RuleInv(q)'
  BY <1>1, <1>4, RuleKeeps DEF DispatcherInv, busVars
<1>7. RuleInv(r)'
  <2>1. Waiting(RuleSub(r))' = Waiting(RuleSub(r)) /\ Wanted(RuleSub(r))' = Wanted(RuleSub(r))
    BY DEF Waiting, Wanted, RuleSub, busVars
  <2>2. Accounted(r)'
    <3>1. dropped' = dropped /\ Accounted(r)
      BY <1>1, <1>2 DEF RuleInv, busVars
    <3>2. SUFFICES ASSUME NEW c \in ChannelsOf(r), NEW m \in Wanted(RuleSub(r))
                   PROVE  \/ <<r, m>> \in givenUp'[c] \union heard'[c] \union unreached'[c]
                          \/ m \in Waiting(RuleSub(r)) \union dropped[RuleSub(r)]
                          \/ pump'[r].on = m /\ pump'[r].at[c] # "settled"
      BY <2>1, <3>1 DEF Accounted
    <3>3. \/ <<r, m>> \in givenUp[c] \union heard[c] \union unreached[c]
          \/ m \in Waiting(RuleSub(r)) \union dropped[RuleSub(r)]
          \/ pump[r].on = m /\ pump[r].at[c] # "settled"
      BY <3>1 DEF Accounted
    <3>4. c \in Channel
      BY <1>1
    <3>5. CASE c = ch
      BY <1>3, <3>3, <3>4, <3>5
    <3>6. CASE c # ch
      BY <1>3, <3>3, <3>4, <3>6
    <3> QED BY <3>5, <3>6
  <2>3. \A c \in Channel : latest'[r][c] <= pump'[r].on
    BY <1>1, <1>2, <1>3, <1>4
  <2> QED BY <1>1, <1>2, <1>3, <2>1, <2>2, <2>3 DEF RuleInv, busVars
<1>8. HeardOn
  <2> SUFFICES ASSUME NEW q \in Rule, NEW c \in Channel PROVE latest'[q][c] >= latest[q][c]
    BY DEF HeardOn
  <2>1. CASE q = r
    <3>1. latest[r][c] \in Nat /\ pump[r].on \in Nat
      BY <1>1
    <3> QED BY <1>2, <1>4, <2>1, <3>1
  <2>2. CASE q # r
    <3>1. latest[q][c] \in Nat
      BY <1>1
    <3> QED BY <1>4, <2>2, <3>1
  <2> QED BY <2>1, <2>2
<1> QED BY <1>5, <1>6, <1>7, <1>8 DEF DispatcherInv

LEMMA LockedStep ==
  ASSUME BusInv, DispatcherInv, NEW r \in Rule, NEW ch \in ChannelsOf(r), ChannelLocked(r, ch)
  PROVE  DispatcherInv' /\ HeardOn
<1>1. /\ pump[r].at[ch] = "waiting" /\ pump' = [pump EXCEPT ![r].at[ch] = "sending"]
      /\ tries' = [tries EXCEPT ![ch] = 0] /\ UNCHANGED <<heard, latest, givenUp, unreached, notifying, busVars>>
  BY DEF ChannelLocked
<1>2. /\ ch \in Channel /\ Attempts(ch) \in Nat \ {0} /\ DispatcherTypeOK
      /\ pump[r] \in [on : 0 .. MaxEmits, at : [ChannelsOf(r) -> Progress]]
  BY DispatcherAssumption DEF DispatcherInv, DispatcherTypeOK
<1>3. /\ DOMAIN pump' = Rule /\ \A q \in Rule \ {r} : pump'[q] = pump[q]
      /\ pump'[r] = [on |-> pump[r].on, at |-> [pump[r].at EXCEPT ![ch] = "sending"]]
  BY <1>1, <1>2 DEF DispatcherTypeOK
<1>4. tries' \in [Channel -> Nat] /\ \A c \in Channel : tries'[c] < Attempts(c)
  BY <1>1, <1>2 DEF DispatcherTypeOK
<1> QED BY <1>1, <1>2, <1>3, <1>4, DeliveryStep DEF DispatcherTypeOK, Progress

LEMMA AttemptStep ==
  ASSUME BusInv, DispatcherInv, NEW r \in Rule, NEW ch \in ChannelsOf(r), Attempt(r, ch)
  PROVE  DispatcherInv' /\ HeardOn
<1>1. PICK o \in Outcomes(ch), over \in BOOLEAN :
        /\ over <=> o.ok \/ tries[ch] + 1 = Attempts(ch)
        /\ pump[r].at[ch] = "sending"
        /\ heard' = With(heard, r, ch, o.got)
        /\ latest' = IF o.got THEN [latest EXCEPT ![r][ch] = pump[r].on] ELSE latest
        /\ tries' = [tries EXCEPT ![ch] = IF over THEN 0 ELSE tries[ch] + 1]
        /\ pump' = IF over THEN [pump EXCEPT ![r].at[ch] = "settled"] ELSE pump
        /\ givenUp' = With(givenUp, r, ch, over /\ ~o.ok)
        /\ unreached' = With(unreached, r, ch, o.ok /\ ~o.got)
        /\ UNCHANGED <<notifying, busVars>>
  BY DEF Attempt
<1>2. /\ ch \in Channel /\ Attempts(ch) \in Nat \ {0} /\ DispatcherTypeOK
      /\ pump[r] \in [on : 0 .. MaxEmits, at : [ChannelsOf(r) -> Progress]]
      /\ MaxEmits \in Nat /\ RuleInv(r)
  BY DispatcherAssumption, BusAssumption DEF DispatcherInv, DispatcherTypeOK
<1> DEFINE place == IF over THEN "settled" ELSE "sending"
<1>3. /\ DOMAIN pump' = Rule /\ \A q \in Rule \ {r} : pump'[q] = pump[q]
      /\ pump'[r] = [on |-> pump[r].on, at |-> [pump[r].at EXCEPT ![ch] = place]]
  <2>1. CASE over
    BY <1>1, <1>2, <2>1 DEF DispatcherTypeOK
  <2>2. CASE ~over
    <3>1. pump[r].at = [pump[r].at EXCEPT ![ch] = "sending"]
      BY <1>1, <1>2
    <3>2. pump[r] = [on |-> pump[r].on, at |-> pump[r].at]
      BY <1>2
    <3> QED BY <1>1, <1>2, <2>2, <3>1, <3>2 DEF DispatcherTypeOK
  <2> QED BY <2>1, <2>2
<1>4. tries' \in [Channel -> Nat] /\ \A c \in Channel : tries'[c] < Attempts(c)
  <2>1. tries \in [Channel -> Nat] /\ \A c \in Channel : tries[c] < Attempts(c)
    BY <1>2 DEF DispatcherTypeOK
  <2>2. ~over => tries[ch] + 1 < Attempts(ch)
    BY <1>1, <1>2, <2>1
  <2> QED BY <1>1, <1>2, <2>1, <2>2
<1>5. <<r, pump[r].on>> \in Rule \X Message
  BY <1>1, <1>2 DEF RuleInv, Message
<1>6. \A holds \in BOOLEAN : \A h \in [Channel -> SUBSET (Rule \X Message)] :
        /\ With(h, r, ch, holds) \in [Channel -> SUBSET (Rule \X Message)]
        /\ \A c \in Channel : h[c] \subseteq With(h, r, ch, holds)[c]
        /\ holds => <<r, pump[r].on>> \in With(h, r, ch, holds)[ch]
  BY <1>2, <1>5 DEF With
<1>7. /\ heard' \in [Channel -> SUBSET (Rule \X Message)]
      /\ givenUp' \in [Channel -> SUBSET (Rule \X Message)]
      /\ unreached' \in [Channel -> SUBSET (Rule \X Message)]
      /\ \A c \in Channel : /\ heard[c] \subseteq heard'[c] /\ givenUp[c] \subseteq givenUp'[c]
                            /\ unreached[c] \subseteq unreached'[c]
      /\ over => <<r, pump[r].on>> \in givenUp'[ch] \union heard'[ch] \union unreached'[ch]
  <2>1. /\ heard \in [Channel -> SUBSET (Rule \X Message)]
        /\ givenUp \in [Channel -> SUBSET (Rule \X Message)]
        /\ unreached \in [Channel -> SUBSET (Rule \X Message)]
    BY <1>2 DEF DispatcherTypeOK
  <2>2. o.ok \in BOOLEAN /\ o.got \in BOOLEAN
    BY DEF Outcomes
  <2> QED BY <1>1, <1>6, <2>1, <2>2
<1>8. place \in Progress /\ (place = "settled" <=> over)
  BY DEF Progress
<1>9. /\ pump[r].at[ch] # "settled" /\ UNCHANGED <<notifying, busVars>>
      /\ latest' = latest \/ latest' = [latest EXCEPT ![r][ch] = pump[r].on]
  BY <1>1
<1> HIDE DEF place
<1> QED BY <1>3, <1>4, <1>7, <1>8, <1>9, DeliveryStep

LEMMA StopsStep ==
  ASSUME BusInv, DispatcherInv, DispatcherStops
  PROVE  BusInv' /\ DispatcherInv'
<1>1. /\ notifying' = FALSE /\ open' \subseteq open /\ tries' = [ch \in Channel |-> 0]
      /\ pump' = [r \in Rule |-> [on |-> 0, at |-> Settled(r)]]
      /\ UNCHANGED <<heard, latest, givenUp, unreached, emitted, queue, dropped>>
  BY DEF DispatcherStops, Detach
<1>2. BusInv'
  BY <1>1, BusRests DEF BusInv, BusTypeOK
<1>3. DispatcherTypeOK'
  <2>1. \A r \in Rule : pump'[r] \in [on : 0 .. MaxEmits, at : [ChannelsOf(r) -> Progress]]
    BY <1>1, BusAssumption DEF Settled, Progress
  <2>2. tries' \in [Channel -> Nat] /\ \A ch \in Channel : tries'[ch] < Attempts(ch)
    BY <1>1, DispatcherAssumption
  <2> QED BY <1>1, <2>1, <2>2 DEF DispatcherInv, DispatcherTypeOK
<1>4. \A r \in Rule : RuleInv(r)'
  BY <1>1 DEF RuleInv, Settled, BusInv, BusTypeOK
<1> QED BY <1>2, <1>3, <1>4 DEF DispatcherInv

LEMMA DispatcherStep ==
  ASSUME BusInv, DispatcherInv, DispatcherNext
  PROVE  BusInv' /\ DispatcherInv' /\ HeardOn
<1>1. ASSUME UNCHANGED latest PROVE HeardOn
  BY <1>1, BusAssumption DEF HeardOn, DispatcherInv, DispatcherTypeOK
<1>2. CASE DispatcherStops
  BY <1>1, <1>2, StopsStep DEF DispatcherStops
<1>3. ASSUME NEW r \in Rule, PumpTakes(r) PROVE BusInv' /\ DispatcherInv' /\ HeardOn
  BY <1>1, <1>3, PumpStep DEF PumpTakes
<1>4. ASSUME NEW r \in Rule, NEW ch \in ChannelsOf(r), ChannelLocked(r, ch) \/ Attempt(r, ch)
      PROVE  BusInv' /\ DispatcherInv' /\ HeardOn
  <2>1. UNCHANGED busVars
    BY <1>4 DEF ChannelLocked, Attempt
  <2>2. BusInv'
    BY <2>1, BusRests DEF busVars, BusInv, BusTypeOK
  <2> QED BY <1>4, <2>2, LockedStep, AttemptStep
<1> QED BY <1>2, <1>3, <1>4 DEF DispatcherNext, Deliveries

-----------------------------------------------------------------------------
(* The MQTT bridge.                                                        *)

EV == <<"mqtt", "event">>
SY == <<"mqtt", "system">>

\* Messages of the events that are still to be published.
Pending == Waiting(EV) \union ({consumer[EV].on} \ {0})

\* Nothing of the event subscription was lost on the way so far.
Clean == EV \in open /\ dropped[EV] = {} /\ ~refused /\ \A p \in lost : p[1] # EV

Shown(topic) == IF topic = "confirmed" THEN "ON" ELSE "OFF"

HandsInv ==
  /\ \A s \in MqttSub :
       /\ consumer[s].on <= Len(emitted)
       /\ consumer[s].on # 0 => emitted[consumer[s].on] \in Wants(s)
  /\ consumer[EV].on # 0 => \A w \in Waiting(EV) : consumer[EV].on < w

\* Nothing shows as online but a session that stands, until the bridge has stopped;
\* then it is what stop() could not say.
StatusInv ==
  /\ broker.status = "online" /\ bridge # "stopped" => broker.session
  /\ bridge \in {"connecting", "backoff"} => ~broker.session
  /\ broker.session /\ bridge = "pumping" /\ Runs /\ ~mute => broker.status = "online"
  /\ bridge = "stopped" => ~Runs
  /\ ~Runs => EV \notin open
  /\ ~Runs /\ ~unsaid => broker.status # "online"

\* What a break may still cost is set aside when the session breaks.
LossInv ==
  /\ IsFiniteSet(lost)
  /\ Cardinality(lost)
       + (IF bridge \in {"announcing", "pumping"} /\ ~broker.session THEN 2 ELSE 0) <= 2 * breaks

\* What is pending is newer than the rest, and the sensor shows the last of the rest.
SensorInv ==
  Clean =>
    /\ \A n \in Pending, m \in Wanted(EV) : n < m => m \in Pending
    /\ \A m \in Wanted(EV) \ Pending :
         (\A n \in Wanted(EV) : m < n => n \in Pending) => broker.person = Shown(emitted[m])

BridgeInv == MqttTypeOK /\ HandsInv /\ StatusInv /\ LossInv /\ SensorInv

LEMMA Subs == MqttSub = {EV, SY} /\ EV # SY /\ Wants(EV) = {"confirmed", "ended"} /\ Wants(SY) = {"system"}
              /\ EV \in Subscription /\ SY \in Subscription
  BY MqttAssumption DEF MqttSub, EV, SY

\* Steps that leave the two queues, the consumers' hands and what is lost alone.
LEMMA BridgeKeeps ==
  ASSUME BridgeInv, UNCHANGED <<emitted, consumer, lost, refused>>,
         queue'[EV] = queue[EV], dropped'[EV] = dropped[EV],
         EV \in open' => EV \in open, broker'.person = broker.person
  PROVE  HandsInv' /\ SensorInv'
<1>1. Waiting(EV)' = Waiting(EV) /\ Wanted(EV)' = Wanted(EV) /\ Pending' = Pending
  BY DEF Waiting, Wanted, Pending, EV
<1>2. Clean' => Clean
  BY DEF Clean
<1> QED BY <1>1, <1>2 DEF HandsInv, SensorInv, BridgeInv

LEMMA BridgeRests ==
  ASSUME BridgeInv, UNCHANGED <<mqttVars, emitted>>,
         queue'[EV] = queue[EV], dropped'[EV] = dropped[EV],
         EV \in open' => EV \in open
  PROVE  BridgeInv'
<1>1. UNCHANGED <<bridge, ending, consumer, broker, breaks, lost, refused, mute, unsaid>>
  BY DEF mqttVars
<1>2. HandsInv' /\ SensorInv'
  BY <1>1, BridgeKeeps
<1> QED BY <1>1, <1>2 DEF BridgeInv, MqttTypeOK, StatusInv, LossInv, Runs

LEMMA BridgeHearsEmission ==
  ASSUME BusInv, BridgeInv, Emission, UNCHANGED mqttVars
  PROVE  BridgeInv'
<1> DEFINE k == Len(emitted)
<1>1. /\ BusInv' /\ open' = open /\ Len(emitted') = k + 1 /\ k \in Nat
      /\ \A i \in 1 .. k : emitted'[i] = emitted[i]
      /\ \A s \in Subscription : Gets(s, k + 1)
  BY Emitted DEF BusInv, BusTypeOK
<1>2. UNCHANGED <<bridge, ending, consumer, broker, breaks, lost, refused, mute, unsaid>>
  BY DEF mqttVars
<1>3. Gets(EV, k + 1)
  BY <1>1, Subs
<1>4. /\ Waiting(EV) \subseteq 1 .. k
      /\ \A s \in MqttSub : consumer[s].on \in 0 .. k
      /\ consumer[EV].on \in 0 .. k
  <2>1. queue[EV] \in Seq(1 .. k)
    BY Subs DEF BusInv, BusTypeOK
  <2>2. \A s \in MqttSub : consumer[s].on \in Nat /\ consumer[s].on <= k
    BY BusAssumption DEF BridgeInv, MqttTypeOK, HandsInv
  <2> QED BY <1>1, <2>1, <2>2, ElementsIn, Subs DEF Waiting
<1>5. /\ \A w \in Wanted(EV) : w \in 1 .. k /\ w \in Wanted(EV)'
      /\ \A w \in Wanted(EV)' : w \in Wanted(EV) \/ (w = k + 1 /\ emitted'[k + 1] \in Wants(EV))
  BY <1>1 DEF Wanted
<1> HIDE DEF k
<1>6. HandsInv'
  <2>1. \A s \in MqttSub : /\ consumer[s].on <= k + 1
                           /\ consumer[s].on # 0 => emitted'[consumer[s].on] \in Wants(s)
    BY <1>1, <1>4 DEF BridgeInv, HandsInv, k
  <2>2. consumer[EV].on # 0 => \A w \in Waiting(EV)' : consumer[EV].on < w
    BY <1>1, <1>3, <1>4 DEF BridgeInv, HandsInv, Gets
  <2> QED BY <1>1, <1>2, <2>1, <2>2 DEF HandsInv
<1>7. SensorInv'
  <2> SUFFICES ASSUME Clean'
      PROVE  /\ \A n \in Pending', m \in Wanted(EV)' : n < m => m \in Pending'
             /\ \A m \in Wanted(EV)' \ Pending' :
                  (\A n \in Wanted(EV)' : m < n => n \in Pending') => broker'.person = Shown(emitted'[m])
    BY DEF SensorInv
  <2>1. EV \in open /\ dropped'[EV] = {} /\ Clean
    BY <1>1, <1>2, <1>3 DEF Clean, Gets
  <2>2. Pending \subseteq Pending' /\ Pending' \subseteq Pending \union {k + 1} /\ Pending \subseteq 1 .. k
    BY <1>2, <1>3, <1>4, <2>1 DEF Pending, Gets
  <2>3. emitted'[k + 1] \in Wants(EV) => k + 1 \in Pending'
    BY <1>3, <2>1 DEF Gets, Pending
  <2>4. ASSUME NEW n \in Pending', NEW m \in Wanted(EV)', n < m PROVE m \in Pending'
    <3>1. CASE m = k + 1
      BY <1>1, <1>5, <2>3, <3>1
    <3>2. CASE m \in Wanted(EV) /\ m \in 1 .. k
      <4>1. n \in Pending
        BY <1>1, <2>2, <2>4, <3>2
      <4> QED BY <2>1, <2>2, <2>4, <3>2, <4>1 DEF BridgeInv, SensorInv
    <3> QED BY <1>5, <3>1, <3>2
  <2>5. ASSUME NEW m \in Wanted(EV)' \ Pending', \A n \in Wanted(EV)' : m < n => n \in Pending'
        PROVE  broker'.person = Shown(emitted'[m])
    <3>1. m \in Wanted(EV) \ Pending /\ m \in 1 .. k
      BY <1>5, <2>2, <2>3
    <3>2. \A n \in Wanted(EV) : m < n => n \in Pending
      BY <1>1, <1>5, <2>2, <2>5
    <3> QED BY <1>1, <1>2, <2>1, <3>1, <3>2 DEF BridgeInv, SensorInv
  <2> QED BY <2>4, <2>5
<1> QED BY <1>1, <1>2, <1>6, <1>7 DEF BridgeInv, MqttTypeOK, StatusInv, LossInv, Runs

\* What is in hand when a connection fails: at most a message of each subscription.
LEMMA HandsLost ==
  ASSUME BridgeInv, ConnectionFails
  PROVE  /\ lost' \subseteq MqttSub \X Message /\ lost \subseteq lost'
         /\ IsFiniteSet(lost') /\ Cardinality(lost') <= Cardinality(lost) + 2
         /\ consumer[EV].on # 0 => <<EV, consumer[EV].on>> \in lost'
         /\ consumer' = EmptyHands /\ bridge' = "backoff"
<1> DEFINE a == <<EV, consumer[EV].on>>
           b == <<SY, consumer[SY].on>>
<1>1. lost' = lost \union InHand /\ consumer' = EmptyHands /\ bridge' = "backoff" /\ IsFiniteSet(lost)
  BY DEF ConnectionFails, BridgeInv, LossInv
<1>2. InHand \subseteq {a, b} /\ (consumer[EV].on # 0 => a \in InHand)
  BY Subs DEF InHand
<1>3. InHand \subseteq MqttSub \X Message
  BY BusAssumption DEF InHand, BridgeInv, MqttTypeOK, Message
<1>4. IsFiniteSet({a, b}) /\ Cardinality({a, b}) <= 2
  <2>1. IsFiniteSet({a}) /\ Cardinality({a}) = 1
    BY FS_Singleton
  <2>2. {a, b} = {a} \union {b}
    OBVIOUS
  <2> HIDE DEF a, b
  <2>3. IsFiniteSet({a} \union {b}) /\ Cardinality({a} \union {b}) \in {1, 2}
    BY <2>1, FS_AddElement
  <2> QED BY <2>2, <2>3
<1> HIDE DEF a, b
<1>5. IsFiniteSet(InHand) /\ Cardinality(InHand) <= 2 /\ Cardinality(InHand) \in Nat
  <2>1. IsFiniteSet(InHand) /\ Cardinality(InHand) <= Cardinality({a, b})
    BY <1>2, <1>4, FS_Subset
  <2>2. Cardinality(InHand) \in Nat /\ Cardinality({a, b}) \in Nat
    BY <1>4, <2>1, FS_CardinalityType
  <2> QED BY <1>4, <2>1, <2>2
<1>6. IsFiniteSet(lost') /\ Cardinality(lost') <= Cardinality(lost) + 2
  <2>1. /\ IsFiniteSet(lost \union InHand) /\ IsFiniteSet(lost \cap InHand)
        /\ Cardinality(lost \union InHand)
             = Cardinality(lost) + Cardinality(InHand) - Cardinality(lost \cap InHand)
    BY <1>1, <1>5, FS_Union, FS_Intersection
  <2>2. /\ Cardinality(lost) \in Nat /\ Cardinality(lost \cap InHand) \in Nat
        /\ Cardinality(lost \union InHand) \in Nat
    BY <1>1, <2>1, FS_CardinalityType
  <2> QED BY <1>1, <1>5, <2>1, <2>2
<1> QED BY <1>1, <1>2, <1>3, <1>6 DEF a, BridgeInv, MqttTypeOK

LEMMA FailsStep ==
  ASSUME BusInv, BridgeInv, ConnectionFails, ~broker.session, bridge \in {"announcing", "pumping"},
         Runs, UNCHANGED <<broker, breaks, refused, mute, unsaid, busVars>>
  PROVE  BridgeInv'
<1>1. /\ lost' \subseteq MqttSub \X Message /\ lost \subseteq lost'
      /\ IsFiniteSet(lost') /\ Cardinality(lost') <= Cardinality(lost) + 2
      /\ consumer[EV].on # 0 => <<EV, consumer[EV].on>> \in lost'
      /\ consumer' = EmptyHands /\ bridge' = "backoff"
      /\ ending' = IF ending = "saying" THEN "missed" ELSE ending
  BY HandsLost DEF ConnectionFails
<1>2. consumer' \in [MqttSub -> [on : 0 .. MaxEmits, half : BOOLEAN]]
      /\ \A s \in MqttSub : consumer'[s].on = 0
  BY <1>1, BusAssumption DEF EmptyHands
<1>3. MqttTypeOK'
  BY <1>1, <1>2 DEF BridgeInv, MqttTypeOK, BridgePlace
<1>4. HandsInv'
  BY <1>2, Subs DEF HandsInv, BusInv, BusTypeOK, busVars
<1>5. StatusInv'
  BY <1>1 DEF StatusInv, BridgeInv, Runs, busVars
<1>6. LossInv'
  <2>1. Cardinality(lost) \in Nat /\ Cardinality(lost') \in Nat /\ breaks \in Nat
    BY <1>1, FS_CardinalityType DEF BridgeInv, LossInv, MqttTypeOK
  <2>2. Cardinality(lost) + 2 <= 2 * breaks
    BY DEF BridgeInv, LossInv
  <2> QED BY <1>1, <2>1, <2>2 DEF LossInv
<1>7. SensorInv'
  <2>1. Waiting(EV)' = Waiting(EV) /\ Wanted(EV)' = Wanted(EV) /\ consumer'[EV].on = 0
    BY <1>2, Subs DEF Waiting, Wanted, EV, busVars
  <2>2. Clean' => Clean /\ consumer[EV].on = 0
    BY <1>1 DEF Clean, busVars
  <2>3. consumer[EV].on = 0 => Pending' = Pending
    BY <2>1 DEF Pending
  <2> QED BY <2>1, <2>2, <2>3 DEF SensorInv, BridgeInv, busVars
<1> QED BY <1>3, <1>4, <1>5, <1>6, <1>7 DEF BridgeInv

LEMMA TakesStep ==
  ASSUME BusInv, BridgeInv, NEW s \in MqttSub, ConsumerTakes(s)
  PROVE  BusInv' /\ BridgeInv'
<1> DEFINE m == Head(queue[s])
<1>1. /\ consumer[s].on = 0 /\ Take(s) /\ consumer' = [consumer EXCEPT ![s] = [on |-> m, half |-> FALSE]]
      /\ UNCHANGED <<bridge, ending, broker, breaks, lost, refused, mute, unsaid,
                     emitted, open, dropped>>
      /\ s \in Subscription
  BY MqttAssumption DEF ConsumerTakes
<1>2. /\ BusInv' /\ m \in 1 .. Len(emitted) /\ emitted[m] \in Wants(s)
      /\ Waiting(s) = Waiting(s)' \union {m}
      /\ \A w \in Waiting(s)' : m < w \/ (m = w /\ emitted[w] = "system")
      /\ \A t \in Subscription \ {s} : queue'[t] = queue[t] /\ Waiting(t)' = Waiting(t)
  BY <1>1, Taken
<1> HIDE DEF m
<1>3. /\ consumer \in [MqttSub -> [on : 0 .. MaxEmits, half : BOOLEAN]]
      /\ Len(emitted) \in Nat /\ Len(emitted) <= MaxEmits /\ MaxEmits \in Nat
  BY BusAssumption DEF BridgeInv, MqttTypeOK, BusInv, BusTypeOK
<1>4. /\ consumer' \in [MqttSub -> [on : 0 .. MaxEmits, half : BOOLEAN]]
      /\ consumer'[s].on = m /\ m # 0 /\ \A t \in MqttSub \ {s} : consumer'[t] = consumer[t]
  BY <1>1, <1>2, <1>3
<1>5. MqttTypeOK'
  BY <1>1, <1>4 DEF BridgeInv, MqttTypeOK
<1>6. HandsInv'
  <2>1. \A t \in MqttSub : /\ consumer'[t].on <= Len(emitted)
                           /\ consumer'[t].on # 0 => emitted[consumer'[t].on] \in Wants(t)
    <3>1. ASSUME NEW t \in MqttSub, t # s
          PROVE  /\ consumer'[t].on <= Len(emitted)
                 /\ consumer'[t].on # 0 => emitted[consumer'[t].on] \in Wants(t)
      BY <1>4, <3>1 DEF BridgeInv, HandsInv
    <3>2. m \in Nat /\ m <= Len(emitted)
      BY <1>2, <1>3
    <3> QED BY <1>2, <1>4, <3>1, <3>2
  <2>2. CASE s = EV
    <3>1. emitted[m] # "system"
      BY <1>2, <2>2, Subs
    <3>2. \A w \in Waiting(EV)' : m < w
      BY <1>2, <2>2, <3>1
    <3> QED BY <1>1, <1>4, <2>1, <2>2, <3>2 DEF HandsInv
  <2>3. CASE s # EV
    <3>1. consumer'[EV] = consumer[EV] /\ Waiting(EV)' = Waiting(EV)
      BY <1>2, <1>4, <2>3, Subs
    <3> QED BY <1>1, <2>1, <3>1 DEF HandsInv, BridgeInv
  <2> QED BY <2>2, <2>3
<1>7. Pending' = Pending
  <2>1. CASE s = EV
    BY <1>1, <1>2, <1>4, <2>1 DEF Pending
  <2>2. CASE s # EV
    BY <1>2, <1>4, <2>2, Subs DEF Pending
  <2> QED BY <2>1, <2>2
<1>8. SensorInv'
  BY <1>1, <1>7 DEF SensorInv, BridgeInv, Clean, Wanted
<1> QED BY <1>1, <1>2, <1>5, <1>6, <1>8 DEF BridgeInv, StatusInv, LossInv, Runs

\* One publish of a consumer on a session that stands.
LEMMA PublishesStep ==
  ASSUME BusInv, BridgeInv, NEW s \in MqttSub, NEW ok \in BOOLEAN, NEW more \in BOOLEAN,
         more => emitted[consumer[s].on] = "confirmed",
         bridge = "pumping", consumer[s].on # 0, broker.session,
         NEW presence, broker' = [broker EXCEPT !.person = presence],
         presence = IF ok /\ ~more THEN Shows(emitted[consumer[s].on]) ELSE broker.person,
         refused' = (refused \/ (~ok /\ s = EV)),
         NEW hands, consumer' = [consumer EXCEPT ![s] = hands],
         hands = IF more THEN [consumer[s] EXCEPT !.half = TRUE] ELSE [on |-> 0, half |-> FALSE],
         UNCHANGED <<bridge, ending, lost, breaks, mute, unsaid, busVars>>
  PROVE  BridgeInv'
<1> DEFINE m == consumer[s].on
<1>1. /\ consumer \in [MqttSub -> [on : 0 .. MaxEmits, half : BOOLEAN]]
      /\ broker \in [up : BOOLEAN, session : BOOLEAN, status : {"none", "online", "offline"},
                     person : {"none", "ON", "OFF"}]
      /\ MaxEmits \in Nat /\ Len(emitted) \in Nat /\ s \in Subscription
  BY BusAssumption, MqttAssumption DEF BridgeInv, MqttTypeOK, BusInv, BusTypeOK
<1>2. m \in Message /\ m <= Len(emitted) /\ m \in 1 .. Len(emitted) /\ emitted[m] \in Wants(s)
  BY <1>1 DEF BridgeInv, HandsInv, Message
<1> HIDE DEF m
<1>3. /\ consumer' \in [MqttSub -> [on : 0 .. MaxEmits, half : BOOLEAN]]
      /\ \A t \in MqttSub \ {s} : consumer'[t] = consumer[t]
      /\ consumer'[s].on = IF more THEN m ELSE 0
  <2>1. hands \in [on : 0 .. MaxEmits, half : BOOLEAN] /\ hands.on = IF more THEN m ELSE 0
    <3>1. consumer[s] \in [on : 0 .. MaxEmits, half : BOOLEAN] /\ m = consumer[s].on
      BY <1>1 DEF m
    <3>2. CASE more
      <4>1. hands = [consumer[s] EXCEPT !.half = TRUE]
        BY <3>2
      <4> QED BY <3>1, <3>2, <4>1
    <3>3. CASE ~more
      <4>1. hands = [on |-> 0, half |-> FALSE]
        BY <3>3
      <4> QED BY <1>1, <3>3, <4>1
    <3> QED BY <3>2, <3>3
  <2> QED BY <1>1, <2>1
<1>4. /\ broker' \in [up : BOOLEAN, session : BOOLEAN, status : {"none", "online", "offline"},
                      person : {"none", "ON", "OFF"}]
      /\ broker'.session = broker.session /\ broker'.status = broker.status
      /\ broker'.person = IF ok /\ ~more THEN Shows(emitted[m]) ELSE broker.person
  BY <1>1 DEF Shows, m
<1>6. MqttTypeOK'
  BY <1>3, <1>4 DEF BridgeInv, MqttTypeOK, m
<1>7. Waiting(EV)' = Waiting(EV) /\ Wanted(EV)' = Wanted(EV)
      /\ UNCHANGED <<emitted, queue, open, dropped>>
  BY DEF Waiting, Wanted, EV, busVars
<1>8. HandsInv'
  <2>1. \A t \in MqttSub : consumer'[t].on = consumer[t].on \/ consumer'[t].on = 0
    BY <1>3 DEF m
  <2>2. \A t \in MqttSub : /\ consumer'[t].on <= Len(emitted)
                           /\ consumer'[t].on # 0 => emitted[consumer'[t].on] \in Wants(t)
    BY <1>1, <2>1 DEF BridgeInv, HandsInv
  <2> QED BY <1>7, <2>1, <2>2, Subs DEF HandsInv, BridgeInv
<1>9. StatusInv' /\ LossInv'
  BY <1>4, <1>7 DEF BridgeInv, StatusInv, LossInv, Runs
<1>10. SensorInv'
  <2>1. CASE s # EV
    <3>1. s = SY /\ consumer'[EV] = consumer[EV] /\ emitted[m] = "system"
      BY <1>2, <1>3, <2>1, Subs
    <3>2. Pending' = Pending /\ broker'.person = broker.person /\ (Clean' => Clean)
      BY <1>4, <1>7, <3>1 DEF Pending, Clean, Shows
    <3> QED BY <1>7, <3>2 DEF SensorInv, BridgeInv
  <2>2. CASE s = EV /\ more
    <3>1. Pending' = Pending /\ broker'.person = broker.person /\ (Clean' => Clean)
      BY <1>3, <1>4, <1>7, <2>2 DEF Pending, Clean, m
    <3> QED BY <1>7, <3>1 DEF SensorInv, BridgeInv
  <2>3. CASE s = EV /\ ~more
    <3> SUFFICES ASSUME Clean'
        PROVE  /\ \A n \in Waiting(EV), w \in Wanted(EV) : n < w => w \in Waiting(EV)
               /\ \A w \in Wanted(EV) \ Waiting(EV) :
                    (\A n \in Wanted(EV) : w < n => n \in Waiting(EV))
                      => broker'.person = Shown(emitted[w])
      BY <1>3, <1>7, <2>3 DEF SensorInv, Pending
    <3>1. ok /\ Clean
      <4>1. ~ok => refused'
        BY <2>3
      <4>2. (refused => refused') /\ lost' = lost
        OBVIOUS
      <4> QED BY <1>7, <4>1, <4>2 DEF Clean
    <3>2. broker'.person = Shown(emitted[m]) /\ m \in Wanted(EV)
      BY <1>2, <1>4, <2>3, <3>1, Subs DEF Shows, Shown, Wanted
    <3>3. Pending = Waiting(EV) \union {m} /\ \A w \in Waiting(EV) : m < w
      BY <1>2, <2>3 DEF Pending, m, BridgeInv, HandsInv
    <3>4. Waiting(EV) \subseteq 1 .. Len(emitted) /\ Wanted(EV) \subseteq 1 .. Len(emitted)
      <4>1. queue[EV] \in Seq(1 .. Len(emitted))
        BY Subs DEF BusInv, BusTypeOK
      <4> QED BY <4>1, ElementsIn DEF Waiting, Wanted
    <3>5. \A n \in Pending, w \in Wanted(EV) : n < w => w \in Pending
      BY <3>1 DEF BridgeInv, SensorInv
    <3>6. ASSUME NEW n \in Waiting(EV), NEW w \in Wanted(EV), n < w PROVE w \in Waiting(EV)
      <4>1. w \in Pending /\ n \in Nat /\ w \in Nat /\ m \in Nat /\ m < n
        BY <1>1, <1>2, <3>3, <3>4, <3>5, <3>6
      <4>2. w # m
        BY <3>6, <4>1
      <4> QED BY <3>3, <4>1, <4>2
    <3>7. ASSUME NEW w \in Wanted(EV) \ Waiting(EV),
                 \A n \in Wanted(EV) : w < n => n \in Waiting(EV)
          PROVE  w = m
      <4>1. m \in Nat /\ w \in Nat
        BY <1>1, <1>2, <3>4
      <4>2. ~(w < m)
        BY <3>2, <3>3, <3>7, <4>1
      <4>3. ~(m < w)
        BY <3>3, <3>5, <3>7, <4>1
      <4> QED BY <4>1, <4>2, <4>3
    <3> QED BY <3>2, <3>6, <3>7
  <2> QED BY <2>1, <2>2, <2>3
<1> QED BY <1>6, <1>8, <1>9, <1>10 DEF BridgeInv

LEMMA BridgeStep ==
  ASSUME BusInv, BridgeInv, MqttNext
  PROVE  /\ BusInv' /\ BridgeInv' /\ emitted' = emitted /\ dropped' = dropped
         /\ \A t \in Subscription \ MqttSub : queue'[t] = queue[t] /\ (t \in open <=> t \in open')
<1> USE DEF BridgePlace
<1>t. /\ broker \in [up : BOOLEAN, session : BOOLEAN, status : {"none", "online", "offline"},
                     person : {"none", "ON", "OFF"}]
      /\ MqttTypeOK /\ StatusInv /\ LossInv
  BY DEF BridgeInv, MqttTypeOK
<1>f. ASSUME UNCHANGED <<emitted, queue, dropped>>, open' \subseteq open, open \subseteq open' \union MqttSub
      PROVE  /\ BusInv' /\ emitted' = emitted /\ dropped' = dropped
             /\ \A t \in Subscription \ MqttSub : queue'[t] = queue[t] /\ (t \in open <=> t \in open')
  BY <1>f, BusRests DEF BusInv, BusTypeOK
<1>1. CASE BridgeConnects
  <2>1. HandsInv' /\ SensorInv'
    BY <1>t, <1>1, BridgeKeeps DEF BridgeConnects, busVars
  <2>2. MqttTypeOK' /\ StatusInv' /\ LossInv'
    BY <1>t, <1>1 DEF BridgeConnects, MqttTypeOK, StatusInv, LossInv, Runs, busVars
  <2> QED BY <1>1, <1>f, <2>1, <2>2 DEF BridgeConnects, BridgeInv, busVars
<1>2. CASE Announce
  <2>1. CASE broker.session
    <3>1. HandsInv' /\ SensorInv'
      BY <1>t, <1>2, <2>1, BridgeKeeps DEF Announce, busVars
    <3>2. MqttTypeOK' /\ StatusInv' /\ LossInv'
      BY <1>t, <1>2, <2>1 DEF Announce, MqttTypeOK, StatusInv, LossInv, Runs, busVars
    <3> QED BY <1>2, <1>f, <3>1, <3>2 DEF Announce, BridgeInv, busVars
  <2>2. CASE ~broker.session
    BY <1>2, <1>f, <2>2, FailsStep DEF Announce, busVars
  <2> QED BY <2>1, <2>2
<1>3. CASE BridgeRetries
  <2>1. HandsInv' /\ SensorInv'
    BY <1>t, <1>3, BridgeKeeps DEF BridgeRetries, busVars
  <2>2. MqttTypeOK' /\ StatusInv' /\ LossInv'
    BY <1>t, <1>3 DEF BridgeRetries, MqttTypeOK, StatusInv, LossInv, Runs, busVars
  <2> QED BY <1>3, <1>f, <2>1, <2>2 DEF BridgeRetries, BridgeInv, busVars
<1>4. CASE BridgeCancelled
  <2>1. /\ consumer' \in [MqttSub -> [on : 0 .. MaxEmits, half : BOOLEAN]]
        /\ \A s \in MqttSub : consumer'[s].on = 0
    BY <1>4, BusAssumption DEF BridgeCancelled, EmptyHands
  <2>2. MqttTypeOK' /\ StatusInv' /\ LossInv'
    <3>1. /\ broker' = [broker EXCEPT !.session = FALSE] /\ ~Runs /\ bridge' = "stopped"
          /\ UNCHANGED <<ending, breaks, lost, refused, mute, unsaid, open>>
      BY <1>4 DEF BridgeCancelled, Runs, busVars
    <3>2. /\ broker' \in [up : BOOLEAN, session : BOOLEAN, status : {"none", "online", "offline"},
                          person : {"none", "ON", "OFF"}]
          /\ broker'.status = broker.status /\ broker'.session = FALSE
      BY <1>t, <3>1
    <3>3. MqttTypeOK'
      BY <1>t, <2>1, <3>1, <3>2 DEF MqttTypeOK
    <3>4. StatusInv'
      BY <1>t, <3>1, <3>2 DEF StatusInv, Runs
    <3>5. LossInv'
      <4>1. IsFiniteSet(lost) => Cardinality(lost) \in Nat
        BY FS_CardinalityType
      <4>2. breaks \in Nat
        BY <1>t DEF MqttTypeOK
      <4> QED BY <1>t, <3>1, <4>1, <4>2 DEF LossInv
    <3> QED BY <3>3, <3>4, <3>5
  <2>3. HandsInv'
    BY <1>4, <2>1, Subs DEF BridgeCancelled, HandsInv, BusInv, BusTypeOK, busVars
  <2>4. SensorInv'
    BY <1>t, <1>4 DEF BridgeCancelled, StatusInv, SensorInv, Clean, Runs, busVars
  <2> QED BY <1>4, <1>f, <2>2, <2>3, <2>4 DEF BridgeCancelled, BridgeInv, busVars
<1>5. ASSUME NEW s \in MqttSub, ConsumerTakes(s)
      PROVE  /\ BusInv' /\ BridgeInv' /\ emitted' = emitted /\ dropped' = dropped
             /\ \A t \in Subscription \ MqttSub : queue'[t] = queue[t] /\ (t \in open <=> t \in open')
  <2>1. \A t \in Subscription \ {s} : queue'[t] = queue[t]
    BY <1>5, Subs DEF ConsumerTakes, Take, BusInv, BusTypeOK
  <2> QED BY <1>5, <2>1, TakesStep DEF ConsumerTakes
<1>6. ASSUME NEW s \in MqttSub, ConsumerPublishes(s)
      PROVE  /\ BusInv' /\ BridgeInv' /\ emitted' = emitted /\ dropped' = dropped
             /\ \A t \in Subscription \ MqttSub : queue'[t] = queue[t] /\ (t \in open <=> t \in open')
  <2>1. /\ UNCHANGED busVars /\ UNCHANGED <<breaks, mute, unsaid>>
        /\ bridge = "pumping" /\ Runs /\ consumer[s].on # 0
    BY <1>6 DEF ConsumerPublishes
  <2> SUFFICES BridgeInv'
    BY <2>1, <1>f DEF busVars
  <2>2. CASE SessionBroken /\ ConnectionFails /\ UNCHANGED <<broker, refused>>
    BY <2>1, <2>2, FailsStep DEF SessionBroken
  <2>3. CASE ~(SessionBroken /\ ConnectionFails /\ UNCHANGED <<broker, refused>>)
    <3> DEFINE more == emitted[consumer[s].on] = "confirmed" /\ ~consumer[s].half
    <3>0. /\ broker.session /\ UNCHANGED <<bridge, ending, lost>>
          /\ consumer' = [consumer EXCEPT ![s] = IF more THEN [consumer[s] EXCEPT !.half = TRUE]
                                                 ELSE [on |-> 0, half |-> FALSE]]
          /\ \E ok \in BOOLEAN :
               /\ broker' = [broker EXCEPT !.person =
                               IF ok /\ ~more THEN Shows(emitted[consumer[s].on]) ELSE broker.person]
               /\ refused' = (refused \/ (~ok /\ s = EV))
      <4> HIDE DEF more
      <4>1. \/ /\ broker.session /\ \E ok \in BOOLEAN :
                   /\ broker' = [broker EXCEPT !.person =
                               IF ok /\ ~more THEN Shows(emitted[consumer[s].on]) ELSE broker.person]
                   /\ refused' = (refused \/ (~ok /\ s = EV))
               /\ consumer' = [consumer EXCEPT ![s] = IF more THEN [consumer[s] EXCEPT !.half = TRUE]
                                                 ELSE [on |-> 0, half |-> FALSE]]
               /\ UNCHANGED <<bridge, ending, lost>>
            \/ SessionBroken /\ ConnectionFails /\ UNCHANGED <<broker, refused>>
        BY <1>6 DEF ConsumerPublishes, more, EV
      <4> QED BY <2>3, <4>1, Zenon
    <3>1. PICK ok \in BOOLEAN :
               /\ broker' = [broker EXCEPT !.person =
                               IF ok /\ ~more THEN Shows(emitted[consumer[s].on]) ELSE broker.person]
               /\ refused' = (refused \/ (~ok /\ s = EV))
      BY <3>0
    <3>2. more \in BOOLEAN /\ (more => emitted[consumer[s].on] = "confirmed")
      OBVIOUS
    <3> HIDE DEF more
    <3> DEFINE presence == IF ok /\ ~more THEN Shows(emitted[consumer[s].on]) ELSE broker.person
               hands == IF more THEN [consumer[s] EXCEPT !.half = TRUE] ELSE [on |-> 0, half |-> FALSE]
    <3>3. broker' = [broker EXCEPT !.person = presence] /\ consumer' = [consumer EXCEPT ![s] = hands]
      BY <3>0, <3>1, Zenon
    <3>4. /\ presence = IF ok /\ ~more THEN Shows(emitted[consumer[s].on]) ELSE broker.person
          /\ hands = IF more THEN [consumer[s] EXCEPT !.half = TRUE] ELSE [on |-> 0, half |-> FALSE]
      OBVIOUS
    <3> HIDE DEF presence, hands
    <3> QED BY <2>1, <3>0, <3>1, <3>2, <3>3, <3>4, PublishesStep
  <2> QED BY <2>2, <2>3
<1>7. CASE BridgeStops
  <2>1. /\ UNCHANGED <<bridge, consumer, broker, breaks, lost, refused, mute, unsaid,
                       emitted, queue, dropped>>
        /\ open' \subseteq open /\ open \subseteq open' \union MqttSub
        /\ ending = "no" /\ \/ bridge \in {"announcing", "pumping"} /\ ending' = "saying"
                            \/ /\ bridge \notin {"announcing", "pumping"}
                               /\ ending' = "cancelling" /\ EV \notin open'
    BY <1>7, Subs DEF BridgeStops, Detach
  <2>2. HandsInv' /\ SensorInv'
    BY <2>1 DEF BridgeInv, HandsInv, SensorInv, Pending, Clean, Waiting, Wanted, EV
  <2>3. MqttTypeOK' /\ StatusInv' /\ LossInv'
    BY <1>t, <2>1 DEF MqttTypeOK, StatusInv, LossInv, Runs
  <2> QED BY <1>f, <2>1, <2>2, <2>3 DEF BridgeInv
<1>0. CASE StopSays
  <2>1. /\ UNCHANGED <<bridge, consumer, breaks, lost, refused, mute, emitted, queue, dropped>>
        /\ open' \subseteq open /\ open \subseteq open' \union MqttSub /\ EV \notin open'
        /\ Runs /\ ending' = "cancelling"
        /\ \/ broker.session /\ broker' = [broker EXCEPT !.status = "offline"] /\ unsaid' = unsaid
           \/ broker' = broker /\ unsaid' = broker.session
    BY <1>0, Subs DEF StopSays, Detach, Runs
  <2>2. HandsInv' /\ SensorInv'
    BY <2>1 DEF BridgeInv, HandsInv, SensorInv, Clean, Waiting, EV
  <2>3. /\ broker' \in [up : BOOLEAN, session : BOOLEAN, status : {"none", "online", "offline"},
                        person : {"none", "ON", "OFF"}]
        /\ broker'.session = broker.session
        /\ broker'.status = "offline" \/ (broker'.status = broker.status /\ unsaid' = broker.session)
    BY <1>t, <2>1
  <2>4. MqttTypeOK' /\ LossInv'
    BY <1>t, <2>1, <2>3 DEF MqttTypeOK, LossInv
  <2>5. StatusInv'
    BY <1>t, <2>1, <2>3 DEF StatusInv, Runs
  <2> QED BY <1>f, <2>1, <2>2, <2>4, <2>5 DEF BridgeInv
<1>8. CASE SessionBreaks
  <2>1. PICK up \in BOOLEAN :
          /\ broker' = [broker EXCEPT !.up = up, !.session = FALSE,
                                      !.status = IF broker.session THEN "offline" ELSE broker.status]
          /\ breaks < MaxBreaks /\ breaks' = breaks + 1
          /\ UNCHANGED <<bridge, ending, consumer, lost, refused, mute, unsaid, busVars>>
    BY <1>8 DEF SessionBreaks
  <2>2. /\ broker' \in [up : BOOLEAN, session : BOOLEAN, status : {"none", "online", "offline"},
                        person : {"none", "ON", "OFF"}]
        /\ broker'.person = broker.person /\ broker'.session = FALSE
        /\ broker'.status = "offline" \/ (broker'.status = broker.status /\ ~broker.session)
    BY <1>t, <2>1
  <2>3. HandsInv' /\ SensorInv'
    BY <1>t, <2>1, <2>2, BridgeKeeps DEF busVars
  <2>4. MqttTypeOK' /\ StatusInv' /\ LossInv'
    <3>1. MqttTypeOK' /\ StatusInv'
      BY <1>t, <2>1, <2>2, MqttAssumption DEF MqttTypeOK, StatusInv, Runs, busVars
    <3>2. Cardinality(lost) \in Nat /\ breaks \in Nat
      BY <1>t, FS_CardinalityType DEF MqttTypeOK, LossInv
    <3> QED BY <1>t, <2>1, <2>2, <3>1, <3>2 DEF LossInv
  <2> QED BY <1>f, <2>1, <2>3, <2>4 DEF BridgeInv, busVars
<1>9. CASE BrokerReturns
  <2>1. HandsInv' /\ SensorInv'
    BY <1>t, <1>9, BridgeKeeps DEF BrokerReturns, busVars
  <2>2. MqttTypeOK' /\ StatusInv' /\ LossInv'
    BY <1>t, <1>9 DEF BrokerReturns, MqttTypeOK, StatusInv, LossInv, Runs, busVars
  <2> QED BY <1>9, <1>f, <2>1, <2>2 DEF BrokerReturns, BridgeInv, busVars
<1> QED
  BY <1>0, <1>1, <1>2, <1>3, <1>4, <1>5, <1>6, <1>7, <1>8, <1>9 DEF MqttNext, BridgeSteps

-----------------------------------------------------------------------------
(* The live feed.                                                          *)

\* Frames are older than what the forwarder holds, and that is older than what waits.
FramesInv ==
  /\ forwarder <= Len(emitted)
  /\ \A i \in 1 .. Len(frames) :
       /\ frames[i] <= Len(emitted)
       /\ forwarder # 0 => frames[i] < forwarder
       /\ \A w \in Waiting(LiveSub) : frames[i] < w
  /\ forwarder # 0 => \A w \in Waiting(LiveSub) : forwarder < w

LiveInv ==
  /\ LiveTypeOK /\ FramesInv /\ ClientMissesNothing
  /\ live \in {"subscribed", "accepted", "gone"} => LiveSub \in open

LEMMA LiveRests ==
  ASSUME LiveInv, UNCHANGED <<liveVars, emitted>>,
         queue'[LiveSub] = queue[LiveSub], dropped'[LiveSub] = dropped[LiveSub],
         LiveSub \in open => LiveSub \in open'
  PROVE  LiveInv'
<1>1. Waiting(LiveSub)' = Waiting(LiveSub) /\ Wanted(LiveSub)' = Wanted(LiveSub)
  BY DEF Waiting, Wanted, LiveSub
<1>2. UNCHANGED <<live, seen, forwarder, frames, emitted>>
  BY DEF liveVars
<1>3. LiveTypeOK' /\ FramesInv'
  BY <1>1, <1>2 DEF LiveInv, LiveTypeOK, FramesInv
<1>4. ClientMissesNothing'
  BY <1>1, <1>2 DEF LiveInv, ClientMissesNothing
<1> QED BY <1>2, <1>3, <1>4 DEF LiveInv

LEMMA LiveHearsEmission ==
  ASSUME BusInv, LiveInv, Emission, UNCHANGED liveVars
  PROVE  LiveInv'
<1> DEFINE k == Len(emitted)
           L == LiveSub
<1>1. /\ open' = open /\ Len(emitted') = k + 1 /\ k \in Nat
      /\ \A i \in 1 .. k : emitted'[i] = emitted[i]
      /\ Gets(L, k + 1)
  BY Emitted, LiveAssumption DEF BusInv, BusTypeOK
<1>2. UNCHANGED <<live, seen, forwarder, frames>>
  BY DEF liveVars
<1>3. /\ forwarder \in Nat /\ forwarder <= k
      /\ \A i \in 1 .. Len(frames) : frames[i] \in Nat /\ frames[i] <= k
  <2>1. forwarder \in Nat /\ forwarder <= k
    BY BusAssumption DEF LiveInv, LiveTypeOK, FramesInv
  <2>2. \A i \in 1 .. Len(frames) : frames[i] \in Message
    BY ElementsIn DEF LiveInv, LiveTypeOK
  <2> QED BY <2>1, <2>2, BusAssumption DEF LiveInv, FramesInv, Message
<1>4. \A w \in Wanted(L)' : w \in Wanted(L) \/ (w = k + 1 /\ emitted'[k + 1] \in Wants(L))
  BY <1>1 DEF Wanted
<1>5. FramesInv'
  BY <1>1, <1>2, <1>3 DEF LiveInv, FramesInv, Gets
<1>6. ClientMissesNothing'
  <2>1. ASSUME live = "accepted", NEW m \in Wanted(L)', m > seen
        PROVE  \/ m \in Waiting(L)' \union dropped'[L] \union {forwarder}
               \/ \E i \in 1 .. Len(frames) : frames[i] = m
    <3>1. CASE m = k + 1 /\ emitted'[k + 1] \in Wants(L)
      BY <1>1, <2>1, <3>1 DEF LiveInv, Gets
    <3>2. CASE m \in Wanted(L)
      BY <1>1, <2>1, <3>2 DEF LiveInv, ClientMissesNothing, Gets
    <3> QED BY <1>4, <2>1, <3>1, <3>2
  <2>2. \A i, j \in 1 .. Len(frames) : i < j => frames[i] < frames[j]
    BY DEF LiveInv, ClientMissesNothing
  <2> QED BY <1>2, <2>1, <2>2 DEF ClientMissesNothing
<1>7. LiveTypeOK'
  BY <1>2 DEF LiveInv, LiveTypeOK
<1> QED BY <1>1, <1>2, <1>5, <1>6, <1>7 DEF LiveInv

LEMMA LiveTakesStep ==
  ASSUME BusInv, LiveInv, LiveTakes
  PROVE  BusInv' /\ LiveInv'
<1> DEFINE L == LiveSub
           m == Head(queue[L])
<1>1. /\ live \in {"accepted", "gone"} /\ forwarder = 0 /\ Take(L) /\ forwarder' = m
      /\ UNCHANGED <<live, seen, frames, emitted, open, dropped>> /\ L \in Subscription
  BY LiveAssumption DEF LiveTakes
<1>2. /\ BusInv' /\ m \in 1 .. Len(emitted) /\ emitted[m] \in Wants(L)
      /\ Waiting(L) = Waiting(L)' \union {m} /\ Waiting(L) \subseteq 1 .. Len(emitted)
      /\ \A w \in Waiting(L)' : m < w \/ (m = w /\ emitted[w] = "system")
  BY <1>1, Taken
<1> HIDE DEF m
<1>3. \A w \in Waiting(L)' : m < w
  BY <1>2, LiveAssumption
<1>4. Len(emitted) \in Nat /\ Len(emitted) <= MaxEmits /\ MaxEmits \in Nat
  BY BusAssumption DEF BusInv, BusTypeOK
<1>5. LiveTypeOK'
  BY <1>1, <1>2, <1>4 DEF LiveInv, LiveTypeOK
<1> HIDE DEF L
<1>6. FramesInv'
  BY <1>1, <1>2, <1>3, <1>4 DEF LiveInv, FramesInv, L
<1>7. ClientMissesNothing'
  <2>1. Wanted(L)' = Wanted(L)
    BY <1>1 DEF Wanted, L, LiveSub
  <2>2. ASSUME live = "accepted", NEW w \in Wanted(L), w > seen
        PROVE  \/ w \in Waiting(L)' \union dropped[L] \union {m}
               \/ \E i \in 1 .. Len(frames) : frames[i] = w
    <3>1. w \in Nat /\ w > 0
      <4>1. w \in 1 .. Len(emitted) /\ seen \in Nat
        BY <1>4, <2>2 DEF Wanted, LiveInv, LiveTypeOK
      <4> QED BY <1>4, <4>1
    <3>2. \/ w \in Waiting(L) \union dropped[L] \union {0}
          \/ \E i \in 1 .. Len(frames) : frames[i] = w
      BY <1>1, <2>2 DEF LiveInv, ClientMissesNothing, L
    <3> QED BY <1>2, <3>1, <3>2
  <2>3. \A i, j \in 1 .. Len(frames) : i < j => frames[i] < frames[j]
    BY DEF LiveInv, ClientMissesNothing
  <2> QED BY <1>1, <2>1, <2>2, <2>3 DEF ClientMissesNothing, L
<1> QED BY <1>1, <1>2, <1>5, <1>6, <1>7 DEF LiveInv, L

LEMMA LiveSendsStep ==
  ASSUME BusInv, LiveInv, LiveSends
  PROVE  LiveInv'
<1>1. /\ live = "accepted" /\ forwarder # 0 /\ frames' = Append(frames, forwarder) /\ forwarder' = 0
      /\ UNCHANGED <<live, seen, emitted, queue, open, dropped>>
  BY DEF LiveSends, busVars
<1>2. /\ frames \in Seq(Message) /\ forwarder \in Message /\ Len(frames) \in Nat
      /\ forwarder \in Nat /\ Len(emitted) \in Nat /\ MaxEmits \in Nat
  BY <1>1, BusAssumption DEF LiveInv, LiveTypeOK, Message, BusInv, BusTypeOK
<1>3. /\ frames' \in Seq(Message) /\ Len(frames') = Len(frames) + 1
      /\ frames'[Len(frames) + 1] = forwarder
      /\ \A i \in 1 .. Len(frames) : frames'[i] = frames[i]
      /\ \A i \in 1 .. Len(frames') : i \in 1 .. Len(frames) \/ i = Len(frames) + 1
  BY <1>1, <1>2
<1>4. LiveTypeOK'
  BY <1>1, <1>2, <1>3 DEF LiveInv, LiveTypeOK
<1>5. Waiting(LiveSub)' = Waiting(LiveSub) /\ Wanted(LiveSub)' = Wanted(LiveSub)
  BY <1>1 DEF Waiting, Wanted, LiveSub
<1>6. FramesInv'
  BY <1>1, <1>2, <1>3, <1>5 DEF LiveInv, FramesInv
<1>7. ClientMissesNothing'
  <2>1. ASSUME NEW i \in 1 .. Len(frames'), NEW j \in 1 .. Len(frames'), i < j
        PROVE  frames'[i] < frames'[j]
    <3>1. i \in 1 .. Len(frames)
      BY <1>2, <1>3, <2>1
    <3>2. CASE j \in 1 .. Len(frames)
      BY <1>3, <2>1, <3>1, <3>2 DEF LiveInv, ClientMissesNothing
    <3>3. CASE j = Len(frames) + 1
      BY <1>1, <1>3, <3>1, <3>3 DEF LiveInv, FramesInv
    <3> QED BY <1>3, <3>2, <3>3
  <2>2. ASSUME NEW w \in Wanted(LiveSub), w > seen
        PROVE  \/ w \in Waiting(LiveSub) \union dropped[LiveSub]
               \/ \E i \in 1 .. Len(frames') : frames'[i] = w
    <3>1. \/ w \in Waiting(LiveSub) \union dropped[LiveSub] \union {forwarder}
          \/ \E i \in 1 .. Len(frames) : frames[i] = w
      BY <1>1, <2>2 DEF LiveInv, ClientMissesNothing
    <3>2. Len(frames) + 1 \in 1 .. Len(frames') /\ 1 .. Len(frames) \subseteq 1 .. Len(frames')
      BY <1>2, <1>3
    <3> QED BY <1>3, <3>1, <3>2
  <2> QED BY <1>1, <1>5, <2>1, <2>2 DEF ClientMissesNothing
<1> QED BY <1>1, <1>4, <1>6, <1>7 DEF LiveInv

LEMMA LiveStep ==
  ASSUME BusInv, LiveInv, LiveNext
  PROVE  /\ BusInv' /\ LiveInv' /\ emitted' = emitted /\ dropped' = dropped
         /\ \A t \in Subscription \ {LiveSub} : queue'[t] = queue[t] /\ (t \in open <=> t \in open')
<1>f. ASSUME UNCHANGED <<emitted, queue, dropped>>, open' \subseteq open \union {LiveSub},
             open \subseteq open' \union {LiveSub}
      PROVE  /\ BusInv' /\ emitted' = emitted /\ dropped' = dropped
             /\ \A t \in Subscription \ {LiveSub} : queue'[t] = queue[t] /\ (t \in open <=> t \in open')
  BY <1>f, BusRests, LiveAssumption DEF BusInv, BusTypeOK
<1>t. LiveTypeOK /\ FramesInv /\ ClientMissesNothing /\ BusTypeOK /\ Len(emitted) \in Nat
  BY DEF LiveInv, BusInv, BusTypeOK
\* Where the place of the handler moves and no message does.
<1>m. ASSUME UNCHANGED <<emitted, queue, dropped, frames>>, forwarder' \in {0, forwarder},
             live' = "accepted" => (live = "accepted" /\ seen' = seen /\ forwarder' = forwarder)
                                     \/ seen' = Len(emitted)
      PROVE  FramesInv' /\ ClientMissesNothing'
  <2>1. Waiting(LiveSub)' = Waiting(LiveSub) /\ Wanted(LiveSub)' = Wanted(LiveSub)
    BY <1>m DEF Waiting, Wanted, LiveSub
  <2>2. FramesInv'
    BY <1>t, <1>m, <2>1 DEF FramesInv
  <2>3. \A w \in Wanted(LiveSub) : ~(w > Len(emitted))
    BY <1>t DEF Wanted
  <2> QED BY <1>t, <1>m, <2>1, <2>2, <2>3 DEF ClientMissesNothing
<1>1. CASE LiveSubscribes
  <2>1. FramesInv' /\ ClientMissesNothing'
    BY <1>1, <1>m DEF LiveSubscribes
  <2> QED BY <1>1, <1>f, <1>t, <2>1 DEF LiveSubscribes, LiveInv, LiveTypeOK
<1>2. CASE LiveAccepts
  <2>1. FramesInv' /\ ClientMissesNothing'
    BY <1>2, <1>m DEF LiveAccepts, busVars
  <2>2. LiveTypeOK'
    BY <1>2, <1>t, BusAssumption DEF LiveAccepts, LiveTypeOK, BusTypeOK
  <2> QED BY <1>2, <1>f, <2>1, <2>2 DEF LiveAccepts, LiveInv, busVars
<1>3. CASE LiveTakes
  <2>1. \A t \in Subscription \ {LiveSub} : queue'[t] = queue[t]
    BY <1>3, <1>t DEF LiveTakes, Take, BusTypeOK
  <2> QED BY <1>3, <2>1, LiveTakesStep DEF LiveTakes
<1>4. CASE LiveSends
  BY <1>4, <1>f, LiveSendsStep DEF LiveSends, busVars
<1>5. CASE ClientLeaves
  <2>1. FramesInv' /\ ClientMissesNothing'
    BY <1>5, <1>m DEF ClientLeaves, busVars
  <2> QED BY <1>5, <1>f, <1>t, <2>1 DEF ClientLeaves, LiveInv, LiveTypeOK, busVars
<1>6. CASE LiveCloses
  <2>1. FramesInv' /\ ClientMissesNothing'
    BY <1>6, <1>m DEF LiveCloses
  <2>2. LiveTypeOK'
    BY <1>6, <1>t, BusAssumption DEF LiveCloses, LiveTypeOK
  <2> QED BY <1>6, <1>f, <2>1, <2>2 DEF LiveCloses, LiveInv, Detach
<1> QED BY <1>1, <1>2, <1>3, <1>4, <1>5, <1>6 DEF LiveNext

-----------------------------------------------------------------------------
(* Together.                                                               *)

NotifyInv == BusInv /\ DispatcherInv /\ BridgeInv /\ LiveInv

\* Of a step of one consumer: what the others see of the bus stays.
LEMMA RulesFrame ==
  ASSUME BusInv, DispatcherNext
  PROVE  /\ emitted' = emitted /\ dropped' = dropped
         /\ \A t \in Subscription : t \notin {RuleSub(r) : r \in Rule} =>
              queue'[t] = queue[t] /\ (t \in open <=> t \in open')
<1>1. CASE DispatcherStops
  BY <1>1 DEF DispatcherStops, Detach
<1>2. ASSUME NEW r \in Rule, PumpTakes(r)
      PROVE  /\ emitted' = emitted /\ dropped' = dropped
             /\ \A t \in Subscription : t \notin {RuleSub(q) : q \in Rule} =>
                  queue'[t] = queue[t] /\ (t \in open <=> t \in open')
  BY <1>2, SubsDiffer DEF PumpTakes, Take, BusInv, BusTypeOK
<1>3. ASSUME NEW r \in Rule, NEW ch \in ChannelsOf(r), ChannelLocked(r, ch) \/ Attempt(r, ch)
      PROVE  UNCHANGED <<emitted, queue, open, dropped>>
  BY <1>3 DEF ChannelLocked, Attempt, busVars
<1> QED BY <1>1, <1>2, <1>3 DEF DispatcherNext, Deliveries

LEMMA NotifyStarts == NotifyInit => NotifyInv
<1> SUFFICES ASSUME NotifyInit PROVE NotifyInv
  OBVIOUS
<1>1. /\ emitted = <<>> /\ queue = [s \in Subscription |-> <<>>]
      /\ dropped = [s \in Subscription |-> {}] /\ open \subseteq Subscription
      /\ "rules" \in clients => \A r \in Rule : RuleSub(r) \in open
      /\ DispatcherInit("rules" \in clients) /\ MqttInit /\ LiveInit
  BY SubsDiffer DEF NotifyInit, BusInit
<1>2. /\ Len(emitted) = 0 /\ MaxEmits \in Nat /\ MaxQueue \in Nat
      /\ \A s \in Subscription : queue[s] = <<>> /\ Len(queue[s]) = 0 /\ Waiting(s) = {} /\ Wanted(s) = {}
  BY <1>1, BusAssumption DEF Waiting, Wanted
<1>3. BusInv
  <2>1. queue \in [Subscription -> Seq(1 .. Len(emitted))] /\ emitted \in Seq(Topic)
    BY <1>1
  <2> QED BY <1>1, <1>2, <2>1 DEF BusInv, BusTypeOK, SortedIn
<1>4. DispatcherInv
  <2>1. \A r \in Rule : /\ pump[r] = [on |-> 0, at |-> Settled(r)]
                        /\ ChannelsOf(r) \subseteq Channel /\ RuleSub(r) \in Subscription
                        /\ \A ch \in Channel : latest[r][ch] = 0
    BY <1>1, DispatcherAssumption DEF DispatcherInit
  <2>2. DispatcherTypeOK
    BY <1>1, <1>2, <2>1, DispatcherAssumption DEF DispatcherInit, DispatcherTypeOK, Settled, Progress
  <2>3. ASSUME NEW r \in Rule PROVE RuleInv(r)
    <3>1. Accounted(r)
      BY <1>2, <2>1 DEF Accounted
    <3>2. notifying => RuleSub(r) \in open
      <4>1. notifying <=> "rules" \in clients
        BY <1>1, Zenon DEF DispatcherInit
      <4> QED BY <1>1, <4>1
    <3>3. pump[r].on = 0 /\ pump[r].at = Settled(r)
      <4>1. PICK at : at = Settled(r)
        OBVIOUS
      <4>2. pump[r] = [on |-> 0, at |-> at]
        BY <2>1, <4>1, Zenon
      <4> QED BY <4>1, <4>2
    <3>4. \A ch \in ChannelsOf(r) : pump[r].at[ch] = "settled"
      BY <3>3 DEF Settled
    <3>5. Waiting(RuleSub(r)) = {}
      BY <1>2, <2>1
    <3>6. \A ch \in Channel : latest[r][ch] <= pump[r].on
      <4>1. \A ch \in Channel : latest[r][ch] = 0
        BY <2>1, Zenon
      <4> QED BY <3>3, <4>1
    <3>7. pump[r].on <= Len(emitted)
      BY <1>2, <3>3
    <3> QED BY <3>1, <3>2, <3>3, <3>4, <3>5, <3>6, <3>7 DEF RuleInv
  <2> QED BY <2>2, <2>3 DEF DispatcherInv
<1>5. BridgeInv
  <2>1. /\ bridge = "connecting" /\ consumer = EmptyHands /\ breaks = 0 /\ lost = {} /\ refused = FALSE
        /\ ending = "no" /\ mute = FALSE /\ unsaid = FALSE
        /\ broker = [up |-> TRUE, session |-> FALSE, status |-> "none", person |-> "none"]
        /\ \A s \in MqttSub : consumer[s].on = 0 /\ consumer[s] = [on |-> 0, half |-> FALSE]
    BY <1>1 DEF MqttInit, EmptyHands
  <2>2. MqttTypeOK /\ StatusInv
    <3>1. consumer \in [MqttSub -> [on : 0 .. MaxEmits, half : BOOLEAN]]
      BY <2>1, BusAssumption DEF EmptyHands
    <3>2. breaks \in 0 .. MaxBreaks
      BY <2>1, MqttAssumption
    <3> QED BY <2>1, <3>1, <3>2 DEF MqttTypeOK, BridgePlace, StatusInv, Runs
  <2>3. LossInv
    BY <2>1, FS_EmptySet DEF LossInv
  <2>4. HandsInv /\ SensorInv
    BY <1>2, <2>1, Subs DEF HandsInv, SensorInv, Pending
  <2> QED BY <2>2, <2>3, <2>4 DEF BridgeInv
<1>6. LiveInv
  <2>1. live = "none" /\ seen = 0 /\ forwarder = 0 /\ frames = <<>> /\ Len(frames) = 0
    BY <1>1 DEF LiveInit
  <2>2. frames \in Seq(Message)
    BY <2>1
  <2> QED BY <1>2, <2>1, <2>2 DEF LiveInv, LiveTypeOK, FramesInv, ClientMissesNothing
<1> QED BY <1>3, <1>4, <1>5, <1>6 DEF NotifyInv

LEMMA NotifyKeeps == NotifyInv /\ [NotifyNext]_notifyVars => NotifyInv' /\ (HeardOn \/ latest' = latest)
<1> SUFFICES ASSUME NotifyInv, [NotifyNext]_notifyVars
             PROVE  NotifyInv' /\ (HeardOn \/ latest' = latest)
  OBVIOUS
<1>i. BusInv /\ DispatcherInv /\ BridgeInv /\ LiveInv
  BY DEF NotifyInv
<1>1. CASE RulesAct
  <2>1. DispatcherNext /\ UNCHANGED <<mqttVars, liveVars>>
    BY <1>1 DEF RulesAct
  <2>2. BusInv' /\ DispatcherInv' /\ HeardOn
    BY <1>i, <2>1, DispatcherStep
  <2>3. /\ emitted' = emitted /\ dropped' = dropped
        /\ \A t \in MqttSub \union {LiveSub} : queue'[t] = queue[t] /\ (t \in open <=> t \in open')
    BY <1>i, <2>1, RulesFrame, SubsDiffer
  <2>4. BridgeInv'
    BY <1>i, <2>1, <2>3, BridgeRests, Subs
  <2>5. LiveInv'
    BY <1>i, <2>1, <2>3, LiveRests
  <2> QED BY <2>2, <2>4, <2>5 DEF NotifyInv
<1>2. CASE BridgeActs
  <2>1. MqttNext /\ UNCHANGED <<dispatcherVars, liveVars>>
    BY <1>2 DEF BridgeActs
  <2>2. /\ BusInv' /\ BridgeInv' /\ emitted' = emitted /\ dropped' = dropped
        /\ \A t \in Subscription \ MqttSub : queue'[t] = queue[t] /\ (t \in open <=> t \in open')
    BY <1>i, <2>1, BridgeStep
  <2>3. DispatcherInv'
    BY <1>i, <2>1, <2>2, DispatcherRests, SubsDiffer
  <2>4. LiveInv'
    BY <1>i, <2>1, <2>2, LiveRests, SubsDiffer
  <2> QED BY <2>1, <2>2, <2>3, <2>4 DEF NotifyInv, dispatcherVars
<1>3. CASE LiveActs
  <2>1. LiveNext /\ UNCHANGED <<dispatcherVars, mqttVars>>
    BY <1>3 DEF LiveActs
  <2>2. /\ BusInv' /\ LiveInv' /\ emitted' = emitted /\ dropped' = dropped
        /\ \A t \in Subscription \ {LiveSub} : queue'[t] = queue[t] /\ (t \in open <=> t \in open')
    BY <1>i, <2>1, LiveStep
  <2>3. DispatcherInv'
    BY <1>i, <2>1, <2>2, DispatcherRests, SubsDiffer
  <2>4. BridgeInv'
    BY <1>i, <2>1, <2>2, BridgeRests, SubsDiffer, Subs
  <2> QED BY <2>1, <2>2, <2>3, <2>4 DEF NotifyInv, dispatcherVars
<1>4. CASE SomethingIsSaid
  <2>1. Emission /\ UNCHANGED <<dispatcherVars, mqttVars, liveVars>>
    BY <1>4 DEF SomethingIsSaid
  <2>2. BusInv' /\ DispatcherInv' /\ BridgeInv' /\ LiveInv'
    BY <1>i, <2>1, Emitted, DispatcherHearsEmission, BridgeHearsEmission, LiveHearsEmission
  <2> QED BY <2>1, <2>2 DEF NotifyInv, dispatcherVars
<1>5. CASE UNCHANGED notifyVars
  <2>1. UNCHANGED <<busVars, dispatcherVars, mqttVars, liveVars>>
    BY <1>5 DEF notifyVars
  <2>2. UNCHANGED <<emitted, queue, open, dropped>>
    BY <2>1 DEF busVars
  <2>3. BusInv'
    BY <1>i, <2>2, BusRests DEF BusInv, BusTypeOK
  <2>4. DispatcherInv' /\ BridgeInv' /\ LiveInv'
    BY <1>i, <2>1, <2>2, DispatcherRests, BridgeRests, LiveRests
  <2> QED BY <2>1, <2>3, <2>4 DEF NotifyInv, dispatcherVars
<1> QED BY <1>1, <1>2, <1>3, <1>4, <1>5 DEF NotifyNext

LEMMA NotifyInvariant == NotifySpec => []NotifyInv
  BY NotifyStarts, NotifyKeeps, PTL DEF NotifySpec

LEMMA Least ==
  ASSUME NEW T \in SUBSET Nat, T # {}
  PROVE  \E x \in T : \A y \in T : x <= y
<1>1. PICK x \in T : \A y \in T : <<y, x>> \notin OpToRel(<, Nat)
  <2>1. IsWellFoundedOn(OpToRel(<, Nat), Nat)
    BY NatLessThanWellFounded
  <2> QED BY <2>1, WFMin
<1>2. ASSUME NEW y \in T PROVE x <= y
  <2>1. <<y, x>> \in Nat \X Nat /\ <<y, x>>[1] = y /\ <<y, x>>[2] = x
    OBVIOUS
  <2> QED BY <1>1, <2>1 DEF OpToRel
<1> QED BY <1>2

\* Of the numbers up to k, some that are there have a greatest among them.
LEMMA Greatest ==
  ASSUME NEW k \in Nat, NEW T \in SUBSET (1 .. k), T # {}
  PROVE  \E m \in T : \A n \in T : n <= m
<1> DEFINE U == {k - m : m \in T}
<1>0. \A m \in T : m \in Nat /\ m <= k /\ k - m \in Nat
  OBVIOUS
<1>1. U \in SUBSET Nat /\ U # {} /\ \A m \in T : k - m \in U
  BY <1>0
<1>2. PICK x \in U : \A y \in U : x <= y
  BY <1>1, Least
<1>3. PICK m \in T : x = k - m
  BY <1>2
<1>4. ASSUME NEW n \in T PROVE n <= m
  <2>1. k - m <= k - n
    BY <1>1, <1>2, <1>3
  <2> QED BY <1>0, <2>1
<1> QED BY <1>4

\* The status is true, and what the sensor shows when nothing is pending is what the
\* engine said last.
LEMMA InStep ==
  ASSUME BusInv, BridgeInv
  PROVE  BrokerInStep
<1>1. bridge = "stopped" /\ ~unsaid => broker.status # "online"
  BY DEF BridgeInv, StatusInv
<1>2. bridge = "pumping" /\ broker.session /\ Runs /\ ~mute => broker.status = "online"
  BY DEF BridgeInv, StatusInv
<1>3. ASSUME EV \in open, queue[EV] = <<>>, consumer[EV].on = 0, dropped[EV] = {},
             ~refused, \A p \in lost : p[1] # EV, Wanted(EV) # {}
      PROVE  broker.person = IF PersonThere THEN "ON" ELSE "OFF"
  <2>1. Pending = {} /\ Clean
    BY <1>3 DEF Pending, Waiting, Clean
  <2>2. Len(emitted) \in Nat /\ emitted \in Seq(Topic)
    BY DEF BusInv, BusTypeOK
  <2>3. PICK m \in Wanted(EV) : \A n \in Wanted(EV) : n <= m
    BY <1>3, <2>2, Greatest DEF Wanted
  <2>4. /\ m \in 1 .. Len(emitted) /\ emitted[m] \in {"confirmed", "ended"}
        /\ \A n \in 1 .. Len(emitted) : emitted[n] \in {"confirmed", "ended"} => n \in Wanted(EV)
        /\ Wanted(EV) \subseteq Nat
    BY <2>2, Subs DEF Wanted
  <2>5. \A n \in Wanted(EV) : ~(m < n)
    BY <2>3, <2>4
  <2>6. broker.person = Shown(emitted[m])
    BY <2>1, <2>5 DEF BridgeInv, SensorInv
  <2>7. \A n \in m + 1 .. Len(emitted) : emitted[n] = "system"
    <3> SUFFICES ASSUME NEW n \in m + 1 .. Len(emitted) PROVE emitted[n] = "system"
      OBVIOUS
    <3>1. n \in 1 .. Len(emitted) /\ m < n
      BY <2>2, <2>4
    <3>2. emitted[n] \in Topic
      BY <2>2, <3>1
    <3> QED BY <2>4, <2>5, <3>1, <3>2 DEF Topic
  <2>8. PersonThere <=> emitted[m] = "confirmed"
    <3>1. ASSUME emitted[m] = "ended", NEW n \in 1 .. Len(emitted), emitted[n] = "confirmed",
                 \A l \in n + 1 .. Len(emitted) : emitted[l] = "system"
          PROVE  FALSE
      <4>1. n <= m /\ n # m /\ n \in Nat /\ m \in Nat
        BY <2>3, <2>4, <3>1
      <4>2. m \in n + 1 .. Len(emitted)
        BY <2>2, <2>4, <4>1
      <4> QED BY <3>1, <4>2
    <3> QED BY <2>4, <2>7, <3>1 DEF PersonThere
  <2> QED BY <2>6, <2>8 DEF Shown
<1> QED BY <1>1, <1>2, <1>3 DEF BrokerInStep, EV

\* The queues hold what was emitted and no more than they may, the pumps, consumers
\* and the forwarder hold messages, whichever consumers are at work (events.py,
\* dispatcher.py, mqtt.py, ws.py).
THEOREM NotifyKeepsTypes == NotifySpec => []NotifyTypeOK
<1>1. NotifyInv => NotifyTypeOK
  BY DEF NotifyInv, BusInv, DispatcherInv, BridgeInv, LiveInv, NotifyTypeOK
<1> QED BY NotifyInvariant, <1>1, PTL

\* Until the dispatcher stops, a message a rule asks for is, for every channel of the
\* rule, heard, given up, waiting, on its way, counted as dropped or a web push that
\* reached nobody, whatever queues overflow and requests fail (dispatcher.py 115-157,
\* events.py 144-157, webpush.py 102-145).
THEOREM NoMessageVanishes == NotifySpec => []NothingVanishes
<1>1. NotifyInv => NothingVanishes
  BY DEF NotifyInv, DispatcherInv, RuleInv, Accounted, NothingVanishes
<1> QED BY NotifyInvariant, <1>1, PTL

\* Over each of its channels no rule sends an older message after a newer one, however
\* often attempts are repeated; two rules, or two channels, are not ordered
\* (dispatcher.py 8-9, 109-113, 115-157).
THEOREM ReceiversHearInOrder == NotifySpec => HeardInOrder
<1>1. NotifyInv /\ [NotifyNext]_notifyVars
        => [\A r \in Rule, ch \in Channel : latest'[r][ch] >= latest[r][ch]]_latest
  BY NotifyKeeps DEF HeardOn
<1> QED BY NotifyInvariant, <1>1, PTL DEF NotifySpec, HeardInOrder

\* A stopped bridge shows as online only when stop() could not say "offline" on the
\* session that stood, one that pumps on a session shows as online unless its
\* announcement failed by itself, and the person sensor shows what the engine said
\* last once nothing is on its way and nothing was lost (mqtt.py 117-133, 192-194,
\* 242-275).
THEOREM BrokerStaysInStep == NotifySpec => []BrokerInStep
<1>1. NotifyInv => BrokerInStep
  BY InStep DEF NotifyInv
<1> QED BY NotifyInvariant, <1>1, PTL

\* However often sessions break, each break costs at most what the two consumers had
\* in hand (mqtt.py 224-240).
THEOREM BreaksCostWhatIsInHand == NotifySpec => []OneLossPerBreak
<1>1. NotifyInv => OneLossPerBreak
  <2>1. IsFiniteSet(lost) => Cardinality(lost) \in Nat
    BY FS_CardinalityType
  <2> QED BY <2>1 DEF NotifyInv, BridgeInv, LossInv, MqttTypeOK, OneLossPerBreak
<1> QED BY NotifyInvariant, <1>1, PTL

\* A live client gets every event published after its handshake, in order, but for
\* those its own queue dropped (ws.py 60-73, 96-112).
THEOREM LiveClientMissesNothing == NotifySpec => []ClientMissesNothing
<1>1. NotifyInv => ClientMissesNothing
  BY DEF NotifyInv, LiveInv
<1> QED BY NotifyInvariant, <1>1, PTL
==============================================================================
