------------------------- MODULE PlanDeletionsProofs -------------------------
(***************************************************************************)
(* That plan_deletions computes the closed form of Retention.tla, for      *)
(* every index, every policy and every pressure, and what follows from it. *)
(* The inductive invariant Inv says where each loop stands:                *)
(*   Classified  the first loop has split what it has looked at by the     *)
(*               expiry test, in whatever order it came;                   *)
(*   InLine      the second loop has taken a front part of the sorted      *)
(*               candidates, each while something was still to be freed.   *)
(***************************************************************************)
EXTENDS PlanDeletions, RetentionProofs

\* What the running loop has still to look at.
Elements(q) == {q[i] : i \in 1 .. Len(q)}
Left == Elements(todo)

Candidates == Deletable(segments, limits, Now)
Need == StillToFree(segments, limits, Now, bytesToFree)

Arguments ==
  /\ segments \in Inputs /\ limits \in LimitChoices /\ bytesToFree \in 0 .. MaxBytesToFree

Classified ==
  /\ todo \in Seq(segments)
  /\ \A i, j \in 1 .. Len(todo) : i < j => todo[i] # todo[j]
  /\ expired = {s \in segments \ Left : TimeIsUp(s, limits, Now)}
  /\ survivors = {s \in segments \ Left : ~TimeIsUp(s, limits, Now)}
  /\ pressure = {} /\ unmet = 0

InLine ==
  /\ expired = Expired(segments, limits, Now)
  /\ todo \in Seq(Candidates) /\ Left = Candidates \ pressure
  /\ pressure \subseteq Taken(Candidates, Need)
  /\ \A i, j \in 1 .. Len(todo) : i < j => GoesBefore(todo[i], todo[j])
  /\ \A s \in pressure, t \in Left : GoesBefore(s, t)
  /\ remaining = Need - Bytes(pressure)
  /\ unmet = 0

Inv ==
  /\ Arguments
  /\ pc \in {"classify", "take", "done"}
  /\ pc = "classify" => Classified
  /\ pc = "take" => InLine
  /\ PlanIsTheClosedForm

-----------------------------------------------------------------------------
(* Sorting.                                                                *)

\* Where a finite set is strictly and totally ordered by R, the number of elements
\* below one is its place.
LEMMA SortedExists ==
  ASSUME NEW S, IsFiniteSet(S), NEW R \in SUBSET (S \X S),
         \A s \in S : <<s, s>> \notin R,
         \A s, t, u \in S : <<s, t>> \in R /\ <<t, u>> \in R => <<s, u>> \in R,
         \A s, t \in S : s = t \/ <<s, t>> \in R \/ <<t, s>> \in R
  PROVE  \E q \in [1 .. Cardinality(S) -> S] :
           \A i, j \in 1 .. Cardinality(S) : i < j => <<q[i], q[j]>> \in R
<1> DEFINE n == Cardinality(S)
           Below(s) == {t \in S : <<t, s>> \in R}
           place == [s \in S |-> Cardinality(Below(s)) + 1]
<1>1. n \in Nat /\ \A s \in S : IsFiniteSet(Below(s)) /\ Cardinality(Below(s)) \in Nat
  BY FS_CardinalityType, FS_Subset
<1>2. ASSUME NEW s \in S PROVE place[s] \in 1 .. n
  <2>1. Below(s) \in SUBSET S /\ Below(s) # S
    OBVIOUS
  <2>2. Cardinality(Below(s)) <= n /\ (Cardinality(Below(s)) = n => Below(s) = S)
    BY <2>1, FS_Subset
  <2> HIDE DEF n, Below
  <2> QED BY <1>1, <2>1, <2>2
<1>3. ASSUME NEW s \in S, NEW t \in S, <<s, t>> \in R PROVE place[s] < place[t]
  <2>1. Below(s) \in SUBSET Below(t) /\ s \in Below(t) /\ s \notin Below(s)
    BY <1>3
  <2>2. Cardinality(Below(s)) <= Cardinality(Below(t))
        /\ (Cardinality(Below(s)) = Cardinality(Below(t)) => Below(t) = Below(s))
    BY <1>1, <2>1, FS_Subset
  <2> HIDE DEF Below
  <2> QED BY <1>1, <2>1, <2>2
<1>4. \A s \in S : place[s] \in Nat
  <2> HIDE DEF Below
  <2> QED BY <1>1
<1> HIDE DEF place
<1>5. ASSUME NEW s \in S, NEW t \in S, place[s] = place[t] PROVE s = t
  <2>1. place[s] \in Nat /\ place[t] \in Nat
    BY <1>4
  <2>2. <<s, t>> \notin R /\ <<t, s>> \notin R
    BY <1>3, <1>5, <2>1
  <2> QED BY <2>2
<1>6. place \in Injection(S, 1 .. n)
  <2>1. place \in [S -> 1 .. n]
    BY <1>2 DEF place
  <2> QED BY <1>5, <2>1 DEF Injection, IsInjective
<1>7. IsFiniteSet(1 .. n) /\ Cardinality(1 .. n) = n
  BY <1>1, FS_Interval
<1>8. place \in Surjection(S, 1 .. n)
  BY <1>6, <1>7, FS_Injection
<1> DEFINE q == [i \in 1 .. n |-> CHOOSE s \in S : place[s] = i]
<1>9. ASSUME NEW i \in 1 .. n PROVE q[i] \in S /\ place[q[i]] = i
  <2>1. \E s \in S : place[s] = i
    BY <1>8 DEF Surjection
  <2> QED BY <2>1
<1>10. q \in [1 .. n -> S]
  BY <1>9
<1> HIDE DEF q
<1>11. ASSUME NEW i \in 1 .. n, NEW j \in 1 .. n, i < j PROVE <<q[i], q[j]>> \in R
  <2>1. q[i] \in S /\ q[j] \in S /\ place[q[i]] = i /\ place[q[j]] = j
    BY <1>9
  <2>2. i \in Nat /\ j \in Nat
    BY <1>1
  <2>3. CASE q[i] = q[j]
    BY <1>11, <2>1, <2>2, <2>3
  <2>4. CASE <<q[j], q[i]>> \in R
    BY <1>3, <1>11, <2>1, <2>2, <2>4
  <2> QED BY <2>1, <2>3, <2>4
<1> QED BY <1>10, <1>11

\* A sequence over S, as long as S is large, in which no element comes twice
\* holds them all.
LEMMA AllListed ==
  ASSUME NEW S, IsFiniteSet(S), NEW q \in [1 .. Cardinality(S) -> S],
         \A i, j \in 1 .. Cardinality(S) : i < j => q[i] # q[j]
  PROVE  /\ q \in Seq(S) /\ Len(q) = Cardinality(S)
         /\ Elements(q) = S
<1> DEFINE n == Cardinality(S)
<1>1. n \in Nat
  BY FS_CardinalityType
<1>2. q \in Seq(S) /\ Len(q) = n
  BY <1>1
<1>3. q \in Injection(1 .. n, S)
  <2>1. ASSUME NEW i \in 1 .. n, NEW j \in 1 .. n, q[i] = q[j] PROVE i = j
    <3>1. i < j \/ j < i \/ i = j
      BY <1>1
    <3> QED BY <2>1, <3>1
  <2> QED BY <2>1 DEF Injection, IsInjective
<1>4. IsFiniteSet(1 .. n) /\ Cardinality(1 .. n) = n
  BY <1>1, FS_Interval
<1>5. q \in Surjection(1 .. n, S)
  BY <1>3, <1>4, FS_Injection
<1> HIDE DEF n
<1>6. \A s \in S : \E i \in 1 .. n : q[i] = s
  BY <1>5 DEF Surjection
<1>7. \A i \in 1 .. n : q[i] \in S
  BY DEF n
<1>8. {q[i] : i \in 1 .. n} = S
  BY <1>6, <1>7
<1> QED BY <1>2, <1>8 DEF n, Elements

\* The index is in strict order: no two rows tie.
LEMMA IndexOrdered ==
  ASSUME NEW S \in Inputs, NEW s \in S, NEW t \in S, NEW u \in S
  PROVE  /\ ~IndexOrder(s, s)
         /\ IndexOrder(s, t) /\ IndexOrder(t, u) => IndexOrder(s, u)
         /\ s = t \/ IndexOrder(s, t) \/ IndexOrder(t, s)
<1>1. /\ s.camera \in Nat /\ s.start \in Nat /\ t.camera \in Nat /\ t.start \in Nat
      /\ u.camera \in Nat /\ u.start \in Nat
      /\ (s.camera = t.camera /\ s.start = t.start) => s = t
  BY PlanInputsAssumption
<1>2. ~IndexOrder(s, s)
  BY <1>1 DEF IndexOrder
<1>3. IndexOrder(s, t) /\ IndexOrder(t, u) => IndexOrder(s, u)
  BY <1>1 DEF IndexOrder
<1>4. s = t \/ IndexOrder(s, t) \/ IndexOrder(t, s)
  BY <1>1 DEF IndexOrder
<1> QED BY <1>2, <1>3, <1>4

\* The index lists every row once.
LEMMA SortedForIndex ==
  ASSUME NEW S \in Inputs, NEW q, q = Sorted(S, IndexOrder)
  PROVE  /\ q \in Seq(S) /\ Elements(q) = S
         /\ \A i, j \in 1 .. Len(q) : i < j => q[i] # q[j]
<1> DEFINE R == {p \in S \X S : IndexOrder(p[1], p[2])}
           n == Cardinality(S)
           Fits(f) == \A i, j \in 1 .. n : i < j => IndexOrder(f[i], f[j])
<1>1. IsFiniteSet(S) /\ \A s \in S : s.camera \in Nat /\ s.start \in Nat
  BY PlanInputsAssumption
<1>2. \A s, t \in S : <<s, t>> \in R <=> IndexOrder(s, t)
  OBVIOUS
<1>3. R \in SUBSET (S \X S)
  OBVIOUS
<1> HIDE DEF R
<1>5. \A s, t, u \in S : <<s, t>> \in R /\ <<t, u>> \in R => <<s, u>> \in R
  BY <1>2, IndexOrdered
<1>6. /\ \A s, t \in S : s = t \/ <<s, t>> \in R \/ <<t, s>> \in R
      /\ \A s \in S : <<s, s>> \notin R
  BY <1>2, IndexOrdered
<1>7. PICK f \in [1 .. n -> S] : \A i, j \in 1 .. n : i < j => <<f[i], f[j]>> \in R
  BY <1>1, <1>3, <1>5, <1>6, SortedExists
<1>8. Fits(f)
  BY <1>2, <1>7
<1>9. q = CHOOSE g \in [1 .. n -> S] : \A i, j \in 1 .. n : i < j => IndexOrder(g[i], g[j])
  BY DEF Sorted
<1>10. q \in [1 .. n -> S] /\ Fits(q)
  BY <1>8, <1>9
<1>11. \A i, j \in 1 .. n : i < j => q[i] # q[j]
  BY <1>2, <1>6, <1>10
<1>12. q \in Seq(S) /\ Len(q) = n /\ Elements(q) = S
  BY <1>1, <1>10, <1>11, AllListed
<1> QED BY <1>11, <1>12

\* Sorting the candidates gives all of them, in the order of GoesBefore.
LEMMA SortedForPressure ==
  ASSUME NEW S, Footage(S), \A s, t \in S : s.camera = t.camera /\ s.start = t.start => s = t,
         NEW q, q = Sorted(S, GoesBefore)
  PROVE  /\ q \in Seq(S) /\ Elements(q) = S
         /\ \A i, j \in 1 .. Len(q) : i < j => GoesBefore(q[i], q[j])
<1> DEFINE R == {p \in S \X S : GoesBefore(p[1], p[2])}
           n == Cardinality(S)
           Fits(f) == \A i, j \in 1 .. n : i < j => GoesBefore(f[i], f[j])
<1>1. IsFiniteSet(S)
  BY DEF Footage
<1>2. \A s, t \in S : <<s, t>> \in R <=> GoesBefore(s, t)
  OBVIOUS
<1>3. R \in SUBSET (S \X S)
  OBVIOUS
<1> HIDE DEF R
<1>4. \A s \in S : <<s, s>> \notin R
  BY <1>2, PressureOrder
<1>5. \A s, t, u \in S : <<s, t>> \in R /\ <<t, u>> \in R => <<s, u>> \in R
  BY <1>2, PressureOrder
<1>6. \A s, t \in S : s = t \/ <<s, t>> \in R \/ <<t, s>> \in R
  BY <1>2, PressureOrder
<1>7. PICK f \in [1 .. n -> S] : \A i, j \in 1 .. n : i < j => <<f[i], f[j]>> \in R
  BY <1>1, <1>3, <1>4, <1>5, <1>6, SortedExists
<1>8. Fits(f)
  BY <1>2, <1>7
<1>9. q = CHOOSE g \in [1 .. n -> S] : \A i, j \in 1 .. n : i < j => GoesBefore(g[i], g[j])
  BY DEF Sorted
<1>10. q \in [1 .. n -> S] /\ Fits(q)
  BY <1>8, <1>9
<1>11. \A i, j \in 1 .. n : i < j => q[i] # q[j]
  BY <1>2, <1>4, <1>10
<1>12. q \in Seq(S) /\ Len(q) = n /\ Elements(q) = S
  BY <1>1, <1>10, <1>11, AllListed
<1> QED BY <1>10, <1>12

\* A turn of a loop takes the head.
LEMMA TailOf ==
  ASSUME NEW S, NEW q \in Seq(S), q # <<>>, NEW t, t = Tail(q)
  PROVE  /\ Head(q) \in S /\ t \in Seq(S) /\ Elements(q) = Elements(t) \union {Head(q)}
         /\ Head(q) = q[1] /\ 1 \in 1 .. Len(q)
         /\ \A i \in 1 .. Len(t) : t[i] = q[i + 1] /\ i + 1 \in 1 .. Len(q)
<1>1. /\ Len(q) \in Nat \ {0} /\ Head(q) = q[1] /\ 1 \in 1 .. Len(q) /\ q[1] \in S
      /\ t \in Seq(S) /\ Len(t) = Len(q) - 1
  OBVIOUS
<1>2. ASSUME NEW i \in 1 .. Len(t) PROVE t[i] = q[i + 1] /\ i + 1 \in 1 .. Len(q)
  BY <1>1
<1>3. ASSUME NEW x \in Elements(q) PROVE x \in Elements(t) \/ x = q[1]
  <2>1. PICK i \in 1 .. Len(q) : x = q[i]
    BY DEF Elements
  <2>2. CASE i = 1
    BY <2>1, <2>2
  <2>3. CASE i # 1
    <3>1. i - 1 \in 1 .. Len(t) /\ (i - 1) + 1 = i
      BY <1>1, <2>3
    <3>2. t[i - 1] = x
      BY <1>2, <2>1, <3>1
    <3> QED BY <3>1, <3>2 DEF Elements
  <2> QED BY <2>2, <2>3
<1>4. ASSUME NEW x \in Elements(t) PROVE x \in Elements(q)
  <2>1. PICK i \in 1 .. Len(t) : x = t[i]
    BY DEF Elements
  <2>2. PICK j \in 1 .. Len(q) : x = q[j]
    BY <1>2, <2>1
  <2> QED BY <2>2 DEF Elements
<1>5. q[1] \in Elements(q)
  BY <1>1, Zenon DEF Elements
<1>6. Elements(q) = Elements(t) \union {q[1]}
  BY <1>3, <1>4, <1>5
<1> QED BY <1>1, <1>2, <1>6

\* An empty list holds nothing.
LEMMA NoneLeft ==
  ASSUME NEW q, q = <<>>
  PROVE  Elements(q) = {}
BY DEF Elements

-----------------------------------------------------------------------------
(* The two loops.                                                          *)

\* What the arguments of a call are known to be.
LEMMA Given ==
  ASSUME Arguments
  PROVE  /\ Footage(segments) /\ bytesToFree \in Nat
         /\ \A s, t \in segments : s.camera = t.camera /\ s.start = t.start => s = t
         /\ Candidates \in SUBSET segments /\ Footage(Candidates)
         /\ Expired(segments, limits, Now) \in SUBSET segments
         /\ Bytes(Expired(segments, limits, Now)) \in Nat
         /\ Need = bytesToFree - Bytes(Expired(segments, limits, Now)) /\ Need \in Int
         /\ Pressure(segments, limits, Now, bytesToFree) = Taken(Candidates, Need)
         /\ UnmetBytes(segments, limits, Now, bytesToFree)
              = Max({0, Need - Bytes(Taken(Candidates, Need))})
<1>1. Footage(segments) /\ bytesToFree \in Nat
  BY PlanInputsAssumption DEF Arguments, Footage
<1>2. \A s, t \in segments : s.camera = t.camera /\ s.start = t.start => s = t
  BY PlanInputsAssumption DEF Arguments
<1>3. Candidates \in SUBSET segments /\ Expired(segments, limits, Now) \in SUBSET segments
  BY DEF Candidates, Deletable, Expired
<1>4. Footage(Candidates)
  BY <1>1, <1>3, FootageParts
<1>5. Bytes(Expired(segments, limits, Now)) \in Nat
  BY <1>1, <1>3, BytesOfParts
<1>6. Need = bytesToFree - Bytes(Expired(segments, limits, Now)) /\ Need \in Int
  BY <1>1, <1>5 DEF Need, StillToFree
<1>7. Pressure(segments, limits, Now, bytesToFree) = Taken(Candidates, Need)
  BY PressureIsTaken DEF Candidates, Need
<1>8. UnmetBytes(segments, limits, Now, bytesToFree)
        = Max({0, Need - Bytes(Taken(Candidates, Need))})
  BY <1>7 DEF UnmetBytes, Need
<1> QED BY <1>1, <1>2, <1>3, <1>4, <1>5, <1>6, <1>7, <1>8

\* The greater of zero and a number.
LEMMA MaxOfTwo ==
  ASSUME NEW n \in Int
  PROVE  Max({0, n}) = IF n > 0 THEN n ELSE 0
<1>1. PICK m : m = CHOOSE x \in {0, n} : \A y \in {0, n} : x >= y
  OBVIOUS
<1>2. Max({0, n}) = m
  BY <1>1 DEF Max
<1>3. \E x \in {0, n} : \A y \in {0, n} : x >= y
  <2>1. CASE n > 0
    BY <2>1
  <2>2. CASE ~(n > 0)
    BY <2>2
  <2> QED BY <2>1, <2>2
<1>4. m \in {0, n} /\ \A y \in {0, n} : m >= y
  BY <1>1, <1>3
<1> QED BY <1>2, <1>4

LEMMA InitInv == PlanInit => Inv
<1> SUFFICES ASSUME PlanInit PROVE Inv
  OBVIOUS
<1>1. Arguments
  BY DEF PlanInit, Arguments
<1>2. segments \in Inputs /\ todo = Sorted(segments, IndexOrder)
  BY DEF PlanInit
<1>3. /\ todo \in Seq(segments) /\ Left = segments
      /\ \A i, j \in 1 .. Len(todo) : i < j => todo[i] # todo[j]
  BY <1>2, SortedForIndex DEF Left
<1>4. Classified
  BY <1>3 DEF Classified, PlanInit
<1> QED BY <1>1, <1>4 DEF Inv, PlanInit, PlanIsTheClosedForm

LEMMA ClassifyInv == Inv /\ Classify => Inv'
<1> SUFFICES ASSUME Inv, Classify PROVE Inv'
  OBVIOUS
<1>1. /\ pc = "classify" /\ todo # <<>> /\ todo' = Tail(todo) /\ pc' = pc
      /\ segments' = segments /\ limits' = limits /\ bytesToFree' = bytesToFree
      /\ pressure' = pressure /\ unmet' = unmet
  BY DEF Classify
<1>2. Arguments' /\ Classified
  BY <1>1 DEF Inv, Arguments
<1>3. PICK s : s = Head(todo)
  OBVIOUS
<1>4. IF TimeIsUp(s, limits, Now)
        THEN expired' = expired \union {s} /\ survivors' = survivors
        ELSE survivors' = survivors \union {s} /\ expired' = expired
  BY <1>3 DEF Classify
<1>5. /\ s \in segments /\ todo' \in Seq(segments) /\ Left = Left' \union {s}
      /\ s = todo[1] /\ 1 \in 1 .. Len(todo)
      /\ \A i \in 1 .. Len(todo') : todo'[i] = todo[i + 1] /\ i + 1 \in 1 .. Len(todo)
  <2>1. todo \in Seq(segments)
    BY <1>2 DEF Classified
  <2>2. PICK rest : rest = Tail(todo)
    OBVIOUS
  <2>3. /\ Head(todo) \in segments /\ rest \in Seq(segments)
        /\ Head(todo) = todo[1] /\ 1 \in 1 .. Len(todo)
        /\ \A i \in 1 .. Len(rest) : rest[i] = todo[i + 1] /\ i + 1 \in 1 .. Len(todo)
    BY <1>1, <2>1, <2>2, TailOf
  <2>8. Elements(todo) = Elements(rest) \union {Head(todo)}
    BY <1>1, <2>1, <2>2, TailOf, Zenon
  <2>4. todo' = rest
    BY <1>1, <2>2
  <2>5. Left = Elements(todo) /\ Left' = Elements(todo')
    BY DEF Left
  <2>6. \A i \in 1 .. Len(todo') : todo'[i] = todo[i + 1] /\ i + 1 \in 1 .. Len(todo)
    BY <2>3, <2>4
  <2>7. Left = Left' \union {Head(todo)} /\ todo' \in Seq(segments)
    BY <2>3, <2>4, <2>5, <2>8
  <2> QED BY <1>3, <2>3, <2>6, <2>7, Zenon
<1>6. \A i, j \in 1 .. Len(todo) : i < j => todo[i] # todo[j]
  BY <1>2 DEF Classified
<1>7. ASSUME NEW i \in 1 .. Len(todo'), NEW j \in 1 .. Len(todo'), i < j
      PROVE  todo'[i] # todo'[j]
  <2>1. i + 1 < j + 1
    BY <1>7
  <2> QED BY <1>5, <1>6, <2>1
<1>8. s \notin Left'
  <2> SUFFICES ASSUME NEW i \in 1 .. Len(todo') PROVE todo'[i] # s
    BY DEF Left, Elements
  <2>1. 1 < i + 1
    OBVIOUS
  <2> QED BY <1>5, <1>6, <2>1
<1>9. /\ expired = {x \in segments \ Left : TimeIsUp(x, limits, Now)}
      /\ survivors = {x \in segments \ Left : ~TimeIsUp(x, limits, Now)}
      /\ pressure = {} /\ unmet = 0
  BY <1>2 DEF Classified
<1>10. /\ expired' = {x \in segments \ Left' : TimeIsUp(x, limits, Now)}
       /\ survivors' = {x \in segments \ Left' : ~TimeIsUp(x, limits, Now)}
  BY <1>4, <1>5, <1>8, <1>9
<1>11. Classified'
  BY <1>1, <1>5, <1>7, <1>9, <1>10 DEF Classified
<1> QED BY <1>1, <1>2, <1>11 DEF Inv, PlanIsTheClosedForm

LEMMA SortForPressureInv == Inv /\ SortForPressure => Inv'
<1> SUFFICES ASSUME Inv, SortForPressure PROVE Inv'
  OBVIOUS
<1>1. /\ pc = "classify" /\ todo = <<>>
      /\ remaining' = bytesToFree - Bytes(expired)
      /\ segments' = segments /\ limits' = limits /\ bytesToFree' = bytesToFree
      /\ survivors' = survivors /\ expired' = expired /\ pressure' = pressure /\ unmet' = unmet
  BY DEF SortForPressure
<1>2. Arguments' /\ Arguments /\ Classified
  BY <1>1 DEF Inv, Arguments
<1>3. Left = {}
  BY <1>1, NoneLeft DEF Left
<1>4. /\ expired = Expired(segments, limits, Now) /\ pressure = {} /\ unmet = 0
      /\ {s \in survivors : s.klass \in PressureDeletable} = Candidates
  BY <1>2, <1>3 DEF Classified, Expired, Candidates, Deletable
<1>5. remaining' = Need /\ Need \in Int /\ Footage(Candidates) /\ Candidates \in SUBSET segments
      /\ \A s, t \in segments : s.camera = t.camera /\ s.start = t.start => s = t
  BY <1>1, <1>2, <1>4, Given
<1>6. Candidates' = Candidates /\ Need' = Need
  BY <1>1 DEF Candidates, Need
<1>7. CASE Need > 0
  <2>1. pc' = "take" /\ todo' = Sorted({s \in survivors : s.klass \in PressureDeletable}, GoesBefore)
    BY <1>5, <1>7 DEF SortForPressure
  <2>2. todo' = Sorted(Candidates, GoesBefore)
    BY <1>4, <2>1
  <2>3. \A s, t \in Candidates : s.camera = t.camera /\ s.start = t.start => s = t
    BY <1>5
  <2>4. /\ todo' \in Seq(Candidates) /\ Left' = Candidates
        /\ \A i, j \in 1 .. Len(todo') : i < j => GoesBefore(todo'[i], todo'[j])
    BY <1>5, <2>2, <2>3, SortedForPressure DEF Left
  <2>5. Need - Bytes({}) = Need
    BY <1>5, NoBytes
  <2>6. InLine'
    BY <1>1, <1>4, <1>5, <1>6, <2>4, <2>5 DEF InLine
  <2> QED BY <1>2, <2>1, <2>6 DEF Inv, PlanIsTheClosedForm
<1>8. CASE ~(Need > 0)
  <2>1. pc' = "done"
    BY <1>5, <1>8 DEF SortForPressure
  <2>2. Taken(Candidates, Need) = {}
    <3> SUFFICES ASSUME NEW s \in Taken(Candidates, Need) PROVE FALSE
      OBVIOUS
    <3>1. Bytes(Before(Candidates, s)) < Need /\ Before(Candidates, s) \in SUBSET Candidates
      BY DEF Taken, Before
    <3>2. Bytes(Before(Candidates, s)) \in Nat
      BY <1>5, <3>1, BytesOfParts
    <3> QED BY <1>5, <1>8, <3>1, <3>2
  <2>3. Max({0, Need - Bytes({})}) = 0
    <3>1. Need - Bytes({}) = Need
      BY <1>5, NoBytes
    <3> QED BY <1>5, <1>8, <3>1, MaxOfTwo
  <2>4. /\ expired' = Expired(segments, limits, Now)
        /\ pressure' = Pressure(segments, limits, Now, bytesToFree)
        /\ unmet' = UnmetBytes(segments, limits, Now, bytesToFree)
    BY <1>1, <1>2, <1>4, <2>2, <2>3, Given
  <2>5. PlanIsTheClosedForm'
    BY <1>1, <2>4 DEF PlanIsTheClosedForm
  <2> QED BY <1>2, <2>1, <2>5 DEF Inv
<1> QED BY <1>7, <1>8
LEMMA TakeInv == Inv /\ Take => Inv'
<1> SUFFICES ASSUME Inv, Take PROVE Inv'
  OBVIOUS
<1>1. /\ pc = "take" /\ pc' = pc /\ todo # <<>> /\ remaining > 0 /\ todo' = Tail(todo)
      /\ segments' = segments /\ limits' = limits /\ bytesToFree' = bytesToFree
      /\ survivors' = survivors /\ expired' = expired /\ unmet' = unmet
  BY DEF Take
<1>2. Arguments' /\ Arguments /\ InLine
  BY <1>1 DEF Inv, Arguments
<1>3. PICK s : s = Head(todo)
  OBVIOUS
<1>4. pressure' = pressure \union {s} /\ remaining' = remaining - s.size
  BY <1>3 DEF Take
<1>5. /\ todo \in Seq(Candidates) /\ Left = Candidates \ pressure
      /\ pressure \subseteq Taken(Candidates, Need)
      /\ remaining = Need - Bytes(pressure)
      /\ \A p \in pressure, x \in Left : GoesBefore(p, x)
      /\ \A i, j \in 1 .. Len(todo) : i < j => GoesBefore(todo[i], todo[j])
  BY <1>2 DEF InLine
<1>6. /\ s \in Candidates /\ todo' \in Seq(Candidates) /\ Left = Left' \union {s}
      /\ s = todo[1] /\ 1 \in 1 .. Len(todo)
      /\ \A i \in 1 .. Len(todo') : todo'[i] = todo[i + 1] /\ i + 1 \in 1 .. Len(todo)
  <2>1. todo \in Seq(Candidates)
    BY <1>5
  <2>2. PICK rest : rest = Tail(todo)
    OBVIOUS
  <2>3. /\ Head(todo) \in Candidates /\ rest \in Seq(Candidates)
        /\ Head(todo) = todo[1] /\ 1 \in 1 .. Len(todo)
        /\ \A i \in 1 .. Len(rest) : rest[i] = todo[i + 1] /\ i + 1 \in 1 .. Len(todo)
    BY <1>1, <2>1, <2>2, TailOf
  <2>8. Elements(todo) = Elements(rest) \union {Head(todo)}
    BY <1>1, <2>1, <2>2, TailOf, Zenon
  <2>4. todo' = rest
    BY <1>1, <2>2
  <2>5. Left = Elements(todo) /\ Left' = Elements(todo')
    BY DEF Left
  <2>6. \A i \in 1 .. Len(todo') : todo'[i] = todo[i + 1] /\ i + 1 \in 1 .. Len(todo)
    BY <2>3, <2>4
  <2>7. Left = Left' \union {Head(todo)} /\ todo' \in Seq(Candidates)
    BY <2>3, <2>4, <2>5, <2>8
  <2> QED BY <1>3, <2>3, <2>6, <2>7, Zenon
<1>7. Footage(Candidates) /\ Need \in Int /\ Candidates' = Candidates /\ Need' = Need
  BY <1>1, <1>2, Given DEF Candidates, Need
<1>8. ASSUME NEW x \in Left' PROVE GoesBefore(s, x)
  <2>1. PICK i \in 1 .. Len(todo') : x = todo'[i]
    BY DEF Left, Elements
  <2>2. 1 < i + 1
    OBVIOUS
  <2> QED BY <1>5, <1>6, <2>1, <2>2
<1>9. s \notin Left' /\ s \in Left /\ s \notin pressure
  BY <1>5, <1>6, <1>7, <1>8, PressureOrder
<1>10. Left' = Candidates \ pressure'
  BY <1>4, <1>5, <1>6, <1>9
<1>11. ASSUME NEW i \in 1 .. Len(todo'), NEW j \in 1 .. Len(todo'), i < j
       PROVE  GoesBefore(todo'[i], todo'[j])
  <2>1. i + 1 < j + 1
    BY <1>11
  <2> QED BY <1>5, <1>6, <2>1
<1>12. \A p \in pressure', x \in Left' : GoesBefore(p, x)
  BY <1>4, <1>5, <1>6, <1>8
<1>13. Before(Candidates, s) = pressure
  <2>1. ASSUME NEW x \in Before(Candidates, s) PROVE x \in pressure
    <3>1. x \in Candidates /\ GoesBefore(x, s) /\ ~GoesBefore(s, x) /\ x # s
      BY <1>6, <1>7, PressureOrder DEF Before
    <3> QED BY <1>5, <1>6, <1>8, <3>1
  <2>2. ASSUME NEW x \in pressure PROVE x \in Before(Candidates, s)
    BY <1>5, <1>9 DEF Before, Taken
  <2> QED BY <2>1, <2>2
<1>14. s \in Taken(Candidates, Need) /\ Bytes(pressure) \in Nat
  <2>1. Bytes(pressure) \in Nat
    BY <1>7, <1>13, BytesOfParts DEF Before
  <2>2. Bytes(pressure) < Need
    BY <1>1, <1>5, <1>7, <2>1
  <2> QED BY <1>6, <1>13, <2>1, <2>2 DEF Taken
<1>15. Bytes(pressure') = Bytes(pressure) + s.size
  <2>1. Footage(pressure') /\ pressure' \in SUBSET Candidates
    BY <1>4, <1>5, <1>6, <1>7, FootageParts DEF Taken
  <2>2. s \in pressure' /\ pressure' \ {s} = pressure
    BY <1>4, <1>9
  <2> QED BY <2>1, <2>2, BytesLessOne
<1>16. remaining' = Need - Bytes(pressure')
  <2>1. s.size \in Nat
    BY <1>6, <1>7 DEF Footage
  <2> QED BY <1>4, <1>5, <1>7, <1>14, <1>15, <2>1
<1>17. pressure' \subseteq Taken(Candidates, Need)
  BY <1>4, <1>5, <1>14
<1>18. InLine'
  BY <1>1, <1>2, <1>6, <1>7, <1>10, <1>11, <1>12, <1>16, <1>17 DEF InLine
<1> QED BY <1>1, <1>2, <1>18 DEF Inv, PlanIsTheClosedForm

LEMMA FinishInv == Inv /\ Finish => Inv'
<1> SUFFICES ASSUME Inv, Finish PROVE Inv'
  OBVIOUS
<1>1. /\ pc = "take" /\ pc' = "done" /\ (todo = <<>> \/ remaining <= 0)
      /\ unmet' = Max({0, remaining})
      /\ segments' = segments /\ limits' = limits /\ bytesToFree' = bytesToFree
      /\ expired' = expired /\ pressure' = pressure
  BY DEF Finish
<1>2. Arguments' /\ Arguments /\ InLine
  BY <1>1 DEF Inv, Arguments
<1>3. /\ Footage(Candidates) /\ Need \in Int
      /\ Left = Candidates \ pressure /\ pressure \subseteq Taken(Candidates, Need)
      /\ remaining = Need - Bytes(pressure) /\ expired = Expired(segments, limits, Now)
      /\ \A p \in pressure, x \in Left : GoesBefore(p, x)
  BY <1>2, Given DEF InLine
<1>4. ASSUME NEW s \in Taken(Candidates, Need), s \notin pressure PROVE FALSE
  <2>1. s \in Left /\ s \in Candidates /\ Bytes(Before(Candidates, s)) < Need
    BY <1>3, <1>4 DEF Taken
  <2>2. todo # <<>>
    BY <2>1, NoneLeft DEF Left
  <2>3. pressure \in SUBSET Before(Candidates, s)
    BY <1>3, <2>1 DEF Before, Taken
  <2>4. Before(Candidates, s) \in SUBSET Candidates
    BY DEF Before
  <2>5. Footage(Before(Candidates, s))
    BY <1>3, <2>4, FootageParts
  <2>6. PICK P, B : P = pressure /\ B = Before(Candidates, s)
    OBVIOUS
  <2>7. /\ Bytes(B) \in Nat /\ Bytes(P) \in Nat /\ Bytes(B \ P) \in Nat
        /\ Bytes(B) = Bytes(P) + Bytes(B \ P)
    BY <2>3, <2>5, <2>6, BytesOfParts
  <2> QED BY <1>1, <1>3, <2>1, <2>2, <2>6, <2>7
<1>5. pressure = Taken(Candidates, Need)
  BY <1>3, <1>4
<1>6. /\ pressure' = Pressure(segments, limits, Now, bytesToFree)
      /\ unmet' = UnmetBytes(segments, limits, Now, bytesToFree)
      /\ expired' = Expired(segments, limits, Now)
  BY <1>1, <1>2, <1>3, <1>5, Given
<1>7. PlanIsTheClosedForm'
  BY <1>1, <1>6 DEF PlanIsTheClosedForm
<1> QED BY <1>1, <1>2, <1>7 DEF Inv

LEMMA NextInv == Inv /\ [PlanNext]_planVars => Inv'
<1>1. ASSUME Inv, UNCHANGED planVars PROVE Inv'
  BY <1>1 DEF Inv, planVars, Arguments, Classified, InLine, PlanIsTheClosedForm, Left, Candidates, Need
<1> QED
  BY <1>1, ClassifyInv, SortForPressureInv, TakeInv, FinishInv DEF PlanNext, Returned

LEMMA InvHolds == PlanSpec => []Inv
BY InitInv, NextInv, PTL DEF PlanSpec

-----------------------------------------------------------------------------
(* What the plan is worth.                                                 *)

\* For every index, policy and pressure: the lists and the unmet bytes that the
\* loops of plan_deletions return are the closed forms of Retention.tla.
THEOREM LoopsComputeThePlan == PlanSpec => []PlanIsTheClosedForm
<1>1. Inv => PlanIsTheClosedForm
  BY DEF Inv
<1> QED BY <1>1, InvHolds, PTL

\* Of two deletable files the plan never takes the later and keeps the earlier:
\* continuous goes before motion, and in a class the oldest goes first.
THEOREM OldestGoesFirst == PlanSpec => []OldestContinuousGoesFirst
<1>1. ASSUME Inv, pc = "done", NEW kept \in segments \ (expired \union pressure),
             NEW taken \in pressure
      PROVE  /\ kept.klass = "continuous" => taken.klass = "continuous"
             /\ kept.klass = taken.klass => taken.start <= kept.start
  <2>1. /\ expired = Expired(segments, limits, Now) /\ pressure = Taken(Candidates, Need)
        /\ Footage(Candidates) /\ Need \in Int
    BY <1>1, Given DEF Inv, PlanIsTheClosedForm
  <2>2. taken \in Candidates /\ taken.klass \in PressureDeletable
    BY <2>1 DEF Taken, Candidates, Deletable
  <2>3. SUFFICES ASSUME kept.klass = "continuous" \/ kept.klass = taken.klass
                 PROVE  /\ kept.klass = "continuous" => taken.klass = "continuous"
                        /\ kept.klass = taken.klass => taken.start <= kept.start
    OBVIOUS
  <2>4. kept \in Candidates
    BY <2>1, <2>2, <2>3 DEF Candidates, Deletable, PressureDeletable
  <2>5. ~GoesBefore(kept, taken)
    BY <2>1, <2>4, TakenFromTheFront
  <2>6. kept.start \in Nat /\ taken.start \in Nat
    BY <2>1, <2>2, <2>4 DEF Footage
  <2> QED BY <2>2, <2>5, <2>6 DEF GoesBefore, ClassIndex, PressureDeletable
<1>2. Inv => OldestContinuousGoesFirst
  BY <1>1 DEF OldestContinuousGoesFirst
<1> QED BY <1>2, InvHolds, PTL

\* The plan frees what was asked or says exactly how much is missing, and then
\* only event and favorite files are left; without its last file it falls short.
THEOREM NeitherMoreNorLess == PlanSpec => []FreesJustEnough
<1>1. ASSUME Inv, pc = "done"
      PROVE  /\ Bytes(expired \union pressure) + unmet >= bytesToFree
             /\ unmet > 0 => /\ Bytes(expired \union pressure) + unmet = bytesToFree
                             /\ \A s \in segments \ (expired \union pressure) :
                                  s.klass \in {"event", "favorite"}
             /\ \A s \in pressure :
                  (\A t \in pressure : t = s \/ GoesBefore(t, s)) =>
                    Bytes(expired \union (pressure \ {s})) < bytesToFree
  <2> DEFINE P == Taken(Candidates, Need)
             E == Expired(segments, limits, Now)
  <2>1. /\ expired = E /\ pressure = P /\ unmet = Max({0, Need - Bytes(P)})
        /\ Footage(Candidates) /\ Footage(segments) /\ Need \in Int /\ bytesToFree \in Nat
        /\ Need = bytesToFree - Bytes(E) /\ E \in SUBSET segments
        /\ Candidates \in SUBSET segments
    BY <1>1, Given DEF Inv, PlanIsTheClosedForm
  <2>2. P \in SUBSET Candidates /\ E \intersect Candidates = {}
    BY DEF Taken, Candidates, Deletable
  <2>3. \A s \in segments : s \in E \/ s \in Candidates \/ s.klass \in {"event", "favorite"}
    <3>1. \A s \in segments : s.klass \in SegmentClass
      BY <1>1, PlanInputsAssumption DEF Inv, Arguments
    <3> QED BY <3>1 DEF Candidates, Deletable, PressureDeletable, SegmentClass
  <2>4. Bytes(P) < Need => P = Candidates
    <3>1. Bytes(P) \in Nat
      BY <2>1, <2>2, BytesOfParts
    <3>2. P # Candidates => Bytes(P) >= Need
      BY <2>1, TakenIsEnough
    <3> QED BY <2>1, <3>1, <3>2
  <2>5. \A s \in P : (\A t \in P : t = s \/ GoesBefore(t, s)) => Bytes(P \ {s}) < Need
    BY <2>1, TakenIsNoMore
  <2>6. ASSUME NEW A \in SUBSET P
        PROVE  Bytes(E \union A) = Bytes(E) + Bytes(A) /\ Bytes(E) \in Nat /\ Bytes(A) \in Nat
    <3>1. E \union A \in SUBSET segments /\ (E \union A) \ E = A /\ E \in SUBSET (E \union A)
      BY <2>1, <2>2
    <3>2. Footage(E \union A)
      BY <2>1, <3>1, FootageParts
    <3>3. PICK U : U = E \union A
      OBVIOUS
    <3>4. /\ Bytes(E) \in Nat /\ Bytes(U \ E) \in Nat /\ Bytes(U) = Bytes(E) + Bytes(U \ E)
      BY <3>1, <3>2, <3>3, BytesOfParts
    <3> QED BY <3>1, <3>3, <3>4
  <2> HIDE DEF P, E
  <2>a. /\ Bytes(E \union P) = Bytes(E) + Bytes(P)
        /\ Bytes(E) \in Nat /\ Bytes(P) \in Nat
    BY <2>6
  <2>7. unmet = IF Need - Bytes(P) > 0 THEN Need - Bytes(P) ELSE 0
    <3>1. PICK n : n = Need - Bytes(P)
      OBVIOUS
    <3>2. n \in Int /\ unmet = Max({0, n})
      BY <2>1, <2>a, <3>1
    <3> QED BY <3>1, <3>2, MaxOfTwo
  <2>8. Bytes(expired \union pressure) + unmet >= bytesToFree
    BY <2>1, <2>a, <2>7
  <2>9. ASSUME unmet > 0
        PROVE  /\ Bytes(expired \union pressure) + unmet = bytesToFree
               /\ \A s \in segments \ (expired \union pressure) : s.klass \in {"event", "favorite"}
    <3>1. Bytes(P) < Need
      BY <2>1, <2>a, <2>7, <2>9
    <3>2. \A s \in segments \ (expired \union pressure) : s.klass \in {"event", "favorite"}
      BY <2>1, <2>3, <2>4, <3>1
    <3>3. Bytes(expired \union pressure) + unmet = bytesToFree
      BY <2>1, <2>a, <2>7, <3>1
    <3> QED BY <3>2, <3>3
  <2>10. ASSUME NEW s \in pressure, \A t \in pressure : t = s \/ GoesBefore(t, s)
         PROVE  Bytes(expired \union (pressure \ {s})) < bytesToFree
    <3>1. Bytes(P \ {s}) < Need /\ P \ {s} \in SUBSET P
      BY <2>1, <2>5, <2>10
    <3>2. PICK A : A = P \ {s}
      OBVIOUS
    <3>3. Bytes(E \union A) = Bytes(E) + Bytes(A) /\ Bytes(E) \in Nat /\ Bytes(A) \in Nat
      BY <2>6, <3>1, <3>2
    <3> QED BY <2>1, <3>1, <3>2, <3>3
  <2> QED BY <2>8, <2>9, <2>10
<1>2. Inv => FreesJustEnough
  BY <1>1 DEF FreesJustEnough
<1> QED BY <1>2, InvHolds, PTL
=============================================================================
