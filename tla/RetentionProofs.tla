--------------------------- MODULE RetentionProofs ---------------------------
(***************************************************************************)
(* What holds of the planner's operators for every index and every policy. *)
(* Bytes is a fold; the folds of the community modules are CHOOSEn         *)
(* functions over all subsets, which the provers reach once the sum is     *)
(* known to exist (SumExists), to be one (OneSum) and to take its terms in *)
(* any order (WeighAdds).  Every "induction" over a finite set is made by  *)
(* its least counterexample (LeastSubset).                                 *)
(***************************************************************************)
EXTENDS Retention, FiniteSetTheorems, TLAPS

-----------------------------------------------------------------------------
(* Sums over finite sets.                                                  *)

\* The element a fold over S takes first.
Any(S) == CHOOSE x \in S : TRUE

\* g sums the weights w over S and over each of its subsets.
IsSum(g, w, S) ==
  g = [s \in SUBSET S |-> IF s = {} THEN 0 ELSE w[Any(s)] + g[s \ {Any(s)}]]

Weigh(w, S) == (CHOOSE g : IsSum(g, w, S))[S]

\* Of a family of subsets of a finite set, one contains no other.
LEMMA LeastSubset ==
  ASSUME NEW S, IsFiniteSet(S), NEW Bad \in SUBSET SUBSET S, Bad # {}
  PROVE  \E b \in Bad : \A c \in Bad : c \subseteq b => c = b
<1>1. Bad \subseteq FiniteSubsetsOf(S)
  BY FS_Subset DEF FiniteSubsetsOf
<1>2. PICK b \in Bad : \A c \in Bad : <<c, b>> \notin StrictSubsetOrdering(S)
  BY <1>1, FS_StrictSubsetOrderingWellFounded, WFMin
<1>3. ASSUME NEW c \in Bad, c \subseteq b PROVE c = b
  BY <1>2, <1>3 DEF StrictSubsetOrdering
<1> QED BY <1>3

\* Any picks one of the set.
LEMMA AnyIn == ASSUME NEW S, S # {} PROVE Any(S) \in S
BY DEF Any

\* There is one sum at most, whatever the set it was extended to.
LEMMA OneSum ==
  ASSUME NEW S, IsFiniteSet(S), NEW T, S \subseteq T, NEW R, S \subseteq R, NEW w, NEW g, NEW h,
         IsSum(g, w, T), IsSum(h, w, R)
  PROVE  g[S] = h[S]
<1> DEFINE Bad == {s \in SUBSET S : g[s] # h[s]}
<1> SUFFICES ASSUME g[S] # h[S] PROVE FALSE
  OBVIOUS
<1>1. PICK b \in Bad : \A c \in Bad : c \subseteq b => c = b
  <2>1. S \in Bad /\ Bad \in SUBSET SUBSET S
    OBVIOUS
  <2> HIDE DEF Bad
  <2> QED BY <2>1, LeastSubset
<1>2. b \in SUBSET T /\ b \in SUBSET R /\ b \in SUBSET S /\ g[b] # h[b]
  OBVIOUS
<1>3. g[b] = (IF b = {} THEN 0 ELSE w[Any(b)] + g[b \ {Any(b)}])
  BY <1>2 DEF IsSum
<1>4. h[b] = (IF b = {} THEN 0 ELSE w[Any(b)] + h[b \ {Any(b)}])
  BY <1>2 DEF IsSum
<1>5. b # {} /\ b \ {Any(b)} \in SUBSET S /\ b \ {Any(b)} # b
  BY <1>2, <1>3, <1>4, AnyIn
<1>6. b \ {Any(b)} \notin Bad
  BY <1>1, <1>5
<1> QED BY <1>2, <1>3, <1>4, <1>5, <1>6

\* The sum of a set from the sum of a smaller one.
LEMMA SumStep ==
  ASSUME NEW S, IsFiniteSet(S), S # {}, NEW w, NEW g, NEW h, IsSum(g, w, S),
         IsSum(h, w, S \ {Any(S)})
  PROVE  g[S] = w[Any(S)] + h[S \ {Any(S)}]
<1>1. g[S] = w[Any(S)] + g[S \ {Any(S)}]
  BY DEF IsSum
<1>2. IsFiniteSet(S \ {Any(S)})
  BY FS_RemoveElement
<1>3. g[S \ {Any(S)}] = h[S \ {Any(S)}]
  BY <1>2, OneSum
<1> QED BY <1>1, <1>3

\* A finite set has a sum: the least subset without one has it all the same.
LEMMA SumExists ==
  ASSUME NEW S, IsFiniteSet(S), NEW w
  PROVE  \E g : IsSum(g, w, S)
<1> DEFINE Bad == {s \in SUBSET S : ~ \E g : IsSum(g, w, s)}
<1> SUFFICES ASSUME ~ \E g : IsSum(g, w, S) PROVE FALSE
  OBVIOUS
<1>1. PICK b \in Bad : \A c \in Bad : c \subseteq b => c = b
  <2>1. S \in Bad /\ Bad \in SUBSET SUBSET S
    OBVIOUS
  <2> HIDE DEF Bad
  <2> QED BY <2>1, LeastSubset
<1>2. ASSUME NEW s \in SUBSET b, s # b PROVE \E g : IsSum(g, w, s)
  BY <1>1, <1>2
<1>3. ASSUME NEW s \in SUBSET b, s # b PROVE IsSum(CHOOSE g : IsSum(g, w, s), w, s)
  BY <1>2, <1>3
<1>4. b \in SUBSET S /\ ~ \E g : IsSum(g, w, b)
  OBVIOUS
<1> HIDE DEF Bad
<1> DEFINE g == [s \in SUBSET b |-> IF s = {} THEN 0
                                    ELSE w[Any(s)] + Weigh(w, s \ {Any(s)})]
<1>5. ASSUME NEW s \in SUBSET b, s # b PROVE g[s] = Weigh(w, s)
  <2>1. IsSum(CHOOSE h : IsSum(h, w, s), w, s) /\ IsFiniteSet(s)
    BY <1>3, <1>4, <1>5, FS_Subset
  <2>2. PICK h : h = CHOOSE f : IsSum(f, w, s)
    OBVIOUS
  <2>3. IsSum(h, w, s) /\ Weigh(w, s) = h[s]
    BY <2>1, <2>2 DEF Weigh
  <2>4. CASE s = {}
    BY <2>3, <2>4 DEF IsSum
  <2>5. CASE s # {}
    <3>1. s \ {Any(s)} \in SUBSET b /\ s \ {Any(s)} # b
      BY <1>5, <2>5, AnyIn
    <3>2. PICK k : k = CHOOSE f : IsSum(f, w, s \ {Any(s)})
      OBVIOUS
    <3>3. IsSum(k, w, s \ {Any(s)}) /\ Weigh(w, s \ {Any(s)}) = k[s \ {Any(s)}]
      BY <1>3, <3>1, <3>2 DEF Weigh
    <3>4. h[s] = w[Any(s)] + k[s \ {Any(s)}]
      BY <2>1, <2>3, <2>5, <3>3, SumStep
    <3> QED BY <2>3, <2>5, <3>3, <3>4
  <2> QED BY <2>4, <2>5
<1>6. ASSUME NEW s \in SUBSET b
      PROVE g[s] = IF s = {} THEN 0 ELSE w[Any(s)] + g[s \ {Any(s)}]
  <2>1. CASE s = {}
    BY <2>1
  <2>2. CASE s # {}
    <3>1. s \ {Any(s)} \in SUBSET b /\ s \ {Any(s)} # b
      BY <1>6, <2>2, AnyIn
    <3>2. g[s \ {Any(s)}] = Weigh(w, s \ {Any(s)})
      BY <1>5, <3>1
    <3>3. g[s] = w[Any(s)] + Weigh(w, s \ {Any(s)})
      BY <2>2
    <3> QED BY <2>2, <3>2, <3>3
  <2> QED BY <2>1, <2>2
<1>7. g = [s \in SUBSET b |-> IF s = {} THEN 0 ELSE w[Any(s)] + g[s \ {Any(s)}]]
  <2>1. g = [s \in SUBSET b |-> g[s]]
    OBVIOUS
  <2> HIDE DEF g
  <2> QED BY <1>6, <2>1
<1> HIDE DEF g
<1> QED BY <1>4, <1>7 DEF IsSum

\* Whatever satisfies the equations of the sum is the sum.
LEMMA WeighIs ==
  ASSUME NEW S, IsFiniteSet(S), NEW w, NEW g, IsSum(g, w, S)
  PROVE  Weigh(w, S) = g[S]
<1>1. PICK h : h = CHOOSE f : IsSum(f, w, S)
  OBVIOUS
<1>2. IsSum(h, w, S) /\ Weigh(w, S) = h[S]
  BY <1>1 DEF Weigh
<1> QED BY <1>2, OneSum

\* The recursion that a fold makes.
LEMMA WeighStep ==
  ASSUME NEW S, IsFiniteSet(S), NEW w
  PROVE  Weigh(w, S) = IF S = {} THEN 0 ELSE w[Any(S)] + Weigh(w, S \ {Any(S)})
<1>1. PICK g : IsSum(g, w, S)
  BY SumExists
<1>2. Weigh(w, S) = g[S]
  BY <1>1, WeighIs
<1>3. CASE S = {}
  BY <1>1, <1>2, <1>3 DEF IsSum
<1>4. CASE S # {}
  <2>1. IsFiniteSet(S \ {Any(S)})
    BY FS_RemoveElement
  <2>2. PICK h : IsSum(h, w, S \ {Any(S)})
    BY <2>1, SumExists
  <2>3. Weigh(w, S \ {Any(S)}) = h[S \ {Any(S)}]
    BY <2>1, <2>2, WeighIs
  <2>4. g[S] = w[Any(S)] + h[S \ {Any(S)}]
    BY <1>1, <1>4, <2>2, SumStep
  <2> QED BY <1>2, <1>4, <2>3, <2>4
<1> QED BY <1>3, <1>4

\* Natural weights have a natural sum.
LEMMA WeighNat ==
  ASSUME NEW S, IsFiniteSet(S), NEW w, \A x \in S : w[x] \in Nat
  PROVE  Weigh(w, S) \in Nat
<1> DEFINE Bad == {s \in SUBSET S : Weigh(w, s) \notin Nat}
<1> SUFFICES ASSUME Weigh(w, S) \notin Nat PROVE FALSE
  OBVIOUS
<1>1. PICK b \in Bad : \A c \in Bad : c \subseteq b => c = b
  <2>1. S \in Bad /\ Bad \in SUBSET SUBSET S
    OBVIOUS
  <2> HIDE DEF Bad
  <2> QED BY <2>1, LeastSubset
<1>2. b \in SUBSET S /\ Weigh(w, b) \notin Nat /\ IsFiniteSet(b)
  BY FS_Subset
<1>3. Weigh(w, b) = IF b = {} THEN 0 ELSE w[Any(b)] + Weigh(w, b \ {Any(b)})
  BY <1>2, WeighStep
<1>4. b # {} /\ Any(b) \in b
  BY <1>2, <1>3, AnyIn
<1>5. b \ {Any(b)} \notin Bad /\ b \ {Any(b)} \in SUBSET S
  BY <1>1, <1>2, <1>4
<1>6. Weigh(w, b \ {Any(b)}) \in Nat
  BY <1>5
<1>7. w[Any(b)] \in Nat
  BY <1>2, <1>4
<1> HIDE DEF Bad
<1> QED BY <1>2, <1>3, <1>4, <1>6, <1>7

\* A sum may take any of its terms first, not only the one the fold takes.
LEMMA WeighAdds ==
  ASSUME NEW S, IsFiniteSet(S), NEW w, \A x \in S : w[x] \in Nat, NEW y \in S
  PROVE  Weigh(w, S) = w[y] + Weigh(w, S \ {y})
<1> DEFINE Bad == {s \in SUBSET S : \E x \in s : Weigh(w, s) # w[x] + Weigh(w, s \ {x})}
<1> SUFFICES ASSUME Weigh(w, S) # w[y] + Weigh(w, S \ {y}) PROVE FALSE
  OBVIOUS
<1>1. PICK b \in Bad : \A c \in Bad : c \subseteq b => c = b
  <2>1. S \in Bad /\ Bad \in SUBSET SUBSET S
    OBVIOUS
  <2> HIDE DEF Bad
  <2> QED BY <2>1, LeastSubset
<1>2. b \in SUBSET S /\ IsFiniteSet(b)
  BY FS_Subset
<1>3. PICK x \in b : Weigh(w, b) # w[x] + Weigh(w, b \ {x})
  OBVIOUS
<1>4. ASSUME NEW c \in SUBSET b, c # b, NEW z \in c
      PROVE  Weigh(w, c) = w[z] + Weigh(w, c \ {z})
  <2>1. c \notin Bad /\ c \in SUBSET S
    BY <1>1, <1>2, <1>4
  <2> QED BY <2>1
<1> HIDE DEF Bad
<1>5. PICK a : a = Any(b)
  OBVIOUS
<1>6. a \in b /\ Weigh(w, b) = w[a] + Weigh(w, b \ {a})
  BY <1>2, <1>3, <1>5, AnyIn, WeighStep
<1>7. a # x
  BY <1>3, <1>6
<1>8. Weigh(w, b \ {a}) = w[x] + Weigh(w, (b \ {a}) \ {x})
  <2>1. b \ {a} \in SUBSET b /\ b \ {a} # b /\ x \in b \ {a}
    BY <1>6, <1>7
  <2> QED BY <2>1, <1>4
<1>9. Weigh(w, b \ {x}) = w[a] + Weigh(w, (b \ {x}) \ {a})
  <2>1. b \ {x} \in SUBSET b /\ b \ {x} # b /\ a \in b \ {x}
    BY <1>6, <1>7
  <2> QED BY <2>1, <1>4
<1>10. (b \ {a}) \ {x} = (b \ {x}) \ {a}
  OBVIOUS
<1>11. Weigh(w, (b \ {a}) \ {x}) \in Nat
  <2>1. IsFiniteSet((b \ {a}) \ {x}) /\ \A z \in (b \ {a}) \ {x} : w[z] \in Nat
    BY <1>2, FS_RemoveElement
  <2> QED BY <2>1, WeighNat
<1>12. w[a] \in Nat /\ w[x] \in Nat
  BY <1>2, <1>6
<1>13. PICK q : q = Weigh(w, (b \ {a}) \ {x})
  OBVIOUS
<1>14. Weigh(w, b \ {a}) = w[x] + q /\ Weigh(w, b \ {x}) = w[a] + q /\ q \in Nat
  <2>1. Weigh(w, b \ {a}) = w[x] + q
    BY <1>8, <1>13
  <2>2. Weigh(w, b \ {x}) = w[a] + q
    BY <1>9, <1>10, <1>13, Zenon
  <2> QED BY <2>1, <2>2, <1>11, <1>13
<1> QED BY <1>3, <1>6, <1>12, <1>14

\* The sum of a set is that of a part and that of the rest.
LEMMA WeighSplits ==
  ASSUME NEW S, IsFiniteSet(S), NEW w, \A x \in S : w[x] \in Nat, NEW A \in SUBSET S
  PROVE  Weigh(w, S) = Weigh(w, A) + Weigh(w, S \ A)
<1> DEFINE Bad == {s \in SUBSET A : Weigh(w, S) # Weigh(w, s) + Weigh(w, S \ s)}
<1> SUFFICES ASSUME Weigh(w, S) # Weigh(w, A) + Weigh(w, S \ A) PROVE FALSE
  OBVIOUS
<1>1. PICK b \in Bad : \A c \in Bad : c \subseteq b => c = b
  <2>1. A \in Bad /\ Bad \in SUBSET SUBSET A /\ IsFiniteSet(A)
    BY FS_Subset
  <2> HIDE DEF Bad
  <2> QED BY <2>1, LeastSubset
<1>2. b \in SUBSET S /\ IsFiniteSet(b) /\ IsFiniteSet(S \ b)
      /\ Weigh(w, S) # Weigh(w, b) + Weigh(w, S \ b)
  BY FS_Subset
<1>3. b # {}
  <2>1. Weigh(w, {}) = 0 /\ S \ {} = S
    BY FS_EmptySet, WeighStep
  <2>2. Weigh(w, S) \in Nat
    BY WeighNat
  <2> QED BY <1>2, <2>1, <2>2
<1>4. PICK y : y \in b
  BY <1>3
<1>5. b \ {y} \notin Bad /\ b \ {y} \in SUBSET A
  BY <1>1, <1>4
<1>6. Weigh(w, S) = Weigh(w, b \ {y}) + Weigh(w, S \ (b \ {y}))
  BY <1>5
<1> HIDE DEF Bad
<1>7. Weigh(w, b) = w[y] + Weigh(w, b \ {y})
  BY <1>2, <1>4, WeighAdds
<1>8. Weigh(w, S \ (b \ {y})) = w[y] + Weigh(w, S \ b)
  <2>1. y \in S \ (b \ {y}) /\ (S \ (b \ {y})) \ {y} = S \ b /\ S \ (b \ {y}) \in SUBSET S
    BY <1>2, <1>4
  <2>2. IsFiniteSet(S \ (b \ {y}))
    BY <2>1, FS_Subset
  <2>3. \A x \in S \ (b \ {y}) : w[x] \in Nat
    OBVIOUS
  <2> QED BY <2>1, <2>2, <2>3, WeighAdds
<1>9. w[y] \in Nat /\ Weigh(w, b \ {y}) \in Nat /\ Weigh(w, S \ b) \in Nat
  <2>1. IsFiniteSet(b \ {y}) /\ b \ {y} \in SUBSET S
    BY <1>2, FS_RemoveElement
  <2>2. Weigh(w, b \ {y}) \in Nat
    BY <2>1, WeighNat
  <2>3. Weigh(w, S \ b) \in Nat
    BY <1>2, WeighNat
  <2> QED BY <1>2, <1>4, <2>2, <2>3
<1> QED BY <1>2, <1>6, <1>7, <1>8, <1>9

\* A part weighs no more than the whole.
LEMMA WeighGrows ==
  ASSUME NEW S, IsFiniteSet(S), NEW w, \A x \in S : w[x] \in Nat, NEW A \in SUBSET S
  PROVE  Weigh(w, A) <= Weigh(w, S)
<1>1. IsFiniteSet(A) /\ IsFiniteSet(S \ A)
  BY FS_Subset
<1>2. Weigh(w, A) \in Nat
  BY <1>1, WeighNat
<1>3. Weigh(w, S \ A) \in Nat
  BY <1>1, WeighNat
<1> QED BY <1>2, <1>3, WeighSplits

\* A sum does not depend on how the elements are called.
LEMMA WeighRenamed ==
  ASSUME NEW S, IsFiniteSet(S), NEW w, \A x \in S : w[x] \in Nat,
         NEW f, NEW v, \A x \in S : v[f[x]] = w[x],
         \A x \in S, y \in S : f[x] = f[y] => x = y
  PROVE  Weigh(v, {f[x] : x \in S}) = Weigh(w, S)
<1> DEFINE Image(s) == {f[x] : x \in s}
           Bad == {s \in SUBSET S : Weigh(v, Image(s)) # Weigh(w, s)}
<1> SUFFICES ASSUME Weigh(v, Image(S)) # Weigh(w, S) PROVE FALSE
  OBVIOUS
<1>1. PICK b \in Bad : \A c \in Bad : c \subseteq b => c = b
  <2>1. S \in Bad /\ Bad \in SUBSET SUBSET S
    OBVIOUS
  <2> HIDE DEF Bad
  <2> QED BY <2>1, LeastSubset
<1>2. b \in SUBSET S /\ IsFiniteSet(b) /\ Weigh(v, Image(b)) # Weigh(w, b)
  BY FS_Subset
<1>3. b # {}
  <2>1. ASSUME b = {} PROVE Image(b) = {}
    BY <2>1
  <2> QED BY <1>2, <2>1, FS_EmptySet, WeighStep
<1>4. PICK y : y \in b
  BY <1>3
<1>5. b \ {y} \notin Bad /\ b \ {y} \in SUBSET S
  BY <1>1, <1>4
<1>6. Weigh(v, Image(b \ {y})) = Weigh(w, b \ {y})
  BY <1>5
<1> HIDE DEF Bad
<1>7. Weigh(w, b) = w[y] + Weigh(w, b \ {y})
  BY <1>2, <1>4, WeighAdds
<1>8. Weigh(v, Image(b)) = v[f[y]] + Weigh(v, Image(b) \ {f[y]})
  <2>1. IsFiniteSet(Image(b))
    <3> DEFINE g == [x \in b |-> f[x]]
    <3>1. g \in Surjection(b, Image(b))
      BY DEF Surjection
    <3> QED BY <1>2, <3>1, FS_Surjection
  <2>2. \A z \in Image(b) : v[z] \in Nat
    BY <1>2
  <2>3. f[y] \in Image(b)
    BY <1>4
  <2> HIDE DEF Image
  <2> QED BY <2>1, <2>2, <2>3, WeighAdds
<1>9. Image(b) \ {f[y]} = Image(b \ {y})
  BY <1>2, <1>4
<1> HIDE DEF Image
<1> QED BY <1>2, <1>4, <1>6, <1>7, <1>8, <1>9

\* Bytes is such a sum.
LEMMA BytesWeighed ==
  ASSUME NEW S, IsFiniteSet(S), NEW w, \A x \in S : w[x] = x.size
  PROVE  Bytes(S) = Weigh(w, S)
<1>1. Bytes(S) = (CHOOSE g : g = [s \in SUBSET S |-> IF s = {} THEN 0
                                   ELSE Any(s).size + g[s \ {Any(s)}]])[S]
  BY DEF Bytes, MapThenSumSet, MapThenFoldSet, Any
<1>2. ASSUME NEW g, IsSum(g, w, S)
      PROVE  g = [s \in SUBSET S |-> IF s = {} THEN 0 ELSE Any(s).size + g[s \ {Any(s)}]]
  <2>1. \A s \in SUBSET S : s # {} => w[Any(s)] = Any(s).size
    BY AnyIn
  <2> QED BY <1>2, <2>1 DEF IsSum
<1>3. ASSUME NEW g, g = [s \in SUBSET S |-> IF s = {} THEN 0
                                             ELSE Any(s).size + g[s \ {Any(s)}]]
      PROVE  IsSum(g, w, S)
  <2>1. \A s \in SUBSET S : s # {} => w[Any(s)] = Any(s).size
    BY AnyIn
  <2> QED BY <1>3, <2>1 DEF IsSum
<1>4. \E f : IsSum(f, w, S)
  BY SumExists
<1>5. PICK h : h = CHOOSE g : g = [s \in SUBSET S |-> IF s = {} THEN 0
                                   ELSE Any(s).size + g[s \ {Any(s)}]]
  OBVIOUS
<1>6. IsSum(h, w, S)
  BY <1>2, <1>3, <1>4, <1>5
<1> QED BY <1>1, <1>5, <1>6, WeighIs

-----------------------------------------------------------------------------
(* The planner over the rows of an index.                                  *)

\* A finite list of rows as the index holds them.
Footage(S) ==
  /\ IsFiniteSet(S)
  /\ \A s \in S : s.camera \in Nat /\ s.start \in Nat /\ s.size \in Nat

\* A part of footage is footage.
LEMMA FootageParts ==
  ASSUME NEW S, Footage(S), NEW A \in SUBSET S
  PROVE  Footage(A)
BY FS_Subset DEF Footage

\* What a part holds and what the rest holds add up.
LEMMA BytesOfParts ==
  ASSUME NEW S, Footage(S), NEW A \in SUBSET S
  PROVE  /\ Bytes(S) \in Nat /\ Bytes(A) \in Nat /\ Bytes(S \ A) \in Nat
         /\ Bytes(S) = Bytes(A) + Bytes(S \ A)
<1> DEFINE w == [s \in S |-> s.size]
<1>1. IsFiniteSet(S) /\ IsFiniteSet(A) /\ IsFiniteSet(S \ A)
  BY FS_Subset DEF Footage
<1>2. /\ \A s \in S : w[s] \in Nat /\ w[s] = s.size
      /\ \A s \in A : w[s] \in Nat /\ w[s] = s.size
      /\ \A s \in S \ A : w[s] \in Nat /\ w[s] = s.size
  BY DEF Footage
<1> HIDE DEF w
<1>3. Bytes(S) = Weigh(w, S)
  BY <1>1, <1>2, BytesWeighed
<1>4. Bytes(A) = Weigh(w, A)
  BY <1>1, <1>2, BytesWeighed
<1>5. Bytes(S \ A) = Weigh(w, S \ A)
  BY <1>1, <1>2, BytesWeighed
<1>6. Weigh(w, S) = Weigh(w, A) + Weigh(w, S \ A)
  BY <1>1, <1>2, WeighSplits
<1>7. Weigh(w, S) \in Nat
  BY <1>1, <1>2, WeighNat
<1>8. Weigh(w, A) \in Nat
  BY <1>1, <1>2, WeighNat
<1>9. Weigh(w, S \ A) \in Nat
  BY <1>1, <1>2, WeighNat
<1> QED BY <1>3, <1>4, <1>5, <1>6, <1>7, <1>8, <1>9

\* A file counts once.
LEMMA BytesLessOne ==
  ASSUME NEW S, Footage(S), NEW s \in S
  PROVE  Bytes(S) = Bytes(S \ {s}) + s.size
<1> DEFINE w == [x \in S |-> x.size]
<1>1. IsFiniteSet(S) /\ IsFiniteSet(S \ {s})
  BY FS_RemoveElement DEF Footage
<1>2. /\ \A x \in S : w[x] \in Nat /\ w[x] = x.size
      /\ \A x \in S \ {s} : w[x] \in Nat /\ w[x] = x.size
  BY DEF Footage
<1> HIDE DEF w
<1>3. Bytes(S) = Weigh(w, S)
  BY <1>1, <1>2, BytesWeighed
<1>4. Bytes(S \ {s}) = Weigh(w, S \ {s})
  BY <1>1, <1>2, BytesWeighed
<1>5. Weigh(w, S) = w[s] + Weigh(w, S \ {s})
  BY <1>1, <1>2, WeighAdds
<1>6. Weigh(w, S \ {s}) \in Nat
  BY <1>1, <1>2, WeighNat
<1> QED BY <1>2, <1>3, <1>4, <1>5, <1>6

\* Nothing holds nothing.
LEMMA NoBytes == Bytes({}) = 0
<1> DEFINE w == <<>>
<1>1. IsFiniteSet({}) /\ \A s \in {} : w[s] = s.size
  BY FS_EmptySet
<1> HIDE DEF w
<1>2. Bytes({}) = Weigh(w, {})
  BY <1>1, BytesWeighed
<1>3. Weigh(w, {}) = 0
  BY <1>1, WeighStep
<1> QED BY <1>2, <1>3

\* The pressure order is a strict order, total on files that differ in camera or start.
LEMMA PressureOrder ==
  ASSUME NEW S, Footage(S)
  PROVE  /\ \A s \in S : ~GoesBefore(s, s)
         /\ \A s \in S, t \in S, u \in S :
              GoesBefore(s, t) /\ GoesBefore(t, u) => GoesBefore(s, u)
         /\ \A s \in S, t \in S :
              \/ GoesBefore(s, t) \/ GoesBefore(t, s)
              \/ s.camera = t.camera /\ s.start = t.start
<1>1. \A k : ClassIndex(k) \in Nat
  BY DEF ClassIndex
<1>2. ASSUME NEW s \in S, NEW t \in S, NEW u \in S
      PROVE  /\ ~GoesBefore(s, s)
             /\ GoesBefore(s, t) /\ GoesBefore(t, u) => GoesBefore(s, u)
             /\ \/ GoesBefore(s, t) \/ GoesBefore(t, s)
                \/ s.camera = t.camera /\ s.start = t.start
  <2>1. /\ s.camera \in Nat /\ s.start \in Nat /\ t.camera \in Nat /\ t.start \in Nat
        /\ u.camera \in Nat /\ u.start \in Nat
    BY DEF Footage
  <2>2. PICK a, b, c : /\ a = ClassIndex(s.klass) /\ b = ClassIndex(t.klass)
                       /\ c = ClassIndex(u.klass) /\ a \in Nat /\ b \in Nat /\ c \in Nat
    BY <1>1
  <2>3. ~GoesBefore(s, s)
    BY <2>1, <2>2 DEF GoesBefore
  <2>4. GoesBefore(s, t) /\ GoesBefore(t, u) => GoesBefore(s, u)
    BY <2>1, <2>2 DEF GoesBefore
  <2>5. \/ GoesBefore(s, t) \/ GoesBefore(t, s)
        \/ s.camera = t.camera /\ s.start = t.start
    BY <2>1, <2>2 DEF GoesBefore
  <2> QED BY <2>3, <2>4, <2>5
<1> QED BY <1>2

\* What goes before s among the candidates.
Before(D, s) == {t \in D : GoesBefore(t, s)}

\* The later in the order, the more goes before.
LEMMA BeforeGrows ==
  ASSUME NEW D, Footage(D), NEW s \in D, NEW t \in D, GoesBefore(s, t)
  PROVE  /\ Before(D, s) \subseteq Before(D, t) /\ s \in Before(D, t) \ Before(D, s)
         /\ Bytes(Before(D, s)) <= Bytes(Before(D, t))
<1>1. Before(D, s) \in SUBSET Before(D, t) /\ s \in Before(D, t) \ Before(D, s)
  BY PressureOrder DEF Before
<1>2. Footage(Before(D, t))
  BY FootageParts DEF Before
<1>3. /\ Bytes(Before(D, t)) = Bytes(Before(D, s)) + Bytes(Before(D, t) \ Before(D, s))
      /\ Bytes(Before(D, s)) \in Nat /\ Bytes(Before(D, t) \ Before(D, s)) \in Nat
  BY <1>1, <1>2, BytesOfParts
<1>4. Bytes(Before(D, s)) <= Bytes(Before(D, t))
  BY <1>3
<1> QED BY <1>1, <1>4

\* What pressure takes of the candidates D to free need bytes.
Taken(D, need) == {s \in D : Bytes(Before(D, s)) < need}

\* The plan's pressure list is what is taken of the deletable for what is missing.
LEMMA PressureIsTaken ==
  ASSUME NEW S, NEW limits, NEW now, NEW bytesToFree
  PROVE  Pressure(S, limits, now, bytesToFree)
           = Taken(Deletable(S, limits, now), StillToFree(S, limits, now, bytesToFree))
BY DEF Pressure, Taken, Before

\* Nothing is passed over: what goes before a taken file is taken.
LEMMA TakenFromTheFront ==
  ASSUME NEW D, Footage(D), NEW need \in Int, NEW s \in Taken(D, need), NEW t \in D,
         GoesBefore(t, s)
  PROVE  t \in Taken(D, need)
<1>1. s \in D /\ Bytes(Before(D, s)) < need
  BY DEF Taken
<1>2. Bytes(Before(D, t)) <= Bytes(Before(D, s))
  BY <1>1, BeforeGrows
<1>3. \A x \in D : Bytes(Before(D, x)) \in Nat
  BY BytesOfParts DEF Before
<1> QED BY <1>1, <1>2, <1>3 DEF Taken

\* Either everything goes, or enough does: all that goes before the first file
\* that stays is taken.
LEMMA TakenIsEnough ==
  ASSUME NEW D, Footage(D), NEW need \in Int, Taken(D, need) # D
  PROVE  Bytes(Taken(D, need)) >= need
<1> DEFINE T == Taken(D, need)
           Bad == {Before(D, t) : t \in D \ T}
<1>1. Bad # {} /\ Bad \in SUBSET SUBSET D /\ IsFiniteSet(D) /\ T \in SUBSET D
  BY DEF Before, Taken, Footage
<1>2. PICK b \in Bad : \A c \in Bad : c \subseteq b => c = b
  <2> HIDE DEF Bad
  <2> QED BY <1>1, LeastSubset
<1>3. PICK t \in D \ T : b = Before(D, t)
  OBVIOUS
<1>4. ASSUME NEW s \in Before(D, t), s \notin T PROVE FALSE
  <2>1. s \in D /\ GoesBefore(s, t)
    BY DEF Before
  <2>2. Before(D, s) \subseteq Before(D, t) /\ Before(D, s) # Before(D, t)
    BY <2>1, BeforeGrows
  <2>3. Before(D, s) \in Bad
    BY <1>4, <2>1
  <2> QED BY <1>2, <1>3, <2>2, <2>3
<1>5. ~(Bytes(Before(D, t)) < need)
  BY <1>3 DEF Taken
<1>6. Footage(T)
  BY <1>1, FootageParts
<1> HIDE DEF T
<1>7. Before(D, t) \in SUBSET T
  BY <1>4
<1>8. /\ Bytes(T) \in Nat /\ Bytes(Before(D, t)) \in Nat /\ Bytes(T \ Before(D, t)) \in Nat
      /\ Bytes(T) = Bytes(Before(D, t)) + Bytes(T \ Before(D, t))
  BY <1>6, <1>7, BytesOfParts
<1>9. Bytes(T) >= need
  BY <1>5, <1>8
<1> QED BY <1>9 DEF T

\* No more goes than needed: what is taken but its last file falls short.
LEMMA TakenIsNoMore ==
  ASSUME NEW D, Footage(D), NEW need \in Int, NEW s \in Taken(D, need),
         \A t \in Taken(D, need) : t = s \/ GoesBefore(t, s)
  PROVE  Bytes(Taken(D, need) \ {s}) < need
<1>1. s \in D /\ Bytes(Before(D, s)) < need
  BY DEF Taken
<1>2. ~GoesBefore(s, s)
  BY <1>1, PressureOrder
<1>3. \A t \in D : GoesBefore(t, s) => t \in Taken(D, need)
  BY TakenFromTheFront
<1>4. Taken(D, need) \ {s} = Before(D, s)
  BY <1>2, <1>3 DEF Before, Taken
<1> QED BY <1>1, <1>4
=============================================================================
