-------------------------- MODULE FabricRulesProofs --------------------------
(***************************************************************************)
(* What the fabric's algorithms compute for every input: the transfer of   *)
(* assets, the closure of a scene, sorting and the queue, the division of  *)
(* work and of frames, coverage, placement and the packaging of scenes.    *)
(*                                                                         *)
(* Recursive functions, sums and folds are reasoned about by induction in  *)
(* the form the provers take: a set of numbers that holds 0 and, with each *)
(* number, the next one.  A recursion or fold is first shown to exist as a *)
(* function on an interval or on sets of indices, then an invariant is     *)
(* carried along it.                                                       *)
(***************************************************************************)
EXTENDS MCFabricRules, FiniteSetTheorems, SequenceTheorems, WellFoundedInduction, TLAPS

-----------------------------------------------------------------------------
(* Induction and recursion                                                 *)

\* Every set of naturals has a least element, from a relation that is
\* well-founded on them.
LEMMA LeastOf ==
  ASSUME NEW Less, NEW T \in SUBSET Nat, T # {}, IsWellFoundedOn(Less, Nat),
         \A x, y \in Nat : y < x => <<y, x>> \in Less
  PROVE  \E x \in T : \A y \in T : x <= y
<1>1. PICK x \in T : \A y \in T : ~(<<y, x>> \in Less)
  BY WFMin
<1>2. ASSUME NEW y \in T PROVE x <= y
  <2>1. ~(y < x)
    BY <1>1
  <2> QED
    BY <2>1
<1> QED
  BY <1>2

\* Every set of naturals that is not empty has a least element.
LEMMA LeastNatural ==
  ASSUME NEW T \in SUBSET Nat, T # {}
  PROVE  \E x \in T : \A y \in T : x <= y
<1> DEFINE Less == OpToRel(<, Nat)
<1>1. IsWellFoundedOn(Less, Nat)
  BY NatLessThanWellFounded
<1>2. \A x, y \in Nat : y < x => <<y, x>> \in Less
  BY DEF OpToRel
<1> HIDE DEF Less
<1> QED
  BY <1>1, <1>2, LeastOf

\* A set of naturals that holds 0 and the successor of each of its members
\* holds them all.
LEMMA Induction ==
  ASSUME NEW S \in SUBSET Nat, 0 \in S, \A n \in S : n + 1 \in S
  PROVE  S = Nat
<1>1. SUFFICES ASSUME Nat \ S # {} PROVE FALSE
  OBVIOUS
<1>2. PICK x \in Nat \ S : \A y \in Nat \ S : x <= y
  BY <1>1, LeastNatural
<1>3. x # 0 /\ x - 1 \in Nat
  BY <1>2
<1>4. x - 1 \in S
  BY <1>2, <1>3
<1> QED
  BY <1>2, <1>4

\* A family of subsets of a finite set that holds the empty one, and one
\* element more than each of its members, holds the set itself.
LEMMA FiniteInduction ==
  ASSUME NEW S, IsFiniteSet(S), NEW P \in SUBSET SUBSET S, {} \in P,
         \A T \in P : \A x \in S \ T : T \cup {x} \in P
  PROVE  S \in P
<1> DEFINE N == {n \in Nat : \A T \in SUBSET S : Cardinality(T) = n => T \in P}
<1>1. N \in SUBSET Nat
  OBVIOUS
<1>2. 0 \in N
  <2>1. ASSUME NEW T \in SUBSET S, Cardinality(T) = 0 PROVE T \in P
    <3>1. IsFiniteSet(T)
      BY FS_Subset
    <3>2. T = {}
      BY <2>1, <3>1, FS_EmptySet
    <3> QED
      BY <3>2
  <2> QED
    BY <2>1
<1>3. ASSUME NEW n \in N PROVE n + 1 \in N
  <2>1. ASSUME NEW T \in SUBSET S, Cardinality(T) = n + 1 PROVE T \in P
    <3>1. IsFiniteSet(T) /\ n \in Nat
      BY FS_Subset
    <3>2. T # {}
      BY <2>1, <3>1, FS_EmptySet
    <3>3. PICK x \in T : TRUE
      BY <3>2
    <3>a. Cardinality(T \ {x}) = Cardinality(T) - 1
      BY <3>1, <3>3, FS_RemoveElement
    <3>4. Cardinality(T \ {x}) = n
      BY <2>1, <3>1, <3>a
    <3>5. T \ {x} \in P
      BY <3>4, <2>1
    <3>6. (T \ {x}) \cup {x} = T /\ x \in S \ (T \ {x})
      BY <2>1, <3>3
    <3>7. (T \ {x}) \cup {x} \in P
      BY <3>5, <3>6
    <3> QED
      BY <3>6, <3>7
  <2> QED
    BY <2>1
<1> HIDE DEF N
<1>4. N = Nat
  BY <1>1, <1>2, <1>3, Induction
<1>5. Cardinality(S) \in Nat
  BY FS_CardinalityType
<1> QED
  BY <1>4, <1>5 DEF N

\* A recursion of n steps: D[i] is what step i does.
Recursion(g, V, v0, D, n) ==
  g \in [0 .. n -> V] /\ \A i \in 0 .. n : g[i] = IF i = 0 THEN v0 ELSE D[i][g[i - 1]]

\* A recursion over an interval has a solution: what the loops of the code
\* compute is defined.
LEMMA RecursionExists ==
  ASSUME NEW V, NEW v0 \in V, NEW D \in [Nat -> [V -> V]], NEW n \in Nat
  PROVE  \E g : Recursion(g, V, v0, D, n)
<1> DEFINE Sol(g, m) == g \in [0 .. m -> V] /\ \A i \in 0 .. m : g[i] = IF i = 0 THEN v0 ELSE D[i][g[i - 1]]
           N == {m \in Nat : \E g : Sol(g, m)}
<1>1. N \in SUBSET Nat
  OBVIOUS
<1>2. 0 \in N
  <2>1. Sol([i \in 0 .. 0 |-> v0], 0)
    OBVIOUS
  <2> QED
    BY <2>1
<1>3. ASSUME NEW m \in N PROVE m + 1 \in N
  <2>1. PICK g : Sol(g, m)
    OBVIOUS
  <2> DEFINE h == [i \in 0 .. m + 1 |-> IF i = m + 1 THEN D[m + 1][g[m]] ELSE g[i]]
  <2>2. m \in Nat /\ D[m + 1] \in [V -> V] /\ g[m] \in V
    BY <2>1
  <2>3. h \in [0 .. m + 1 -> V]
    BY <2>1, <2>2
  <2>4. ASSUME NEW i \in 0 .. m + 1
        PROVE  h[i] = IF i = 0 THEN v0 ELSE D[i][h[i - 1]]
    <3>1. CASE i = m + 1
      BY <3>1, <2>2
    <3>2. CASE i # m + 1
      <4>1. i \in 0 .. m /\ (i # 0 => i - 1 \in 0 .. m + 1 /\ i - 1 # m + 1)
        BY <3>2, <2>2
      <4> QED
        BY <4>1, <3>2, <2>1
    <3> QED
      BY <3>1, <3>2
  <2>5. Sol(h, m + 1) /\ m + 1 \in Nat
    BY <2>2, <2>3, <2>4
  <2> HIDE DEF Sol, h
  <2> QED
    BY <2>5
<1> HIDE DEF N
<1>4. N = Nat
  BY <1>1, <1>2, <1>3, Induction
<1>5. PICK g : Sol(g, n)
  BY <1>4 DEF N
<1> QED
  BY <1>5 DEF Recursion

-----------------------------------------------------------------------------
(* Sums over finite sets                                                   *)

\* The sum of f over S, chosen element by element as the library does it.
SumOver(f, S) == MapThenSumSet(LAMBDA x : f[x], S)
Chosen(s) == CHOOSE x \in s : TRUE
SumStep(f, g, s) == IF s = {} THEN 0 ELSE f[Chosen(s)] + g[s \ {Chosen(s)}]
SumEquation(f, S, g) == g = [s \in SUBSET S |-> SumStep(f, g, s)]

\* The library's recursion for sums has a solution on a finite set.
LEMMA SumEquationHolds ==
  ASSUME NEW f, NEW S, IsFiniteSet(S)
  PROVE  \E g : SumEquation(f, S, g)
<1> DEFINE Upto(g, n) == \A s \in SUBSET S : Cardinality(s) <= n => g[s] = SumStep(f, g, s)
           N == {n \in Nat : \E g : g = [s \in SUBSET S |-> g[s]] /\ Upto(g, n)}
<1>0. ASSUME NEW s \in SUBSET S
      PROVE  /\ Cardinality(s) \in Nat
             /\ s # {} => s \ {Chosen(s)} \in SUBSET S /\ Cardinality(s \ {Chosen(s)}) = Cardinality(s) - 1
             /\ s = {} <=> Cardinality(s) = 0
  <2>1. IsFiniteSet(s)
    BY FS_Subset
  <2>2. s # {} => Chosen(s) \in s
    BY DEF Chosen
  <2> QED
    BY <2>1, <2>2, FS_CardinalityType, FS_RemoveElement, FS_EmptySet
<1>1. N \in SUBSET Nat
  OBVIOUS
<1>2. 0 \in N
  <2> DEFINE g == [s \in SUBSET S |-> 0]
  <2>1. Upto(g, 0)
    <3>1. ASSUME NEW s \in SUBSET S, Cardinality(s) <= 0 PROVE g[s] = SumStep(f, g, s)
      <4>1. Cardinality(s) \in Nat /\ (s = {} <=> Cardinality(s) = 0)
        BY <1>0
      <4>2. s = {}
        BY <3>1, <4>1
      <4> QED
        BY <4>2 DEF SumStep
    <3> QED
      BY <3>1
  <2> QED
    BY <2>1
<1>3. ASSUME NEW n \in N PROVE n + 1 \in N
  <2>1. PICK g : g = [s \in SUBSET S |-> g[s]] /\ Upto(g, n)
    OBVIOUS
  <2> DEFINE h == [s \in SUBSET S |-> IF Cardinality(s) <= n THEN g[s] ELSE SumStep(f, g, s)]
  <2>2. ASSUME NEW s \in SUBSET S, Cardinality(s) <= n + 1
        PROVE  h[s] = SumStep(f, h, s)
    <3>1. CASE s = {}
      BY <3>1, <2>1, <1>0 DEF SumStep
    <3>2. CASE s # {}
      <4>1. h[s \ {Chosen(s)}] = g[s \ {Chosen(s)}]
        BY <3>2, <2>2, <1>0
      <4>2. SumStep(f, h, s) = SumStep(f, g, s)
        BY <4>1 DEF SumStep
      <4>3. h[s] = SumStep(f, g, s)
        BY <2>1
      <4> QED
        BY <4>2, <4>3
    <3> QED
      BY <3>1, <3>2
  <2>3. Upto(h, n + 1)
    BY <2>2
  <2>4. n + 1 \in Nat
    OBVIOUS
  <2> HIDE DEF Upto
  <2> QED
    BY <2>3, <2>4
<1>4. N = Nat
  <2> HIDE DEF N
  <2> QED
    BY <1>1, <1>2, <1>3, Induction
<1>5. Cardinality(S) \in N
  <2> HIDE DEF N
  <2> QED
    BY <1>4, FS_CardinalityType
<1>6. PICK g : g = [s \in SUBSET S |-> g[s]] /\ Upto(g, Cardinality(S))
  BY <1>5
<1>7. \A s \in SUBSET S : g[s] = SumStep(f, g, s)
  BY <1>6, FS_Subset
<1> QED
  BY <1>6, <1>7 DEF SumEquation

\* Two solutions, over a set and over a larger one, agree on the set.
LEMMA SumUnique ==
  ASSUME NEW f, NEW S, IsFiniteSet(S), NEW R, NEW g, NEW h,
         SumEquation(f, S, g), SumEquation(f, R, h), S \subseteq R
  PROVE  g[S] = h[S]
<1> DEFINE N == {n \in Nat : \A s \in SUBSET S : Cardinality(s) = n => g[s] = h[s]}
<1>1. \A s \in SUBSET S : g[s] = SumStep(f, g, s) /\ h[s] = SumStep(f, h, s)
  BY DEF SumEquation
<1>2. 0 \in N
  <2>1. ASSUME NEW s \in SUBSET S, Cardinality(s) = 0 PROVE g[s] = h[s]
    <3>1. IsFiniteSet(s)
      BY FS_Subset
    <3>2. s = {}
      BY <2>1, <3>1, FS_EmptySet
    <3> QED
      BY <3>2, <1>1 DEF SumStep
  <2> QED
    BY <2>1
<1>3. ASSUME NEW n \in N PROVE n + 1 \in N
  <2>1. ASSUME NEW s \in SUBSET S, Cardinality(s) = n + 1 PROVE g[s] = h[s]
    <3>1. IsFiniteSet(s) /\ Cardinality(s) # 0
      BY <2>1, FS_Subset
    <3>2. s # {}
      BY <3>1, FS_EmptySet
    <3>3. Chosen(s) \in s
      BY <3>2 DEF Chosen
    <3>4. Cardinality(s \ {Chosen(s)}) = Cardinality(s) - 1
      BY <3>1, <3>3, FS_RemoveElement
    <3>5. Cardinality(s \ {Chosen(s)}) = n /\ s \ {Chosen(s)} \in SUBSET S
      BY <3>4, <2>1
    <3>6. g[s \ {Chosen(s)}] = h[s \ {Chosen(s)}]
      BY <3>5
    <3> QED
      BY <3>6, <1>1 DEF SumStep
  <2> QED
    BY <2>1
<1>4. N = Nat
  <2>1. N \in SUBSET Nat
    OBVIOUS
  <2> HIDE DEF N
  <2> QED
    BY <1>2, <1>3, <2>1, Induction
<1>5. Cardinality(S) \in N
  <2> HIDE DEF N
  <2> QED
    BY <1>4, FS_CardinalityType
<1> QED
  BY <1>5

\* The empty sum is 0.
LEMMA SumOfNothing ==
  ASSUME NEW f
  PROVE  SumOver(f, {}) = 0
<1> DEFINE iter == CHOOSE g : SumEquation(f, {}, g)
<1>1. SumEquation(f, {}, iter)
  BY SumEquationHolds, FS_EmptySet
<1>2. SumOver(f, {}) = iter[{}]
  BY DEF SumOver, MapThenSumSet, MapThenFoldSet, SumEquation, SumStep, Chosen
<1> HIDE DEF iter
<1> QED
  BY <1>1, <1>2 DEF SumEquation, SumStep

\* A sum is the chosen element's term and the sum of the rest.
LEMMA SumOfChosen ==
  ASSUME NEW f, NEW S, IsFiniteSet(S), S # {}
  PROVE  Chosen(S) \in S /\ SumOver(f, S) = f[Chosen(S)] + SumOver(f, S \ {Chosen(S)})
<1> DEFINE x == Chosen(S)
           iter == CHOOSE g : SumEquation(f, S, g)
           less == CHOOSE g : SumEquation(f, S \ {x}, g)
<1>1. x \in S
  BY DEF Chosen
<1>2. IsFiniteSet(S \ {x})
  BY FS_RemoveElement
<1>3. SumOver(f, S) = iter[S] /\ SumOver(f, S \ {x}) = less[S \ {x}]
  BY DEF SumOver, MapThenSumSet, MapThenFoldSet, SumEquation, SumStep, Chosen
<1> HIDE DEF x
<1>4. SumEquation(f, S, iter) /\ SumEquation(f, S \ {x}, less)
  BY <1>2, SumEquationHolds
<1> HIDE DEF iter, less
<1>5. less[S \ {x}] = iter[S \ {x}]
  BY <1>2, <1>4, SumUnique
<1>6. iter[S] = f[x] + iter[S \ {x}]
  BY <1>4 DEF SumEquation, SumStep, x
<1> QED
  BY <1>1, <1>3, <1>5, <1>6 DEF x

\* A sum of integers is an integer.
LEMMA SumType ==
  ASSUME NEW S, IsFiniteSet(S), NEW f, \A x \in S : f[x] \in Int
  PROVE  SumOver(f, S) \in Int
<1> DEFINE N == {n \in Nat : \A s \in SUBSET S : Cardinality(s) = n => SumOver(f, s) \in Int}
<1>1. 0 \in N
  <2>1. ASSUME NEW s \in SUBSET S, Cardinality(s) = 0 PROVE SumOver(f, s) \in Int
    <3>1. IsFiniteSet(s)
      BY FS_Subset
    <3>2. s = {}
      BY <2>1, <3>1, FS_EmptySet
    <3> QED
      BY <3>2, SumOfNothing
  <2> QED
    BY <2>1
<1>2. ASSUME NEW n \in N PROVE n + 1 \in N
  <2>1. ASSUME NEW s \in SUBSET S, Cardinality(s) = n + 1 PROVE SumOver(f, s) \in Int
    <3>1. IsFiniteSet(s) /\ Cardinality(s) # 0
      BY <2>1, FS_Subset
    <3>2. s # {}
      BY <3>1, FS_EmptySet
    <3> DEFINE x == Chosen(s)
    <3>3. x \in s /\ SumOver(f, s) = f[x] + SumOver(f, s \ {x})
      BY <3>1, <3>2, SumOfChosen
    <3> HIDE DEF x
    <3>4. Cardinality(s \ {x}) = Cardinality(s) - 1
      BY <3>1, <3>3, FS_RemoveElement
    <3>5. Cardinality(s \ {x}) = n /\ s \ {x} \in SUBSET S
      BY <3>4, <2>1
    <3>6. SumOver(f, s \ {x}) \in Int /\ f[x] \in Int
      BY <3>3, <3>5
    <3> QED
      BY <3>3, <3>6
  <2> QED
    BY <2>1
<1>3. N = Nat
  <2>1. N \in SUBSET Nat
    OBVIOUS
  <2> HIDE DEF N
  <2> QED
    BY <1>1, <1>2, <2>1, Induction
<1>4. Cardinality(S) \in N
  <2> HIDE DEF N
  <2> QED
    BY <1>3, FS_CardinalityType
<1> QED
  BY <1>4

\* A sum is any one element's term and the sum of the rest: the order in
\* which the code adds up does not matter.
LEMMA SumWithout ==
  ASSUME NEW S, IsFiniteSet(S), NEW f, \A y \in S : f[y] \in Int, NEW x \in S
  PROVE  SumOver(f, S) = f[x] + SumOver(f, S \ {x})
<1> DEFINE Splits(s) == \A y \in s : SumOver(f, s) = f[y] + SumOver(f, s \ {y})
           N == {n \in Nat : \A s \in SUBSET S : Cardinality(s) = n => Splits(s)}
<1>0. ASSUME NEW s \in SUBSET S PROVE SumOver(f, s) \in Int
  <2>1. IsFiniteSet(s)
    BY FS_Subset
  <2> QED
    BY <2>1, SumType
<1>1. 0 \in N
  <2>1. ASSUME NEW s \in SUBSET S, Cardinality(s) = 0 PROVE Splits(s)
    <3>1. IsFiniteSet(s)
      BY FS_Subset
    <3>2. s = {}
      BY <2>1, <3>1, FS_EmptySet
    <3> QED
      BY <3>2
  <2> QED
    BY <2>1
<1>2. ASSUME NEW n \in N PROVE n + 1 \in N
  <2>1. ASSUME NEW s \in SUBSET S, Cardinality(s) = n + 1, NEW y \in s
        PROVE  SumOver(f, s) = f[y] + SumOver(f, s \ {y})
    <3>1. IsFiniteSet(s) /\ s # {} /\ n \in Nat
      BY <2>1, FS_Subset
    <3> DEFINE c == Chosen(s)
    <3>2. c \in s /\ SumOver(f, s) = f[c] + SumOver(f, s \ {c})
      BY <3>1, SumOfChosen
    <3> HIDE DEF c
    <3>3. ASSUME NEW z \in s PROVE Splits(s \ {z})
      <4>1. Cardinality(s \ {z}) = Cardinality(s) - 1
        BY <3>1, FS_RemoveElement
      <4>2. Cardinality(s \ {z}) = n /\ s \ {z} \in SUBSET S
        BY <4>1, <2>1, <3>1
      <4> HIDE DEF Splits
      <4> QED
        BY <4>2
    <3>4. CASE y = c
      BY <3>2, <3>4
    <3>5. CASE y # c
      <4>1. SumOver(f, s \ {c}) = f[y] + SumOver(f, (s \ {c}) \ {y})
        BY <3>2, <3>3, <3>5
      <4>2. SumOver(f, s \ {y}) = f[c] + SumOver(f, (s \ {y}) \ {c})
        BY <3>2, <3>3, <3>5
      <4>3. (s \ {c}) \ {y} = (s \ {y}) \ {c} /\ (s \ {c}) \ {y} \in SUBSET S
        OBVIOUS
      <4>4. PICK rest \in Int : rest = SumOver(f, (s \ {c}) \ {y})
        BY <4>3, <1>0
      <4>5. f[c] \in Int /\ f[y] \in Int
        BY <3>2
      <4>6. SumOver(f, s \ {c}) = f[y] + rest /\ SumOver(f, s \ {y}) = f[c] + rest
        BY <4>1, <4>2, <4>3, <4>4
      <4>7. f[c] + (f[y] + rest) = f[y] + (f[c] + rest)
        BY <4>5
      <4> QED
        BY <3>2, <4>6, <4>7
    <3> QED
      BY <3>4, <3>5
  <2> QED
    BY <2>1
<1>3. N = Nat
  <2>1. N \in SUBSET Nat
    OBVIOUS
  <2> HIDE DEF N
  <2> QED
    BY <1>1, <1>2, <2>1, Induction
<1>4. Cardinality(S) \in N
  <2> HIDE DEF N
  <2> QED
    BY <1>3, FS_CardinalityType
<1> QED
  BY <1>4

\* One more element adds its term.
LEMMA SumWith ==
  ASSUME NEW T, IsFiniteSet(T), NEW x, x \notin T, NEW f, \A y \in T \cup {x} : f[y] \in Int
  PROVE  SumOver(f, T \cup {x}) = f[x] + SumOver(f, T)
<1>1. IsFiniteSet(T \cup {x}) /\ (T \cup {x}) \ {x} = T
  BY FS_AddElement
<1> QED
  BY <1>1, SumWithout

-----------------------------------------------------------------------------
(* Least and greatest elements, and bytes                                  *)

\* The least and the greatest of two integers.
LEMMA MinOfTwo ==
  ASSUME NEW a \in Int, NEW b \in Int
  PROVE  /\ Min({a, b}) \in {a, b} /\ Min({a, b}) <= a /\ Min({a, b}) <= b
         /\ Max({a, b}) \in {a, b} /\ Max({a, b}) >= a /\ Max({a, b}) >= b
<1>1. \E x \in {a, b} : \A y \in {a, b} : x <= y
  <2>1. CASE a <= b
    BY <2>1
  <2>2. CASE ~(a <= b)
    BY <2>2
  <2> QED
    BY <2>1, <2>2
<1>2. \E x \in {a, b} : \A y \in {a, b} : x >= y
  <2>1. CASE a >= b
    BY <2>1
  <2>2. CASE ~(a >= b)
    BY <2>2
  <2> QED
    BY <2>1, <2>2
<1>3. Min({a, b}) \in {a, b} /\ \A y \in {a, b} : Min({a, b}) <= y
  BY <1>1 DEF Min
<1>4. Max({a, b}) \in {a, b} /\ \A y \in {a, b} : Max({a, b}) >= y
  BY <1>2 DEF Max
<1> QED
  BY <1>3, <1>4

\* The least of three integers.
LEMMA MinOfThree ==
  ASSUME NEW a \in Int, NEW b \in Int, NEW c \in Int
  PROVE  Min({a, b, c}) \in {a, b, c} /\ \A y \in {a, b, c} : Min({a, b, c}) <= y
<1>1. \E x \in {a, b, c} : \A y \in {a, b, c} : x <= y
  <2>1. CASE a <= b /\ a <= c
    BY <2>1
  <2>2. CASE b <= a /\ b <= c
    BY <2>2
  <2>3. CASE c <= a /\ c <= b
    BY <2>3
  <2> QED
    BY <2>1, <2>2, <2>3
<1> QED
  BY <1>1 DEF Min

\* The chunks that generate_bounded_chunks yields put together are the
\* first count bytes of the stream, however they are cut.
LEMMA ChunksConcatenate ==
  ASSUME NEW stream \in Seq(Byte), NEW count \in Nat
  PROVE  GenerateBoundedChunks(stream, count) =
           SubSeq(stream, 1, IF count <= Len(stream) THEN count ELSE Len(stream))
<1> USE TransferAssumption
<1> DEFINE m == IF count <= Len(stream) THEN count ELSE Len(stream)
           N(k) == Min({ChunkSize, k, Len(stream) - (count - k)})
           G(k) == SubSeq(stream, count - k + 1, m)
           Step(g, k) == IF N(k) <= 0 THEN <<>>
                         ELSE SubSeq(stream, (count - k) + 1, (count - k) + N(k)) \o g[k - N(k)]
           Eqn(g) == g = [k \in 0 .. count |-> Step(g, k)]
           f == CHOOSE g : Eqn(g)
           closed == [k \in 0 .. count |-> G(k)]
<1>1. m \in Nat /\ m <= count /\ m <= Len(stream)
  OBVIOUS
<1>2. ASSUME NEW k \in 0 .. count
      PROVE  /\ N(k) \in Int /\ N(k) <= k /\ N(k) <= Len(stream) - (count - k)
             /\ N(k) <= 0 => k = 0 \/ Len(stream) <= count - k
  <2> DEFINE rest == Len(stream) - (count - k)
  <2>1. ChunkSize \in Int /\ k \in Int /\ rest \in Int /\ ChunkSize > 0 /\ k >= 0
    OBVIOUS
  <2> HIDE DEF rest
  <2>2. /\ Min({ChunkSize, k, rest}) \in {ChunkSize, k, rest}
        /\ \A y \in {ChunkSize, k, rest} : Min({ChunkSize, k, rest}) <= y
    BY <2>1, MinOfThree
  <2>3. /\ Min({ChunkSize, k, rest}) \in Int
        /\ Min({ChunkSize, k, rest}) <= k /\ Min({ChunkSize, k, rest}) <= rest
        /\ Min({ChunkSize, k, rest}) <= 0 => k = 0 \/ rest <= 0
    BY <2>1, <2>2
  <2> QED
    BY <2>3 DEF rest
<1> HIDE DEF N
<1>3. ASSUME NEW k \in 0 .. count, NEW g, N(k) > 0 => g[k - N(k)] = G(k - N(k))
      PROVE  Step(g, k) = G(k)
  <2>1. CASE N(k) <= 0
    <3>1. m < count - k + 1
      BY <2>1, <1>1, <1>2
    <3>2. SubSeq(stream, count - k + 1, m) = <<>>
      BY <3>1, <1>1, SubSeqEmpty
    <3> QED
      BY <2>1, <3>2
  <2>2. CASE N(k) > 0
    <3>1. /\ (count - k) + 1 \in 1 .. Len(stream) + 1
          /\ (count - k) + N(k) \in ((count - k) + 1) - 1 .. Len(stream)
          /\ m \in (count - k) + N(k) .. Len(stream)
      BY <2>2, <1>1, <1>2, SMTT(40)
    <3>2. SubSeq(stream, (count - k) + 1, (count - k) + N(k))
            \o SubSeq(stream, ((count - k) + N(k)) + 1, m) = SubSeq(stream, (count - k) + 1, m)
      BY <3>1, ConcatAdjacentSubSeq
    <3>3. count - (k - N(k)) + 1 = ((count - k) + N(k)) + 1 /\ ~(N(k) <= 0)
      BY <2>2, <1>2
    <3> QED
      BY <2>2, <3>2, <3>3, <1>3
  <2>3. N(k) \in Int
    BY <1>2
  <2>4. N(k) <= 0 \/ N(k) > 0
    BY <2>3
  <2> HIDE DEF Step, G
  <2> QED
    BY <2>1, <2>2, <2>4
<1>4. Eqn(closed)
  <2>1. ASSUME NEW k \in 0 .. count PROVE Step(closed, k) = G(k)
    <3>1. N(k) > 0 => k - N(k) \in 0 .. count
      BY <1>2
    <3>2. N(k) > 0 => closed[k - N(k)] = G(k - N(k))
      BY <3>1
    <3> HIDE DEF closed
    <3> QED
      BY <3>2, <1>3
  <2> QED
    BY <2>1
<1>5. Eqn(f)
  BY <1>4
<1>6. \A k \in 0 .. count : f[k] = Step(f, k)
  BY <1>5
<1> HIDE DEF f, Step, G
<1>7. \A k \in 0 .. count : f[k] = G(k)
  <2> DEFINE Bad == {k \in 0 .. count : f[k] # G(k)}
  <2>1. SUFFICES ASSUME Bad # {} PROVE FALSE
    OBVIOUS
  <2>0. Bad \in SUBSET Nat
    OBVIOUS
  <2> HIDE DEF Bad
  <2>2. PICK k \in Bad : \A y \in Bad : k <= y
    BY <2>0, <2>1, LeastNatural
  <2> USE DEF Bad
  <2>3. N(k) > 0 => f[k - N(k)] = G(k - N(k))
    BY <2>2, <1>2
  <2> QED
    BY <2>2, <2>3, <1>3, <1>6
<1>8. GenerateBoundedChunks(stream, count) = f[count]
  BY DEF GenerateBoundedChunks, f, Step, N
<1> QED
  BY <1>7, <1>8 DEF G

\* A content is a bounded sequence of bytes and never the mark for no file.
LEMMA ContentType ==
  ASSUME NEW c \in Content
  PROVE  c \in Seq(Byte) /\ Len(c) \in 0 .. MaxLen /\ c # NoFile
<1>1. PICK n \in 0 .. MaxLen : c \in [1 .. n -> Byte]
  BY DEF Content
<1> QED
  BY <1>1, TransferAssumption

\* So is a prefix of it.
LEMMA PrefixIsContent ==
  ASSUME NEW c \in Content, NEW n \in 0 .. Len(c)
  PROVE  SubSeq(c, 1, n) \in Content /\ Len(SubSeq(c, 1, n)) = n
<1>1. c \in Seq(Byte) /\ Len(c) \in 0 .. MaxLen /\ MaxLen \in Nat
  BY ContentType, TransferAssumption
<1>2. \A i \in 1 .. n : c[i] \in Byte
  BY <1>1
<1>3. /\ SubSeq(c, 1, n) \in Seq(Byte)
      /\ Len(SubSeq(c, 1, n)) = IF 1 <= n THEN n - 1 + 1 ELSE 0
  BY <1>1, <1>2, SubSeqProperties
<1>4. Len(SubSeq(c, 1, n)) = n /\ n \in 0 .. MaxLen
  BY <1>1, <1>3
<1>5. \A t \in Seq(Byte) : t \in [1 .. Len(t) -> Byte]
  OBVIOUS
<1>6. SubSeq(c, 1, n) \in [1 .. n -> Byte]
  BY <1>3, <1>4, <1>5
<1> QED
  BY <1>4, <1>6 DEF Content

-----------------------------------------------------------------------------
(* Transfers: only verified content is committed                           *)

\* What committing a staged file may do to the store.
CommitSound(cas, file, h, full, out) ==
  /\ Verified(cas, out.cas) /\ DOMAIN out.cas = DOMAIN cas
  /\ \A x \in DOMAIN cas : x # h => out.cas[x] = cas[x]
  /\ out.ok <=> file = h /\ (HasAsset(cas, h) \/ ~full)
  /\ out.ok => HasAsset(out.cas, h)
  /\ ~out.ok => out.cas = cas

\* commit_staged_file stores a file under a digest exactly if the file has
\* that digest and there is room, and changes nothing else.
LEMMA CommitVerifies ==
  ASSUME NEW cas, NEW file, NEW h \in DOMAIN cas, NEW full \in BOOLEAN,
         h # NoFile, cas = [x \in DOMAIN cas |-> cas[x]]
  PROVE  CommitSound(cas, file, h, full, CommitStagedFile(cas, file, h, full))
<1>1. CASE file # h
  BY <1>1 DEF CommitStagedFile, Sha256, Refused, Verified, CommitSound
<1>2. CASE file = h /\ HasAsset(cas, h)
  BY <1>2 DEF CommitStagedFile, Sha256, Verified, CommitSound
<1>3. CASE file = h /\ ~HasAsset(cas, h) /\ full
  BY <1>3 DEF CommitStagedFile, Sha256, Refused, Verified, CommitSound
<1>4. CASE file = h /\ ~HasAsset(cas, h) /\ ~full
  BY <1>4 DEF CommitStagedFile, Sha256, Verified, HasAsset, CommitSound
<1> QED
  BY <1>1, <1>2, <1>3, <1>4

\* Peers with any file, cut anywhere.
AnyPeer == [file : Seq(Byte) \cup {NoFile}, plain : BOOLEAN, cut : Nat, down : BOOLEAN]

\* A request without a range is answered by the whole body or an error.
LEMMA WholeReply ==
  ASSUME NEW peer, NEW h
  PROVE  Request(peer, h, WholeBody).status \in {0, 200, 404}
  BY DEF Request, WholeBody, StreamAsset, ServeSlice, ParseByteRangeHeader, Slice, ReplyWith, Reply

\* A peer that has the content serves it whole.
LEMMA IntactServes ==
  ASSUME NEW peer \in AnyPeer, NEW h \in Seq(Byte), h # NoFile, Intact(peer, h)
  PROVE  Request(peer, h, WholeBody) = Reply(200, Len(h), h)
<1>0. GenerateBoundedChunks(h, Len(h)) = h
  <2>1. PICK n \in Nat : n = Len(h)
    OBVIOUS
  <2>2. SubSeq(h, 1, n) = h
    BY <2>1, SubSeqFull
  <2>3. GenerateBoundedChunks(h, n) = SubSeq(h, 1, n)
    BY <2>1, ChunksConcatenate
  <2> QED
    BY <2>1, <2>2, <2>3, Zenon
<1> DEFINE store == [x \in {h} |-> peer.file]
<1>1. store[h] = h /\ ~peer.down /\ peer.cut = 0 /\ Len(h) \in Nat
  BY DEF Intact
<1>2. SubSeq(h, 0 + 1, Len(h)) = h
  BY SubSeqFull
<1>3. OpenAssetStream(store, h, 0) = h /\ GetAssetSize(store, h) = Len(h) /\ HasAsset(store, h)
  BY <1>1, <1>2 DEF OpenAssetStream, GetAssetSize, HasAsset
<1>5. ParseByteRangeHeader(WholeBody, Len(h)) = Slice(0, Len(h), FALSE)
  BY DEF ParseByteRangeHeader, WholeBody
<1>6. StreamAsset(store, h, WholeBody) = Reply(200, Len(h), h)
  BY <1>0, <1>3, <1>5 DEF StreamAsset, ServeSlice, ReplyWith, Slice
<1>7. SubSeq(h, 1, Len(h) - peer.cut) = h
  BY <1>1, <1>2
<1> QED
  BY <1>1, <1>6, <1>7 DEF Request, Reply

\* The peer's reply is the content that was asked for.
Delivers(peer, h) ==
  Request(peer, h, WholeBody).status = 200 /\ Request(peer, h, WholeBody).body = h
\* What a transfer may do to the store, and what it may report.
TransferSound(cas, h, out) ==
  /\ Verified(cas, out.cas) /\ DOMAIN out.cas = DOMAIN cas
  /\ \A x \in DOMAIN cas : x # h => out.cas[x] = cas[x]
  /\ out.ok \in BOOLEAN /\ (out.ok <=> HasAsset(out.cas, h))
  /\ ~out.ok => out = Transferred(FALSE, cas, 0)
  /\ HasAsset(cas, h) => out = Transferred(TRUE, cas, 0)
  /\ out.ok /\ ~HasAsset(cas, h) => out.bytes = Len(h)

\* A transfer from one candidate, whatever that sends, leaves the store
\* verified and reports success exactly if the digest is in the store
\* (transfer_asset_from_candidate).
LEMMA CandidateVerified ==
  ASSUME NEW cas, NEW peer, NEW h \in DOMAIN cas, NEW full \in BOOLEAN,
         h # NoFile, cas = [x \in DOMAIN cas |-> cas[x]]
  PROVE  /\ TransferSound(cas, h, TransferAssetFromCandidate(cas, h, peer, full))
         /\ TransferAssetFromCandidate(cas, h, peer, full).ok /\ ~HasAsset(cas, h) => Delivers(peer, h)
<1> DEFINE out == TransferAssetFromCandidate(cas, h, peer, full)
           reply == Request(peer, h, WholeBody)
           staged == DownloadStreamToStaging(peer, h, 0, NoFile)
           commit == CommitStagedFile(cas, staged.file, h, full)
<1>1. CASE HasAsset(cas, h)
  BY <1>1 DEF TransferAssetFromCandidate, TransferSound, Transferred, Verified
<1>2. CASE ~HasAsset(cas, h)
  <2>1. out = CommitTransfer(cas, h, staged, full)
    BY <1>2 DEF TransferAssetFromCandidate
  <2>2. staged = StageReply(reply, h, 0, NoFile)
    BY DEF DownloadStreamToStaging
  <2>3. /\ staged.ok \in BOOLEAN
        /\ staged.ok => staged.file = h /\ reply.body = h /\ staged.bytes = Len(h)
                         /\ reply.status \in {200, 206}
    <3> HIDE DEF reply, staged
    <3> QED
      BY <2>2 DEF StageReply, Failed, Sha256
  <2>4. staged.ok => Delivers(peer, h)
    BY <2>3, WholeReply DEF Delivers
  <2>5. /\ Verified(cas, commit.cas) /\ DOMAIN commit.cas = DOMAIN cas
        /\ \A x \in DOMAIN cas : x # h => commit.cas[x] = cas[x]
        /\ commit.ok => HasAsset(commit.cas, h)
    <3> HIDE DEF staged
    <3> QED
      BY CommitVerifies DEF CommitSound
  <2> HIDE DEF out, commit, staged
  <2>6. CASE staged.ok /\ commit.ok
    <3>1. out = Transferred(TRUE, commit.cas, staged.bytes)
      BY <2>1, <2>6 DEF CommitTransfer, commit
    <3>2. out.ok = TRUE /\ out.cas = commit.cas /\ out.bytes = Len(h) /\ HasAsset(out.cas, h)
      BY <3>1, <2>3, <2>5, <2>6 DEF Transferred
    <3>3. TransferSound(cas, h, out)
      BY <3>2, <2>5, <1>2 DEF TransferSound
    <3> QED
      BY <3>3, <2>4, <2>6 DEF out
  <2>7. CASE ~(staged.ok /\ commit.ok)
    <3>1. out = Transferred(FALSE, cas, 0)
      BY <2>1, <2>7 DEF CommitTransfer, commit
    <3>2. ~out.ok /\ TransferSound(cas, h, out)
      BY <3>1, <1>2 DEF Transferred, Verified, TransferSound
    <3> QED
      BY <3>2 DEF out
  <2> QED
    BY <2>6, <2>7
<1> QED
  BY <1>1, <1>2

\* A transfer from a peer that has the content succeeds when there is room.
LEMMA IntactCandidateSucceeds ==
  ASSUME NEW cas, NEW peer \in AnyPeer, NEW h \in DOMAIN cas, h \in Seq(Byte),
         h # NoFile, cas = [x \in DOMAIN cas |-> cas[x]], Intact(peer, h)
  PROVE  TransferAssetFromCandidate(cas, h, peer, FALSE).ok
<1> DEFINE reply == Request(peer, h, WholeBody)
           staged == DownloadStreamToStaging(peer, h, 0, NoFile)
           commit == CommitStagedFile(cas, staged.file, h, FALSE)
<1>1. reply = Reply(200, Len(h), h)
  BY IntactServes
<1>2. staged = StageReply(reply, h, 0, NoFile)
  BY DEF DownloadStreamToStaging
<1>3. staged.ok /\ staged.file = h
  <2> HIDE DEF reply, staged
  <2> QED
    BY <1>1, <1>2 DEF StageReply, Sha256, Reply
<1>4. commit.ok
  <2> HIDE DEF staged
  <2> QED
    BY <1>3, CommitVerifies DEF CommitSound
<1> QED
  BY <1>3, <1>4 DEF TransferAssetFromCandidate, CommitTransfer, Transferred

\* The same of a list of candidates tried one after the other; one intact
\* peer among them is enough (transfer_asset_with_failover).
LEMMA FailoverVerified ==
  ASSUME NEW cas, NEW peers \in Seq(AnyPeer), NEW h \in DOMAIN cas, NEW full \in BOOLEAN,
         h # NoFile, cas = [x \in DOMAIN cas |-> cas[x]]
  PROVE  LET out == TransferAssetWithFailover(cas, h, peers, full)
         IN /\ TransferSound(cas, h, out)
            /\ out.ok /\ ~HasAsset(cas, h) => \E i \in DOMAIN peers : Delivers(peers[i], h)
            /\ ~full /\ h \in Seq(Byte) /\ (\E i \in DOMAIN peers : Intact(peers[i], h)) => out.ok
<1> DEFINE result == [i \in DOMAIN peers |-> TransferAssetFromCandidate(cas, h, peers[i], full)]
           served == {i \in DOMAIN peers : result[i].ok}
           out == TransferAssetWithFailover(cas, h, peers, full)
<1>1. CASE HasAsset(cas, h)
  BY <1>1 DEF TransferAssetWithFailover, TransferSound, Transferred, Verified
<1>2. CASE ~HasAsset(cas, h) /\ served = {}
  <2>1. out = Transferred(FALSE, cas, 0)
    BY <1>2 DEF TransferAssetWithFailover
  <2>2. ASSUME ~full, h \in Seq(Byte), NEW i \in DOMAIN peers, Intact(peers[i], h) PROVE FALSE
    <3>1. peers[i] \in AnyPeer /\ full = FALSE
      BY <2>2
    <3>2. result[i].ok
      BY <2>2, <3>1, IntactCandidateSucceeds
    <3> QED
      BY <3>2, <1>2
  <2> HIDE DEF out
  <2>3. ~out.ok /\ TransferSound(cas, h, out)
    BY <2>1, <1>2 DEF Transferred, Verified, TransferSound
  <2> QED
    BY <2>2, <2>3 DEF out
<1>3. CASE ~HasAsset(cas, h) /\ served # {}
  <2> DEFINE k == Min(served)
  <2>1. served \in SUBSET Nat
    OBVIOUS
  <2>2. k \in served
    <3> HIDE DEF served
    <3> QED
      BY <2>1, <1>3, LeastNatural DEF Min
  <2>3. out = result[k]
    BY <1>3 DEF TransferAssetWithFailover
  <2>4. PICK p : p = peers[k] /\ k \in DOMAIN peers /\ out = TransferAssetFromCandidate(cas, h, p, full) /\ out.ok
    BY <2>2, <2>3
  <2> HIDE DEF out, k, served, result
  <2>5. TransferSound(cas, h, TransferAssetFromCandidate(cas, h, p, full))
        /\ (TransferAssetFromCandidate(cas, h, p, full).ok /\ ~HasAsset(cas, h) => Delivers(p, h))
    BY CandidateVerified
  <2>6. TransferSound(cas, h, out) /\ Delivers(peers[k], h)
    BY <2>4, <2>5, <1>3
  <2> QED
    BY <2>4, <2>6 DEF out
<1> QED
  BY <1>1, <1>2, <1>3

\* What a synchronisation of several digests reports and stores.
SyncResultSound(cas, required, locations, full, out) ==
  /\ Verified(cas, out.cas)
  /\ \A x \in required :
       /\ out.results[x].ok \in BOOLEAN /\ (out.results[x].ok <=> HasAsset(out.cas, x))
       /\ out.results[x].bytes = IF out.results[x].ok /\ ~HasAsset(cas, x) THEN Len(x) ELSE 0
       /\ out.results[x].ok /\ ~HasAsset(cas, x) =>
            \E i \in DOMAIN locations[x] : Delivers(locations[x][i], x)
       /\ ~full /\ x \in Seq(Byte) /\ (\E i \in DOMAIN locations[x] : Intact(locations[x][i], x))
            => out.results[x].ok

\* sync_assets reports each required digest as it is in the store
\* afterwards, and no transfer disturbs another's digest.
LEMMA SyncVerified ==
  ASSUME NEW cas, NEW required \in SUBSET DOMAIN cas,
         NEW locations \in [required -> Seq(AnyPeer)], NEW full \in BOOLEAN,
         NoFile \notin DOMAIN cas, cas = [x \in DOMAIN cas |-> cas[x]]
  PROVE  SyncResultSound(cas, required, locations, full, SyncAssets(cas, required, locations, full))
<1> DEFINE missing == GetMissingHashes(cas, required)
           found == {x \in missing : locations[x] # <<>>}
           One(x) == TransferAssetWithFailover(cas, x, locations[x], full)
           out == SyncAssets(cas, required, locations, full)
<1>1. missing = {x \in required : ~HasAsset(cas, x)}
  BY DEF GetMissingHashes
<1>2. found \subseteq missing /\ missing \subseteq required /\ found \subseteq DOMAIN cas
  BY <1>1
<1>3. ASSUME NEW x \in found
      PROVE  /\ TransferSound(cas, x, One(x))
             /\ One(x).ok => \E i \in DOMAIN locations[x] : Delivers(locations[x][i], x)
             /\ ~full /\ x \in Seq(Byte) /\ (\E i \in DOMAIN locations[x] : Intact(locations[x][i], x))
                  => One(x).ok
  <2>1. x # NoFile /\ x \in DOMAIN cas /\ locations[x] \in Seq(AnyPeer) /\ ~HasAsset(cas, x)
    BY <1>1, <1>2
  <2>2. PICK peers : peers = locations[x]
    OBVIOUS
  <2>3. PICK one : one = TransferAssetWithFailover(cas, x, peers, full)
    OBVIOUS
  <2>4. /\ TransferSound(cas, x, one)
        /\ one.ok /\ ~HasAsset(cas, x) => \E i \in DOMAIN peers : Delivers(peers[i], x)
        /\ ~full /\ x \in Seq(Byte) /\ (\E i \in DOMAIN peers : Intact(peers[i], x)) => one.ok
    BY <2>1, <2>2, <2>3, FailoverVerified
  <2> QED
    BY <2>1, <2>2, <2>3, <2>4
<1> HIDE DEF missing
<1>4. /\ out.results = [x \in required |-> IF x \in found THEN One(x)
                                            ELSE Transferred(x \notin missing, cas, 0)]
      /\ out.cas = [x \in DOMAIN cas |-> IF x \in found THEN One(x).cas[x] ELSE cas[x]]
  BY DEF SyncAssets, DownloadMissingAssets, missing
<1> HIDE DEF out, One, found
<1>5. ASSUME NEW x \in DOMAIN cas
      PROVE  out.cas[x] = cas[x] \/ (cas[x] = NoFile /\ out.cas[x] = x)
  <2>1. CASE x \in found
    <3>1. Verified(cas, One(x).cas)
      BY <2>1, <1>3 DEF TransferSound
    <3>2. out.cas[x] = One(x).cas[x]
      BY <2>1, <1>4
    <3> QED
      BY <3>1, <3>2 DEF Verified
  <2>2. CASE x \notin found
    BY <2>2, <1>4
  <2> QED
    BY <2>1, <2>2
<1>6. ASSUME NEW x \in required
      PROVE  /\ out.results[x].ok \in BOOLEAN /\ (out.results[x].ok <=> HasAsset(out.cas, x))
             /\ out.results[x].bytes = IF out.results[x].ok /\ ~HasAsset(cas, x) THEN Len(x) ELSE 0
             /\ out.results[x].ok /\ ~HasAsset(cas, x) =>
                  \E i \in DOMAIN locations[x] : Delivers(locations[x][i], x)
             /\ ~full /\ x \in Seq(Byte) /\ (\E i \in DOMAIN locations[x] : Intact(locations[x][i], x))
                  => out.results[x].ok
  <2>1. CASE x \in found
    <3>1. out.results[x] = One(x) /\ out.cas[x] = One(x).cas[x] /\ ~HasAsset(cas, x)
      BY <2>1, <1>1, <1>2, <1>4
    <3>2. /\ One(x).ok \in BOOLEAN /\ (One(x).ok <=> One(x).cas[x] # NoFile)
          /\ ~One(x).ok => One(x) = Transferred(FALSE, cas, 0)
          /\ One(x).ok => One(x).bytes = Len(x)
      BY <2>1, <1>3, <3>1 DEF TransferSound, HasAsset
    <3>3. One(x).bytes = IF One(x).ok THEN Len(x) ELSE 0
      BY <3>2 DEF Transferred
    <3> QED
      BY <2>1, <3>1, <3>2, <3>3, <1>3 DEF HasAsset
  <2>2. CASE x \notin found
    <3>1. out.results[x] = Transferred(x \notin missing, cas, 0) /\ out.cas[x] = cas[x]
      BY <2>2, <1>4
    <3>2. out.results[x].ok = (x \notin missing) /\ out.results[x].bytes = 0
      BY <3>1 DEF Transferred
    <3>3. x \notin missing <=> HasAsset(cas, x)
      BY <1>1
    <3>4. x \in missing => DOMAIN locations[x] = {}
      BY <2>2 DEF found
    <3> QED
      BY <3>1, <3>2, <3>3, <3>4 DEF HasAsset
  <2> QED
    BY <2>1, <2>2
<1>7. SyncResultSound(cas, required, locations, full, out)
  BY <1>5, <1>6 DEF Verified, SyncResultSound
<1> QED
  BY <1>7 DEF out

\* The bytes a plan counts as missing: an asset listed twice, once without
\* its size, is counted once.
LEMMA PlanBytes ==
  ASSUME NEW h \in Seq(Byte), NEW cached
  PROVE  ResolvePlan({[sha256 |-> h, size |-> s] : s \in {0, Len(h)}}, cached, <<>>).missBytes
           = IF h \in cached THEN 0 ELSE Len(h)
<1>0. PICK n \in Nat : n = Len(h)
  OBVIOUS
<1> DEFINE records == {[sha256 |-> h, size |-> s] : s \in {0, n}}
           plan == ExtractPlanAssets(records)
           sizes == [x \in DOMAIN plan |-> IF plan[x] = 0 /\ x \in DOMAIN <<>> THEN <<>>[x] ELSE plan[x]]
<1>1. ASSUME NEW r \in records PROVE r.sha256 = h /\ r.size \in {0, n}
  OBVIOUS
<1>2. [sha256 |-> h, size |-> 0] \in records /\ [sha256 |-> h, size |-> n] \in records
  OBVIOUS
<1> HIDE DEF records
<1>a. {r.sha256 : r \in records} = {h}
  BY <1>1, <1>2
<1>b. {x \in records : x.sha256 = h} = records
  BY <1>1
<1>c. {r.size : r \in records} = {0, n}
  BY <1>1, <1>2
<1>3. Max({0, n}) = n
  <2>1. Max({0, n}) \in {0, n} /\ Max({0, n}) >= 0 /\ Max({0, n}) >= n
    <3>1. PICK z \in Int : z = 0
      OBVIOUS
    <3>2. n \in Int
      OBVIOUS
    <3>3. Max({z, n}) \in {z, n} /\ Max({z, n}) >= z /\ Max({z, n}) >= n
      BY <3>2, MinOfTwo
    <3> QED
      BY <3>1, <3>3
  <2> QED
    BY <2>1
<1>4. DOMAIN plan = {h} /\ plan[h] = n
  BY <1>a, <1>b, <1>c, <1>3 DEF ExtractPlanAssets
<1> HIDE DEF plan
<1>5. DOMAIN sizes = {h} /\ sizes[h] = n
  BY <1>4
<1>6. ResolvePlan(records, cached, <<>>).missBytes = SumOver(sizes, {h} \ cached)
  BY <1>4 DEF ResolvePlan, ResolveHashes, SumOver, plan
<1> HIDE DEF sizes
<1>7. SumOver(sizes, {}) = 0
  BY SumOfNothing
<1>8. CASE h \in cached
  <2>1. {h} \ cached = {}
    BY <1>8
  <2> QED
    BY <1>0, <1>6, <1>7, <1>8, <2>1 DEF records
<1>9. CASE h \notin cached
  <2>1. {h} \ cached = {} \cup {h} /\ h \notin {} /\ \A y \in {} \cup {h} : sizes[y] \in Int
    BY <1>9, <1>5
  <2>2. SumOver(sizes, {} \cup {h}) = sizes[h] + SumOver(sizes, {})
    BY <2>1, FS_EmptySet, SumWith
  <2>3. SumOver(sizes, {h} \ cached) = n + 0
    BY <2>1, <2>2, <1>5, <1>7
  <2>4. n + 0 = n
    OBVIOUS
  <2> QED
    BY <1>0, <1>6, <1>9, <2>3, <2>4 DEF records
<1> QED
  BY <1>8, <1>9

\* Every trial of a synchronisation is sound.
LEMMA SyncTrialSound ==
  ASSUME NEW t \in SyncTrial
  PROVE  SyncSound(t)
<1> DEFINE rest == IF t.h = <<>> THEN <<CHOOSE b \in Byte : TRUE>> ELSE <<>>
           both == {t.h, rest}
           cas == [x \in both |-> IF x = t.h THEN t.local ELSE NoFile]
           locations == [x \in both |-> IF x = t.h THEN t.peers ELSE <<>>]
           records == {[sha256 |-> t.h, size |-> s] : s \in {0, Len(t.h)}}
           cached == {x \in both : HasAsset(cas, x)}
           missBytes == ResolvePlan(records, cached, <<>>).missBytes
           out == SyncAssets(cas, both, locations, t.full)
<1>1. /\ t.h \in Content /\ t.local \in Content \cup {NoFile} /\ t.full \in BOOLEAN
      /\ t.peers \in [1 .. 2 -> WholePeer]
  BY DEF SyncTrial
<1>2. t.h \in Seq(Byte) /\ t.h # NoFile /\ Len(t.h) \in Nat
  BY <1>1, ContentType
<1>3. WholePeer \subseteq AnyPeer
  BY ContentType DEF WholePeer, Peer, AnyPeer
<1>4. t.peers \in Seq(AnyPeer) /\ DOMAIN t.peers = 1 .. 2
  <2>1. t.peers \in [1 .. 2 -> AnyPeer]
    BY <1>1, <1>3
  <2>2. PICK Q : Q = AnyPeer
    OBVIOUS
  <2>3. \A n \in Nat : \A p \in [1 .. n -> Q] : p \in Seq(Q) /\ DOMAIN p = 1 .. n
    OBVIOUS
  <2>4. \A p \in [1 .. 2 -> Q] : p \in Seq(Q) /\ DOMAIN p = 1 .. 2
    BY <2>3
  <2> QED
    BY <2>1, <2>2, <2>4
<1>5. <<>> \in Seq(AnyPeer)
  OBVIOUS
<1>6. rest # NoFile
  <2>1. (CHOOSE b \in Byte : TRUE) \in Byte
    BY TransferAssumption
  <2>2. \A b \in Byte : <<b>> \in [1 .. 1 -> Byte]
    OBVIOUS
  <2>3. <<>> \in [1 .. 0 -> Byte]
    OBVIOUS
  <2>4. rest \in [1 .. 1 -> Byte] \/ rest \in [1 .. 0 -> Byte]
    BY <2>1, <2>2, <2>3
  <2>5. 0 \in 0 .. MaxLen /\ 1 \in 0 .. MaxLen
    BY TransferAssumption
  <2> HIDE DEF rest
  <2> QED
    BY <2>4, <2>5, TransferAssumption DEF Content
<1>7. cas = [x \in DOMAIN cas |-> cas[x]] /\ DOMAIN cas = both /\ NoFile \notin both
  BY <1>2, <1>6
<1>8. locations \in [both -> Seq(AnyPeer)]
  BY <1>4, <1>5
<1>9. cas[t.h] = t.local /\ locations[t.h] = t.peers /\ t.h \in both
  OBVIOUS
<1> HIDE DEF cas, locations, rest, both
<1>10. SyncResultSound(cas, both, locations, t.full, out)
  <2>1. PICK S, f, full : S = both /\ f = locations /\ full = t.full
    OBVIOUS
  <2>2. S \in SUBSET DOMAIN cas /\ f \in [S -> Seq(AnyPeer)] /\ full \in BOOLEAN /\ NoFile \notin DOMAIN cas
    BY <2>1, <1>1, <1>7, <1>8
  <2>3. SyncResultSound(cas, S, f, full, SyncAssets(cas, S, f, full))
    BY <2>2, <1>7, SyncVerified
  <2> QED
    BY <2>1, <2>3
<1> HIDE DEF out
<1>11. missBytes = IF HasAsset(cas, t.h) THEN 0 ELSE Len(t.h)
  BY <1>2, <1>9, PlanBytes
<1>12. out.results[t.h].bytes = IF out.results[t.h].ok THEN missBytes ELSE 0
  <2> HIDE DEF missBytes
  <2> QED
    BY <1>9, <1>10, <1>11 DEF SyncResultSound
<1>13. t.local = NoFile /\ out.results[t.h].ok => PullJobArtifacts({t.h}, locations) = {t.h}
  BY <1>9, <1>10 DEF HasAsset, PullJobArtifacts, Delivers, Sha256, SyncResultSound
<1>14. ~t.full /\ (\E i \in 1 .. 2 : Intact(t.peers[i], t.h)) => out.results[t.h].ok
  BY <1>2, <1>4, <1>9, <1>10 DEF SyncResultSound
<1>15. SyncOutcomeSound(t, cas, locations, out, missBytes)
  <2> HIDE DEF missBytes
  <2> QED
    BY <1>7, <1>10, <1>12, <1>13, <1>14 DEF SyncOutcomeSound, SyncResultSound
<1> QED
  BY <1>15 DEF SyncSound, cas, locations, rest, both, out

\* Every trial of a store that is full, corrupt or asked twice is sound.
LEMMA StoreTrialSound ==
  ASSUME NEW t \in StoreTrial
  PROVE  StoreSound(t)
<1> DEFINE cas == [x \in Content |-> IF x = t.h THEN t.local ELSE NoFile]
           put == UploadAsset(cas, t.h, t.data, t.full)
           kept == StoreBytes(cas, t.data, t.full)
           copied == StoreFile(cas, t.data, t.h, t.full)
<1>1. t.h \in Content /\ t.data \in Content /\ t.full \in BOOLEAN
  BY DEF StoreTrial
<1>2. t.h # NoFile /\ t.data # NoFile
  BY <1>1, ContentType
<1>3. cas = [x \in DOMAIN cas |-> cas[x]] /\ DOMAIN cas = Content
  OBVIOUS
<1> HIDE DEF cas
<1>4. PICK h, d, full : h = t.h /\ d = t.data /\ full = t.full
  OBVIOUS
<1>5. h \in DOMAIN cas /\ d \in DOMAIN cas /\ full \in BOOLEAN /\ h # NoFile /\ d # NoFile
  BY <1>1, <1>2, <1>3, <1>4
<1>6. CommitSound(cas, d, h, full, CommitStagedFile(cas, d, h, full))
  BY <1>3, <1>5, CommitVerifies
<1>7. CommitSound(cas, d, d, full, CommitStagedFile(cas, d, d, full))
  BY <1>3, <1>5, CommitVerifies
<1>8. Verified(cas, cas)
  BY DEF Verified
<1>9. kept = CommitStagedFile(cas, d, d, full)
  BY <1>4 DEF StoreBytes, Sha256
<1>10. Verified(cas, kept.cas) /\ (kept.ok => HasAsset(kept.cas, t.data))
  BY <1>4, <1>7, <1>9 DEF CommitSound
<1>11. copied = (IF d # h THEN Refused(cas) ELSE CommitStagedFile(cas, d, h, full))
  BY <1>4, <1>5 DEF StoreFile, Sha256
<1>12. Verified(cas, copied.cas) /\ (copied.ok => HasAsset(copied.cas, t.h))
  BY <1>4, <1>6, <1>8, <1>11 DEF CommitSound, Refused
<1>13. put = (IF HasAsset(cas, h) THEN Answer("exists", cas)
              ELSE IF d # h THEN Answer("mismatch", cas)
              ELSE Answer("stored", CommitStagedFile(cas, d, h, full).cas))
  BY <1>4 DEF UploadAsset, Sha256
<1> HIDE DEF put, kept, copied
<1>14. /\ Verified(cas, put.cas) /\ DOMAIN put.cas = DOMAIN cas
       /\ put.status = "stored" /\ ~t.full => HasAsset(put.cas, t.h)
  BY <1>4, <1>6, <1>8, <1>13 DEF CommitSound, Answer
<1>15. ~HasAsset(DeleteAsset(put.cas, t.h), t.h)
  BY <1>4, <1>5, <1>14 DEF HasAsset, DeleteAsset
<1> QED
  BY <1>10, <1>12, <1>14, <1>15 DEF StoreSound, cas, put, kept, copied

-----------------------------------------------------------------------------
(* Ranges of bytes                                                         *)

\* A slice of a content, cut into chunks, is that slice.
LEMMA SliceServed ==
  ASSUME NEW h \in Seq(Byte), NEW start \in Nat, NEW n \in Nat, start + n <= Len(h)
  PROVE  /\ SubSeq(h, start + 1, start + n) \in Seq(Byte)
         /\ Len(SubSeq(h, start + 1, start + n)) = n
         /\ GenerateBoundedChunks(SubSeq(h, start + 1, Len(h)), n) = SubSeq(h, start + 1, start + n)
<1>1. PICK a, L, b : a = start + 1 /\ L = Len(h) /\ b = start + n
  OBVIOUS
<1>2. /\ a \in Int /\ L \in Int /\ b \in Int /\ L \in Nat
      /\ b - a + 1 = n /\ (a <= b => n >= 1) /\ (~(a <= b) => n = 0)
      /\ n <= L - a + 1 /\ a <= L + 1 /\ 1 <= a
  BY <1>1
<1>3. \A i \in a .. L : h[i] \in Byte
  BY <1>1, <1>2
<1>4. \A i \in a .. b : h[i] \in Byte
  BY <1>1, <1>2
<1>5. /\ SubSeq(h, a, L) \in Seq(Byte)
      /\ Len(SubSeq(h, a, L)) = IF a <= L THEN L - a + 1 ELSE 0
      /\ \A i \in 1 .. L - a + 1 : SubSeq(h, a, L)[i] = h[a + i - 1]
  BY <1>2, <1>3, SubSeqProperties
<1>6. /\ SubSeq(h, a, b) \in Seq(Byte)
      /\ Len(SubSeq(h, a, b)) = IF a <= b THEN b - a + 1 ELSE 0
      /\ \A i \in 1 .. b - a + 1 : SubSeq(h, a, b)[i] = h[a + i - 1]
  BY <1>2, <1>4, SubSeqProperties
<1>7. PICK s, u : s = SubSeq(h, a, L) /\ u = SubSeq(h, a, b)
  OBVIOUS
<1>8. Len(s) = L - a + 1 /\ Len(u) = n /\ n <= Len(s) /\ s \in Seq(Byte) /\ u \in Seq(Byte)
  BY <1>2, <1>5, <1>6, <1>7
<1>9. GenerateBoundedChunks(s, n) = SubSeq(s, 1, n)
  BY <1>8, ChunksConcatenate
<1>10. \A i \in 1 .. n : s[i] \in Byte
  BY <1>8
<1>11. /\ SubSeq(s, 1, n) \in Seq(Byte) /\ Len(SubSeq(s, 1, n)) = IF 1 <= n THEN n - 1 + 1 ELSE 0
       /\ \A i \in 1 .. n - 1 + 1 : SubSeq(s, 1, n)[i] = s[1 + i - 1]
  BY <1>10, SubSeqProperties
<1>12. Len(SubSeq(s, 1, n)) = n /\ \A i \in 1 .. n : SubSeq(s, 1, n)[i] = s[i]
  BY <1>11
<1>13. \A i \in 1 .. n : s[i] = h[a + i - 1] /\ u[i] = h[a + i - 1]
  BY <1>2, <1>5, <1>6, <1>7
<1>14. SubSeq(s, 1, n) = u
  BY <1>8, <1>11, <1>12, <1>13, SeqEqual
<1> QED
  BY <1>1, <1>7, <1>8, <1>9, <1>14

\* Range headers: none, malformed, or any pair of numbers.
AnyRange == [kind : {"none", "malformed"}, from : {0}, to : {Open}]
      \cup [kind : {"bytes"}, from : Nat, to : {-1} \cup Nat]

\* A range that can be satisfied is parsed to exactly the bytes it names
\* (parse_byte_range_header).
LEMMA RangeParsed ==
  ASSUME NEW range \in AnyRange, NEW size \in Nat, range.kind = "bytes", Satisfiable(range, size)
  PROVE  \E n \in Nat :
           /\ ParseByteRangeHeader(range, size) = Slice(range.from, n, TRUE)
           /\ range.from + n <= size
           /\ \A i \in 1 .. size :
                (i > range.from /\ (range.to = Open \/ i <= range.to + 1))
                  <=> i \in range.from + 1 .. range.from + n
<1>1. range.from \in Nat /\ range.to \in {-1} \cup Nat
  BY DEF AnyRange, Open
<1>2. PICK f, e : f = range.from /\ e = range.to
  OBVIOUS
<1>3. f \in Int /\ e \in Int /\ f >= 0 /\ e >= -1 /\ size \in Int
  BY <1>1, <1>2
<1>4. CASE size = 0
  <2>1. f = 0
    BY <1>2, <1>4 DEF Satisfiable
  <2>2. ParseByteRangeHeader(range, size) = Slice(f, 0, TRUE)
    BY <1>4, <2>1 DEF ParseByteRangeHeader
  <2>3. f + 0 <= size /\ 1 .. size = {}
    BY <1>4, <2>1
  <2> QED
    BY <1>2, <2>2, <2>3
<1>5. CASE size # 0
  <2>1. f < size /\ (e = -1 \/ e >= f)
    BY <1>2, <1>5 DEF Satisfiable, Open
  <2>2. PICK last : last = LastByte(range, size)
    OBVIOUS
  <2>3. last = IF e = -1 THEN size - 1 ELSE Min({e, size - 1})
    BY <1>2, <2>2 DEF LastByte, Open
  <2>4. PICK m : m = size - 1
    OBVIOUS
  <2>5. Min({e, m}) \in {e, m} /\ Min({e, m}) <= e /\ Min({e, m}) <= m
    BY <1>3, <2>4, MinOfTwo
  <2>6. /\ last \in Int /\ f <= last /\ last <= size - 1
        /\ \A i \in 1 .. size : i <= last + 1 <=> (e = -1 \/ i <= e + 1)
    BY <1>3, <2>1, <2>3, <2>4, <2>5
  <2>7. PICK n : n = last - f + 1
    OBVIOUS
  <2>8. ParseByteRangeHeader(range, size) = Slice(f, n, TRUE)
    BY <1>2, <1>5, <2>2, <2>7 DEF ParseByteRangeHeader
  <2>9. n \in Nat /\ f + n <= size /\ f + n = last + 1
    BY <1>3, <2>6, <2>7
  <2>10. \A i \in 1 .. size : (i > f /\ (e = -1 \/ i <= e + 1)) <=> i \in f + 1 .. f + n
    BY <1>3, <2>6, <2>9
  <2> QED
    BY <1>2, <2>8, <2>9, <2>10 DEF Open
<1> QED
  BY <1>4, <1>5

\* A store with one content.
StoreOf(h) == [x \in {h} |-> h]

\* A parsed range is answered by that slice.
LEMMA StreamedSlice ==
  ASSUME NEW h \in Seq(Byte), h # NoFile, NEW range \in AnyRange, NEW n \in Nat,
         ParseByteRangeHeader(range, Len(h)) = Slice(range.from, n, TRUE), range.from + n <= Len(h)
  PROVE  StreamAsset(StoreOf(h), h, range) = Reply(206, n, SubSeq(h, range.from + 1, range.from + n))
<1>1. PICK f : f = range.from /\ f \in Nat
  BY DEF AnyRange
<1>2. StoreOf(h)[h] = h /\ HasAsset(StoreOf(h), h) /\ GetAssetSize(StoreOf(h), h) = Len(h)
  BY DEF StoreOf, HasAsset, GetAssetSize
<1>3. OpenAssetStream(StoreOf(h), h, f) = SubSeq(h, f + 1, Len(h))
  BY <1>2 DEF OpenAssetStream
<1>4. GenerateBoundedChunks(SubSeq(h, f + 1, Len(h)), n) = SubSeq(h, f + 1, f + n)
  BY <1>1, SliceServed
<1>5. StreamAsset(StoreOf(h), h, range) = ServeSlice(StoreOf(h), h, Slice(f, n, TRUE))
  BY <1>1, <1>2 DEF StreamAsset
<1>6. ServeSlice(StoreOf(h), h, Slice(f, n, TRUE)) = Reply(206, n, SubSeq(h, f + 1, f + n))
  BY <1>3, <1>4 DEF ServeSlice, ReplyWith, Slice
<1> QED
  BY <1>1, <1>5, <1>6

\* Without a range the whole content is the answer.
LEMMA StreamedWhole ==
  ASSUME NEW h \in Seq(Byte), h # NoFile, NEW range \in AnyRange, range.kind # "bytes"
  PROVE  StreamAsset(StoreOf(h), h, range) = Reply(200, Len(h), h)
<1>1. StoreOf(h)[h] = h /\ HasAsset(StoreOf(h), h) /\ GetAssetSize(StoreOf(h), h) = Len(h)
  BY DEF StoreOf, HasAsset, GetAssetSize
<1>2. SubSeq(h, 0 + 1, Len(h)) = h
  BY SubSeqFull
<1>3. OpenAssetStream(StoreOf(h), h, 0) = h
  BY <1>1, <1>2 DEF OpenAssetStream
<1>4. GenerateBoundedChunks(h, Len(h)) = h
  <2>1. PICK n \in Nat : n = Len(h)
    OBVIOUS
  <2>2. GenerateBoundedChunks(h, n) = SubSeq(h, 1, n)
    BY <2>1, ChunksConcatenate
  <2> QED
    BY <1>2, <2>1, <2>2
<1>5. StreamAsset(StoreOf(h), h, range) = ServeSlice(StoreOf(h), h, ParseByteRangeHeader(range, Len(h)))
  BY <1>1 DEF StreamAsset
<1>6. CASE range.kind = "none"
  <2>1. ParseByteRangeHeader(range, Len(h)) = Slice(0, Len(h), FALSE)
    BY <1>6 DEF ParseByteRangeHeader
  <2> QED
    BY <1>3, <1>4, <1>5, <2>1 DEF ServeSlice, ReplyWith, Slice
<1>7. CASE range.kind = "malformed"
  <2>1. ParseByteRangeHeader(range, Len(h)) = Unparsed("syntax")
    BY <1>7 DEF ParseByteRangeHeader
  <2> QED
    BY <1>1, <1>3, <1>4, <1>5, <2>1 DEF ServeSlice, ReplyWith, Slice, Unparsed
<1> QED
  BY <1>6, <1>7 DEF AnyRange

\* The positions a range header names.
Wanted(h, range) == {i \in DOMAIN h : i > range.from /\ (range.to = Open \/ i <= range.to + 1)}
\* A reply to a range request that tells the truth.
RangeReplySound(h, range, reply) ==
  /\ reply.length = Len(reply.body) /\ reply.status \in {200, 206, 416}
  /\ reply.status = 206 => reply.body = SubSeq(h, range.from + 1, range.from + Cardinality(Wanted(h, range)))
  /\ reply.status = 200 => reply.body = h
  /\ reply.status = 416 => Wanted(h, range) = {}

\* RangesAnsweredExactly: a request for a range is answered by exactly the
\* bytes it names with 206, by the whole content with 200, or, when it names
\* no byte of the content, by 416; the announced length is that of the body
\* (stream_asset, parse_byte_range_header).
THEOREM RangesAnsweredExactly ==
  ASSUME NEW h \in Seq(Byte), h # NoFile, NEW range \in AnyRange
  PROVE  RangeReplySound(h, range, StreamAsset(StoreOf(h), h, range))
<1>0. PICK size \in Nat : size = Len(h) /\ DOMAIN h = 1 .. size
  OBVIOUS
<1>1. CASE range.kind # "bytes"
  <2>1. StreamAsset(StoreOf(h), h, range) = Reply(200, Len(h), h)
    BY <1>1, StreamedWhole
  <2> QED
    BY <2>1 DEF RangeReplySound, Reply
<1>2. CASE range.kind = "bytes" /\ ~Satisfiable(range, size)
  <2>1. HasAsset(StoreOf(h), h) /\ GetAssetSize(StoreOf(h), h) = size
    BY <1>0 DEF StoreOf, HasAsset, GetAssetSize
  <2>2. ParseByteRangeHeader(range, size) = Unparsed("range")
    BY <1>2 DEF ParseByteRangeHeader
  <2>3. StreamAsset(StoreOf(h), h, range) = Reply(416, 0, <<>>)
    BY <2>1, <2>2 DEF StreamAsset, ServeSlice, Unparsed
  <2>4. PICK f, e : f = range.from /\ e = range.to /\ f \in Nat /\ e \in {-1} \cup Nat
    BY <1>2 DEF AnyRange, Open
  <2>5. size = 0 \/ f >= size \/ (e # -1 /\ e < f)
    BY <1>2, <2>4 DEF Satisfiable, Open
  <2>6. \A i \in 1 .. size : ~(i > f /\ (e = -1 \/ i <= e + 1))
    BY <2>4, <2>5
  <2>7. Wanted(h, range) = {}
    BY <1>0, <2>4, <2>6 DEF Open, Wanted
  <2>8. Len(<<>>) = 0
    OBVIOUS
  <2> QED
    BY <2>3, <2>7, <2>8 DEF RangeReplySound, Reply
<1>3. CASE range.kind = "bytes" /\ Satisfiable(range, size)
  <2>1. PICK n \in Nat :
          /\ ParseByteRangeHeader(range, size) = Slice(range.from, n, TRUE)
          /\ range.from + n <= size
          /\ \A i \in 1 .. size :
               (i > range.from /\ (range.to = Open \/ i <= range.to + 1))
                 <=> i \in range.from + 1 .. range.from + n
    BY <1>3, RangeParsed
  <2>2. PICK f \in Nat : f = range.from
    BY DEF AnyRange
  <2>a. PICK body : body = SubSeq(h, f + 1, f + n)
    OBVIOUS
  <2>b. ParseByteRangeHeader(range, Len(h)) = Slice(range.from, n, TRUE) /\ range.from + n <= Len(h)
    BY <1>0, <2>1
  <2>c. StreamAsset(StoreOf(h), h, range) = Reply(206, n, SubSeq(h, range.from + 1, range.from + n))
    BY <2>b, StreamedSlice, ZenonT(60)
  <2>3. StreamAsset(StoreOf(h), h, range) = Reply(206, n, body)
    BY <2>2, <2>a, <2>c
  <2>4. Len(body) = n
    BY <2>2, <2>a, <2>b, SliceServed
  <2>5. Wanted(h, range) = f + 1 .. f + n
    BY <1>0, <2>1, <2>2 DEF Wanted
  <2>6. Cardinality(f + 1 .. f + n) = n
    <3>0. f + 1 \in Int /\ f + n \in Int
      OBVIOUS
    <3>1. PICK a \in Int, b \in Int : a = f + 1 /\ b = f + n
      BY <3>0
    <3>2. Cardinality(a .. b) = IF a > b THEN 0 ELSE b - a + 1
      BY <3>1, FS_Interval
    <3> QED
      BY <2>2, <3>1, <3>2, SMTT(40)
  <2>7. Cardinality(Wanted(h, range)) = n
    BY <2>5, <2>6
  <2>8. PICK reply : reply = StreamAsset(StoreOf(h), h, range)
    OBVIOUS
  <2>9. reply.status = 206 /\ reply.length = n /\ reply.body = body
    BY <2>3, <2>8 DEF Reply
  <2>10. body = SubSeq(h, range.from + 1, range.from + Cardinality(Wanted(h, range)))
    BY <2>2, <2>7, <2>a
  <2>11. RangeReplySound(h, range, reply)
    <3>1. reply.length = Len(reply.body) /\ reply.status \in {200, 206, 416}
      BY <2>4, <2>9
    <3>2. reply.status # 200 /\ reply.status # 416
      BY <2>9
    <3>3. reply.status = 200 => reply.body = h
      BY <3>2
    <3>4. reply.status = 416 => Wanted(h, range) = {}
      BY <3>2
    <3>5. reply.body = SubSeq(h, range.from + 1, range.from + Cardinality(Wanted(h, range)))
      BY <2>9, <2>10, Zenon
    <3> QED
      BY <3>1, <3>3, <3>4, <3>5, Zenon DEF RangeReplySound
  <2> QED
    BY <2>8, <2>11
<1> QED
  BY <1>1, <1>2, <1>3

\* Every trial of a range is sound.
LEMMA RangeTrialSound ==
  ASSUME NEW t \in RangeTrial
  PROVE  RangeSound(t)
<1>1. t.h \in Content /\ t.range \in RangeHeader
  BY DEF RangeTrial
<1>2. PICK h, range : h = t.h /\ range = t.range
  OBVIOUS
<1>3. h \in Seq(Byte) /\ h # NoFile
  BY <1>1, <1>2, ContentType
<1>4. \A n \in 0 .. MaxLen + 1 : n \in Nat
  BY TransferAssumption
<1>5. \A n \in -1 .. MaxLen + 1 : n \in {-1} \cup Nat
  BY TransferAssumption
<1>6. range \in AnyRange
  BY <1>1, <1>2, <1>4, <1>5 DEF RangeHeader, AnyRange
<1>7. RangeReplySound(h, range, StreamAsset(StoreOf(h), h, range))
  BY <1>3, <1>6, RangesAnsweredExactly
<1> QED
  BY <1>2, <1>7 DEF RangeSound, RangeReplySound, Wanted, StoreOf

\* PrefixResumes: a download that left a prefix of the content behind is
\* resumed by any intact peer to the whole content, whatever the prefix's
\* length and whether the peer honours ranges or sends everything again
\* (download_stream_to_staging).
THEOREM PrefixResumes ==
  ASSUME NEW h \in Content, NEW offset \in Nat, NEW peer \in AnyPeer,
         0 < offset, offset < Len(h), Intact(peer, h)
  PROVE  /\ DownloadStreamToStaging(peer, h, offset, SubSeq(h, 1, offset)).ok
         /\ DownloadStreamToStaging(peer, h, offset, SubSeq(h, 1, offset)).file = h
<1> DEFINE part == SubSeq(h, 1, offset)
           range == From(offset)
           reply == Request(peer, h, range)
<1>1. h \in Seq(Byte) /\ h # NoFile /\ Len(h) \in Nat
  BY ContentType
<1>2. part \in Content /\ Len(part) = offset
  BY <1>1, PrefixIsContent
<1>3. part # NoFile
  BY <1>2, ContentType
<1>4. [x \in {h} |-> peer.file] = StoreOf(h) /\ ~peer.down /\ peer.cut = 0
  BY DEF Intact, StoreOf
<1>5. WholeBody \in AnyRange /\ WholeBody.kind # "bytes"
  BY DEF WholeBody, AnyRange, Open
<1>6. range \in AnyRange /\ range.kind = "bytes" /\ range.from = offset
  BY DEF From, AnyRange, Open
<1>7. DownloadStreamToStaging(peer, h, offset, part) = StageReply(reply, h, offset, part)
  BY DEF DownloadStreamToStaging
<1>8. CASE peer.plain
  <2>1. StreamAsset(StoreOf(h), h, WholeBody) = Reply(200, Len(h), h)
    BY <1>1, <1>5, StreamedWhole
  <2>2. SubSeq(h, 1, Len(h) - 0) = h
    BY <1>1, SubSeqFull
  <2>3. reply = Reply(200, Len(h), h)
    BY <1>4, <1>8, <2>1, <2>2 DEF Request, Reply
  <2> HIDE DEF reply, part
  <2> QED
    BY <1>7, <2>3 DEF StageReply, Reply, Sha256, part
<1>9. CASE ~peer.plain
  <2>1. PICK n \in Nat : n = Len(h) - offset /\ offset + n = Len(h)
    BY <1>1
  <2>2. PICK body : body = SubSeq(h, offset + 1, offset + n)
    OBVIOUS
  <2>3. ParseByteRangeHeader(range, Len(h)) = Slice(offset, n, TRUE)
    <3>1. Satisfiable(range, Len(h)) /\ Len(h) # 0
      BY <1>1 DEF Satisfiable, From
    <3>2. LastByte(range, Len(h)) = Len(h) - 1
      BY DEF LastByte, From
    <3>3. Len(h) - 1 - offset + 1 = n
      BY <1>1, <2>1
    <3> QED
      BY <1>6, <3>1, <3>2, <3>3 DEF ParseByteRangeHeader
  <2> HIDE DEF range
  <2>4. StreamAsset(StoreOf(h), h, range) = Reply(206, n, SubSeq(h, range.from + 1, range.from + n))
    <3>1. ParseByteRangeHeader(range, Len(h)) = Slice(range.from, n, TRUE) /\ range.from + n <= Len(h)
      BY <1>1, <1>6, <2>1, <2>3
    <3>2. PICK r \in AnyRange : r = range
      BY <1>6
    <3> HIDE DEF part, reply
    <3>3. ParseByteRangeHeader(r, Len(h)) = Slice(r.from, n, TRUE) /\ r.from + n <= Len(h)
      BY <3>1, <3>2, Zenon
    <3>4. h \in Seq(Byte) /\ h # NoFile
      BY <1>1
    <3>5. StreamAsset(StoreOf(h), h, r) = Reply(206, n, SubSeq(h, r.from + 1, r.from + n))
      BY <3>3, <3>4, StreamedSlice, ZenonT(60)
    <3> QED
      BY <3>2, <3>5, Zenon
  <2>5. Len(body) = n /\ body \in Seq(Byte)
    BY <1>1, <2>1, <2>2, SliceServed
  <2>6. SubSeq(body, 1, Len(body) - 0) = body
    BY <2>5, SubSeqFull
  <2>7. reply = Reply(206, n, body)
    <3>1. StreamAsset(StoreOf(h), h, range) = Reply(206, n, body)
      BY <1>6, <2>2, <2>4
    <3>2. reply = [Reply(206, n, body) EXCEPT !.body = SubSeq(@, 1, Len(@) - 0)]
      BY <1>4, <1>9, <3>1 DEF Request
    <3> QED
      BY <3>2, <2>6 DEF Reply
  <2>8. part \o body = h
    <3>1. SubSeq(h, 1, offset) \o SubSeq(h, offset + 1, Len(h)) = SubSeq(h, 1, Len(h))
      <4>1. PICK k, L : k = offset /\ L = Len(h)
        OBVIOUS
      <4>2. k \in 1 - 1 .. Len(h) /\ L \in k .. Len(h) /\ 1 \in 1 .. Len(h) + 1
        BY <1>1, <4>1
      <4>3. SubSeq(h, 1, k) \o SubSeq(h, k + 1, L) = SubSeq(h, 1, L)
        BY <1>1, <4>2, ConcatAdjacentSubSeq
      <4> QED
        BY <4>1, <4>3
    <3>2. SubSeq(h, 1, Len(h)) = h
      BY <1>1, SubSeqFull
    <3> QED
      BY <2>1, <2>2, <3>1, <3>2
  <2> HIDE DEF reply, part
  <2> QED
    BY <1>2, <1>3, <1>7, <2>5, <2>7, <2>8 DEF StageReply, Reply, Sha256, part
<1> QED
  BY <1>8, <1>9

\* Every trial of a resumed download is sound.
LEMMA ResumeTrialSound ==
  ASSUME NEW t \in ResumeTrial
  PROVE  ResumeSound(t)
<1>1. PICK h, offset, part, peer : h = t.h /\ offset = t.offset /\ part = t.part /\ peer = t.peer
  OBVIOUS
<1>2. h \in Content /\ offset \in Nat /\ peer \in Peer
  BY <1>1, TransferAssumption DEF ResumeTrial
<1>3. h \in Seq(Byte) /\ h # NoFile /\ peer \in AnyPeer
  BY <1>2, ContentType DEF Peer, AnyPeer
<1>4. PICK none, staged : /\ none = [x \in {h} |-> NoFile]
                          /\ staged = DownloadStreamToStaging(peer, h, offset, part)
  OBVIOUS
<1>5. PICK file : file = staged.file
  OBVIOUS
<1>6. h \in DOMAIN none /\ none = [x \in DOMAIN none |-> none[x]] /\ ~HasAsset(none, h)
  BY <1>4 DEF HasAsset
<1>7. CommitSound(none, file, h, FALSE, CommitStagedFile(none, file, h, FALSE))
  BY <1>3, <1>6, CommitVerifies
<1>8. ASSUME offset < Len(h), offset = 0 \/ part = SubSeq(h, 1, offset), Intact(peer, h)
      PROVE  staged.ok /\ file = h
  <2>1. CASE offset = 0
    <3>1. Request(peer, h, WholeBody) = Reply(200, Len(h), h)
      BY <1>3, <1>8, IntactServes
    <3>2. staged = StageReply(Reply(200, Len(h), h), h, 0, part)
      BY <1>4, <2>1, <3>1 DEF DownloadStreamToStaging
    <3> QED
      BY <1>5, <3>2 DEF StageReply, Reply, Sha256
  <2>2. CASE offset # 0
    <3>1. 0 < offset /\ part = SubSeq(h, 1, offset)
      BY <1>2, <1>8, <2>2
    <3> QED
      BY <1>2, <1>3, <1>4, <1>5, <1>8, <3>1, PrefixResumes
  <2> QED
    BY <2>1, <2>2
<1>9. /\ Verified(none, CommitStagedFile(none, file, h, FALSE).cas)
      /\ file = h => CommitStagedFile(none, file, h, FALSE).ok
  BY <1>7 DEF CommitSound
<1> QED
  BY <1>1, <1>4, <1>5, <1>8, <1>9 DEF ResumeSound

-----------------------------------------------------------------------------
(* The invariant of the transfer trials                                    *)

\* The inputs of the transfer trials.
TransferTrial == SyncTrial \cup ResumeTrial \cup RangeTrial \cup StoreTrial
\* The invariant that carries the trials: a transfer trial has an input.
TrialType == trial.area = "transfer" => trial.input \in TransferTrial

\* Every transfer trial is sound.
LEMMA TransferTrialsSound ==
  ASSUME TrialType
  PROVE  CommittedIsVerified
<1> SUFFICES ASSUME trial.area = "transfer"
             PROVE  CASE trial.input.kind = "sync" -> SyncSound(trial.input)
                      [] trial.input.kind = "resume" -> ResumeSound(trial.input)
                      [] trial.input.kind = "range" -> RangeSound(trial.input)
                      [] trial.input.kind = "store" -> StoreSound(trial.input)
  BY DEF CommittedIsVerified
<1>1. PICK t : t = trial.input /\ t \in TransferTrial
  BY DEF TrialType
<1>2. CASE t \in SyncTrial
  <2>1. t.kind = "sync"
    BY <1>2 DEF SyncTrial
  <2> QED
    BY <1>1, <1>2, <2>1, SyncTrialSound
<1>3. CASE t \in ResumeTrial
  <2>1. t.kind = "resume"
    BY <1>3 DEF ResumeTrial
  <2> QED
    BY <1>1, <1>3, <2>1, ResumeTrialSound
<1>4. CASE t \in RangeTrial
  <2>1. t.kind = "range"
    BY <1>4 DEF RangeTrial
  <2> QED
    BY <1>1, <1>4, <2>1, RangeTrialSound
<1>5. CASE t \in StoreTrial
  <2>1. t.kind = "store"
    BY <1>5 DEF StoreTrial
  <2> QED
    BY <1>1, <1>5, <2>1, StoreTrialSound
<1> QED
  BY <1>1, <1>2, <1>3, <1>4, <1>5 DEF TransferTrial

\* TransfersVerified: whatever peers send, cut off or withhold, only content
\* with the right digest is committed, and a synchronisation reports what the
\* store then holds (CommittedIsVerified, for every alphabet and length).
THEOREM TransfersVerified == Spec => []CommittedIsVerified
<1>1. Init => TrialType
  BY DEF Init, NoTrial, TrialType
<1>2. TrialType /\ [Next]_trial => TrialType'
  <2> SUFFICES ASSUME TrialType, [Next]_trial
               PROVE  TrialType'
    OBVIOUS
  <2>1. CASE TryTransfer
    BY <2>1 DEF TryTransfer, Try, TrialType, TransferTrial
  <2>2. CASE TryPlan
    BY <2>2 DEF TryPlan, Try, TrialType
  <2>3. CASE TryShards
    BY <2>3 DEF TryShards, Try, TrialType
  <2>4. CASE TryScenePackage
    BY <2>4 DEF TryScenePackage, Try, TrialType
  <2>5. CASE TryIntelligence
    BY <2>5 DEF TryIntelligence, Try, TrialType
  <2>6. CASE EndTrial
    BY <2>6 DEF EndTrial, NoTrial, TrialType
  <2>7. CASE UNCHANGED trial
    BY <2>7 DEF TrialType
  <2> QED
    BY <2>1, <2>2, <2>3, <2>4, <2>5, <2>6, <2>7 DEF Next
<1>3. TrialType => CommittedIsVerified
  BY TransferTrialsSound
<1> QED
  BY <1>1, <1>2, <1>3, PTL DEF Spec

-----------------------------------------------------------------------------
(* The closure of what a scene requires                                    *)

\* Where the edges of a graph lead.
TargetsOf(g) == {e[2] : e \in g.edges}
\* No edge leads out of C.
ClosedUnder(C, g) == \A e \in g.edges : e[1] \in C => e[2] \in C
\* States of the search within U.
Searching(U) == [queue : SUBSET U, visited : SUBSET U]
\* The recursion of the search.
SearchEquation(f, most, start, g) ==
  f = [n \in 0 .. most |-> IF n = 0 THEN [queue |-> start, visited |-> {}] ELSE Visit(f[n - 1], g)]
\* The search's invariant: what is queued or visited is reachable, the
\* neighbours of the visited are known, and each step visits one more.
SearchSound(b, n, start, g) ==
  /\ start \subseteq b.queue \cup b.visited
  /\ b.queue \cap b.visited = {}
  /\ \A e \in g.edges : e[1] \in b.visited => e[2] \in b.queue \cup b.visited
  /\ b.queue = {} \/ Cardinality(b.visited) = n
  /\ \A C : start \subseteq C /\ ClosedUnder(C, g) => b.queue \cup b.visited \subseteq C

\* One step of the search keeps the invariant.
LEMMA VisitStep ==
  ASSUME NEW U, IsFiniteSet(U), NEW g, TargetsOf(g) \subseteq U, NEW start \in SUBSET U,
         NEW b \in Searching(U)
  PROVE  /\ Visit(b, g) \in Searching(U)
         /\ \A n \in Nat : SearchSound(b, n, start, g) => SearchSound(Visit(b, g), n + 1, start, g)
<1>0. b.queue \subseteq U /\ b.visited \subseteq U
  BY DEF Searching
<1>1. CASE b.queue = {}
  <2>1. Visit(b, g) = b
    BY <1>1 DEF Visit
  <2> QED
    BY <2>1, <1>1 DEF SearchSound
<1>2. CASE b.queue # {}
  <2>1. PICK current : current = (CHOOSE x \in b.queue : TRUE)
    OBVIOUS
  <2>2. current \in b.queue
    BY <1>2, <2>1
  <2>3. PICK near : near = {e[2] : e \in {x \in g.edges : x[1] = current}}
    OBVIOUS
  <2>4. PICK visited, queue : visited = b.visited \cup {current} /\ queue = (b.queue \cup near) \ visited
    OBVIOUS
  <2>5. Visit(b, g) = [queue |-> queue, visited |-> visited]
    BY <1>2, <2>1, <2>3, <2>4 DEF Visit
  <2>6. near \subseteq TargetsOf(g)
    BY <2>3 DEF TargetsOf
  <2>7. visited \subseteq U /\ queue \subseteq U
    BY <1>0, <2>2, <2>4, <2>6
  <2>8. Visit(b, g) \in Searching(U)
    BY <2>5, <2>7 DEF Searching
  <2>9. ASSUME NEW n \in Nat, SearchSound(b, n, start, g)
        PROVE  SearchSound([queue |-> queue, visited |-> visited], n + 1, start, g)
    <3>1. start \subseteq queue \cup visited /\ queue \cap visited = {}
      BY <2>2, <2>4, <2>9 DEF SearchSound
    <3>2. ASSUME NEW e \in g.edges, e[1] \in visited PROVE e[2] \in queue \cup visited
      <4>1. CASE e[1] = current
        BY <4>1, <2>3, <2>4
      <4>2. CASE e[1] # current
        BY <4>2, <3>2, <2>4, <2>9 DEF SearchSound
      <4> QED
        BY <4>1, <4>2
    <3>3. Cardinality(visited) = n + 1
      <4>1. IsFiniteSet(b.visited)
        BY <1>0, FS_Subset
      <4>2. Cardinality(b.visited) = n /\ current \notin b.visited
        BY <1>2, <2>2, <2>9 DEF SearchSound
      <4> QED
        BY <4>1, <4>2, <2>4, FS_AddElement
    <3>4. ASSUME NEW C, start \subseteq C, ClosedUnder(C, g) PROVE queue \cup visited \subseteq C
      <4>1. b.queue \cup b.visited \subseteq C
        BY <2>9, <3>4 DEF SearchSound
      <4>2. near \subseteq C
        BY <4>1, <2>2, <2>3, <3>4 DEF ClosedUnder
      <4> QED
        BY <4>1, <4>2, <2>2, <2>4
    <3> QED
      BY <3>1, <3>2, <3>3, <3>4 DEF SearchSound
  <2> QED
    BY <2>5, <2>8, <2>9
<1> QED
  BY <1>1, <1>2

\* The search is defined for every number of steps.
LEMMA SearchRuns ==
  ASSUME NEW U, IsFiniteSet(U), NEW g, TargetsOf(g) \subseteq U, NEW start \in SUBSET U,
         NEW most \in Nat
  PROVE  \E f : SearchEquation(f, most, start, g)
<1> DEFINE V == Searching(U)
           v0 == [queue |-> start, visited |-> {}]
           D == [i \in Nat |-> [b \in V |-> Visit(b, g)]]
<1>1. v0 \in V
  BY DEF Searching
<1>2. \A b \in V : Visit(b, g) \in V
  BY VisitStep
<1>3. D \in [Nat -> [V -> V]]
  BY <1>2
<1>4. \A i \in Nat : \A b \in V : D[i][b] = Visit(b, g)
  OBVIOUS
<1>5. PICK W, w0, E : W = V /\ w0 = v0 /\ E = D
  OBVIOUS
<1>6. w0 \in W /\ E \in [Nat -> [W -> W]]
  BY <1>1, <1>3, <1>5
<1> HIDE DEF V, v0, D
<1>a. PICK f : Recursion(f, W, w0, E, most)
  BY <1>6, RecursionExists
<1>7. f \in [0 .. most -> W] /\ \A i \in 0 .. most : f[i] = IF i = 0 THEN w0 ELSE E[i][f[i - 1]]
  BY <1>a DEF Recursion
<1>8. \A i \in 0 .. most : f[i] = IF i = 0 THEN v0 ELSE Visit(f[i - 1], g)
  BY <1>4, <1>5, <1>7
<1>9. f = [i \in 0 .. most |-> IF i = 0 THEN v0 ELSE Visit(f[i - 1], g)]
  BY <1>7, <1>8
<1> QED
  BY <1>9 DEF SearchEquation, v0

\* The invariant holds after every step.
LEMMA SearchInvariant ==
  ASSUME NEW U, IsFiniteSet(U), NEW g, TargetsOf(g) \subseteq U, NEW start \in SUBSET U,
         NEW most \in Nat, NEW f, SearchEquation(f, most, start, g), NEW n \in 0 .. most
  PROVE  f[n] \in Searching(U) /\ SearchSound(f[n], n, start, g)
<1> DEFINE Good == {k \in Nat : k <= most => f[k] \in Searching(U) /\ SearchSound(f[k], k, start, g)}
<1>1. Good \in SUBSET Nat
  OBVIOUS
<1>2. 0 \in Good
  <2>1. f[0] = [queue |-> start, visited |-> {}]
    BY DEF SearchEquation
  <2>2. f[0] \in Searching(U)
    BY <2>1 DEF Searching
  <2>3. SearchSound(f[0], 0, start, g)
    BY <2>1, FS_EmptySet DEF SearchSound
  <2> QED
    BY <2>2, <2>3
<1>3. ASSUME NEW k \in Good PROVE k + 1 \in Good
  <2>1. SUFFICES ASSUME k + 1 <= most
                 PROVE  f[k + 1] \in Searching(U) /\ SearchSound(f[k + 1], k + 1, start, g)
    BY <1>3
  <2>2. k \in Nat /\ k <= most /\ k + 1 \in 0 .. most /\ k + 1 # 0 /\ k + 1 - 1 = k
    BY <2>1
  <2>3. f[k] \in Searching(U) /\ SearchSound(f[k], k, start, g)
    BY <2>2, <1>3
  <2>4. f[k + 1] = Visit(f[k], g)
    <3>1. \A i \in 0 .. most : f[i] = IF i = 0 THEN [queue |-> start, visited |-> {}] ELSE Visit(f[i - 1], g)
      BY DEF SearchEquation
    <3>2. f[k + 1] = Visit(f[k + 1 - 1], g)
      BY <3>1, <2>2
    <3> QED
      BY <3>2, <2>2
  <2>5. PICK b \in Searching(U) : b = f[k]
    BY <2>3
  <2>6. Visit(b, g) \in Searching(U) /\ (SearchSound(b, k, start, g) => SearchSound(Visit(b, g), k + 1, start, g))
    BY <2>2, VisitStep
  <2> QED
    BY <2>3, <2>4, <2>5, <2>6
<1> HIDE DEF Good
<1>4. Good = Nat
  BY <1>1, <1>2, <1>3, Induction
<1> QED
  BY <1>4 DEF Good

\* SearchComputesClosure: the breadth-first search returns the least set that
\* holds its start and is closed under the edges, in every finite graph
\* (compute_closure).
THEOREM SearchComputesClosure ==
  ASSUME NEW start, IsFiniteSet(start), NEW g, IsFiniteSet(TargetsOf(g))
  PROVE  /\ start \subseteq Bfs(start, g)
         /\ ClosedUnder(Bfs(start, g), g)
         /\ \A C : start \subseteq C /\ ClosedUnder(C, g) => Bfs(start, g) \subseteq C
<1>1. PICK U : U = start \cup TargetsOf(g)
  OBVIOUS
<1>2. IsFiniteSet(U) /\ start \in SUBSET U /\ TargetsOf(g) \subseteq U
  BY <1>1, FS_Union
<1>3. PICK most \in Nat : most = Cardinality(U)
  BY <1>2, FS_CardinalityType
<1>4. PICK f : f = (CHOOSE s : SearchEquation(s, most, start, g))
  OBVIOUS
<1>5. \E s : SearchEquation(s, most, start, g)
  BY <1>2, SearchRuns
<1>6. SearchEquation(f, most, start, g)
  BY <1>4, <1>5
<1>7. Bfs(start, g) = f[most].visited
  BY <1>1, <1>3, <1>4 DEF Bfs, SearchEquation, TargetsOf
<1>8. most \in 0 .. most
  OBVIOUS
<1>9. f[most] \in Searching(U) /\ SearchSound(f[most], most, start, g)
  BY <1>2, <1>6, <1>8, SearchInvariant
<1>10. PICK b : b = f[most]
  OBVIOUS
<1>11. b.queue \subseteq U /\ b.visited \subseteq U /\ SearchSound(b, most, start, g)
  BY <1>9, <1>10 DEF Searching
<1>12. b.queue = {}
  <2>1. CASE Cardinality(b.visited) = most
    <3>1. b.visited = U
      BY <2>1, <1>2, <1>3, <1>11, FS_Subset
    <3> QED
      BY <3>1, <1>11 DEF SearchSound
  <2> QED
    BY <2>1, <1>11 DEF SearchSound
<1> QED
  BY <1>7, <1>10, <1>11, <1>12 DEF SearchSound, ClosedUnder

\* ClosureOfSeeds: the closure of a scene's seeds holds every seed that is a
\* node and all it depends on, and what it holds besides nodes are targets
\* the graph reports missing (compute_closure, find_missing_targets).
THEOREM ClosureOfSeeds ==
  ASSUME NEW seeds, NEW g, IsFiniteSet(NodeIds(g)), IsFiniteSet(TargetsOf(g))
  PROVE  /\ seeds \cap NodeIds(g) \subseteq ComputeClosure(seeds, g)
         /\ ClosedUnder(ComputeClosure(seeds, g), g)
         /\ ComputeClosure(seeds, g) \ NodeIds(g) \subseteq FindMissingTargets(g)
<1>1. PICK start : start = ExpandSeeds(seeds, g)
  OBVIOUS
<1>2. start \in SUBSET NodeIds(g) /\ seeds \cap NodeIds(g) \subseteq start
  BY <1>1 DEF ExpandSeeds, NodeIds
<1>3. IsFiniteSet(start)
  BY <1>2, FS_Subset
<1>4. PICK C : C = NodeIds(g) \cup TargetsOf(g)
  OBVIOUS
<1>5. start \subseteq C /\ ClosedUnder(C, g)
  BY <1>2, <1>4 DEF ClosedUnder, TargetsOf
<1>6. start \subseteq Bfs(start, g) /\ ClosedUnder(Bfs(start, g), g) /\ Bfs(start, g) \subseteq C
  BY <1>3, <1>5, SearchComputesClosure
<1>7. ComputeClosure(seeds, g) = Bfs(start, g)
  BY <1>1 DEF ComputeClosure
<1>8. FindMissingTargets(g) = TargetsOf(g) \ NodeIds(g)
  BY DEF FindMissingTargets, TargetsOf
<1> QED
  BY <1>2, <1>4, <1>6, <1>7, <1>8

-----------------------------------------------------------------------------
(* Sorting                                                                 *)

\* R is a strict weak order of the indices.
WeakOrder(R, n) ==
  /\ \A i, j \in 1 .. n : <<i, j>> \in R => <<j, i>> \notin R
  /\ \A i, j, k \in 1 .. n : <<i, j>> \notin R /\ <<j, k>> \notin R => <<i, k>> \notin R
\* The order of a stable sort: by R, equals as they were.
Precedes(i, j, R) == <<i, j>> \in R \/ (<<j, i>> \notin R /\ i < j)
\* s lists the indices, each once.
PermutationOf(s, n) ==
  /\ s \in [1 .. n -> 1 .. n]
  /\ \A k, l \in 1 .. n : s[k] = s[l] => k = l
  /\ \A i \in 1 .. n : \E k \in 1 .. n : s[k] = i

\* The order of a stable sort is total.
LEMMA PrecedesTotal ==
  ASSUME NEW n \in Nat, NEW R, WeakOrder(R, n)
  PROVE  /\ \A i \in 1 .. n : ~Precedes(i, i, R)
         /\ \A i, j \in 1 .. n : i # j => Precedes(i, j, R) \/ Precedes(j, i, R)
         /\ \A i, j, k \in 1 .. n : Precedes(i, j, R) /\ Precedes(j, k, R) => Precedes(i, k, R)
<1>1. \A i \in 1 .. n : ~Precedes(i, i, R)
  BY DEF WeakOrder, Precedes
<1>2. ASSUME NEW i \in 1 .. n, NEW j \in 1 .. n, i # j
      PROVE  Precedes(i, j, R) \/ Precedes(j, i, R)
  <2>1. i < j \/ j < i
    BY <1>2
  <2> QED
    BY <2>1 DEF Precedes
<1>3. ASSUME NEW i \in 1 .. n, NEW j \in 1 .. n, NEW k \in 1 .. n,
             Precedes(i, j, R), Precedes(j, k, R)
      PROVE  Precedes(i, k, R)
  <2>1. <<j, i>> \notin R /\ <<k, j>> \notin R
    BY <1>3 DEF WeakOrder, Precedes
  <2>2. <<k, i>> \notin R
    BY <2>1 DEF WeakOrder
  <2>3. CASE <<i, j>> \in R
    <3>1. <<i, k>> \in R
      BY <2>1, <2>3 DEF WeakOrder
    <3> QED
      BY <3>1 DEF Precedes
  <2>4. CASE <<j, k>> \in R
    <3>1. <<i, k>> \in R
      BY <2>1, <2>4 DEF WeakOrder
    <3> QED
      BY <3>1 DEF Precedes
  <2>5. CASE <<i, j>> \notin R /\ <<j, k>> \notin R
    <3>1. i < j /\ j < k
      BY <1>3, <2>5 DEF Precedes
    <3>2. i < k
      BY <3>1
    <3> QED
      BY <2>2, <3>2 DEF Precedes
  <2> QED
    BY <2>3, <2>4, <2>5
<1> QED
  BY <1>1, <1>2, <1>3

\* Whoever precedes another has fewer ahead of it.
LEMMA AheadCounts ==
  ASSUME NEW n \in Nat, NEW R, WeakOrder(R, n)
  PROVE  /\ \A i \in 1 .. n : Cardinality(Ahead(i, n, R)) \in 0 .. n - 1
         /\ \A i, j \in 1 .. n : Precedes(j, i, R) =>
              Cardinality(Ahead(j, n, R)) < Cardinality(Ahead(i, n, R))
<1>1. ASSUME NEW i \in 1 .. n
      PROVE  Ahead(i, n, R) = {j \in 1 .. n : Precedes(j, i, R)}
  <2>1. \A j \in 1 .. i - 1 : j \in 1 .. n /\ j < i /\ ~(i < j) /\ j # i
    OBVIOUS
  <2>2. \A j \in i + 1 .. n : j \in 1 .. n /\ ~(j < i) /\ i < j
    OBVIOUS
  <2>3. \A j \in 1 .. n : j \in 1 .. i - 1 \/ j = i \/ j \in i + 1 .. n
    OBVIOUS
  <2>4. \A j \in 1 .. n : <<i, j>> \in R => <<j, i>> \notin R
    BY DEF WeakOrder
  <2>5. <<i, i>> \notin R
    BY DEF WeakOrder
  <2>6. \A j \in 1 .. i - 1 : <<i, j>> \notin R <=> Precedes(j, i, R)
    BY <2>1, <2>4 DEF Precedes
  <2>7. \A j \in i + 1 .. n : <<j, i>> \in R <=> Precedes(j, i, R)
    BY <2>2, <2>4 DEF Precedes
  <2>8. ~Precedes(i, i, R)
    BY <2>5 DEF Precedes
  <2> QED
    BY <2>1, <2>2, <2>3, <2>6, <2>7, <2>8 DEF Ahead
<1>2. IsFiniteSet(1 .. n) /\ Cardinality(1 .. n) = n
  <2>1. PICK a \in Int : a = 1
    OBVIOUS
  <2>2. IsFiniteSet(a .. n) /\ Cardinality(a .. n) = IF a > n THEN 0 ELSE n - a + 1
    BY FS_Interval
  <2> QED
    BY <2>1, <2>2
<1>3. ASSUME NEW i \in 1 .. n
      PROVE  IsFiniteSet(Ahead(i, n, R)) /\ Cardinality(Ahead(i, n, R)) \in Nat
  BY <1>1, <1>2, FS_Subset, FS_CardinalityType
<1>4. ASSUME NEW i \in 1 .. n
      PROVE  Cardinality(Ahead(i, n, R)) \in 0 .. n - 1
  <2>1. PICK S : S = (1 .. n) \ {i}
    OBVIOUS
  <2>2. IsFiniteSet(S) /\ Cardinality(S) = n - 1
    BY <1>2, <2>1, FS_RemoveElement
  <2>3. Ahead(i, n, R) \in SUBSET S
    BY <1>1, <2>1, PrecedesTotal
  <2>4. Cardinality(Ahead(i, n, R)) <= Cardinality(S)
    BY <2>2, <2>3, FS_Subset
  <2> QED
    BY <1>3, <2>2, <2>4
<1>5. ASSUME NEW i \in 1 .. n, NEW j \in 1 .. n, Precedes(j, i, R)
      PROVE  Cardinality(Ahead(j, n, R)) < Cardinality(Ahead(i, n, R))
  <2>1. PICK A, B : A = Ahead(j, n, R) /\ B = Ahead(i, n, R)
    OBVIOUS
  <2>2. \A k \in 1 .. n : Precedes(k, j, R) => Precedes(k, i, R)
    BY <1>5, PrecedesTotal
  <2>3. j \notin A /\ A \cup {j} \in SUBSET B
    BY <1>1, <1>5, <2>1, <2>2, PrecedesTotal
  <2>4. IsFiniteSet(A) /\ Cardinality(A) \in Nat /\ IsFiniteSet(B) /\ Cardinality(B) \in Nat
    BY <1>3, <2>1
  <2>5. Cardinality(A \cup {j}) = Cardinality(A) + 1
    BY <2>3, <2>4, FS_AddElement
  <2>6. Cardinality(A \cup {j}) <= Cardinality(B)
    BY <2>3, <2>4, FS_Subset
  <2> QED
    BY <2>1, <2>4, <2>5, <2>6
<1> QED
  BY <1>4, <1>5

\* Counting those ahead sorts: the result lists every index once, in the
\* order of a stable sort.
LEMMA RankedSorts ==
  ASSUME NEW n \in Nat, NEW R, WeakOrder(R, n)
  PROVE  /\ PermutationOf(Ranked(n, R), n)
         /\ \A k, l \in 1 .. n : k < l <=> Precedes(Ranked(n, R)[k], Ranked(n, R)[l], R)
<1> DEFINE Rank(i) == Cardinality(Ahead(i, n, R)) + 1
           f == [i \in 1 .. n |-> Rank(i)]
           places == {<<Rank(i), i>> : i \in 1 .. n}
           s == [k \in 1 .. n |-> (CHOOSE p \in places : p[1] = k)[2]]
<1>1. \A i \in 1 .. n : Rank(i) \in 1 .. n
  BY AheadCounts
<1>2. \A i, j \in 1 .. n : Precedes(j, i, R) => Rank(j) < Rank(i)
  BY <1>1, AheadCounts
<1> HIDE DEF Rank
<1>3. \A i, j \in 1 .. n : Rank(i) = Rank(j) => i = j
  BY <1>1, <1>2, PrecedesTotal
<1>4. f \in Injection(1 .. n, 1 .. n)
  BY <1>1, <1>3 DEF Injection, IsInjective
<1>5. IsFiniteSet(1 .. n)
  BY FS_Interval
<1>6. f \in Surjection(1 .. n, 1 .. n)
  <2>1. PICK S : S = 1 .. n
    OBVIOUS
  <2> HIDE DEF f
  <2>2. f \in Injection(S, S) /\ IsFiniteSet(S)
    BY <1>4, <1>5, <2>1
  <2>3. f \in Surjection(S, S)
    BY <2>2, FS_Injection
  <2> QED
    BY <2>1, <2>3
<1>7. \A k \in 1 .. n : \E i \in 1 .. n : Rank(i) = k
  BY <1>6 DEF Surjection
<1>8. ASSUME NEW k \in 1 .. n PROVE s[k] \in 1 .. n /\ Rank(s[k]) = k
  <2>1. PICK i \in 1 .. n : Rank(i) = k
    BY <1>7
  <2>2. <<Rank(i), i>> \in places /\ <<Rank(i), i>>[1] = k
    BY <2>1
  <2>3. PICK q : q = (CHOOSE p \in places : p[1] = k)
    OBVIOUS
  <2>4. q \in places /\ q[1] = k
    BY <2>2, <2>3
  <2>5. PICK j \in 1 .. n : q = <<Rank(j), j>>
    BY <2>4
  <2>6. s[k] = q[2]
    BY <2>3
  <2>7. q[1] = Rank(j) /\ q[2] = j
    BY <2>5
  <2> HIDE DEF s
  <2> QED
    BY <2>4, <2>6, <2>7
<1>9. Ranked(n, R) = s
  BY DEF Ranked, Rank
<1> HIDE DEF s
<1>10. ASSUME NEW k \in 1 .. n, NEW l \in 1 .. n
       PROVE  k < l <=> Precedes(s[k], s[l], R)
  <2>1. Precedes(s[k], s[l], R) => k < l
    BY <1>2, <1>8
  <2>2. ASSUME k < l PROVE Precedes(s[k], s[l], R)
    <3>1. s[k] # s[l] /\ s[k] \in 1 .. n /\ s[l] \in 1 .. n
      BY <2>2, <1>8
    <3>2. ~Precedes(s[l], s[k], R)
      BY <2>2, <3>1, <1>2, <1>8
    <3> QED
      BY <3>1, <3>2, PrecedesTotal
  <2> QED
    BY <2>1, <2>2
<1>11. PermutationOf(s, n)
  <2>1. s \in [1 .. n -> 1 .. n]
    BY <1>8 DEF s
  <2>2. \A k, l \in 1 .. n : s[k] = s[l] => k = l
    BY <1>8
  <2>3. ASSUME NEW i \in 1 .. n PROVE \E k \in 1 .. n : s[k] = i
    <3>1. s[Rank(i)] = i
      BY <1>1, <1>3, <1>8
    <3> QED
      BY <1>1, <3>1
  <2> QED
    BY <2>1, <2>2, <2>3 DEF PermutationOf
<1> QED
  BY <1>9, <1>10, <1>11

-----------------------------------------------------------------------------
(* The order of admission                                                  *)

\* Waiting workloads.
Waiter == [priority : Int, submitted : Int, deadline : Int, duration : Nat, id : Nat]

\* Priorities are integers.
LEMMA PriorityType ==
  ASSUME NEW w \in Waiter, NEW now \in Int
  PROVE  DeadlineBonus(w, now) \in Int /\ EffectivePriority(w, now) \in Int
<1>1. w.priority \in Int /\ w.submitted \in Int /\ w.deadline \in Int /\ w.duration \in Nat
  BY DEF Waiter
<1>2. \A a, b \in Int : Min({a, b}) \in Int /\ Max({a, b}) \in Int
  BY MinOfTwo
<1>3. \A a \in Int : \A b \in Int : b > 0 => a \div b \in Int
  OBVIOUS
<1>4. Max({w.duration, 1}) \in Int /\ Max({w.duration, 1}) > 0
  <2>1. PICK a \in Int, b \in Int : a = w.duration /\ b = 1
    BY <1>1
  <2>2. Max({a, b}) \in {a, b} /\ Max({a, b}) >= b
    BY MinOfTwo
  <2> QED
    BY <2>1, <2>2
<1>5. PICK slack : slack = w.deadline - now - w.duration
  OBVIOUS
<1>6. slack \in Int /\ 100 * slack \in Int
  BY <1>1, <1>5
<1>7. PICK q \in Int : q = (100 * slack) \div Max({w.duration, 1})
  BY <1>3, <1>4, <1>6
<1>8. 1000 - q \in Int /\ 0 \in Int
  OBVIOUS
<1>9. Max({0, 1000 - q}) \in Int
  <2>1. PICK a \in Int, b \in Int : a = 0 /\ b = 1000 - q
    OBVIOUS
  <2>2. Max({a, b}) \in Int
    BY <1>2
  <2> QED
    BY <2>1, <2>2
<1>10. DeadlineBonus(w, now) \in {0, 1000, Max({0, 1000 - q})}
  BY <1>5, <1>7 DEF DeadlineBonus
<1>11. DeadlineBonus(w, now) \in Int
  BY <1>9, <1>10
<1>12. now - w.submitted \in Int /\ 100 \in Int /\ 1000 \in Int
  BY <1>1
<1>13. Max({0, now - w.submitted}) \in Int /\ Min({100, w.priority}) \in Int
  <2>1. PICK a \in Int, b \in Int, c \in Int, d \in Int :
          a = 0 /\ b = now - w.submitted /\ c = 100 /\ d = w.priority
    BY <1>1, <1>12
  <2>2. Max({a, b}) \in Int /\ Min({c, d}) \in Int
    BY <1>2, Zenon
  <2> QED
    BY <2>1, <2>2, Zenon
<1>14. 100 * Max({0, now - w.submitted}) \in Int
  BY <1>13
<1>15. Min({1000, 100 * Max({0, now - w.submitted})}) \in Int
  BY <1>2, <1>12, <1>14
<1> QED
  BY <1>11, <1>13, <1>15 DEF EffectivePriority

\* The order of admission, on indices.
QueueRelation(waiting, now) ==
  {p \in (1 .. Len(waiting)) \X (1 .. Len(waiting)) : QueuedBefore(waiting[p[1]], waiting[p[2]], now)}

\* It is a weak order.
LEMMA QueueOrders ==
  ASSUME NEW waiting \in Seq(Waiter), NEW now \in Int
  PROVE  WeakOrder(QueueRelation(waiting, now), Len(waiting))
<1> DEFINE n == Len(waiting)
           R == QueueRelation(waiting, now)
           E(i) == EffectivePriority(waiting[i], now)
           S(i) == waiting[i].submitted
           Old(i) == now - S(i) >= 10
           Less(i, j) == \/ Old(i) /\ ~Old(j)
                         \/ Old(i) /\ Old(j) /\ S(i) < S(j)
                         \/ ~Old(i) /\ ~Old(j) /\ (E(i) > E(j) \/ (E(i) = E(j) /\ S(i) < S(j)))
<1>1. \A i \in 1 .. n : waiting[i] \in Waiter
  OBVIOUS
<1>2. \A i \in 1 .. n : S(i) \in Int
  BY <1>1 DEF Waiter
<1>3. \A i \in 1 .. n : E(i) \in Int
  BY <1>1, PriorityType
<1>4. \A i, j \in 1 .. n : <<i, j>> \in R <=> Less(i, j)
  BY DEF QueueRelation, QueuedBefore, Starved, StarvationMinutes
<1> HIDE DEF E, S, R
<1>5. \A i, j \in 1 .. n : Less(i, j) => ~Less(j, i)
  BY <1>2, <1>3
<1>6. ASSUME NEW i \in 1 .. n, NEW j \in 1 .. n, NEW k \in 1 .. n, ~Less(i, j), ~Less(j, k)
      PROVE  ~Less(i, k)
  BY <1>2, <1>3, <1>6
<1> HIDE DEF Less
<1> QED
  BY <1>4, <1>5, <1>6 DEF WeakOrder, R, n

\* A queue in the order of admission.
Admission(snapshot, waiting, now) ==
  /\ \E order : /\ PermutationOf(order, Len(waiting))
                /\ snapshot = [k \in 1 .. Len(waiting) |-> waiting[order[k]]]
  /\ \A k, l \in DOMAIN snapshot : k < l => ~QueuedBefore(snapshot[l], snapshot[k], now)
  /\ \A k, l \in DOMAIN snapshot :
       Starved(snapshot[k], now) /\ snapshot[k].submitted < snapshot[l].submitted => k < l

\* QueueInOrder: the snapshot of the queue lists every waiting workload once,
\* none behind one it goes before, and one that has starved before everybody
\* submitted after it (queue_snapshot).
THEOREM QueueInOrder ==
  ASSUME NEW waiting \in Seq(Waiter), NEW now \in Int
  PROVE  Admission(QueueSnapshot(waiting, now), waiting, now)
<1>1. PICK n \in Nat : n = Len(waiting)
  OBVIOUS
<1>2. PICK R : R = QueueRelation(waiting, now)
  OBVIOUS
<1>3. WeakOrder(R, n)
  BY <1>1, <1>2, QueueOrders
<1>4. PICK order : order = Ranked(n, R)
  OBVIOUS
<1>5. PermutationOf(order, n) /\ \A k, l \in 1 .. n : k < l <=> Precedes(order[k], order[l], R)
  BY <1>3, <1>4, RankedSorts
<1>6. DOMAIN order = 1 .. n /\ \A k \in 1 .. n : order[k] \in 1 .. n
  BY <1>5 DEF PermutationOf
<1>7. PICK snapshot : snapshot = QueueSnapshot(waiting, now)
  OBVIOUS
<1>8. snapshot = [k \in 1 .. n |-> waiting[order[k]]]
  BY <1>1, <1>2, <1>4, <1>6, <1>7 DEF QueueSnapshot, Pick, Order, QueueRelation
<1>9. ASSUME NEW k \in 1 .. n, NEW l \in 1 .. n
      PROVE  /\ QueuedBefore(snapshot[k], snapshot[l], now) <=> <<order[k], order[l]>> \in R
             /\ snapshot[k] \in Waiter
  BY <1>1, <1>2, <1>6, <1>8 DEF QueueRelation
<1>10. ASSUME NEW k \in 1 .. n, NEW l \in 1 .. n, k < l
       PROVE  ~QueuedBefore(snapshot[l], snapshot[k], now)
  <2>1. ~Precedes(order[l], order[k], R)
    BY <1>5, <1>10
  <2> QED
    BY <1>9, <2>1 DEF Precedes
<1>11. ASSUME NEW k \in 1 .. n, NEW l \in 1 .. n, Starved(snapshot[k], now),
              snapshot[k].submitted < snapshot[l].submitted
       PROVE  k < l
  <2>1. QueuedBefore(snapshot[k], snapshot[l], now)
    BY <1>11 DEF QueuedBefore
  <2>2. Precedes(order[k], order[l], R)
    BY <1>9, <2>1 DEF Precedes
  <2> QED
    BY <1>5, <2>2
<1>12. DOMAIN snapshot = 1 .. n
  BY <1>8
<1> QED
  BY <1>1, <1>5, <1>7, <1>8, <1>10, <1>11, <1>12 DEF Admission

\* AgingNeverReverses: of two workloads without a deadline the older, once
\* ahead, is still ahead a minute later: aging only ever helps the one that
\* has waited longer (_effective_priority, queue_snapshot).
THEOREM AgingNeverReverses ==
  ASSUME NEW v \in Waiter, NEW w \in Waiter, NEW now \in Int, v.deadline = None, w.deadline = None,
         v.submitted < w.submitted, QueuedBefore(v, w, now)
  PROVE  QueuedBefore(v, w, now + 1)
<1>1. PICK a \in Int, b \in Int : a = v.submitted /\ b = w.submitted
  BY DEF Waiter
<1>2. \A x \in Waiter : \A t \in Int : DeadlineBonus(x, t) \in Int
  BY PriorityType
<1>3. \A t \in Int : DeadlineBonus(v, t) = 0 /\ DeadlineBonus(w, t) = 0
  BY DEF DeadlineBonus
<1> DEFINE Age(t, s) == Min({1000, 100 * Max({0, t - s})})
<1>4. ASSUME NEW t \in Int, NEW s \in Int
      PROVE  Age(t, s) = IF t - s <= 0 THEN 0 ELSE IF t - s >= 10 THEN 1000 ELSE 100 * (t - s)
  <2>1. PICK z \in Int, d \in Int : z = 0 /\ d = t - s
    OBVIOUS
  <2>2. Max({z, d}) \in {z, d} /\ Max({z, d}) >= z /\ Max({z, d}) >= d
    BY MinOfTwo
  <2>3. PICK m \in Int, c \in Int : m = 100 * Max({z, d}) /\ c = 1000
    BY <2>1, <2>2
  <2>4. Min({c, m}) \in {c, m} /\ Min({c, m}) <= c /\ Min({c, m}) <= m
    BY MinOfTwo
  <2>5. Age(t, s) = Min({c, m})
    BY <2>1, <2>3
  <2> HIDE DEF Age
  <2> QED
    BY <2>1, <2>2, <2>3, <2>4, <2>5
<1>5. PICK p \in Int, q \in Int : p = 10 * Min({100, v.priority}) /\ q = 10 * Min({100, w.priority})
  <2>1. 100 \in Int /\ v.priority \in Int /\ w.priority \in Int
    BY DEF Waiter
  <2>2. Min({100, v.priority}) \in Int /\ Min({100, w.priority}) \in Int
    <3>1. PICK c \in Int, x \in Int, y \in Int : c = 100 /\ x = v.priority /\ y = w.priority
      BY <2>1
    <3>2. Min({c, x}) \in {c, x} /\ Min({c, y}) \in {c, y}
      BY MinOfTwo, Zenon
    <3>3. Min({c, x}) \in Int /\ Min({c, y}) \in Int
      BY <3>2
    <3> QED
      BY <3>1, <3>3, Zenon
  <2> QED
    BY <2>2
<1>6. \A t \in Int : /\ EffectivePriority(v, t) = p + Age(t, a) + 0
                     /\ EffectivePriority(w, t) = q + Age(t, b) + 0
  BY <1>1, <1>3, <1>5 DEF EffectivePriority
<1> HIDE DEF Age
<1>7. now + 1 \in Int
  OBVIOUS
<1>8. PICK e, e1, f, f1 : /\ e = EffectivePriority(v, now) /\ e1 = EffectivePriority(v, now + 1)
                          /\ f = EffectivePriority(w, now) /\ f1 = EffectivePriority(w, now + 1)
  OBVIOUS
<1>9. /\ e = p + (IF now - a <= 0 THEN 0 ELSE IF now - a >= 10 THEN 1000 ELSE 100 * (now - a))
      /\ e1 = p + (IF now + 1 - a <= 0 THEN 0 ELSE IF now + 1 - a >= 10 THEN 1000 ELSE 100 * (now + 1 - a))
      /\ f = q + (IF now - b <= 0 THEN 0 ELSE IF now - b >= 10 THEN 1000 ELSE 100 * (now - b))
      /\ f1 = q + (IF now + 1 - b <= 0 THEN 0 ELSE IF now + 1 - b >= 10 THEN 1000 ELSE 100 * (now + 1 - b))
  BY <1>4, <1>6, <1>7, <1>8
<1>10. \/ now - a >= 10
       \/ now - a < 10 /\ now - b < 10 /\ (e > f \/ (e = f /\ a < b))
  BY <1>1, <1>8 DEF QueuedBefore, Starved, StarvationMinutes
<1>11. \/ now + 1 - a >= 10
       \/ now + 1 - a < 10 /\ now + 1 - b < 10 /\ (e1 > f1 \/ (e1 = f1 /\ a < b))
  BY <1>1, <1>9, <1>10
<1> QED
  BY <1>1, <1>8, <1>11 DEF QueuedBefore, Starved, StarvationMinutes

-----------------------------------------------------------------------------
(* Shares of a job's units                                                 *)

\* A sum of naturals is a natural.
LEMMA SumOfNaturals ==
  ASSUME NEW S, IsFiniteSet(S), NEW f, \A x \in S : f[x] \in Nat
  PROVE  SumOver(f, S) \in Nat
<1> DEFINE P == {T \in SUBSET S : SumOver(f, T) \in Nat}
<1>1. P \in SUBSET SUBSET S /\ {} \in P
  BY SumOfNothing
<1>2. ASSUME NEW T \in P, NEW x \in S \ T PROVE T \cup {x} \in P
  <2>1. IsFiniteSet(T) /\ \A y \in T \cup {x} : f[y] \in Int
    BY FS_Subset
  <2>2. SumOver(f, T \cup {x}) = f[x] + SumOver(f, T)
    BY <2>1, SumWith
  <2>3. f[x] \in Nat /\ SumOver(f, T) \in Nat
    OBVIOUS
  <2> QED
    BY <2>2, <2>3
<1> HIDE DEF P
<1>3. S \in P
  BY <1>1, <1>2, FiniteInduction
<1> QED
  BY <1>3 DEF P

\* A linear relation between terms holds between the sums.
LEMMA SumLinear ==
  ASSUME NEW S, IsFiniteSet(S), NEW a, NEW b, NEW c, NEW k \in Int, NEW m \in Int,
         \A x \in S : /\ a[x] \in Int /\ b[x] \in Int /\ c[x] \in Int
                      /\ m * c[x] = k * a[x] + b[x]
  PROVE  m * SumOver(c, S) = k * SumOver(a, S) + SumOver(b, S)
<1> DEFINE P == {T \in SUBSET S : m * SumOver(c, T) = k * SumOver(a, T) + SumOver(b, T)}
<1>1. P \in SUBSET SUBSET S
  OBVIOUS
<1>2. {} \in P
  <2>1. SumOver(a, {}) = 0 /\ SumOver(b, {}) = 0 /\ SumOver(c, {}) = 0
    BY SumOfNothing
  <2>2. m * 0 = k * 0 + 0
    OBVIOUS
  <2> QED
    BY <2>1, <2>2
<1>3. ASSUME NEW T \in P, NEW x \in S \ T PROVE T \cup {x} \in P
  <2>1. /\ IsFiniteSet(T) /\ \A y \in T : a[y] \in Int /\ b[y] \in Int /\ c[y] \in Int
        /\ \A y \in T \cup {x} : a[y] \in Int /\ b[y] \in Int /\ c[y] \in Int
    BY FS_Subset
  <2>2. PICK A \in Int, B \in Int, C \in Int : A = SumOver(a, T) /\ B = SumOver(b, T) /\ C = SumOver(c, T)
    BY <2>1, SumType
  <2>3. /\ SumOver(a, T \cup {x}) = a[x] + A /\ SumOver(b, T \cup {x}) = b[x] + B
        /\ SumOver(c, T \cup {x}) = c[x] + C
    BY <2>1, <2>2, SumWith
  <2>4. PICK u \in Int, v \in Int, w \in Int : u = a[x] /\ v = b[x] /\ w = c[x]
    BY <2>1
  <2>5. m * w = k * u + v /\ m * C = k * A + B
    BY <2>2, <2>4
  <2>6. m * (w + C) = m * w + m * C /\ k * (u + A) = k * u + k * A
    OBVIOUS
  <2>7. m * (w + C) = k * (u + A) + (v + B)
    BY <2>5, <2>6
  <2> QED
    BY <2>3, <2>4, <2>7
<1> HIDE DEF P
<1>4. S \in P
  BY <1>1, <1>2, <1>3, FiniteInduction
<1> QED
  BY <1>4 DEF P

\* A sum of bounded terms, most of them 0.
LEMMA SumBounded ==
  ASSUME NEW S, IsFiniteSet(S), NEW X, NEW high \in Nat, NEW f,
         \A x \in S : f[x] \in 0 .. high /\ (x \notin X => f[x] = 0)
  PROVE  SumOver(f, S) <= high * Cardinality(S \cap X)
<1> DEFINE P == {T \in SUBSET S : SumOver(f, T) <= high * Cardinality(T \cap X)}
<1>1. P \in SUBSET SUBSET S
  OBVIOUS
<1>2. {} \in P
  <2>1. SumOver(f, {}) = 0 /\ {} \cap X = {} /\ Cardinality({}) = 0
    BY SumOfNothing, FS_EmptySet
  <2>2. 0 <= high * 0
    OBVIOUS
  <2>3. Cardinality({} \cap X) = 0
    BY <2>1
  <2> QED
    BY <2>1, <2>2, <2>3
<1>3. ASSUME NEW T \in P, NEW x \in S \ T PROVE T \cup {x} \in P
  <2>1. IsFiniteSet(T) /\ \A y \in T \cup {x} : f[y] \in Int
    BY FS_Subset
  <2>2. SumOver(f, T \cup {x}) = f[x] + SumOver(f, T)
    BY <2>1, SumWith
  <2>3. PICK A : A = T \cap X
    OBVIOUS
  <2>4. A \in SUBSET T
    BY <2>3
  <2>5. IsFiniteSet(A)
    BY <2>1, <2>4, FS_Subset
  <2>6. PICK n \in Nat : n = Cardinality(A)
    BY <2>5, FS_CardinalityType
  <2>7. PICK s \in Int : s = SumOver(f, T)
    BY <2>1, SumType
  <2>8. s <= high * n
    BY <2>3, <2>6, <2>7
  <2>9. CASE x \in X
    <3>1. (T \cup {x}) \cap X = A \cup {x} /\ x \notin A
      BY <2>3, <2>9
    <3>2. Cardinality((T \cup {x}) \cap X) = n + 1
      BY <3>1, <2>5, <2>6, FS_AddElement
    <3>3. f[x] + s <= high * (n + 1)
      <4>1. PICK v \in 0 .. high : v = f[x]
        OBVIOUS
      <4>2. high * (n + 1) = high * n + high
        OBVIOUS
      <4>3. PICK y \in Int : y = high * n
        OBVIOUS
      <4> QED
        BY <2>8, <4>1, <4>2, <4>3
    <3> QED
      BY <2>2, <2>7, <3>2, <3>3
  <2>10. CASE x \notin X
    <3>1. (T \cup {x}) \cap X = A /\ f[x] = 0
      BY <2>3, <2>10
    <3>2. f[x] + s = s
      BY <3>1
    <3> QED
      BY <2>2, <2>6, <2>7, <2>8, <3>1, <3>2
  <2> QED
    BY <2>9, <2>10
<1> HIDE DEF P
<1>4. S \in P
  BY <1>1, <1>2, <1>3, FiniteInduction
<1> QED
  BY <1>4 DEF P

\* Ones summed are counted.
LEMMA SumOfMembers ==
  ASSUME NEW S, IsFiniteSet(S), NEW X, NEW f,
         \A x \in S : f[x] = IF x \in X THEN 1 ELSE 0
  PROVE  SumOver(f, S) = Cardinality(S \cap X)
<1> DEFINE P == {T \in SUBSET S : SumOver(f, T) = Cardinality(T \cap X)}
<1>1. P \in SUBSET SUBSET S
  OBVIOUS
<1>2. {} \in P
  <2>1. SumOver(f, {}) = 0 /\ {} \cap X = {} /\ Cardinality({}) = 0
    BY SumOfNothing, FS_EmptySet
  <2>2. Cardinality({} \cap X) = 0
    BY <2>1
  <2> QED
    BY <2>1, <2>2
<1>3. ASSUME NEW T \in P, NEW x \in S \ T PROVE T \cup {x} \in P
  <2>1. IsFiniteSet(T) /\ \A y \in T \cup {x} : f[y] \in Int
    BY FS_Subset
  <2>2. SumOver(f, T \cup {x}) = f[x] + SumOver(f, T)
    BY <2>1, SumWith
  <2>3. PICK A : A = T \cap X
    OBVIOUS
  <2>4. A \in SUBSET T
    BY <2>3
  <2>5. IsFiniteSet(A)
    BY <2>1, <2>4, FS_Subset
  <2>6. PICK n \in Nat : n = Cardinality(A) /\ n = SumOver(f, T)
    BY <2>3, <2>5, FS_CardinalityType
  <2>7. CASE x \in X
    <3>1. (T \cup {x}) \cap X = A \cup {x} /\ x \notin A
      BY <2>3, <2>7
    <3>2. Cardinality((T \cup {x}) \cap X) = n + 1
      <4>1. Cardinality(A \cup {x}) = Cardinality(A) + 1
        BY <3>1, <2>5, FS_AddElement
      <4> QED
        BY <3>1, <4>1, <2>6
    <3>3. f[x] = 1 /\ 1 + n = n + 1
      BY <2>7
    <3> QED
      BY <2>2, <2>6, <3>2, <3>3
  <2>8. CASE x \notin X
    <3>1. (T \cup {x}) \cap X = A /\ f[x] = 0 /\ 0 + n = n
      BY <2>3, <2>8
    <3> QED
      BY <2>2, <2>6, <3>1
  <2> QED
    BY <2>7, <2>8
<1> HIDE DEF P
<1>4. S \in P
  BY <1>1, <1>2, <1>3, FiniteInduction
<1> QED
  BY <1>4 DEF P

\* Quotient and remainder.
LEMMA DivisionRule ==
  ASSUME NEW a \in Int, NEW b \in Int, b > 0
  PROVE  /\ a \div b \in Int /\ a % b \in 0 .. b - 1
         /\ a = b * (a \div b) + (a % b)
  OBVIOUS

\* The quotient of naturals.
LEMMA QuotientNatural ==
  ASSUME NEW a \in Nat, NEW b \in Nat, b # 0
  PROVE  a \div b \in Nat /\ b * (a \div b) <= a
<1>1. PICK q \in Int, r \in Int : q = a \div b /\ r = a % b
  BY DivisionRule
<1>2. a = b * q + r /\ r \in 0 .. b - 1
  BY <1>1, DivisionRule
<1>3. ASSUME q < 0 PROVE FALSE
  <2>1. PICK k \in Nat : k = -q - 1
    BY <1>3
  <2>2. b * q = -(b * k) - b
    BY <2>1
  <2>3. b * k >= 0
    OBVIOUS
  <2>4. PICK x \in Int : x = b * k
    OBVIOUS
  <2> QED
    BY <1>2, <2>2, <2>3, <2>4
<1> QED
  BY <1>1, <1>2, <1>3

\* The first m of an order.
Firsts(order, m) == {order[k] : k \in 1 .. m}
\* Larger remainders first.
ByFraction(r, n) == {p \in (1 .. n) \X (1 .. n) : r[p[1]] > r[p[2]]}

\* The first m of a permutation are m.
LEMMA FirstOnesCounted ==
  ASSUME NEW n \in Nat, NEW order, PermutationOf(order, n), NEW m \in 0 .. n
  PROVE  /\ Firsts(order, m) \subseteq 1 .. n
         /\ IsFiniteSet(Firsts(order, m)) /\ Cardinality(Firsts(order, m)) = m
<1> DEFINE T == {order[k] : k \in 1 .. m}
           f == [k \in 1 .. m |-> order[k]]
<1>1. PICK S : S = 1 .. m
  OBVIOUS
<1>2. IsFiniteSet(S) /\ Cardinality(S) = m
  <2>1. PICK a \in Int : a = 1
    OBVIOUS
  <2>2. m \in Int
    OBVIOUS
  <2>3. IsFiniteSet(a .. m) /\ Cardinality(a .. m) = IF a > m THEN 0 ELSE m - a + 1
    BY <2>2, FS_Interval
  <2> QED
    BY <1>1, <2>1, <2>3
<1>3. \A k \in S : k \in 1 .. n
  BY <1>1
<1>4. \A k, l \in S : order[k] = order[l] => k = l
  BY <1>3 DEF PermutationOf
<1>5. f \in Injection(S, T) /\ f \in Surjection(S, T)
  BY <1>1, <1>4 DEF Injection, Surjection, IsInjective
<1>6. T \subseteq 1 .. n
  BY <1>1, <1>3 DEF PermutationOf
<1> HIDE DEF T, f
<1>7. IsFiniteSet(T) /\ Cardinality(T) = Cardinality(S)
  BY <1>2, <1>5, FS_Surjection
<1> QED
  BY <1>2, <1>6, <1>7 DEF T, Firsts
\* A share less than one unit from its quota.
WithinOne(units, speed, quota, share) ==
  speed * share - units * quota \in 1 - speed .. speed - 1
\* All units are given away, each share within one unit of its quota.
AllocationFair(units, group, shares) ==
  /\ Total(shares) = units
  /\ \A i \in DOMAIN group :
       /\ shares[i] \in Nat
       /\ WithinOne(units, Total([k \in DOMAIN group |-> group[k].speed]), group[i].speed, shares[i])

\* Remainders order the workers.
LEMMA FractionsOrder ==
  ASSUME NEW n \in Nat, NEW r \in [1 .. n -> Nat]
  PROVE  WeakOrder(ByFraction(r, n), n)
<1> DEFINE R == {p \in (1 .. n) \X (1 .. n) : r[p[1]] > r[p[2]]}
<1>1. \A i, j \in 1 .. n : <<i, j>> \in R <=> r[i] > r[j]
  OBVIOUS
<1> HIDE DEF R
<1>2. \A i, j \in 1 .. n : <<i, j>> \in R => <<j, i>> \notin R
  BY <1>1
<1>3. ASSUME NEW i \in 1 .. n, NEW j \in 1 .. n, NEW k \in 1 .. n,
             <<i, j>> \notin R, <<j, k>> \notin R
      PROVE  <<i, k>> \notin R
  BY <1>1, <1>3
<1> QED
  BY <1>2, <1>3 DEF WeakOrder, R, ByFraction

\* The units left over are fewer than the workers, or as many.
LEMMA RemaindersFit ==
  ASSUME NEW n \in Nat, n # 0, NEW speed \in Nat, speed # 0, NEW left \in Int, NEW rest \in Nat,
         speed * left = rest, rest <= (speed - 1) * n
  PROVE  left \in 0 .. n
<1>1. ASSUME left < 0 PROVE FALSE
  <2>1. PICK k \in Nat : k = -left - 1
    BY <1>1
  <2>2. speed * left = -(speed * k) - speed
    BY <2>1
  <2>3. speed * k >= 0
    OBVIOUS
  <2> QED
    BY <2>2, <2>3
<1>2. ASSUME left > n PROVE FALSE
  <2>1. PICK k \in Nat : k = left - n /\ k > 0
    BY <1>2
  <2>2. speed * left = speed * n + speed * k /\ (speed - 1) * n = speed * n - n
    BY <2>1
  <2>3. speed * k >= 0
    OBVIOUS
  <2>4. PICK a \in Int, b \in Int : a = speed * n /\ b = speed * k
    OBVIOUS
  <2> QED
    BY <2>2, <2>3, <2>4
<1> QED
  BY <1>1, <1>2

\* Only a worker whose quota was rounded down gets one more unit.
LEMMA ExtraHaveRemainder ==
  ASSUME NEW n \in Nat, NEW r, NEW speed \in Nat, speed # 0, NEW left \in 0 .. n,
         r \in [1 .. n -> 0 .. speed - 1], SumOver(r, 1 .. n) = speed * left,
         NEW order, PermutationOf(order, n),
         \A k, l \in 1 .. n : k < l =>
            Precedes(order[k], order[l], ByFraction(r, n)),
         NEW i \in Firsts(order, left)
  PROVE  r[i] > 0
<1> DEFINE R == ByFraction(r, n)
           X == {j \in 1 .. n : r[j] # 0}
<1>1. PICK k \in 1 .. left : i = order[k]
  BY DEF Firsts
<1>2. k \in 1 .. n /\ i \in 1 .. n
  <2>1. k \in 1 .. n
    OBVIOUS
  <2> QED
    BY <1>1, <2>1 DEF PermutationOf
<1>3. SUFFICES ASSUME r[i] = 0 PROVE FALSE
  BY <1>2
<1>4. PICK m \in 0 .. n : m = k - 1 /\ m <= left - 1
  BY <1>1, <1>2
<1>5. ASSUME NEW j \in X PROVE j \in Firsts(order, m)
  <2>1. PICK l \in 1 .. n : order[l] = j
    BY DEF PermutationOf
  <2>2. l # k
    BY <1>1, <1>3, <1>5, <2>1
  <2>3. ASSUME k < l PROVE FALSE
    <3>1. Precedes(i, j, R)
      BY <1>1, <1>2, <2>1, <2>3
    <3>2. <<j, i>> \in R /\ <<i, j>> \notin R
      BY <1>2, <1>3, <1>5 DEF ByFraction
    <3> QED
      BY <3>1, <3>2 DEF Precedes
  <2>4. l \in 1 .. m
    BY <1>2, <1>4, <2>2, <2>3
  <2> QED
    BY <2>1, <2>4 DEF Firsts
<1>6. PICK F : F = Firsts(order, m)
  OBVIOUS
<1>7. IsFiniteSet(F) /\ Cardinality(F) = m
  BY <1>6, FirstOnesCounted
<1>8. X \in SUBSET F
  BY <1>5, <1>6
<1>9. PICK D : D = 1 .. n
  OBVIOUS
<1>10. IsFiniteSet(D) /\ D \cap X = X
  <2>1. PICK a \in Int : a = 1
    OBVIOUS
  <2>2. IsFiniteSet(a .. n)
    BY FS_Interval
  <2> QED
    BY <1>9, <2>1, <2>2
<1>11. PICK high \in Nat : high = speed - 1
  OBVIOUS
<1>12. \A x \in D : r[x] \in 0 .. high /\ (x \notin X => r[x] = 0)
  BY <1>9, <1>11
<1> HIDE DEF X
<1>13. SumOver(r, D) <= high * Cardinality(D \cap X)
  BY <1>10, <1>12, SumBounded
<1>14. IsFiniteSet(X) /\ Cardinality(X) <= m
  BY <1>7, <1>8, FS_Subset
<1>15. PICK c \in Nat : c = Cardinality(X)
  BY <1>14, FS_CardinalityType
<1>16. speed * left <= high * c
  BY <1>9, <1>10, <1>13, <1>15
<1>17. c <= left - 1 /\ left >= 1
  BY <1>1, <1>4, <1>14, <1>15
<1>18. high * c <= high * (left - 1)
  <2>1. PICK d \in Nat : left - 1 = c + d
    BY <1>17
  <2>2. high * (left - 1) = high * c + high * d
    BY <2>1
  <2>3. high * d >= 0
    OBVIOUS
  <2> QED
    BY <2>2, <2>3
<1>19. high * (left - 1) = speed * left - speed - left + 1
  BY <1>11
<1>20. PICK a \in Int, b \in Int, d \in Int :
         a = speed * left /\ b = high * c /\ d = high * (left - 1)
  OBVIOUS
<1>21. a <= b /\ b <= d /\ d = a - speed - left + 1
  BY <1>16, <1>18, <1>19, <1>20
<1> QED
  BY <1>17, <1>21

\* AllocationIsFair: for every number of units and every group of workers the
\* largest-remainder rule gives every unit away and each worker its quota
\* rounded down or up (size_cluster).
THEOREM AllocationIsFair ==
  ASSUME NEW units \in Nat, NEW S, NEW group \in Seq(S), group # <<>>,
         \A w \in S : w.speed \in Nat \ {0}
  PROVE  AllocationFair(units, group, Allocate(units, group))
<1>1. PICK n \in Nat : n = Len(group) /\ DOMAIN group = 1 .. n
  OBVIOUS
<1>2. n # 0
  BY <1>1
<1>3. PICK D : D = 1 .. n
  OBVIOUS
<1>4. IsFiniteSet(D) /\ Cardinality(D) = n
  <2>1. PICK a \in Int : a = 1
    OBVIOUS
  <2>2. IsFiniteSet(a .. n) /\ Cardinality(a .. n) = IF a > n THEN 0 ELSE n - a + 1
    BY FS_Interval
  <2> QED
    BY <1>3, <2>1, <2>2
<1>5. PICK s : s = [i \in D |-> group[i].speed]
  OBVIOUS
<1>6. s \in [D -> Nat \ {0}]
  BY <1>1, <1>3, <1>5
<1>7. PICK speed : speed = SumOver(s, D)
  OBVIOUS
<1>8. speed \in Nat /\ speed # 0
  <2>1. \A x \in D : s[x] \in Nat /\ s[x] \in Int
    BY <1>6
  <2>2. PICK one \in D : TRUE
    BY <1>2, <1>3
  <2>3. speed = s[one] + SumOver(s, D \ {one})
    BY <1>4, <1>7, <2>1, SumWithout
  <2>4. PICK E : E = D \ {one}
    OBVIOUS
  <2>5. IsFiniteSet(E)
    BY <1>4, <2>4, FS_RemoveElement
  <2>6. \A x \in E : s[x] \in Nat
    BY <2>1, <2>4
  <2>7. SumOver(s, E) \in Nat
    BY <2>5, <2>6, SumOfNaturals
  <2>8. s[one] \in Nat \ {0}
    BY <1>6
  <2> QED
    BY <2>3, <2>4, <2>7, <2>8
<1>9. PICK q, r : q = [i \in D |-> (units * s[i]) \div speed] /\ r = [i \in D |-> (units * s[i]) % speed]
  OBVIOUS
<1>10. ASSUME NEW i \in D
       PROVE  /\ q[i] \in Int /\ r[i] \in 0 .. speed - 1 /\ s[i] \in Int
              /\ units * s[i] = speed * q[i] + r[i]
  <2>1. s[i] \in Nat /\ units * s[i] \in Int
    BY <1>6
  <2>2. PICK a \in Int : a = units * s[i]
    BY <2>1
  <2>3. a \div speed \in Int /\ a % speed \in 0 .. speed - 1 /\ a = speed * (a \div speed) + (a % speed)
    BY <1>8, DivisionRule
  <2> QED
    BY <1>9, <2>1, <2>2, <2>3
<1>11. PICK sum \in Int, rest \in Nat : sum = SumOver(q, D) /\ rest = SumOver(r, D)
  <2>1. \A i \in D : q[i] \in Int /\ r[i] \in Nat
    BY <1>8, <1>10
  <2> QED
    BY <1>4, <2>1, SumType, SumOfNaturals
<1>12. units * speed = speed * sum + rest
  <2>1. \A x \in D : /\ q[x] \in Int /\ r[x] \in Int /\ s[x] \in Int
                     /\ units * s[x] = speed * q[x] + r[x]
    BY <1>8, <1>10
  <2>2. units \in Int /\ speed \in Int
    BY <1>8
  <2>3. units * SumOver(s, D) = speed * SumOver(q, D) + SumOver(r, D)
    BY <1>4, <2>1, <2>2, SumLinear
  <2> QED
    BY <1>7, <1>11, <2>3
<1>13. PICK left \in Int : left = units - sum
  OBVIOUS
<1>14. speed * left = rest
  <2>1. speed * left = speed * units - speed * sum
    BY <1>8, <1>13
  <2>2. speed * units = units * speed
    BY <1>8
  <2>3. PICK a \in Int, b \in Int : a = speed * units /\ b = speed * sum
    BY <1>8
  <2> QED
    BY <1>12, <2>1, <2>2, <2>3
<1>15. rest <= (speed - 1) * n
  <2>1. PICK high \in Nat : high = speed - 1
    BY <1>8
  <2>2. \A x \in D : r[x] \in 0 .. high /\ (x \notin D => r[x] = 0)
    BY <1>10, <2>1
  <2>3. SumOver(r, D) <= high * Cardinality(D \cap D)
    BY <1>4, <2>2, SumBounded
  <2>4. D \cap D = D
    OBVIOUS
  <2> QED
    BY <1>4, <1>11, <2>1, <2>3, <2>4
<1>16. left \in 0 .. n
  BY <1>2, <1>8, <1>14, <1>15, RemaindersFit
<1>17. PICK R : R = ByFraction(r, n)
  OBVIOUS
<1>18. PICK order : order = Ranked(n, R)
  OBVIOUS
<1>19. r \in [1 .. n -> 0 .. speed - 1] /\ r \in [1 .. n -> Nat]
  <2>1. DOMAIN r = 1 .. n /\ r = [i \in 1 .. n |-> r[i]]
    BY <1>3, <1>9
  <2>2. \A i \in 1 .. n : r[i] \in 0 .. speed - 1
    BY <1>3, <1>10
  <2>3. \A i \in 1 .. n : r[i] \in Nat
    BY <1>8, <2>2
  <2>4. PICK B : B = 0 .. speed - 1
    OBVIOUS
  <2>5. r \in [1 .. n -> B]
    BY <2>1, <2>2, <2>4
  <2> QED
    BY <2>1, <2>3, <2>4, <2>5
<1>20. WeakOrder(R, n)
  BY <1>17, <1>19, FractionsOrder
<1>21. PermutationOf(order, n) /\ \A k, l \in 1 .. n : k < l <=> Precedes(order[k], order[l], R)
  BY <1>18, <1>20, RankedSorts
<1>22. PICK extra : extra = Firsts(order, left)
  OBVIOUS
<1>23. extra \subseteq D /\ Cardinality(extra) = left
  BY <1>3, <1>16, <1>21, <1>22, FirstOnesCounted
<1>24. ASSUME NEW i \in extra PROVE r[i] > 0
  <2>1. SumOver(r, 1 .. n) = speed * left
    BY <1>3, <1>11, <1>14
  <2>2. \A k, l \in 1 .. n : k < l =>
            Precedes(order[k], order[l], ByFraction(r, n))
    BY <1>17, <1>21
  <2>3. i \in Firsts(order, left)
    BY <1>22
  <2> QED
    BY <1>8, <1>16, <1>19, <1>21, <2>1, <2>2, <2>3, ExtraHaveRemainder
<1>25. PICK shares : shares = [i \in D |-> q[i] + IF i \in extra THEN 1 ELSE 0]
  OBVIOUS
<1> DEFINE speeds == [i \in DOMAIN group |-> group[i].speed]
           floored == [i \in DOMAIN group |-> (units * group[i].speed) \div Total(speeds)]
           fraction == [i \in DOMAIN group |-> (units * group[i].speed) % Total(speeds)]
           ranking == Order(Len(group), LAMBDA i, j : fraction[i] > fraction[j])
           given == {ranking[k] : k \in 1 .. units - Total(floored)}
<1>a. Total(s) = speed /\ Total(q) = sum
  <2>1. DOMAIN s = D /\ DOMAIN q = D
    BY <1>5, <1>9
  <2> QED
    BY <2>1, <1>7, <1>11 DEF Total, SumOver
<1>b. Allocate(units, group) = [i \in DOMAIN group |-> floored[i] + IF i \in given THEN 1 ELSE 0]
  BY DEF Allocate
<1>26. Allocate(units, group) = shares
  <2>1. speeds = s
    BY <1>1, <1>3, <1>5
  <2>2. Total(speeds) = speed
    BY <1>a, <2>1, Zenon
  <2>3. floored = [i \in DOMAIN group |-> (units * group[i].speed) \div speed]
    BY <2>2, Zenon
  <2>4. fraction = [i \in DOMAIN group |-> (units * group[i].speed) % speed]
    BY <2>2, Zenon
  <2> HIDE DEF speeds
  <2>5. floored = q
    <3> HIDE DEF floored
    <3> QED
      BY <1>1, <1>3, <1>5, <1>9, <2>3
  <2>6. fraction = r
    <3> HIDE DEF fraction
    <3> QED
      BY <1>1, <1>3, <1>5, <1>9, <2>4
  <2> HIDE DEF fraction, floored
  <2>7. ranking = Ranked(n, {p \in (1 .. n) \X (1 .. n) : fraction[p[1]] > fraction[p[2]]})
    BY <1>1 DEF Order
  <2>8. ranking = Ranked(n, {p \in (1 .. n) \X (1 .. n) : r[p[1]] > r[p[2]]})
    <3> HIDE DEF ranking
    <3> QED
      BY <2>6, <2>7, Zenon
  <2>9. given = {order[k] : k \in 1 .. units - sum}
    <3>1. ranking = order
      <4> HIDE DEF ranking
      <4> QED
        BY <1>17, <1>18, <2>8 DEF ByFraction
    <3>2. Total(floored) = sum
      BY <1>a, <2>5, Zenon
    <3> HIDE DEF ranking
    <3> QED
      BY <3>1, <3>2, Zenon
  <2>10. given = extra
    <3> HIDE DEF given
    <3> QED
      BY <1>13, <1>22, <2>9 DEF Firsts
  <2> HIDE DEF given
  <2> QED
    BY <1>b, <1>1, <1>3, <1>25, <2>5, <2>10
<1>27. Total(shares) = units
  <2>1. PICK f : f = [i \in D |-> IF i \in extra THEN 1 ELSE 0]
    OBVIOUS
  <2>2. \A i \in D : f[i] = IF i \in extra THEN 1 ELSE 0
    BY <2>1
  <2>3. SumOver(f, D) = Cardinality(D \cap extra)
    BY <1>4, <2>2, SumOfMembers
  <2>4. D \cap extra = extra
    BY <1>23
  <2>5. PICK one \in Int : one = 1
    OBVIOUS
  <2>6. \A i \in D : /\ q[i] \in Int /\ f[i] \in Int /\ shares[i] \in Int
                     /\ one * shares[i] = one * q[i] + f[i]
    BY <1>10, <1>25, <2>2, <2>5
  <2>7. one * SumOver(shares, D) = one * SumOver(q, D) + SumOver(f, D)
    BY <1>4, <2>6, SumLinear
  <2>8. SumOver(shares, D) \in Int
    BY <1>4, <2>6, SumType
  <2>9. SumOver(f, D) = left
    BY <1>23, <2>3, <2>4
  <2>10. SumOver(shares, D) = sum + left
    BY <1>11, <2>5, <2>7, <2>8, <2>9
  <2>11. sum + left = units
    BY <1>13
  <2>12. DOMAIN shares = D
    BY <1>25
  <2> QED
    BY <2>10, <2>11, <2>12 DEF Total, SumOver
<1>28. ASSUME NEW i \in D PROVE WithinOne(units, speed, group[i].speed, shares[i])
  <2>1. PICK x \in Int, y \in Int, a \in Int : x = q[i] /\ y = r[i] /\ a = units * s[i]
    BY <1>10
  <2>2. a = speed * x + y /\ y \in 0 .. speed - 1
    BY <1>10, <2>1
  <2>3. s[i] = group[i].speed
    BY <1>5
  <2>4. CASE i \in extra
    <3>1. shares[i] = x + 1 /\ y > 0
      BY <1>24, <1>25, <2>1, <2>4
    <3>2. speed * (x + 1) = speed * x + speed
      BY <1>8
    <3>3. PICK p \in Int : p = speed * x
      BY <1>8
    <3>4. speed * (x + 1) - a \in 1 - speed .. speed - 1
      BY <1>8, <2>2, <3>1, <3>2, <3>3
    <3> QED
      BY <2>1, <2>3, <3>1, <3>4 DEF WithinOne
  <2>5. CASE i \notin extra
    <3>1. shares[i] = x
      BY <1>25, <2>1, <2>5
    <3>2. PICK p \in Int : p = speed * x
      BY <1>8
    <3>3. speed * x - a \in 1 - speed .. speed - 1
      BY <1>8, <2>2, <3>2
    <3> QED
      BY <2>1, <2>3, <3>1, <3>3 DEF WithinOne
  <2> QED
    BY <2>4, <2>5
<1>29. Total([k \in DOMAIN group |-> group[k].speed]) = speed
  <2>1. [k \in DOMAIN group |-> group[k].speed] = s
    BY <1>1, <1>3, <1>5
  <2> QED
    BY <1>a, <2>1, Zenon
<1>30. ASSUME NEW i \in D PROVE shares[i] \in Nat
  <2>1. units * s[i] \in Nat
    BY <1>6
  <2>2. PICK a \in Nat : a = units * s[i]
    BY <2>1
  <2>3. q[i] = a \div speed
    BY <1>9, <2>2
  <2>4. q[i] \in Nat
    BY <1>8, <2>3, QuotientNatural
  <2> QED
    BY <1>25, <2>4
<1> QED
  BY <1>1, <1>3, <1>26, <1>27, <1>28, <1>29, <1>30 DEF AllocationFair

-----------------------------------------------------------------------------
(* The size of a cluster                                                   *)

\* A bounded set of naturals has a greatest element.
LEMMA MaxOfBounded ==
  ASSUME NEW n \in Nat, NEW S \in SUBSET (0 .. n), S # {}
  PROVE  Max(S) \in S /\ \A y \in S : y <= Max(S)
<1>0. \A y \in S : y \in Int
  OBVIOUS
<1> DEFINE T == {n - y : y \in S}
<1>1. T \in SUBSET Nat /\ T # {}
  <2>1. \A y \in S : n - y \in Nat
    OBVIOUS
  <2> QED
    BY <2>1
<1>2. PICK a \in T : \A b \in T : a <= b
  BY <1>1, LeastNatural
<1>3. PICK x \in S : a = n - x
  OBVIOUS
<1>4. ASSUME NEW y \in S PROVE x >= y
  <2>1. n - y \in T
    OBVIOUS
  <2>2. x \in Int /\ y \in Int
    BY <1>0, Zenon
  <2>3. a <= n - y
    BY <1>2, <2>1
  <2> QED
    BY <1>3, <2>2, <2>3
<1>5. Max(S) \in S /\ \A y \in S : Max(S) >= y
  BY <1>4 DEF Max
<1> QED
  BY <1>5

\* A finite sequence of integers has a greatest term.
LEMMA GreatestTerm ==
  ASSUME NEW n \in Nat, n # 0, NEW f \in [1 .. n -> Int]
  PROVE  \E k \in 1 .. n : \A i \in 1 .. n : f[i] <= f[k]
<1> DEFINE N == {m \in Nat : m \in 1 .. n => \E k \in 1 .. m : \A i \in 1 .. m : f[i] <= f[k]}
<1>1. N \in SUBSET Nat /\ 0 \in N
  OBVIOUS
<1>2. ASSUME NEW m \in N PROVE m + 1 \in N
  <2>1. m \in Nat /\ m + 1 \in Nat
    OBVIOUS
  <2>2. SUFFICES ASSUME m + 1 \in 1 .. n
                 PROVE  \E k \in 1 .. m + 1 : \A i \in 1 .. m + 1 : f[i] <= f[k]
    BY <2>1
  <2>3. CASE m = 0
    BY <2>1, <2>2, <2>3
  <2>4. CASE m # 0
    <3>1. m \in 1 .. n
      BY <2>1, <2>2, <2>4
    <3>2. PICK k \in 1 .. m : \A i \in 1 .. m : f[i] <= f[k]
      BY <3>1
    <3>3. CASE f[m + 1] <= f[k]
      <4>1. \A i \in 1 .. m + 1 : f[i] <= f[k]
        BY <2>1, <3>2, <3>3
      <4> QED
        BY <2>1, <4>1
    <3>4. CASE ~(f[m + 1] <= f[k])
      <4>1. \A i \in 1 .. m + 1 : f[i] <= f[m + 1]
        BY <2>1, <2>2, <3>1, <3>2, <3>4
      <4> QED
        BY <2>1, <4>1
    <3> QED
      BY <3>3, <3>4
  <2> QED
    BY <2>3, <2>4
<1>3. n \in 1 .. n
  OBVIOUS
<1> HIDE DEF N
<1>4. N = Nat
  BY <1>1, <1>2, Induction
<1> QED
  BY <1>3, <1>4 DEF N

\* If some group is within the limit, a first one is found.
LEMMA FirstWithinFound ==
  ASSUME NEW n \in Nat, NEW walls \in [1 .. n -> Int], NEW limit \in Int,
         NEW j \in 1 .. n, walls[j] <= limit
  PROVE  FirstWithin(walls, limit) # {}
<1> DEFINE T == {k \in 1 .. n : walls[k] <= limit}
<1>1. T \in SUBSET Nat /\ T # {}
  OBVIOUS
<1>2. PICK k \in T : \A i \in T : k <= i
  BY <1>1, LeastNatural
<1>3. k \in 1 .. n /\ walls[k] <= limit
  OBVIOUS
<1>4. ASSUME NEW i \in 1 .. k - 1 PROVE walls[i] > limit
  <2>1. i \in 1 .. n /\ i < k
    BY <1>3
  <2>2. i \notin T
    BY <1>2, <1>3, <2>1
  <2> QED
    BY <2>1, <2>2
<1> QED
  BY <1>3, <1>4 DEF FirstWithin

\* What is found is within the limit.
LEMMA FirstWithinMeets ==
  ASSUME NEW n \in Nat, NEW walls \in [1 .. n -> Int], NEW limit, NEW k \in FirstWithin(walls, limit)
  PROVE  k \in 1 .. n /\ walls[k] <= limit
  BY DEF FirstWithin

\* Some group is the fastest, and none is faster.
LEMMA FastestFound ==
  ASSUME NEW n \in Nat, n # 0, NEW walls \in [1 .. n -> Nat]
  PROVE  Fastest(walls) \in 1 .. n /\ \A i \in 1 .. n : walls[Fastest(walls)] <= walls[i]
<1> DEFINE T == {walls[k] : k \in 1 .. n}
<1>1. T \in SUBSET Nat /\ T # {}
  OBVIOUS
<1>2. PICK least \in T : \A y \in T : least <= y
  BY <1>1, LeastNatural
<1> DEFINE K == {k \in 1 .. n : walls[k] = least}
<1>3. K \in SUBSET Nat /\ K # {}
  OBVIOUS
<1>4. PICK k \in K : \A i \in K : k <= i
  BY <1>3, LeastNatural
<1>5. k \in 1 .. n /\ walls[k] = least
  OBVIOUS
<1>6. \A i \in 1 .. n : walls[k] <= walls[i]
  BY <1>2, <1>5
<1>7. ASSUME NEW i \in 1 .. k - 1 PROVE walls[k] < walls[i]
  <2>1. i \in 1 .. n /\ i < k
    BY <1>5
  <2>2. walls[i] # least
    BY <1>4, <1>5, <2>1
  <2> QED
    BY <1>5, <1>6, <2>1, <2>2
<1>8. DOMAIN walls = 1 .. n
  OBVIOUS
<1> QED
  BY <1>5, <1>6, <1>7, <1>8 DEF Fastest

\* Group size k meets the deadline if any does, else it is the fastest.
Fitting(walls, k, deadline) ==
  /\ k \in DOMAIN walls
  /\ (\E i \in DOMAIN walls : walls[i] <= deadline) => walls[k] <= deadline
  /\ walls[k] <= deadline \/ \A i \in DOMAIN walls : walls[k] <= walls[i]

\* The reserve of ten per cent never costs a deadline that can be met.
LEMMA DeadlineMetIfPossible ==
  ASSUME NEW n \in Nat, n # 0, NEW walls \in [1 .. n -> Nat], NEW deadline \in Nat
  PROVE  Fitting(walls, MeetDeadline(walls, deadline), deadline)
<1>1. PICK k : k = MeetDeadline(walls, deadline)
  OBVIOUS
<1>2. PICK tens : tens = [i \in DOMAIN walls |-> 10 * walls[i]]
  OBVIOUS
<1>3. DOMAIN walls = 1 .. n /\ tens \in [1 .. n -> Int] /\ \A i \in 1 .. n : tens[i] = 10 * walls[i]
  BY <1>2
<1>4. PICK safe, strict, nine : /\ safe = FirstWithin(tens, nine) /\ strict = FirstWithin(walls, deadline)
                                /\ nine = 9 * deadline
  OBVIOUS
<1>5. k = IF safe # {} THEN CHOOSE i \in safe : TRUE
          ELSE IF strict # {} THEN CHOOSE i \in strict : TRUE ELSE Fastest(walls)
  BY <1>1, <1>2, <1>4 DEF MeetDeadline
<1>6. walls \in [1 .. n -> Int]
  OBVIOUS
<1>7. CASE safe # {}
  <2>1. k \in safe
    BY <1>5, <1>7
  <2>2. k \in 1 .. n /\ tens[k] <= nine
    BY <1>3, <1>4, <2>1, FirstWithinMeets
  <2>3. walls[k] <= deadline
    BY <1>3, <1>4, <2>2
  <2> QED
    BY <1>1, <1>3, <2>2, <2>3 DEF Fitting
<1>8. CASE safe = {} /\ strict # {}
  <2>1. k \in strict
    BY <1>5, <1>8
  <2>2. k \in 1 .. n /\ walls[k] <= deadline
    BY <1>4, <1>6, <2>1, FirstWithinMeets
  <2> QED
    BY <1>1, <1>3, <2>2 DEF Fitting
<1>9. CASE safe = {} /\ strict = {}
  <2>1. k = Fastest(walls)
    BY <1>5, <1>9
  <2>2. k \in 1 .. n /\ \A i \in 1 .. n : walls[k] <= walls[i]
    BY <2>1, FastestFound
  <2>3. ~ \E i \in 1 .. n : walls[i] <= deadline
    <3>1. ASSUME NEW i \in 1 .. n, walls[i] <= deadline PROVE FALSE
      <4>1. FirstWithin(walls, deadline) # {}
        BY <1>6, <3>1, FirstWithinFound
      <4> QED
        BY <1>4, <1>9, <4>1
    <3> QED
      BY <3>1
  <2> QED
    BY <1>1, <1>3, <2>2, <2>3 DEF Fitting
<1> QED
  BY <1>7, <1>8, <1>9

\* Every worker up to the k-th saves fifteen per cent, the next one would
\* not.
Paying(walls, k) ==
  /\ k \in DOMAIN walls
  /\ \A i \in 2 .. k : walls[i] < walls[i - 1] /\ 20 * walls[i] <= 17 * walls[i - 1]
  /\ k + 1 \in DOMAIN walls => walls[k + 1] >= walls[k] \/ 20 * walls[k + 1] > 17 * walls[k]

\* Without a deadline the cluster grows while each worker pays.
LEMMA EveryWorkerPays ==
  ASSUME NEW n \in Nat, n # 0, NEW walls \in [1 .. n -> Nat]
  PROVE  Paying(walls, Expand(walls))
<1> DEFINE S == {k \in DOMAIN walls : \A i \in 2 .. k : Saves(walls, i)}
<1>1. DOMAIN walls = 1 .. n /\ S \in SUBSET (0 .. n) /\ 1 \in S
  OBVIOUS
<1>2. PICK k : k = Max(S)
  OBVIOUS
<1>3. k \in S /\ \A y \in S : y <= k
  <2> HIDE DEF S
  <2> QED
    BY <1>1, <1>2, MaxOfBounded
<1>4. k \in 1 .. n /\ \A i \in 2 .. k : Saves(walls, i)
  BY <1>1, <1>3
<1>5. k = Expand(walls)
  BY <1>2 DEF Expand
<1>6. ASSUME NEW i \in 2 .. k PROVE walls[i] < walls[i - 1] /\ 20 * walls[i] <= 17 * walls[i - 1]
  <2>1. i \in 1 .. n /\ i - 1 \in 1 .. n
    BY <1>4
  <2> QED
    BY <1>4, <2>1 DEF Saves
<1>7. ASSUME k + 1 \in 1 .. n PROVE walls[k + 1] >= walls[k] \/ 20 * walls[k + 1] > 17 * walls[k]
  <2>1. k + 1 \notin S
    BY <1>3, <1>4
  <2>2. PICK i \in 2 .. k + 1 : ~Saves(walls, i)
    BY <1>1, <1>7, <2>1
  <2>3. i = k + 1
    BY <1>4, <2>2
  <2>4. k + 1 - 1 = k /\ walls[k] \in Nat /\ walls[k + 1] \in Nat
    BY <1>4, <1>7
  <2>5. ~(walls[i] < walls[i - 1] /\ 100 * (walls[i - 1] - walls[i]) >= 15 * walls[i - 1])
    BY <2>2 DEF Saves
  <2>6. i - 1 = k
    BY <1>4, <2>3
  <2>7. PICK x \in Nat, y \in Nat : x = walls[i - 1] /\ y = walls[i]
    BY <2>3, <2>4, <2>6
  <2>a. ~(y < x /\ 100 * (x - y) >= 15 * x)
    BY <2>5, <2>7, Zenon
  <2>8. y >= x \/ 20 * y > 17 * x
    BY <2>a
  <2> QED
    BY <2>3, <2>6, <2>7, <2>8
<1> QED
  BY <1>1, <1>4, <1>5, <1>6, <1>7 DEF Paying

\* Requests for a cluster.
SizingRequest(r) ==
  /\ r.units \in Nat /\ r.overhead \in Nat /\ r.minUnits \in Nat \ {0} /\ r.partitionable \in BOOLEAN
  /\ r.limit \in {None} \cup (Nat \ {0}) /\ r.deadline \in {None} \cup Nat
\* Workers that are eligible for it.
Runner(w) == w.id \in Nat /\ w.speed \in Nat \ {0} /\ w.transfer \in Nat

\* Times are naturals.
LEMMA TimeType ==
  ASSUME NEW units \in Nat, NEW w, Runner(w)
  PROVE  ComputeTime(units, w) \in Nat
<1>1. PICK a \in Nat, b \in Nat : a = Tick * units /\ b = w.speed /\ b # 0
  BY DEF Tick, Runner
<1>2. a \div b \in Nat
  BY <1>1, QuotientNatural
<1> QED
  BY <1>1, <1>2 DEF ComputeTime

\* So is the time a group takes.
LEMMA WallClockType ==
  ASSUME NEW r, SizingRequest(r), NEW W, \A w \in W : Runner(w), NEW group \in Seq(W), group # <<>>
  PROVE  WallClock(r, group) \in Nat
<1>1. PICK n \in Nat : n = Len(group) /\ DOMAIN group = 1 .. n /\ n # 0
  OBVIOUS
<1>2. PICK units : units = r.units
  OBVIOUS
<1>3. PICK shares : shares = Allocate(units, group)
  OBVIOUS
<1>4. units \in Nat /\ \A w \in W : w.speed \in Nat \ {0}
  BY <1>2 DEF SizingRequest, Runner
<1>5. AllocationFair(units, group, shares)
  BY <1>3, <1>4, AllocationIsFair
<1>6. \A i \in 1 .. n : shares[i] \in Nat
  BY <1>1, <1>5 DEF AllocationFair
<1>7. PICK f : f = [i \in 1 .. n |-> group[i].transfer + ComputeTime(shares[i], group[i])]
  OBVIOUS
<1>8. ASSUME NEW i \in 1 .. n PROVE f[i] \in Nat
  <2>1. group[i] \in W
    BY <1>1
  <2>2. PICK w : w = group[i]
    OBVIOUS
  <2>3. Runner(w)
    BY <2>1, <2>2
  <2>4. PICK u \in Nat : u = shares[i]
    BY <1>6
  <2>5. ComputeTime(u, w) \in Nat
    BY <2>3, TimeType
  <2> QED
    BY <1>7, <2>2, <2>3, <2>4, <2>5 DEF Runner
<1>9. f \in [1 .. n -> Int] /\ f \in [1 .. n -> Nat]
  BY <1>7, <1>8
<1>10. PICK k \in 1 .. n : \A i \in 1 .. n : f[i] <= f[k]
  BY <1>1, <1>9, GreatestTerm
<1>11. PICK S : S = {f[i] : i \in 1 .. n}
  OBVIOUS
<1>12. f[k] \in S /\ \A y \in S : f[k] >= y
  BY <1>9, <1>10, <1>11
<1>13. Max(S) \in S
  BY <1>12 DEF Max
<1>14. Max(S) \in Nat
  BY <1>9, <1>11, <1>13
<1>15. {group[i].transfer + ComputeTime(shares[i], group[i]) : i \in DOMAIN group} = S
  BY <1>1, <1>7, <1>11
<1>16. PICK over \in Nat : over = r.overhead
  BY DEF SizingRequest
<1>17. (n - 1) * over \in Nat
  <2>1. PICK m \in Nat : m = n - 1
    BY <1>1
  <2> QED
    BY <2>1
<1>18. WallClock(r, group) = Max(S) + Tick * (Len(group) - 1) * r.overhead
  BY <1>2, <1>3, <1>15, Zenon DEF WallClock
<1>19. Tick * (n - 1) * over \in Nat
  <2>1. PICK m \in Nat : m = 6 * (n - 1)
    BY <1>1
  <2>2. m * over \in Nat
    OBVIOUS
  <2> QED
    BY <1>1, <2>1, <2>2 DEF Tick
<1> QED
  BY <1>1, <1>14, <1>16, <1>18, <1>19

\* The largest group tried respects the limit and the units a worker needs.
LEMMA MaxGroupWithin ==
  ASSUME NEW r, SizingRequest(r), NEW workers, Len(workers) \in Nat \ {0}
  PROVE  LET most == MaxGroup(r, workers)
         IN /\ most \in 1 .. Len(workers) /\ (r.limit # None => most <= r.limit)
            /\ most * r.minUnits <= Max({r.units, r.minUnits})
<1>1. PICK n \in Nat, units \in Nat, least \in Nat, one \in Nat :
         n = Len(workers) /\ units = r.units /\ least = r.minUnits /\ one = 1 /\ n # 0 /\ least # 0
  BY DEF SizingRequest
<1>2. PICK quotient : quotient = units \div least
  OBVIOUS
<1>3. quotient \in Nat /\ least * quotient <= units
  BY <1>1, <1>2, QuotientNatural
<1>4. PICK many : many = Max({one, quotient})
  OBVIOUS
<1>5. many \in {one, quotient} /\ many >= one
  <2>1. one \in Int /\ quotient \in Int
    BY <1>3
  <2>2. Max({one, quotient}) \in {one, quotient} /\ Max({one, quotient}) >= one
    BY <2>1, MinOfTwo
  <2> QED
    BY <1>4, <2>2
<1>6. many \in Nat /\ many # 0
  BY <1>1, <1>3, <1>5
<1>7. PICK biggest : biggest = Max({units, least})
  OBVIOUS
<1>8. biggest \in {units, least} /\ biggest >= units /\ biggest >= least
  <2>1. units \in Int /\ least \in Int
    OBVIOUS
  <2>2. /\ Max({units, least}) \in {units, least}
        /\ Max({units, least}) >= units /\ Max({units, least}) >= least
    BY <2>1, MinOfTwo
  <2> QED
    BY <1>7, <2>2
<1>9. many * least <= biggest
  <2>1. CASE many = one
    BY <1>1, <1>8, <2>1
  <2>2. CASE many = quotient
    <3>1. many * least = least * quotient
      BY <1>3, <2>2
    <3>2. PICK x \in Int : x = least * quotient
      BY <1>3
    <3> QED
      BY <1>3, <1>8, <3>1, <3>2
  <2> QED
    BY <1>5, <2>1, <2>2
<1>10. PICK low : low = Min({n, many} \cup IF r.limit = None THEN {} ELSE {r.limit})
  OBVIOUS
<1>11. low \in Nat /\ low # 0 /\ low <= n /\ low <= many /\ (r.limit # None => low <= r.limit)
  <2>1. CASE r.limit = None
    <3>1. low = Min({n, many})
      BY <1>10, <2>1
    <3>2. low \in {n, many} /\ low <= n /\ low <= many
      <4>1. n \in Int /\ many \in Int
        BY <1>6
      <4>2. Min({n, many}) \in {n, many} /\ Min({n, many}) <= n /\ Min({n, many}) <= many
        BY <4>1, MinOfTwo
      <4> QED
        BY <3>1, <4>2
    <3> QED
      BY <1>1, <1>6, <2>1, <3>2
  <2>2. CASE r.limit # None
    <3>1. PICK limit \in Nat : limit = r.limit /\ limit # 0
      BY <2>2 DEF SizingRequest
    <3>2. {n, many} \cup {limit} = {n, many, limit}
      OBVIOUS
    <3>3. low = Min({n, many, limit})
      BY <1>10, <2>2, <3>1, <3>2
    <3>4. low \in {n, many, limit} /\ \A y \in {n, many, limit} : low <= y
      <4>1. n \in Int /\ many \in Int /\ limit \in Int
        BY <1>6
      <4>2. /\ Min({n, many, limit}) \in {n, many, limit}
            /\ \A y \in {n, many, limit} : Min({n, many, limit}) <= y
        BY <4>1, MinOfThree
      <4> QED
        BY <3>3, <4>2
    <3> QED
      BY <1>1, <1>6, <3>1, <3>4
  <2> QED
    BY <2>1, <2>2
<1>12. PICK most : most = Max({one, low})
  OBVIOUS
<1>13. most = low
  <2>1. most \in {one, low} /\ most >= low
    <3>1. one \in Int /\ low \in Int
      BY <1>11
    <3>2. Max({one, low}) \in {one, low} /\ Max({one, low}) >= low
      BY <3>1, MinOfTwo
    <3> QED
      BY <1>12, <3>2
  <2> QED
    BY <1>1, <1>11, <2>1
<1>14. MaxGroup(r, workers) = most
  BY <1>1, <1>2, <1>4, <1>10, <1>12, Zenon DEF MaxGroup
<1>15. most * least <= biggest
  <2>1. PICK d \in Nat : many = most + d
    BY <1>6, <1>11, <1>13
  <2>2. many * least = most * least + d * least
    BY <1>11, <1>13, <2>1
  <2>3. d * least >= 0
    OBVIOUS
  <2>4. PICK x \in Int, y \in Int, z \in Int : x = many * least /\ y = most * least /\ z = d * least
    BY <1>6, <1>11, <1>13
  <2>5. biggest \in Int
    BY <1>8
  <2> QED
    BY <1>9, <2>2, <2>3, <2>4, <2>5
<1>16. most \in 1 .. n /\ (r.limit # None => most <= r.limit)
  BY <1>11, <1>13
<1> QED
  BY <1>1, <1>7, <1>14, <1>15, <1>16

\* The faster alone first, equals by id.
SpeedRelation(r, workers) ==
  {p \in (1 .. Len(workers)) \X (1 .. Len(workers)) :
     \/ AloneTime(r, workers[p[1]]) < AloneTime(r, workers[p[2]])
     \/ AloneTime(r, workers[p[1]]) = AloneTime(r, workers[p[2]]) /\ workers[p[1]].id < workers[p[2]].id}

\* It is a weak order.
LEMMA SpeedOrders ==
  ASSUME NEW r, SizingRequest(r), NEW W, \A w \in W : Runner(w), NEW workers \in Seq(W)
  PROVE  /\ WeakOrder(SpeedRelation(r, workers), Len(workers))
         /\ \A i \in 1 .. Len(workers) : AloneTime(r, workers[i]) \in Nat
<1> DEFINE n == Len(workers)
           R == SpeedRelation(r, workers)
           A(i) == AloneTime(r, workers[i])
           I(i) == workers[i].id
           Less(i, j) == A(i) < A(j) \/ (A(i) = A(j) /\ I(i) < I(j))
<1>1. ASSUME NEW i \in 1 .. n PROVE A(i) \in Nat /\ I(i) \in Nat
  <2>1. PICK w : w = workers[i]
    OBVIOUS
  <2>2. Runner(w)
    BY <2>1
  <2>3. PICK u \in Nat : u = r.units
    BY DEF SizingRequest
  <2>4. ComputeTime(u, w) \in Nat
    BY <2>2, TimeType
  <2> QED
    BY <2>1, <2>2, <2>3, <2>4 DEF AloneTime, Runner
<1>2. \A i, j \in 1 .. n : <<i, j>> \in R <=> Less(i, j)
  BY DEF SpeedRelation
<1> HIDE DEF A, I, R
<1>3. \A i, j \in 1 .. n : Less(i, j) => ~Less(j, i)
  BY <1>1
<1>4. ASSUME NEW i \in 1 .. n, NEW j \in 1 .. n, NEW k \in 1 .. n, ~Less(i, j), ~Less(j, k)
      PROVE  ~Less(i, k)
  BY <1>1, <1>4
<1> HIDE DEF Less
<1> QED
  BY <1>1, <1>2, <1>3, <1>4 DEF WeakOrder, R, n, A

\* The workers, each once, none slower than the next.
Sorted(r, workers, sorted) ==
  /\ \E order : /\ PermutationOf(order, Len(workers))
                /\ sorted = [k \in 1 .. Len(workers) |-> workers[order[k]]]
  /\ \A k, l \in DOMAIN sorted : k < l => AloneTime(r, sorted[k]) <= AloneTime(r, sorted[l])

\* SortedBySpeed sorts.
LEMMA FastestFirst ==
  ASSUME NEW r, SizingRequest(r), NEW W, \A w \in W : Runner(w), NEW workers \in Seq(W)
  PROVE  /\ Sorted(r, workers, SortedBySpeed(r, workers))
         /\ SortedBySpeed(r, workers) \in Seq(W) /\ Len(SortedBySpeed(r, workers)) = Len(workers)
<1>1. PICK n \in Nat : n = Len(workers)
  OBVIOUS
<1>2. PICK R : R = SpeedRelation(r, workers)
  OBVIOUS
<1>3. WeakOrder(R, n) /\ \A i \in 1 .. n : AloneTime(r, workers[i]) \in Nat
  BY <1>1, <1>2, SpeedOrders
<1>4. PICK order : order = Ranked(n, R)
  OBVIOUS
<1>5. PermutationOf(order, n) /\ \A k, l \in 1 .. n : k < l <=> Precedes(order[k], order[l], R)
  BY <1>3, <1>4, RankedSorts
<1>6. DOMAIN order = 1 .. n /\ \A k \in 1 .. n : order[k] \in 1 .. n
  BY <1>5 DEF PermutationOf
<1>7. PICK sorted : sorted = SortedBySpeed(r, workers)
  OBVIOUS
<1>8. sorted = [k \in 1 .. n |-> workers[order[k]]]
  BY <1>1, <1>2, <1>4, <1>6, <1>7 DEF SortedBySpeed, Pick, Order, SpeedRelation
<1>9. sorted \in Seq(W) /\ Len(sorted) = n /\ DOMAIN sorted = 1 .. n
  BY <1>1, <1>6, <1>8
<1>10. ASSUME NEW k \in 1 .. n, NEW l \in 1 .. n, k < l
       PROVE  AloneTime(r, sorted[k]) <= AloneTime(r, sorted[l])
  <2>1. ~Precedes(order[l], order[k], R)
    BY <1>5, <1>10
  <2>2. PICK i \in 1 .. n, j \in 1 .. n : i = order[k] /\ j = order[l]
    BY <1>6
  <2>3. <<j, i>> \notin R
    BY <2>1, <2>2 DEF Precedes
  <2>4. ~(AloneTime(r, workers[j]) < AloneTime(r, workers[i]))
    BY <1>1, <1>2, <2>3 DEF SpeedRelation
  <2>5. sorted[k] = workers[i] /\ sorted[l] = workers[j]
    BY <1>8, <2>2
  <2>6. PICK a \in Nat, b \in Nat : a = AloneTime(r, workers[i]) /\ b = AloneTime(r, workers[j])
    BY <1>3
  <2> QED
    BY <2>4, <2>5, <2>6
<1> QED
  BY <1>1, <1>5, <1>7, <1>8, <1>9, <1>10 DEF Sorted

\* A cluster of the right size.
SizedWell(r, workers, out) ==
  LET n == Len(workers)
  IN \* the fastest are selected, nobody is dropped
     /\ out.selected \o out.spare = SortedBySpeed(r, workers) /\ Len(out.selected) = out.count
     /\ Sorted(r, workers, SortedBySpeed(r, workers))
     \* limits
     /\ out.count \in 1 .. n /\ (r.limit # None => out.count <= r.limit)
     /\ out.count * r.minUnits <= Max({r.units, r.minUnits})
     /\ out.walls \in [DOMAIN out.walls -> Nat] /\ out.count \in DOMAIN out.walls
     /\ IF r.deadline = None THEN out.achievable /\ Paying(out.walls, out.count)
        ELSE /\ Fitting(out.walls, out.count, r.deadline)
             /\ out.achievable <=> \E k \in DOMAIN out.walls : out.walls[k] <= r.deadline

\* ClusterSizedWell: for every request and every list of eligible workers the
\* cluster is made of the fastest, respects its limits, promises a deadline
\* exactly if some group it may form meets it, and without a deadline grows
\* as long as each further worker saves fifteen per cent (size_cluster).
THEOREM ClusterSizedWell ==
  ASSUME NEW r, SizingRequest(r), NEW W, \A w \in W : Runner(w), NEW workers \in Seq(W), workers # <<>>
  PROVE  SizedWell(r, workers, SizeCluster(r, workers))
<1>1. PICK n \in Nat : n = Len(workers) /\ n # 0
  OBVIOUS
<1>2. PICK sorted : sorted = SortedBySpeed(r, workers)
  OBVIOUS
<1>3. Sorted(r, workers, sorted) /\ sorted \in Seq(W) /\ Len(sorted) = n
  BY <1>1, <1>2, FastestFirst
<1>4. PICK groups : groups = IF ~r.partitionable \/ r.units <= 1 THEN 1 ELSE MaxGroup(r, sorted)
  OBVIOUS
<1>5. /\ groups \in 1 .. n /\ (r.limit # None => groups <= r.limit)
      /\ groups * r.minUnits <= Max({r.units, r.minUnits})
  <2>1. Len(sorted) \in Nat \ {0}
    BY <1>1, <1>3
  <2>2. CASE groups = MaxGroup(r, sorted)
    <3>1. /\ groups \in 1 .. Len(sorted) /\ (r.limit # None => groups <= r.limit)
          /\ groups * r.minUnits <= Max({r.units, r.minUnits})
      BY <2>1, <2>2, MaxGroupWithin
    <3> QED
      BY <1>3, <3>1
  <2>3. CASE groups = 1
    <3>1. PICK a \in Int, b \in Int : a = r.units /\ b = r.minUnits
      BY DEF SizingRequest
    <3>2. Max({a, b}) \in {a, b} /\ Max({a, b}) >= b
      BY MinOfTwo
    <3>3. 1 * b <= Max({a, b})
      BY <3>2
    <3>4. r.limit # None => 1 <= r.limit
      BY DEF SizingRequest
    <3> QED
      BY <1>1, <2>3, <3>1, <3>3, <3>4
  <2> QED
    BY <1>4, <2>2, <2>3
<1>6. PICK walls : walls = [k \in 1 .. groups |-> WallClock(r, Prefix(sorted, k))]
  OBVIOUS
<1>7. ASSUME NEW k \in 1 .. n PROVE Prefix(sorted, k) = SubSeq(sorted, 1, k)
  <2>1. PICK a \in Int, b \in Int : a = k /\ b = Len(sorted) /\ a <= b
    BY <1>3
  <2>2. Min({a, b}) \in {a, b} /\ Min({a, b}) <= a /\ Min({a, b}) <= b
    BY MinOfTwo
  <2>3. Min({a, b}) = k
    BY <2>1, <2>2
  <2> QED
    BY <2>1, <2>3 DEF Prefix
<1>8. walls \in [1 .. groups -> Nat]
  <2>1. ASSUME NEW k \in 1 .. groups PROVE WallClock(r, Prefix(sorted, k)) \in Nat
    <3>1. k \in 1 .. n
      BY <1>5
    <3>2. PICK group : group = SubSeq(sorted, 1, k)
      OBVIOUS
    <3>3. group \in Seq(W) /\ group # <<>>
      BY <1>3, <3>1, <3>2
    <3>4. WallClock(r, group) \in Nat
      BY <3>3, WallClockType
    <3> QED
      BY <1>7, <3>1, <3>2, <3>4
  <2> QED
    BY <1>6, <2>1
<1>9. PICK count : count = IF r.deadline = None THEN Expand(walls) ELSE MeetDeadline(walls, r.deadline)
  OBVIOUS
<1>10. DOMAIN walls = 1 .. groups /\ groups \in Nat /\ groups # 0
  BY <1>5, <1>8
<1>11. r.deadline = None => Paying(walls, count)
  BY <1>8, <1>9, <1>10, EveryWorkerPays
<1>12. r.deadline # None => Fitting(walls, count, r.deadline)
  <2>1. SUFFICES ASSUME r.deadline # None PROVE Fitting(walls, count, r.deadline)
    OBVIOUS
  <2>2. PICK deadline \in Nat : deadline = r.deadline
    BY <2>1 DEF SizingRequest
  <2>3. Fitting(walls, MeetDeadline(walls, deadline), deadline)
    BY <1>8, <1>10, DeadlineMetIfPossible
  <2> QED
    BY <1>9, <2>1, <2>2, <2>3
<1>13. count \in 1 .. groups
  BY <1>10, <1>11, <1>12 DEF Paying, Fitting
<1>14. count \in 1 .. n /\ count <= groups
  BY <1>5, <1>13
<1>15. PICK out : out = SizeCluster(r, workers)
  OBVIOUS
<1>16. out = [walls |-> walls, count |-> count,
              selected |-> Prefix(sorted, count), spare |-> SubSeq(sorted, count + 1, Len(sorted)),
              achievable |-> r.deadline = None \/ walls[count] <= r.deadline]
  BY <1>2, <1>4, <1>6, <1>9, <1>15, Zenon DEF SizeCluster, SizeSorted, ChooseSize
<1>17. /\ out.walls = walls /\ out.count = count /\ out.selected = SubSeq(sorted, 1, count)
       /\ out.spare = SubSeq(sorted, count + 1, n)
       /\ out.achievable <=> r.deadline = None \/ walls[count] <= r.deadline
  BY <1>3, <1>7, <1>14, <1>16
<1>18. SubSeq(sorted, 1, count) \o SubSeq(sorted, count + 1, n) = sorted /\ Len(SubSeq(sorted, 1, count)) = count
  BY <1>3, <1>14
<1>19. count * r.minUnits <= Max({r.units, r.minUnits}) /\ (r.limit # None => count <= r.limit)
  <2>0. PICK biggest : biggest = Max({r.units, r.minUnits})
    OBVIOUS
  <2>1. PICK least \in Nat : least = r.minUnits
    BY DEF SizingRequest
  <2>2. biggest \in Int
    <3>1. PICK a \in Int, b \in Int : a = r.units /\ b = r.minUnits
      BY DEF SizingRequest
    <3>2. Max({a, b}) \in {a, b}
      BY MinOfTwo
    <3> QED
      BY <2>0, <3>1, <3>2
  <2>3. PICK d \in Nat : groups = count + d
    BY <1>5, <1>14
  <2>4. groups * least = count * least + d * least
    BY <1>10, <1>14, <2>3
  <2>5. d * least >= 0
    OBVIOUS
  <2>6. PICK x \in Int, y \in Int, z \in Int : x = groups * least /\ y = count * least /\ z = d * least
    BY <1>10, <1>14
  <2>7. x <= biggest
    BY <1>5, <2>0, <2>1, <2>6
  <2>8. count * least <= biggest
    BY <2>2, <2>4, <2>5, <2>6, <2>7
  <2>9. r.limit # None => count <= r.limit
    BY <1>5, <1>10, <1>14 DEF SizingRequest
  <2> QED
    BY <2>0, <2>1, <2>8, <2>9
<1>20. r.deadline # None => (out.achievable <=> \E k \in DOMAIN walls : walls[k] <= r.deadline)
  BY <1>10, <1>12, <1>13, <1>17 DEF Fitting
<1> QED
  BY <1>1, <1>2, <1>3, <1>8, <1>10, <1>11, <1>12, <1>13, <1>14, <1>15, <1>17, <1>18, <1>19, <1>20 DEF SizedWell

\* The times of the groups do not depend on the deadline.
LEMMA WallsIgnoreDeadline ==
  ASSUME NEW r, NEW s, NEW workers, Len(workers) \in Nat, workers # <<>>,
         r.units = s.units, r.overhead = s.overhead, r.minUnits = s.minUnits, r.limit = s.limit,
         r.partitionable = s.partitionable
  PROVE  SizeCluster(r, workers).walls = SizeCluster(s, workers).walls
<1>1. \A w : AloneTime(r, w) = AloneTime(s, w)
  BY DEF AloneTime
<1>2. PICK R : R = SpeedRelation(r, workers)
  OBVIOUS
<1>3. R = SpeedRelation(s, workers)
  BY <1>1, <1>2 DEF SpeedRelation
<1>4. PICK order : order = Ranked(Len(workers), R)
  OBVIOUS
<1>5. SortedBySpeed(r, workers) = Pick(workers, order)
  BY <1>2, <1>4 DEF SortedBySpeed, Order, SpeedRelation
<1>6. SortedBySpeed(s, workers) = Pick(workers, order)
  BY <1>3, <1>4 DEF SortedBySpeed, Order, SpeedRelation
<1>7. PICK sorted : sorted = Pick(workers, order)
  OBVIOUS
<1>8. MaxGroup(r, sorted) = MaxGroup(s, sorted)
  BY DEF MaxGroup
<1>9. \A group : WallClock(r, group) = WallClock(s, group)
  BY DEF WallClock
<1>10. PICK groups : groups = IF ~r.partitionable \/ r.units <= 1 THEN 1 ELSE MaxGroup(r, sorted)
  OBVIOUS
<1>11. groups = IF ~s.partitionable \/ s.units <= 1 THEN 1 ELSE MaxGroup(s, sorted)
  BY <1>8, <1>10
<1>12. PICK walls : walls = [k \in 1 .. groups |-> WallClock(r, Prefix(sorted, k))]
  OBVIOUS
<1>13. walls = [k \in 1 .. groups |-> WallClock(s, Prefix(sorted, k))]
  BY <1>9, <1>12
<1>14. \A q : ChooseSize(q, sorted, walls).walls = walls
  BY DEF ChooseSize
<1>15. SizeCluster(r, workers) = ChooseSize(r, sorted, walls)
  BY <1>5, <1>7, <1>10, <1>12, Zenon DEF SizeCluster, SizeSorted
<1>16. SizeCluster(s, workers) = ChooseSize(s, sorted, walls)
  BY <1>6, <1>7, <1>11, <1>13, Zenon DEF SizeCluster, SizeSorted
<1> QED
  BY <1>14, <1>15, <1>16

\* LaterDeadlineKept: whoever can meet a deadline can meet a later one
\* (size_cluster).
THEOREM LaterDeadlineKept ==
  ASSUME NEW r, SizingRequest(r), NEW s, SizingRequest(s), NEW W, \A w \in W : Runner(w),
         NEW workers \in Seq(W), workers # <<>>,
         r.units = s.units, r.overhead = s.overhead, r.minUnits = s.minUnits, r.limit = s.limit,
         r.partitionable = s.partitionable, r.deadline # None, r.deadline <= s.deadline,
         SizeCluster(r, workers).achievable
  PROVE  SizeCluster(s, workers).achievable
<1>1. PICK a, b : a = SizeCluster(r, workers) /\ b = SizeCluster(s, workers)
  OBVIOUS
<1>2. SizedWell(r, workers, a) /\ SizedWell(s, workers, b)
  BY <1>1, ClusterSizedWell
<1>3. r.deadline \in Nat /\ s.deadline \in Nat /\ s.deadline # None
  BY DEF SizingRequest, None
<1>4. PICK k \in DOMAIN a.walls : a.walls[k] <= r.deadline
  BY <1>1, <1>2, <1>3 DEF SizedWell
<1>5. Len(workers) \in Nat
  OBVIOUS
<1>6. a.walls = b.walls
  BY <1>1, <1>5, WallsIgnoreDeadline
<1>7. b.walls[k] <= s.deadline
  <2>1. a.walls[k] \in Nat
    BY <1>2, <1>4 DEF SizedWell
  <2> QED
    BY <1>3, <1>4, <1>6, <2>1
<1> QED
  BY <1>1, <1>2, <1>3, <1>4, <1>6, <1>7 DEF SizedWell

-----------------------------------------------------------------------------
(* Frames                                                                  *)

\* An integer between -1 and 2, by its multiple.
LEMMA ZeroOrOne ==
  ASSUME NEW n \in Nat, n # 0, NEW d \in Int, n * d > -n, n * d < 2 * n
  PROVE  d \in 0 .. 1
<1>1. ASSUME d < 0 PROVE FALSE
  <2>1. PICK k \in Nat : k = -d - 1
    BY <1>1
  <2>2. n * d = -(n * k) - n
    BY <2>1
  <2>3. PICK x \in Int : x = n * k
    OBVIOUS
  <2>4. n * k >= 0
    OBVIOUS
  <2> QED
    BY <2>2, <2>3, <2>4
<1>2. ASSUME d > 1 PROVE FALSE
  <2>1. PICK k \in Nat : k = d - 2
    BY <1>2
  <2>2. n * d = n * k + 2 * n
    BY <2>1
  <2>3. PICK x \in Int : x = n * k
    OBVIOUS
  <2>4. n * k >= 0
    OBVIOUS
  <2> QED
    BY <2>2, <2>3, <2>4
<1> QED
  BY <1>1, <1>2

\* Two cuts are a rounded share apart.
LEMMA CutStep ==
  ASSUME NEW a \in Nat, NEW total \in Nat, NEW n \in Nat, n # 0
  PROVE  (a + total) \div n - a \div n \in (total \div n) .. (total \div n + 1)
<1>1. PICK b \in Nat : b = a + total
  OBVIOUS
<1>2. PICK x \in Int, u \in Int, q \in Int, v \in Int, y \in Int, w \in Int :
        /\ x = a \div n /\ u = a % n /\ q = total \div n /\ v = total % n /\ y = b \div n /\ w = b % n
  <2>1. a \in Int /\ total \in Int /\ b \in Int /\ n \in Int /\ n > 0
    OBVIOUS
  <2>2. a \div n \in Int /\ a % n \in 0 .. n - 1
    BY <2>1, DivisionRule
  <2>3. total \div n \in Int /\ total % n \in 0 .. n - 1
    BY <2>1, DivisionRule
  <2>4. b \div n \in Int /\ b % n \in 0 .. n - 1
    BY <2>1, DivisionRule
  <2>5. a % n \in Int /\ total % n \in Int /\ b % n \in Int
    BY <2>2, <2>3, <2>4
  <2> QED
    BY <2>2, <2>3, <2>4, <2>5
<1>3. a = n * x + u /\ u \in 0 .. n - 1
  BY <1>2, DivisionRule
<1>4. total = n * q + v /\ v \in 0 .. n - 1
  BY <1>2, DivisionRule
<1>5. b = n * y + w /\ w \in 0 .. n - 1
  BY <1>2, DivisionRule
<1>6. PICK d \in Int : d = y - x - q
  OBVIOUS
<1>7. n * d = n * y - n * x - n * q
  BY <1>6
<1>8. PICK nx \in Int, ny \in Int, nq \in Int, nd \in Int :
        nx = n * x /\ ny = n * y /\ nq = n * q /\ nd = n * d
  OBVIOUS
<1>9. nd > -n /\ nd < 2 * n
  BY <1>1, <1>3, <1>4, <1>5, <1>7, <1>8
<1>10. d \in 0 .. 1
  BY <1>8, <1>9, ZeroOrOne
<1> QED
  BY <1>1, <1>2, <1>6, <1>10

\* Render requests.
FrameRequest(r) ==
  /\ r.from \in Nat /\ r.to \in Nat /\ r.from <= r.to /\ r.workers \in Nat \ {0}
  /\ r.chunks \in Nat /\ r.adaptive \in BOOLEAN /\ r.duration \in Nat

\* The number of chunks is between one and the number of frames.
LEMMA ChunkCount ==
  ASSUME NEW r, FrameRequest(r), NEW total \in Nat, total # 0
  PROVE  NumChunks(total, r) \in 1 .. total
<1>1. PICK w \in Int, c \in Int, t \in Int, one \in Int :
         w = r.workers /\ c = r.chunks /\ t = total /\ one = 1 /\ w >= 1 /\ c >= 0
  BY DEF FrameRequest
<1>2. CASE r.chunks # NoCount
  <2>1. Min({c, t}) \in {c, t} /\ Min({c, t}) <= c /\ Min({c, t}) <= t
    BY MinOfTwo
  <2>2. NumChunks(total, r) = Min({c, t})
    BY <1>1, <1>2, Zenon DEF NumChunks
  <2> QED
    BY <1>1, <1>2, <2>1, <2>2 DEF NoCount
<1>3. CASE r.chunks = NoCount /\ ~r.adaptive
  <2>1. Min({w, t}) \in {w, t} /\ Min({w, t}) <= w /\ Min({w, t}) <= t
    BY MinOfTwo
  <2>2. NumChunks(total, r) = Min({w, t})
    BY <1>1, <1>3, Zenon DEF NumChunks
  <2> QED
    BY <1>1, <2>1, <2>2
<1>4. CASE r.chunks = NoCount /\ r.adaptive
  <2>1. NumChunks(total, r) = PlanAdaptiveChunks(total, r.workers, r.duration)
    BY <1>4 DEF NumChunks
  <2>2. CASE total <= MinFramesPerChunk
    BY <2>1, <2>2 DEF PlanAdaptiveChunks
  <2>3. CASE ~(total <= MinFramesPerChunk)
    <3>1. Max({one, w}) \in {one, w} /\ Max({one, w}) >= one
      BY MinOfTwo
    <3>2. PICK most \in Int : most = ChunksPerWorker * Max({one, w})
      BY <3>1 DEF ChunksPerWorker
    <3>3. Min({t, most}) \in {t, most} /\ Min({t, most}) <= t
      BY MinOfTwo
    <3>4. PICK S : S = {one} \cup {m \in 2 .. Min({t, most}) : Fits(total, m, r.duration)}
      OBVIOUS
    <3>5. S \in SUBSET (0 .. total) /\ S # {} /\ \A y \in S : y # 0
      BY <1>1, <3>3, <3>4
    <3>6. Max(S) \in S
      BY <3>5, MaxOfBounded
    <3>7. PlanAdaptiveChunks(total, r.workers, r.duration) = Max(S)
      BY <1>1, <2>3, <3>2, <3>4, Zenon DEF PlanAdaptiveChunks
    <3>8. Max(S) \in 0 .. total /\ Max(S) # 0
      BY <3>5, <3>6
    <3> QED
      BY <2>1, <3>7, <3>8
  <2> QED
    BY <2>2, <2>3
<1> QED
  BY <1>2, <1>3, <1>4 DEF FrameRequest

\* Every frame in exactly one of n chunks of nearly the same size.
DealtOnce(chunks, n, from, to) ==
  LET total == to - from + 1
  IN /\ chunks[1].from = from /\ chunks[n].to = to
     /\ \A i \in 1 .. n : /\ chunks[i].from \in Int /\ chunks[i].to \in Int
                          /\ chunks[i].to - chunks[i].from + 1 \in (total \div n) .. (total \div n + 1)
                          /\ chunks[i].from <= chunks[i].to
     /\ \A i \in 1 .. n - 1 : chunks[i + 1].from = chunks[i].to + 1
     /\ \A f \in from .. to : \E i \in 1 .. n :
          f \in chunks[i].from .. chunks[i].to
          /\ \A j \in 1 .. n : f \in chunks[j].from .. chunks[j].to => j = i
     /\ Covered(chunks) = from .. to

\* Increasing by steps is increasing.
LEMMA CutsIncrease ==
  ASSUME NEW n \in Nat, NEW cut \in [0 .. n -> Int], \A i \in 1 .. n : cut[i - 1] < cut[i],
         NEW i \in 0 .. n
  PROVE  \A j \in 0 .. n : i <= j => cut[i] <= cut[j]
<1> DEFINE N == {d \in Nat : i + d <= n => cut[i] <= cut[i + d]}
<1>1. N \in SUBSET Nat /\ 0 \in N
  OBVIOUS
<1>2. ASSUME NEW d \in N PROVE d + 1 \in N
  <2>1. d \in Nat
    OBVIOUS
  <2>2. SUFFICES ASSUME i + d + 1 <= n PROVE cut[i] <= cut[i + d + 1]
    <3>1. i + (d + 1) = i + d + 1
      BY <2>1
    <3> QED
      BY <2>1, <2>2, <3>1
  <2>3. PICK j \in 1 .. n : j = i + d + 1
    BY <2>1, <2>2
  <2>4. j - 1 = i + d /\ j - 1 \in 0 .. n /\ j \in 0 .. n
    BY <2>1, <2>3
  <2>5. cut[i] <= cut[j - 1]
    BY <2>1, <2>4
  <2>6. cut[j - 1] < cut[j] /\ cut[j - 1] \in Int /\ cut[j] \in Int /\ cut[i] \in Int
    BY <2>4
  <2> QED
    BY <2>3, <2>5, <2>6
<1> HIDE DEF N
<1>3. N = Nat
  BY <1>1, <1>2, Induction
<1>4. ASSUME NEW j \in 0 .. n, i <= j PROVE cut[i] <= cut[j]
  <2>1. PICK d \in Nat : d = j - i
    BY <1>4
  <2>2. d \in N /\ i + d = j /\ j <= n
    BY <1>3, <2>1
  <2> QED
    BY <2>2 DEF N
<1> QED
  BY <1>4

\* FramesDealtOnce: for every range of frames and number of workers the
\* chunks follow each other without gap or overlap, none is empty, and their
\* sizes differ by one frame at most (FrameScheduler.schedule).
THEOREM FramesDealtOnce ==
  ASSUME NEW r, FrameRequest(r)
  PROVE  LET n == NumChunks(r.to - r.from + 1, r)
         IN n \in Nat \ {0} /\ DOMAIN Schedule(r) = 1 .. n /\ DealtOnce(Schedule(r), n, r.from, r.to)
<1>1. PICK from \in Nat, to \in Nat : from = r.from /\ to = r.to /\ from <= to
  BY DEF FrameRequest
<1>2. PICK total \in Nat : total = to - from + 1 /\ total # 0
  BY <1>1
<1>3. PICK n : n = NumChunks(total, r)
  OBVIOUS
<1>4. n \in 1 .. total
  BY <1>2, <1>3, ChunkCount
<1>5. n \in Nat /\ n # 0
  BY <1>4
<1>6. PICK q : q = total \div n
  OBVIOUS
<1>7. q \in Nat /\ q # 0
  <2>1. PICK x \in Int, v \in Int : x = total \div n /\ v = total % n
    BY <1>5, DivisionRule
  <2>2. total = n * x + v /\ v \in 0 .. n - 1
    BY <1>5, <2>1, DivisionRule
  <2>3. x \in Nat
    BY <1>5, <2>1, QuotientNatural
  <2>4. x # 0
    BY <1>4, <2>2
  <2> QED
    BY <1>6, <2>1, <2>3, <2>4
<1>8. PICK cut : cut = [i \in 0 .. n |-> (i * total) \div n]
  OBVIOUS
<1>9. ASSUME NEW i \in 0 .. n PROVE cut[i] \in Nat
  <2>1. PICK a \in Nat : a = i * total
    BY <1>5
  <2>2. a \div n \in Nat
    BY <1>5, QuotientNatural
  <2> QED
    BY <1>8, <2>1, <2>2
<1>10. cut \in [0 .. n -> Int]
  BY <1>8, <1>9
<1>11. cut[0] = 0 /\ cut[n] = total
  <2>1. PICK zero \in Nat, whole \in Nat : zero = 0 /\ whole = n * total
    BY <1>5
  <2>2. PICK x \in Int, u \in Int : x = zero \div n /\ u = zero % n
    BY <1>5, DivisionRule
  <2>3. zero = n * x + u /\ u \in 0 .. n - 1 /\ x \in Nat
    BY <1>5, <2>2, DivisionRule, QuotientNatural
  <2>4. x = 0
    <3>1. n * x <= 0
      BY <1>5, <2>1, <2>3
    <3> QED
      BY <1>5, <2>3, <3>1
  <2>5. PICK y \in Int, v \in Int : y = whole \div n /\ v = whole % n
    BY <1>5, DivisionRule
  <2>6. whole = n * y + v /\ v \in 0 .. n - 1
    BY <1>5, <2>5, DivisionRule
  <2>7. PICK d \in Int : d = total - y
    OBVIOUS
  <2>8. n * d = n * total - n * y
    BY <1>5, <2>7
  <2>9. n * d \in 0 .. n - 1
    <3>1. PICK a \in Int, b \in Int : a = n * total /\ b = n * y
      BY <1>5
    <3> QED
      BY <1>5, <2>1, <2>6, <2>8, <3>1
  <2>10. d \in 0 .. 1
    <3>1. n * d > -n /\ n * d < 2 * n
      BY <1>5, <2>9
    <3> QED
      BY <1>5, <3>1, ZeroOrOne
  <2>11. d = 0
    BY <1>5, <2>9, <2>10
  <2> QED
    BY <1>5, <1>8, <2>1, <2>2, <2>4, <2>5, <2>7, <2>11
<1>12. ASSUME NEW i \in 1 .. n PROVE cut[i] - cut[i - 1] \in q .. q + 1
  <2>1. PICK a \in Nat : a = (i - 1) * total
    <3>1. PICK m \in Nat : m = i - 1
      BY <1>5
    <3> QED
      BY <3>1
  <2>2. i * total = a + total
    BY <1>5, <2>1
  <2>3. (a + total) \div n - a \div n \in (total \div n) .. (total \div n + 1)
    BY <1>5, CutStep
  <2>4. i \in 0 .. n /\ i - 1 \in 0 .. n
    BY <1>5
  <2>5. cut[i] = (a + total) \div n /\ cut[i - 1] = a \div n
    BY <1>8, <2>1, <2>2, <2>4
  <2> QED
    BY <1>6, <2>3, <2>5
<1>13. PICK chunks : chunks = Schedule(r)
  OBVIOUS
<1>14. chunks = [i \in 1 .. n |-> ChunkOf(r, total, n, i)]
  BY <1>1, <1>2, <1>3, <1>13 DEF Schedule
<1>15. ASSUME NEW i \in 1 .. n
       PROVE  chunks[i].from = from + cut[i - 1] /\ chunks[i].to = from + cut[i] - 1
  <2>1. i \in 0 .. n /\ i - 1 \in 0 .. n
    BY <1>5
  <2> QED
    BY <1>1, <1>8, <1>14, <2>1 DEF ChunkOf, Chunk
<1>16. \A i \in 1 .. n : i \in 0 .. n /\ i - 1 \in 0 .. n
  BY <1>5
<1>17. ASSUME NEW i \in 1 .. n
       PROVE  /\ chunks[i].from \in Int /\ chunks[i].to \in Int
              /\ chunks[i].to - chunks[i].from + 1 \in q .. q + 1 /\ chunks[i].from <= chunks[i].to
  <2>1. PICK a \in Int, b \in Int : a = cut[i - 1] /\ b = cut[i]
    BY <1>9, <1>16
  <2>2. b - a \in q .. q + 1
    BY <1>12, <2>1
  <2> QED
    BY <1>7, <1>15, <2>1, <2>2
<1>18. ASSUME NEW i \in 1 .. n - 1 PROVE chunks[i + 1].from = chunks[i].to + 1
  <2>1. i \in 1 .. n /\ i + 1 \in 1 .. n /\ i + 1 - 1 = i
    BY <1>5
  <2>2. cut[i] \in Int
    BY <1>9, <2>1, <1>16
  <2> QED
    BY <1>15, <2>1, <2>2
<1>19. chunks[1].from = from /\ chunks[n].to = to
  <2>1. 1 \in 1 .. n /\ n \in 1 .. n
    BY <1>5
  <2> QED
    BY <1>2, <1>11, <1>15, <2>1
<1>20. \A i \in 1 .. n : cut[i - 1] < cut[i]
  <2>1. ASSUME NEW i \in 1 .. n PROVE cut[i - 1] < cut[i]
    <3>1. PICK a \in Int, b \in Int : a = cut[i - 1] /\ b = cut[i]
      BY <1>9, <1>16
    <3> QED
      BY <1>7, <1>12, <3>1
  <2> QED
    BY <2>1
<1>21. \A i, j \in 0 .. n : i <= j => cut[i] <= cut[j]
  BY <1>5, <1>10, <1>20, CutsIncrease
<1>22. ASSUME NEW i \in 1 .. n, NEW f \in chunks[i].from .. chunks[i].to
       PROVE  /\ f \in from .. to
              /\ \A j \in 1 .. n : f \in chunks[j].from .. chunks[j].to => j = i
  <2>1. PICK a \in Int, b \in Int : a = cut[i - 1] /\ b = cut[i]
    BY <1>9, <1>16
  <2>2. f \in from + a .. from + b - 1
    BY <1>15, <2>1
  <2>3. 0 \in 0 .. n /\ n \in 0 .. n /\ i \in 0 .. n /\ i - 1 \in 0 .. n /\ 0 <= i - 1 /\ i <= n
    BY <1>5
  <2>4. 0 <= a /\ b <= total
    BY <1>11, <1>21, <2>1, <2>3
  <2>5. f \in from .. to
    BY <1>2, <2>2, <2>4
  <2>6. ASSUME NEW j \in 1 .. n, f \in chunks[j].from .. chunks[j].to PROVE j = i
    <3>1. PICK c \in Int, d \in Int : c = cut[j - 1] /\ d = cut[j]
      BY <1>9, <1>16
    <3>2. f \in from + c .. from + d - 1
      BY <1>15, <2>6, <3>1
    <3>3. j \in 0 .. n /\ j - 1 \in 0 .. n
      BY <1>16
    <3>4. ASSUME i < j PROVE FALSE
      <4>1. i <= j - 1
        BY <3>4
      <4>2. b <= c
        BY <1>21, <2>1, <2>3, <3>1, <3>3, <4>1
      <4> QED
        BY <2>2, <3>2, <4>2
    <3>5. ASSUME j < i PROVE FALSE
      <4>1. j <= i - 1
        BY <3>5
      <4>2. d <= a
        BY <1>21, <2>1, <2>3, <3>1, <3>3, <4>1
      <4> QED
        BY <2>2, <3>2, <4>2
    <3> QED
      BY <3>4, <3>5
  <2> QED
    BY <2>5, <2>6
<1>23. ASSUME NEW f \in from .. to PROVE \E i \in 1 .. n : f \in chunks[i].from .. chunks[i].to
  <2> DEFINE T == {i \in 1 .. n : f < from + cut[i]}
  <2>1. n \in T
    BY <1>2, <1>5, <1>11
  <2>2. T \in SUBSET Nat /\ T # {}
    BY <2>1
  <2>3. PICK i \in T : \A j \in T : i <= j
    BY <2>2, LeastNatural
  <2>4. i \in 1 .. n /\ f < from + cut[i]
    OBVIOUS
  <2>5. PICK a \in Int, b \in Int : a = cut[i - 1] /\ b = cut[i]
    BY <1>9, <1>16, <2>4
  <2>6. f >= from + a
    <3>1. CASE i = 1
      BY <1>11, <2>5, <3>1
    <3>2. CASE i # 1
      <4>1. i - 1 \in 1 .. n /\ i - 1 < i
        BY <1>5, <2>4, <3>2
      <4>2. i - 1 \notin T
        BY <2>3, <2>4, <4>1
      <4> QED
        BY <2>5, <4>1, <4>2
    <3> QED
      BY <3>1, <3>2
  <2>7. f \in chunks[i].from .. chunks[i].to
    BY <1>15, <2>4, <2>5, <2>6
  <2> QED
    BY <2>4, <2>7
<1>24. DOMAIN chunks = 1 .. n
  BY <1>14
<1>25. Covered(chunks) = from .. to
  <2>1. \A f : f \in Covered(chunks) <=> \E i \in 1 .. n : f \in chunks[i].from .. chunks[i].to
    BY <1>24 DEF Covered
  <2> QED
    BY <1>22, <1>23, <2>1
<1>26. \A f \in from .. to : \E i \in 1 .. n :
          f \in chunks[i].from .. chunks[i].to
          /\ \A j \in 1 .. n : f \in chunks[j].from .. chunks[j].to => j = i
  BY <1>22, <1>23
<1>27. DealtOnce(chunks, n, from, to)
  BY <1>2, <1>6, <1>17, <1>18, <1>19, <1>25, <1>26 DEF DealtOnce
<1> QED
  BY <1>1, <1>2, <1>3, <1>5, <1>13, <1>24, <1>27

-----------------------------------------------------------------------------
(* Round trips, capacity and shown objects                                 *)

\* RttBetween: the smoothed round trip lies between the last one and the new
\* sample, clamped to ten microseconds, however it is rounded (update_rtt).
THEOREM RttBetween ==
  ASSUME NEW t, t.current \in Nat, t.sample \in Nat
  PROVE  RttSound(t)
<1>1. PICK current \in Int, sample \in Int, ten \in Int :
        current = t.current /\ sample = t.sample /\ ten = 10 /\ current >= 0 /\ sample >= 0
  OBVIOUS
<1>2. PICK clamped : clamped = Max({ten, sample})
  OBVIOUS
<1>3. clamped \in {ten, sample} /\ clamped >= ten
  <2>1. Max({ten, sample}) \in {ten, sample} /\ Max({ten, sample}) >= ten
    BY MinOfTwo
  <2> QED
    BY <1>2, <2>1
<1>4. clamped \in Int
  BY <1>3
<1>5. PICK out : out = UpdateRtt(current, sample)
  OBVIOUS
<1>6. out = IF current <= 0 THEN clamped ELSE (3 * clamped + 7 * current + 5) \div 10
  BY <1>1, <1>2, <1>5 DEF UpdateRtt
<1>7. CASE current = 0
  <2>1. out = clamped
    BY <1>6, <1>7
  <2>2. UpdateRtt(t.current, t.sample) = out /\ Max({10, t.sample}) = clamped
    BY <1>1, <1>2, <1>5
  <2> QED
    BY <1>1, <1>7, <2>1, <2>2 DEF RttSound
<1>8. CASE current # 0
  <2>1. PICK low, high : low = Min({current, clamped}) /\ high = Max({current, clamped})
    OBVIOUS
  <2>2. low \in {current, clamped} /\ low <= current /\ low <= clamped
        /\ high \in {current, clamped} /\ high >= current /\ high >= clamped
    <3>1. /\ Min({current, clamped}) \in {current, clamped}
          /\ Min({current, clamped}) <= current /\ Min({current, clamped}) <= clamped
          /\ Max({current, clamped}) \in {current, clamped}
          /\ Max({current, clamped}) >= current /\ Max({current, clamped}) >= clamped
      BY <1>4, MinOfTwo
    <3> QED
      BY <2>1, <3>1
  <2>3. low \in Int /\ high \in Int
    BY <1>4, <2>2
  <2>4. out = (3 * clamped + 7 * current + 5) \div 10
    BY <1>1, <1>6, <1>8
  <2>5. out \in low .. high
    BY <1>4, <2>2, <2>3, <2>4
  <2>6. UpdateRtt(t.current, t.sample) = out /\ Max({10, t.sample}) = clamped
    BY <1>1, <1>2, <1>5
  <2> QED
    BY <1>1, <1>8, <2>1, <2>5, <2>6 DEF RttSound
<1> QED
  BY <1>7, <1>8

\* CapacityJudged: capacity is called stable only when fresh workers report
\* enough of it and arrivals do not outnumber completions; stale reports
\* never lead to that (capacity_view).
THEOREM CapacityJudged ==
  ASSUME NEW c, c.arrivals \in Nat, c.completions \in Nat, c.outcomes \in Nat, c.workers \in Nat,
         c.fresh \in Nat, c.asked \in Nat, c.offered \in Nat, c.fresh <= c.workers
  PROVE  CapacitySound(c)
<1>1. PICK v : v = CapacityView(c)
  OBVIOUS
<1>2. PICK pressure : pressure = IF c.fresh = 0 THEN "UNKNOWN"
                                 ELSE IF c.asked > c.fresh * c.offered THEN "HIGH" ELSE "NORMAL"
  OBVIOUS
<1>3. PICK enough : enough <=> c.arrivals + c.completions >= MinSamples /\ c.outcomes >= MinSamples
  OBVIOUS
<1>4. /\ v.pressure = pressure
      /\ v.quality = IF c.workers > 0 /\ c.fresh = 0 THEN "STALE"
                     ELSE IF enough THEN "VALID" ELSE "INSUFFICIENT_HISTORY"
      /\ v.recommendation = IF pressure = "HIGH" \/ (enough /\ c.arrivals > c.completions) THEN "ADD_CAPACITY"
                            ELSE IF ~enough \/ pressure = "UNKNOWN" THEN "MONITOR" ELSE "STABLE"
  BY <1>1, <1>2, <1>3 DEF CapacityView
<1>5. PICK product \in Nat : product = c.fresh * c.offered
  OBVIOUS
<1>6. ASSUME v.recommendation = "STABLE"
      PROVE  c.fresh > 0 /\ c.asked <= c.fresh * c.offered /\ c.arrivals <= c.completions
  <2>1. pressure # "HIGH" /\ pressure # "UNKNOWN" /\ ~(c.arrivals > c.completions)
    BY <1>4, <1>6
  <2>2. c.fresh # 0 /\ ~(c.asked > c.fresh * c.offered)
    BY <1>2, <2>1
  <2> QED
    BY <1>5, <2>1, <2>2
<1>7. v.quality = "VALID" => v.pressure # "UNKNOWN" \/ c.workers = 0
  BY <1>2, <1>4
<1>8. v.quality = "STALE" => v.recommendation # "STABLE"
  BY <1>2, <1>4
<1> QED
  BY <1>1, <1>6, <1>7, <1>8 DEF CapacitySound

\* The last of some past frames.
LEMMA LastOfPast ==
  ASSUME NEW frame \in Nat, NEW S \in SUBSET (0 .. frame), S # {},
         NEW x, x = CHOOSE f \in S : \A g \in S : f >= g
  PROVE  x \in S /\ \A g \in S : x >= g
<1>1. Max(S) \in S /\ \A y \in S : y <= Max(S)
  BY MaxOfBounded
<1>2. \A y \in S : Max(S) >= y
  BY <1>1
<1> QED
  BY <1>1, <1>2

\* EligibilityHolds: for every curve of keyframes and every range of frames
\* the typed analysis keeps every object that is ever shown, and the plain
\* one keeps nothing the typed one drops (_curve_indicates_visible_in_range,
\* _evaluate_eligibility).
THEOREM EligibilityHolds ==
  ASSUME NEW i, i.from \in Nat, i.to \in Nat, i.hidden \in BOOLEAN,
         Keys(i) \in SUBSET Nat, \A f \in Keys(i) : i.curve[f] \in BOOLEAN
  PROVE  EligibilitySound(i)
<1>1. SUFFICES ASSUME i.from <= i.to PROVE EligibilitySound(i)
  BY DEF EligibilitySound
<1>2. CASE Keys(i) = {}
  <2>1. InRange(i, i.from, i.to) = {}
    BY <1>2 DEF InRange
  <2>2. IsEligibleInRange(i, i.from, i.to) = ~i.hidden /\ EvaluateEligibility(i, i.from, i.to) = ~i.hidden
    BY <1>2 DEF IsEligibleInRange, EvaluateEligibility
  <2>3. i.from \in i.from .. i.to
    BY <1>1
  <2> QED
    BY <1>2, <2>2, <2>3 DEF EligibilitySound
<1>3. CASE Keys(i) # {}
  <2> DEFINE Past(f) == {k \in Keys(i) : k <= f}
             Newest(f) == CHOOSE k \in Past(f) : \A g \in Past(f) : k >= g
  <2>1. ASSUME NEW f \in Nat, Past(f) # {} PROVE Newest(f) \in Past(f) /\ \A g \in Past(f) : Newest(f) >= g
    <3>1. PICK S : S = Past(f)
      OBVIOUS
    <3>2. S \in SUBSET (0 .. f) /\ S # {}
      BY <2>1, <3>1
    <3>3. PICK x : x = CHOOSE k \in S : \A g \in S : k >= g
      OBVIOUS
    <3>4. x \in S /\ \A g \in S : x >= g
      BY <3>2, <3>3, LastOfPast
    <3>5. x = Newest(f)
      BY <3>1, <3>3
    <3> HIDE DEF Past, Newest
    <3> QED
      BY <3>1, <3>4, <3>5
  <2>2. \A f : HeldAt(i, f) = i.curve[IF Past(f) = {} THEN FirstKey(i) ELSE Newest(f)]
    BY DEF HeldAt
  <2>3. \A f, k : k \in Past(f) <=> k \in Keys(i) /\ k <= f
    OBVIOUS
  <2> HIDE DEF Past, Newest
  <2>4. ASSUME NEW f \in Keys(i) PROVE HeldAt(i, f) = i.curve[f]
    <3>1. f \in Nat /\ f \in Past(f) /\ Newest(f) \in Past(f) /\ Newest(f) >= f
      BY <2>1, <2>3
    <3>2. Newest(f) = f
      BY <2>3, <3>1
    <3> QED
      BY <2>2, <3>1, <3>2
  <2>5. ASSUME NEW f \in i.from .. i.to, \A k \in Keys(i) : k \notin i.from + 1 .. f
        PROVE  HeldAt(i, f) = HeldAt(i, i.from)
    <3>1. \A k \in Keys(i) : k <= f <=> k <= i.from
      BY <2>5
    <3>2. Past(f) = Past(i.from)
      BY <3>1 DEF Past
    <3>3. Newest(f) = Newest(i.from)
      BY <3>2 DEF Newest
    <3> QED
      BY <2>2, <3>2, <3>3
  <2>6. \A from, to, k : k \in InRange(i, from, to) <=> k \in Keys(i) /\ from <= k /\ k <= to
    BY DEF InRange
  <2>7. ASSUME NEW f \in i.from .. i.to, ~HeldAt(i, f)
        PROVE  IsEligibleInRange(i, i.from, i.to)
    <3>1. CASE \A k \in Keys(i) : k \notin i.from + 1 .. f
      <4>1. ~HeldAt(i, i.from)
        BY <2>5, <2>7, <3>1
      <4> QED
        BY <1>3, <4>1 DEF IsEligibleInRange, CurveIndicatesVisible
    <3>2. CASE \E k \in Keys(i) : k \in i.from + 1 .. f
      <4>1. PICK k \in Keys(i) : k \in i.from + 1 .. f
        BY <3>2
      <4>2. k \in Past(f) /\ f \in Nat
        BY <2>3, <4>1
      <4>3. Past(f) # {}
        BY <4>2
      <4>4. Newest(f) \in Past(f) /\ Newest(f) >= k
        BY <2>1, <4>2, <4>3
      <4>5. ~i.curve[Newest(f)]
        BY <2>2, <2>7, <4>3
      <4>6. Newest(f) \in Keys(i) /\ Newest(f) <= f /\ Newest(f) \in Nat
        BY <2>3, <4>4
      <4>7. Newest(f) \in InRange(i, i.from, i.to)
        BY <2>6, <4>1, <4>4, <4>6
      <4> QED
        BY <1>3, <4>5, <4>7 DEF IsEligibleInRange, CurveIndicatesVisible
    <3> QED
      BY <3>1, <3>2
  <2>8. ASSUME EvaluateEligibility(i, i.from, i.to)
        PROVE  IsEligibleInRange(i, i.from, i.to) /\ \E f \in i.from .. i.to : ~HeldAt(i, f)
    <3>1. i.from \in i.from .. i.to
      BY <1>1
    <3>2. CASE InRange(i, i.from, i.to) = {}
      <4>1. ~HeldAt(i, i.from)
        BY <1>3, <2>8, <3>2 DEF EvaluateEligibility
      <4> QED
        BY <2>7, <3>1, <4>1
    <3>3. CASE InRange(i, i.from, i.to) # {}
      <4>1. PICK f \in InRange(i, i.from, i.to) : ~i.curve[f]
        BY <1>3, <2>8, <3>3 DEF EvaluateEligibility
      <4>2. f \in Keys(i) /\ i.from <= f /\ f <= i.to
        BY <2>6
      <4>3. f \in i.from .. i.to /\ ~HeldAt(i, f)
        BY <2>4, <4>1, <4>2
      <4> QED
        BY <2>7, <4>3
    <3> QED
      BY <3>2, <3>3
  <2>9. ASSUME InRange(i, i.from + 1, i.to) = {}, i.interpolation = "CONSTANT",
               IsEligibleInRange(i, i.from, i.to)
        PROVE  EvaluateEligibility(i, i.from, i.to)
    <3>1. (\E f \in InRange(i, i.from, i.to) : ~i.curve[f]) \/ ~HeldAt(i, i.from)
      BY <1>3, <2>9 DEF IsEligibleInRange, CurveIndicatesVisible
    <3>2. CASE \E f \in InRange(i, i.from, i.to) : ~i.curve[f]
      BY <1>3, <3>2 DEF EvaluateEligibility
    <3>3. CASE ~(\E f \in InRange(i, i.from, i.to) : ~i.curve[f])
      <4>1. ~HeldAt(i, i.from)
        BY <3>1, <3>3
      <4>2. ASSUME NEW f \in InRange(i, i.from, i.to) PROVE FALSE
        <5>1. f \in Keys(i) /\ i.from <= f /\ f <= i.to /\ f \notin InRange(i, i.from + 1, i.to)
          BY <2>6, <2>9
        <5>2. f = i.from
          BY <2>6, <5>1
        <5>3. ~i.curve[f]
          BY <2>4, <4>1, <5>1, <5>2
        <5> QED
          BY <3>3, <5>3
      <4>3. InRange(i, i.from, i.to) = {}
        BY <4>2
      <4> QED
        BY <1>3, <4>1, <4>3 DEF EvaluateEligibility
    <3> QED
      BY <3>2, <3>3
  <2> QED
    BY <1>3, <2>7, <2>8, <2>9 DEF EligibilitySound
<1> QED
  BY <1>2, <1>3

-----------------------------------------------------------------------------
(* Folds, and the frames that are covered                                  *)

\* One step of a fold over the indices in s; D[i] is what element i does.
FoldStep(D, base, g, s) == IF s = {} THEN base ELSE D[Max(s)][g[s \ {Max(s)}]]
FoldEquation(D, base, n, g) == g = [s \in SUBSET (1 .. n) |-> FoldStep(D, base, g, s)]

\* The last of some indices, and those before it.
LEMMA MaxOfIndices ==
  ASSUME NEW n \in Nat, NEW s \in SUBSET (1 .. n), s # {}
  PROVE  /\ Max(s) \in s /\ Max(s) \in 1 .. n
         /\ s \ {Max(s)} \in SUBSET (1 .. n)
         /\ \A y \in s \ {Max(s)} : y < Max(s)
<1>1. s \in SUBSET (0 .. n)
  OBVIOUS
<1>2. Max(s) \in s /\ \A y \in s : y <= Max(s)
  BY <1>1, MaxOfBounded
<1>3. PICK m : m = Max(s)
  OBVIOUS
<1>4. m \in s /\ \A y \in s : y <= m
  BY <1>2, <1>3
<1>5. \A y \in s : y \in 1 .. n
  OBVIOUS
<1>6. m \in 1 .. n
  BY <1>4, <1>5
<1>7. \A y \in s \ {m} : y < m
  BY <1>4, <1>5, <1>6
<1> QED
  BY <1>2, <1>3, <1>6, <1>7

\* The library's recursion for folds has a solution.
LEMMA FoldExists ==
  ASSUME NEW n \in Nat, NEW V, NEW base \in V, NEW D \in [1 .. n -> [V -> V]]
  PROVE  \E g \in [SUBSET (1 .. n) -> V] : FoldEquation(D, base, n, g)
<1> DEFINE All == SUBSET (1 .. n)
           Below(s, m) == \A y \in s : y <= m
           Upto(g, m) == \A s \in All : Below(s, m) => g[s] = FoldStep(D, base, g, s)
           N == {m \in Nat : \E g \in [All -> V] : Upto(g, m)}
<1>1. N \in SUBSET Nat
  OBVIOUS
<1>2. 0 \in N
  <2> DEFINE g == [s \in All |-> base]
  <2>1. g \in [All -> V]
    OBVIOUS
  <2>2. ASSUME NEW s \in All, Below(s, 0) PROVE g[s] = FoldStep(D, base, g, s)
    <3>1. s = {}
      BY <2>2
    <3> QED
      BY <3>1 DEF FoldStep
  <2> HIDE DEF g
  <2>3. Upto(g, 0)
    BY <2>2
  <2> HIDE DEF Upto
  <2> QED
    BY <2>1, <2>3
<1>3. ASSUME NEW m \in N PROVE m + 1 \in N
  <2>1. PICK g \in [All -> V] : Upto(g, m)
    OBVIOUS
  <2>2. m \in Nat
    OBVIOUS
  <2> DEFINE h == [s \in All |-> IF Below(s, m) THEN g[s] ELSE FoldStep(D, base, g, s)]
  <2>3. ASSUME NEW s \in All, s # {}
        PROVE  /\ Max(s) \in s /\ Max(s) \in 1 .. n /\ s \ {Max(s)} \in All
               /\ \A y \in s \ {Max(s)} : y < Max(s)
    BY <2>3, MaxOfIndices
  <2>4. ASSUME NEW s \in All PROVE FoldStep(D, base, g, s) \in V
    <3>1. CASE s = {}
      BY <3>1 DEF FoldStep
    <3>2. CASE s # {}
      <4>1. PICK x \in 1 .. n, t \in All : x = Max(s) /\ t = s \ {Max(s)}
        BY <2>3, <3>2
      <4>2. D[x][g[t]] \in V
        OBVIOUS
      <4> QED
        BY <3>2, <4>1, <4>2 DEF FoldStep
    <3> QED
      BY <3>1, <3>2
  <2>5. h \in [All -> V]
    BY <2>4
  <2>6. ASSUME NEW s \in All, Below(s, m + 1) PROVE h[s] = FoldStep(D, base, h, s)
    <3>1. h[s] = FoldStep(D, base, g, s)
      BY <2>1
    <3>2. CASE s = {}
      BY <3>1, <3>2 DEF FoldStep
    <3>3. CASE s # {}
      <4>1. PICK x \in 1 .. n, t \in All : x = Max(s) /\ t = s \ {Max(s)}
        BY <2>3, <3>3
      <4>2. x \in s /\ \A y \in t : y < x /\ y \in 1 .. n
        BY <2>3, <3>3, <4>1
      <4>3. x <= m + 1
        BY <2>6, <4>2
      <4>4. Below(t, m)
        BY <2>2, <4>2, <4>3
      <4>5. h[t] = g[t]
        BY <4>4
      <4> HIDE DEF h
      <4> QED
        BY <3>1, <3>3, <4>1, <4>5 DEF FoldStep
    <3> QED
      BY <3>2, <3>3
  <2> HIDE DEF h
  <2>7. Upto(h, m + 1) /\ m + 1 \in Nat
    BY <2>2, <2>6
  <2> HIDE DEF Upto
  <2> QED
    BY <2>5, <2>7
<1>4. N = Nat
  <2> HIDE DEF N
  <2> QED
    BY <1>1, <1>2, <1>3, Induction
<1>5. PICK g \in [All -> V] : Upto(g, n)
  BY <1>4
<1>6. \A s \in All : Below(s, n)
  OBVIOUS
<1>7. \A s \in All : g[s] = FoldStep(D, base, g, s)
  BY <1>5, <1>6
<1>8. g = [s \in All |-> FoldStep(D, base, g, s)]
  BY <1>7
<1> QED
  BY <1>8 DEF FoldEquation

\* The last of the first i indices is i.
LEMMA PrefixSets ==
  ASSUME NEW i \in Nat, i # 0
  PROVE  Max(1 .. i) = i /\ (1 .. i) \ {i} = 1 .. i - 1
<1>1. PICK s : s = 1 .. i
  OBVIOUS
<1>2. s \in SUBSET (0 .. i) /\ s # {}
  BY <1>1
<1>3. Max(s) \in s /\ \A y \in s : y <= Max(s)
  BY <1>2, MaxOfBounded
<1>4. i \in s
  BY <1>1
<1>5. Max(s) = i
  BY <1>1, <1>3, <1>4
<1> QED
  BY <1>1, <1>5

\* Ranges of frames.
Span == [from : Int, to : Int]
\* The states of the fold, one for each prefix of the ranges.
JoinedUp(g, spans, n) ==
  /\ g \in [0 .. n -> Seq(Span)] /\ g[0] = <<>>
  /\ \A i \in 1 .. n : g[i] = JoinRange(g[i - 1], spans[i])

\* Joining a range gives ranges.
LEMMA JoinType ==
  ASSUME NEW joined \in Seq(Span), NEW c \in Span
  PROVE  JoinRange(joined, c) \in Seq(Span)
<1>1. CASE joined = <<>>
  BY <1>1 DEF JoinRange
<1>2. CASE joined # <<>>
  <2>1. PICK m \in Nat : m = Len(joined) /\ m # 0
    BY <1>2
  <2>2. PICK last : last = joined[m]
    OBVIOUS
  <2>3. last \in Span
    BY <2>1, <2>2
  <2>4. PICK a \in Int, b \in Int : a = last.to /\ b = c.to
    BY <2>3 DEF Span
  <2>5. Max({a, b}) \in {a, b}
    BY MinOfTwo
  <2>6. PICK new : new = Chunk(last.from, Max({last.to, c.to}))
    OBVIOUS
  <2>7. new \in Span
    BY <2>3, <2>4, <2>5, <2>6 DEF Chunk, Span
  <2>8. [joined EXCEPT ![m] = new] \in Seq(Span) /\ Append(joined, c) \in Seq(Span)
    BY <2>1, <2>7
  <2> QED
    BY <2>1, <2>2, <2>6, <2>8 DEF JoinRange
<1> QED
  BY <1>1, <1>2

\* The fold over the ranges is a recursion over their prefixes.
LEMMA JoiningRuns ==
  ASSUME NEW spans \in Seq(Span)
  PROVE  \E g : JoinedUp(g, spans, Len(spans)) /\ FoldLeft(JoinRange, <<>>, spans) = g[Len(spans)]
<1>1. PICK n \in Nat : n = Len(spans) /\ DOMAIN spans = 1 .. n
  OBVIOUS
<1>2. PICK V : V = Seq(Span)
  OBVIOUS
<1>3. PICK D : D = [i \in 1 .. n |-> [v \in V |-> JoinRange(v, spans[i])]]
  OBVIOUS
<1>4. D \in [1 .. n -> [V -> V]] /\ <<>> \in V
  <2>1. ASSUME NEW i \in 1 .. n, NEW v \in V PROVE JoinRange(v, spans[i]) \in V
    <3>1. spans[i] \in Span
      BY <1>1
    <3> QED
      BY <1>2, <3>1, JoinType
  <2>2. \A i \in 1 .. n : [v \in V |-> JoinRange(v, spans[i])] \in [V -> V]
    BY <2>1
  <2> QED
    BY <1>2, <1>3, <2>2
<1> DEFINE Iterates(g) ==
             g = [s \in SUBSET DOMAIN spans |->
                    IF s = {} THEN <<>> ELSE JoinRange(g[s \ {Max(s)}], spans[Max(s)])]
           iter == CHOOSE g : Iterates(g)
<1>5. \E g : Iterates(g)
  <2>1. PICK e : e = <<>> /\ e \in V
    BY <1>4
  <2>2. PICK g \in [SUBSET (1 .. n) -> V] : FoldEquation(D, e, n, g)
    BY <1>4, <2>1, FoldExists
  <2>3. ASSUME NEW s \in SUBSET (1 .. n)
        PROVE  g[s] = IF s = {} THEN <<>> ELSE JoinRange(g[s \ {Max(s)}], spans[Max(s)])
    <3>1. g[s] = FoldStep(D, e, g, s)
      BY <2>2 DEF FoldEquation
    <3>2. CASE s = {}
      BY <2>1, <3>1, <3>2 DEF FoldStep
    <3>3. CASE s # {}
      <4>1. Max(s) \in 1 .. n /\ s \ {Max(s)} \in SUBSET (1 .. n)
        BY <3>3, MaxOfIndices
      <4>2. PICK x \in 1 .. n, t \in SUBSET (1 .. n) : x = Max(s) /\ t = s \ {Max(s)}
        BY <4>1
      <4>3. D[x][g[t]] = JoinRange(g[t], spans[x])
        BY <1>3
      <4> QED
        BY <3>1, <3>3, <4>2, <4>3 DEF FoldStep
    <3> QED
      BY <3>2, <3>3
  <2>4. Iterates(g)
    BY <1>1, <2>3
  <2> HIDE DEF Iterates
  <2> QED
    BY <2>4
<1>6. Iterates(iter)
  <2> HIDE DEF Iterates
  <2> QED
    BY <1>5
<1>7. FoldLeft(JoinRange, <<>>, spans) = iter[DOMAIN spans]
  BY DEF FoldLeft, MapThenFoldSet
<1> HIDE DEF iter
<1>8. PICK g : g = [i \in 0 .. n |-> iter[1 .. i]]
  OBVIOUS
<1>9. iter[{}] = <<>>
  BY <1>6
<1>10. g[0] = <<>>
  <2>1. 1 .. 0 = {} /\ 0 \in 0 .. n
    OBVIOUS
  <2> QED
    BY <1>8, <1>9, <2>1
<1>11. ASSUME NEW i \in 1 .. n PROVE g[i] = JoinRange(g[i - 1], spans[i])
  <2>1. i \in Nat /\ i # 0 /\ i \in 0 .. n /\ i - 1 \in 0 .. n
    OBVIOUS
  <2>2. PICK s, t : s = 1 .. i /\ t = 1 .. i - 1
    OBVIOUS
  <2>3. Max(s) = i /\ s \ {i} = t
    BY <2>1, <2>2, PrefixSets
  <2>4. s \in SUBSET DOMAIN spans /\ s # {}
    <3>1. i \in s /\ \A y \in s : y \in 1 .. n
      BY <2>1, <2>2
    <3> QED
      BY <1>1, <3>1
  <2>5. iter[s] = JoinRange(iter[s \ {Max(s)}], spans[Max(s)])
    BY <1>6, <2>4
  <2> QED
    BY <1>8, <2>1, <2>2, <2>3, <2>5
<1>12. g \in [0 .. n -> Seq(Span)]
  <2> DEFINE N == {i \in Nat : i <= n => g[i] \in Seq(Span)}
  <2>0. g[0] \in Seq(Span)
    BY <1>10
  <2>1. N \in SUBSET Nat /\ 0 \in N
    BY <2>0
  <2>2. ASSUME NEW i \in N PROVE i + 1 \in N
    <3>1. SUFFICES ASSUME i + 1 <= n PROVE g[i + 1] \in Seq(Span)
      OBVIOUS
    <3>2. PICK j \in 1 .. n : j = i + 1
      BY <3>1
    <3>3. j - 1 = i /\ g[i] \in Seq(Span) /\ spans[j] \in Span
      BY <1>1, <3>1, <3>2
    <3>4. JoinRange(g[i], spans[j]) \in Seq(Span)
      BY <3>3, JoinType
    <3> QED
      BY <1>11, <3>2, <3>3, <3>4
  <2> HIDE DEF N
  <2>3. N = Nat
    BY <2>1, <2>2, Induction
  <2>4. \A i \in 0 .. n : g[i] \in Seq(Span)
    BY <2>3 DEF N
  <2> QED
    BY <1>8, <2>4
<1>13. g[n] = iter[DOMAIN spans]
  BY <1>1, <1>8
<1> QED
  BY <1>1, <1>7, <1>10, <1>11, <1>12, <1>13 DEF JoinedUp

\* Ranges in order, none touching the next.
Apart(joined) ==
  /\ \A k \in 1 .. Len(joined) : joined[k].from <= joined[k].to
  /\ \A k \in 1 .. Len(joined) - 1 : joined[k].to + 1 < joined[k + 1].from
\* The frames of the first i ranges.
CoveredTo(spans, i) == UNION {spans[k].from .. spans[k].to : k \in 1 .. i}
\* Ranges sorted by where they start.
InOrder(spans) ==
  /\ \A i \in 1 .. Len(spans) : spans[i].from <= spans[i].to
  /\ \A i, j \in 1 .. Len(spans) : i < j => spans[i].from <= spans[j].from
\* What the first i ranges have become.
JoinedWell(joined, spans, i) ==
  /\ Apart(joined) /\ Covered(joined) = CoveredTo(spans, i)
  /\ i # 0 => joined # <<>> /\ joined[Len(joined)].from <= spans[i].from

\* Joining one more range keeps the ranges apart and their frames the same.
LEMMA JoinKeeps ==
  ASSUME NEW spans \in Seq(Span), InOrder(spans), NEW i \in 1 .. Len(spans),
         NEW joined \in Seq(Span), JoinedWell(joined, spans, i - 1)
  PROVE  JoinedWell(JoinRange(joined, spans[i]), spans, i)
<1>1. PICK n \in Nat : n = Len(spans)
  OBVIOUS
<1>2. PICK c : c = spans[i]
  OBVIOUS
<1>3. c \in Span /\ c.from \in Int /\ c.to \in Int /\ c.from <= c.to /\ i \in Nat /\ i # 0
  <2>1. c \in Span /\ i \in Nat /\ i # 0
    BY <1>1, <1>2
  <2>2. c.from <= c.to
    BY <1>2 DEF InOrder
  <2> QED
    BY <2>1, <2>2 DEF Span
<1>4. CoveredTo(spans, i) = CoveredTo(spans, i - 1) \cup (c.from .. c.to)
  <2>1. \A k : k \in 1 .. i <=> k \in 1 .. i - 1 \/ k = i
    BY <1>3
  <2> QED
    BY <1>2, <2>1 DEF CoveredTo
<1>5. PICK next : next = JoinRange(joined, c)
  OBVIOUS
<1>6. CASE joined = <<>>
  <2>1. next = <<c>>
    BY <1>5, <1>6 DEF JoinRange
  <2>2. Covered(joined) = {}
    BY <1>6 DEF Covered
  <2>3. Len(next) = 1 /\ DOMAIN next = {1} /\ next[1] = c
    BY <2>1
  <2>4. Apart(next)
    BY <1>3, <2>3 DEF Apart
  <2>5. Covered(next) = c.from .. c.to
    BY <2>3 DEF Covered
  <2>6. Covered(next) = CoveredTo(spans, i)
    BY <1>4, <2>2, <2>5 DEF JoinedWell
  <2>7. next # <<>> /\ next[Len(next)].from <= c.from
    <3>1. next[Len(next)] = c /\ next # <<>>
      BY <2>1, <2>3
    <3> QED
      BY <1>3, <3>1
  <2> QED
    BY <1>2, <1>5, <2>4, <2>6, <2>7 DEF JoinedWell
<1>7. CASE joined # <<>>
  <2>1. PICK m \in Nat : m = Len(joined) /\ m # 0 /\ DOMAIN joined = 1 .. m
    BY <1>7
  <2>2. PICK last : last = joined[m]
    OBVIOUS
  <2>3. last \in Span /\ last.from \in Int /\ last.to \in Int /\ last.from <= last.to
    <3>1. last \in Span /\ m \in 1 .. Len(joined)
      BY <2>1, <2>2
    <3> QED
      BY <2>2, <3>1 DEF JoinedWell, Apart, Span
  <2>4. last.from <= c.from
    <3>1. CASE i = 1
      <4>1. 1 .. i - 1 = {}
        BY <3>1
      <4>2. Covered(joined) = {}
        BY <4>1 DEF JoinedWell, CoveredTo
      <4>3. m \in DOMAIN joined /\ last.from \in joined[m].from .. joined[m].to
        BY <2>1, <2>2, <2>3
      <4>4. last.from \in Covered(joined)
        BY <4>3 DEF Covered
      <4> QED
        BY <4>2, <4>4
    <3>2. CASE i # 1
      <4>1. PICK h \in 1 .. n : h = i - 1 /\ h # 0 /\ h < i
        BY <1>1, <1>3, <3>2
      <4>2. last.from <= spans[h].from
        BY <2>1, <2>2, <4>1 DEF JoinedWell
      <4>3. spans[h].from <= c.from
        BY <1>1, <1>2, <4>1 DEF InOrder
      <4>4. spans[h].from \in Int
        <5>1. spans[h] \in Span
          BY <1>1
        <5> QED
          BY <5>1 DEF Span
      <4> QED
        BY <1>3, <2>3, <4>2, <4>3, <4>4
    <3> QED
      BY <3>1, <3>2
  <2>5. CASE c.from <= last.to + 1
    <3>1. PICK high : high = Max({last.to, c.to})
      OBVIOUS
    <3>2. high \in Int /\ high >= last.to /\ high >= c.to /\ (high = last.to \/ high = c.to)
      <4>1. /\ Max({last.to, c.to}) \in {last.to, c.to}
            /\ Max({last.to, c.to}) >= last.to /\ Max({last.to, c.to}) >= c.to
        BY <1>3, <2>3, MinOfTwo
      <4> QED
        BY <1>3, <2>3, <3>1, <4>1
    <3>3. PICK new : new = Chunk(last.from, high)
      OBVIOUS
    <3>4. new.from = last.from /\ new.to = high
      BY <3>3 DEF Chunk
    <3>5. next = [joined EXCEPT ![m] = new]
      BY <1>5, <1>7, <2>1, <2>2, <2>5, <3>1, <3>3 DEF JoinRange
    <3>6. /\ Len(next) = m /\ DOMAIN next = 1 .. m /\ next[m] = new
          /\ \A k \in 1 .. m : k # m => next[k] = joined[k]
      BY <2>1, <3>5
    <3>7. Apart(next)
      <4>1. ASSUME NEW k \in 1 .. m PROVE next[k].from <= next[k].to
        <5>1. CASE k = m
          BY <2>3, <3>2, <3>4, <3>6, <5>1
        <5>2. CASE k # m
          BY <2>1, <3>6, <5>2 DEF JoinedWell, Apart
        <5> QED
          BY <5>1, <5>2
      <4>2. ASSUME NEW k \in 1 .. m - 1 PROVE next[k].to + 1 < next[k + 1].from
        <5>1. k \in 1 .. m /\ k # m /\ k + 1 \in 1 .. m
          BY <2>1
        <5>2. joined[k].to + 1 < joined[k + 1].from
          BY <2>1 DEF JoinedWell, Apart
        <5>3. next[k + 1].from = joined[k + 1].from
          BY <2>2, <3>4, <3>6, <5>1
        <5> QED
          BY <3>6, <5>1, <5>2, <5>3
      <4> QED
        BY <3>6, <4>1, <4>2 DEF Apart
    <3>8. Covered(next) = Covered(joined) \cup (c.from .. c.to)
      <4>1. \A x : x \in last.from .. high <=> x \in last.from .. last.to \/ x \in c.from .. c.to
        BY <1>3, <2>3, <2>4, <2>5, <3>2
      <4>2. \A x : x \in Covered(next) <=>
                   x \in last.from .. high \/ \E k \in 1 .. m : k # m /\ x \in joined[k].from .. joined[k].to
        <5>1. \A x : x \in Covered(next) <=> \E k \in 1 .. m : x \in next[k].from .. next[k].to
          BY <3>6 DEF Covered
        <5>2. m \in 1 .. m /\ next[m].from = last.from /\ next[m].to = high
          BY <2>1, <3>4, <3>6
        <5> QED
          BY <3>6, <5>1, <5>2
      <4>3. \A x : x \in Covered(joined) <=>
                   x \in last.from .. last.to \/ \E k \in 1 .. m : k # m /\ x \in joined[k].from .. joined[k].to
        BY <2>1, <2>2 DEF Covered
      <4> QED
        BY <4>1, <4>2, <4>3
    <3>9. Covered(next) = CoveredTo(spans, i)
      BY <1>4, <3>8 DEF JoinedWell
    <3>10. next # <<>> /\ next[Len(next)].from <= c.from
      BY <2>1, <2>4, <3>4, <3>6
    <3> QED
      BY <1>2, <1>5, <3>7, <3>9, <3>10 DEF JoinedWell
  <2>6. CASE ~(c.from <= last.to + 1)
    <3>1. next = Append(joined, c)
      BY <1>5, <1>7, <2>1, <2>2, <2>6 DEF JoinRange
    <3>2. /\ Len(next) = m + 1 /\ DOMAIN next = 1 .. m + 1 /\ next[m + 1] = c
          /\ \A k \in 1 .. m : next[k] = joined[k]
      BY <2>1, <3>1
    <3>3. Apart(next)
      <4>1. ASSUME NEW k \in 1 .. m + 1 PROVE next[k].from <= next[k].to
        <5>1. CASE k = m + 1
          BY <1>3, <3>2, <5>1
        <5>2. CASE k # m + 1
          <6>1. k \in 1 .. m
            BY <2>1, <5>2
          <6> QED
            BY <2>1, <3>2, <6>1 DEF JoinedWell, Apart
        <5> QED
          BY <5>1, <5>2
      <4>2. ASSUME NEW k \in 1 .. m + 1 - 1 PROVE next[k].to + 1 < next[k + 1].from
        <5>1. CASE k = m
          <6>1. k \in 1 .. m /\ last.to + 1 < c.from
            BY <1>3, <2>1, <2>3, <2>6, <5>1
          <6> QED
            BY <2>2, <3>2, <5>1, <6>1
        <5>2. CASE k # m
          <6>1. k \in 1 .. m /\ k + 1 \in 1 .. m /\ k \in 1 .. m - 1
            BY <2>1, <5>2
          <6>2. joined[k].to + 1 < joined[k + 1].from
            BY <2>1, <6>1 DEF JoinedWell, Apart
          <6> QED
            BY <3>2, <6>1, <6>2
        <5> QED
          BY <5>1, <5>2
      <4> QED
        BY <3>2, <4>1, <4>2 DEF Apart
    <3>4. Covered(next) = Covered(joined) \cup (c.from .. c.to)
      <4>1. \A k : k \in 1 .. m + 1 <=> k \in 1 .. m \/ k = m + 1
        BY <2>1
      <4> QED
        BY <2>1, <3>2, <4>1 DEF Covered
    <3>5. Covered(next) = CoveredTo(spans, i)
      BY <1>4, <3>4 DEF JoinedWell
    <3>6. next # <<>> /\ next[Len(next)].from <= c.from
      BY <1>3, <2>1, <3>2
    <3> QED
      BY <1>2, <1>5, <3>3, <3>5, <3>6 DEF JoinedWell
  <2> QED
    BY <2>5, <2>6
<1> QED
  BY <1>6, <1>7

\* So does joining all of them, in their order.
LEMMA JoiningWell ==
  ASSUME NEW spans \in Seq(Span), InOrder(spans)
  PROVE  LET joined == FoldLeft(JoinRange, <<>>, spans)
         IN joined \in Seq(Span) /\ Apart(joined) /\ Covered(joined) = Covered(spans)
<1>1. PICK n \in Nat : n = Len(spans) /\ DOMAIN spans = 1 .. n
  OBVIOUS
<1>2. PICK g : JoinedUp(g, spans, n) /\ FoldLeft(JoinRange, <<>>, spans) = g[n]
  BY <1>1, JoiningRuns
<1> DEFINE N == {i \in Nat : i <= n => JoinedWell(g[i], spans, i)}
<1>3. N \in SUBSET Nat
  OBVIOUS
<1>4. JoinedWell(g[0], spans, 0)
  <2>1. g[0] = <<>> /\ Len(<<>>) = 0 /\ DOMAIN <<>> = {} /\ 1 .. 0 = {}
    BY <1>2 DEF JoinedUp
  <2>2. Covered(g[0]) = {} /\ CoveredTo(spans, 0) = {}
    BY <2>1 DEF Covered, CoveredTo
  <2>3. Apart(g[0])
    BY <2>1 DEF Apart
  <2> QED
    BY <2>2, <2>3 DEF JoinedWell
<1>5. 0 \in N
  BY <1>4
<1>6. ASSUME NEW i \in N PROVE i + 1 \in N
  <2>1. SUFFICES ASSUME i + 1 <= n PROVE JoinedWell(g[i + 1], spans, i + 1)
    OBVIOUS
  <2>2. PICK j \in 1 .. n : j = i + 1 /\ j - 1 = i /\ i \in 0 .. n
    BY <2>1
  <2>3. g[j - 1] \in Seq(Span) /\ JoinedWell(g[j - 1], spans, j - 1) /\ g[j] = JoinRange(g[j - 1], spans[j])
    BY <1>2, <2>1, <2>2 DEF JoinedUp
  <2>4. j \in 1 .. Len(spans)
    BY <1>1
  <2>5. JoinedWell(JoinRange(g[j - 1], spans[j]), spans, j)
    BY <2>3, <2>4, JoinKeeps
  <2> QED
    BY <2>2, <2>3, <2>5
<1> HIDE DEF N
<1>7. N = Nat
  BY <1>3, <1>5, <1>6, Induction
<1>8. JoinedWell(g[n], spans, n)
  BY <1>7 DEF N
<1>9. CoveredTo(spans, n) = Covered(spans)
  BY <1>1 DEF CoveredTo, Covered
<1>10. g[n] \in Seq(Span)
  BY <1>2 DEF JoinedUp
<1> QED
  BY <1>2, <1>8, <1>9, <1>10 DEF JoinedWell

\* Ranges are sorted by a weak order.
LEMMA RangesOrder ==
  ASSUME NEW n \in Nat, NEW chunks \in Seq(Span), n = Len(chunks)
  PROVE  LET R == {p \in (1 .. n) \X (1 .. n) : RangeBefore(chunks[p[1]], chunks[p[2]])}
         IN WeakOrder(R, n)
<1> DEFINE R == {p \in (1 .. n) \X (1 .. n) : RangeBefore(chunks[p[1]], chunks[p[2]])}
           A(i) == chunks[i].from
           B(i) == chunks[i].to
           Less(i, j) == A(i) < A(j) \/ (A(i) = A(j) /\ B(i) < B(j))
<1>1. ASSUME NEW i \in 1 .. n PROVE A(i) \in Int /\ B(i) \in Int
  <2>1. chunks[i] \in Span
    OBVIOUS
  <2> QED
    BY <2>1 DEF Span
<1>2. \A i, j \in 1 .. n : <<i, j>> \in R <=> Less(i, j)
  BY DEF RangeBefore
<1> HIDE DEF A, B, R
<1>3. \A i, j \in 1 .. n : Less(i, j) => ~Less(j, i)
  BY <1>1
<1>4. ASSUME NEW i \in 1 .. n, NEW j \in 1 .. n, NEW k \in 1 .. n, ~Less(i, j), ~Less(j, k)
      PROVE  ~Less(i, k)
  BY <1>1, <1>4
<1> HIDE DEF Less
<1>5. WeakOrder(R, n)
  BY <1>2, <1>3, <1>4 DEF WeakOrder
<1> QED
  BY <1>5 DEF R

\* Merging (compute_frame_coverage) covers the same frames by ranges that do not touch.
LEMMA RangesMerged ==
  ASSUME NEW chunks \in Seq(Span), \A i \in 1 .. Len(chunks) : chunks[i].from <= chunks[i].to
  PROVE  /\ MergeRanges(chunks) \in Seq(Span) /\ Apart(MergeRanges(chunks))
         /\ Covered(MergeRanges(chunks)) = Covered(chunks)
<1>1. PICK n \in Nat : n = Len(chunks) /\ DOMAIN chunks = 1 .. n
  OBVIOUS
<1>2. PICK R : R = {p \in (1 .. n) \X (1 .. n) : RangeBefore(chunks[p[1]], chunks[p[2]])}
  OBVIOUS
<1>3. WeakOrder(R, n)
  BY <1>1, <1>2, RangesOrder
<1>4. PICK order : order = Ranked(n, R)
  OBVIOUS
<1>5. PermutationOf(order, n) /\ \A k, l \in 1 .. n : k < l <=> Precedes(order[k], order[l], R)
  BY <1>3, <1>4, RankedSorts
<1>6. DOMAIN order = 1 .. n /\ \A k \in 1 .. n : order[k] \in 1 .. n
  BY <1>5 DEF PermutationOf
<1>7. PICK sorted : sorted = [k \in 1 .. n |-> chunks[order[k]]]
  OBVIOUS
<1>8. Order(Len(chunks), LAMBDA i, j : RangeBefore(chunks[i], chunks[j])) = order
  BY <1>1, <1>2, <1>4 DEF Order
<1>9. MergeRanges(chunks) = FoldLeft(JoinRange, <<>>, sorted)
  <2>1. Pick(chunks, order) = sorted
    BY <1>6, <1>7 DEF Pick
  <2>2. MergeRanges(chunks) = FoldLeft(JoinRange, <<>>, Pick(chunks, order))
    BY <1>8, Zenon DEF MergeRanges
  <2> QED
    BY <2>1, <2>2, Zenon
<1>10. sorted \in Seq(Span) /\ Len(sorted) = n /\ DOMAIN sorted = 1 .. n
  BY <1>1, <1>6, <1>7
<1>11. InOrder(sorted)
  <2>1. ASSUME NEW i \in 1 .. n PROVE sorted[i].from <= sorted[i].to
    BY <1>1, <1>6, <1>7
  <2>2. ASSUME NEW k \in 1 .. n, NEW l \in 1 .. n, k < l PROVE sorted[k].from <= sorted[l].from
    <3>1. PICK i \in 1 .. n, j \in 1 .. n : i = order[k] /\ j = order[l]
      BY <1>6
    <3>2. ~Precedes(j, i, R)
      BY <1>5, <2>2, <3>1
    <3>3. <<j, i>> \notin R
      BY <3>2 DEF Precedes
    <3>4. ~RangeBefore(chunks[j], chunks[i])
      BY <1>2, <3>3
    <3>5. chunks[i] \in Span /\ chunks[j] \in Span
      BY <1>1
    <3>6. chunks[i].from <= chunks[j].from
      BY <3>4, <3>5 DEF RangeBefore, Span
    <3> QED
      BY <1>7, <3>1, <3>6
  <2> QED
    BY <1>10, <2>1, <2>2 DEF InOrder
<1>12. Covered(sorted) = Covered(chunks)
  <2>1. \A x : x \in Covered(sorted) <=> \E k \in 1 .. n : x \in chunks[order[k]].from .. chunks[order[k]].to
    BY <1>7, <1>10 DEF Covered
  <2>2. \A x : x \in Covered(chunks) <=> \E k \in 1 .. n : x \in chunks[k].from .. chunks[k].to
    BY <1>1 DEF Covered
  <2>3. \A j \in 1 .. n : \E k \in 1 .. n : order[k] = j
    BY <1>5 DEF PermutationOf
  <2> QED
    BY <1>6, <2>1, <2>2, <2>3
<1>13. PICK joined : joined = FoldLeft(JoinRange, <<>>, sorted)
  OBVIOUS
<1>14. joined \in Seq(Span) /\ Apart(joined) /\ Covered(joined) = Covered(sorted)
  BY <1>10, <1>11, <1>13, JoiningWell
<1> QED
  BY <1>9, <1>12, <1>13, <1>14

\* Ranges apart from the next are apart from all later ones.
LEMMA ApartThroughout ==
  ASSUME NEW merged \in Seq(Span), Apart(merged),
         NEW i \in 1 .. Len(merged), NEW j \in 1 .. Len(merged), i < j
  PROVE  merged[i].to + 1 < merged[j].from
<1>1. PICK m \in Nat : m = Len(merged)
  OBVIOUS
<1>2. \A k \in 1 .. m : merged[k].from \in Int /\ merged[k].to \in Int
  <2>1. ASSUME NEW k \in 1 .. m PROVE merged[k] \in Span
    BY <1>1
  <2> QED
    BY <2>1 DEF Span
<1>3. /\ \A k \in 1 .. m : merged[k].from <= merged[k].to
      /\ \A k \in 1 .. m - 1 : merged[k].to + 1 < merged[k + 1].from
  BY <1>1 DEF Apart
<1> DEFINE N == {k \in Nat : i + k + 1 <= m => merged[i].to + 1 < merged[i + k + 1].from}
<1>4. N \in SUBSET Nat
  OBVIOUS
<1>5. 0 \in N
  <2>1. i + 0 + 1 = i + 1
    OBVIOUS
  <2>2. i + 1 <= m => i \in 1 .. m - 1
    BY <1>1
  <2> QED
    BY <1>3, <2>1, <2>2
<1>6. ASSUME NEW k \in N PROVE k + 1 \in N
  <2>1. SUFFICES ASSUME i + (k + 1) + 1 <= m PROVE merged[i].to + 1 < merged[i + (k + 1) + 1].from
    OBVIOUS
  <2>2. PICK h \in 1 .. m - 1 : h = i + k + 1
    BY <1>1, <2>1
  <2>3. i \in 1 .. m /\ h \in 1 .. m /\ h + 1 \in 1 .. m /\ i + (k + 1) + 1 = h + 1
    BY <1>1, <2>2
  <2>4. merged[i].to + 1 < merged[h].from
    BY <1>1, <2>2, <2>3
  <2>5. merged[h].from <= merged[h].to /\ merged[h].to + 1 < merged[h + 1].from
    BY <1>3, <2>3
  <2>6. merged[i].to + 1 < merged[h + 1].from
    BY <1>2, <2>3, <2>4, <2>5, SMTT(40)
  <2> QED
    BY <2>3, <2>6
<1> HIDE DEF N
<1>7. N = Nat
  BY <1>4, <1>5, <1>6, Induction
<1>8. PICK k \in Nat : i + k + 1 = j
  <2>1. j - i - 1 \in Nat /\ i + (j - i - 1) + 1 = j
    OBVIOUS
  <2> QED
    BY <2>1
<1>9. i + k + 1 <= m => merged[i].to + 1 < merged[i + k + 1].from
  BY <1>7, <1>8 DEF N
<1>10. i + k + 1 <= m
  BY <1>1, <1>8
<1> QED
  BY <1>8, <1>9, <1>10

\* Where the search for the i-th gap begins.
CursorAt(from, merged, i) == Max({from} \cup {merged[k].to + 1 : k \in 1 .. i - 1})

\* The cursor is behind the ranges met.
LEMMA CursorBehind ==
  ASSUME NEW merged \in Seq(Span), Apart(merged), NEW from \in Int, NEW i \in 1 .. Len(merged) + 1
  PROVE  /\ CursorAt(from, merged, i) \in Int /\ CursorAt(from, merged, i) >= from
         /\ \A k \in 1 .. i - 1 : CursorAt(from, merged, i) >= merged[k].to + 1
         /\ CursorAt(from, merged, i) = from
              \/ \E k \in 1 .. i - 1 : CursorAt(from, merged, i) = merged[k].to + 1
<1>1. PICK m \in Nat : m = Len(merged)
  OBVIOUS
<1>2. \A k \in 1 .. m : merged[k].from \in Int /\ merged[k].to \in Int
  <2>1. ASSUME NEW k \in 1 .. m PROVE merged[k] \in Span
    BY <1>1
  <2> QED
    BY <2>1 DEF Span
<1>3. PICK S : S = {from} \cup {merged[k].to + 1 : k \in 1 .. i - 1}
  OBVIOUS
<1>4. \A k \in 1 .. i - 1 : k \in 1 .. m
  BY <1>1
<1>5. \A k \in 1 .. i - 1 : merged[k].to + 1 \in Int
  BY <1>2, <1>4
<1>6. \E x \in S : \A y \in S : x >= y
  <2>1. CASE i = 1
    <3>1. S = {from}
      <4>1. 1 .. i - 1 = {}
        BY <2>1
      <4> QED
        BY <1>3, <4>1
    <3> QED
      BY <3>1
  <2>2. CASE i # 1
    <3>1. PICK h \in 1 .. i - 1 : h = i - 1
      BY <1>1, <2>2
    <3>2. PICK e \in Int : e = merged[h].to + 1
      BY <1>5
    <3>3. ASSUME NEW k \in 1 .. i - 1 PROVE merged[k].to + 1 <= e
      <4>1. CASE k = h
        BY <1>5, <3>2, <4>1
      <4>2. CASE k # h
        <5>1. k \in 1 .. m /\ h \in 1 .. m /\ k < h
          BY <1>1, <1>4, <3>1, <4>2
        <5>2. merged[k].to + 1 < merged[h].from
          BY <1>1, <5>1, ApartThroughout
        <5>3. merged[h].from <= merged[h].to
          BY <1>1, <5>1 DEF Apart
        <5> QED
          BY <1>2, <3>2, <5>1, <5>2, <5>3
      <4> QED
        BY <4>1, <4>2
    <3>4. CASE from >= e
      <4>1. \A y \in S : from >= y
        BY <1>3, <1>5, <3>2, <3>3, <3>4
      <4> QED
        BY <1>3, <4>1
    <3>5. CASE ~(from >= e)
      <4>1. \A y \in S : e >= y
        BY <1>3, <1>5, <3>2, <3>3, <3>5
      <4>2. e \in S
        BY <1>3, <3>2
      <4> QED
        BY <4>1, <4>2
    <3> QED
      BY <3>4, <3>5
  <2> QED
    BY <2>1, <2>2
<1>7. Max(S) \in S /\ \A y \in S : Max(S) >= y
  BY <1>6 DEF Max
<1>8. CursorAt(from, merged, i) = Max(S)
  BY <1>3 DEF CursorAt
<1>9. PICK c : c = CursorAt(from, merged, i)
  OBVIOUS
<1>10. c \in S /\ \A y \in S : c >= y
  BY <1>7, <1>8, <1>9
<1>11. c = from \/ \E k \in 1 .. i - 1 : c = merged[k].to + 1
  BY <1>3, <1>10
<1>12. c \in Int
  BY <1>5, <1>11
<1>13. c >= from /\ \A k \in 1 .. i - 1 : c >= merged[k].to + 1
  BY <1>3, <1>10
<1> QED
  BY <1>9, <1>11, <1>12, <1>13

\* Where the i-th gap ends.
StopAt(to, merged, i) == IF i \in 1 .. Len(merged) THEN Min({merged[i].from - 1, to}) ELSE to

\* The stop is before the range to come.
LEMMA StopBefore ==
  ASSUME NEW merged \in Seq(Span), NEW to \in Int, NEW i \in 1 .. Len(merged) + 1
  PROVE  /\ StopAt(to, merged, i) \in Int /\ StopAt(to, merged, i) <= to
         /\ i \in 1 .. Len(merged) => StopAt(to, merged, i) <= merged[i].from - 1
         /\ \A f \in Int : f <= to /\ (i \in 1 .. Len(merged) => f < merged[i].from)
                           => f <= StopAt(to, merged, i)
<1>1. CASE i \in 1 .. Len(merged)
  <2>1. merged[i] \in Span
    BY <1>1
  <2>2. PICK b \in Int : b = merged[i].from - 1
    BY <2>1 DEF Span
  <2>3. Min({b, to}) \in {b, to} /\ Min({b, to}) <= b /\ Min({b, to}) <= to
    BY MinOfTwo
  <2>4. PICK s : s = Min({b, to})
    OBVIOUS
  <2>5. s \in Int /\ s <= b /\ s <= to /\ (s = b \/ s = to)
    BY <2>3, <2>4
  <2>6. StopAt(to, merged, i) = s
    BY <1>1, <2>2, <2>4 DEF StopAt
  <2>7. PICK a \in Int : a = merged[i].from
    BY <2>1 DEF Span
  <2>8. \A f \in Int : f <= to /\ f < a => f <= s
    BY <2>2, <2>5, <2>7
  <2>9. s <= a - 1
    BY <2>2, <2>5, <2>7
  <2> QED
    BY <1>1, <2>5, <2>6, <2>7, <2>8, <2>9
<1>2. CASE i \notin 1 .. Len(merged)
  BY <1>2 DEF StopAt
<1> QED
  BY <1>1, <1>2

\* The gaps are the stretches from cursor to stop.
LEMMA GapsAre ==
  ASSUME NEW merged \in Seq(Span), NEW from \in Int, NEW to \in Int
  PROVE  \A g : g \in Gaps(from, to, merged) <=>
                \E i \in 1 .. Len(merged) + 1 :
                   /\ g = Chunk(CursorAt(from, merged, i), StopAt(to, merged, i))
                   /\ CursorAt(from, merged, i) <= StopAt(to, merged, i)
<1>1. PICK m \in Nat : m = Len(merged) /\ DOMAIN merged = 1 .. m
  OBVIOUS
<1> DEFINE Gap(i) == Chunk(CursorAt(from, merged, i), StopAt(to, merged, i))
<1>2. \A i \in 1 .. m : Gap(i) = Chunk(CursorAt(from, merged, i), Min({merged[i].from - 1, to}))
  BY <1>1 DEF StopAt
<1>3. Gap(m + 1) = Chunk(CursorAt(from, merged, m + 1), to)
  <2>1. m + 1 \notin 1 .. Len(merged)
    BY <1>1
  <2> QED
    BY <2>1 DEF StopAt
<1>4. Gaps(from, to, merged) =
        {g \in {Chunk(CursorAt(from, merged, i), Min({merged[i].from - 1, to})) : i \in 1 .. m}
               \cup {Chunk(CursorAt(from, merged, m + 1), to)} : g.from <= g.to}
  BY <1>1 DEF Gaps, CursorAt
<1>5. \A i : Gap(i).from = CursorAt(from, merged, i) /\ Gap(i).to = StopAt(to, merged, i)
  BY DEF Chunk
<1> HIDE DEF Gap
<1>6. \A i : i \in 1 .. m + 1 <=> i \in 1 .. m \/ i = m + 1
  BY <1>1
<1>7. ASSUME NEW g
      PROVE  g \in Gaps(from, to, merged) <=>
             \E i \in 1 .. m + 1 : g = Gap(i) /\ CursorAt(from, merged, i) <= StopAt(to, merged, i)
  <2>1. g \in Gaps(from, to, merged) <=> (\E i \in 1 .. m + 1 : g = Gap(i)) /\ g.from <= g.to
    BY <1>2, <1>3, <1>4, <1>6
  <2> QED
    BY <1>5, <2>1
<1> QED
  BY <1>1, <1>7 DEF Gap

\* The frames of the gaps are the frames of the job that no range covers, and the
\* gaps are apart.
ExactGaps(gaps, from, to, chunks) ==
  /\ UNION {g.from .. g.to : g \in gaps} = (from .. to) \ Covered(chunks)
  /\ \A g, h \in gaps : g # h => g.to + 1 < h.from \/ h.to + 1 < g.from

\* CoverageExact: whatever ranges were rendered, in whatever order and
\* however they overlap or leave the job's range, the gaps reported are
\* exactly the frames of the job nobody rendered, and they do not touch
\* (compute_frame_coverage).
THEOREM CoverageExact ==
  ASSUME NEW chunks \in Seq(Span), \A i \in 1 .. Len(chunks) : chunks[i].from <= chunks[i].to,
         NEW from \in Int, NEW to \in Int
  PROVE  ExactGaps(Gaps(from, to, MergeRanges(chunks)), from, to, chunks)
<1>1. PICK merged : merged = MergeRanges(chunks)
  OBVIOUS
<1>2. merged \in Seq(Span) /\ Apart(merged) /\ Covered(merged) = Covered(chunks)
  BY <1>1, RangesMerged
<1>3. PICK m \in Nat : m = Len(merged) /\ DOMAIN merged = 1 .. m
  BY <1>2
<1>4. \A k \in 1 .. m : merged[k].from \in Int /\ merged[k].to \in Int /\ merged[k].from <= merged[k].to
  <2>1. ASSUME NEW k \in 1 .. m PROVE merged[k] \in Span
    BY <1>2, <1>3
  <2> QED
    BY <1>2, <1>3, <2>1 DEF Span, Apart
<1>5. \A i, j \in 1 .. m : i < j => merged[i].to + 1 < merged[j].from
  BY <1>2, <1>3, ApartThroughout
<1> DEFINE lo(i) == CursorAt(from, merged, i)
           hi(i) == StopAt(to, merged, i)
<1>6. ASSUME NEW i \in 1 .. m + 1
      PROVE  /\ lo(i) \in Int /\ lo(i) >= from
             /\ \A k \in 1 .. i - 1 : lo(i) >= merged[k].to + 1
             /\ lo(i) = from \/ \E k \in 1 .. i - 1 : lo(i) = merged[k].to + 1
  BY <1>2, <1>3, CursorBehind
<1>7. ASSUME NEW i \in 1 .. m + 1
      PROVE  /\ hi(i) \in Int /\ hi(i) <= to /\ (i \in 1 .. m => hi(i) <= merged[i].from - 1)
             /\ \A f \in Int : f <= to /\ (i \in 1 .. m => f < merged[i].from) => f <= hi(i)
  BY <1>2, <1>3, StopBefore
<1>8. PICK gaps : gaps = Gaps(from, to, merged)
  OBVIOUS
<1>9. \A g : g \in gaps <=> \E i \in 1 .. m + 1 : g = Chunk(lo(i), hi(i)) /\ lo(i) <= hi(i)
  BY <1>2, <1>3, <1>8, GapsAre
<1> HIDE DEF lo, hi
<1>10. ASSUME NEW f \in Int, f \in from .. to, f \notin Covered(merged)
       PROVE  \E g \in gaps : f \in g.from .. g.to
  <2> DEFINE Later == {k \in 1 .. m + 1 : k = m + 1 \/ merged[k].from > f}
  <2>1. Later \in SUBSET Nat /\ m + 1 \in Later
    BY <1>3
  <2>2. PICK i \in Later : \A k \in Later : i <= k
    <3> HIDE DEF Later
    <3> QED
      BY <2>1, LeastNatural
  <2>3. i \in 1 .. m + 1 /\ (i \in 1 .. m => f < merged[i].from)
    BY <1>4, <2>2
  <2>4. f <= hi(i)
    BY <1>7, <1>10, <2>3
  <2>5. ASSUME NEW k \in 1 .. i - 1 PROVE merged[k].to + 1 <= f
    <3>1. k \in 1 .. m /\ k < i /\ k \in 1 .. m + 1
      BY <2>3
    <3>2. ~(merged[k].from > f)
      BY <2>2, <3>1
    <3>3. f \notin merged[k].from .. merged[k].to
      BY <1>3, <1>10, <3>1 DEF Covered
    <3> QED
      BY <1>4, <3>1, <3>2, <3>3
  <2>6. lo(i) <= f
    <3>1. CASE lo(i) = from
      BY <1>10, <3>1
    <3>2. CASE \E k \in 1 .. i - 1 : lo(i) = merged[k].to + 1
      BY <2>5, <3>2
    <3> QED
      BY <1>6, <2>3, <3>1, <3>2
  <2>7. lo(i) \in Int /\ hi(i) \in Int
    BY <1>6, <1>7, <2>3
  <2>8. PICK g : g = Chunk(lo(i), hi(i))
    OBVIOUS
  <2>9. g \in gaps
    BY <1>9, <2>3, <2>4, <2>6, <2>7, <2>8
  <2>10. g.from = lo(i) /\ g.to = hi(i)
    BY <2>8 DEF Chunk
  <2>11. f \in g.from .. g.to
    BY <2>4, <2>6, <2>7, <2>10
  <2> QED
    BY <2>9, <2>11
<1>11. ASSUME NEW g \in gaps, NEW f \in g.from .. g.to
       PROVE  f \in from .. to /\ f \notin Covered(merged)
  <2>1. PICK i \in 1 .. m + 1 : g = Chunk(lo(i), hi(i)) /\ lo(i) <= hi(i)
    BY <1>9
  <2>2. g.from = lo(i) /\ g.to = hi(i) /\ lo(i) \in Int /\ hi(i) \in Int
    BY <1>6, <1>7, <2>1 DEF Chunk
  <2>3. f \in Int /\ lo(i) <= f /\ f <= hi(i)
    BY <2>2
  <2>4. f \in from .. to
    BY <1>6, <1>7, <2>2, <2>3
  <2>5. ASSUME NEW k \in 1 .. m PROVE f \notin merged[k].from .. merged[k].to
    <3>1. CASE k < i
      <4>1. k \in 1 .. i - 1
        BY <3>1
      <4>2. lo(i) >= merged[k].to + 1
        BY <1>6, <4>1
      <4> QED
        BY <1>4, <2>2, <2>3, <4>2
    <3>2. CASE ~(k < i)
      <4>1. i \in 1 .. m /\ (i = k \/ i < k)
        BY <3>2
      <4>2. hi(i) <= merged[i].from - 1
        BY <1>7, <4>1
      <4>3. merged[i].from <= merged[k].from
        <5>1. CASE i = k
          BY <1>4, <5>1
        <5>2. CASE i < k
          <6>1. merged[i].to + 1 < merged[k].from
            BY <1>5, <4>1, <5>2
          <6> QED
            BY <1>4, <4>1, <6>1
        <5> QED
          BY <4>1, <5>1, <5>2
      <4> QED
        BY <1>4, <2>2, <2>3, <4>1, <4>2, <4>3
    <3> QED
      BY <3>1, <3>2
  <2>6. f \notin Covered(merged)
    BY <1>3, <2>5 DEF Covered
  <2> QED
    BY <2>4, <2>6
<1>12. ASSUME NEW i \in 1 .. m + 1, NEW j \in 1 .. m + 1, i < j PROVE hi(i) + 1 < lo(j)
  <2>1. i \in 1 .. m /\ i \in 1 .. j - 1
    BY <1>12
  <2>2. hi(i) <= merged[i].from - 1 /\ lo(j) >= merged[i].to + 1
    BY <1>6, <1>7, <2>1
  <2>3. hi(i) \in Int /\ lo(j) \in Int
    BY <1>6, <1>7
  <2> QED
    BY <1>4, <2>1, <2>2, <2>3
<1>13. ASSUME NEW g \in gaps, NEW h \in gaps, g # h PROVE g.to + 1 < h.from \/ h.to + 1 < g.from
  <2>1. PICK i \in 1 .. m + 1 : g = Chunk(lo(i), hi(i))
    BY <1>9
  <2>2. PICK j \in 1 .. m + 1 : h = Chunk(lo(j), hi(j))
    BY <1>9
  <2>3. i < j \/ j < i
    BY <1>13, <2>1, <2>2
  <2>4. g.from = lo(i) /\ g.to = hi(i) /\ h.from = lo(j) /\ h.to = hi(j)
    BY <2>1, <2>2 DEF Chunk
  <2> QED
    BY <1>12, <2>3, <2>4
<1>14. UNION {g.from .. g.to : g \in gaps} = (from .. to) \ Covered(merged)
  <2>1. \A f \in from .. to : f \in Int
    OBVIOUS
  <2>2. ASSUME NEW f PROVE f \in UNION {g.from .. g.to : g \in gaps} <=> \E g \in gaps : f \in g.from .. g.to
    OBVIOUS
  <2>3. ASSUME NEW f PROVE (\E g \in gaps : f \in g.from .. g.to) <=> f \in from .. to /\ f \notin Covered(merged)
    BY <1>10, <1>11, <2>1
  <2> QED
    BY <2>2, <2>3
<1> QED
  BY <1>1, <1>2, <1>8, <1>13, <1>14 DEF ExactGaps

-----------------------------------------------------------------------------
(* List comprehensions, and the report of a render job                     *)

\* An increasing enumeration of a set of indices.
Enumerates(s, kept, n) ==
  /\ s \in [1 .. n -> kept]
  /\ \A k, l \in 1 .. n : k < l <=> s[k] < s[l]
  /\ \A i \in kept : \E k \in 1 .. n : s[k] = i

\* A comprehension keeps the elements that pass, each once, in their order.
LEMMA AscendingEnumerates ==
  ASSUME NEW n \in Nat, NEW kept \in SUBSET (1 .. n)
  PROVE  /\ IsFiniteSet(kept) /\ Cardinality(kept) \in Nat
         /\ Enumerates(Ascending(kept), kept, Cardinality(kept))
<1>1. IsFiniteSet(1 .. n)
  <2>1. PICK a \in Int : a = 1
    OBVIOUS
  <2>2. IsFiniteSet(a .. n)
    BY FS_Interval
  <2> QED
    BY <2>1, <2>2
<1>2. IsFiniteSet(kept) /\ Cardinality(kept) \in Nat
  BY <1>1, FS_Subset, FS_CardinalityType
<1>3. PICK m \in Nat : m = Cardinality(kept)
  BY <1>2
<1> DEFINE Below(i) == {j \in kept : j < i}
           Rank(i) == Cardinality(Below(i)) + 1
<1>4. \A i \in kept : i \in Nat
  OBVIOUS
<1>5. ASSUME NEW i \in kept PROVE Rank(i) \in 1 .. m
  <2>1. PICK S : S = kept \ {i}
    OBVIOUS
  <2>2. IsFiniteSet(S) /\ Cardinality(S) = m - 1
    BY <1>2, <1>3, <2>1, FS_RemoveElement
  <2>3. Below(i) \in SUBSET S
    BY <1>4, <2>1
  <2>4. PICK B : B = Below(i)
    OBVIOUS
  <2>5. IsFiniteSet(B) /\ Cardinality(B) \in Nat /\ Cardinality(B) <= Cardinality(S)
    BY <2>2, <2>3, <2>4, FS_Subset, FS_CardinalityType
  <2> QED
    BY <2>2, <2>4, <2>5
<1>6. ASSUME NEW i \in kept, NEW j \in kept, j < i PROVE Rank(j) < Rank(i)
  <2>1. PICK A, B : A = Below(j) /\ B = Below(i)
    OBVIOUS
  <2>2. j \notin A /\ A \cup {j} \in SUBSET B /\ A \in SUBSET kept /\ B \in SUBSET kept
    <3>1. i \in Nat /\ j \in Nat
      BY <1>4
    <3>2. ~(j < j)
      BY <3>1
    <3>3. \A x \in kept : x < j => x < i
      BY <1>4, <1>6, <3>1
    <3> QED
      BY <1>6, <2>1, <3>2, <3>3
  <2>3. IsFiniteSet(A) /\ Cardinality(A) \in Nat /\ IsFiniteSet(B) /\ Cardinality(B) \in Nat
    BY <1>2, <2>2, FS_Subset, FS_CardinalityType
  <2>4. Cardinality(A \cup {j}) = Cardinality(A) + 1
    BY <2>2, <2>3, FS_AddElement
  <2>5. Cardinality(A \cup {j}) <= Cardinality(B)
    BY <2>2, <2>3, FS_Subset
  <2> QED
    BY <2>1, <2>3, <2>4, <2>5
<1>7. PICK s : s = [k \in 1 .. m |-> CHOOSE i \in kept : Cardinality(Below(i)) = k - 1]
  OBVIOUS
<1>8. Ascending(kept) = s
  BY <1>3, <1>7 DEF Ascending
<1>9. \A i \in kept : \A k \in 1 .. m : Cardinality(Below(i)) = k - 1 <=> Rank(i) = k
  <2>1. ASSUME NEW i \in kept PROVE Cardinality(Below(i)) \in Nat
    <3>1. PICK B : B = Below(i)
      OBVIOUS
    <3>2. B \in SUBSET kept
      BY <3>1
    <3> QED
      BY <1>2, <3>1, <3>2, FS_Subset, FS_CardinalityType
  <2> HIDE DEF Below
  <2> QED
    BY <2>1
<1> HIDE DEF Rank, Below
<1>10. \A i, j \in kept : Rank(i) = Rank(j) => i = j
  <2>1. ASSUME NEW i \in kept, NEW j \in kept, Rank(i) = Rank(j) PROVE i = j
    <3>1. ~(i < j) /\ ~(j < i)
      BY <1>5, <1>6, <2>1
    <3> QED
      BY <1>4, <3>1
  <2> QED
    BY <2>1
<1>11. \A k \in 1 .. m : \E i \in kept : Rank(i) = k
  <2>1. PICK f : f = [i \in kept |-> Rank(i)]
    OBVIOUS
  <2>2. PICK T : T = 1 .. m
    OBVIOUS
  <2>3. IsFiniteSet(T) /\ Cardinality(T) = Cardinality(kept)
    <3>1. PICK a \in Int : a = 1
      OBVIOUS
    <3>2. IsFiniteSet(a .. m) /\ Cardinality(a .. m) = IF a > m THEN 0 ELSE m - a + 1
      BY FS_Interval
    <3> QED
      BY <1>3, <2>2, <3>1, <3>2
  <2>4. f \in Injection(kept, T)
    BY <1>5, <1>10, <2>1, <2>2 DEF Injection, IsInjective
  <2>5. f \in Surjection(kept, T)
    BY <1>2, <2>3, <2>4, FS_Injection
  <2> QED
    BY <2>1, <2>2, <2>5 DEF Surjection
<1>12. ASSUME NEW k \in 1 .. m PROVE s[k] \in kept /\ Rank(s[k]) = k
  <2>1. s[k] = CHOOSE i \in kept : Cardinality(Below(i)) = k - 1
    BY <1>7
  <2>2. \E i \in kept : Cardinality(Below(i)) = k - 1
    BY <1>9, <1>11
  <2>3. s[k] \in kept /\ Cardinality(Below(s[k])) = k - 1
    BY <2>1, <2>2
  <2> QED
    BY <1>9, <2>3
<1>13. s \in [1 .. m -> kept]
  BY <1>7, <1>12
<1>14. ASSUME NEW k \in 1 .. m, NEW l \in 1 .. m PROVE k < l <=> s[k] < s[l]
  <2>1. s[k] \in kept /\ s[l] \in kept /\ Rank(s[k]) = k /\ Rank(s[l]) = l
    BY <1>12
  <2>2. s[k] < s[l] => k < l
    BY <1>6, <2>1
  <2>3. s[l] < s[k] => l < k
    BY <1>6, <2>1
  <2>4. s[k] < s[l] \/ s[l] < s[k] \/ s[k] = s[l]
    <3>1. PICK a, b : a = s[k] /\ b = s[l]
      OBVIOUS
    <3>2. a \in Nat /\ b \in Nat
      BY <1>4, <2>1, <3>1
    <3>3. a < b \/ b < a \/ a = b
      BY <3>2
    <3> QED
      BY <3>1, <3>3
  <2> QED
    BY <2>1, <2>2, <2>3, <2>4
<1>15. ASSUME NEW i \in kept PROVE \E k \in 1 .. m : s[k] = i
  <2>1. PICK k \in 1 .. m : k = Rank(i)
    BY <1>5
  <2>2. s[k] = i
    BY <1>10, <1>12, <2>1
  <2> QED
    BY <2>2
<1> QED
  BY <1>2, <1>3, <1>8, <1>13, <1>14, <1>15 DEF Enumerates

\* A member of a job: its frames and its state.
Member(c) == c.from \in Int /\ c.to \in Int /\ c.from <= c.to
\* The frames of the completed members.
Rendered(members) ==
  UNION {members[i].from .. members[i].to : i \in {k \in DOMAIN members : members[k].state = "completed"}}
\* A report that tells exactly what is missing.
ReportExact(report, from, to, members) ==
  /\ UNION {g.from .. g.to : g \in report.missing} = (from .. to) \ Rendered(members)
  /\ \A g, h \in report.missing : g # h => g.to + 1 < h.from \/ h.to + 1 < g.from
  /\ report.complete <=> /\ (from .. to) \subseteq Rendered(members)
                         /\ \A i \in DOMAIN members : members[i].state = "completed"

\* No gap is no missing frame.
LEMMA NoGapsNoFrames ==
  ASSUME NEW gaps, NEW from \in Int, NEW to \in Int, NEW frames,
         \A g \in gaps : g.from \in Int /\ g.to \in Int /\ g.from <= g.to,
         UNION {g.from .. g.to : g \in gaps} = (from .. to) \ frames
  PROVE  gaps = {} <=> (from .. to) \subseteq frames
<1>1. ASSUME gaps # {} PROVE ~((from .. to) \subseteq frames)
  <2>1. PICK g \in gaps : TRUE
    BY <1>1
  <2>2. g.from \in g.from .. g.to
    OBVIOUS
  <2>3. g.from \in UNION {h.from .. h.to : h \in gaps}
    BY <2>2
  <2> QED
    BY <2>3
<1> QED
  BY <1>1

\* CoverageReported: for every list of members in whatever states, missing
\* frames are exactly those no completed member covers, and the job is
\* complete exactly if there are none and every member is completed
\* (compute_frame_coverage).
THEOREM CoverageReported ==
  ASSUME NEW M, \A c \in M : Member(c), NEW members \in Seq(M), NEW from \in Int, NEW to \in Int
  PROVE  ReportExact(ComputeFrameCoverage(from, to, members), from, to, members)
<1>1. PICK n \in Nat : n = Len(members) /\ DOMAIN members = 1 .. n
  OBVIOUS
<1>2. PICK kept : kept = {i \in 1 .. n : members[i].state = "completed"}
  OBVIOUS
<1>3. PICK m, order : m = Cardinality(kept) /\ order = Ascending(kept)
  OBVIOUS
<1>4. m \in Nat /\ Enumerates(order, kept, m)
  BY <1>2, <1>3, AscendingEnumerates
<1>5. DOMAIN order = 1 .. m /\ \A k \in 1 .. m : order[k] \in 1 .. n /\ order[k] \in kept
  BY <1>2, <1>4 DEF Enumerates
<1>6. PICK finished : finished = [k \in 1 .. m |-> members[order[k]]]
  OBVIOUS
<1>7. Keep(members, LAMBDA c : c.state = "completed") = finished
  <2>1. {i \in DOMAIN members : members[i].state = "completed"} = kept
    BY <1>1, <1>2
  <2>2. Pick(members, order) = finished
    BY <1>5, <1>6 DEF Pick
  <2> QED
    BY <1>3, <2>1, <2>2 DEF Keep
<1>8. PICK plain : plain = [k \in 1 .. m |-> Chunk(members[order[k]].from, members[order[k]].to)]
  OBVIOUS
<1>9. [i \in DOMAIN finished |-> Chunk(finished[i].from, finished[i].to)] = plain
  BY <1>6, <1>8
<1>10. ASSUME NEW k \in 1 .. m
       PROVE  /\ plain[k] \in Span /\ plain[k].from <= plain[k].to
              /\ plain[k].from = members[order[k]].from /\ plain[k].to = members[order[k]].to
  <2>1. PICK c : c = members[order[k]]
    OBVIOUS
  <2>2. c.from \in Int /\ c.to \in Int /\ c.from <= c.to
    BY <1>1, <1>5, <2>1 DEF Member
  <2>3. plain[k] = Chunk(c.from, c.to)
    BY <1>8, <2>1
  <2>4. Chunk(c.from, c.to) \in Span /\ Chunk(c.from, c.to).from = c.from /\ Chunk(c.from, c.to).to = c.to
    BY <2>2 DEF Chunk, Span
  <2> QED
    BY <2>1, <2>2, <2>3, <2>4
<1>11. plain \in Seq(Span) /\ Len(plain) = m /\ DOMAIN plain = 1 .. m
  BY <1>4, <1>8, <1>10
<1>12. PICK missing : missing = Gaps(from, to, MergeRanges(plain))
  OBVIOUS
<1>13. ExactGaps(missing, from, to, plain)
  BY <1>10, <1>11, <1>12, CoverageExact
<1>14. Covered(plain) = Rendered(members)
  <2>1. \A x : x \in Covered(plain) <=> \E k \in 1 .. m : x \in members[order[k]].from .. members[order[k]].to
    BY <1>10, <1>11 DEF Covered
  <2>2. \A x : x \in Rendered(members) <=> \E i \in kept : x \in members[i].from .. members[i].to
    BY <1>1, <1>2 DEF Rendered
  <2>3. \A i \in kept : \E k \in 1 .. m : order[k] = i
    BY <1>4 DEF Enumerates
  <2> QED
    BY <1>5, <2>1, <2>2, <2>3
<1>15. \A g \in missing : g.from \in Int /\ g.to \in Int /\ g.from <= g.to
  <2>1. PICK merged : merged = MergeRanges(plain)
    OBVIOUS
  <2>2. merged \in Seq(Span) /\ Apart(merged)
    BY <1>10, <1>11, <2>1, RangesMerged
  <2>3. ASSUME NEW g \in missing PROVE g.from \in Int /\ g.to \in Int /\ g.from <= g.to
    <3>1. PICK i \in 1 .. Len(merged) + 1 :
            /\ g = Chunk(CursorAt(from, merged, i), StopAt(to, merged, i))
            /\ CursorAt(from, merged, i) <= StopAt(to, merged, i)
      BY <1>12, <2>1, <2>2, GapsAre
    <3>2. CursorAt(from, merged, i) \in Int /\ StopAt(to, merged, i) \in Int
      BY <2>2, CursorBehind, StopBefore
    <3> QED
      BY <3>1, <3>2 DEF Chunk
  <2> QED
    BY <2>3
<1>16. PICK incomplete : incomplete = {i \in DOMAIN members : members[i].state # "completed"}
  OBVIOUS
<1>17. PICK report : report = [missing |-> missing, complete |-> missing = {} /\ incomplete = {}]
  OBVIOUS
<1>18. ComputeFrameCoverage(from, to, members) = report
  BY <1>7, <1>9, <1>12, <1>16, <1>17, Zenon DEF ComputeFrameCoverage
<1>19. UNION {g.from .. g.to : g \in missing} = (from .. to) \ Rendered(members)
  BY <1>13, <1>14 DEF ExactGaps
<1>20. \A g, h \in missing : g # h => g.to + 1 < h.from \/ h.to + 1 < g.from
  BY <1>13 DEF ExactGaps
<1>21. missing = {} <=> (from .. to) \subseteq Rendered(members)
  BY <1>15, <1>19, NoGapsNoFrames
<1>22. report.missing = missing /\ report.complete = (missing = {} /\ incomplete = {})
  BY <1>17
<1>23. incomplete = {} <=> \A i \in DOMAIN members : members[i].state = "completed"
  BY <1>16
<1> QED
  BY <1>18, <1>19, <1>20, <1>21, <1>22, <1>23 DEF ReportExact

-----------------------------------------------------------------------------
(* Peers for an asset                                                      *)

\* pos lists the indices in kept, each once.
ListsOnce(pos, kept, m) ==
  /\ pos \in [1 .. m -> kept]
  /\ \A k, l \in 1 .. m : pos[k] = pos[l] => k = l
  /\ \A i \in kept : \E k \in 1 .. m : pos[k] = i

\* asc and order together: the indices in kept, best first.
RankedOnce(asc, order, kept, m, R) ==
  /\ m \in Nat /\ asc \in [1 .. m -> kept] /\ order \in [1 .. m -> 1 .. m]
  /\ ListsOnce([k \in 1 .. m |-> asc[order[k]]], kept, m)
  /\ \A k, l \in 1 .. m : k < l => <<order[l], order[k]>> \notin R

\* Filtered, then sorted: the indices that pass, each once, best first.
LEMMA KeptRanked ==
  ASSUME NEW n \in Nat, NEW kept \in SUBSET (1 .. n), NEW m, m = Cardinality(kept),
         NEW R, WeakOrder(R, m)
  PROVE  RankedOnce(Ascending(kept), Ranked(m, R), kept, m, R)
<1>1. PICK asc, order : asc = Ascending(kept) /\ order = Ranked(m, R)
  OBVIOUS
<1>2. m \in Nat /\ Enumerates(asc, kept, m)
  BY <1>1, AscendingEnumerates
<1>3. PermutationOf(order, m) /\ \A k, l \in 1 .. m : k < l <=> Precedes(order[k], order[l], R)
  BY <1>1, <1>2, RankedSorts
<1>4. order \in [1 .. m -> 1 .. m] /\ asc \in [1 .. m -> kept]
  BY <1>2, <1>3 DEF PermutationOf, Enumerates
<1>5. PICK pos : pos = [k \in 1 .. m |-> asc[order[k]]]
  OBVIOUS
<1>6. pos \in [1 .. m -> kept]
  BY <1>4, <1>5
<1>7. ASSUME NEW k \in 1 .. m, NEW l \in 1 .. m, pos[k] = pos[l] PROVE k = l
  <2>1. PICK a \in 1 .. m, b \in 1 .. m : a = order[k] /\ b = order[l]
    BY <1>4
  <2>2. asc[a] = asc[b]
    BY <1>5, <1>7, <2>1
  <2>3. ~(a < b) /\ ~(b < a)
    <3>1. PICK x : x = asc[a] /\ x = asc[b]
      BY <2>2
    <3>2. x \in kept
      BY <1>4, <3>1
    <3>3. ~(x < x)
      BY <3>2
    <3>4. (a < b <=> asc[a] < asc[b]) /\ (b < a <=> asc[b] < asc[a])
      BY <1>2 DEF Enumerates
    <3> QED
      BY <3>1, <3>3, <3>4
  <2>4. a = b
    BY <2>3
  <2> QED
    BY <1>3, <2>1, <2>4 DEF PermutationOf
<1>8. ASSUME NEW i \in kept PROVE \E k \in 1 .. m : pos[k] = i
  <2>1. PICK a \in 1 .. m : asc[a] = i
    BY <1>2 DEF Enumerates
  <2>2. PICK k \in 1 .. m : order[k] = a
    BY <1>3 DEF PermutationOf
  <2> QED
    BY <1>5, <2>1, <2>2
<1>9. ASSUME NEW k \in 1 .. m, NEW l \in 1 .. m, k < l PROVE <<order[l], order[k]>> \notin R
  <2>1. PICK a \in 1 .. m, b \in 1 .. m : a = order[k] /\ b = order[l]
    BY <1>4
  <2>2. Precedes(a, b, R)
    BY <1>3, <1>9, <2>1
  <2>3. <<b, a>> \notin R
    BY <2>2 DEF Precedes, WeakOrder
  <2> QED
    BY <2>1, <2>3
<1> QED
  BY <1>1, <1>2, <1>4, <1>5, <1>6, <1>7, <1>8, <1>9 DEF ListsOnce, RankedOnce

(* Peers for an asset *)

\* How near an address is.
Tier == {"loopback", "subnet", "lan", "wan"}
\* Workers that may hold an asset.
KnownPeer(w) ==
  /\ w.measured \in Int /\ w.estimated \in Int /\ w.active \in Nat /\ w.streams \in Nat
  /\ w.errors \in Nat /\ w.penalty \in Nat /\ (w.measured = None \/ w.measured >= 0)

\* Every pair of addresses has a tier and a base score.
LEMMA TierScores ==
  ASSUME NEW a, NEW b
  PROVE  /\ ClassifyLocality(a, b) \in Tier /\ TierBase(ClassifyLocality(a, b)) \in Nat
         /\ TierBase(ClassifyLocality(a, b)) \in {10000, 5000, 2000, 500}
<1>1. ClassifyLocality(a, b) \in Tier
  BY DEF ClassifyLocality, Tier
<1> QED
  BY <1>1 DEF Tier, TierBase

\* A load within its streams costs 500 points at most.
LEMMA LoadType ==
  ASSUME NEW w, KnownPeer(w)
  PROVE  /\ (500 * w.active) \div Max({w.streams, 1}) \in Nat
         /\ w.active <= w.streams => (500 * w.active) \div Max({w.streams, 1}) <= 500
<1>1. PICK a \in Nat, s \in Nat, one \in Int : a = w.active /\ s = w.streams /\ one = 1
  BY DEF KnownPeer
<1>2. PICK d : d = Max({s, one})
  OBVIOUS
<1>3. d \in Nat /\ d >= s /\ d >= 1
  <2>0. s \in Int
    OBVIOUS
  <2>1. Max({s, one}) \in {s, one} /\ Max({s, one}) >= s /\ Max({s, one}) >= one
    BY <2>0, MinOfTwo
  <2> QED
    BY <1>1, <1>2, <2>1
<1>4. PICK x \in Nat : x = 500 * a
  OBVIOUS
<1>5. PICK q : q = x \div d
  OBVIOUS
<1>6. q \in Nat
  BY <1>3, <1>5, QuotientNatural
<1>7. ASSUME a <= s PROVE q <= 500
  <2>1. x <= 500 * d
    BY <1>3, <1>4, <1>7
  <2>2. q \in Int /\ d * q <= x
    BY <1>3, <1>5, DivisionRule
  <2>3. d * q <= 500 * d
    BY <1>3, <2>1, <2>2
  <2> QED
    BY <1>3, <1>6, <2>3
<1> QED
  BY <1>1, <1>2, <1>4, <1>5, <1>6, <1>7

\* Bounds of a candidate's score.
LEMMA CandidateScore ==
  ASSUME NEW from, NEW w, KnownPeer(w)
  PROVE  /\ EvaluateCandidate(from, w) \in Int /\ GetRtt(w) \in Nat
         /\ EvaluateCandidate(from, w) <= TierBase(ClassifyLocality(from, w.address)) - GetRtt(w)
         /\ w.errors = 0 /\ w.penalty = 0 /\ w.active <= w.streams
              => EvaluateCandidate(from, w) >= TierBase(ClassifyLocality(from, w.address)) - GetRtt(w) - 500
<1>1. PICK t \in Nat : t = TierBase(ClassifyLocality(from, w.address))
  BY TierScores
<1>2. GetRtt(w) \in Nat
  BY DEF GetRtt, KnownPeer, None
<1>3. PICK q \in Nat : /\ q = (500 * w.active) \div Max({w.streams, 1})
                       /\ w.active <= w.streams => q <= 500
  BY LoadType
<1>4. EvaluateCandidate(from, w) = t - GetRtt(w) - q - 1000 * w.errors - 100 * w.penalty
  BY <1>1, <1>3 DEF EvaluateCandidate
<1>5. PICK e \in Nat, p \in Nat : e = w.errors /\ p = w.penalty
  BY DEF KnownPeer
<1> QED
  BY <1>1, <1>2, <1>3, <1>4, <1>5

\* NearerPeerWins: of two peers the one in the nearer tier has the better
\* score as long as it has no errors and no penalty, is within its streams
\* and answers within a second, whatever the other one's load and round trip
\* (evaluate_candidate, classify_locality).
THEOREM NearerPeerWins ==
  ASSUME NEW from, NEW v, KnownPeer(v), NEW w, KnownPeer(w),
         v.errors = 0, v.penalty = 0, v.active <= v.streams, GetRtt(v) < 1000,
         TierBase(ClassifyLocality(from, v.address)) > TierBase(ClassifyLocality(from, w.address))
  PROVE  EvaluateCandidate(from, v) > EvaluateCandidate(from, w)
<1>1. PICK s, t : s = TierBase(ClassifyLocality(from, v.address)) /\ t = TierBase(ClassifyLocality(from, w.address))
  OBVIOUS
<1>2. s \in {10000, 5000, 2000, 500} /\ t \in {10000, 5000, 2000, 500} /\ s > t
  BY <1>1, TierScores
<1>3. s \in Int /\ t \in Int /\ s >= t + 1500
  BY <1>2
<1>4. PICK a \in Int, b \in Int : a = EvaluateCandidate(from, v) /\ b = EvaluateCandidate(from, w)
  BY CandidateScore
<1>5. PICK x \in Nat, y \in Nat : x = GetRtt(v) /\ y = GetRtt(w)
  BY CandidateScore
<1>6. a >= s - x - 500
  BY <1>1, <1>4, <1>5, CandidateScore
<1>7. b <= t - y
  BY <1>1, <1>4, <1>5, CandidateScore
<1>8. a > b
  BY <1>3, <1>5, <1>6, <1>7
<1> QED
  BY <1>4, <1>8

\* Better scores first.
CandidateRelation(from, fit, m) ==
  {p \in (1 .. m) \X (1 .. m) : EvaluateCandidate(from, fit[p[1]]) > EvaluateCandidate(from, fit[p[2]])}

\* Scores order the candidates.
LEMMA CandidatesOrder ==
  ASSUME NEW m \in Nat, NEW from, NEW fit, \A k \in 1 .. m : KnownPeer(fit[k])
  PROVE  WeakOrder(CandidateRelation(from, fit, m), m)
<1> DEFINE R == CandidateRelation(from, fit, m)
           E(i) == EvaluateCandidate(from, fit[i])
<1>1. \A i \in 1 .. m : E(i) \in Int
  BY CandidateScore
<1>2. \A i, j \in 1 .. m : <<i, j>> \in R <=> E(i) > E(j)
  BY DEF CandidateRelation
<1> HIDE DEF E, R
<1>3. \A i, j \in 1 .. m : E(i) > E(j) => ~(E(j) > E(i))
  BY <1>1
<1>4. \A i, j, k \in 1 .. m : ~(E(i) > E(j)) /\ ~(E(j) > E(k)) => ~(E(i) > E(k))
  BY <1>1
<1>5. WeakOrder(R, m)
  BY <1>2, <1>3, <1>4 DEF WeakOrder
<1> QED
  BY <1>5 DEF R

\* listed: the best of those who may serve, best first, at most so many.
BestListed(listed, from, workers, able, most) ==
  \E pos : \E m \in Nat :
    /\ listed = [k \in 1 .. m |-> workers[pos[k]]]
    /\ \A k \in 1 .. m : pos[k] \in able
    /\ \A k, l \in 1 .. m : pos[k] = pos[l] => k = l
    /\ most > 0 => m <= most
    /\ \A k, l \in 1 .. m : k < l =>
         EvaluateCandidate(from, workers[pos[k]]) >= EvaluateCandidate(from, workers[pos[l]])
    /\ \A i \in able : (\A k \in 1 .. m : pos[k] # i) =>
         /\ most > 0 /\ m = most
         /\ \A k \in 1 .. m : EvaluateCandidate(from, workers[pos[k]]) >= EvaluateCandidate(from, workers[i])

\* BestCandidatesListed: the candidates listed for an asset may all serve it,
\* each is listed once, best first, and who is left out of a limited list is
\* no better than anybody on it (rank_candidates).
THEOREM BestCandidatesListed ==
  ASSUME NEW W, \A w \in W : KnownPeer(w), NEW workers \in Seq(W), NEW from, NEW requester,
         NEW includeDegraded, NEW most \in Int
  PROVE  BestListed(RankCandidates(from, workers, requester, includeDegraded, most), from, workers,
                    {i \in DOMAIN workers : MayServe(workers[i], requester, includeDegraded)}, most)
<1>1. PICK n \in Nat : n = Len(workers) /\ DOMAIN workers = 1 .. n
  OBVIOUS
<1>2. PICK able : able = {i \in DOMAIN workers : MayServe(workers[i], requester, includeDegraded)}
  OBVIOUS
<1>3. able \in SUBSET (1 .. n)
  BY <1>1, <1>2
<1>4. PICK m, asc : m = Cardinality(able) /\ asc = Ascending(able)
  OBVIOUS
<1>5. m \in Nat /\ Enumerates(asc, able, m)
  BY <1>3, <1>4, AscendingEnumerates
<1>6. asc \in [1 .. m -> able]
  BY <1>5 DEF Enumerates
<1>7. PICK fit : fit = [k \in 1 .. m |-> workers[asc[k]]]
  OBVIOUS
<1>8. Keep(workers, LAMBDA w : MayServe(w, requester, includeDegraded)) = fit
  <2>1. Pick(workers, asc) = fit
    BY <1>6, <1>7 DEF Pick
  <2> QED
    BY <1>2, <1>4, <2>1 DEF Keep
<1>9. ASSUME NEW k \in 1 .. m PROVE fit[k] \in W /\ KnownPeer(fit[k])
  <2>1. asc[k] \in 1 .. n
    BY <1>3, <1>6
  <2>2. workers[asc[k]] \in W
    BY <1>1, <2>1
  <2> QED
    BY <1>7, <2>2
<1>10. fit \in Seq(W) /\ Len(fit) = m /\ DOMAIN fit = 1 .. m
  BY <1>5, <1>7, <1>9
<1>11. PICK R : R = CandidateRelation(from, fit, m)
  OBVIOUS
<1>12. WeakOrder(R, m)
  BY <1>5, <1>9, <1>11, CandidatesOrder
<1>13. PICK order : order = Ranked(m, R)
  OBVIOUS
<1>14. Order(Len(fit), LAMBDA i, j : EvaluateCandidate(from, fit[i]) > EvaluateCandidate(from, fit[j])) = order
  BY <1>10, <1>11, <1>13 DEF Order, CandidateRelation
<1>15. PICK pos : pos = [k \in 1 .. m |-> asc[order[k]]]
  OBVIOUS
<1>16. /\ order \in [1 .. m -> 1 .. m] /\ ListsOnce(pos, able, m)
       /\ \A k, l \in 1 .. m : k < l => <<order[l], order[k]>> \notin R
  <2>1. RankedOnce(asc, order, able, m, R)
    BY <1>3, <1>4, <1>12, <1>13, KeptRanked
  <2> QED
    BY <1>15, <2>1 DEF RankedOnce
<1>17. PICK ranked : ranked = [k \in 1 .. m |-> workers[pos[k]]]
  OBVIOUS
<1>18. Pick(fit, order) = ranked
  BY <1>7, <1>15, <1>16, <1>17 DEF Pick
<1>19. RankCandidates(from, workers, requester, includeDegraded, most)
         = IF most > 0 THEN Prefix(ranked, most) ELSE ranked
  <2>1. RankPeers(from, fit) = ranked
    BY <1>14, <1>18, Zenon DEF RankPeers
  <2> QED
    BY <1>8, <2>1, Zenon DEF RankCandidates
<1>20. pos \in [1 .. m -> able]
  BY <1>16 DEF ListsOnce
<1>21. ASSUME NEW k \in 1 .. m PROVE pos[k] \in 1 .. n /\ workers[pos[k]] \in W
  <2>1. pos[k] \in 1 .. n
    BY <1>3, <1>20
  <2> QED
    BY <1>1, <2>1
<1> DEFINE E(i) == EvaluateCandidate(from, workers[i])
<1>22. \A i \in 1 .. n : E(i) \in Int
  <2>1. \A i \in 1 .. n : KnownPeer(workers[i])
    BY <1>1
  <2> QED
    BY <2>1, CandidateScore
<1>23. ASSUME NEW k \in 1 .. m, NEW l \in 1 .. m, k < l PROVE E(pos[k]) >= E(pos[l])
  <2>1. PICK a \in 1 .. m, b \in 1 .. m : a = order[k] /\ b = order[l]
    BY <1>16
  <2>2. <<b, a>> \notin R
    BY <1>16, <1>23, <2>1
  <2>3. ~(EvaluateCandidate(from, fit[b]) > EvaluateCandidate(from, fit[a]))
    BY <1>11, <2>2 DEF CandidateRelation
  <2>4. fit[a] = workers[pos[k]] /\ fit[b] = workers[pos[l]]
    BY <1>7, <1>15, <2>1
  <2>5. ~(E(pos[l]) > E(pos[k]))
    BY <2>3, <2>4
  <2> HIDE DEF E
  <2> QED
    BY <1>21, <1>22, <2>5
<1>24. ranked \in Seq(W) /\ Len(ranked) = m
  BY <1>5, <1>17, <1>21
<1>25. PICK c \in Nat : /\ c <= m /\ (most > 0 => c <= most) /\ (c = m \/ (most > 0 /\ c = most))
                        /\ (IF most > 0 THEN Prefix(ranked, most) ELSE ranked) = [k \in 1 .. c |-> ranked[k]]
  <2>1. CASE most > 0
    <3>1. PICK c : c = Min({most, m})
      OBVIOUS
    <3>2. c \in Nat /\ c <= m /\ c <= most /\ (c = m \/ c = most)
      <4>1. m \in Int
        BY <1>5
      <4>2. Min({most, m}) \in {most, m} /\ Min({most, m}) <= most /\ Min({most, m}) <= m
        BY <4>1, MinOfTwo
      <4> QED
        BY <1>5, <2>1, <3>1, <4>2
    <3>3. Prefix(ranked, most) = SubSeq(ranked, 1, c)
      BY <1>24, <3>1 DEF Prefix
    <3>4. SubSeq(ranked, 1, c) = [k \in 1 .. c |-> ranked[k]]
      BY <1>24, <3>2
    <3> QED
      BY <2>1, <3>2, <3>3, <3>4
  <2>2. CASE ~(most > 0)
    <3>1. ranked = [k \in 1 .. m |-> ranked[k]]
      BY <1>17
    <3> QED
      BY <1>5, <2>2, <3>1
  <2> QED
    BY <2>1, <2>2
<1>26. \A k \in 1 .. c : k \in 1 .. m
  BY <1>5, <1>25
<1>27. [k \in 1 .. c |-> ranked[k]] = [k \in 1 .. c |-> workers[pos[k]]]
  BY <1>17, <1>26
<1>28. ASSUME NEW i \in able, \A k \in 1 .. c : pos[k] # i
       PROVE  most > 0 /\ c = most /\ \A k \in 1 .. c : E(pos[k]) >= E(i)
  <2>1. PICK l \in 1 .. m : pos[l] = i
    BY <1>16 DEF ListsOnce
  <2>2. l \notin 1 .. c
    BY <1>28, <2>1
  <2>3. c < l
    BY <1>5, <1>25, <2>2
  <2>4. most > 0 /\ c = most
    BY <1>5, <1>25, <2>3
  <2>5. \A k \in 1 .. c : k < l
    BY <2>3
  <2> HIDE DEF E
  <2> QED
    BY <1>23, <1>26, <2>1, <2>4, <2>5
<1>29. \A k, l \in 1 .. c : pos[k] = pos[l] => k = l
  BY <1>16, <1>26 DEF ListsOnce
<1>30. \A k \in 1 .. c : pos[k] \in able
  BY <1>20, <1>26
<1>31. \A k, l \in 1 .. c : k < l => E(pos[k]) >= E(pos[l])
  <2> HIDE DEF E
  <2> QED
    BY <1>23, <1>26
<1>32. RankCandidates(from, workers, requester, includeDegraded, most) = [k \in 1 .. c |-> workers[pos[k]]]
  BY <1>19, <1>25, <1>27
<1>33. BestListed([k \in 1 .. c |-> workers[pos[k]]], from, workers, able, most)
  BY <1>25, <1>28, <1>29, <1>30, <1>31 DEF BestListed
<1> QED
  BY <1>2, <1>32, <1>33

-----------------------------------------------------------------------------
(* Placement                                                               *)

\* AffinityHeld: a worker that passes the gates of a workload with hard
\* affinity stands in the required relation to every worker its group ran on,
\* untagged ones included (evaluate of PlacementEngine).
THEOREM AffinityHeld ==
  ASSUME NEW spec, NEW p, NEW prior, IsFiniteSet(prior), NEW tagOf,
         spec.hard, prior # {}, Eligible(spec, p, prior, tagOf)
  PROVE  /\ spec.affinity = "same_worker" => p.id \in prior
         /\ spec.affinity = "different_worker" => p.id \notin prior
         /\ spec.affinity = "same_tag" => \A v \in prior : tagOf[v] = p.tag
         /\ spec.affinity = "different_tag" => \A v \in prior : tagOf[v] # p.tag
<1>1. PICK checks : checks = Checks(spec, p, prior, tagOf)
  OBVIOUS
<1>2. "affinity" \in DOMAIN checks /\ checks["affinity"] = (spec.hard => AffinityMatch(spec, p, prior, tagOf))
  BY <1>1 DEF Checks
<1>3. \A c \in DOMAIN checks : checks[c]
  BY <1>1, Zenon DEF Eligible, Rejections
<1>4. AffinityMatch(spec, p, prior, tagOf)
  BY <1>2, <1>3
<1>5. PICK seen : seen = {tagOf[w] : w \in prior} \ {NoTag}
  OBVIOUS
<1>6. ASSUME spec.affinity = "same_tag" PROVE \A v \in prior : tagOf[v] = p.tag
  <2>1. Cardinality(seen) = Cardinality(prior) /\ seen = {p.tag}
    BY <1>4, <1>5, <1>6 DEF AffinityMatch
  <2>2. Cardinality(prior) = 1
    BY <2>1, FS_Singleton
  <2>3. PICK v : prior = {v}
    BY <2>2, FS_Singleton
  <2> QED
    BY <1>5, <2>1, <2>3
<1>7. ASSUME spec.affinity = "different_tag" PROVE \A v \in prior : tagOf[v] # p.tag
  <2>1. p.tag # NoTag /\ p.tag \notin seen
    BY <1>4, <1>5, <1>7 DEF AffinityMatch
  <2> QED
    BY <1>5, <2>1
<1>8. ASSUME spec.affinity = "same_worker" PROVE p.id \in prior
  BY <1>4, <1>8 DEF AffinityMatch
<1>9. ASSUME spec.affinity = "different_worker" PROVE p.id \notin prior
  BY <1>4, <1>9 DEF AffinityMatch
<1> QED
  BY <1>6, <1>7, <1>8, <1>9

(* Scores *)

\* What a workload may ask for, what a worker may report, known sizes.
Asked(spec) ==
  /\ spec.cpu \in Nat /\ spec.cpu # 0 /\ spec.ram \in Nat /\ spec.vram \in Nat /\ spec.gpu \in BOOLEAN
  /\ spec.hard \in BOOLEAN /\ IsFiniteSet(spec.assets)
\* Profiles of workers.
Offered(p) ==
  /\ p.cpu \in Nat /\ p.ram \in Nat /\ p.ramTotal \in Nat /\ p.vram \in Nat /\ p.active \in Nat
  /\ p.cost \in Nat /\ p.gpu \in BOOLEAN /\ p.id \in Nat
\* Sizes of assets.
Measured(sizes) == \A h \in DOMAIN sizes : sizes[h] \in Nat

\* Shares are naturals.
LEMMA ShareType ==
  ASSUME NEW part \in Nat, NEW whole \in Nat
  PROVE  Share(part, whole) \in Nat
<1>1. PICK x \in Nat : x = Worth * part
  BY DEF Worth
<1>2. whole # 0 => x \div whole \in Nat
  BY QuotientNatural
<1> QED
  BY <1>1, <1>2 DEF Share, Worth

\* So are the parts of the assets a worker has.
LEMMA FractionTypes ==
  ASSUME NEW spec, Asked(spec), NEW p, NEW sizes, Measured(sizes)
  PROVE  CountFraction(spec, p) \in Nat /\ RankFraction(spec, p, sizes) \in Nat
<1>1. PICK A, B : A = spec.assets /\ B = spec.assets \cap p.cached
  OBVIOUS
<1>2. IsFiniteSet(A) /\ B \in SUBSET A
  BY <1>1 DEF Asked
<1>3. Cardinality(A) \in Nat /\ Cardinality(B) \in Nat
  BY <1>2, FS_Subset, FS_CardinalityType
<1>4. CountFraction(spec, p) \in Nat
  BY <1>1, <1>3, ShareType DEF CountFraction
<1>5. PICK known : known = spec.assets \cap DOMAIN sizes
  OBVIOUS
<1>6. IsFiniteSet(known) /\ IsFiniteSet(known \cap p.cached)
  <2>1. known \in SUBSET A /\ known \cap p.cached \in SUBSET A
    BY <1>1, <1>5
  <2> QED
    BY <1>2, <2>1, FS_Subset
<1>7. \A h \in known : sizes[h] \in Nat
  BY <1>5 DEF Measured
<1>8. PICK f, S, T : f = sizes /\ S = known /\ T = known \cap p.cached
  OBVIOUS
<1>9. SumOver(f, S) \in Nat /\ SumOver(f, T) \in Nat
  <2>1. IsFiniteSet(S) /\ IsFiniteSet(T) /\ (\A h \in S : f[h] \in Nat) /\ (\A h \in T : f[h] \in Nat)
    BY <1>6, <1>7, <1>8
  <2> QED
    BY <2>1, SumOfNaturals
<1>10. PICK x \in Nat, y \in Nat :
          x = MapThenSumSet(LAMBDA h : sizes[h], known) /\ y = MapThenSumSet(LAMBDA h : sizes[h], known \cap p.cached)
  <2>1. PICK x \in Nat, y \in Nat : x = SumOver(sizes, known) /\ y = SumOver(sizes, known \cap p.cached)
    BY <1>8, <1>9
  <2>2. /\ SumOver(sizes, known) = MapThenSumSet(LAMBDA h : sizes[h], known)
        /\ SumOver(sizes, known \cap p.cached) = MapThenSumSet(LAMBDA h : sizes[h], known \cap p.cached)
    BY DEF SumOver
  <2> QED
    BY <2>1, <2>2
<1>11. Share(y, x) \in Nat
  BY ShareType
<1>12. RankFraction(spec, p, sizes) = Share(y, x) \/ RankFraction(spec, p, sizes) = CountFraction(spec, p)
  BY <1>5, <1>10 DEF RankFraction
<1> QED
  BY <1>4, <1>11, <1>12

\* Base scores are integers.
LEMMA M6Type ==
  ASSUME NEW spec, Asked(spec), NEW p, Offered(p)
  PROVE  M6Score(spec, p) \in Int
<1>1. PICK a \in Nat, b \in Nat, c \in Nat, d \in Nat, e \in Nat, f \in Nat, g \in Nat, v \in Nat :
        /\ a = p.cpu /\ b = spec.cpu /\ c = p.ram /\ d = spec.ram /\ e = p.ramTotal
        /\ f = p.vram /\ g = spec.vram /\ v = p.active /\ b # 0
  BY DEF Asked, Offered
<1>2. PICK one \in Int, two \in Int : one = 1 /\ two = 2 * Worth
  BY DEF Worth
<1>3. PICK x, y : x = Max({one, e}) /\ y = Max({one, g})
  OBVIOUS
<1>4. x \in Int /\ x >= 1 /\ y \in Int /\ y >= 1
  <2>1. e \in Int /\ g \in Int
    OBVIOUS
  <2>2. Max({one, e}) \in {one, e} /\ Max({one, e}) >= one /\ Max({one, g}) \in {one, g} /\ Max({one, g}) >= one
    BY <2>1, MinOfTwo
  <2> QED
    BY <1>2, <1>3, <2>1, <2>2
<1>5. (Worth * a) \div b \in Int
  BY <1>1, DivisionRule DEF Worth
<1>6. d > 0 => (Worth * c) \div d \in Int
  BY DivisionRule DEF Worth
<1>7. (2 * Worth * c) \div x \in Int
  BY <1>4, DivisionRule DEF Worth
<1>8. PICK q : q = IF d > 0 THEN (Worth * c) \div d ELSE (2 * Worth * c) \div x
  OBVIOUS
<1>9. q \in Int
  BY <1>6, <1>7, <1>8
<1>10. Min({two, q}) \in Int
  <2>1. Min({two, q}) \in {two, q}
    BY <1>9, MinOfTwo
  <2> QED
    BY <1>9, <2>1
<1>11. (Worth * f) \div y \in Int
  BY <1>4, DivisionRule DEF Worth
<1>12. PICK gpu \in Int : gpu = IF ~spec.gpu THEN Worth ELSE IF p.gpu THEN Worth + (Worth * f) \div y ELSE 0
  <2>1. Worth \in Int
    BY DEF Worth
  <2> QED
    BY <1>11, <2>1 DEF Asked, Offered
<1>13. CountFraction(spec, p) \in Int
  <2>1. PICK none : none = [h \in {} |-> 0]
    OBVIOUS
  <2>2. Measured(none)
    BY <2>1 DEF Measured
  <2>3. CountFraction(spec, p) \in Nat
    BY <2>2, FractionTypes
  <2> QED
    BY <2>3
<1>14. (Worth * v) \div 2 \in Int
  BY DEF Worth
<1>15. M6Score(spec, p) = (Worth * a) \div b + Min({two, q}) + 2 * gpu + 2 * CountFraction(spec, p) - (Worth * v) \div 2
  BY <1>1, <1>2, <1>3, <1>8, <1>12, Zenon DEF M6Score
<1> QED
  BY <1>5, <1>10, <1>13, <1>14, <1>15

\* So are scores.
LEMMA RankType ==
  ASSUME NEW spec, Asked(spec), NEW p, Offered(p), NEW prior, NEW tagOf, NEW sizes, Measured(sizes)
  PROVE  RankScore(spec, p, prior, tagOf, sizes) \in Int
<1>1. PICK m \in Int, c \in Int, f \in Int :
        m = M6Score(spec, p) /\ c = CountFraction(spec, p) /\ f = RankFraction(spec, p, sizes)
  <2>1. M6Score(spec, p) \in Int
    BY M6Type
  <2>2. CountFraction(spec, p) \in Nat /\ RankFraction(spec, p, sizes) \in Nat
    BY FractionTypes
  <2> QED
    BY <2>1, <2>2
<1>2. PICK x \in Int : x = IF sizes = <<>> THEN 0 ELSE 2 * (f - c)
  OBVIOUS
<1>3. PICK y \in Int : y = IF spec.prefers = NoTag THEN 0 ELSE Bonus(TagResult(p.tag, spec.prefers), 2, 0)
  BY DEF Bonus
<1>4. PICK z \in Int : z = IF spec.affinity = "none" \/ spec.hard THEN 0
                           ELSE Bonus(AffinityMatch(spec, p, prior, tagOf), 2, -2)
  <2>1. \A b : Bonus(b, 2, -2) \in Int
    BY DEF Bonus
  <2> QED
    BY <2>1
<1>5. PICK w \in Int : w = Worth * p.cost
  BY DEF Worth, Offered
<1>6. RankScore(spec, p, prior, tagOf, sizes) = m + x + y + z - w
  BY <1>1, <1>2, <1>3, <1>4, <1>5, Zenon DEF RankScore
<1> QED
  BY <1>6

(* Ranking *)

\* The bridge gives every worker a penalty, or there is no bridge.
Penalised(penalty, P) == penalty # <<>> => \A p \in P : penalty[p.id] \in Int
\* No worker is listed twice.
Distinct(profiles) == \A i, j \in DOMAIN profiles : profiles[i].id = profiles[j].id => i = j
IdsOf(profiles) == [i \in DOMAIN profiles |-> profiles[i].id]
Value(spec, p, prior, tagOf, sizes, penalty) ==
  RankScore(spec, p, prior, tagOf, sizes) - IF penalty = <<>> THEN 0 ELSE penalty[p.id]
ValuesOf(spec, profiles, prior, tagOf, sizes, penalty) ==
  [i \in DOMAIN profiles |-> Value(spec, profiles[i], prior, tagOf, sizes, penalty)]
EligibleOnes(spec, profiles, prior, tagOf) ==
  {i \in DOMAIN profiles : Eligible(spec, profiles[i], prior, tagOf)}
\* Equals go by id, or with the bridge in the order of the list.
Beats(val, ids, penalty, i, j) ==
  val[i] > val[j] \/ (val[i] = val[j] /\ IF penalty = <<>> THEN ids[i] < ids[j] ELSE i < j)

\* Score, then id, is a weak order, and a stable sort by it is Beats.
LEMMA BeatsOrder ==
  ASSUME NEW m \in Nat, NEW val, \A i \in 1 .. m : val[i] \in Int,
         NEW ids, \A i \in 1 .. m : ids[i] \in Nat,
         \A i, j \in 1 .. m : ids[i] = ids[j] => i = j, NEW penalty,
         NEW R, \A i, j \in 1 .. m : <<i, j>> \in R <=>
                  val[i] > val[j] \/ (penalty = <<>> /\ val[i] = val[j] /\ ids[i] < ids[j])
  PROVE  WeakOrder(R, m) /\ \A i, j \in 1 .. m : Precedes(i, j, R) <=> Beats(val, ids, penalty, i, j)
<1> DEFINE Less(i, j) == val[i] > val[j] \/ (penalty = <<>> /\ val[i] = val[j] /\ ids[i] < ids[j])
<1>1. \A i, j \in 1 .. m : Less(i, j) => ~Less(j, i)
  OBVIOUS
<1>2. ASSUME NEW i \in 1 .. m, NEW j \in 1 .. m, NEW k \in 1 .. m, ~Less(i, j), ~Less(j, k)
      PROVE  ~Less(i, k)
  BY <1>2
<1>3. WeakOrder(R, m)
  <2> HIDE DEF Less
  <2>1. \A i, j \in 1 .. m : <<i, j>> \in R <=> Less(i, j)
    BY DEF Less
  <2> QED
    BY <1>1, <1>2, <2>1 DEF WeakOrder
<1>4. ASSUME NEW i \in 1 .. m, NEW j \in 1 .. m
      PROVE  Precedes(i, j, R) <=> Beats(val, ids, penalty, i, j)
  <2>1. Precedes(i, j, R) <=> Less(i, j) \/ (~Less(j, i) /\ i < j)
    BY DEF Precedes
  <2>2. PICK a \in Int, b \in Int, x \in Nat, y \in Nat :
          a = val[i] /\ b = val[j] /\ x = ids[i] /\ y = ids[j] /\ (x = y => i = j)
    OBVIOUS
  <2>3. CASE penalty = <<>>
    <3>1. Less(i, j) \/ (~Less(j, i) /\ i < j) <=> a > b \/ (a = b /\ x < y)
      BY <2>2, <2>3
    <3> QED
      BY <2>1, <2>2, <2>3, <3>1 DEF Beats
  <2>4. CASE penalty # <<>>
    <3>1. Less(i, j) \/ (~Less(j, i) /\ i < j) <=> a > b \/ (a = b /\ i < j)
      BY <2>2, <2>4
    <3> QED
      BY <2>1, <2>2, <2>4, <3>1 DEF Beats
  <2> QED
    BY <2>3, <2>4
<1> QED
  BY <1>3, <1>4

\* order lists the m ones best first.
BestFirst(order, m, val, ids, penalty) ==
  /\ PermutationOf(order, m)
  /\ \A k, l \in 1 .. m : k < l <=> Beats(val, ids, penalty, order[k], order[l])

\* Workers that fit are ranked best first.
LEMMA FitRanked ==
  ASSUME NEW spec, Asked(spec), NEW P, \A p \in P : Offered(p), NEW fit \in Seq(P), Distinct(fit),
         NEW prior, NEW tagOf, NEW sizes, Measured(sizes), NEW penalty, Penalised(penalty, P)
  PROVE  \E order :
           /\ BestFirst(order, Len(fit), ValuesOf(spec, fit, prior, tagOf, sizes, penalty),
                        IdsOf(fit), penalty)
           /\ RankFit(spec, fit, prior, tagOf, sizes, penalty) = [k \in 1 .. Len(fit) |-> fit[order[k]].id]
<1>1. PICK m \in Nat : m = Len(fit) /\ DOMAIN fit = 1 .. m
  OBVIOUS
<1>2. PICK ids, val : ids = IdsOf(fit) /\ val = ValuesOf(spec, fit, prior, tagOf, sizes, penalty)
  OBVIOUS
<1>3. \A i \in 1 .. m : fit[i] \in P /\ Offered(fit[i])
  BY <1>1
<1>4. /\ DOMAIN ids = 1 .. m /\ \A i \in 1 .. m : ids[i] = fit[i].id /\ ids[i] \in Nat
      /\ \A i, j \in 1 .. m : ids[i] = ids[j] => i = j
  BY <1>1, <1>2, <1>3 DEF IdsOf, Offered, Distinct
<1>5. Len(ids) = m
  <2>1. ids \in Seq(Nat)
    BY <1>1, <1>2, <1>4 DEF IdsOf
  <2> QED
    BY <1>4, <2>1
<1>6. PICK score : score = [w \in ToSet(ids) |->
                              RankScore(spec, CHOOSE p \in ToSet(fit) : p.id = w, prior, tagOf, sizes)]
  OBVIOUS
<1>7. ASSUME NEW i \in 1 .. m
      PROVE  score[ids[i]] = RankScore(spec, fit[i], prior, tagOf, sizes) /\ score[ids[i]] \in Int
  <2>1. ids[i] \in ToSet(ids) /\ fit[i] \in ToSet(fit)
    BY <1>1, <1>4 DEF ToSet
  <2>2. PICK q : q = CHOOSE p \in ToSet(fit) : p.id = ids[i]
    OBVIOUS
  <2>3. q \in ToSet(fit) /\ q.id = ids[i]
    BY <1>4, <2>1, <2>2
  <2>4. PICK j \in 1 .. m : q = fit[j]
    BY <1>1, <2>3 DEF ToSet
  <2>5. q = fit[i]
    BY <1>4, <2>3, <2>4
  <2>6. score[ids[i]] = RankScore(spec, q, prior, tagOf, sizes)
    BY <1>6, <2>1, <2>2
  <2> QED
    BY <1>3, <2>5, <2>6, RankType
<1>9. ASSUME NEW i \in 1 .. m
      PROVE  val[i] \in Int /\ val[i] = score[ids[i]] - IF penalty = <<>> THEN 0 ELSE penalty[ids[i]]
  <2>1. val[i] = Value(spec, fit[i], prior, tagOf, sizes, penalty)
    BY <1>1, <1>2 DEF ValuesOf
  <2>2. val[i] = score[ids[i]] - IF penalty = <<>> THEN 0 ELSE penalty[ids[i]]
    BY <1>4, <1>7, <2>1 DEF Value
  <2>3. penalty # <<>> => penalty[ids[i]] \in Int
    BY <1>3, <1>4 DEF Penalised
  <2> QED
    BY <1>7, <2>2, <2>3
<1>10. RankFit(spec, fit, prior, tagOf, sizes, penalty)
         = IF penalty = <<>> THEN RankByScore(ids, score) ELSE AdjustRanking(ids, score, penalty)
  BY <1>2, <1>6, Zenon DEF RankFit, IdsOf
<1>11. ASSUME NEW order, PermutationOf(order, m)
       PROVE  Pick(ids, order) = [k \in 1 .. m |-> fit[order[k]].id]
  BY <1>4, <1>11 DEF Pick, PermutationOf
<1>12. CASE penalty = <<>>
  <2>1. PICK R : R = {p \in (1 .. m) \X (1 .. m) : ScoreBefore(ids[p[1]], ids[p[2]], score)}
    OBVIOUS
  <2>2. PICK order : order = Ranked(m, R)
    OBVIOUS
  <2>3. RankByScore(ids, score) = Pick(ids, order)
    BY <1>5, <2>1, <2>2 DEF RankByScore, Order
  <2>4. \A i \in 1 .. m : val[i] = score[ids[i]] /\ val[i] \in Int
    BY <1>7, <1>9, <1>12
  <2>5. \A i, j \in 1 .. m : <<i, j>> \in R <=> val[i] > val[j] \/ (penalty = <<>> /\ val[i] = val[j] /\ ids[i] < ids[j])
    <3>1. \A i, j \in 1 .. m : <<i, j>> \in R <=> ScoreBefore(ids[i], ids[j], score)
      BY <2>1
    <3>2. ASSUME NEW i \in 1 .. m, NEW j \in 1 .. m
          PROVE  ScoreBefore(ids[i], ids[j], score) <=> val[i] > val[j] \/ (val[i] = val[j] /\ ids[i] < ids[j])
      <4>1. PICK a, b : a = score[ids[i]] /\ b = score[ids[j]] /\ a = val[i] /\ b = val[j]
        BY <2>4
      <4>2. ScoreBefore(ids[i], ids[j], score) <=> a > b \/ (a = b /\ ids[i] < ids[j])
        BY <4>1 DEF ScoreBefore
      <4> QED
        BY <4>1, <4>2
    <3> QED
      BY <1>12, <3>1, <3>2
  <2>6. WeakOrder(R, m) /\ \A i, j \in 1 .. m : Precedes(i, j, R) <=> Beats(val, ids, penalty, i, j)
    BY <1>4, <2>4, <2>5, BeatsOrder
  <2>7. PermutationOf(order, m) /\ \A k, l \in 1 .. m : k < l <=> Precedes(order[k], order[l], R)
    BY <2>2, <2>6, RankedSorts
  <2>8. BestFirst(order, m, val, ids, penalty)
    BY <2>6, <2>7 DEF BestFirst, PermutationOf
  <2> QED
    BY <1>1, <1>2, <1>10, <1>11, <1>12, <2>3, <2>7, <2>8
<1>13. CASE penalty # <<>>
  <2>1. PICK R : R = {p \in (1 .. m) \X (1 .. m) :
                        score[ids[p[1]]] - penalty[ids[p[1]]] > score[ids[p[2]]] - penalty[ids[p[2]]]}
    OBVIOUS
  <2>2. PICK order : order = Ranked(m, R)
    OBVIOUS
  <2>3. AdjustRanking(ids, score, penalty) = Pick(ids, order)
    BY <1>5, <2>1, <2>2 DEF AdjustRanking, Order
  <2>4. \A i \in 1 .. m : val[i] = score[ids[i]] - penalty[ids[i]] /\ val[i] \in Int
    BY <1>9, <1>13
  <2>5. \A i, j \in 1 .. m : <<i, j>> \in R <=> val[i] > val[j] \/ (penalty = <<>> /\ val[i] = val[j] /\ ids[i] < ids[j])
    BY <1>13, <2>1, <2>4
  <2>6. WeakOrder(R, m) /\ \A i, j \in 1 .. m : Precedes(i, j, R) <=> Beats(val, ids, penalty, i, j)
    BY <1>4, <2>4, <2>5, BeatsOrder
  <2>7. PermutationOf(order, m) /\ \A k, l \in 1 .. m : k < l <=> Precedes(order[k], order[l], R)
    BY <2>2, <2>6, RankedSorts
  <2>8. BestFirst(order, m, val, ids, penalty)
    BY <2>6, <2>7 DEF BestFirst, PermutationOf
  <2> QED
    BY <1>1, <1>2, <1>10, <1>11, <1>13, <2>3, <2>7, <2>8
<1> QED
  BY <1>12, <1>13

\* ranked: the ids of the m ones in able, each once and best first.
Placed(ranked, pos, m, able, val, ids, penalty) ==
  /\ m \in Nat /\ ListsOnce(pos, able, m)
  /\ ranked = [k \in 1 .. m |-> ids[pos[k]]]
  /\ \A k, l \in 1 .. m : k < l <=> Beats(val, ids, penalty, pos[k], pos[l])

\* EligibleRanked: placement lists exactly the workers that pass every hard
\* gate, each once, best first: scores, preferences and the bridge's risk
\* order the candidates and never exclude or add one (evaluate,
\* adjust_ranking).
THEOREM EligibleRanked ==
  ASSUME NEW spec, Asked(spec), NEW P, \A p \in P : Offered(p), NEW profiles \in Seq(P), Distinct(profiles),
         NEW prior, NEW tagOf, NEW sizes, Measured(sizes), NEW penalty, Penalised(penalty, P)
  PROVE  \E pos, m : Placed(Evaluate(spec, profiles, prior, tagOf, sizes, penalty), pos, m,
                            EligibleOnes(spec, profiles, prior, tagOf),
                            ValuesOf(spec, profiles, prior, tagOf, sizes, penalty),
                            IdsOf(profiles), penalty)
<1>1. PICK n \in Nat : n = Len(profiles) /\ DOMAIN profiles = 1 .. n
  OBVIOUS
<1>2. PICK able, ids, val :
        /\ able = EligibleOnes(spec, profiles, prior, tagOf) /\ ids = IdsOf(profiles)
        /\ val = ValuesOf(spec, profiles, prior, tagOf, sizes, penalty)
  OBVIOUS
<1>3. able \in SUBSET (1 .. n)
  BY <1>1, <1>2 DEF EligibleOnes
<1>4. PICK m, asc : m = Cardinality(able) /\ asc = Ascending(able)
  OBVIOUS
<1>5. m \in Nat /\ Enumerates(asc, able, m)
  BY <1>3, <1>4, AscendingEnumerates
<1>6. asc \in [1 .. m -> able] /\ \A k \in 1 .. m : asc[k] \in 1 .. n
  BY <1>3, <1>5 DEF Enumerates
<1>7. PICK fit : fit = [k \in 1 .. m |-> profiles[asc[k]]]
  OBVIOUS
<1>8. Keep(profiles, LAMBDA p : Eligible(spec, p, prior, tagOf)) = fit
  <2>1. Pick(profiles, asc) = fit
    BY <1>6, <1>7 DEF Pick
  <2> QED
    BY <1>2, <1>4, <2>1 DEF Keep, EligibleOnes
<1>9. fit \in Seq(P) /\ Len(fit) = m /\ DOMAIN fit = 1 .. m
  BY <1>1, <1>5, <1>6, <1>7
<1>10. \A k, l \in 1 .. m : asc[k] = asc[l] => k = l
  <2>1. ASSUME NEW k \in 1 .. m, NEW l \in 1 .. m, asc[k] = asc[l] PROVE k = l
    <3>1. PICK x \in 1 .. n : x = asc[k] /\ x = asc[l]
      BY <1>6, <2>1
    <3>2. (k < l <=> asc[k] < asc[l]) /\ (l < k <=> asc[l] < asc[k])
      BY <1>5 DEF Enumerates
    <3>3. ~(k < l) /\ ~(l < k)
      BY <3>1, <3>2
    <3> QED
      BY <3>3
  <2> QED
    BY <2>1
<1>11. Distinct(fit)
  BY <1>1, <1>6, <1>7, <1>9, <1>10 DEF Distinct
<1>12. PICK idsF, valF : idsF = IdsOf(fit) /\ valF = ValuesOf(spec, fit, prior, tagOf, sizes, penalty)
  OBVIOUS
<1>13. \A k \in 1 .. m : idsF[k] = ids[asc[k]] /\ valF[k] = val[asc[k]]
  BY <1>1, <1>2, <1>6, <1>7, <1>9, <1>12 DEF IdsOf, ValuesOf
<1>14. PICK order : /\ BestFirst(order, m, valF, idsF, penalty)
                    /\ RankFit(spec, fit, prior, tagOf, sizes, penalty) = [k \in 1 .. m |-> fit[order[k]].id]
  <2>1. \E order :
          /\ BestFirst(order, Len(fit), ValuesOf(spec, fit, prior, tagOf, sizes, penalty), IdsOf(fit), penalty)
          /\ RankFit(spec, fit, prior, tagOf, sizes, penalty) = [k \in 1 .. Len(fit) |-> fit[order[k]].id]
    BY <1>9, <1>11, FitRanked
  <2> QED
    BY <1>9, <1>12, <2>1
<1>15. PermutationOf(order, m) /\ order \in [1 .. m -> 1 .. m]
  BY <1>14 DEF BestFirst, PermutationOf
<1>16. PICK pos : pos = [k \in 1 .. m |-> asc[order[k]]]
  OBVIOUS
<1>17. ListsOnce(pos, able, m)
  <2>1. pos \in [1 .. m -> able]
    BY <1>6, <1>15, <1>16
  <2>2. ASSUME NEW k \in 1 .. m, NEW l \in 1 .. m, pos[k] = pos[l] PROVE k = l
    <3>1. PICK x \in 1 .. m, y \in 1 .. m : x = order[k] /\ y = order[l]
      BY <1>15
    <3>2. asc[x] = asc[y]
      BY <1>16, <2>2, <3>1
    <3>3. x = y
      BY <1>10, <3>2, Zenon
    <3> QED
      BY <1>15, <3>1, <3>3, Zenon DEF PermutationOf
  <2>3. ASSUME NEW i \in able PROVE \E k \in 1 .. m : pos[k] = i
    <3>1. PICK a \in 1 .. m : asc[a] = i
      BY <1>5 DEF Enumerates
    <3>2. PICK k \in 1 .. m : order[k] = a
      BY <1>15 DEF PermutationOf
    <3> QED
      BY <1>16, <3>1, <3>2
  <2> QED
    BY <2>1, <2>2, <2>3 DEF ListsOnce
<1>18. ASSUME NEW k \in 1 .. m, NEW l \in 1 .. m
       PROVE  k < l <=> Beats(val, ids, penalty, pos[k], pos[l])
  <2>1. PICK a \in 1 .. m, b \in 1 .. m : a = order[k] /\ b = order[l]
    BY <1>15
  <2>2. k < l <=> Beats(valF, idsF, penalty, a, b)
    BY <1>14, <2>1 DEF BestFirst
  <2>3. a < b <=> asc[a] < asc[b]
    BY <1>5 DEF Enumerates
  <2>4. Beats(valF, idsF, penalty, a, b) <=> Beats(val, ids, penalty, asc[a], asc[b])
    BY <1>13, <2>3 DEF Beats
  <2> QED
    BY <1>16, <2>1, <2>2, <2>4
<1>19. [k \in 1 .. m |-> fit[order[k]].id] = [k \in 1 .. m |-> ids[pos[k]]]
  <2>1. ASSUME NEW k \in 1 .. m PROVE fit[order[k]].id = ids[pos[k]]
    <3>1. PICK a \in 1 .. m : a = order[k]
      BY <1>15
    <3>2. ids[asc[a]] = profiles[asc[a]].id
      BY <1>1, <1>2, <1>6 DEF IdsOf
    <3> QED
      BY <1>7, <1>16, <3>1, <3>2
  <2> QED
    BY <2>1
<1>20. Evaluate(spec, profiles, prior, tagOf, sizes, penalty) = [k \in 1 .. m |-> ids[pos[k]]]
  <2>1. Evaluate(spec, profiles, prior, tagOf, sizes, penalty) = RankFit(spec, fit, prior, tagOf, sizes, penalty)
    BY <1>8, Zenon DEF Evaluate
  <2> QED
    BY <1>14, <1>19, <2>1
<1>21. Placed(Evaluate(spec, profiles, prior, tagOf, sizes, penalty), pos, m, able, val, ids, penalty)
  BY <1>5, <1>17, <1>18, <1>20 DEF Placed
<1> QED
  BY <1>2, <1>21

-----------------------------------------------------------------------------
(* Groups of workers                                                       *)

\* The first of ranked beats every other one that is left.
BestOfRest(ranked, left, val, ids, penalty) ==
  IF left = {} THEN ranked = <<>>
  ELSE /\ ranked # <<>>
       /\ \E h \in left : /\ Head(ranked) = ids[h]
                          /\ \A i \in left : i # h => Beats(val, ids, penalty, h, i)

\* Evaluating the rest gives the best of the eligible ones not yet chosen.
LEMMA NextBest ==
  ASSUME NEW spec, Asked(spec), NEW P, \A p \in P : Offered(p), NEW profiles \in Seq(P), Distinct(profiles),
         NEW prior, NEW tagOf, NEW sizes, Measured(sizes), NEW penalty, Penalised(penalty, P), NEW chosen
  PROVE  BestOfRest(Evaluate(spec, Unchosen(profiles, chosen), prior, tagOf, sizes, penalty),
                    {i \in EligibleOnes(spec, profiles, prior, tagOf) : profiles[i].id \notin ToSet(chosen)},
                    ValuesOf(spec, profiles, prior, tagOf, sizes, penalty), IdsOf(profiles), penalty)
<1>1. PICK n \in Nat : n = Len(profiles) /\ DOMAIN profiles = 1 .. n
  OBVIOUS
<1>2. PICK able, ids, val :
        /\ able = EligibleOnes(spec, profiles, prior, tagOf) /\ ids = IdsOf(profiles)
        /\ val = ValuesOf(spec, profiles, prior, tagOf, sizes, penalty)
  OBVIOUS
<1>3. PICK left, kept : /\ left = {i \in able : profiles[i].id \notin ToSet(chosen)}
                        /\ kept = {i \in 1 .. n : profiles[i].id \notin ToSet(chosen)}
  OBVIOUS
<1>4. PICK q, asc : q = Cardinality(kept) /\ asc = Ascending(kept)
  OBVIOUS
<1>5. q \in Nat /\ Enumerates(asc, kept, q)
  BY <1>3, <1>4, AscendingEnumerates
<1>6. asc \in [1 .. q -> kept] /\ \A k \in 1 .. q : asc[k] \in 1 .. n
  BY <1>3, <1>5 DEF Enumerates
<1>7. PICK rest : rest = [k \in 1 .. q |-> profiles[asc[k]]]
  OBVIOUS
<1>8. Unchosen(profiles, chosen) = rest
  <2>1. Pick(profiles, asc) = rest
    BY <1>6, <1>7 DEF Pick
  <2>2. {i \in DOMAIN profiles : profiles[i].id \notin ToSet(chosen)} = kept
    BY <1>1, <1>3
  <2> QED
    BY <1>4, <2>1, <2>2 DEF Keep, Unchosen
<1>9. rest \in Seq(P) /\ Len(rest) = q /\ DOMAIN rest = 1 .. q
  BY <1>1, <1>5, <1>6, <1>7
<1>10. \A k, l \in 1 .. q : (k < l <=> asc[k] < asc[l])
  BY <1>5 DEF Enumerates
<1>11. \A k, l \in 1 .. q : asc[k] = asc[l] => k = l
  <2>1. ASSUME NEW k \in 1 .. q, NEW l \in 1 .. q, asc[k] = asc[l] PROVE k = l
    <3>1. PICK x \in 1 .. n : x = asc[k] /\ x = asc[l]
      BY <1>6, <2>1
    <3>2. (k < l <=> asc[k] < asc[l]) /\ (l < k <=> asc[l] < asc[k])
      BY <1>10
    <3>3. ~(k < l) /\ ~(l < k)
      BY <3>1, <3>2
    <3> QED
      BY <3>3
  <2> QED
    BY <2>1
<1>12. Distinct(rest)
  BY <1>1, <1>6, <1>7, <1>9, <1>11 DEF Distinct
<1>13. PICK ableR, idsR, valR :
        /\ ableR = EligibleOnes(spec, rest, prior, tagOf) /\ idsR = IdsOf(rest)
        /\ valR = ValuesOf(spec, rest, prior, tagOf, sizes, penalty)
  OBVIOUS
<1>14. \A k \in 1 .. q : idsR[k] = ids[asc[k]] /\ valR[k] = val[asc[k]] /\ (k \in ableR <=> asc[k] \in left)
  <2>1. \A k \in 1 .. q : idsR[k] = ids[asc[k]] /\ valR[k] = val[asc[k]]
    BY <1>1, <1>2, <1>6, <1>7, <1>9, <1>13 DEF IdsOf, ValuesOf
  <2>2. \A k \in 1 .. q : k \in ableR <=> asc[k] \in able
    BY <1>1, <1>2, <1>6, <1>7, <1>9, <1>13 DEF EligibleOnes
  <2>3. \A k \in 1 .. q : profiles[asc[k]].id \notin ToSet(chosen)
    BY <1>3, <1>6
  <2> QED
    BY <1>3, <2>1, <2>2, <2>3
<1>15. PICK ranked : ranked = Evaluate(spec, rest, prior, tagOf, sizes, penalty)
  OBVIOUS
<1>16. PICK pos, m : Placed(ranked, pos, m, ableR, valR, idsR, penalty)
  <2>1. \E pos, m : Placed(Evaluate(spec, rest, prior, tagOf, sizes, penalty), pos, m,
                           EligibleOnes(spec, rest, prior, tagOf),
                           ValuesOf(spec, rest, prior, tagOf, sizes, penalty), IdsOf(rest), penalty)
    BY <1>9, <1>12, EligibleRanked
  <2> QED
    BY <1>13, <1>15, <2>1
<1>17. /\ m \in Nat /\ pos \in [1 .. m -> ableR] /\ (\A i \in ableR : \E k \in 1 .. m : pos[k] = i)
       /\ ranked = [k \in 1 .. m |-> idsR[pos[k]]]
       /\ \A k, l \in 1 .. m : k < l <=> Beats(valR, idsR, penalty, pos[k], pos[l])
  BY <1>16 DEF Placed, ListsOnce
<1>18. ableR \in SUBSET (1 .. q)
  BY <1>9, <1>13 DEF EligibleOnes
<1>19. ASSUME NEW i \in left PROVE \E k \in 1 .. m : asc[pos[k]] = i
  <2>1. i \in kept
    BY <1>1, <1>2, <1>3 DEF EligibleOnes
  <2>2. PICK a \in 1 .. q : asc[a] = i
    BY <1>5, <2>1 DEF Enumerates
  <2>3. a \in ableR
    BY <1>14, <2>2
  <2> QED
    BY <1>17, <2>2, <2>3
<1>20. CASE left = {}
  <2>1. ASSUME m # 0 PROVE FALSE
    <3>1. 1 \in 1 .. m
      BY <1>17, <2>1
    <3>2. pos[1] \in ableR /\ pos[1] \in 1 .. q
      BY <1>17, <1>18, <3>1
    <3> QED
      BY <1>14, <1>20, <3>2
  <2>2. ranked = <<>>
    BY <1>17, <2>1
  <2> QED
    BY <1>2, <1>3, <1>8, <1>15, <1>20, <2>2 DEF BestOfRest
<1>21. CASE left # {}
  <2>1. PICK i0 \in left : TRUE
    BY <1>21
  <2>2. m # 0
    BY <1>17, <1>19, <2>1
  <2>3. 1 \in 1 .. m
    BY <1>17, <2>2
  <2>4. PICK a \in 1 .. q : a = pos[1] /\ a \in ableR
    BY <1>17, <1>18, <2>3
  <2>5. PICK h \in left : h = asc[a]
    BY <1>14, <2>4
  <2>6. ranked # <<>> /\ Head(ranked) = idsR[a]
    <3>0. PICK V : V = {idsR[pos[k]] : k \in 1 .. m}
      OBVIOUS
    <3>a. \A k \in 1 .. m : idsR[pos[k]] \in V
      BY <3>0
    <3>1. ranked \in Seq(V) /\ Len(ranked) = m
      BY <1>17, <3>a
    <3>2. ranked # <<>> /\ Head(ranked) = ranked[1]
      BY <1>17, <2>2, <3>1
    <3> QED
      BY <1>17, <2>3, <2>4, <3>2
  <2>7. idsR[a] = ids[h]
    BY <1>14, <2>5
  <2>8. ASSUME NEW i \in left, i # h PROVE Beats(val, ids, penalty, h, i)
    <3>1. PICK k \in 1 .. m : asc[pos[k]] = i
      BY <1>19
    <3>2. PICK b \in 1 .. q : b = pos[k]
      BY <1>17, <1>18
    <3>3. 1 < k
      BY <1>17, <2>4, <2>5, <2>8, <3>1
    <3>4. Beats(valR, idsR, penalty, a, b)
      BY <1>17, <2>3, <2>4, <3>2, <3>3
    <3>5. a < b <=> asc[a] < asc[b]
      BY <1>10
    <3>6. Beats(valR, idsR, penalty, a, b) <=> Beats(val, ids, penalty, asc[a], asc[b])
      BY <1>14, <3>5 DEF Beats
    <3> QED
      BY <2>5, <3>1, <3>2, <3>4, <3>6
  <2> QED
    BY <1>2, <1>3, <1>8, <1>15, <1>21, <2>6, <2>7, <2>8 DEF BestOfRest
<1> QED
  BY <1>20, <1>21

\* The first k of ranked, filled up with nobody.
FirstRanked(ranked, m, k) == [i \in 1 .. k |-> IF i <= m THEN ranked[i] ELSE None]

\* Each step adds the next of the full ranking.
LEMMA GroupGrows ==
  ASSUME NEW spec, Asked(spec), NEW P, \A p \in P : Offered(p), NEW profiles \in Seq(P), Distinct(profiles),
         NEW prior, NEW tagOf, NEW sizes, Measured(sizes), NEW penalty, Penalised(penalty, P),
         NEW ranked, ranked = Evaluate(spec, profiles, prior, tagOf, sizes, penalty),
         NEW k \in Nat, k # 0, NEW chosen, chosen = FirstRanked(ranked, Len(ranked), k - 1)
  PROVE  AddBest(chosen, Evaluate(spec, Unchosen(profiles, chosen), prior, tagOf, sizes, penalty))
           = FirstRanked(ranked, Len(ranked), k)
<1>1. PICK n \in Nat : n = Len(profiles) /\ DOMAIN profiles = 1 .. n
  OBVIOUS
<1>2. PICK able, ids, val :
        /\ able = EligibleOnes(spec, profiles, prior, tagOf) /\ ids = IdsOf(profiles)
        /\ val = ValuesOf(spec, profiles, prior, tagOf, sizes, penalty)
  OBVIOUS
<1>3. PICK pos, m : Placed(ranked, pos, m, able, val, ids, penalty)
  <2>1. \E pos, m : Placed(Evaluate(spec, profiles, prior, tagOf, sizes, penalty), pos, m,
                           EligibleOnes(spec, profiles, prior, tagOf),
                           ValuesOf(spec, profiles, prior, tagOf, sizes, penalty), IdsOf(profiles), penalty)
    BY EligibleRanked
  <2> QED
    BY <1>2, <2>1
<1>4. /\ m \in Nat /\ pos \in [1 .. m -> able] /\ (\A i \in able : \E l \in 1 .. m : pos[l] = i)
      /\ ranked = [l \in 1 .. m |-> ids[pos[l]]]
      /\ \A a, b \in 1 .. m : a < b <=> Beats(val, ids, penalty, pos[a], pos[b])
      /\ \A a, b \in 1 .. m : pos[a] = pos[b] => a = b
  BY <1>3 DEF Placed, ListsOnce
<1>5. able \in SUBSET (1 .. n)
  BY <1>1, <1>2 DEF EligibleOnes
<1>6. /\ \A i \in 1 .. n : ids[i] = profiles[i].id /\ ids[i] \in Nat
      /\ \A i, j \in 1 .. n : ids[i] = ids[j] => i = j
  <2>1. \A i \in 1 .. n : ids[i] = profiles[i].id /\ Offered(profiles[i])
    BY <1>1, <1>2 DEF IdsOf
  <2> QED
    BY <1>1, <2>1 DEF Offered, Distinct
<1>7. ASSUME NEW l \in 1 .. m PROVE ranked[l] = ids[pos[l]] /\ pos[l] \in 1 .. n /\ ranked[l] \in Nat
  <2>1. ranked[l] = ids[pos[l]] /\ pos[l] \in able
    BY <1>4
  <2>2. pos[l] \in 1 .. n
    BY <1>5, <2>1
  <2>3. ids[pos[l]] \in Nat
    BY <1>6, <2>2
  <2> QED
    BY <2>1, <2>2, <2>3
<1>8. Len(ranked) = m
  <2>1. ranked \in Seq(Nat)
    BY <1>4, <1>7
  <2> QED
    BY <1>4, <2>1
<1>9. chosen = FirstRanked(ranked, m, k - 1)
  BY <1>8
<1>10. PICK left : left = {i \in able : profiles[i].id \notin ToSet(chosen)}
  OBVIOUS
<1>11. PICK next : next = Evaluate(spec, Unchosen(profiles, chosen), prior, tagOf, sizes, penalty)
  OBVIOUS
<1>12. BestOfRest(next, left, val, ids, penalty)
  BY <1>2, <1>10, <1>11, NextBest
<1>13. DOMAIN chosen = 1 .. k - 1 /\ \A i \in 1 .. k - 1 : chosen[i] = IF i <= m THEN ranked[i] ELSE None
  BY <1>9 DEF FirstRanked
<1>14. chosen \in Seq(Nat \cup {None}) /\ Len(chosen) = k - 1
  <2>1. \A i \in 1 .. k - 1 : i <= m => i \in 1 .. m
    BY <1>4
  <2>2. \A i \in 1 .. k - 1 : chosen[i] \in Nat \cup {None}
    BY <1>7, <1>13, <2>1
  <2>3. chosen = [i \in 1 .. k - 1 |-> chosen[i]] /\ k - 1 \in Nat
    BY <1>9 DEF FirstRanked
  <2> QED
    BY <1>13, <2>2, <2>3
<1>15. \A x : x \in ToSet(chosen) <=> \E i \in 1 .. k - 1 : x = chosen[i]
  BY <1>13 DEF ToSet
<1>16. ASSUME NEW x, x = IF k <= m THEN ranked[k] ELSE None
       PROVE  Append(chosen, x) = FirstRanked(ranked, m, k)
  <2>1. Append(chosen, x) = [i \in 1 .. k |-> IF i = k THEN x ELSE chosen[i]]
    <3>1. x \in Nat \cup {None}
      <4>1. k <= m => k \in 1 .. m
        BY <1>4
      <4> QED
        BY <1>7, <1>16, <4>1
    <3>2. PICK V, new : V = Nat \cup {None} /\ new = Append(chosen, x)
      OBVIOUS
    <3>3. /\ new \in Seq(V) /\ Len(new) = k /\ new[k] = x
          /\ \A i \in 1 .. k - 1 : new[i] = chosen[i]
      BY <1>14, <3>1, <3>2
    <3>4. new = [i \in 1 .. k |-> new[i]]
      BY <3>3
    <3>5. \A i \in 1 .. k : i = k \/ i \in 1 .. k - 1
      OBVIOUS
    <3>6. \A i \in 1 .. k : new[i] = IF i = k THEN x ELSE chosen[i]
      BY <3>3, <3>5
    <3> QED
      BY <3>2, <3>4, <3>6
  <2>2. \A i \in 1 .. k : i = k \/ i \in 1 .. k - 1
    OBVIOUS
  <2>3. \A i \in 1 .. k : (IF i = k THEN x ELSE chosen[i]) = IF i <= m THEN ranked[i] ELSE None
    BY <1>13, <1>16, <2>2
  <2> QED
    BY <2>1, <2>3 DEF FirstRanked
<1>17. CASE k > m
  <2>1. ASSUME NEW i \in left PROVE FALSE
    <3>1. PICK l \in 1 .. m : pos[l] = i
      BY <1>4, <1>10
    <3>2. l \in 1 .. k - 1 /\ l <= m
      BY <1>4, <1>17
    <3>3. chosen[l] = ids[i]
      BY <1>7, <1>13, <3>1, <3>2
    <3>4. i \in 1 .. n /\ ids[i] = profiles[i].id
      BY <1>5, <1>6, <1>10
    <3> QED
      BY <1>10, <1>15, <3>2, <3>3, <3>4
  <2>2. next = <<>>
    BY <1>12, <2>1 DEF BestOfRest
  <2>3. AddBest(chosen, next) = Append(chosen, None)
    BY <2>2 DEF AddBest
  <2>4. ~(k <= m)
    BY <1>4, <1>17
  <2> QED
    BY <1>8, <1>9, <1>11, <1>16, <2>3, <2>4
<1>18. CASE k <= m
  <2>1. k \in 1 .. m
    BY <1>4, <1>18
  <2>2. \A i \in 1 .. k - 1 : i \in 1 .. m /\ i < k /\ chosen[i] = ids[pos[i]]
    <3>1. \A i \in 1 .. k - 1 : i \in 1 .. m /\ i < k /\ i <= m
      BY <1>4, <1>18
    <3> QED
      BY <1>7, <1>13, <3>1
  <2>3. None \notin ToSet(chosen)
    <3>1. \A i \in 1 .. k - 1 : chosen[i] \in Nat
      BY <1>7, <2>2
    <3>2. None \notin Nat
      BY DEF None
    <3> QED
      BY <1>15, <3>1, <3>2
  <2>4. ASSUME NEW l \in 1 .. m PROVE pos[l] \in left <=> l \notin 1 .. k - 1
    <3>1. pos[l] \in able /\ pos[l] \in 1 .. n /\ profiles[pos[l]].id = ids[pos[l]]
      BY <1>4, <1>6, <1>7
    <3>2. pos[l] \in left <=> ids[pos[l]] \notin ToSet(chosen)
      BY <1>10, <3>1
    <3>3. \A i \in 1 .. k - 1 : ids[pos[l]] = chosen[i] <=> l = i
      <4>1. ASSUME NEW i \in 1 .. k - 1, ids[pos[l]] = ids[pos[i]] PROVE l = i
        <5>1. pos[i] \in 1 .. n /\ i \in 1 .. m
          BY <1>7, <2>2
        <5>2. pos[l] = pos[i]
          BY <1>6, <3>1, <4>1, <5>1
        <5> QED
          BY <1>4, <5>1, <5>2
      <4> QED
        BY <2>2, <4>1
    <3> QED
      BY <1>15, <3>2, <3>3
  <2>5. k \notin 1 .. k - 1
    OBVIOUS
  <2>6. pos[k] \in left
    BY <2>1, <2>4, <2>5
  <2>7. PICK h \in left : Head(next) = ids[h] /\ \A i \in left : i # h => Beats(val, ids, penalty, h, i)
    BY <1>12, <2>6 DEF BestOfRest
  <2>8. next # <<>>
    BY <1>12, <2>6 DEF BestOfRest
  <2>9. PICK l \in 1 .. m : pos[l] = h
    BY <1>4, <1>10
  <2>10. ~(l < k)
    <3>1. l \notin 1 .. k - 1
      BY <2>4, <2>9
    <3> QED
      BY <3>1
  <2>11. h = pos[k]
    <3>1. SUFFICES ASSUME h # pos[k] PROVE FALSE
      OBVIOUS
    <3>2. Beats(val, ids, penalty, pos[l], pos[k])
      BY <2>6, <2>7, <2>9, <3>1
    <3>3. l < k
      BY <1>4, <2>1, <3>2
    <3> QED
      BY <2>10, <3>3
  <2>12. Head(next) = ranked[k]
    BY <1>7, <2>1, <2>7, <2>11
  <2>13. AddBest(chosen, next) = Append(chosen, ranked[k])
    BY <2>3, <2>8, <2>12 DEF AddBest
  <2> QED
    BY <1>8, <1>9, <1>11, <1>16, <1>18, <2>13
<1>19. k > m \/ k <= m
  BY <1>4
<1> QED
  BY <1>17, <1>18, <1>19

\* GroupIsBest: a group of any size is complete and made of the best workers
\* of the full ranking, or absent; choosing one at a time and evaluating
\* again loses nothing (evaluate_group).
THEOREM GroupIsBest ==
  ASSUME NEW spec, Asked(spec), NEW P, \A p \in P : Offered(p), NEW profiles \in Seq(P), Distinct(profiles),
         NEW prior, NEW tagOf, NEW sizes, Measured(sizes), NEW penalty, Penalised(penalty, P), NEW n \in Nat
  PROVE  LET ranked == Evaluate(spec, profiles, prior, tagOf, sizes, penalty)
         IN GroupOf(EvaluateGroup(spec, profiles, n, prior, tagOf, sizes, penalty))
              = IF Len(ranked) >= n THEN Prefix(ranked, n) ELSE <<>>
<1>1. PICK ranked : ranked = Evaluate(spec, profiles, prior, tagOf, sizes, penalty)
  OBVIOUS
<1>2. ranked \in Seq(Nat)
  <2>1. PICK q \in Nat : q = Len(profiles) /\ DOMAIN profiles = 1 .. q
    OBVIOUS
  <2>2. PICK pos, m : Placed(ranked, pos, m, EligibleOnes(spec, profiles, prior, tagOf),
                             ValuesOf(spec, profiles, prior, tagOf, sizes, penalty), IdsOf(profiles), penalty)
    BY <1>1, EligibleRanked
  <2>3. m \in Nat /\ ranked = [k \in 1 .. m |-> IdsOf(profiles)[pos[k]]]
    BY <2>2 DEF Placed
  <2>4. ASSUME NEW k \in 1 .. m PROVE pos[k] \in 1 .. q
    BY <2>1, <2>2 DEF Placed, ListsOnce, EligibleOnes
  <2>5. \A i \in 1 .. q : IdsOf(profiles)[i] \in Nat
    BY <2>1 DEF IdsOf, Offered
  <2> QED
    BY <2>3, <2>4, <2>5
<1>3. PICK m \in Nat : m = Len(ranked) /\ DOMAIN ranked = 1 .. m /\ ranked = [i \in 1 .. m |-> ranked[i]]
  BY <1>2
<1> DEFINE Grow(chosen) == AddBest(chosen, Evaluate(spec, Unchosen(profiles, chosen), prior, tagOf, sizes, penalty))
           Grows(g) == g = [k \in 0 .. n |-> IF k = 0 THEN <<>> ELSE Grow(g[k - 1])]
           group == CHOOSE g : Grows(g)
<1>4. ASSUME NEW k \in Nat, k # 0 PROVE Grow(FirstRanked(ranked, m, k - 1)) = FirstRanked(ranked, m, k)
  <2>1. PICK chosen : chosen = FirstRanked(ranked, Len(ranked), k - 1)
    OBVIOUS
  <2>2. Grow(chosen) = FirstRanked(ranked, Len(ranked), k)
    BY <1>1, <1>4, <2>1, GroupGrows
  <2> HIDE DEF Grow
  <2> QED
    BY <1>3, <2>1, <2>2
<1>5. EvaluateGroup(spec, profiles, n, prior, tagOf, sizes, penalty) = group[n]
  BY DEF EvaluateGroup
<1> HIDE DEF Grow
<1>6. FirstRanked(ranked, m, 0) = <<>>
  BY DEF FirstRanked
<1>7. \E g : Grows(g)
  <2>1. PICK g : g = [k \in 0 .. n |-> FirstRanked(ranked, m, k)]
    OBVIOUS
  <2>2. ASSUME NEW k \in 0 .. n, k # 0 PROVE g[k] = Grow(g[k - 1])
    <3>1. k \in Nat /\ k - 1 \in 0 .. n
      BY <2>2
    <3>2. g[k] = FirstRanked(ranked, m, k) /\ g[k - 1] = FirstRanked(ranked, m, k - 1)
      BY <2>1, <3>1
    <3> QED
      BY <1>4, <2>2, <3>1, <3>2
  <2>3. 0 \in 0 .. n /\ g[0] = <<>>
    BY <1>6, <2>1
  <2>4. Grows(g)
    BY <2>1, <2>2, <2>3
  <2> HIDE DEF Grows
  <2> QED
    BY <2>4
<1>8. Grows(group)
  <2> HIDE DEF Grows
  <2> QED
    BY <1>7
<1> HIDE DEF group
<1> DEFINE N == {k \in Nat : k <= n => group[k] = FirstRanked(ranked, m, k)}
<1>9. N \in SUBSET Nat
  OBVIOUS
<1>10. 0 \in N
  <2>1. 0 \in 0 .. n
    OBVIOUS
  <2>2. group[0] = <<>>
    BY <1>8, <2>1
  <2> QED
    BY <1>6, <2>2
<1>11. ASSUME NEW k \in N PROVE k + 1 \in N
  <2>1. SUFFICES ASSUME k + 1 <= n PROVE group[k + 1] = FirstRanked(ranked, m, k + 1)
    OBVIOUS
  <2>2. PICK l \in 0 .. n : l = k + 1 /\ l # 0 /\ l - 1 = k /\ l \in Nat
    BY <2>1
  <2>3. group[l] = Grow(group[l - 1])
    BY <1>8, <2>2
  <2>4. group[l - 1] = FirstRanked(ranked, m, l - 1)
    BY <2>1, <2>2
  <2>5. group[l] = FirstRanked(ranked, m, l)
    BY <1>4, <2>2, <2>3, <2>4
  <2> QED
    BY <2>2, <2>5
<1> HIDE DEF N
<1>12. N = Nat
  BY <1>9, <1>10, <1>11, Induction
<1>13. PICK whole : whole = FirstRanked(ranked, m, n) /\ whole = group[n]
  BY <1>12 DEF N
<1>14. DOMAIN whole = 1 .. n /\ \A i \in 1 .. n : whole[i] = IF i <= m THEN ranked[i] ELSE None
  BY <1>13 DEF FirstRanked
<1>15. CASE m >= n
  <2>1. \A i \in 1 .. n : i \in 1 .. m /\ i <= m
    BY <1>3, <1>15
  <2>2. ASSUME NEW i \in 1 .. n PROVE whole[i] = ranked[i] /\ ranked[i] \in Nat
    <3>1. i \in DOMAIN ranked /\ i <= m
      BY <1>3, <2>1
    <3> QED
      BY <1>2, <1>14, <3>1
  <2>3. None \notin ToSet(whole)
    BY <1>14, <2>2 DEF ToSet, None
  <2>4. GroupOf(whole) = whole
    BY <2>3 DEF GroupOf
  <2>5. Prefix(ranked, n) = SubSeq(ranked, 1, n)
    <3>1. n \in Int /\ m \in Int
      OBVIOUS
    <3>2. Min({n, m}) \in {n, m} /\ Min({n, m}) <= n /\ Min({n, m}) <= m
      BY <3>1, MinOfTwo
    <3>3. Min({n, m}) = n
      BY <1>15, <3>2
    <3> QED
      BY <1>3, <3>3 DEF Prefix
  <2>6. SubSeq(ranked, 1, n) = [i \in 1 .. n |-> ranked[i]]
    BY <1>2, <1>3, <1>15
  <2>7. whole = [i \in 1 .. n |-> ranked[i]]
    <3>1. whole = [i \in 1 .. n |-> whole[i]]
      BY <1>13 DEF FirstRanked
    <3> QED
      BY <2>2, <3>1
  <2> QED
    BY <1>1, <1>3, <1>5, <1>13, <1>15, <2>4, <2>5, <2>6, <2>7
<1>16. CASE ~(m >= n)
  <2>1. n \in 1 .. n /\ ~(n <= m)
    BY <1>3, <1>16
  <2>2. None \in ToSet(whole)
    BY <1>14, <2>1 DEF ToSet
  <2>3. GroupOf(whole) = <<>>
    BY <2>2 DEF GroupOf
  <2> QED
    BY <1>1, <1>3, <1>5, <1>13, <1>16, <2>3
<1> QED
  BY <1>15, <1>16

-----------------------------------------------------------------------------
(* Packages                                                                *)

\* Records of files, over any identifiers, paths, digests and package paths.
Recs(I, P, H, Q) ==
  [id : I, conservative : BOOLEAN, reason : STRING, status : STRING, path : P, sha : H, package : Q]
\* Plans under construction.
Plans(A) == [kept : Seq(A), all : SUBSET A]
\* The states of the fold, one for each prefix of the records.
PlannedUp(g, sorted, n, A) ==
  /\ g \in [0 .. n -> Plans(A)] /\ g[0] = [kept |-> <<>>, all |-> {}]
  /\ \A i \in 1 .. n : g[i] = AddRecord(g[i - 1], sorted[i])

\* Adding a record gives a plan.
LEMMA AddType ==
  ASSUME NEW I, NEW P, NEW H, NEW Q, NEW A, A = Recs(I, P, H, Q), NEW plan \in Plans(A), NEW r \in A
  PROVE  AddRecord(plan, r) \in Plans(A)
<1>1. PICK same : same = {x \in ToSet(plan.kept) : x.sha = r.sha}
  OBVIOUS
<1>2. plan.kept \in Seq(A) /\ plan.all \in SUBSET A
  BY DEF Plans
<1>3. CASE same = {}
  <2>1. AddRecord(plan, r) = [kept |-> Append(plan.kept, r), all |-> plan.all \cup {r}]
    BY <1>1, <1>3 DEF AddRecord
  <2>2. Append(plan.kept, r) \in Seq(A) /\ plan.all \cup {r} \in SUBSET A
    BY <1>2
  <2> QED
    BY <2>1, <2>2 DEF Plans
<1>4. CASE same # {}
  <2>1. PICK x \in same : x = CHOOSE y \in same : TRUE
    BY <1>4
  <2>2. x \in A
    BY <1>1, <1>2 DEF ToSet
  <2>3. PICK q : q = x.package
    OBVIOUS
  <2>4. q \in Q
    BY <2>2, <2>3 DEF Recs
  <2>5. [r EXCEPT !.package = q] \in A
    BY <2>4 DEF Recs
  <2>6. AddRecord(plan, r) = [kept |-> plan.kept, all |-> plan.all \cup {[r EXCEPT !.package = q]}]
    BY <1>1, <1>4, <2>1, <2>3 DEF AddRecord
  <2>7. plan.all \cup {[r EXCEPT !.package = q]} \in SUBSET A
    BY <1>2, <2>5
  <2> QED
    BY <1>2, <2>6, <2>7 DEF Plans
<1> QED
  BY <1>3, <1>4

\* Deduplication is a recursion over the prefixes of the records.
LEMMA PlanningRuns ==
  ASSUME NEW I, NEW P, NEW H, NEW Q, NEW A, A = Recs(I, P, H, Q), NEW sorted \in Seq(A)
  PROVE  \E g : PlannedUp(g, sorted, Len(sorted), A) /\ Deduplicate(sorted) = g[Len(sorted)]
<1>1. PICK n \in Nat : n = Len(sorted) /\ DOMAIN sorted = 1 .. n
  OBVIOUS
<1>2. PICK V, e : V = Plans(A) /\ e = [kept |-> <<>>, all |-> {}]
  OBVIOUS
<1>3. PICK D : D = [i \in 1 .. n |-> [v \in V |-> AddRecord(v, sorted[i])]]
  OBVIOUS
<1>4. D \in [1 .. n -> [V -> V]] /\ e \in V
  <2>1. ASSUME NEW i \in 1 .. n, NEW v \in V PROVE AddRecord(v, sorted[i]) \in V
    <3>1. PICK r \in A : r = sorted[i]
      BY <1>1
    <3> QED
      BY <1>2, <3>1, AddType
  <2>2. \A i \in 1 .. n : [v \in V |-> AddRecord(v, sorted[i])] \in [V -> V]
    BY <2>1
  <2>3. <<>> \in Seq(A) /\ {} \in SUBSET A
    OBVIOUS
  <2>4. e \in V
    BY <1>2, <2>3 DEF Plans
  <2> QED
    BY <1>3, <2>2, <2>4
<1> DEFINE Iterates(g) ==
             g = [s \in SUBSET DOMAIN sorted |->
                    IF s = {} THEN e ELSE AddRecord(g[s \ {Max(s)}], sorted[Max(s)])]
           iter == CHOOSE g : Iterates(g)
<1>5. \E g : Iterates(g)
  <2>2. PICK g \in [SUBSET (1 .. n) -> V] : FoldEquation(D, e, n, g)
    BY <1>4, FoldExists
  <2>3. ASSUME NEW s \in SUBSET (1 .. n)
        PROVE  g[s] = IF s = {} THEN e ELSE AddRecord(g[s \ {Max(s)}], sorted[Max(s)])
    <3>1. g[s] = FoldStep(D, e, g, s)
      BY <2>2 DEF FoldEquation
    <3>2. CASE s = {}
      BY <3>1, <3>2 DEF FoldStep
    <3>3. CASE s # {}
      <4>1. Max(s) \in 1 .. n /\ s \ {Max(s)} \in SUBSET (1 .. n)
        BY <3>3, MaxOfIndices
      <4>2. PICK x \in 1 .. n, t \in SUBSET (1 .. n) : x = Max(s) /\ t = s \ {Max(s)}
        BY <4>1
      <4>3. D[x][g[t]] = AddRecord(g[t], sorted[x])
        BY <1>3
      <4> QED
        BY <3>1, <3>3, <4>2, <4>3 DEF FoldStep
    <3> QED
      BY <3>2, <3>3
  <2>4. Iterates(g)
    BY <1>1, <2>3
  <2> HIDE DEF Iterates
  <2> QED
    BY <2>4
<1>6. Iterates(iter)
  <2> HIDE DEF Iterates
  <2> QED
    BY <1>5
<1>7. Deduplicate(sorted) = iter[DOMAIN sorted]
  BY <1>2, Zenon DEF Deduplicate, FoldLeft, MapThenFoldSet
<1> HIDE DEF iter
<1>8. PICK g : g = [i \in 0 .. n |-> iter[1 .. i]]
  OBVIOUS
<1>9. iter[{}] = e
  BY <1>6
<1>10. g[0] = e
  <2>1. 1 .. 0 = {} /\ 0 \in 0 .. n
    OBVIOUS
  <2> QED
    BY <1>8, <1>9, <2>1
<1>11. ASSUME NEW i \in 1 .. n PROVE g[i] = AddRecord(g[i - 1], sorted[i])
  <2>1. i \in Nat /\ i # 0 /\ i \in 0 .. n /\ i - 1 \in 0 .. n
    OBVIOUS
  <2>2. PICK s, t : s = 1 .. i /\ t = 1 .. i - 1
    OBVIOUS
  <2>3. Max(s) = i /\ s \ {i} = t
    BY <2>1, <2>2, PrefixSets
  <2>4. s \in SUBSET DOMAIN sorted /\ s # {}
    <3>1. i \in s /\ \A y \in s : y \in 1 .. n
      BY <2>1, <2>2
    <3> QED
      BY <1>1, <3>1
  <2>5. iter[s] = AddRecord(iter[s \ {Max(s)}], sorted[Max(s)])
    BY <1>6, <2>4
  <2> QED
    BY <1>8, <2>1, <2>2, <2>3, <2>5
<1>12. g \in [0 .. n -> V]
  <2> DEFINE N == {i \in Nat : i <= n => g[i] \in V}
  <2>1. N \in SUBSET Nat /\ 0 \in N
    BY <1>4, <1>10
  <2>2. ASSUME NEW i \in N PROVE i + 1 \in N
    <3>1. SUFFICES ASSUME i + 1 <= n PROVE g[i + 1] \in V
      OBVIOUS
    <3>2. PICK j \in 1 .. n : j = i + 1
      BY <3>1
    <3>3. j - 1 = i /\ g[i] \in V /\ sorted[j] \in A
      BY <1>1, <3>1, <3>2
    <3>4. AddRecord(g[i], sorted[j]) \in V
      BY <1>2, <3>3, AddType
    <3> QED
      BY <1>11, <3>2, <3>3, <3>4
  <2> HIDE DEF N
  <2>3. N = Nat
    BY <2>1, <2>2, Induction
  <2>4. \A i \in 0 .. n : g[i] \in V
    BY <2>3 DEF N
  <2> QED
    BY <1>8, <2>4
<1>13. g[n] = iter[DOMAIN sorted]
  BY <1>1, <1>8
<1> QED
  BY <1>1, <1>2, <1>7, <1>10, <1>11, <1>12, <1>13 DEF PlannedUp

\* What a plan says of the first i records.
Represents(r, q) == r.id = q.id /\ r.sha = q.sha /\ r.status = q.status
\* A plan accounts for the first i records: what is kept is one of them,
\* kept once for each content; every record is represented, under the package
\* path of the kept one with its content.
Accounts(kept, m, all, sorted, i) ==
  /\ \A a \in 1 .. m : \E k \in 1 .. i : kept[a] = sorted[k]
  /\ \A a, b \in 1 .. m : kept[a].sha = kept[b].sha => a = b
  /\ \A k \in 1 .. i : \E r \in all : Represents(r, sorted[k])
  /\ \A r \in all : \E k \in 1 .. i : Represents(r, sorted[k])
  /\ \A r \in all : \E a \in 1 .. m : kept[a].sha = r.sha /\ kept[a].package = r.package
PlannedWell(plan, sorted, i) == Accounts(plan.kept, Len(plan.kept), plan.all, sorted, i)

\* One more record is accounted for.
LEMMA AddKeeps ==
  ASSUME NEW I, NEW P, NEW H, NEW Q, NEW A, A = Recs(I, P, H, Q), NEW sorted \in Seq(A),
         NEW i \in 1 .. Len(sorted), NEW plan \in Plans(A), PlannedWell(plan, sorted, i - 1)
  PROVE  PlannedWell(AddRecord(plan, sorted[i]), sorted, i)
<1>1. PICK r \in A : r = sorted[i]
  OBVIOUS
<1>2. PICK kept, all, m : kept = plan.kept /\ all = plan.all /\ m = Len(kept)
  OBVIOUS
<1>3. kept \in Seq(A) /\ all \in SUBSET A /\ m \in Nat /\ DOMAIN kept = 1 .. m
  BY <1>2 DEF Plans
<1>4. PICK same : same = {x \in ToSet(plan.kept) : x.sha = r.sha}
  OBVIOUS
<1>5. i \in Nat /\ i - 1 \in Nat /\ (\A k \in 1 .. i - 1 : k \in 1 .. i) /\ i \in 1 .. i
  OBVIOUS
<1>5a. \A k \in 1 .. i : k \in 1 .. i - 1 \/ k = i
  OBVIOUS
<1>6. /\ \A a \in 1 .. m : \E k \in 1 .. i - 1 : kept[a] = sorted[k]
      /\ \A a, b \in 1 .. m : kept[a].sha = kept[b].sha => a = b
      /\ \A k \in 1 .. i - 1 : \E q \in all : Represents(q, sorted[k])
      /\ \A q \in all : \E k \in 1 .. i - 1 : Represents(q, sorted[k])
      /\ \A q \in all : \E a \in 1 .. m : kept[a].sha = q.sha /\ kept[a].package = q.package
  BY <1>2, Zenon DEF PlannedWell, Accounts
<1>7. CASE same = {}
  <2>1. PICK new : new = AddRecord(plan, sorted[i])
    OBVIOUS
  <2>2. new = [kept |-> Append(kept, r), all |-> all \cup {r}]
    BY <1>1, <1>2, <1>4, <1>7, <2>1 DEF AddRecord
  <2>3. PICK longer, more : longer = Append(kept, r) /\ more = all \cup {r}
    OBVIOUS
  <2>4. new.kept = longer /\ new.all = more
    BY <2>2, <2>3
  <2>5. /\ Len(longer) = m + 1 /\ longer[m + 1] = r /\ \A a \in 1 .. m : longer[a] = kept[a]
    BY <1>2, <1>3, <2>3
  <2>6. \A a \in 1 .. m + 1 : a \in 1 .. m \/ a = m + 1
    BY <1>3
  <2>6a. m + 1 \in 1 .. m + 1 /\ \A a \in 1 .. m : a \in 1 .. m + 1
    BY <1>3
  <2>7. ASSUME NEW a \in 1 .. m PROVE kept[a].sha # r.sha
    <3>1. kept[a] \in ToSet(plan.kept)
      BY <1>2, <1>3 DEF ToSet
    <3> QED
      BY <1>4, <1>7, <3>1
  <2>8. \A a \in 1 .. m + 1 : \E k \in 1 .. i : longer[a] = sorted[k]
    <3>1. ASSUME NEW a \in 1 .. m PROVE \E k \in 1 .. i : longer[a] = sorted[k]
      <4>1. PICK k \in 1 .. i - 1 : kept[a] = sorted[k]
        BY <1>6, Zenon
      <4> QED
        BY <1>5, <2>5, <4>1, Zenon
    <3>2. longer[m + 1] = sorted[i]
      BY <1>1, <2>5
    <3> QED
      BY <1>5, <2>6, <3>1, <3>2, Zenon
  <2>9. ASSUME NEW a \in 1 .. m + 1, NEW b \in 1 .. m + 1, longer[a].sha = longer[b].sha PROVE a = b
    <3>1. CASE a \in 1 .. m /\ b \in 1 .. m
      BY <1>6, <2>5, <2>9, <3>1, Zenon
    <3>2. CASE a = m + 1 /\ b \in 1 .. m
      BY <2>5, <2>7, <2>9, <3>2, Zenon
    <3>3. CASE b = m + 1 /\ a \in 1 .. m
      BY <2>5, <2>7, <2>9, <3>3, Zenon
    <3> QED
      BY <2>6, <3>1, <3>2, <3>3, Zenon
  <2>10. Represents(r, sorted[i])
    BY <1>1 DEF Represents
  <2>11. \A k \in 1 .. i : \E q \in more : Represents(q, sorted[k])
    BY <1>5a, <1>6, <2>3, <2>10
  <2>12. \A q \in more : \E k \in 1 .. i : Represents(q, sorted[k])
    BY <1>5, <1>6, <2>3, <2>10
  <2>13. \A q \in more : \E a \in 1 .. m + 1 : longer[a].sha = q.sha /\ longer[a].package = q.package
    <3>1. ASSUME NEW q \in more
          PROVE  \E a \in 1 .. m + 1 : longer[a].sha = q.sha /\ longer[a].package = q.package
      <4>1. CASE q = r
        BY <2>5, <2>6a, <4>1
      <4>2. CASE q \in all
        <5>1. PICK a \in 1 .. m : kept[a].sha = q.sha /\ kept[a].package = q.package
          BY <1>6, <4>2
        <5> QED
          BY <2>5, <2>6a, <5>1
      <4> QED
        BY <2>3, <4>1, <4>2
    <3> QED
      BY <3>1
  <2>14. PlannedWell(new, sorted, i)
    <3>1. Accounts(longer, m + 1, more, sorted, i)
      BY <2>8, <2>9, <2>11, <2>12, <2>13, Zenon DEF Accounts
    <3> QED
      BY <2>4, <2>5, <3>1, Zenon DEF PlannedWell
  <2> QED
    BY <2>1, <2>14, Zenon
<1>8. CASE same # {}
  <2>1. PICK x \in same : x = CHOOSE y \in same : TRUE
    BY <1>8
  <2>2. PICK b \in 1 .. m : x = kept[b]
    BY <1>2, <1>3, <1>4 DEF ToSet
  <2>3. x.sha = r.sha /\ x \in A
    BY <1>3, <1>4, <2>2
  <2>4. PICK mapped : mapped = [r EXCEPT !.package = x.package]
    OBVIOUS
  <2>5. mapped.id = r.id /\ mapped.sha = r.sha /\ mapped.status = r.status /\ mapped.package = x.package
    BY <1>1, <2>4 DEF Recs
  <2>6. PICK new : new = AddRecord(plan, sorted[i])
    OBVIOUS
  <2>7. new = [kept |-> kept, all |-> all \cup {mapped}]
    BY <1>1, <1>2, <1>4, <1>8, <2>1, <2>4, <2>6 DEF AddRecord
  <2>8. PICK more : more = all \cup {mapped}
    OBVIOUS
  <2>9. new.kept = kept /\ new.all = more
    BY <2>7, <2>8
  <2>10. Represents(mapped, sorted[i])
    BY <1>1, <2>5 DEF Represents
  <2>11. \A k \in 1 .. i : \E q \in more : Represents(q, sorted[k])
    BY <1>5a, <1>6, <2>8, <2>10
  <2>12. \A q \in more : \E k \in 1 .. i : Represents(q, sorted[k])
    BY <1>5, <1>6, <2>8, <2>10
  <2>13. \A q \in more : \E a \in 1 .. m : kept[a].sha = q.sha /\ kept[a].package = q.package
    BY <1>6, <2>2, <2>3, <2>5, <2>8
  <2>14. \A a \in 1 .. m : \E k \in 1 .. i : kept[a] = sorted[k]
    BY <1>5, <1>6
  <2>15. PlannedWell(new, sorted, i)
    <3>1. Accounts(kept, m, more, sorted, i)
      BY <1>6, <2>11, <2>12, <2>13, <2>14, Zenon DEF Accounts
    <3> QED
      BY <1>2, <2>9, <3>1, Zenon DEF PlannedWell
  <2> QED
    BY <2>6, <2>15, Zenon
<1> QED
  BY <1>7, <1>8

\* Deduplication accounts for every record.
LEMMA DeduplicatedWell ==
  ASSUME NEW I, NEW P, NEW H, NEW Q, NEW A, A = Recs(I, P, H, Q), NEW sorted \in Seq(A)
  PROVE  Deduplicate(sorted) \in Plans(A) /\ PlannedWell(Deduplicate(sorted), sorted, Len(sorted))
<1>1. PICK n \in Nat : n = Len(sorted) /\ DOMAIN sorted = 1 .. n
  OBVIOUS
<1>2. PICK g : PlannedUp(g, sorted, n, A) /\ Deduplicate(sorted) = g[n]
  BY <1>1, PlanningRuns
<1> DEFINE N == {i \in Nat : i <= n => PlannedWell(g[i], sorted, i)}
<1>3. N \in SUBSET Nat
  OBVIOUS
<1>4. PlannedWell(g[0], sorted, 0)
  <2>1. g[0].kept = <<>> /\ g[0].all = {} /\ Len(<<>>) = 0 /\ 1 .. 0 = {}
    BY <1>2 DEF PlannedUp
  <2> QED
    BY <2>1 DEF PlannedWell, Accounts
<1>5. 0 \in N
  BY <1>4
<1>6. ASSUME NEW i \in N PROVE i + 1 \in N
  <2>1. SUFFICES ASSUME i + 1 <= n PROVE PlannedWell(g[i + 1], sorted, i + 1)
    OBVIOUS
  <2>2. PICK j \in 1 .. n : j = i + 1 /\ j - 1 = i /\ i \in 0 .. n
    BY <2>1
  <2>3. PICK plan \in Plans(A) : plan = g[j - 1]
    BY <1>2, <2>2 DEF PlannedUp
  <2>4. PlannedWell(plan, sorted, j - 1) /\ g[j] = AddRecord(plan, sorted[j])
    BY <1>2, <2>1, <2>2, <2>3 DEF PlannedUp
  <2>5. j \in 1 .. Len(sorted)
    BY <1>1
  <2>6. PlannedWell(AddRecord(plan, sorted[j]), sorted, j)
    BY <2>4, <2>5, AddKeeps
  <2> QED
    BY <2>2, <2>4, <2>6
<1> HIDE DEF N
<1>7. N = Nat
  BY <1>3, <1>5, <1>6, Induction
<1>8. PlannedWell(g[n], sorted, n)
  BY <1>7 DEF N
<1>9. g[n] \in Plans(A)
  BY <1>2 DEF PlannedUp
<1> QED
  BY <1>1, <1>2, <1>8, <1>9

\* Names have places in the alphabet.
LEMMA PlaceOrders ==
  ASSUME NEW x \in ToSet(Names)
  PROVE  Place(x) \in Int /\ Names[Place(x)] = x
<1>1. DOMAIN Names = 1 .. 6
  BY DEF Names
<1>2. \E i \in DOMAIN Names : Names[i] = x
  BY DEF ToSet
<1>3. Place(x) \in DOMAIN Names /\ Names[Place(x)] = x
  BY <1>2, Zenon DEF Place
<1> QED
  BY <1>1, <1>3

\* A finite set listed is that set.
LEMMA SetListed ==
  ASSUME NEW S, IsFiniteSet(S)
  PROVE  SetToSeq(S) \in Seq(S) /\ ToSet(SetToSeq(S)) = S
<1>1. PICK n \in Nat : n = Cardinality(S)
  BY FS_CardinalityType
<1>2. PICK k \in Nat : ExistsBijection(1 .. k, S)
  BY FS_NatBijection
<1>3. k = n
  BY <1>1, <1>2, FS_CountingElements
<1>4. PICK f : f \in Bijection(1 .. n, S)
  BY <1>2, <1>3 DEF ExistsBijection
<1>5. f \in [1 .. n -> S] /\ IsInjective(f)
  BY <1>4 DEF Bijection, Injection, IsInjective
<1>6. PICK s : s = SetToSeq(S)
  OBVIOUS
<1>7. s \in [1 .. n -> S] /\ IsInjective(s)
  <2>1. \E h \in [1 .. Cardinality(S) -> S] : IsInjective(h)
    BY <1>1, <1>5
  <2> QED
    BY <1>1, <1>6, <2>1, Zenon DEF SetToSeq
<1>8. s \in Injection(1 .. n, S)
  BY <1>7 DEF IsInjective, Injection
<1>9. IsFiniteSet(1 .. n) /\ Cardinality(1 .. n) = n
  BY FS_Interval
<1>10. s \in Surjection(1 .. n, S)
  BY <1>1, <1>8, <1>9, FS_Injection
<1>11. \A x \in S : \E i \in 1 .. n : s[i] = x
  BY <1>10 DEF Surjection
<1>12. ToSet(s) = S
  BY <1>7, <1>11 DEF ToSet
<1>13. s \in Seq(S)
  BY <1>7
<1> QED
  BY <1>6, <1>12, <1>13

\* Identifiers are sorted by a weak order.
LEMMA IdsOrder ==
  ASSUME NEW n \in Nat, NEW listed,
         \A i \in 1 .. n : listed[i].id[1] \in ToSet(Names) /\ listed[i].id[2] \in ToSet(Names)
  PROVE  LET R == {p \in (1 .. n) \X (1 .. n) : IdBefore(listed[p[1]], listed[p[2]])}
         IN WeakOrder(R, n)
<1> DEFINE R == {p \in (1 .. n) \X (1 .. n) : IdBefore(listed[p[1]], listed[p[2]])}
           A(i) == Place(listed[i].id[1])
           B(i) == Place(listed[i].id[2])
           C(i) == listed[i].id[1]
           Less(i, j) == A(i) < A(j) \/ (C(i) = C(j) /\ B(i) < B(j))
<1>1. \A i \in 1 .. n : A(i) \in Int /\ B(i) \in Int /\ Names[A(i)] = C(i)
  BY PlaceOrders
<1>2. \A i, j \in 1 .. n : <<i, j>> \in R <=> Less(i, j)
  BY DEF IdBefore
<1>2a. \A i, j \in 1 .. n : C(i) = C(j) <=> A(i) = A(j)
  <2>1. \A i, j \in 1 .. n : C(i) = C(j) => A(i) = A(j)
    OBVIOUS
  <2> HIDE DEF A, B, C, R
  <2> QED
    BY <1>1, <2>1
<1> HIDE DEF A, B, C, R
<1>3. \A i, j \in 1 .. n : Less(i, j) => ~Less(j, i)
  BY <1>1, <1>2a
<1>4. ASSUME NEW i \in 1 .. n, NEW j \in 1 .. n, NEW k \in 1 .. n, ~Less(i, j), ~Less(j, k)
      PROVE  ~Less(i, k)
  BY <1>1, <1>2a, <1>4
<1> HIDE DEF Less
<1>5. WeakOrder(R, n)
  BY <1>2, <1>3, <1>4 DEF WeakOrder
<1> QED
  BY <1>5 DEF R

\* PlanAccountsForAll: for every finite set of records the plan represents
\* each by one of the same identifier, content and status and invents none;
\* it keeps one file for each content, and every resolved record has the
\* package path of the kept file with its content (create_plan).
THEOREM PlanAccountsForAll ==
  ASSUME NEW I, NEW P, NEW H, NEW Q, NEW records \in SUBSET Recs(I, P, H, Q), IsFiniteSet(records),
         \A r \in records : r.status = "resolved" => r.id[1] \in ToSet(Names) /\ r.id[2] \in ToSet(Names)
  PROVE  LET plan == CreatePlan(records)
         IN /\ \A q \in records : \E r \in plan.all : Represents(r, q)
            /\ \A r \in plan.all : \E q \in records : Represents(r, q)
            /\ \A x \in plan.kept : x \in records /\ x.status = "resolved"
            /\ \A x, y \in plan.kept : x.sha = y.sha => x = y
            /\ \A r \in plan.all : r.status = "resolved" =>
                 \E x \in plan.kept : x.sha = r.sha /\ x.package = r.package
<1>1. PICK A : A = Recs(I, P, H, Q)
  OBVIOUS
<1> DEFINE resolved == {r \in records : r.status = "resolved"}
           listed == SetToSeq(resolved)
<1>2. \A r : r \in resolved <=> r \in records /\ r.status = "resolved"
  OBVIOUS
<1>4. SetToSeq(resolved) = listed
  OBVIOUS
<1> HIDE DEF resolved, listed
<1>3. IsFiniteSet(resolved) /\ resolved \in SUBSET A
  BY <1>1, <1>2, FS_Subset
<1>5. listed \in Seq(resolved) /\ ToSet(listed) = resolved
  BY <1>3, <1>4, SetListed
<1>6. PICK n \in Nat : n = Len(listed) /\ DOMAIN listed = 1 .. n
  BY <1>5
<1>7. (\A i \in 1 .. n : listed[i] \in resolved) /\ \A r \in resolved : \E i \in 1 .. n : listed[i] = r
  BY <1>5, <1>6 DEF ToSet
<1>8. PICK R : R = {p \in (1 .. n) \X (1 .. n) : IdBefore(listed[p[1]], listed[p[2]])}
  OBVIOUS
<1>9. WeakOrder(R, n)
  <2>1. \A i \in 1 .. n : listed[i].id[1] \in ToSet(Names) /\ listed[i].id[2] \in ToSet(Names)
    BY <1>2, <1>7
  <2> QED
    BY <1>8, <2>1, IdsOrder
<1>10. PICK order : order = Ranked(n, R)
  OBVIOUS
<1>11. PermutationOf(order, n)
  BY <1>9, <1>10, RankedSorts
<1>12. DOMAIN order = 1 .. n /\ (\A k \in 1 .. n : order[k] \in 1 .. n)
       /\ \A i \in 1 .. n : \E k \in 1 .. n : order[k] = i
  BY <1>11 DEF PermutationOf
<1>13. PICK sorted : sorted = [k \in 1 .. n |-> listed[order[k]]]
  OBVIOUS
<1>14. sorted \in Seq(A) /\ Len(sorted) = n /\ \A k \in 1 .. n : sorted[k] \in resolved
  <2>1. \A k \in 1 .. n : listed[order[k]] \in resolved
    BY <1>7, <1>12
  <2>2. sorted \in Seq(resolved) /\ Len(sorted) = n
    BY <1>13, <2>1
  <2> QED
    BY <1>3, <1>13, <2>1, <2>2
<1>15. ASSUME NEW r \in resolved PROVE \E k \in 1 .. n : sorted[k] = r
  <2>1. PICK i \in 1 .. n : listed[i] = r
    BY <1>7
  <2>2. PICK k \in 1 .. n : order[k] = i
    BY <1>12
  <2> QED
    BY <1>13, <2>1, <2>2
<1>16. Pick(listed, order) = sorted
  BY <1>12, <1>13 DEF Pick
<1>17. Order(Len(listed), LAMBDA i, j : IdBefore(listed[i], listed[j])) = order
  BY <1>6, <1>8, <1>10 DEF Order
<1>18. PICK made : made = Deduplicate(sorted)
  OBVIOUS
<1>19. made \in Plans(A) /\ PlannedWell(made, sorted, n)
  BY <1>1, <1>14, <1>18, DeduplicatedWell
<1>20. PICK kept, all, m : kept = made.kept /\ all = made.all /\ m = Len(kept)
  OBVIOUS
<1>21. kept \in Seq(A) /\ DOMAIN kept = 1 .. m
  BY <1>19, <1>20 DEF Plans
<1>22. Accounts(kept, m, all, sorted, n)
  BY <1>19, <1>20, Zenon DEF PlannedWell
<1>23. PICK plan : plan = CreatePlan(records)
  OBVIOUS
<1>24. plan = [all |-> all \cup (records \ resolved), kept |-> ToSet(kept),
               missing |-> {r \in records : r.status = "missing"}]
  <2>1. Deduplicate(Pick(listed, Order(Len(listed), LAMBDA i, j : IdBefore(listed[i], listed[j])))) = made
    BY <1>16, <1>17, <1>18, Zenon
  <2> QED
    BY <1>20, <1>23, <2>1, Zenon DEF CreatePlan, resolved, listed
<1>25. plan.all = all \cup (records \ resolved) /\ plan.kept = ToSet(kept)
  BY <1>24
<1>26. \A x : x \in plan.kept <=> \E a \in 1 .. m : x = kept[a]
  BY <1>21, <1>25 DEF ToSet
<1>27. ASSUME NEW q \in records PROVE \E r \in plan.all : Represents(r, q)
  <2>1. CASE q \in resolved
    <3>1. PICK k \in 1 .. n : sorted[k] = q
      BY <1>15, <2>1
    <3>2. PICK r \in all : Represents(r, sorted[k])
      BY <1>22 DEF Accounts
    <3> QED
      BY <1>25, <3>1, <3>2
  <2>2. CASE q \notin resolved
    <3>1. q \in plan.all
      BY <1>25, <2>2
    <3> QED
      BY <3>1 DEF Represents
  <2> QED
    BY <2>1, <2>2
<1>28. ASSUME NEW r \in all PROVE \E q \in resolved : Represents(r, q)
  <2>1. PICK k \in 1 .. n : Represents(r, sorted[k])
    BY <1>22 DEF Accounts
  <2> QED
    BY <1>14, <2>1
<1>29. ASSUME NEW r \in plan.all PROVE \E q \in records : Represents(r, q)
  <2>1. CASE r \in all
    BY <1>2, <1>28, <2>1
  <2>2. CASE r \in records
    BY <2>2 DEF Represents
  <2> QED
    BY <1>25, <2>1, <2>2
<1>30. ASSUME NEW x \in plan.kept PROVE x \in records /\ x.status = "resolved"
  <2>1. PICK a \in 1 .. m : x = kept[a]
    BY <1>26
  <2>2. PICK k \in 1 .. n : kept[a] = sorted[k]
    BY <1>22 DEF Accounts
  <2>3. x \in resolved
    BY <1>14, <2>1, <2>2
  <2> QED
    BY <1>2, <2>3
<1>31. ASSUME NEW x \in plan.kept, NEW y \in plan.kept, x.sha = y.sha PROVE x = y
  <2>1. PICK a \in 1 .. m, b \in 1 .. m : x = kept[a] /\ y = kept[b]
    BY <1>26
  <2>2. a = b
    BY <1>22, <1>31, <2>1, Zenon DEF Accounts
  <2> QED
    BY <2>1, <2>2
<1>32. ASSUME NEW r \in plan.all, r.status = "resolved"
       PROVE  \E x \in plan.kept : x.sha = r.sha /\ x.package = r.package
  <2>1. r \in all
    BY <1>2, <1>25, <1>32
  <2>2. PICK a \in 1 .. m : kept[a].sha = r.sha /\ kept[a].package = r.package
    BY <1>22, <2>1, Zenon DEF Accounts
  <2>3. kept[a] \in plan.kept
    BY <1>26
  <2> QED
    BY <2>2, <2>3
<1> QED
  BY <1>23, <1>27, <1>29, <1>30, <1>31, <1>32, Zenon

\* Publication replaces the package only by one that was validated, and the
\* old one is lost only to it, whichever call fails.
LEMMA PublishedOnlyValid ==
  ASSUME NEW plan, NEW now, NEW old, NEW env
  PROVE  LET new == BuildPackage(plan, now, env)
             result == BuildAndValidate(plan, now, old, env)
         IN /\ result.final \in {old, NoPackage, new}
            /\ result.final \notin {old, NoPackage} => Validate(plan, new, env)
            /\ result.outcome = "report" => result.final = new /\ Validate(plan, new, env)
            /\ old # NoPackage => old \in {result.final, result.backup} \/ result.final = new
<1>1. PICK new, result : new = BuildPackage(plan, now, env) /\ result = BuildAndValidate(plan, now, old, env)
  OBVIOUS
<1>2. \A f, b, o : LET t == Result(f, b, o) IN t.final = f /\ t.backup = b /\ t.outcome = o
  BY DEF Result
<1>3. CASE BuildFails(env) \/ ~Validate(plan, new, env)
  <2>1. result = Result(old, NoPackage, "raised")
    BY <1>1, <1>3, Zenon DEF BuildAndValidate
  <2> QED
    BY <1>1, <1>2, <2>1
<1>4. CASE ~BuildFails(env) /\ Validate(plan, new, env)
  <2>1. result = Publish(new, old, env)
    BY <1>1, <1>4, Zenon DEF BuildAndValidate
  <2>2. \/ result = Result(old, NoPackage, "raised") \/ result = Result(NoPackage, old, "raised")
        \/ result = Result(new, old, "raised") \/ result = Result(new, NoPackage, "report")
    BY <2>1, Zenon DEF Publish
  <2> QED
    BY <1>1, <1>2, <1>4, <2>2
<1> QED
  BY <1>3, <1>4

\* PublishedPackageWhole: a package that is published or reported holds the
\* planned content of every resolved record, duplicates included, whatever
\* happened to the files between planning and copying; and the package
\* published before is still there, or set aside, unless the new one has
\* taken its place (build_and_validate, validate, validate_manifest).
THEOREM PublishedPackageWhole ==
  ASSUME NEW I, NEW P, NEW H, NEW Q, NEW records \in SUBSET Recs(I, P, H, Q), IsFiniteSet(records),
         \A r \in records : r.status = "resolved" => r.id[1] \in ToSet(Names) /\ r.id[2] \in ToSet(Names),
         NEW now, NEW old, NEW env
  PROVE  LET plan == CreatePlan(records)
             new == BuildPackage(plan, now, env)
             result == BuildAndValidate(plan, now, old, env)
         IN /\ result.final \notin {old, NoPackage} \/ result.outcome = "report" =>
                 /\ result.final = new
                 /\ \A r \in plan.all : r.status = "resolved" => Holds(result.final, r)
                 /\ ValidateManifest(result.final)
            /\ old # NoPackage => old \in {result.final, result.backup} \/ result.final = new
<1>1. PICK plan : plan = CreatePlan(records)
  OBVIOUS
<1>2. PICK new, result : new = BuildPackage(plan, now, env) /\ result = BuildAndValidate(plan, now, old, env)
  OBVIOUS
<1>3. /\ result.final \in {old, NoPackage, new}
      /\ result.final \notin {old, NoPackage} => Validate(plan, new, env)
      /\ result.outcome = "report" => result.final = new /\ Validate(plan, new, env)
      /\ old # NoPackage => old \in {result.final, result.backup} \/ result.final = new
  BY <1>2, PublishedOnlyValid
<1>4. \A r \in plan.all : r.status = "resolved" =>
        \E x \in plan.kept : x.sha = r.sha /\ x.package = r.package
  BY <1>1, PlanAccountsForAll
<1>5. ASSUME result.final \notin {old, NoPackage} \/ result.outcome = "report"
      PROVE  /\ result.final = new
             /\ \A r \in plan.all : r.status = "resolved" => Holds(result.final, r)
             /\ ValidateManifest(result.final)
  <2>1. result.final = new /\ Validate(plan, new, env)
    BY <1>3, <1>5
  <2>2. ASSUME NEW r \in plan.all, r.status = "resolved" PROVE Holds(new, r)
    <3>1. PICK x \in plan.kept : x.sha = r.sha /\ x.package = r.package
      BY <1>4, <2>2
    <3>2. Holds(new, x)
      BY <2>1 DEF Validate
    <3> QED
      BY <3>1, <3>2 DEF Holds
  <2>3. new.manifest = plan.all
    BY <1>2 DEF BuildPackage
  <2>4. ValidateManifest(new)
    <3> HIDE DEF Holds
    <3> QED
      BY <2>2, <2>3, Zenon DEF ValidateManifest
  <2> QED
    BY <2>1, <2>2, <2>4
<1> QED
  BY <1>1, <1>2, <1>3, <1>5, Zenon

-----------------------------------------------------------------------------
(* The queue, trial by trial                                               *)

\* Naming a record changes none of its other fields.
LEMMA NamedFields ==
  ASSUME NEW r, NEW i
  PROVE  /\ Named(r, i).id = i /\ DOMAIN Named(r, i) = DOMAIN r \cup {"id"}
         /\ \A f \in DOMAIN r : f # "id" => Named(r, i)[f] = r[f]
  BY DEF Named

\* Of two that differ in age one goes before the other.
LEMMA QueuedEitherWay ==
  ASSUME NEW v \in Waiter, NEW w \in Waiter, NEW now \in Int, v.submitted < w.submitted,
         ~QueuedBefore(w, v, now)
  PROVE  QueuedBefore(v, w, now)
<1>1. PICK a \in Int, b \in Int : a = v.submitted /\ b = w.submitted /\ a < b
  BY DEF Waiter
<1>2. PICK e \in Int, f \in Int : e = EffectivePriority(v, now) /\ f = EffectivePriority(w, now)
  BY PriorityType
<1>3. PICK x, y : x = (now - a >= 10) /\ y = (now - b >= 10)
  OBVIOUS
<1>4. ~(\/ now - b >= 10 /\ ~(now - a >= 10)
        \/ now - b >= 10 /\ now - a >= 10 /\ b < a
        \/ ~(now - b >= 10) /\ ~(now - a >= 10) /\ (f > e \/ (f = e /\ b < a)))
  BY <1>1, <1>2 DEF QueuedBefore, Starved, StarvationMinutes
<1>5. \/ now - a >= 10 /\ ~(now - b >= 10)
      \/ now - a >= 10 /\ now - b >= 10 /\ a < b
      \/ ~(now - a >= 10) /\ ~(now - b >= 10) /\ (e > f \/ (e = f /\ a < b))
  BY <1>1, <1>4
<1> QED
  BY <1>1, <1>2, <1>5 DEF QueuedBefore, Starved, StarvationMinutes

\* The points for waiting x minutes.
AgePoints(x) == Min({1000, 100 * Max({0, x})})

\* They never fall.
LEMMA AgeCounts ==
  ASSUME NEW x \in Int, NEW y \in Int, x >= y
  PROVE  AgePoints(x) \in Int /\ AgePoints(y) \in Int /\ AgePoints(x) >= AgePoints(y)
<1>1. PICK z \in Int, m \in Int : z = 0 /\ m = 1000
  OBVIOUS
<1>2. PICK s \in Int, u \in Int : s = Max({z, x}) /\ u = Max({z, y}) /\ s >= u
  <2>1. /\ Max({z, x}) \in {z, x} /\ Max({z, x}) >= z /\ Max({z, x}) >= x
        /\ Max({z, y}) \in {z, y} /\ Max({z, y}) >= z /\ Max({z, y}) >= y
    BY MinOfTwo
  <2> QED
    BY <2>1
<1>3. PICK k \in Int, l \in Int : k = 100 * s /\ l = 100 * u /\ k >= l
  BY <1>2
<1>4. /\ Min({m, k}) \in {m, k} /\ Min({m, k}) <= m /\ Min({m, k}) <= k
      /\ Min({m, l}) \in {m, l} /\ Min({m, l}) <= m /\ Min({m, l}) <= l
  BY MinOfTwo
<1>5. Min({m, k}) \in Int /\ Min({m, l}) \in Int /\ Min({m, k}) >= Min({m, l})
  BY <1>3, <1>4
<1>6. AgePoints(x) = Min({m, k})
  BY <1>1, <1>2, <1>3 DEF AgePoints
<1>7. AgePoints(y) = Min({m, l})
  BY <1>1, <1>2, <1>3 DEF AgePoints
<1> QED
  BY <1>5, <1>6, <1>7, Zenon

\* Of two that differ in age only the older goes first.
LEMMA OlderFirst ==
  ASSUME NEW v \in Waiter, NEW w \in Waiter, NEW now \in Int, v.submitted < w.submitted,
         v.priority = w.priority, v.deadline = w.deadline, v.duration = w.duration
  PROVE  QueuedBefore(v, w, now)
<1>1. PICK a \in Int, b \in Int : a = v.submitted /\ b = w.submitted /\ a < b
  BY DEF Waiter
<1>2. PICK e \in Int, f \in Int : e = EffectivePriority(v, now) /\ f = EffectivePriority(w, now)
  BY PriorityType
<1>3. PICK d \in Int : d = DeadlineBonus(v, now)
  BY PriorityType
<1>4. d = DeadlineBonus(w, now)
  BY <1>3 DEF DeadlineBonus
<1>5. PICK x \in Int, y \in Int : x = now - a /\ y = now - b /\ x >= y
  BY <1>1
<1>6. PICK g \in Int, h \in Int : g = AgePoints(x) /\ h = AgePoints(y) /\ g >= h
  BY <1>5, AgeCounts
<1>7. PICK q \in Int : q = Min({100, v.priority})
  <2>1. PICK c \in Int, p \in Int : c = 100 /\ p = v.priority
    BY DEF Waiter
  <2>2. Min({c, p}) \in {c, p}
    BY MinOfTwo
  <2> QED
    BY <2>1, <2>2
<1>8. EffectivePriority(v, now) = 10 * Min({100, v.priority}) + AgePoints(now - v.submitted) + DeadlineBonus(v, now)
  BY Zenon DEF EffectivePriority, AgePoints
<1>9. EffectivePriority(w, now) = 10 * Min({100, w.priority}) + AgePoints(now - w.submitted) + DeadlineBonus(w, now)
  BY Zenon DEF EffectivePriority, AgePoints
<1>10. e = 10 * q + g + d
  BY <1>1, <1>2, <1>3, <1>5, <1>6, <1>7, <1>8, Zenon
<1>11. f = 10 * q + h + d
  BY <1>1, <1>2, <1>4, <1>5, <1>6, <1>7, <1>9, Zenon
<1>12. e >= f
  BY <1>6, <1>10, <1>11
<1> QED
  BY <1>1, <1>2, <1>12 DEF QueuedBefore, Starved, StarvationMinutes

\* Places in the queue follow the order of admission.
LEMMA PlacesFollow ==
  ASSUME NEW n \in Nat, NEW rows \in Seq(Waiter), Len(rows) = n, \A i \in 1 .. n : rows[i].id = i,
         NEW now \in Int, NEW i \in 1 .. n, NEW j \in 1 .. n, rows[i].submitted < rows[j].submitted
  PROVE  QueuePlace(rows, now)[i] < QueuePlace(rows, now)[j] <=> QueuedBefore(rows[i], rows[j], now)
<1>1. PICK snapshot : snapshot = QueueSnapshot(rows, now)
  OBVIOUS
<1>0. /\ \E order : /\ PermutationOf(order, Len(rows))
                    /\ snapshot = [k \in 1 .. Len(rows) |-> rows[order[k]]]
      /\ \A k, l \in DOMAIN snapshot : k < l => ~QueuedBefore(snapshot[l], snapshot[k], now)
  <2>1. Admission(snapshot, rows, now)
    BY <1>1, QueueInOrder
  <2> QED
    BY <2>1 DEF Admission
<1>2. PICK order : PermutationOf(order, n) /\ snapshot = [k \in 1 .. n |-> rows[order[k]]]
  BY <1>0
<1>3. \A k, l \in 1 .. n : k < l => ~QueuedBefore(snapshot[l], snapshot[k], now)
  BY <1>0, <1>2
<1>4. ASSUME NEW x \in 1 .. n
      PROVE  /\ QueuePlace(rows, now)[x] \in 1 .. n
             /\ snapshot[QueuePlace(rows, now)[x]] = rows[x]
  <2>1. PICK k \in 1 .. n : order[k] = x
    BY <1>2 DEF PermutationOf
  <2>2. snapshot[k].id = x
    BY <1>2, <2>1
  <2>3. PICK l : l = QueuePlace(rows, now)[x]
    OBVIOUS
  <2>4. l = CHOOSE y \in 1 .. n : snapshot[y].id = x
    BY <1>1, <2>3 DEF QueuePlace
  <2>5. l \in 1 .. n /\ snapshot[l].id = x
    BY <2>2, <2>4
  <2>6. order[l] \in 1 .. n /\ snapshot[l] = rows[order[l]]
    BY <1>2, <2>5 DEF PermutationOf
  <2>7. order[l] = x
    BY <2>5, <2>6
  <2> QED
    BY <2>3, <2>5, <2>6, <2>7
<1>5. PICK a \in 1 .. n, b \in 1 .. n :
        /\ a = QueuePlace(rows, now)[i] /\ b = QueuePlace(rows, now)[j]
        /\ snapshot[a] = rows[i] /\ snapshot[b] = rows[j]
  BY <1>4
<1>6. rows[i] \in Waiter /\ rows[j] \in Waiter
  OBVIOUS
<1>7. ASSUME a < b PROVE QueuedBefore(rows[i], rows[j], now)
  <2>1. ~QueuedBefore(rows[j], rows[i], now)
    BY <1>3, <1>5, <1>7
  <2> QED
    BY <1>6, <2>1, QueuedEitherWay
<1>8. ASSUME QueuedBefore(rows[i], rows[j], now) PROVE a < b
  <2>1. ~(b < a)
    BY <1>3, <1>5, <1>8
  <2>2. a # b
    <3>1. PICK x \in Int, y \in Int : x = rows[i].submitted /\ y = rows[j].submitted
      BY <1>6 DEF Waiter
    <3>2. x # y
      BY <3>1
    <3> QED
      BY <1>5, <3>1, <3>2, Zenon
  <2> QED
    BY <2>1, <2>2
<1> QED
  BY <1>5, <1>7, <1>8

\* Every trial of the queue is sound.
LEMMA QueueTrialSound ==
  ASSUME NEW t \in QueueTrial
  PROVE  QueueSound(t)
<1>1. PICK rows : rows = [i \in 1 .. 3 |-> Named(t.rows[i], i)]
  OBVIOUS
<1>2. t.now \in Int /\ t.now + 1 \in Int /\ \A i \in 1 .. 3 : t.rows[i] \in Waiting
  BY DEF QueueTrial
<1>3. ASSUME NEW i \in 1 .. 3
      PROVE  rows[i] \in Waiter /\ rows[i].id = i /\ rows[i].duration = 1
  <2>1. PICK r \in Waiting : r = t.rows[i]
    BY <1>2
  <2>2. DOMAIN r = {"priority", "submitted", "deadline", "duration"}
    BY DEF Waiting
  <2>3. /\ r.priority \in Int /\ r.submitted \in Int /\ r.deadline \in Int /\ r.duration = 1
    BY DEF Waiting, None
  <2>4. rows[i] = Named(r, i)
    BY <1>1, <2>1
  <2>5. PICK q : q = Named(r, i)
    OBVIOUS
  <2>6. q = [f \in {"priority", "submitted", "deadline", "duration", "id"} |-> IF f = "id" THEN i ELSE r[f]]
    BY <2>2, <2>5 DEF Named
  <2>7. q.priority = r.priority /\ q.submitted = r.submitted /\ q.deadline = r.deadline /\ q.duration = 1 /\ q.id = i
    BY <2>3, <2>6
  <2>8. q \in Waiter
    BY <2>3, <2>6, <2>7 DEF Waiter
  <2> QED
    BY <2>4, <2>5, <2>7, <2>8
<1>4. rows \in Seq(Waiter) /\ Len(rows) = 3 /\ DOMAIN rows = 1 .. 3
  BY <1>1, <1>3
<1>5. PICK m \in Nat : m = 3
  OBVIOUS
<1>6. ASSUME NEW i \in 1 .. 3, NEW j \in 1 .. 3, rows[i].submitted < rows[j].submitted, NEW now \in Int
      PROVE  QueuePlace(rows, now)[i] < QueuePlace(rows, now)[j] <=> QueuedBefore(rows[i], rows[j], now)
  <2>1. /\ rows \in Seq(Waiter) /\ Len(rows) = m /\ \A k \in 1 .. m : rows[k].id = k
        /\ i \in 1 .. m /\ j \in 1 .. m
    BY <1>3, <1>4, <1>5
  <2>2. QueuePlace(rows, now)[i] < QueuePlace(rows, now)[j] <=> QueuedBefore(rows[i], rows[j], now)
    BY <1>6, <2>1, PlacesFollow
  <2> QED
    BY <1>5, <2>2
<1>7. ASSUME NEW i \in 1 .. 3, NEW j \in 1 .. 3, rows[i].submitted < rows[j].submitted
      PROVE  LET now == QueuePlace(rows, t.now) next == QueuePlace(rows, t.now + 1)
             IN /\ Starved(rows[i], t.now) => now[i] < now[j]
                /\ rows[i].priority = rows[j].priority /\ rows[i].deadline = rows[j].deadline => now[i] < now[j]
                /\ now[i] < now[j] /\ rows[i].deadline = None /\ rows[j].deadline = None => next[i] < next[j]
  <2>1. PICK v \in Waiter, w \in Waiter, d \in Int : v = rows[i] /\ w = rows[j] /\ d = t.now
    BY <1>2, <1>3
  <2>2. v.submitted < w.submitted /\ v.duration = w.duration
    BY <1>3, <1>7, <2>1
  <2>3. Starved(v, d) => QueuedBefore(v, w, d)
    BY <2>2 DEF QueuedBefore, Starved
  <2>4. v.priority = w.priority /\ v.deadline = w.deadline => QueuedBefore(v, w, d)
    BY <2>2, OlderFirst
  <2>5. QueuedBefore(v, w, d) /\ v.deadline = None /\ w.deadline = None => QueuedBefore(v, w, d + 1)
    BY <2>2, AgingNeverReverses
  <2>6. QueuePlace(rows, d)[i] < QueuePlace(rows, d)[j] <=> QueuedBefore(v, w, d)
    BY <1>6, <1>7, <2>1
  <2>7. QueuePlace(rows, d + 1)[i] < QueuePlace(rows, d + 1)[j] <=> QueuedBefore(v, w, d + 1)
    BY <1>6, <1>7, <2>1
  <2> QED
    BY <2>1, <2>3, <2>4, <2>5, <2>6, <2>7
<1>8. ASSUME NEW v \in ToSet(rows), NEW w \in ToSet(rows), v.submitted < w.submitted
      PROVE  LET now == QueuePlace(rows, t.now) next == QueuePlace(rows, t.now + 1)
             IN /\ Starved(v, t.now) => now[v.id] < now[w.id]
                /\ v.priority = w.priority /\ v.deadline = w.deadline => now[v.id] < now[w.id]
                /\ now[v.id] < now[w.id] /\ v.deadline = None /\ w.deadline = None => next[v.id] < next[w.id]
  <2>1. PICK i \in 1 .. 3, j \in 1 .. 3 : v = rows[i] /\ w = rows[j]
    BY <1>4 DEF ToSet
  <2>2. v.id = i /\ w.id = j
    BY <1>3, <2>1
  <2> QED
    BY <1>7, <1>8, <2>1, <2>2
<1> QED
  <2>1. QueueKept(rows, t.now)
    BY <1>8 DEF QueueKept
  <2> QED
    BY <1>1, <2>1, Zenon DEF QueueSound

-----------------------------------------------------------------------------
(* Sizing, trial by trial                                                  *)

\* Every trial of the cluster's size is sound.
LEMMA SizingTrialSound ==
  ASSUME NEW t \in SizingTrial
  PROVE  SizingSound(t)
<1>1. /\ t.units \in Nat /\ t.overhead \in Nat /\ t.minUnits \in Nat \ {0} /\ t.partitionable \in BOOLEAN
      /\ t.limit \in {None} \cup (Nat \ {0}) /\ t.deadline \in {None} \cup Nat
      /\ t.transfers \in {<<0, 0, 0>>, <<0, Tick, 2 * Tick>>}
      /\ DOMAIN t = {"kind", "units", "overhead", "deadline", "minUnits", "limit", "partitionable", "speeds", "transfers"}
  BY DEF SizingTrial, None
<1>2. SizingRequest(t)
  BY <1>1 DEF SizingRequest
<1>0. PICK n \in 0 .. 3 : t.speeds \in [1 .. n -> {1, 2, 3}]
  BY DEF SizingTrial
<1>3. PICK speeds \in [1 .. n -> {1, 2, 3}] : speeds = t.speeds
  BY <1>0
<1>4. PICK W : W = [id : Nat, speed : Nat \ {0}, transfer : Nat]
  OBVIOUS
<1>5. \A w \in W : Runner(w)
  BY <1>4 DEF Runner
<1>6. PICK workers : workers = [i \in DOMAIN t.speeds |->
                                  [id |-> i, speed |-> t.speeds[i], transfer |-> t.transfers[i]]]
  OBVIOUS
<1>7. \A i \in 1 .. n : t.transfers[i] \in Nat
  BY <1>1 DEF Tick
<1>8. workers = [i \in 1 .. n |-> [id |-> i, speed |-> speeds[i], transfer |-> t.transfers[i]]]
  BY <1>3, <1>6
<1>9. workers \in [1 .. n -> W]
  <2>1. ASSUME NEW i \in 1 .. n
        PROVE  [id |-> i, speed |-> speeds[i], transfer |-> t.transfers[i]] \in W
    <3>1. PICK v \in {1, 2, 3} : v = speeds[i]
      BY <1>3
    <3>2. PICK x \in Nat : x = t.transfers[i]
      BY <1>7
    <3>3. [id |-> i, speed |-> v, transfer |-> x] \in W
      BY <1>4
    <3> QED
      BY <3>1, <3>2, <3>3
  <2> QED
    BY <1>8, <2>1
<1>10. workers \in Seq(W) /\ Len(workers) = n /\ DOMAIN workers = 1 .. n
  BY <1>9
<1>11. PICK out : out = SizeCluster(t, workers)
  OBVIOUS
<1>12. CASE workers = <<>>
  <2>1. ~out.achievable /\ out.count = 0
    BY <1>11, <1>12 DEF SizeCluster, Unschedulable
  <2> QED
    BY <1>6, <1>11, <1>12, <2>1, Zenon DEF SizingSound
<1>13. CASE workers # <<>>
  <2>1. PICK later, s : s = With(t, [deadline |-> t.deadline + 1]) /\ later = SizeCluster(s, workers)
    OBVIOUS
  <2>2. PICK shares, speed : shares = Allocate(t.units, workers) /\ speed = Total(t.speeds)
    OBVIOUS
  <2>3. SizedWell(t, workers, out)
    BY <1>2, <1>5, <1>10, <1>11, <1>13, ClusterSizedWell
  <2>4. AllocationFair(t.units, workers, shares)
    <3>1. \A w \in W : w.speed \in Nat \ {0}
      BY <1>4
    <3>2. PICK u \in Nat : u = t.units
      BY <1>1
    <3>3. AllocationFair(u, workers, Allocate(u, workers))
      BY <1>10, <1>13, <3>1, AllocationIsFair
    <3> QED
      BY <2>2, <3>2, <3>3
  <2>5. [k \in DOMAIN workers |-> workers[k].speed] = t.speeds
    BY <1>3, <1>8
  <2>6. Total(shares) = t.units /\ \A i \in DOMAIN workers :
          speed * shares[i] - t.units * workers[i].speed \in 1 - speed .. speed - 1
    BY <2>2, <2>4, <2>5 DEF AllocationFair, WithinOne
  <2>7. ASSUME t.deadline # None, out.achievable
        PROVE  later.achievable
    <3>1. t.deadline \in Nat /\ t.deadline + 1 \in Nat
      BY <1>1, <2>7
    <3>2. s = [f \in {"kind", "units", "overhead", "deadline", "minUnits", "limit", "partitionable", "speeds", "transfers"} |->
                 IF f \in {"deadline"} THEN [deadline |-> t.deadline + 1][f] ELSE t[f]]
      BY <1>1, <2>1 DEF With
    <3>3. /\ s.units = t.units /\ s.overhead = t.overhead /\ s.minUnits = t.minUnits /\ s.limit = t.limit
          /\ s.partitionable = t.partitionable /\ s.deadline = t.deadline + 1
      BY <3>2
    <3>4. SizingRequest(s) /\ t.deadline <= s.deadline
      BY <1>1, <3>1, <3>3 DEF SizingRequest
    <3> QED
      BY <1>2, <1>5, <1>10, <1>11, <1>13, <2>1, <2>7, <3>3, <3>4, LaterDeadlineKept
  <2>8. /\ out.selected \o out.spare = SortedBySpeed(t, workers) /\ Len(out.selected) = out.count
        /\ out.count \in 1 .. Len(workers) /\ (t.limit # None => out.count <= t.limit)
        /\ out.count * t.minUnits <= Max({t.units, t.minUnits})
    BY <2>3 DEF SizedWell
  <2>9. ASSUME t.deadline # None
        PROVE  /\ Fitting(out.walls, out.count, t.deadline)
               /\ out.achievable <=> \E k \in DOMAIN out.walls : out.walls[k] <= t.deadline
    BY <2>3, <2>9 DEF SizedWell
  <2>10. t.deadline # None =>
           /\ out.achievable <=> \E k \in DOMAIN out.walls : out.walls[k] <= t.deadline
           /\ out.achievable => out.walls[out.count] <= t.deadline /\ later.achievable
           /\ ~out.achievable => \A k \in DOMAIN out.walls : out.walls[out.count] <= out.walls[k]
    BY <2>7, <2>9 DEF Fitting
  <2>11. t.deadline = None => \A k \in 2 .. out.count :
           out.walls[k] < out.walls[k - 1] /\ 20 * out.walls[k] <= 17 * out.walls[k - 1]
    BY <2>3 DEF SizedWell, Paying
  <2>12. SizeSound(t, workers, speed, shares, out, later)
    BY <2>6, <2>8, <2>10, <2>11, Zenon DEF SizeSound
  <2> QED
    BY <1>6, <1>11, <1>13, <2>1, <2>2, <2>12, Zenon DEF SizingSound
<1> QED
  BY <1>12, <1>13

-----------------------------------------------------------------------------
(* Locations, trial by trial                                               *)

\* What is listed for one digest: the best of those who may serve it.
Located(listed, serving, from, most) ==
  /\ ToSet(listed) \subseteq serving /\ IsInjective(listed)
  /\ \A w \in serving \ ToSet(listed) :
       /\ Len(listed) = most
       /\ \A v \in ToSet(listed) : EvaluateCandidate(from, v) >= EvaluateCandidate(from, w)
  /\ \A i, j \in DOMAIN listed :
       i < j => EvaluateCandidate(from, listed[i]) >= EvaluateCandidate(from, listed[j])
  /\ listed = <<>> <=> serving = {}

LEMMA HoldersRanked ==
  ASSUME NEW W, \A w \in W : KnownPeer(w), NEW workers \in Seq(W), IsInjective(workers), NEW from, NEW held,
         NEW requester, NEW degraded, NEW most \in Int
  PROVE  Located(RankCandidates(from, HoldersAmong(workers, held), requester, degraded, most),
                 {w \in ToSet(workers) : w.id \in held /\ MayServe(w, requester, degraded)}, from, most)
<1>1. PICK n \in Nat : n = Len(workers) /\ DOMAIN workers = 1 .. n
  OBVIOUS
<1>2. PICK kept : kept = {i \in DOMAIN workers : workers[i].id \in held}
  OBVIOUS
<1>3. kept \in SUBSET (1 .. n)
  BY <1>1, <1>2
<1>4. PICK c, asc : c = Cardinality(kept) /\ asc = Ascending(kept)
  OBVIOUS
<1>5. c \in Nat /\ Enumerates(asc, kept, c)
  BY <1>3, <1>4, AscendingEnumerates
<1>6. asc \in [1 .. c -> kept]
  BY <1>5 DEF Enumerates
<1>7. PICK having : having = [k \in 1 .. c |-> workers[asc[k]]]
  OBVIOUS
<1>8. HoldersAmong(workers, held) = having
  <2>1. Pick(workers, asc) = having
    BY <1>6, <1>7 DEF Pick
  <2> QED
    BY <1>2, <1>4, <2>1 DEF Keep, HoldersAmong
<1>9. ASSUME NEW k \in 1 .. c PROVE asc[k] \in kept /\ asc[k] \in 1 .. n /\ having[k] = workers[asc[k]] /\ having[k] \in W
  <2>1. asc[k] \in kept /\ asc[k] \in 1 .. n
    BY <1>3, <1>6
  <2> QED
    BY <1>1, <1>7, <2>1
<1>10. having \in Seq(W) /\ Len(having) = c /\ DOMAIN having = 1 .. c
  BY <1>5, <1>7, <1>9
<1>11. PICK listed : listed = RankCandidates(from, having, requester, degraded, most)
  OBVIOUS
<1>12. PICK able : able = {i \in DOMAIN having : MayServe(having[i], requester, degraded)}
  OBVIOUS
<1>13. BestListed(listed, from, having, able, most)
  BY <1>10, <1>11, <1>12, BestCandidatesListed
<1>14. PICK serving : serving = {w \in ToSet(workers) : w.id \in held /\ MayServe(w, requester, degraded)}
  OBVIOUS
<1>15. serving = {having[i] : i \in able}
  <2>1. ASSUME NEW w \in serving PROVE \E i \in able : w = having[i]
    <3>1. PICK x \in 1 .. n : w = workers[x]
      BY <1>1, <1>14 DEF ToSet
    <3>2. x \in kept
      BY <1>1, <1>2, <1>14, <3>1
    <3>3. PICK k \in 1 .. c : asc[k] = x
      BY <1>5, <3>2 DEF Enumerates
    <3>4. having[k] = w
      BY <1>9, <3>1, <3>3
    <3>5. k \in able
      BY <1>10, <1>12, <1>14, <3>4
    <3> QED
      BY <3>4, <3>5
  <2>2. ASSUME NEW i \in able PROVE having[i] \in serving
    <3>1. i \in 1 .. c /\ MayServe(having[i], requester, degraded)
      BY <1>10, <1>12
    <3>2. PICK x \in 1 .. n : x = asc[i] /\ x \in kept /\ having[i] = workers[x]
      BY <1>9, <3>1
    <3>3. workers[x].id \in held /\ workers[x] \in ToSet(workers)
      BY <1>1, <1>2, <3>2 DEF ToSet
    <3> QED
      BY <1>14, <3>1, <3>2, <3>3
  <2> QED
    BY <2>1, <2>2
<1>16. ASSUME NEW i \in able, NEW j \in able, having[i] = having[j] PROVE i = j
  <2>1. i \in 1 .. c /\ j \in 1 .. c
    BY <1>10, <1>12
  <2>2. PICK x \in 1 .. n, y \in 1 .. n : x = asc[i] /\ y = asc[j] /\ having[i] = workers[x] /\ having[j] = workers[y]
    BY <1>9, <2>1
  <2>3. x = y
    BY <1>1, <1>16, <2>2 DEF IsInjective
  <2>4. (i < j <=> asc[i] < asc[j]) /\ (j < i <=> asc[j] < asc[i])
    BY <1>5, <2>1 DEF Enumerates
  <2>5. ~(i < j) /\ ~(j < i)
    BY <2>2, <2>3, <2>4
  <2> QED
    BY <2>1, <2>5
<1>17. PICK pos : \E m \in Nat :
         /\ listed = [k \in 1 .. m |-> having[pos[k]]]
         /\ \A k \in 1 .. m : pos[k] \in able
         /\ \A k, l \in 1 .. m : pos[k] = pos[l] => k = l
         /\ \A k, l \in 1 .. m : k < l =>
              EvaluateCandidate(from, having[pos[k]]) >= EvaluateCandidate(from, having[pos[l]])
         /\ \A i \in able : (\A k \in 1 .. m : pos[k] # i) =>
              /\ most > 0 /\ m = most
              /\ \A k \in 1 .. m : EvaluateCandidate(from, having[pos[k]]) >= EvaluateCandidate(from, having[i])
  BY <1>13 DEF BestListed
<1>18. PICK m \in Nat :
         /\ listed = [k \in 1 .. m |-> having[pos[k]]]
         /\ \A k \in 1 .. m : pos[k] \in able
         /\ \A k, l \in 1 .. m : pos[k] = pos[l] => k = l
         /\ \A k, l \in 1 .. m : k < l =>
              EvaluateCandidate(from, having[pos[k]]) >= EvaluateCandidate(from, having[pos[l]])
         /\ \A i \in able : (\A k \in 1 .. m : pos[k] # i) =>
              /\ most > 0 /\ m = most
              /\ \A k \in 1 .. m : EvaluateCandidate(from, having[pos[k]]) >= EvaluateCandidate(from, having[i])
  BY <1>17
<1>19. DOMAIN listed = 1 .. m /\ Len(listed) = m /\ \A k \in 1 .. m : listed[k] = having[pos[k]]
  BY <1>18
<1>20. \A v : v \in ToSet(listed) <=> \E k \in 1 .. m : v = having[pos[k]]
  BY <1>19 DEF ToSet
<1>21. ToSet(listed) \subseteq serving
  BY <1>15, <1>18, <1>20
<1>22. IsInjective(listed)
  <2>1. ASSUME NEW k \in 1 .. m, NEW l \in 1 .. m, listed[k] = listed[l] PROVE k = l
    <3>1. pos[k] \in able /\ pos[l] \in able /\ having[pos[k]] = having[pos[l]]
      BY <1>18, <1>19, <2>1
    <3>2. pos[k] = pos[l]
      BY <1>16, <3>1
    <3> QED
      BY <1>18, <3>2
  <2> QED
    BY <1>19, <2>1 DEF IsInjective
<1>23. ASSUME NEW w \in serving, w \notin ToSet(listed)
       PROVE  /\ most > 0 /\ Len(listed) = most
              /\ \A v \in ToSet(listed) : EvaluateCandidate(from, v) >= EvaluateCandidate(from, w)
  <2>1. PICK i \in able : w = having[i]
    BY <1>15
  <2>2. \A k \in 1 .. m : pos[k] # i
    BY <1>20, <1>23, <2>1
  <2>3. /\ most > 0 /\ m = most
        /\ \A k \in 1 .. m : EvaluateCandidate(from, having[pos[k]]) >= EvaluateCandidate(from, having[i])
    BY <1>18, <2>2
  <2> QED
    BY <1>19, <1>20, <2>1, <2>3
<1>24. \A i, j \in DOMAIN listed :
         i < j => EvaluateCandidate(from, listed[i]) >= EvaluateCandidate(from, listed[j])
  BY <1>18, <1>19
<1>25. listed = <<>> <=> serving = {}
  <2>1. ASSUME serving = {} PROVE listed = <<>>
    <3>0. \A k \in 1 .. m : having[pos[k]] \in ToSet(listed)
      BY <1>20
    <3>1. m = 0
      <4>1. 1 \notin 1 .. m
        BY <1>21, <2>1, <3>0
      <4> QED
        BY <4>1, m \in Nat
    <3>2. listed \in Seq(W) /\ Len(listed) = 0
      BY <1>18, <1>19, <3>1
    <3> QED
      BY <3>2
  <2>2. ASSUME listed = <<>>, NEW w \in serving PROVE FALSE
    <3>0. m = 0
      BY <1>18, <1>19, <2>2
    <3>1. m = 0 /\ w \notin ToSet(listed)
      BY <1>20, <3>0
    <3>2. most > 0 /\ Len(listed) = most
      BY <1>23, <3>1
    <3> QED
      BY <1>19, <3>1, <3>2
  <2> QED
    BY <2>1, <2>2
<1>26. Located(listed, serving, from, most)
  BY <1>21, <1>22, <1>23, <1>24, <1>25 DEF Located
<1> QED
  BY <1>8, <1>11, <1>14, <1>26, Zenon

\* A server as the location trials name it.
ServerRow(w) == KnownPeer(w) /\ w.penalty = 0 /\ GetRtt(w) < 1000

\* The servers of the trials are known peers.
LEMMA ServerRows ==
  ASSUME NEW s \in Server, NEW i \in Nat
  PROVE  ServerRow(Named(s, i)) /\ Named(s, i).id = i
<1>1. PICK w : w = Named(s, i)
  OBVIOUS
<1>2. /\ DOMAIN s = {"address", "status", "measured", "estimated", "active", "streams", "errors", "penalty"}
      /\ s.measured \in {-1, 20} /\ s.estimated = 0 /\ s.active \in {0, 2} /\ s.streams \in {0, 2}
      /\ s.errors \in {0, 4} /\ s.penalty = 0
  BY DEF Server, None
<1>3. w = [f \in {"address", "status", "measured", "estimated", "active", "streams", "errors", "penalty"} \cup {"id"}
             |-> IF f = "id" THEN i ELSE s[f]]
  BY <1>1, <1>2 DEF Named
<1>4. /\ w.measured = s.measured /\ w.estimated = s.estimated /\ w.active = s.active /\ w.streams = s.streams
      /\ w.errors = s.errors /\ w.penalty = s.penalty /\ w.id = i
  BY <1>3
<1>5. GetRtt(w) \in {5, 20}
  BY <1>2, <1>4 DEF GetRtt, None
<1>6. KnownPeer(w)
  BY <1>2, <1>4, <1>5 DEF KnownPeer, None
<1> QED
  BY <1>1, <1>2, <1>4, <1>5, <1>6 DEF ServerRow

\* Locating assets among known peers: for each digest the best of those that
\* may serve it, and the digests without any are reported.
LEMMA LocationsRight ==
  ASSUME NEW W, \A w \in W : ServerRow(w), NEW workers \in Seq(W), IsInjective(workers), NEW t, t.most \in Int,
         NEW holders
  PROVE  LocationsKept(t, workers, holders)
<1>1. PICK from, requester, degraded : from = t.from /\ requester = t.requester /\ degraded = t.degraded
  OBVIOUS
<1>2. PICK most \in Int : most = t.most
  OBVIOUS
<1>3. PICK out : out = LocateAssets(from, workers, holders, requester, degraded, most)
  OBVIOUS
<1>4. ASSUME NEW h \in DOMAIN holders
      PROVE  /\ CandidatesSound(out.locations[h],
                   {w \in ToSet(workers) : w.id \in holders[h] /\ MayServe(w, requester, degraded)}, from, most)
             /\ h \in out.unresolved
                  <=> {w \in ToSet(workers) : w.id \in holders[h] /\ MayServe(w, requester, degraded)} = {}
  <2>1. PICK held : held = holders[h]
    OBVIOUS
  <2>2. PICK serving : serving = {w \in ToSet(workers) : w.id \in held /\ MayServe(w, requester, degraded)}
    OBVIOUS
  <2>3. PICK listed : listed = RankCandidates(from, HoldersAmong(workers, held), requester, degraded, most)
    OBVIOUS
  <2>4. out.locations[h] = listed /\ (h \in out.unresolved <=> listed = <<>>)
    <3>1. PICK found : found = [x \in DOMAIN holders |->
                                 RankCandidates(from, HoldersAmong(workers, holders[x]), requester, degraded, most)]
      OBVIOUS
    <3>2. out = [locations |-> found, unresolved |-> {x \in DOMAIN found : found[x] = <<>>}]
      BY <1>3, <3>1, Zenon DEF LocateAssets
    <3>3. found[h] = listed
      BY <2>1, <2>3, <3>1
    <3>4. DOMAIN found = DOMAIN holders
      BY <3>1
    <3> QED
      BY <3>2, <3>3, <3>4
  <2>5. \A w \in W : KnownPeer(w)
    BY DEF ServerRow
  <2>6. Located(listed, serving, from, most)
    BY <2>2, <2>3, <2>5, HoldersRanked
  <2>7. ASSUME NEW v \in ToSet(listed), NEW w \in ToSet(listed), v.errors = 0, v.active <= v.streams,
               TierBase(ClassifyLocality(from, v.address)) > TierBase(ClassifyLocality(from, w.address))
        PROVE  EvaluateCandidate(from, v) > EvaluateCandidate(from, w)
    <3>1. v \in ToSet(workers) /\ w \in ToSet(workers)
      BY <2>2, <2>6 DEF Located
    <3>2. v \in W /\ w \in W
      BY <3>1 DEF ToSet
    <3>3. KnownPeer(v) /\ KnownPeer(w) /\ v.penalty = 0 /\ GetRtt(v) < 1000
      BY <3>2 DEF ServerRow
    <3> QED
      BY <2>7, <3>3, NearerPeerWins
  <2>8. CandidatesSound(listed, serving, from, most)
    BY <2>6, <2>7 DEF Located, CandidatesSound
  <2>9. listed = <<>> <=> serving = {}
    BY <2>6 DEF Located
  <2> QED
    BY <2>1, <2>2, <2>4, <2>8, <2>9, Zenon
<1> QED
  BY <1>1, <1>2, <1>3, <1>4, Zenon DEF LocationsKept

\* Every trial of a location is sound.
LEMMA LocateTrialSound ==
  ASSUME NEW t \in LocateTrial
  PROVE  LocateSound(t)
<1>1. t.first \in Server /\ t.second \in Server /\ t.most \in Int
  BY DEF LocateTrial
<1>2. PICK a, b : a = Named(t.first, 1) /\ b = Named(t.second, 2)
  OBVIOUS
<1>3. ServerRow(a) /\ a.id = 1 /\ ServerRow(b) /\ b.id = 2
  BY <1>1, <1>2, ServerRows
<1>4. PICK workers : workers = <<a, b>>
  OBVIOUS
<1>5. workers \in Seq({a, b}) /\ IsInjective(workers)
  BY <1>3, <1>4 DEF IsInjective
<1>6. PICK holders : holders = [h \in {"a", "b", "c"} |-> CASE h = "a" -> {1, 2} [] h = "b" -> {1} [] h = "c" -> {}]
  OBVIOUS
<1>7. LocationsKept(t, workers, holders)
  <2>1. \A w \in {a, b} : ServerRow(w)
    BY <1>3
  <2> QED
    BY <1>1, <1>5, <2>1, LocationsRight
<1> QED
  BY <1>2, <1>4, <1>6, <1>7, Zenon DEF LocateSound

-----------------------------------------------------------------------------
(* Placement, trial by trial                                               *)

\* Division does not reverse an order.
LEMMA QuotientGrows ==
  ASSUME NEW a \in Int, NEW b \in Int, NEW c \in Int, c > 0, a <= b
  PROVE  a \div c \in Int /\ b \div c \in Int /\ a \div c <= b \div c
<1>1. PICK q \in Int, r \in Int, s \in Int, u \in Int : q = a \div c /\ r = a % c /\ s = b \div c /\ u = b % c
  BY DivisionRule
<1>2. a = c * q + r /\ r \in 0 .. c - 1 /\ b = c * s + u /\ u \in 0 .. c - 1
  BY <1>1, DivisionRule
<1>3. ASSUME q >= s + 1 PROVE FALSE
  <2>1. c * q >= c * (s + 1)
    BY <1>3
  <2>2. c * (s + 1) = c * s + c
    OBVIOUS
  <2>3. PICK x \in Int, y \in Int : x = c * q /\ y = c * s
    OBVIOUS
  <2>4. x >= y + c /\ a = x + r /\ b = y + u
    BY <1>2, <2>1, <2>2, <2>3
  <2> QED
    BY <1>2, <2>4
<1> QED
  BY <1>1, <1>3

\* A sum of naturals over a larger set is no smaller.
LEMMA SumGrows ==
  ASSUME NEW S, IsFiniteSet(S), NEW T \in SUBSET S, NEW f, \A x \in S : f[x] \in Nat
  PROVE  SumOver(f, T) \in Nat /\ SumOver(f, S) \in Nat /\ SumOver(f, T) <= SumOver(f, S)
<1>2. SumOver(f, S) \in Nat
  BY SumOfNaturals
<1>3. IsFiniteSet(T)
  BY FS_Subset
<1>4. SumOver(f, T) \in Nat
  BY <1>3, SumOfNaturals
<1> DEFINE Q == {U \in SUBSET (S \ T) : SumOver(f, T) <= SumOver(f, T \cup U)}
<1>5. IsFiniteSet(S \ T)
  BY FS_Subset
<1>6. {} \in Q /\ Q \in SUBSET SUBSET (S \ T)
  <2>1. T \cup {} = T
    OBVIOUS
  <2> QED
    BY <1>4, <2>1
<1>7. ASSUME NEW U \in Q, NEW x \in (S \ T) \ U PROVE U \cup {x} \in Q
  <2>1. PICK V : V = T \cup U
    OBVIOUS
  <2>2. V \in SUBSET S /\ x \notin V /\ T \cup (U \cup {x}) = V \cup {x}
    BY <1>7, <2>1
  <2>3. IsFiniteSet(V)
    BY <2>2, FS_Subset
  <2>4. \A y \in V \cup {x} : f[y] \in Nat /\ f[y] \in Int
    BY <1>7, <2>2
  <2>5. SumOver(f, V \cup {x}) = f[x] + SumOver(f, V)
    BY <2>2, <2>3, <2>4, SumWith
  <2>6. SumOver(f, V) \in Nat
    BY <2>3, <2>4, SumOfNaturals
  <2>7. SumOver(f, T) <= SumOver(f, V)
    BY <1>7, <2>1
  <2>8. SumOver(f, T) <= SumOver(f, V \cup {x})
    BY <1>4, <2>4, <2>5, <2>6, <2>7
  <2> QED
    BY <1>7, <2>2, <2>8
<1>8. S \ T \in Q
  <2> HIDE DEF Q
  <2> QED
    BY <1>5, <1>6, <1>7, FiniteInduction
<1>9. T \cup (S \ T) = S
  OBVIOUS
<1> QED
  BY <1>2, <1>4, <1>8, <1>9

\* A larger part is a larger share.
LEMMA ShareGrows ==
  ASSUME NEW a \in Nat, NEW b \in Nat, NEW whole \in Nat, a <= b
  PROVE  Share(a, whole) <= Share(b, whole)
<1>1. PICK x \in Int, y \in Int : x = Worth * a /\ y = Worth * b /\ x <= y
  BY DEF Worth
<1>2. whole > 0 => x \div whole <= y \div whole
  BY <1>1, QuotientGrows
<1>3. CASE whole = 0
  BY <1>3 DEF Share, Worth
<1>4. CASE whole > 0
  <2>1. Share(a, whole) = x \div whole /\ Share(b, whole) = y \div whole
    BY <1>1, <1>4 DEF Share
  <2> QED
    BY <1>2, <1>4, <2>1
<1> QED
  BY <1>3, <1>4

\* Who has more of the assets has no smaller fraction of them.
LEMMA FractionsGrow ==
  ASSUME NEW spec, Asked(spec), NEW p, NEW q, q.cached \subseteq p.cached, NEW sizes, Measured(sizes)
  PROVE  /\ CountFraction(spec, q) <= CountFraction(spec, p)
         /\ RankFraction(spec, q, sizes) <= RankFraction(spec, p, sizes)
<1>1. PICK A, B, C : A = spec.assets /\ B = spec.assets \cap p.cached /\ C = spec.assets \cap q.cached
  OBVIOUS
<1>2. IsFiniteSet(A) /\ B \in SUBSET A /\ C \in SUBSET B
  BY <1>1 DEF Asked
<1>3. IsFiniteSet(B) /\ IsFiniteSet(C) /\ Cardinality(C) <= Cardinality(B)
  BY <1>2, FS_Subset
<1>4. PICK a \in Nat, b \in Nat, c \in Nat : a = Cardinality(A) /\ b = Cardinality(B) /\ c = Cardinality(C) /\ c <= b
  BY <1>2, <1>3, FS_CardinalityType
<1>5. CountFraction(spec, q) = Share(c, a) /\ CountFraction(spec, p) = Share(b, a)
  BY <1>1, <1>4, Zenon DEF CountFraction
<1>6. CountFraction(spec, q) <= CountFraction(spec, p)
  BY <1>4, <1>5, ShareGrows
<1>7. PICK K, L, M : K = A \cap DOMAIN sizes /\ L = K \cap p.cached /\ M = K \cap q.cached
  OBVIOUS
<1>8. K \in SUBSET A /\ L \in SUBSET K /\ M \in SUBSET L
  BY <1>7
<1>9. IsFiniteSet(K) /\ IsFiniteSet(L)
  BY <1>2, <1>8, FS_Subset
<1>10. PICK f : f = sizes
  OBVIOUS
<1>11. (\A h \in K : f[h] \in Nat) /\ \A h \in L : f[h] \in Nat
  BY <1>7, <1>10 DEF Measured
<1>12. SumOver(f, K) \in Nat
  BY <1>9, <1>11, SumOfNaturals
<1>13. SumOver(f, M) \in Nat /\ SumOver(f, L) \in Nat /\ SumOver(f, M) <= SumOver(f, L)
  BY <1>8, <1>9, <1>11, SumGrows
<1>14. PICK k \in Nat, l \in Nat, m \in Nat : k = SumOver(f, K) /\ l = SumOver(f, L) /\ m = SumOver(f, M) /\ m <= l
  BY <1>12, <1>13
<1>15. /\ k = MapThenSumSet(LAMBDA h : sizes[h], K) /\ l = MapThenSumSet(LAMBDA h : sizes[h], L)
       /\ m = MapThenSumSet(LAMBDA h : sizes[h], M)
  BY <1>10, <1>14 DEF SumOver
<1>16. CASE A # {} /\ K = A /\ k > 0
  <2>1. RankFraction(spec, p, sizes) = Share(l, k)
    BY <1>1, <1>7, <1>15, <1>16 DEF RankFraction
  <2>2. RankFraction(spec, q, sizes) = Share(m, k)
    BY <1>1, <1>7, <1>15, <1>16 DEF RankFraction
  <2> QED
    BY <1>6, <1>14, <2>1, <2>2, ShareGrows
<1>17. CASE ~(A # {} /\ K = A /\ k > 0)
  <2>1. RankFraction(spec, p, sizes) = CountFraction(spec, p)
    BY <1>1, <1>7, <1>15, <1>17 DEF RankFraction
  <2>2. RankFraction(spec, q, sizes) = CountFraction(spec, q)
    BY <1>1, <1>7, <1>15, <1>17 DEF RankFraction
  <2> QED
    BY <1>6, <2>1, <2>2
<1> QED
  BY <1>16, <1>17

\* The terms of a base score.
CpuPart(spec, p) == (Worth * p.cpu) \div spec.cpu
RamPart(spec, p) ==
  Min({2 * Worth, IF spec.ram > 0 THEN (Worth * p.ram) \div spec.ram
                  ELSE (2 * Worth * p.ram) \div Max({1, p.ramTotal})})
GpuPart(spec, p) ==
  IF ~spec.gpu THEN Worth ELSE IF p.gpu THEN Worth + (Worth * p.vram) \div Max({1, spec.vram}) ELSE 0

\* No term of the base score is smaller for who is no worse.
LEMMA PartsGrow ==
  ASSUME NEW spec, Asked(spec), NEW p, Offered(p), NEW q, Offered(q), NoWorse(p, q)
  PROVE  /\ CpuPart(spec, p) \in Int /\ CpuPart(spec, q) \in Int /\ CpuPart(spec, p) >= CpuPart(spec, q)
         /\ RamPart(spec, p) \in Int /\ RamPart(spec, q) \in Int /\ RamPart(spec, p) >= RamPart(spec, q)
         /\ GpuPart(spec, p) \in Int /\ GpuPart(spec, q) \in Int /\ GpuPart(spec, p) >= GpuPart(spec, q)
<1>1. PICK a \in Nat, b \in Nat, c \in Nat, d \in Nat, e \in Nat, f \in Nat, g \in Nat :
        /\ a = p.cpu /\ b = spec.cpu /\ c = p.ram /\ d = spec.ram /\ e = p.ramTotal
        /\ f = p.vram /\ g = spec.vram /\ b # 0
  BY DEF Asked, Offered
<1>2. PICK x \in Nat, y \in Nat, z \in Nat : x = q.cpu /\ y = q.ram /\ z = q.vram /\ e = q.ramTotal
  BY <1>1 DEF Offered, NoWorse
<1>3. x <= a /\ y <= c /\ z <= f /\ p.gpu = q.gpu
  BY <1>1, <1>2 DEF NoWorse
<1>4. PICK one \in Int, two \in Int : one = 1 /\ two = 2 * Worth
  BY DEF Worth
<1>5. PICK s \in Int, u \in Int : s = Max({one, e}) /\ u = Max({one, g}) /\ s > 0 /\ u > 0
  <2>1. e \in Int /\ g \in Int
    OBVIOUS
  <2>2. Max({one, e}) \in {one, e} /\ Max({one, e}) >= one /\ Max({one, g}) \in {one, g} /\ Max({one, g}) >= one
    BY <2>1, MinOfTwo
  <2> QED
    BY <1>4, <2>1, <2>2
<1>6. PICK w \in Int : w = Worth /\ w = 8
  BY DEF Worth
<1>7. (w * x) \div b \in Int /\ (w * a) \div b \in Int /\ (w * x) \div b <= (w * a) \div b
  BY <1>1, <1>3, <1>6, QuotientGrows
<1>8. d > 0 => (w * y) \div d \in Int /\ (w * c) \div d \in Int /\ (w * y) \div d <= (w * c) \div d
  BY <1>3, <1>6, QuotientGrows
<1>9. (2 * w * y) \div s \in Int /\ (2 * w * c) \div s \in Int /\ (2 * w * y) \div s <= (2 * w * c) \div s
  BY <1>3, <1>5, <1>6, QuotientGrows
<1>10. (w * z) \div u \in Int /\ (w * f) \div u \in Int /\ (w * z) \div u <= (w * f) \div u
  BY <1>3, <1>5, <1>6, QuotientGrows
<1>11. CpuPart(spec, p) = (w * a) \div b /\ CpuPart(spec, q) = (w * x) \div b
  BY <1>1, <1>2, <1>6, Zenon DEF CpuPart
<1>12. PICK i \in Int, j \in Int :
         /\ i = (IF d > 0 THEN (w * c) \div d ELSE (2 * w * c) \div s)
         /\ j = (IF d > 0 THEN (w * y) \div d ELSE (2 * w * y) \div s)
         /\ i >= j
  BY <1>8, <1>9
<1>13. RamPart(spec, p) = Min({two, i})
  BY <1>1, <1>4, <1>5, <1>6, <1>12, Zenon DEF RamPart
<1>14. RamPart(spec, q) = Min({two, j})
  BY <1>1, <1>2, <1>4, <1>5, <1>6, <1>12, Zenon DEF RamPart
<1>15. /\ Min({two, i}) \in {two, i} /\ Min({two, i}) <= two /\ Min({two, i}) <= i
       /\ Min({two, j}) \in {two, j} /\ Min({two, j}) <= two /\ Min({two, j}) <= j
  BY MinOfTwo
<1>16. Min({two, i}) \in Int /\ Min({two, j}) \in Int /\ Min({two, i}) >= Min({two, j})
  BY <1>12, <1>15
<1>17. GpuPart(spec, p) = IF ~spec.gpu THEN w ELSE IF p.gpu THEN w + (w * f) \div u ELSE 0
  BY <1>1, <1>4, <1>5, <1>6, Zenon DEF GpuPart
<1>18. GpuPart(spec, q) = IF ~spec.gpu THEN w ELSE IF p.gpu THEN w + (w * z) \div u ELSE 0
  BY <1>1, <1>2, <1>3, <1>4, <1>5, <1>6, Zenon DEF GpuPart
<1>19. PICK k \in Int, l \in Int : k = (w * f) \div u /\ l = (w * z) \div u /\ k >= l
  BY <1>10
<1>20. GpuPart(spec, p) \in Int /\ GpuPart(spec, q) \in Int /\ GpuPart(spec, p) >= GpuPart(spec, q)
  <2>1. CASE ~spec.gpu
    BY <1>17, <1>18, <2>1
  <2>2. CASE spec.gpu /\ p.gpu
    <3>1. GpuPart(spec, p) = w + k /\ GpuPart(spec, q) = w + l
      BY <1>17, <1>18, <1>19, <2>2
    <3> QED
      BY <1>19, <3>1
  <2>3. CASE spec.gpu /\ ~p.gpu
    BY <1>17, <1>18, <2>3
  <2> QED
    BY <2>1, <2>2, <2>3
<1> QED
  BY <1>7, <1>11, <1>13, <1>14, <1>16, <1>20

\* Who is no worse in anything that enters the score scores no less.
LEMMA NoWorseScores ==
  ASSUME NEW spec, Asked(spec), NEW p, Offered(p), NEW q, Offered(q), NoWorse(p, q),
         NEW tagOf, NEW sizes, Measured(sizes)
  PROVE  RankScore(spec, p, {}, tagOf, sizes) >= RankScore(spec, q, {}, tagOf, sizes)
<1>1. PICK a \in Int, b \in Int, c \in Int, d \in Int, e \in Int, f \in Int :
        /\ a = CpuPart(spec, p) /\ b = CpuPart(spec, q) /\ c = RamPart(spec, p) /\ d = RamPart(spec, q)
        /\ e = GpuPart(spec, p) /\ f = GpuPart(spec, q) /\ a >= b /\ c >= d /\ e >= f
  BY PartsGrow
<1>2. PICK g \in Int, h \in Int, i \in Int, j \in Int :
        /\ g = CountFraction(spec, p) /\ h = CountFraction(spec, q)
        /\ i = RankFraction(spec, p, sizes) /\ j = RankFraction(spec, q, sizes) /\ g >= h /\ i >= j
  <2>1. /\ CountFraction(spec, p) \in Nat /\ RankFraction(spec, p, sizes) \in Nat
        /\ CountFraction(spec, q) \in Nat /\ RankFraction(spec, q, sizes) \in Nat
    BY FractionTypes
  <2>2. q.cached \subseteq p.cached
    BY DEF NoWorse
  <2>3. CountFraction(spec, q) <= CountFraction(spec, p) /\ RankFraction(spec, q, sizes) <= RankFraction(spec, p, sizes)
    BY <2>2, FractionsGrow
  <2> QED
    BY <2>1, <2>3
<1>3. PICK k \in Int, l \in Int : k = (Worth * p.active) \div 2 /\ l = (Worth * q.active) \div 2 /\ k <= l
  <2>1. PICK x \in Int, y \in Int : x = Worth * p.active /\ y = Worth * q.active /\ x <= y
    BY DEF Offered, NoWorse, Worth
  <2> QED
    BY <2>1, QuotientGrows
<1>4. PICK m \in Int, n \in Int : m = Worth * p.cost /\ n = Worth * q.cost /\ m <= n
  BY DEF Offered, NoWorse, Worth
<1>5. M6Score(spec, p) = a + c + 2 * e + 2 * g - k
  BY <1>1, <1>2, <1>3, Zenon DEF M6Score, CpuPart, RamPart, GpuPart
<1>6. M6Score(spec, q) = b + d + 2 * f + 2 * h - l
  BY <1>1, <1>2, <1>3, Zenon DEF M6Score, CpuPart, RamPart, GpuPart
<1>7. PICK r \in Int, s \in Int :
        /\ r = (IF sizes = <<>> THEN 0 ELSE 2 * (i - g))
        /\ s = (IF sizes = <<>> THEN 0 ELSE 2 * (j - h))
  <2>1. PICK x \in Int, y \in Int : x = 2 * (i - g) /\ y = 2 * (j - h)
    OBVIOUS
  <2>2. (IF sizes = <<>> THEN 0 ELSE x) \in Int /\ (IF sizes = <<>> THEN 0 ELSE y) \in Int
    OBVIOUS
  <2> QED
    BY <2>1, <2>2
<1>8. PICK t \in Int : t = IF spec.prefers = NoTag THEN 0 ELSE Bonus(TagResult(p.tag, spec.prefers), 2, 0)
  BY DEF Bonus
<1>9. t = IF spec.prefers = NoTag THEN 0 ELSE Bonus(TagResult(q.tag, spec.prefers), 2, 0)
  BY <1>8 DEF NoWorse
<1>10. Bonus(AffinityMatch(spec, p, {}, tagOf), 2, -2) = 2 /\ Bonus(AffinityMatch(spec, q, {}, tagOf), 2, -2) = 2
  <2>1. AffinityMatch(spec, p, {}, tagOf) /\ AffinityMatch(spec, q, {}, tagOf)
    BY Zenon DEF AffinityMatch
  <2> QED
    BY <2>1 DEF Bonus
<1>11. PICK u \in Int : u = IF spec.affinity = "none" \/ spec.hard THEN 0 ELSE 2
  OBVIOUS
<1>12. RankScore(spec, p, {}, tagOf, sizes) = a + c + 2 * e + 2 * g - k + r + t + u - m
  BY <1>2, <1>4, <1>5, <1>7, <1>8, <1>10, <1>11, Zenon DEF RankScore
<1>13. RankScore(spec, q, {}, tagOf, sizes) = b + d + 2 * f + 2 * h - l + s + t + u - n
  BY <1>2, <1>4, <1>6, <1>7, <1>9, <1>10, <1>11, Zenon DEF RankScore
<1>14. CASE sizes = <<>>
  <2>1. r = 0 /\ s = 0
    BY <1>7, <1>14
  <2> QED
    BY <1>1, <1>2, <1>3, <1>4, <1>12, <1>13, <2>1
<1>15. CASE sizes # <<>>
  <2>1. r = 2 * (i - g) /\ s = 2 * (j - h)
    BY <1>7, <1>15
  <2> QED
    BY <1>1, <1>2, <1>3, <1>4, <1>12, <1>13, <2>1
<1> QED
  BY <1>14, <1>15

\* What a workload may ask for, in full.
SpecFields == {"gpu", "vram", "capability", "device", "runtime", "cpu", "ram", "budget", "tag", "prefers",
               "affinity", "hard", "software", "assets"}

\* Taking a workload's preferences away leaves everything else.
LEMMA IndifferentFields ==
  ASSUME NEW spec, DOMAIN spec = SpecFields, spec.hard \in BOOLEAN
  PROVE  LET s == Indifferent(spec)
         IN /\ s.gpu = spec.gpu /\ s.vram = spec.vram /\ s.capability = spec.capability /\ s.device = spec.device
            /\ s.runtime = spec.runtime /\ s.cpu = spec.cpu /\ s.ram = spec.ram /\ s.budget = spec.budget
            /\ s.tag = spec.tag /\ s.hard = spec.hard /\ s.software = spec.software /\ s.assets = spec.assets
            /\ spec.hard => s.affinity = spec.affinity
<1>1. PICK a : a = IF spec.hard THEN spec.affinity ELSE "none"
  OBVIOUS
<1>2. PICK s : s = Indifferent(spec)
  OBVIOUS
<1>3. PICK c : c = [prefers |-> NoTag, affinity |-> a]
  OBVIOUS
<1>4. s = [f \in SpecFields |-> IF f \in DOMAIN c THEN c[f] ELSE spec[f]]
  BY <1>1, <1>2, <1>3, Zenon DEF Indifferent, With
<1>5. DOMAIN c = {"prefers", "affinity"} /\ c["affinity"] = a
  BY <1>3
<1>6. s = [f \in SpecFields |-> IF f \in {"prefers", "affinity"} THEN c[f] ELSE spec[f]]
  BY <1>4, <1>5
<1>7. \A f \in SpecFields : f \notin {"prefers", "affinity"} => s[f] = spec[f]
  BY <1>6
<1>8. s["affinity"] = a
  BY <1>5, <1>6 DEF SpecFields
<1>9. spec.hard => a = spec.affinity
  BY <1>1
<1>10. /\ s.gpu = spec.gpu /\ s.vram = spec.vram /\ s.capability = spec.capability /\ s.device = spec.device
       /\ s.runtime = spec.runtime /\ s.cpu = spec.cpu /\ s.ram = spec.ram /\ s.budget = spec.budget
       /\ s.tag = spec.tag /\ s.hard = spec.hard /\ s.software = spec.software /\ s.assets = spec.assets
  BY <1>7 DEF SpecFields
<1> QED
  BY <1>2, <1>8, <1>9, <1>10

\* It changes no check.
LEMMA IndifferentEligible ==
  ASSUME NEW spec, DOMAIN spec = SpecFields, spec.hard \in BOOLEAN, NEW p, NEW prior, NEW tagOf
  PROVE  Eligible(Indifferent(spec), p, prior, tagOf) <=> Eligible(spec, p, prior, tagOf)
<1>1. PICK s : s = Indifferent(spec)
  OBVIOUS
<1>2. /\ s.gpu = spec.gpu /\ s.vram = spec.vram /\ s.capability = spec.capability /\ s.device = spec.device
      /\ s.runtime = spec.runtime /\ s.cpu = spec.cpu /\ s.ram = spec.ram /\ s.budget = spec.budget
      /\ s.tag = spec.tag /\ s.hard = spec.hard /\ s.software = spec.software /\ s.assets = spec.assets
      /\ spec.hard => s.affinity = spec.affinity
  BY <1>1, IndifferentFields
<1>3. NeedsGpu(s) <=> NeedsGpu(spec)
  BY <1>2, Zenon DEF NeedsGpu
<1>4. (s.hard => AffinityMatch(s, p, prior, tagOf)) <=> (spec.hard => AffinityMatch(spec, p, prior, tagOf))
  <2>1. CASE spec.hard
    <3>1. s.affinity = spec.affinity
      BY <1>2, <2>1
    <3> QED
      BY <1>2, <3>1, Zenon DEF AffinityMatch
  <2>2. CASE ~spec.hard
    BY <1>2, <2>2
  <2> QED
    BY <2>1, <2>2
<1>5. PICK c, d : c = Checks(s, p, prior, tagOf) /\ d = Checks(spec, p, prior, tagOf)
  OBVIOUS
<1>6. DOMAIN c = DOMAIN d
  BY <1>5 DEF Checks
<1>7. ASSUME NEW x \in DOMAIN c PROVE c[x] <=> d[x]
  <2>1. CASE x = "gpu"
    BY <1>3, <1>5, <2>1 DEF Checks
  <2>2. CASE x = "affinity"
    BY <1>4, <1>5, <2>2 DEF Checks
  <2>3. CASE x \notin {"gpu", "affinity"}
    BY <1>2, <1>5, <1>7, <2>3 DEF Checks
  <2> QED
    BY <2>1, <2>2, <2>3
<1>8. {x \in DOMAIN c : ~c[x]} = {x \in DOMAIN d : ~d[x]}
  BY <1>6, <1>7
<1>9. Eligible(s, p, prior, tagOf) <=> {x \in DOMAIN c : ~c[x]} = {}
  BY <1>5, Zenon DEF Eligible, Rejections
<1>10. Eligible(spec, p, prior, tagOf) <=> {x \in DOMAIN d : ~d[x]} = {}
  BY <1>5, Zenon DEF Eligible, Rejections
<1> QED
  BY <1>1, <1>8, <1>9, <1>10

\* ranked lists the eligible ones.
ListsEligible(ranked, spec, profiles, prior, tagOf) ==
  \A w : w \in ToSet(ranked) <=>
    \E i \in DOMAIN profiles : w = profiles[i].id /\ Eligible(spec, profiles[i], prior, tagOf)

\* Who is ranked: the eligible ones, each once.
LEMMA RankedAre ==
  ASSUME NEW spec, Asked(spec), NEW P, \A p \in P : Offered(p), NEW profiles \in Seq(P), Distinct(profiles),
         NEW prior, NEW tagOf, NEW sizes, Measured(sizes), NEW penalty, Penalised(penalty, P),
         NEW ranked, ranked = Evaluate(spec, profiles, prior, tagOf, sizes, penalty)
  PROVE  IsInjective(ranked) /\ ListsEligible(ranked, spec, profiles, prior, tagOf)
<1>1. PICK able, val, ids :
        /\ able = EligibleOnes(spec, profiles, prior, tagOf)
        /\ val = ValuesOf(spec, profiles, prior, tagOf, sizes, penalty) /\ ids = IdsOf(profiles)
  OBVIOUS
<1>2. PICK pos, m : Placed(ranked, pos, m, able, val, ids, penalty)
  BY <1>1, EligibleRanked
<1>3. /\ m \in Nat /\ pos \in [1 .. m -> able] /\ ranked = [k \in 1 .. m |-> ids[pos[k]]]
      /\ \A k, l \in 1 .. m : pos[k] = pos[l] => k = l
      /\ \A i \in able : \E k \in 1 .. m : pos[k] = i
  BY <1>2 DEF Placed, ListsOnce
<1>4. \A i : i \in able <=> i \in DOMAIN profiles /\ Eligible(spec, profiles[i], prior, tagOf)
  BY <1>1 DEF EligibleOnes
<1>5. \A i \in DOMAIN profiles : ids[i] = profiles[i].id
  BY <1>1 DEF IdsOf
<1>6. DOMAIN ranked = 1 .. m /\ \A k \in 1 .. m : ranked[k] = profiles[pos[k]].id /\ pos[k] \in able
  BY <1>3, <1>4, <1>5
<1>7. \A k, l \in 1 .. m : ranked[k] = ranked[l] => k = l
  <2>1. ASSUME NEW k \in 1 .. m, NEW l \in 1 .. m, ranked[k] = ranked[l] PROVE pos[k] = pos[l]
    <3>1. pos[k] \in DOMAIN profiles /\ pos[l] \in DOMAIN profiles /\ profiles[pos[k]].id = profiles[pos[l]].id
      BY <1>4, <1>6, <2>1
    <3> QED
      BY <3>1 DEF Distinct
  <2> QED
    BY <1>3, <2>1
<1>8. IsInjective(ranked)
  BY <1>6, <1>7 DEF IsInjective
<1>9. \A w : w \in ToSet(ranked) <=> \E k \in 1 .. m : w = ranked[k]
  BY <1>6 DEF ToSet
<1>10. ASSUME NEW w \in ToSet(ranked)
       PROVE  \E i \in DOMAIN profiles : w = profiles[i].id /\ Eligible(spec, profiles[i], prior, tagOf)
  BY <1>4, <1>6, <1>9
<1>11. ASSUME NEW i \in DOMAIN profiles, Eligible(spec, profiles[i], prior, tagOf)
       PROVE  profiles[i].id \in ToSet(ranked)
  <2>1. PICK k \in 1 .. m : pos[k] = i
    BY <1>3, <1>4, <1>11
  <2> QED
    BY <1>6, <1>9, <2>1
<1> QED
  BY <1>8, <1>10, <1>11 DEF ListsEligible

\* Without bridge and predecessors who is no worse and has the smaller id is
\* ranked before.
LEMMA BetterFirst ==
  ASSUME NEW spec, Asked(spec), NEW P, \A p \in P : Offered(p), NEW profiles \in Seq(P), Distinct(profiles),
         NEW tagOf, NEW sizes, Measured(sizes),
         NEW ranked, ranked = Evaluate(spec, profiles, {}, tagOf, sizes, <<>>),
         NEW p \in ToSet(profiles), NEW q \in ToSet(profiles),
         p.id \in ToSet(ranked), q.id \in ToSet(ranked), NoWorse(p, q), p.id < q.id
  PROVE  RankOf(p.id, ranked) < RankOf(q.id, ranked)
<1>1. PICK able, val, ids, none :
        /\ none = <<>> /\ able = EligibleOnes(spec, profiles, {}, tagOf)
        /\ val = ValuesOf(spec, profiles, {}, tagOf, sizes, none) /\ ids = IdsOf(profiles)
  OBVIOUS
<1>2. Penalised(none, P)
  BY <1>1 DEF Penalised
<1>3. PICK pos, m : Placed(ranked, pos, m, able, val, ids, none)
  BY <1>1, <1>2, EligibleRanked
<1>4. /\ m \in Nat /\ pos \in [1 .. m -> able] /\ ranked = [k \in 1 .. m |-> ids[pos[k]]]
      /\ \A k, l \in 1 .. m : k < l <=> Beats(val, ids, none, pos[k], pos[l])
  BY <1>3 DEF Placed, ListsOnce
<1>5. able \subseteq DOMAIN profiles
  BY <1>1 DEF EligibleOnes
<1>6. \A i \in DOMAIN profiles : /\ ids[i] = profiles[i].id /\ val[i] = Value(spec, profiles[i], {}, tagOf, sizes, none)
  BY <1>1 DEF IdsOf, ValuesOf
<1>7. DOMAIN ranked = 1 .. m /\ \A k \in 1 .. m : ranked[k] = profiles[pos[k]].id /\ pos[k] \in DOMAIN profiles
  BY <1>4, <1>5, <1>6
<1>8. PICK x \in DOMAIN profiles, y \in DOMAIN profiles : p = profiles[x] /\ q = profiles[y]
  BY DEF ToSet
<1>9. ASSUME NEW z \in DOMAIN profiles, profiles[z].id \in ToSet(ranked)
      PROVE  /\ RankOf(profiles[z].id, ranked) \in 1 .. m
             /\ pos[RankOf(profiles[z].id, ranked)] = z
  <2>1. PICK w, k : w = profiles[z].id /\ k = RankOf(w, ranked)
    OBVIOUS
  <2>2. \E i \in DOMAIN ranked : ranked[i] = w
    BY <1>9, <2>1 DEF ToSet
  <2>3. k \in DOMAIN ranked /\ ranked[k] = w
    BY <2>1, <2>2, Zenon DEF RankOf
  <2>4. k \in 1 .. m /\ profiles[pos[k]].id = profiles[z].id /\ pos[k] \in DOMAIN profiles
    BY <1>7, <2>1, <2>3
  <2>5. pos[k] = z
    BY <2>4 DEF Distinct
  <2> QED
    BY <2>1, <2>4, <2>5
<1>10. PICK a \in 1 .. m, b \in 1 .. m :
         a = RankOf(p.id, ranked) /\ b = RankOf(q.id, ranked) /\ pos[a] = x /\ pos[b] = y
  BY <1>8, <1>9
<1>11. Offered(p) /\ Offered(q)
  BY <1>8
<1>12. PICK s \in Int, t \in Int : s = RankScore(spec, p, {}, tagOf, sizes) /\ t = RankScore(spec, q, {}, tagOf, sizes)
  BY <1>11, RankType
<1>13. s >= t
  BY <1>11, <1>12, NoWorseScores
<1>14. val[x] = s /\ val[y] = t
  BY <1>1, <1>6, <1>8, <1>12 DEF Value
<1>15. ids[x] < ids[y]
  BY <1>6, <1>8
<1>16. Beats(val, ids, none, x, y)
  BY <1>1, <1>13, <1>14, <1>15 DEF Beats
<1> QED
  BY <1>4, <1>10, <1>16

\* Every ranking of distinct workers is sound.
LEMMA RankingRight ==
  ASSUME NEW t, Asked(t.spec), DOMAIN t.spec = SpecFields, Measured(t.sizes), IsFiniteSet(t.prior),
         t.spec.hard => t.spec.affinity \in {"same_worker", "different_worker", "same_tag", "different_tag"},
         NEW P, \A p \in P : Offered(p), NEW listed \in Seq(P), Distinct(listed), Penalised(t.penalty, P),
         NEW tagOf, \A i \in DOMAIN listed : tagOf[listed[i].id] = listed[i].tag
  PROVE  RankingSound(t, listed, tagOf, Evaluate(t.spec, listed, t.prior, tagOf, t.sizes, t.penalty))
<1>1. PICK spec, prior, sizes, penalty :
        spec = t.spec /\ prior = t.prior /\ sizes = t.sizes /\ penalty = t.penalty
  OBVIOUS
<1>2. /\ Asked(spec) /\ DOMAIN spec = SpecFields /\ Measured(sizes) /\ IsFiniteSet(prior) /\ Penalised(penalty, P)
      /\ spec.hard => spec.affinity \in {"same_worker", "different_worker", "same_tag", "different_tag"}
  BY <1>1
<1>3. PICK ranked : ranked = Evaluate(spec, listed, prior, tagOf, sizes, penalty)
  OBVIOUS
<1>4. IsInjective(ranked) /\ ListsEligible(ranked, spec, listed, prior, tagOf)
  BY <1>2, <1>3, RankedAre
<1>5. ToSet(ranked) = ToSet(Evaluate(Indifferent(spec), listed, prior, tagOf, sizes, <<>>))
  <2>1. PICK soft, none : soft = Indifferent(spec) /\ none = <<>>
    OBVIOUS
  <2>2. spec.hard \in BOOLEAN
    BY <1>2 DEF Asked
  <2>3. Asked(soft)
    <3>1. /\ soft.cpu = spec.cpu /\ soft.ram = spec.ram /\ soft.vram = spec.vram /\ soft.gpu = spec.gpu
          /\ soft.hard = spec.hard /\ soft.assets = spec.assets
      BY <1>2, <2>1, <2>2, IndifferentFields
    <3> QED
      BY <1>2, <3>1 DEF Asked
  <2>4. Penalised(none, P)
    BY <2>1 DEF Penalised
  <2>5. PICK other : other = Evaluate(soft, listed, prior, tagOf, sizes, none)
    OBVIOUS
  <2>6. ListsEligible(other, soft, listed, prior, tagOf)
    BY <1>2, <2>3, <2>4, <2>5, RankedAre
  <2>7. \A i \in DOMAIN listed : Eligible(soft, listed[i], prior, tagOf) <=> Eligible(spec, listed[i], prior, tagOf)
    BY <1>2, <2>1, <2>2, IndifferentEligible
  <2>8. ToSet(other) = ToSet(ranked)
    BY <1>4, <2>6, <2>7 DEF ListsEligible
  <2> QED
    BY <2>1, <2>5, <2>8, Zenon
<1>6. ASSUME NEW n \in 2 .. 3
      PROVE  GroupOf(EvaluateGroup(spec, listed, n, prior, tagOf, sizes, penalty))
               = IF Len(ranked) >= n THEN Prefix(ranked, n) ELSE <<>>
  <2>1. n \in Nat
    OBVIOUS
  <2> QED
    BY <1>2, <1>3, <2>1, GroupIsBest
<1>7. ASSUME penalty = <<>>, prior = {}, NEW p \in ToSet(listed), NEW q \in ToSet(listed),
             {p.id, q.id} \subseteq ToSet(ranked), NoWorse(p, q), p.id < q.id
      PROVE  RankOf(p.id, ranked) < RankOf(q.id, ranked)
  <2>1. ranked = Evaluate(spec, listed, {}, tagOf, sizes, <<>>)
    BY <1>3, <1>7, Zenon
  <2>2. p.id \in ToSet(ranked) /\ q.id \in ToSet(ranked)
    BY <1>7
  <2> QED
    BY <1>2, <1>7, <2>1, <2>2, BetterFirst
<1>8. ASSUME spec.hard, prior # {}, NEW w \in ToSet(ranked)
      PROVE  /\ spec.affinity = "same_worker" => w \in prior
             /\ spec.affinity = "different_worker" => w \notin prior
             /\ spec.affinity = "same_tag" => \A v \in prior : tagOf[v] = tagOf[w]
             /\ spec.affinity = "different_tag" => \A v \in prior : tagOf[v] # tagOf[w]
  <2>1. PICK i \in DOMAIN listed : w = listed[i].id /\ Eligible(spec, listed[i], prior, tagOf)
    BY <1>4 DEF ListsEligible
  <2>2. PICK p : p = listed[i]
    OBVIOUS
  <2>3. w = p.id /\ Eligible(spec, p, prior, tagOf) /\ tagOf[w] = p.tag
    BY <2>1, <2>2
  <2>4. /\ spec.affinity = "same_worker" => p.id \in prior
        /\ spec.affinity = "different_worker" => p.id \notin prior
        /\ spec.affinity = "same_tag" => \A v \in prior : tagOf[v] = p.tag
        /\ spec.affinity = "different_tag" => \A v \in prior : tagOf[v] # p.tag
    BY <1>2, <1>8, <2>3, AffinityHeld
  <2> QED
    BY <2>3, <2>4
<1>9. ASSUME spec.hard, prior # {}, NEW w \in ToSet(ranked)
      PROVE  CASE spec.affinity = "same_worker" -> w \in prior
               [] spec.affinity = "different_worker" -> w \notin prior
               [] spec.affinity = "same_tag" -> \A v \in prior : tagOf[v] = tagOf[w]
               [] spec.affinity = "different_tag" -> \A v \in prior : tagOf[v] # tagOf[w]
  BY <1>2, <1>8, <1>9
<1> QED
  <2>1. RankingSound(t, listed, tagOf, ranked)
    BY <1>1, <1>4, <1>5, <1>6, <1>7, <1>9, Zenon DEF RankingSound
  <2> QED
    BY <1>1, <1>3, <2>1, Zenon

\* The fields of a profile.
ProfileFields == {"status", "canExecute", "age", "cpu", "ram", "ramTotal", "gpu", "vram", "vramTotal", "active",
                  "limit", "cost", "capability", "device", "tag", "lacks", "cached"}
\* A change that keeps the fields that enter a score numbers.
FairChange(c) ==
  /\ "cpu" \in DOMAIN c => c.cpu \in Nat
  /\ "ram" \in DOMAIN c => c.ram \in Nat
  /\ "ramTotal" \in DOMAIN c => c.ramTotal \in Nat
  /\ "gpu" \in DOMAIN c => c.gpu \in BOOLEAN
  /\ "vram" \in DOMAIN c => c.vram \in Nat
  /\ "active" \in DOMAIN c => c.active \in Nat
  /\ "cost" \in DOMAIN c => c.cost \in Nat
\* A profile whose score is a number.
Scorable(p) ==
  /\ p.cpu \in Nat /\ p.ram \in Nat /\ p.ramTotal \in Nat /\ p.vram \in Nat /\ p.active \in Nat
  /\ p.cost \in Nat /\ p.gpu \in BOOLEAN

\* The workers of the trials have scores.
LEMMA ProfilesScorable ==
  ASSUME NEW p \in Profile
  PROVE  DOMAIN p = ProfileFields /\ Scorable(p)
<1>1. DOMAIN Fit = ProfileFields /\ Scorable(Fit)
  BY DEF Fit, ProfileFields, Scorable
<1>2. ASSUME NEW c, FairChange(c) PROVE DOMAIN With(Fit, c) = ProfileFields /\ Scorable(With(Fit, c))
  <2>1. PICK q : q = With(Fit, c)
    OBVIOUS
  <2>2. q = [f \in ProfileFields |-> IF f \in DOMAIN c THEN c[f] ELSE Fit[f]]
    BY <1>1, <2>1 DEF With
  <2>3. ASSUME NEW f \in ProfileFields PROVE q[f] = IF f \in DOMAIN c THEN c[f] ELSE Fit[f]
    BY <2>2
  <2>4. q.cpu \in Nat /\ q.ram \in Nat /\ q.ramTotal \in Nat
    BY <1>1, <1>2, <2>3 DEF ProfileFields, FairChange, Scorable
  <2>5. q.vram \in Nat /\ q.active \in Nat /\ q.cost \in Nat /\ q.gpu \in BOOLEAN
    BY <1>1, <1>2, <2>3 DEF ProfileFields, FairChange, Scorable
  <2> QED
    BY <2>1, <2>2, <2>4, <2>5 DEF Scorable
<1>3. CASE p = Fit
  BY <1>1, <1>3
<1>4. CASE p # Fit
  <2>1. PICK c : /\ p = With(Fit, c)
                 /\ c \in {[status |-> "degraded"], [canExecute |-> FALSE], [age |-> 10], [age |-> 11], [cpu |-> 2],
                           [ram |-> 2], [ram |-> 9],
                           [gpu |-> FALSE, vram |-> 0, capability |-> <<>>, device |-> NoTag],
                           [vram |-> 5], [active |-> 1], [active |-> 2], [cost |-> 1], [tag |-> "blue"],
                           [tag |-> NoTag], [lacks |-> {"blender"}], [cached |-> {1}], [cached |-> {1, 2}]}
    BY <1>4, Zenon DEF Profile
  <2>2. ASSUME c \in {[status |-> "degraded"], [canExecute |-> FALSE], [age |-> 10], [age |-> 11]} PROVE FairChange(c)
    BY <2>2 DEF FairChange
  <2>3. ASSUME c \in {[cpu |-> 2], [ram |-> 2], [ram |-> 9]} PROVE FairChange(c)
    BY <2>3 DEF FairChange
  <2>4. ASSUME c = [gpu |-> FALSE, vram |-> 0, capability |-> <<>>, device |-> NoTag] PROVE FairChange(c)
    BY <2>4 DEF FairChange
  <2>5. ASSUME c \in {[vram |-> 5], [active |-> 1], [active |-> 2], [cost |-> 1]} PROVE FairChange(c)
    BY <2>5 DEF FairChange
  <2>6. ASSUME c \in {[tag |-> "blue"], [tag |-> NoTag], [lacks |-> {"blender"}], [cached |-> {1}], [cached |-> {1, 2}]} PROVE FairChange(c)
    BY <2>6 DEF FairChange
  <2>7. FairChange(c)
    BY <2>1, <2>2, <2>3, <2>4, <2>5, <2>6
  <2> QED
    BY <1>2, <2>1, <2>7
<1> QED
  BY <1>3, <1>4

\* A change of a request that keeps it one.
FairRequest(c) ==
  /\ "cpu" \in DOMAIN c => c.cpu \in Nat /\ c.cpu # 0
  /\ "ram" \in DOMAIN c => c.ram \in Nat
  /\ "vram" \in DOMAIN c => c.vram \in Nat
  /\ "gpu" \in DOMAIN c => c.gpu \in BOOLEAN
  /\ "assets" \in DOMAIN c => IsFiniteSet(c.assets)
  /\ "hard" \in DOMAIN c => /\ c.hard \in BOOLEAN /\ "affinity" \in DOMAIN c
                            /\ c.affinity \in {"same_worker", "different_worker", "same_tag", "different_tag"}

\* The requests of the trials are requests.
LEMMA RequestsAsked ==
  ASSUME NEW s \in GatedSpec \cup AffineSpec
  PROVE  /\ DOMAIN s = SpecFields /\ Asked(s)
         /\ s.hard => s.affinity \in {"same_worker", "different_worker", "same_tag", "different_tag"}
<1>1. /\ DOMAIN Plain = SpecFields /\ Plain.cpu = 2 /\ Plain.ram = 2 /\ Plain.vram = 0 /\ Plain.gpu = FALSE
      /\ Plain.hard = FALSE /\ Plain.assets = {}
  BY DEF Plain, SpecFields
<1>2. ASSUME NEW c, FairRequest(c), s = With(Plain, c)
      PROVE  /\ DOMAIN s = SpecFields /\ Asked(s)
             /\ s.hard => s.affinity \in {"same_worker", "different_worker", "same_tag", "different_tag"}
  <2>1. s = [f \in SpecFields |-> IF f \in DOMAIN c THEN c[f] ELSE Plain[f]]
    BY <1>1, <1>2 DEF With
  <2>2. \A f \in SpecFields : s[f] = IF f \in DOMAIN c THEN c[f] ELSE Plain[f]
    BY <2>1
  <2>3. s.cpu \in Nat /\ s.cpu # 0 /\ s.ram \in Nat /\ s.vram \in Nat /\ s.gpu \in BOOLEAN
    <3>1. s.cpu = (IF "cpu" \in DOMAIN c THEN c.cpu ELSE 2) /\ s.ram = (IF "ram" \in DOMAIN c THEN c.ram ELSE 2)
      BY <1>1, <2>2 DEF SpecFields
    <3>2. s.vram = IF "vram" \in DOMAIN c THEN c.vram ELSE 0
      BY <1>1, <2>2 DEF SpecFields
    <3>3. s.cpu \in Nat /\ s.cpu # 0 /\ s.ram \in Nat /\ s.vram \in Nat
      BY <1>2, <3>1, <3>2 DEF FairRequest
    <3>4. s.gpu \in BOOLEAN
      <4>1. CASE "gpu" \in DOMAIN c
        <5>1. s.gpu = c.gpu
          BY <2>2, <4>1 DEF SpecFields
        <5> QED
          BY <1>2, <4>1, <5>1 DEF FairRequest
      <4>2. CASE "gpu" \notin DOMAIN c
        <5>1. s.gpu = Plain.gpu
          BY <2>2, <4>2 DEF SpecFields
        <5> QED
          BY <1>1, <5>1
      <4> QED
        BY <4>1, <4>2
    <3> QED
      BY <3>3, <3>4
  <2>4. IsFiniteSet(s.assets)
    <3>1. IsFiniteSet({})
      BY FS_EmptySet
    <3>2. s.assets = IF "assets" \in DOMAIN c THEN c.assets ELSE Plain.assets
      BY <2>2 DEF SpecFields
    <3> QED
      BY <1>1, <1>2, <3>1, <3>2 DEF FairRequest
  <2>5. s.hard \in BOOLEAN /\ (s.hard => s.affinity \in {"same_worker", "different_worker", "same_tag", "different_tag"})
    <3>1. s.hard = (IF "hard" \in DOMAIN c THEN c.hard ELSE Plain.hard)
          /\ s.affinity = (IF "affinity" \in DOMAIN c THEN c.affinity ELSE Plain.affinity)
      BY <2>2 DEF SpecFields
    <3>2. CASE "hard" \in DOMAIN c
      BY <1>2, <3>1, <3>2 DEF FairRequest
    <3>3. CASE "hard" \notin DOMAIN c
      BY <1>1, <3>1, <3>3
    <3> QED
      BY <3>2, <3>3
  <2> QED
    BY <2>1, <2>3, <2>4, <2>5 DEF Asked
<1>3. CASE s \in GatedSpec
  <2>1. PICK c : /\ s = With(Plain, c)
                 /\ c \in {[gpu |-> TRUE, vram |-> 1], [capability |-> <<7, 6>>], [device |-> "nvidia"],
                           [runtime |-> TRUE], [cpu |-> 4], [ram |-> 0], [budget |-> 0], [tag |-> "red"],
                           [prefers |-> "red"], [software |-> "blender"], [assets |-> {1, 2}]}
    BY <1>3, Zenon DEF GatedSpec
  <2>2. ASSUME c \in {[capability |-> <<7, 6>>], [device |-> "nvidia"], [runtime |-> TRUE], [budget |-> 0]} PROVE FairRequest(c)
    BY <2>2 DEF FairRequest
  <2>3. ASSUME c \in {[tag |-> "red"], [prefers |-> "red"], [software |-> "blender"]} PROVE FairRequest(c)
    BY <2>3 DEF FairRequest
  <2>4. ASSUME c = [gpu |-> TRUE, vram |-> 1] PROVE FairRequest(c)
    BY <2>4 DEF FairRequest
  <2>5. ASSUME c \in {[cpu |-> 4], [ram |-> 0]} PROVE FairRequest(c)
    BY <2>5 DEF FairRequest
  <2>6. ASSUME c = [assets |-> {1, 2}] PROVE FairRequest(c)
    <3>1. IsFiniteSet({1, 2})
      <4>1. {1, 2} = 1 .. 2
        OBVIOUS
      <4>2. PICK a \in Int, b \in Int : a = 1 /\ b = 2
        OBVIOUS
      <4>3. IsFiniteSet(a .. b)
        BY FS_Interval
      <4> QED
        BY <4>1, <4>2, <4>3
    <3>2. DOMAIN c = {"assets"} /\ c.assets = {1, 2}
      BY <2>6
    <3> QED
      BY <3>1, <3>2 DEF FairRequest
  <2>7. FairRequest(c)
    BY <2>1, <2>2, <2>3, <2>4, <2>5, <2>6
  <2> QED
    BY <1>2, <2>1, <2>7
<1>4. CASE s \in AffineSpec
  <2>1. PICK c : /\ s = With(Plain, c)
                 /\ c \in [affinity : {"same_worker", "different_worker", "same_tag", "different_tag"},
                            hard : BOOLEAN]
    BY <1>4, Zenon DEF AffineSpec
  <2>2. /\ DOMAIN c = {"affinity", "hard"} /\ c.hard \in BOOLEAN
        /\ c.affinity \in {"same_worker", "different_worker", "same_tag", "different_tag"}
    BY <2>1
  <2>3. FairRequest(c)
    BY <2>2 DEF FairRequest
  <2> QED
    BY <1>2, <2>1, <2>2, <2>3
<1> QED
  BY <1>3, <1>4

\* Every trial of a placement is sound.
LEMMA PlacementTrialSound ==
  ASSUME NEW t \in PlacementTrial
  PROVE  PlacementSound(t)
<1>1. /\ t.spec \in GatedSpec \cup AffineSpec /\ t.prior \in SUBSET {1, 2, 3}
      /\ t.sizes \in {<<>>, <<1, 3>>, <<4>>} /\ t.penalty \in {<<>>, <<4, 0, 2>>}
  BY DEF PlacementTrial
<1>2. \A i \in 1 .. 3 : t.profiles[i] \in Profile
  <2>1. Fit \in Profile /\ With(Fit, [tag |-> "blue"]) \in Profile
    BY Zenon DEF Profile
  <2>2. t.profiles \in Profile \X Profile \X Profile
    BY <2>1 DEF PlacementTrial
  <2> QED
    BY <2>2
<1>3. PICK listed : listed = [i \in 1 .. 3 |-> Named(t.profiles[i], 4 - i)]
  OBVIOUS
<1>4. ASSUME NEW i \in 1 .. 3 PROVE Offered(listed[i]) /\ listed[i].id = 4 - i
  <2>1. PICK p \in Profile : p = t.profiles[i]
    BY <1>2
  <2>2. DOMAIN p = ProfileFields /\ Scorable(p)
    BY ProfilesScorable
  <2>3. PICK k \in Nat : k = 4 - i
    BY <1>4
  <2>4. PICK q : q = Named(p, k)
    OBVIOUS
  <2>5. q = [f \in ProfileFields \cup {"id"} |-> IF f = "id" THEN k ELSE p[f]]
    BY <2>2, <2>4 DEF Named
  <2>6. /\ q.cpu = p.cpu /\ q.ram = p.ram /\ q.ramTotal = p.ramTotal /\ q.vram = p.vram /\ q.active = p.active
        /\ q.cost = p.cost /\ q.gpu = p.gpu /\ q.id = k
    BY <2>5 DEF ProfileFields
  <2>7. Offered(q) /\ q.id = k
    BY <2>2, <2>6 DEF Offered, Scorable
  <2>8. listed[i] = q
    BY <1>3, <2>1, <2>3, <2>4
  <2> QED
    BY <2>3, <2>7, <2>8
<1>5. PICK P : P = {listed[i] : i \in 1 .. 3}
  OBVIOUS
<1>6. DOMAIN listed = 1 .. 3 /\ listed \in Seq(P)
  BY <1>3, <1>5
<1>7. \A p \in P : Offered(p) /\ p.id \in 1 .. 3
  BY <1>4, <1>5
<1>8. Distinct(listed)
  BY <1>4, <1>6 DEF Distinct
<1>9. Penalised(t.penalty, P)
  <2>1. CASE t.penalty = <<>>
    BY <2>1 DEF Penalised
  <2>2. CASE t.penalty = <<4, 0, 2>>
    <3>1. \A k \in 1 .. 3 : t.penalty[k] \in Int
      BY <2>2
    <3> QED
      BY <1>7, <3>1 DEF Penalised
  <2> QED
    BY <1>1, <2>1, <2>2
<1>10. Measured(t.sizes)
  <2>1. CASE t.sizes = <<>>
    BY <2>1 DEF Measured
  <2>2. CASE t.sizes = <<1, 3>>
    BY <2>2 DEF Measured
  <2>3. CASE t.sizes = <<4>>
    BY <2>3 DEF Measured
  <2> QED
    BY <1>1, <2>1, <2>2, <2>3
<1>11. IsFiniteSet(t.prior)
  <2>1. t.prior \in SUBSET (1 .. 3)
    BY <1>1
  <2>2. PICK a \in Int, b \in Int : a = 1 /\ b = 3
    OBVIOUS
  <2>3. IsFiniteSet(a .. b)
    BY FS_Interval
  <2> QED
    BY <2>1, <2>2, <2>3, FS_Subset
<1>12. PICK tagOf : tagOf = TagsOf(listed)
  OBVIOUS
<1>13. ASSUME NEW i \in DOMAIN listed PROVE tagOf[listed[i].id] = listed[i].tag
  <2>1. PICK w \in 1 .. 3 : w = listed[i].id
    BY <1>4, <1>6, <1>13
  <2>2. PICK q : q = CHOOSE p \in ToSet(listed) : p.id = w
    OBVIOUS
  <2>3. \E p \in ToSet(listed) : p.id = w
    BY <2>1 DEF ToSet
  <2>4. q \in ToSet(listed) /\ q.id = w
    BY <2>2, <2>3, Zenon
  <2>5. PICK j \in DOMAIN listed : q = listed[j]
    BY <2>4 DEF ToSet
  <2>6. i = j
    BY <1>8, <2>1, <2>4, <2>5 DEF Distinct
  <2>7. tagOf[w] = q.tag
    BY <1>12, <2>2 DEF TagsOf
  <2> QED
    BY <2>1, <2>5, <2>6, <2>7
<1>14. PICK spec : spec = t.spec
  OBVIOUS
<1>15. /\ DOMAIN spec = SpecFields /\ Asked(spec)
       /\ spec.hard => spec.affinity \in {"same_worker", "different_worker", "same_tag", "different_tag"}
  BY <1>1, <1>14, RequestsAsked
<1>16. RankingSound(t, listed, tagOf, Evaluate(t.spec, listed, t.prior, tagOf, t.sizes, t.penalty))
  BY <1>6, <1>7, <1>8, <1>9, <1>10, <1>11, <1>13, <1>14, <1>15, RankingRight
<1>17. PlacementKept(t, listed, tagOf)
  BY <1>16, Zenon DEF PlacementKept
<1> QED
  BY <1>3, <1>12, <1>17, Zenon DEF PlacementSound

-----------------------------------------------------------------------------
(* The invariant of the planning trials                                    *)

\* The inputs of the planning trials.
PlanTrial == PlacementTrial \cup SizingTrial \cup LocateTrial \cup RttTrial \cup QueueTrial
\* The invariant that carries them: a planning trial has an input.
PlanType == trial.area = "plan" => trial.input \in PlanTrial

\* Every planning trial is sound.
LEMMA PlanTrialsSound ==
  ASSUME PlanType
  PROVE  PlansSound
<1> SUFFICES ASSUME trial.area = "plan"
             PROVE  CASE trial.input.kind = "place" -> PlacementSound(trial.input)
                      [] trial.input.kind = "size" -> SizingSound(trial.input)
                      [] trial.input.kind = "locate" -> LocateSound(trial.input)
                      [] trial.input.kind = "rtt" -> RttSound(trial.input)
                      [] trial.input.kind = "queue" -> QueueSound(trial.input)
  BY DEF PlansSound
<1>1. PICK t : t = trial.input /\ t \in PlanTrial
  BY DEF PlanType
<1>2. CASE t \in PlacementTrial
  <2>1. t.kind = "place"
    BY <1>2 DEF PlacementTrial
  <2> QED
    BY <1>1, <1>2, <2>1, PlacementTrialSound
<1>3. CASE t \in SizingTrial
  <2>1. t.kind = "size"
    BY <1>3 DEF SizingTrial
  <2> QED
    BY <1>1, <1>3, <2>1, SizingTrialSound
<1>4. CASE t \in LocateTrial
  <2>1. t.kind = "locate"
    BY <1>4 DEF LocateTrial
  <2> QED
    BY <1>1, <1>4, <2>1, LocateTrialSound
<1>5. CASE t \in RttTrial
  <2>1. t.kind = "rtt" /\ t.current \in Nat /\ t.sample \in Nat
    BY <1>5 DEF RttTrial
  <2>2. RttSound(t)
    BY <2>1, RttBetween
  <2> QED
    BY <1>1, <2>1, <2>2
<1>6. CASE t \in QueueTrial
  <2>1. t.kind = "queue"
    BY <1>6 DEF QueueTrial
  <2> QED
    BY <1>1, <1>6, <2>1, QueueTrialSound
<1> QED
  BY <1>1, <1>2, <1>3, <1>4, <1>5, <1>6 DEF PlanTrial

\* PlansKept: in every trial hard requirements decide who is a candidate and
\* preferences only the order, groups are complete and the best, all units of
\* a sized cluster are given away and deadlines are promised exactly if some
\* group meets them, candidates for an asset are the best who may serve it,
\* and ten minutes of waiting pass everybody who came later (PlansSound).
THEOREM PlansKept == Spec => []PlansSound
<1>1. Init => PlanType
  BY DEF Init, NoTrial, PlanType
<1>2. PlanType /\ [Next]_trial => PlanType'
  <2> SUFFICES ASSUME PlanType, [Next]_trial
               PROVE  PlanType'
    OBVIOUS
  <2>1. CASE TryTransfer
    BY <2>1 DEF TryTransfer, Try, PlanType
  <2>2. CASE TryPlan
    BY <2>2 DEF TryPlan, Try, PlanType, PlanTrial
  <2>3. CASE TryShards
    BY <2>3 DEF TryShards, Try, PlanType
  <2>4. CASE TryScenePackage
    BY <2>4 DEF TryScenePackage, Try, PlanType
  <2>5. CASE TryIntelligence
    BY <2>5 DEF TryIntelligence, Try, PlanType
  <2>6. CASE EndTrial
    BY <2>6 DEF EndTrial, NoTrial, PlanType
  <2>7. CASE UNCHANGED trial
    BY <2>7 DEF PlanType
  <2> QED
    BY <2>1, <2>2, <2>3, <2>4, <2>5, <2>6, <2>7 DEF Next
<1>3. PlanType => PlansSound
  BY PlanTrialsSound
<1> QED
  BY <1>1, <1>2, <1>3, PTL DEF Spec
==============================================================================
