-------------------------- MODULE SummariesProofs --------------------------
(***************************************************************************)
(* The theorems about Summaries: a summary is atomic, its figures agree,   *)
(* the catalogue was there and no answer shows more than its caller's      *)
(* claims allow.  The figures of a payments answer are sums over sets of   *)
(* payments of any size, so the first half is about sums.                  *)
(***************************************************************************)
EXTENDS Summaries, SequenceTheorems, FiniteSetTheorems, TLAPS

(* Induction.  The property is given as the set of what has it: the       *)
(* library's induction theorems take it as an operator, but the smallest   *)
(* counterexample of WFMin is there for a set, too.                        *)

\* Every subset of a finite set is in G if each is whose proper subsets are.
LEMMA SubsetInduction ==
    ASSUME NEW S, IsFiniteSet(S), NEW G,
           \A T \in SUBSET S : (\A x \in T : T \ {x} \in G) => T \in G
    PROVE  S \in G
<1> DEFINE Bad == {T \in SUBSET S : T \notin G}
<1> SUFFICES ASSUME S \notin G PROVE FALSE  OBVIOUS
<1>0. FiniteSubsetsOf(S) = SUBSET S  BY FS_FiniteSubsetsOfFinite
<1>1. IsWellFoundedOn(StrictSubsetOrdering(S), SUBSET S)
  <2>1. IsWellFoundedOn(StrictSubsetOrdering(S), FiniteSubsetsOf(S))
    BY FS_StrictSubsetOrderingWellFounded
  <2>2. QED  BY <1>0, <2>1
<1>2. Bad \subseteq SUBSET S /\ Bad # {}  OBVIOUS
<1>3. PICK T \in Bad : \A U \in Bad : <<U, T>> \notin StrictSubsetOrdering(S)
  BY <1>1, <1>2, WFMin
<1>4. PICK x \in T : T \ {x} \notin G  BY <1>3
<1>5. <<T \ {x}, T>> \in StrictSubsetOrdering(S)  BY <1>3, <1>4 DEF StrictSubsetOrdering
<1>6. QED  BY <1>3, <1>4, <1>5

\* Every natural number is in a set that has 0 and, with n, n + 1.
LEMMA NatSetInduction ==
    ASSUME NEW G, 0 \in G, \A n \in Nat : n \in G => n + 1 \in G
    PROVE  \A n \in Nat : n \in G
<1> SUFFICES ASSUME NEW n \in Nat, n \notin G PROVE FALSE  OBVIOUS
<1> DEFINE Bad == {0..k : k \in {i \in 0..n : i \notin G}}
<1>1. IsFiniteSet(0..n)  BY FS_Interval
<1>2. IsWellFoundedOn(StrictSubsetOrdering(0..n), SUBSET (0..n))
  BY <1>1, FS_StrictSubsetOrderingWellFounded, FS_FiniteSubsetsOfFinite
<1>3. Bad \subseteq SUBSET (0..n) /\ Bad # {}  OBVIOUS
<1>4. PICK T \in Bad : \A U \in Bad : <<U, T>> \notin StrictSubsetOrdering(0..n)
  BY <1>2, <1>3, WFMin
<1>5. PICK k \in 0..n : k \notin G /\ T = 0..k  BY <1>4
<1>6. k - 1 \in Nat /\ k - 1 \notin G  BY <1>5
<1>7. 0..(k - 1) \in Bad  BY <1>5, <1>6
<1>8. <<0..(k - 1), T>> \in StrictSubsetOrdering(0..n)
  <2>1. k \in T /\ k \notin 0..(k-1) BY <1>5
  <2>2. 0..(k-1) \subseteq T /\ T \subseteq 0..n BY <1>5
  <2> QED BY <2>1, <2>2 DEF StrictSubsetOrdering
<1>9. QED  BY <1>4, <1>7, <1>8

\* A set of natural numbers has a least element.
LEMMA LeastExists ==
    ASSUME NEW V, \A k \in V : k \in Nat, V # {}
    PROVE  \E m \in V : \A k \in V : m <= k
<1> SUFFICES ASSUME \A m \in V : \E k \in V : k < m  PROVE FALSE  OBVIOUS
<1> DEFINE G == {n \in Nat : \A k \in 0..n : k \notin V}
<1>1. 0 \in G  OBVIOUS
<1>2. ASSUME NEW n \in Nat, n \in G  PROVE n + 1 \in G
  BY <1>2
<1> HIDE DEF G
<1>3. \A n \in Nat : n \in G  BY <1>1, <1>2, NatSetInduction
<1>4. QED  BY <1>3 DEF G

-----------------------------------------------------------------------------
(* Sums over finite sets, which the community modules define by a fold.    *)

\* The element that the fold takes first.
Picked(s) == CHOOSE x \in s : TRUE
\* One step of the recursion.
SumStep(F, g, s) == IF s = {} THEN 0 ELSE F[Picked(s)] + g[s \ {Picked(s)}]
\* g gives each subset of S the sum of F over it.
Sums(g, F, S) == g = [s \in SUBSET S |-> SumStep(F, g, s)]
\* The subsets of at most n elements.
Small(S, n) == {s \in SUBSET S : Cardinality(s) <= n}

\* A recursion over the subsets of a finite set defines a function: by
\* induction over how large a subset may be.
LEMMA SumsExist ==
    ASSUME NEW S, IsFiniteSet(S), NEW F
    PROVE  \E g : Sums(g, F, S)
<1> DEFINE G == {n \in Nat : \E g : g = [s \in Small(S, n) |-> SumStep(F, g, s)]}
<1>1. 0 \in G
  <2> DEFINE g == [s \in Small(S, 0) |-> 0]
  <2>1. ASSUME NEW s \in Small(S, 0)  PROVE s = {}
    <3>1. s \in SUBSET S /\ Cardinality(s) <= 0  BY DEF Small
    <3>2. IsFiniteSet(s)  BY <3>1, FS_Subset
    <3>3. Cardinality(s) = 0  BY <3>1, <3>2, FS_CardinalityType
    <3>4. QED  BY <3>2, <3>3, FS_EmptySet
  <2>2. \A s \in Small(S, 0) : SumStep(F, g, s) = 0  BY <2>1 DEF SumStep
  <2>3. g = [s \in Small(S, 0) |-> SumStep(F, g, s)]  BY <2>2
  <2>4. QED  BY <2>3
<1>2. ASSUME NEW n \in Nat, n \in G PROVE n + 1 \in G
  <2>1. PICK g : g = [s \in Small(S, n) |-> SumStep(F, g, s)]  BY <1>2
  <2> DEFINE h == [s \in Small(S, n + 1) |-> SumStep(F, g, s)]
  <2>2. Small(S, n) \subseteq Small(S, n + 1)
    <3>1. \A s \in SUBSET S : Cardinality(s) \in Nat  BY FS_Subset, FS_CardinalityType
    <3>2. QED BY <3>1 DEF Small
  <2>3. \A s \in Small(S, n) : h[s] = g[s]  BY <2>1, <2>2
  <2>4. ASSUME NEW s \in Small(S, n + 1) PROVE SumStep(F, g, s) = SumStep(F, h, s)
    <3>1. CASE s = {}  BY <3>1 DEF SumStep
    <3>2. CASE s # {}
      <4>1. Picked(s) \in s  BY <3>2 DEF Picked
      <4>2. s \ {Picked(s)} \in Small(S, n)
        BY <4>1, <2>4, FS_Subset, FS_RemoveElement, FS_CardinalityType DEF Small
      <4>3. QED  BY <4>2, <2>3, <3>2 DEF SumStep
    <3>3. QED  BY <3>1, <3>2
  <2>5. h = [s \in Small(S, n + 1) |-> SumStep(F, h, s)]  BY <2>4
  <2>6. \E f : f = [s \in Small(S, n + 1) |-> SumStep(F, f, s)]
    <3> HIDE DEF h
    <3> QED  BY <2>5
  <2>7. QED  BY <2>6
<1>3. Cardinality(S) \in G
  <2>1. Cardinality(S) \in Nat BY FS_CardinalityType
  <2> HIDE DEF G
  <2> QED BY <1>1, <1>2, <2>1, NatSetInduction
<1>4. Small(S, Cardinality(S)) = SUBSET S  BY FS_Subset DEF Small
<1>5. QED  BY <1>3, <1>4 DEF Sums

\* What two such functions give a set depends on the summands in it alone.
LEMMA SumsAgree ==
    ASSUME NEW S, IsFiniteSet(S), NEW F, NEW g, Sums(g, F, S),
           NEW T, IsFiniteSet(T), NEW H, NEW h, Sums(h, H, T),
           NEW U, U \subseteq S, U \subseteq T, \A x \in U : F[x] = H[x]
    PROVE  g[U] = h[U]
<1> DEFINE G == {u \in SUBSET U : g[u] = h[u]}
<1>1. IsFiniteSet(U)  BY FS_Subset
<1>2. ASSUME NEW V \in SUBSET U, \A x \in V : V \ {x} \in G
      PROVE  V \in G
  <2>1. g[V] = SumStep(F, g, V) /\ h[V] = SumStep(H, h, V)  BY DEF Sums
  <2>2. CASE V = {}  BY <2>1, <2>2 DEF SumStep
  <2>3. CASE V # {}
    <3>1. Picked(V) \in V  BY <2>3 DEF Picked
    <3>2. g[V \ {Picked(V)}] = h[V \ {Picked(V)}]  BY <1>2, <3>1
    <3>3. F[Picked(V)] = H[Picked(V)]  BY <3>1
    <3>4. QED  BY <2>1, <2>3, <3>2, <3>3 DEF SumStep
  <2>4. QED  BY <2>2, <2>3
<1>3. \A V \in SUBSET U : (\A x \in V : V \ {x} \in G) => V \in G  BY <1>2
<1> HIDE DEF G
<1>4. U \in G  BY <1>1, <1>3, SubsetInduction
<1>5. QED  BY <1>4 DEF G

\* The sum of the community modules is the value of such a function.
LEMMA SumEvaluates ==
    ASSUME NEW S, IsFiniteSet(S), NEW F
    PROVE  \E g : Sums(g, F, S) /\ SumFunctionOnSet(F, S) = g[S]
<1> DEFINE g == CHOOSE h : h =
      [s \in SUBSET S |->
         IF s = {} THEN 0 ELSE F[CHOOSE x \in s : TRUE] + h[s \ {CHOOSE x \in s : TRUE}]]
<1>1. SumFunctionOnSet(F, S) = g[S]
  BY DEF SumFunctionOnSet, FoldFunctionOnSet, MapThenFoldSet
<1>2. g = [s \in SUBSET S |->
             IF s = {} THEN 0 ELSE F[CHOOSE x \in s : TRUE] + g[s \ {CHOOSE x \in s : TRUE}]]
  <2>1. PICK f : Sums(f, F, S)  BY SumsExist
  <2>2. f = [s \in SUBSET S |->
               IF s = {} THEN 0 ELSE F[CHOOSE x \in s : TRUE] + f[s \ {CHOOSE x \in s : TRUE}]]
    BY <2>1 DEF Sums, SumStep, Picked
  <2>3. QED  BY <2>2
<1>3. QED  BY <1>1, <1>2 DEF Sums, SumStep, Picked

\* The empty sum.
LEMMA SumEmpty ==
    ASSUME NEW F  PROVE  SumFunctionOnSet(F, {}) = 0
<1>1. PICK g : Sums(g, F, {}) /\ SumFunctionOnSet(F, {}) = g[{}]  BY SumEvaluates, FS_EmptySet
<1>2. QED  BY <1>1 DEF Sums, SumStep

\* A sum is its first summand, whichever CHOOSE takes, and the sum of the rest.
LEMMA SumPicked ==
    ASSUME NEW S, IsFiniteSet(S), S # {}, NEW F
    PROVE  SumFunctionOnSet(F, S) = F[Picked(S)] + SumFunctionOnSet(F, S \ {Picked(S)})
<1> DEFINE T == S \ {Picked(S)}
<1>1. IsFiniteSet(T)  BY FS_Subset
<1>2. PICK g : Sums(g, F, S) /\ SumFunctionOnSet(F, S) = g[S]  BY SumEvaluates
<1>3. PICK h : Sums(h, F, T) /\ SumFunctionOnSet(F, T) = h[T]  BY <1>1, SumEvaluates
<1>4. g[T] = h[T]  BY <1>1, <1>2, <1>3, SumsAgree
<1>5. g[S] = SumStep(F, g, S)  BY <1>2 DEF Sums
<1>6. QED  BY <1>2, <1>3, <1>4, <1>5 DEF SumStep

\* Equal summands, equal sums.
LEMMA SumCongruence ==
    ASSUME NEW S, IsFiniteSet(S), NEW F, NEW H, \A x \in S : F[x] = H[x]
    PROVE  SumFunctionOnSet(F, S) = SumFunctionOnSet(H, S)
<1>1. PICK g : Sums(g, F, S) /\ SumFunctionOnSet(F, S) = g[S]  BY SumEvaluates
<1>2. PICK h : Sums(h, H, S) /\ SumFunctionOnSet(H, S) = h[S]  BY SumEvaluates
<1>3. g[S] = h[S]  BY <1>1, <1>2, SumsAgree
<1>4. QED  BY <1>1, <1>2, <1>3

\* A sum of natural numbers is one.
LEMMA SumType ==
    ASSUME NEW S, IsFiniteSet(S), NEW F, \A x \in S : F[x] \in Nat
    PROVE  SumFunctionOnSet(F, S) \in Nat
<1> DEFINE G == {T \in SUBSET S : SumFunctionOnSet(F, T) \in Nat}
<1>1. ASSUME NEW T \in SUBSET S, \A x \in T : T \ {x} \in G  PROVE T \in G
  <2>1. CASE T = {}  BY <2>1, SumEmpty
  <2>2. CASE T # {}
    <3>1. Picked(T) \in T  BY <2>2 DEF Picked
    <3>2. IsFiniteSet(T)  BY FS_Subset
    <3>3. SumFunctionOnSet(F, T \ {Picked(T)}) \in Nat  BY <1>1, <3>1
    <3>4. F[Picked(T)] \in Nat  BY <3>1
    <3>5. SumFunctionOnSet(F, T) = F[Picked(T)] + SumFunctionOnSet(F, T \ {Picked(T)})
      BY <2>2, <3>2, SumPicked, Zenon
    <3>6. SumFunctionOnSet(F, T) \in Nat  BY <3>3, <3>4, <3>5
    <3>7. QED  BY <3>6
  <2>3. QED  BY <2>1, <2>2
<1>2. \A T \in SUBSET S : (\A x \in T : T \ {x} \in G) => T \in G  BY <1>1
<1> HIDE DEF G
<1>3. S \in G  BY <1>2, SubsetInduction
<1>4. QED  BY <1>3 DEF G

\* A sum may be taken in any order: any summand may come first.
LEMMA SumRemove ==
    ASSUME NEW S, IsFiniteSet(S), NEW F, \A x \in S : F[x] \in Nat, NEW a \in S
    PROVE  SumFunctionOnSet(F, S) = F[a] + SumFunctionOnSet(F, S \ {a})
<1> DEFINE Sum(T) == SumFunctionOnSet(F, T)
           G == {T \in SUBSET S : \A x \in T : Sum(T) = F[x] + Sum(T \ {x})}
<1>0. \A T \in SUBSET S : IsFiniteSet(T) /\ Sum(T) \in Nat  BY FS_Subset, SumType
<1>1. ASSUME NEW T \in SUBSET S, \A x \in T : T \ {x} \in G  PROVE T \in G
  <2> SUFFICES ASSUME NEW x \in T  PROVE Sum(T) = F[x] + Sum(T \ {x})  OBVIOUS
  <2> DEFINE p == Picked(T)
  <2>1. p \in T  BY DEF Picked
  <2>2. Sum(T) = F[p] + Sum(T \ {p})  BY <1>0, SumPicked
  <2> HIDE DEF p, Sum
  <2>3. CASE x = p  BY <2>2, <2>3
  <2>4. CASE x # p
    <3>1. Sum(T \ {p}) = F[x] + Sum((T \ {p}) \ {x})  BY <1>1, <2>1, <2>4
    <3>2. Sum(T \ {x}) = F[p] + Sum((T \ {x}) \ {p})  BY <1>1, <2>1, <2>4
    <3>3. (T \ {p}) \ {x} = (T \ {x}) \ {p}  OBVIOUS
    <3>4. F[p] \in Nat /\ F[x] \in Nat /\ Sum((T \ {x}) \ {p}) \in Nat  BY <1>0, <2>1
    <3>5. QED  BY <2>2, <3>1, <3>2, <3>3, <3>4
  <2>5. QED  BY <2>3, <2>4
<1>2. \A T \in SUBSET S : (\A x \in T : T \ {x} \in G) => T \in G  BY <1>1
<1> HIDE DEF G
<1>3. S \in G  BY <1>2, SubsetInduction
<1>4. QED  BY <1>3 DEF G

\* The sum over two disjoint sets is that of their sums.
LEMMA SumDisjoint ==
    ASSUME NEW A, IsFiniteSet(A), NEW B, IsFiniteSet(B), A \cap B = {},
           NEW F, \A x \in A \cup B : F[x] \in Nat
    PROVE  SumFunctionOnSet(F, A \cup B) = SumFunctionOnSet(F, A) + SumFunctionOnSet(F, B)
<1> DEFINE Sum(T) == SumFunctionOnSet(F, T)
           G == {T \in SUBSET A : Sum(T \cup B) = Sum(T) + Sum(B)}
<1>0. IsFiniteSet(A \cup B)  BY FS_Union
<1>1. \A T \in SUBSET (A \cup B) : IsFiniteSet(T) /\ Sum(T) \in Nat  BY <1>0, FS_Subset, SumType
<1>2. ASSUME NEW T \in SUBSET A, \A x \in T : T \ {x} \in G  PROVE T \in G
  <2> SUFFICES Sum(T \cup B) = Sum(T) + Sum(B)  OBVIOUS
  <2>1. CASE T = {}
    <3>1. Sum(T) = 0  BY <2>1, SumEmpty
    <3>2. Sum(T \cup B) = Sum(B)
      <4>1. T \cup B = B  BY <2>1
      <4>2. QED  BY <4>1
    <3>3. Sum(B) \in Nat  BY <1>1
    <3>4. QED  BY <3>1, <3>2, <3>3
  <2>2. CASE T # {}
    <3>1. PICK x \in T : TRUE  BY <2>2
    <3>2. Sum(T) = F[x] + Sum(T \ {x})  BY <1>1, SumRemove
    <3>3. Sum(T \cup B) = F[x] + Sum((T \cup B) \ {x})  BY <1>1, SumRemove
    <3>4. Sum((T \cup B) \ {x}) = Sum((T \ {x}) \cup B)
      <4>1. (T \cup B) \ {x} = (T \ {x}) \cup B  OBVIOUS
      <4>2. QED  BY <4>1
    <3>5. Sum((T \ {x}) \cup B) = Sum(T \ {x}) + Sum(B)  BY <1>2
    <3>6. F[x] \in Nat /\ Sum(T \ {x}) \in Nat /\ Sum(B) \in Nat  BY <1>1
    <3>7. QED  BY <3>2, <3>3, <3>4, <3>5, <3>6
  <2>3. QED  BY <2>1, <2>2
<1>3. \A T \in SUBSET A : (\A x \in T : T \ {x} \in G) => T \in G  BY <1>2
<1> HIDE DEF G
<1>4. A \in G  BY <1>3, SubsetInduction
<1>5. QED  BY <1>4 DEF G

\* A sum over more is not less.
LEMMA SumMonotone ==
    ASSUME NEW B, IsFiniteSet(B), NEW A \in SUBSET B, NEW F, \A x \in B : F[x] \in Nat
    PROVE  SumFunctionOnSet(F, A) <= SumFunctionOnSet(F, B)
<1>1. IsFiniteSet(A) /\ IsFiniteSet(B \ A)  BY FS_Subset
<1>2. A \cup (B \ A) = B  OBVIOUS
<1>3. SumFunctionOnSet(F, B) = SumFunctionOnSet(F, A) + SumFunctionOnSet(F, B \ A)
  BY <1>1, <1>2, SumDisjoint
<1>4. SumFunctionOnSet(F, A) \in Nat /\ SumFunctionOnSet(F, B \ A) \in Nat  BY <1>1, SumType
<1>5. QED  BY <1>3, <1>4

\* The sum over a union counts what both have once.
LEMMA SumOfUnion ==
    ASSUME NEW A, IsFiniteSet(A), NEW B, IsFiniteSet(B), NEW F, \A x \in A \cup B : F[x] \in Nat
    PROVE  SumFunctionOnSet(F, A \cup B) <= SumFunctionOnSet(F, A) + SumFunctionOnSet(F, B)
<1>1. IsFiniteSet(B \ A)  BY FS_Subset
<1>2. A \cup (B \ A) = A \cup B  OBVIOUS
<1>3. SumFunctionOnSet(F, A \cup B) = SumFunctionOnSet(F, A) + SumFunctionOnSet(F, B \ A)
  <2>1. A \cap (B \ A) = {} OBVIOUS
  <2>2. QED  BY <1>1, <1>2, <2>1, SumDisjoint
<1>4. SumFunctionOnSet(F, B \ A) <= SumFunctionOnSet(F, B)  BY SumMonotone
<1>5. /\ SumFunctionOnSet(F, A) \in Nat /\ SumFunctionOnSet(F, B) \in Nat
      /\ SumFunctionOnSet(F, B \ A) \in Nat  BY <1>1, SumType
<1>6. QED  BY <1>3, <1>4, <1>5

\* The sums of the parts of a partition add up to the sum over the whole.
LEMMA SumOfParts ==
    ASSUME NEW S, IsFiniteSet(S), NEW F, \A x \in S : F[x] \in Nat,
           NEW R, IsFiniteSet(R), NEW P, \A r \in R : P[r] \subseteq S,
           \A q, r \in R : q # r => P[q] \cap P[r] = {},
           \A x \in S : \E r \in R : x \in P[r],
           NEW V, \A r \in R : V[r] = SumFunctionOnSet(F, P[r])
    PROVE  SumFunctionOnSet(V, R) = SumFunctionOnSet(F, S)
<1> DEFINE Joined(T) == UNION {P[r] : r \in T}
           G == {T \in SUBSET R : SumFunctionOnSet(V, T) = SumFunctionOnSet(F, Joined(T))}
<1>0. \A T \in SUBSET R : IsFiniteSet(T)  BY FS_Subset
<1>1. \A T \in SUBSET R : Joined(T) \subseteq S  OBVIOUS
<1>2. \A U \in SUBSET S : IsFiniteSet(U)  BY FS_Subset
<1>3. \A r \in R : V[r] \in Nat
  <2> SUFFICES ASSUME NEW r \in R PROVE V[r] \in Nat  OBVIOUS
  <2>1. SumFunctionOnSet(F, P[r]) \in Nat  BY <1>2, SumType
  <2>2. QED  BY <2>1
<1>4. ASSUME NEW T \in SUBSET R, \A x \in T : T \ {x} \in G  PROVE T \in G
  <2> SUFFICES SumFunctionOnSet(V, T) = SumFunctionOnSet(F, Joined(T))  OBVIOUS
  <2>1. CASE T = {}
    <3>1. Joined(T) = {}  BY <2>1
    <3>2. QED  BY <2>1, <3>1, SumEmpty
  <2>2. CASE T # {}
    <3>1. PICK r \in T : TRUE  BY <2>2
    <3> DEFINE U == T \ {r}
    <3>2. SumFunctionOnSet(V, T) = V[r] + SumFunctionOnSet(V, U)  BY <1>0, <1>3, SumRemove
    <3>3. SumFunctionOnSet(V, U) = SumFunctionOnSet(F, Joined(U))  BY <1>4
    <3>4. P[r] \cap Joined(U) = {}  OBVIOUS
    <3>5. SumFunctionOnSet(F, P[r] \cup Joined(U))
            = SumFunctionOnSet(F, P[r]) + SumFunctionOnSet(F, Joined(U))
      <4>1. P[r] \in SUBSET S /\ Joined(U) \in SUBSET S  BY <1>1
      <4>2. IsFiniteSet(P[r]) /\ IsFiniteSet(Joined(U))  BY <4>1, <1>2
      <4>3. \A x \in P[r] \cup Joined(U) : F[x] \in Nat  BY <4>1
      <4> HIDE DEF Joined, U
      <4>4. QED  BY <3>4, <4>2, <4>3, SumDisjoint
    <3>6. P[r] \cup Joined(U) = Joined(T)  OBVIOUS
    <3>7. V[r] = SumFunctionOnSet(F, P[r])  OBVIOUS
    <3> HIDE DEF Joined, U
    <3>8. QED  BY <3>2, <3>3, <3>5, <3>6, <3>7
  <2>3. QED  BY <2>1, <2>2
<1>5. \A T \in SUBSET R : (\A x \in T : T \ {x} \in G) => T \in G  BY <1>4
<1>6. Joined(R) = S  OBVIOUS
<1> HIDE DEF G
<1>7. R \in G  BY <1>5, SubsetInduction
<1>8. SumFunctionOnSet(V, R) = SumFunctionOnSet(F, Joined(R))  BY <1>7 DEF G
<1> HIDE DEF Joined
<1>9. QED  BY <1>6, <1>8

\* A sum of ones counts.
LEMMA SumOfOnes ==
    ASSUME NEW S, IsFiniteSet(S), NEW F, \A x \in S : F[x] = 1
    PROVE  SumFunctionOnSet(F, S) = Cardinality(S)
<1> DEFINE G == {T \in SUBSET S : SumFunctionOnSet(F, T) = Cardinality(T)}
<1>1. ASSUME NEW T \in SUBSET S, \A x \in T : T \ {x} \in G  PROVE T \in G
  <2>1. CASE T = {}  BY <2>1, SumEmpty, FS_EmptySet
  <2>2. CASE T # {}
    <3>1. PICK x \in T : TRUE  BY <2>2
    <3>2. IsFiniteSet(T)  BY FS_Subset
    <3>3. SumFunctionOnSet(F, T) = F[x] + SumFunctionOnSet(F, T \ {x})  BY <3>2, SumRemove
    <3>4. SumFunctionOnSet(F, T \ {x}) = Cardinality(T) - 1  BY <1>1, <3>2, FS_RemoveElement
    <3>5. Cardinality(T) \in Nat /\ F[x] = 1  BY <3>2, FS_CardinalityType
    <3>6. SumFunctionOnSet(F, T) = Cardinality(T)  BY <3>3, <3>4, <3>5
    <3>7. QED  BY <3>6
  <2>3. QED  BY <2>1, <2>2
<1>2. \A T \in SUBSET S : (\A x \in T : T \ {x} \in G) => T \in G  BY <1>1
<1> HIDE DEF G
<1>3. S \in G  BY <1>2, SubsetInduction
<1>4. QED  BY <1>3 DEF G

-----------------------------------------------------------------------------
(* The rows of the largest totals.                                         *)

\* Some row has the largest total.
LEMMA MaximumExists ==
    ASSUME NEW S, IsFiniteSet(S), S # {}, \A x \in S : x.total \in Nat
    PROVE  \E m \in S : \A x \in S : m.total >= x.total
<1> DEFINE G == {T \in SUBSET S : T = {} \/ \E m \in T : \A x \in T : m.total >= x.total}
<1>1. ASSUME NEW T \in SUBSET S, \A x \in T : T \ {x} \in G  PROVE T \in G
  <2> SUFFICES ASSUME T # {}  PROVE \E m \in T : \A x \in T : m.total >= x.total  OBVIOUS
  <2>1. PICK a \in T : TRUE  OBVIOUS
  <2>2. T \ {a} \in G  BY <1>1
  <2>3. CASE T \ {a} = {}
    <3>1. \A x \in T : x = a  BY <2>3
    <3>2. \A x \in T : a.total >= x.total  BY <3>1
    <3>3. QED  BY <3>2
  <2>4. CASE T \ {a} # {}
    <3>1. PICK m \in T \ {a} : \A x \in T \ {a} : m.total >= x.total  BY <2>2, <2>4
    <3>2. CASE m.total >= a.total
      <4>1. \A x \in T : m.total >= x.total  BY <3>1, <3>2
      <4>2. QED  BY <4>1
    <3>3. CASE ~(m.total >= a.total)
      <4>1. \A x \in T : a.total >= x.total  BY <3>1, <3>3
      <4>2. QED  BY <4>1
    <3>4. QED  BY <3>2, <3>3
  <2>5. QED  BY <2>3, <2>4
<1>2. \A T \in SUBSET S : (\A x \in T : T \ {x} \in G) => T \in G  BY <1>1
<1> HIDE DEF G
<1>3. S \in G  BY <1>2, SubsetInduction
<1>4. QED  BY <1>3 DEF G

\* For each n there are n rows whose totals no other row exceeds.
LEMMA LargestExist ==
    ASSUME NEW rs, IsFiniteSet(rs), \A r \in rs : r.total \in Nat
    PROVE  \A n \in Nat : n <= Cardinality(rs) =>
              \E S \in kSubset(n, rs) : \A r \in S, s \in rs \ S : r.total >= s.total
<1> DEFINE Largest(S) == \A r \in S, s \in rs \ S : r.total >= s.total
           G == {n \in Nat : n <= Cardinality(rs) => \E S \in kSubset(n, rs) : Largest(S)}
<1>1. 0 \in G
  <2>1. {} \in kSubset(0, rs)  BY FS_EmptySet DEF kSubset
  <2>2. Largest({})  OBVIOUS
  <2>3. QED  BY <2>1, <2>2
<1>2. ASSUME NEW n \in Nat, n \in G  PROVE n + 1 \in G
  <2> SUFFICES ASSUME n + 1 <= Cardinality(rs)
               PROVE  \E S \in kSubset(n + 1, rs) : Largest(S)
    OBVIOUS
  <2>0. Cardinality(rs) \in Nat  BY FS_CardinalityType
  <2>1. PICK S \in kSubset(n, rs) : Largest(S)  BY <1>2, <2>0
  <2>2. S \in SUBSET rs /\ Cardinality(S) = n  BY <2>1 DEF kSubset
  <2>3. IsFiniteSet(S) /\ IsFiniteSet(rs \ S)  BY <2>2, FS_Subset
  <2>4. rs \ S # {}
    <3>1. S # rs  BY <2>0, <2>2
    <3>2. QED  BY <2>2, <3>1
  <2>5. PICK m \in rs \ S : \A x \in rs \ S : m.total >= x.total  BY <2>3, <2>4, MaximumExists
  <2>6. Cardinality(S \cup {m}) = n + 1  BY <2>2, <2>3, <2>5, FS_AddElement
  <2>7. S \cup {m} \in kSubset(n + 1, rs)  BY <2>2, <2>5, <2>6 DEF kSubset
  <2>8. Largest(S \cup {m})  BY <2>1, <2>5
  <2>9. QED  BY <2>7, <2>8
<1> HIDE DEF G
<1>3. \A n \in Nat : n \in G  BY <1>1, <1>2, NatSetInduction
<1>4. QED  BY <1>3 DEF G

\* ORDER BY ... LIMIT n returns rows that are there, and all of them if it
\* returns fewer than n.
LEMMA TopIs ==
    ASSUME NEW rs, IsFiniteSet(rs), \A r \in rs : r.total \in Nat, NEW n \in Nat
    PROVE  /\ Top(rs, n) \in SUBSET rs
           /\ Cardinality(Top(rs, n)) < n => Top(rs, n) = rs
<1>0. Cardinality(rs) \in Nat  BY FS_CardinalityType
<1>1. CASE Cardinality(rs) <= n  BY <1>1 DEF Top
<1>2. CASE ~(Cardinality(rs) <= n)
  <2>1. \E S \in kSubset(n, rs) : \A r \in S, s \in rs \ S : r.total >= s.total
    BY <1>0, <1>2, LargestExist
  <2>2. Top(rs, n) \in kSubset(n, rs)  BY <1>2, <2>1 DEF Top
  <2>3. QED  BY <2>2 DEF kSubset
<1>3. QED  BY <1>1, <1>2

-----------------------------------------------------------------------------
(* Payments, and the groups of GROUP BY.                                   *)

\* The image of a finite set is finite.
LEMMA FiniteImage ==
    ASSUME NEW S, IsFiniteSet(S), NEW f
    PROVE  IsFiniteSet({f[x] : x \in S})
<1> DEFINE T == {f[x] : x \in S}
           g == [x \in S |-> f[x]]
<1>1. g \in Surjection(S, T)  BY DEF Surjection
<1> HIDE DEF g
<1>2. QED  BY <1>1, FS_Surjection

\* The amounts as a function.
Amount == [p \in Payments |-> p.amount]

\* The volume of some payments is the sum of their amounts.
LEMMA VolumeIs ==
    ASSUME NEW facts \in SUBSET Payments
    PROVE  /\ IsFiniteSet(facts)
           /\ Volume(facts) = SumFunctionOnSet(Amount, facts)
           /\ \A p \in facts : Amount[p] \in Nat
           /\ Volume(facts) \in Nat
<1>1. IsFiniteSet(facts)  BY PaymentAssumption, FS_Subset
<1> DEFINE F == [p \in facts |-> p.amount]
<1>2. Volume(facts) = SumFunctionOnSet(F, facts)  BY DEF Volume, SumOf, SumFunction
<1>3. \A p \in facts : F[p] = Amount[p]  BY DEF Amount
<1>4. \A p \in facts : Amount[p] \in Nat  BY PaymentAssumption DEF Amount
<1> HIDE DEF F
<1>5. SumFunctionOnSet(F, facts) = SumFunctionOnSet(Amount, facts)  BY <1>1, <1>3, SumCongruence
<1>6. SumFunctionOnSet(Amount, facts) \in Nat  BY <1>1, <1>4, SumType
<1>7. QED  BY <1>1, <1>2, <1>4, <1>5, <1>6

\* The total of some rows, as a sum over any function that is their totals.
LEMMA TotalIs ==
    ASSUME NEW rs, IsFiniteSet(rs), NEW F, \A r \in rs : F[r] = r.total
    PROVE  Total(rs) = SumFunctionOnSet(F, rs)
<1> DEFINE H == [r \in rs |-> r.total]
<1>1. Total(rs) = SumFunctionOnSet(H, rs)  BY DEF Total, SumOf, SumFunction
<1>2. \A r \in rs : H[r] = F[r]  OBVIOUS
<1> HIDE DEF H
<1>3. QED  BY <1>1, <1>2, SumCongruence

\* The same of their counts.
LEMMA CountIs ==
    ASSUME NEW rs, IsFiniteSet(rs), NEW F, \A r \in rs : F[r] = r.count
    PROVE  Count(rs) = SumFunctionOnSet(F, rs)
<1> DEFINE H == [r \in rs |-> r.count]
<1>1. Count(rs) = SumFunctionOnSet(H, rs)  BY DEF Count, SumOf, SumFunction
<1>2. \A r \in rs : H[r] = F[r]  OBVIOUS
<1> HIDE DEF H
<1>3. QED  BY <1>1, <1>2, SumCongruence


\* The payments of a group.
Part(facts, K, k) == {p \in facts : K[p] = k}

\* A row of GROUP BY tells the volume and the number of its payments.
LEMMA GroupIs ==
    ASSUME NEW facts \in SUBSET Payments, NEW K, NEW k
    PROVE  LET g == Group(facts, K, k) IN
           /\ g.key = k
           /\ g.total = Volume(Part(facts, K, k)) /\ g.total \in Nat
           /\ g.count = Cardinality(Part(facts, K, k)) /\ g.count \in Nat
<1>1. Group(facts, K, k) = [key |-> k, total |-> Volume(Part(facts, K, k)),
                            count |-> Cardinality(Part(facts, K, k))]
  BY DEF Group, Part
<1>2. Part(facts, K, k) \in SUBSET Payments  BY DEF Part
<1>3. Volume(Part(facts, K, k)) \in Nat /\ Cardinality(Part(facts, K, k)) \in Nat
  BY <1>2, VolumeIs, FS_CardinalityType
<1>4. QED  BY <1>1, <1>3

\* The rows of GROUP BY are finitely many, one per key.
LEMMA GroupsTyped ==
    ASSUME NEW facts \in SUBSET Payments, NEW K
    PROVE  /\ IsFiniteSet(Groups(facts, K))
           /\ \A r \in Groups(facts, K) : r = Group(facts, K, r.key)
           /\ \A r \in Groups(facts, K) : r.total \in Nat /\ r.count \in Nat
           /\ \A p \in facts : \E r \in Groups(facts, K) : r.key = K[p]
<1> DEFINE f == [p \in facts |-> Group(facts, K, K[p])]
<1>1. Groups(facts, K) = {f[p] : p \in facts}  BY DEF Groups
<1>2. IsFiniteSet(facts)  BY VolumeIs
<1>3. IsFiniteSet(Groups(facts, K))
  <2> HIDE DEF f
  <2>1. QED  BY <1>1, <1>2, FiniteImage
<1>4. \A p \in facts :
         Group(facts, K, K[p]) \in Groups(facts, K) /\ Group(facts, K, K[p]).key = K[p]
  BY GroupIs DEF Groups
<1>5. \A r \in Groups(facts, K) : \E p \in facts : r = Group(facts, K, K[p])  BY DEF Groups
<1>6. ASSUME NEW r \in Groups(facts, K)
      PROVE  r = Group(facts, K, r.key) /\ r.total \in Nat /\ r.count \in Nat
  BY <1>5, GroupIs
<1>7. QED  BY <1>3, <1>4, <1>6

\* Some rows of GROUP BY add up to the payments that have their keys.
LEMMA GroupsAddUp ==
    ASSUME NEW facts \in SUBSET Payments, NEW K, NEW rs \in SUBSET Groups(facts, K)
    PROVE  LET counted == {p \in facts : \E r \in rs : r.key = K[p]} IN
           /\ Total(rs) = Volume(counted)
           /\ Count(rs) = Cardinality(counted)
<1> DEFINE counted == {p \in facts : \E r \in rs : r.key = K[p]}
           P == [r \in rs |-> Part(facts, K, r.key)]
           V == [r \in rs |-> r.total]
           C == [r \in rs |-> r.count]
           One == [p \in Payments |-> 1]
<1>1. IsFiniteSet(rs)  BY GroupsTyped, FS_Subset
<1>2. counted \in SUBSET Payments  OBVIOUS
<1>3. /\ \A r \in rs : P[r] \subseteq counted
      /\ \A q, r \in rs : q # r => P[q] \cap P[r] = {}
      /\ \A p \in counted : \E r \in rs : p \in P[r]
  <2>1. \A q, r \in rs : q.key = r.key => q = r  BY GroupsTyped
  <2>2. QED  BY <2>1 DEF Part
<1>4. \A r \in rs : P[r] \in SUBSET Payments  BY DEF Part
<1>5. \A r \in rs : r.total = Volume(P[r])  BY GroupsTyped, GroupIs
<1>6. \A r \in rs : r.count = Cardinality(P[r])  BY GroupsTyped, GroupIs
<1>7. \A r \in rs : V[r] = SumFunctionOnSet(Amount, P[r])  BY <1>4, <1>5, VolumeIs
<1>8. \A r \in rs : C[r] = SumFunctionOnSet(One, P[r])
  <2> SUFFICES ASSUME NEW r \in rs  PROVE r.count = SumFunctionOnSet(One, P[r])  OBVIOUS
  <2>1. r.count = Cardinality(P[r])  BY <1>6
  <2>2. IsFiniteSet(P[r]) /\ \A p \in P[r] : One[p] = 1  BY <1>4, VolumeIs
  <2>3. QED  BY <2>1, <2>2, SumOfOnes
<1>9. Total(rs) = SumFunctionOnSet(V, rs) /\ Count(rs) = SumFunctionOnSet(C, rs)
  <2>1. (\A r \in rs : V[r] = r.total) /\ (\A r \in rs : C[r] = r.count)  OBVIOUS
  <2> HIDE DEF V, C
  <2>2. Total(rs) = SumFunctionOnSet(V, rs)  BY <1>1, <2>1, TotalIs
  <2>3. Count(rs) = SumFunctionOnSet(C, rs)  BY <1>1, <2>1, CountIs
  <2>4. QED  BY <2>2, <2>3
<1>10. /\ IsFiniteSet(counted) /\ Volume(counted) = SumFunctionOnSet(Amount, counted)
       /\ \A p \in counted : Amount[p] \in Nat
  <2> HIDE DEF counted
  <2>1. QED  BY <1>2, VolumeIs
<1>11. SumFunctionOnSet(One, counted) = Cardinality(counted)
  <2>1. \A p \in counted : One[p] = 1  BY <1>2
  <2> HIDE DEF counted, One
  <2>2. QED  BY <1>10, <2>1, SumOfOnes
<1>12. \A p \in counted : One[p] \in Nat  BY <1>2
<1> HIDE DEF P, V, C, One, counted
<1>13. SumFunctionOnSet(V, rs) = SumFunctionOnSet(Amount, counted)
  BY <1>1, <1>3, <1>7, <1>10, SumOfParts
<1>14. SumFunctionOnSet(C, rs) = SumFunctionOnSet(One, counted)
  BY <1>1, <1>3, <1>8, <1>10, <1>12, SumOfParts
<1>15. QED  BY <1>9, <1>10, <1>11, <1>13, <1>14 DEF counted

\* All rows of GROUP BY add up to all payments, whatever they are grouped by.
LEMMA GroupsOfAll ==
    ASSUME NEW facts \in SUBSET Payments, NEW K
    PROVE  /\ Total(Groups(facts, K)) = Volume(facts)
           /\ Count(Groups(facts, K)) = Cardinality(facts)
<1>1. {p \in facts : \E r \in Groups(facts, K) : r.key = K[p]} = facts  BY GroupsTyped
<1>2. QED  BY <1>1, GroupsAddUp

\* The volumes of fewer payments, and of two sets of payments together.
LEMMA VolumeBounds ==
    ASSUME NEW A \in SUBSET Payments, NEW B \in SUBSET Payments
    PROVE  /\ A \subseteq B => Volume(A) <= Volume(B)
           /\ Volume(A \cup B) <= Volume(A) + Volume(B)
<1>1. A \cup B \in SUBSET Payments  OBVIOUS
<1>2. A \subseteq B => Volume(A) <= Volume(B)  BY VolumeIs, SumMonotone
<1>3. Volume(A \cup B) <= Volume(A) + Volume(B)
  <2>1. \A p \in A \cup B : Amount[p] \in Nat  BY <1>1, VolumeIs
  <2>2. SumFunctionOnSet(Amount, A \cup B)
          <= SumFunctionOnSet(Amount, A) + SumFunctionOnSet(Amount, B)
    BY <2>1, VolumeIs, SumOfUnion
  <2>3. QED  BY <1>1, <2>2, VolumeIs
<1>4. QED  BY <1>2, <1>3

\* A cut list stays below the volume, and reaches it if it was not cut.
LEMMA TopAddsUp ==
    ASSUME NEW facts \in SUBSET Payments, NEW K, NEW n \in Nat
    PROVE  LET top == Top(Groups(facts, K), n) IN
           /\ Total(top) \in Nat /\ Total(top) <= Volume(facts)
           /\ Cardinality(top) < n => Total(top) = Volume(facts)
<1> DEFINE rs == Groups(facts, K)
           top == Top(rs, n)
           counted == {p \in facts : \E r \in top : r.key = K[p]}
<1>1. top \in SUBSET rs /\ (Cardinality(top) < n => top = rs)
  <2>1. IsFiniteSet(rs) /\ \A r \in rs : r.total \in Nat  BY GroupsTyped
  <2> HIDE DEF rs
  <2>2. QED  BY <2>1, TopIs
<1>2. Total(top) = Volume(counted)
  <2> HIDE DEF top
  <2>1. QED  BY <1>1, GroupsAddUp
<1>3. Volume(counted) \in Nat /\ Volume(counted) <= Volume(facts)
  <2>1. counted \in SUBSET Payments /\ counted \subseteq facts  OBVIOUS
  <2> HIDE DEF counted
  <2>2. QED  BY <2>1, VolumeIs, VolumeBounds
<1>4. Total(rs) = Volume(facts)  BY GroupsOfAll
<1> HIDE DEF top
<1>5. QED  BY <1>1, <1>2, <1>3, <1>4 DEF top

\* The row of completed payments of a status mix.
LEMMA CompletedIs ==
    ASSUME NEW facts \in SUBSET Payments, NEW K
    PROVE  Total(Completed(Groups(facts, K))) = Volume({p \in facts : K[p] = "Completed"})
<1> DEFINE rs == Completed(Groups(facts, K))
<1>1. rs \in SUBSET Groups(facts, K)  BY DEF Completed, Keyed
<1>2. {p \in facts : \E r \in rs : r.key = K[p]} = {p \in facts : K[p] = "Completed"}
  BY GroupsTyped DEF Completed, Keyed
<1> HIDE DEF rs
<1>3. QED  BY <1>1, <1>2, GroupsAddUp DEF rs

-----------------------------------------------------------------------------
(* The answers of the payments tools.                                      *)

\* Values that are, per rail, sums over the rows of the rail add up to the
\* sum over all rows.
LEMMA PartsByRail ==
    ASSUME NEW rs, IsFiniteSet(rs), NEW F, \A x \in rs : F[x] \in Nat,
           NEW R, IsFiniteSet(R), \A q, r \in R : q.rail = r.rail => q = r,
           \A x \in rs : \E r \in R : r.rail = x.key,
           NEW V, \A r \in R : V[r] = SumFunctionOnSet(F, Keyed(rs, r.rail))
    PROVE  SumFunctionOnSet(V, R) = SumFunctionOnSet(F, rs)
<1> DEFINE P == [r \in R |-> Keyed(rs, r.rail)]
<1>1. /\ \A r \in R : P[r] \subseteq rs
      /\ \A q, r \in R : q # r => P[q] \cap P[r] = {}
      /\ \A x \in rs : \E r \in R : x \in P[r]
      /\ \A r \in R : V[r] = SumFunctionOnSet(F, P[r])
  BY DEF Keyed
<1> HIDE DEF P
<1>2. QED  BY <1>1, SumOfParts

\* The totals per rail add up to the total.
LEMMA TotalByRail ==
    ASSUME NEW rs, IsFiniteSet(rs), \A x \in rs : x.total \in Nat,
           NEW R, IsFiniteSet(R), \A q, r \in R : q.rail = r.rail => q = r,
           \A x \in rs : \E r \in R : r.rail = x.key,
           NEW V, \A r \in R : V[r] = Total(Keyed(rs, r.rail))
    PROVE  SumFunctionOnSet(V, R) = Total(rs)
<1> DEFINE F == [x \in rs |-> x.total]
<1>1. \A x \in rs : F[x] = x.total  OBVIOUS
<1>2. Total(rs) = SumFunctionOnSet(F, rs)
  <2> HIDE DEF F
  <2> QED  BY <1>1, TotalIs
<1>3. ASSUME NEW r \in R  PROVE V[r] = SumFunctionOnSet(F, Keyed(rs, r.rail))
  <2> DEFINE some == Keyed(rs, r.rail)
  <2>1. IsFiniteSet(some) /\ \A x \in some : F[x] = x.total  BY FS_Subset DEF Keyed
  <2> HIDE DEF F
  <2>2. Total(some) = SumFunctionOnSet(F, some)  BY <2>1, TotalIs
  <2>3. QED  BY <2>2
<1> HIDE DEF F
<1>4. QED  BY <1>1, <1>2, <1>3, PartsByRail

\* The counts per rail add up to the count.
LEMMA CountByRail ==
    ASSUME NEW rs, IsFiniteSet(rs), \A x \in rs : x.count \in Nat,
           NEW R, IsFiniteSet(R), \A q, r \in R : q.rail = r.rail => q = r,
           \A x \in rs : \E r \in R : r.rail = x.key,
           NEW V, \A r \in R : V[r] = Count(Keyed(rs, r.rail))
    PROVE  SumFunctionOnSet(V, R) = Count(rs)
<1> DEFINE F == [x \in rs |-> x.count]
<1>1. \A x \in rs : F[x] = x.count  OBVIOUS
<1>2. Count(rs) = SumFunctionOnSet(F, rs)
  <2> HIDE DEF F
  <2> QED  BY <1>1, CountIs
<1>3. ASSUME NEW r \in R  PROVE V[r] = SumFunctionOnSet(F, Keyed(rs, r.rail))
  <2> DEFINE some == Keyed(rs, r.rail)
  <2>1. IsFiniteSet(some) /\ \A x \in some : F[x] = x.count  BY FS_Subset DEF Keyed
  <2> HIDE DEF F
  <2>2. Count(some) = SumFunctionOnSet(F, some)  BY <2>1, CountIs
  <2>3. QED  BY <2>2
<1> HIDE DEF F
<1>4. QED  BY <1>1, <1>2, <1>3, PartsByRail

\* What the answers of both payments tools have in common.
LEMMA PaymentFiguresHold ==
    ASSUME NEW sent \in SUBSET Payments, NEW received \in SUBSET Payments, NEW K, NEW L,
           NEW outs, outs = Groups(sent, K), NEW ins, ins = Groups(received, L),
           NEW a, a.out = Total(outs), a.in = Total(ins),
           IsFiniteSet(a.byType), \A q, r \in a.byType : q.rail = r.rail => q = r,
           \A x \in outs \cup ins : \E r \in a.byType : r.rail = x.key,
           \A r \in a.byType : /\ r.out = Total(Keyed(outs, r.rail))
                               /\ r.in = Total(Keyed(ins, r.rail)),
           Total(Completed(a.statusMix)) = Volume(sent \cup received)
    PROVE  PaymentFigures(a)
<1>1. /\ IsFiniteSet(outs) /\ \A x \in outs : x.total \in Nat
      /\ IsFiniteSet(ins) /\ \A x \in ins : x.total \in Nat
  BY GroupsTyped
<1>2. a.out = SumOf(a.byType, LAMBDA r : r.out)
  <2> DEFINE V == [r \in a.byType |-> r.out]
  <2>1. \A r \in a.byType : V[r] = Total(Keyed(outs, r.rail))  OBVIOUS
  <2>2. SumOf(a.byType, LAMBDA r : r.out) = SumFunctionOnSet(V, a.byType)  BY DEF SumOf, SumFunction
  <2> HIDE DEF V
  <2>3. SumFunctionOnSet(V, a.byType) = Total(outs)  BY <1>1, <2>1, TotalByRail
  <2>4. QED  BY <2>2, <2>3
<1>3. a.in = SumOf(a.byType, LAMBDA r : r.in)
  <2> DEFINE V == [r \in a.byType |-> r.in]
  <2>1. \A r \in a.byType : V[r] = Total(Keyed(ins, r.rail))  OBVIOUS
  <2>2. SumOf(a.byType, LAMBDA r : r.in) = SumFunctionOnSet(V, a.byType)  BY DEF SumOf, SumFunction
  <2> HIDE DEF V
  <2>3. SumFunctionOnSet(V, a.byType) = Total(ins)  BY <1>1, <2>1, TotalByRail
  <2>4. QED  BY <2>2, <2>3
<1>4. /\ Total(Completed(a.statusMix)) <= a.out + a.in
      /\ Total(Completed(a.statusMix)) >= a.out
      /\ Total(Completed(a.statusMix)) >= a.in
  <2>1. Total(outs) = Volume(sent)  BY GroupsOfAll
  <2>1a. Total(ins) = Volume(received)  BY GroupsOfAll
  <2>2. /\ Volume(sent \cup received) <= Volume(sent) + Volume(received)
        /\ Volume(sent) <= Volume(sent \cup received)
        /\ Volume(received) <= Volume(sent \cup received)
    <3>1. sent \cup received \in SUBSET Payments  OBVIOUS
    <3>2. QED  BY <3>1, VolumeBounds
  <2>3. Volume(sent) \in Nat /\ Volume(received) \in Nat /\ Volume(sent \cup received) \in Nat
    <3>1. sent \cup received \in SUBSET Payments  OBVIOUS
    <3>2. QED  BY <3>1, VolumeIs
  <2>4. QED  BY <2>1, <2>1a, <2>2, <2>3
<1>5. QED  BY <1>2, <1>3, <1>4 DEF PaymentFigures

\* The list by rail, made of two queries, has each rail of either once.
LEMMA ByRail ==
    ASSUME NEW outs, IsFiniteSet(outs), NEW ins, IsFiniteSet(ins), NEW f,
           DOMAIN f = Rails(outs, ins), \A k \in Rails(outs, ins) : f[k].rail = k,
           NEW R, R = Range(f)
    PROVE  /\ IsFiniteSet(R)
           /\ \A q, r \in R : q.rail = r.rail => q = r
           /\ \A x \in outs \cup ins : \E r \in R : r.rail = x.key
<1> DEFINE key == [r \in outs \cup ins |-> r.key]
<1>1. IsFiniteSet({key[r] : r \in outs \cup ins})
  <2>1. IsFiniteSet(outs \cup ins)  BY FS_Union
  <2> HIDE DEF key
  <2>2. QED  BY <2>1, FiniteImage
<1>2. Rails(outs, ins) = {key[r] : r \in outs \cup ins}  BY DEF Rails
<1>3. IsFiniteSet(R)
  <2>1. IsFiniteSet(Rails(outs, ins))  BY <1>1, <1>2
  <2>2. R = {f[k] : k \in Rails(outs, ins)}  BY DEF Range
  <2>3. QED  BY <2>1, <2>2, FiniteImage
<1>4. \A x \in outs \cup ins : x.key \in Rails(outs, ins)  BY DEF Rails
<1>5. QED  BY <1>3, <1>4 DEF Range

\* The payments that a client sent and those it received.
Sent(d, n) == {p \in CompletedIn(d, "current") : p.payor = n}
Received(d, n) == {p \in CompletedIn(d, "current") : p.payee = n}

\* The figures of a client's summary agree if its queries read one database.
LEMMA ClientFiguresHold ==
    ASSUME NEW d, NEW n, NEW s, NEW mask, NEW rs,
           rs[2] = Outbound(d, n), rs[3] = Inbound(d, n), rs[5] = Counterparties(d, n),
           rs[6] = StatusMix(d, n), rs[7] = PayorBanks(d, n)
    PROVE  /\ PaymentFigures(ClientAnswer(s, rs, mask))
           /\ ClientFigures(ClientAnswer(s, rs, mask))
<1> DEFINE sent == Sent(d, n)
           received == Received(d, n)
           current == {p \in Facts(d) : p.period = "current" /\ n \in {p.payor, p.payee}}
           outs == rs[2]
           ins == rs[3]
           a == ClientAnswer(s, rs, mask)
           K == [p \in sent |-> p.rail]
           L == [p \in received |-> p.rail]
           f == [k \in Rails(outs, ins) |-> ClientRail(outs, ins, k)]
<1>1. sent \in SUBSET Payments /\ received \in SUBSET Payments /\ current \in SUBSET Payments
  BY DEF Sent, Received, CompletedIn, Facts
<1>2. outs = Groups(sent, K) /\ ins = Groups(received, L)
  BY DEF Outbound, Inbound, Sent, Received, GroupBy
<1>3. rs[5] = Top(Groups(sent, [p \in sent |-> <<p.payee, p.payeeBank, p.rail>>]), TopParties)
  BY DEF Counterparties, Sent, GroupBy
<1>4. rs[6] = Groups(current, [p \in current |-> d.status[p]])  BY DEF StatusMix, GroupBy
<1>5. rs[7] = Groups(sent, [p \in sent |-> p.payorBank])  BY DEF PayorBanks, Sent, GroupBy
<1>6. /\ a.out = Total(outs) /\ a.in = Total(ins)
      /\ a.byType = {ClientRail(outs, ins, k) : k \in Rails(outs, ins)}
      /\ a.top = rs[5] /\ a.statusMix = rs[6] /\ a.banks = rs[7]
  BY DEF ClientAnswer
<1>7. a.byType = Range(f) /\ DOMAIN f = Rails(outs, ins)  BY <1>6 DEF Range
<1>8. \A k \in Rails(outs, ins) :
         /\ f[k].rail = k
         /\ f[k].out = Total(Keyed(outs, k)) /\ f[k].in = Total(Keyed(ins, k))
         /\ f[k].count = Count(Keyed(outs, k))
  BY DEF ClientRail
<1> HIDE DEF f, K, L, sent, received, a, current, outs, ins
<1>9. /\ IsFiniteSet(outs) /\ IsFiniteSet(ins)
      /\ \A x \in outs : x.total \in Nat /\ x.count \in Nat
  BY <1>1, <1>2, GroupsTyped
<1>10. \A r \in a.byType :
          /\ r.out = Total(Keyed(outs, r.rail)) /\ r.in = Total(Keyed(ins, r.rail))
          /\ r.count = Count(Keyed(outs, r.rail))
  BY <1>7, <1>8 DEF Range
<1>11. /\ IsFiniteSet(a.byType)
       /\ \A q, r \in a.byType : q.rail = r.rail => q = r
       /\ \A x \in outs \cup ins : \E r \in a.byType : r.rail = x.key
  <2>1. \A k \in Rails(outs, ins) : f[k].rail = k  BY <1>8
  <2>2. QED  BY <1>7, <1>9, <2>1, ByRail
<1>12. Total(Completed(rs[6])) = Volume(sent \cup received)
  <2>1. {p \in current : [q \in current |-> d.status[q]][p] = "Completed"} = sent \cup received
    BY DEF current, sent, received, Sent, Received, CompletedIn, Facts
  <2>2. QED  BY <1>1, <1>4, <2>1, CompletedIs
<1>13. PaymentFigures(a)
  <2>1. \A r \in a.byType : /\ r.out = Total(Keyed(outs, r.rail))
                            /\ r.in = Total(Keyed(ins, r.rail))
    BY <1>10
  <2>2. a.out = Total(outs) /\ a.in = Total(ins)  BY <1>6
  <2>3. Total(Completed(a.statusMix)) = Volume(sent \cup received)  BY <1>6, <1>12
  <2>4. QED  BY <1>1, <1>2, <1>11, <2>1, <2>2, <2>3, PaymentFiguresHold
<1>14. a.out = Total(a.banks)
  BY <1>1, <1>2, <1>5, <1>6, GroupsOfAll
<1>15. Count(a.banks) = SumOf(a.byType, LAMBDA r : r.count)
  <2> DEFINE V == [r \in a.byType |-> r.count]
  <2>1. \A r \in a.byType : V[r] = Count(Keyed(outs, r.rail))  BY <1>10
  <2>2. SumOf(a.byType, LAMBDA r : r.count) = SumFunctionOnSet(V, a.byType)
    BY DEF SumOf, SumFunction
  <2> HIDE DEF V
  <2>3. SumFunctionOnSet(V, a.byType) = Count(outs)  BY <1>9, <1>11, <2>1, CountByRail
  <2>4. Count(outs) = Cardinality(sent)  BY <1>1, <1>2, GroupsOfAll
  <2>5. Count(a.banks) = Cardinality(sent)  BY <1>1, <1>5, <1>6, GroupsOfAll
  <2>6. QED  BY <2>2, <2>3, <2>4, <2>5
<1>16. /\ Total(a.top) <= a.out
       /\ Cardinality(a.top) < TopParties => Total(a.top) = a.out
  <2>1. TopParties \in Nat  BY PaymentAssumption
  <2>2. a.out = Volume(sent)  BY <1>1, <1>2, <1>6, GroupsOfAll
  <2>3. QED  BY <1>1, <1>3, <1>6, <2>1, <2>2, TopAddsUp
<1>17. ClientFigures(a)  BY <1>14, <1>15, <1>16 DEF ClientFigures
<1>18. QED  BY <1>13, <1>17 DEF a

\* The payments that a bank originated and those it received.
Originated(d, n) == {p \in CompletedIn(d, "current") : p.payorBank = n}
Benefited(d, n) == {p \in CompletedIn(d, "current") : p.payeeBank = n}

\* The figures of a bank's summary agree if its queries read one database.
LEMMA BankFiguresHold ==
    ASSUME NEW d, NEW n, NEW s, NEW rs,
           rs[3] = Originating(d, n), rs[4] = Beneficiary(d, n), rs[6] = BankStatusMix(d, n),
           rs[7] = TopOriginators(d, n), rs[8] = TopBeneficiaries(d, n),
           rs[9] = CounterpartyBanks(d, n)
    PROVE  /\ PaymentFigures(BankAnswer(s, rs))
           /\ BankFigures(BankAnswer(s, rs))
<1> DEFINE sent == Originated(d, n)
           received == Benefited(d, n)
           current == {p \in Facts(d) : p.period = "current" /\ n \in {p.payorBank, p.payeeBank}}
           between == {p \in CompletedIn(d, "current") :
                          n \in {p.payorBank, p.payeeBank} /\ p.payorBank # p.payeeBank}
           outs == rs[3]
           ins == rs[4]
           a == BankAnswer(s, rs)
           K == [p \in sent |-> p.rail]
           L == [p \in received |-> p.rail]
           f == [k \in Rails(outs, ins) |-> BankRail(outs, ins, k)]
<1>1. /\ sent \in SUBSET Payments /\ received \in SUBSET Payments
      /\ current \in SUBSET Payments /\ between \in SUBSET Payments
  BY DEF Originated, Benefited, CompletedIn, Facts
<1>2. outs = Groups(sent, K) /\ ins = Groups(received, L)
  BY DEF Originating, Beneficiary, Originated, Benefited, GroupBy
<1>3. /\ rs[7] = Top(Groups(sent, [p \in sent |-> <<p.payor, p.rail>>]), TopBanks)
      /\ rs[8] = Top(Groups(received, [p \in received |-> <<p.payee, p.rail>>]), TopBanks)
  BY DEF TopOriginators, TopBeneficiaries, Originated, Benefited, GroupBy
<1>4. rs[6] = Groups(current, [p \in current |-> d.status[p]])  BY DEF BankStatusMix, GroupBy
<1>5. rs[9] = Top(Groups(between, [p \in between |->
                     IF p.payorBank = n THEN p.payeeBank ELSE p.payorBank]), TopBanks)
  BY DEF CounterpartyBanks, GroupBy
<1>6. /\ a.out = Total(outs) /\ a.in = Total(ins)
      /\ a.byType = {BankRail(outs, ins, k) : k \in Rails(outs, ins)}
      /\ a.originators = rs[7] /\ a.beneficiaries = rs[8]
      /\ a.statusMix = rs[6] /\ a.banks = rs[9]
  BY DEF BankAnswer
<1>7. a.byType = Range(f) /\ DOMAIN f = Rails(outs, ins)  BY <1>6 DEF Range
<1>8. \A k \in Rails(outs, ins) :
         /\ f[k].rail = k
         /\ f[k].out = Total(Keyed(outs, k)) /\ f[k].in = Total(Keyed(ins, k))
  BY DEF BankRail
<1>9. between \subseteq sent \cup received  BY DEF Originated, Benefited
<1> HIDE DEF f, K, L, sent, received, a, current, between, outs, ins
<1>10. IsFiniteSet(outs) /\ IsFiniteSet(ins)  BY <1>1, <1>2, GroupsTyped
<1>11. \A r \in a.byType : /\ r.out = Total(Keyed(outs, r.rail))
                           /\ r.in = Total(Keyed(ins, r.rail))
  BY <1>7, <1>8 DEF Range
<1>12. /\ IsFiniteSet(a.byType)
       /\ \A q, r \in a.byType : q.rail = r.rail => q = r
       /\ \A x \in outs \cup ins : \E r \in a.byType : r.rail = x.key
  <2>1. \A k \in Rails(outs, ins) : f[k].rail = k  BY <1>8
  <2>2. QED  BY <1>7, <1>10, <2>1, ByRail
<1>13. Total(Completed(a.statusMix)) = Volume(sent \cup received)
  <2>1. {p \in current : [q \in current |-> d.status[q]][p] = "Completed"} = sent \cup received
    BY DEF current, sent, received, Originated, Benefited, CompletedIn, Facts
  <2>2. QED  BY <1>1, <1>4, <1>6, <2>1, CompletedIs
<1>14. PaymentFigures(a)
  <2>1. a.out = Total(outs) /\ a.in = Total(ins)  BY <1>6
  <2>2. QED  BY <1>1, <1>2, <1>11, <1>12, <1>13, <2>1, PaymentFiguresHold
<1>15. BankFigures(a)
  <2>1. TopBanks \in Nat  BY PaymentAssumption
  <2>2. a.out = Volume(sent) /\ a.in = Volume(received)
    <3>1. Total(outs) = Volume(sent)  BY <1>1, <1>2, GroupsOfAll
    <3>2. Total(ins) = Volume(received)  BY <1>1, <1>2, GroupsOfAll
    <3>3. QED  BY <1>6, <3>1, <3>2
  <2>3. Total(a.originators) <= a.out  BY <1>1, <1>3, <1>6, <2>1, <2>2, TopAddsUp
  <2>4. Total(a.beneficiaries) <= a.in  BY <1>1, <1>3, <1>6, <2>1, <2>2, TopAddsUp
  <2>5. Total(a.banks) <= Volume(between)  BY <1>1, <1>5, <1>6, <2>1, TopAddsUp
  <2>6. sent \cup received \in SUBSET Payments  BY <1>1
  <2>7. Volume(between) <= Volume(sent \cup received)  BY <1>1, <1>9, <2>6, VolumeBounds
  <2>8. Volume(between) \in Nat /\ Volume(sent \cup received) \in Nat  BY <1>1, <2>6, VolumeIs
  <2>9. Total(a.banks) \in Nat  BY <1>1, <1>5, <1>6, <2>1, TopAddsUp
  <2>10. Total(a.banks) <= Total(Completed(a.statusMix))  BY <1>13, <2>5, <2>7, <2>8, <2>9
  <2>11. QED  BY <2>3, <2>4, <2>10 DEF BankFigures
<1>16. QED  BY <1>14, <1>15 DEF a

-----------------------------------------------------------------------------
(* The distinct values of a column.                                        *)

\* The n + 1 smallest values of a set that turn out to be at most n are all
\* of its values.
LEMMA SampledAll ==
    ASSUME NEW V, \A k \in V : k \in Nat, NEW n \in Nat, ~(Cardinality(FirstOf(V, n + 1)) > n)
    PROVE  FirstOf(V, n + 1) = V
<1> DEFINE F == FirstOf(V, n + 1)
           Below(m) == {k \in V : k < m}
<1>0. \A m \in Nat : IsFiniteSet(Below(m)) /\ Cardinality(Below(m)) \in Nat
  <2> TAKE m \in Nat
  <2>1. IsFiniteSet(0..m)  BY FS_Interval
  <2>2. Below(m) \in SUBSET (0..m)  OBVIOUS
  <2>3. QED  BY <2>1, <2>2, FS_Subset, FS_CardinalityType
<1> SUFFICES ASSUME V \ F # {}  PROVE FALSE  BY DEF FirstOf
<1>1. PICK m \in V \ F : \A k \in V \ F : m <= k  BY LeastExists
<1>2. Cardinality(Below(m)) > n  BY <1>0, <1>1 DEF FirstOf
<1>3. F = Below(m)
  <2>1. Below(m) \subseteq F  BY <1>1
  <2>2. ASSUME NEW k \in F, k >= m  PROVE FALSE
    <3>1. Below(m) \in SUBSET Below(k) /\ k \in Nat  BY <1>1, <2>2 DEF FirstOf
    <3>2. Cardinality(Below(m)) <= Cardinality(Below(k))  BY <1>0, <3>1, FS_Subset
    <3>3. Cardinality(Below(k)) < n + 1  BY DEF FirstOf
    <3>4. m \in Nat  BY <1>1
    <3> HIDE DEF Below
    <3>5. QED  BY <1>0, <1>2, <3>1, <3>2, <3>3, <3>4
  <2>3. F \subseteq Below(m)  BY <1>1, <2>2 DEF FirstOf
  <2>4. QED  BY <2>1, <2>3
<1>4. ~(Cardinality(F) > n)  OBVIOUS
<1> HIDE DEF F, Below
<1>5. QED  BY <1>0, <1>2, <1>3, <1>4

\* _sample_enum_values lists all values of a column or none.
LEMMA SampledIs ==
    ASSUME NEW d \in Databases, NEW c \in Columns, Sampled(d, c) # NoValues
    PROVE  Sampled(d, c) = d.values[c]
<1> DEFINE V == d.values[c]
           seen == FirstOf(V, EnumThreshold + 1)
<1>1. \A k \in V : k \in Nat  BY CatalogueAssumption DEF Databases
<1>2. EnumThreshold \in Nat  BY CatalogueAssumption
<1>3. Sampled(d, c) = seen /\ ~(Cardinality(seen) > EnumThreshold)  BY DEF Sampled
<1>4. seen = V
  <2> HIDE DEF seen, V
  <2>1. QED  BY <1>1, <1>2, <1>3, SampledAll DEF seen
<1>5. QED  BY <1>3, <1>4

-----------------------------------------------------------------------------
(* The types of the state machine.                                         *)

\* A row more.
LEMMA AppendIs ==
    ASSUME NEW s, Len(s) \in Nat, s = [i \in 1..Len(s) |-> s[i]], NEW e
    PROVE  LET t == Append(s, e) IN
           /\ Len(t) \in Nat /\ Len(t) = Len(s) + 1 /\ t = [i \in 1..Len(t) |-> t[i]]
           /\ \A i \in 1..Len(s) : t[i] = s[i]
           /\ t[Len(t)] = e /\ t # <<>>
<1> DEFINE S == {s[i] : i \in 1..Len(s)} \cup {e}
<1>1. s \in [1..Len(s) -> S]
  <2>1. [i \in 1..Len(s) |-> s[i]] \in [1..Len(s) -> S]  OBVIOUS
  <2>2. QED  BY <2>1
<1>2. s \in Seq(S)  BY <1>1, SeqDef
<1>3. e \in S  OBVIOUS
<1> HIDE DEF S
<1>4. /\ Append(s, e) \in Seq(S) /\ Append(s, e) # << >>
      /\ Len(Append(s, e)) = Len(s) + 1
      /\ \A i \in 1..Len(s) : Append(s, e)[i] = s[i]
      /\ Append(s, e)[Len(s) + 1] = e
  BY <1>2, <1>3, AppendProperties
<1>5. /\ Len(Append(s, e)) \in Nat
      /\ Append(s, e) \in [1..Len(Append(s, e)) -> S]
  BY <1>4, LenProperties
<1>6. QED  BY <1>4, <1>5

\* The length of a sequence given as a function.
LEMMA LenOfFunction ==
    ASSUME NEW n \in Nat, NEW s, s = [i \in 1..n |-> s[i]]
    PROVE  Len(s) = n
<1> DEFINE S == {s[i] : i \in 1..n}
<1>1. s \in [1..n -> S]
  <2>1. [i \in 1..n |-> s[i]] \in [1..n -> S]  OBVIOUS
  <2>2. QED  BY <2>1
<1>2. s \in Seq(S)  BY <1>1, SeqDef
<1>3. Len(s) \in Nat /\ DOMAIN s = 1..Len(s)  BY <1>2, LenProperties
<1>4. 1..n = 1..Len(s)  BY <1>1, <1>3
<1>5. QED  BY <1>3, <1>4

\* __post_init__ leaves the role and the accounts alone.
LEMMA NormalizedTyped ==
    ASSUME NEW A, NEW claims \in Claims(A)
    PROVE  /\ Normalized(claims) \in Claims(A)
           /\ Normalized(claims).role = claims.role
           /\ Normalized(claims).accounts = claims.accounts
BY DEF Claims, Normalized, Levels, UserRoles

\* To normalize twice is to normalize once.
LEMMA NormalizedTwice ==
    ASSUME NEW A, NEW claims \in Claims(A)
    PROVE  Normalized(Normalized(claims)) = Normalized(claims)
BY DEF Claims, Normalized, Levels, UserRoles

\* The context of nobody is one.
LEMMA AnonymousTyped == ASSUME NEW A PROVE Anonymous \in Claims(A)
BY DEF Claims, Anonymous, Levels, Roles, UserRoles

\* The context of a header is one, and so is its payload.
LEMMA ContextTyped ==
    ASSUME NEW h \in Headers, NEW g \in {0, 1}
    PROVE  /\ ContextOf(h, g) \in Claims(AccountNames)
           /\ h.payload \in Claims(AccountNames)
<1>2. h.payload \in Claims(AccountNames)
  <2>1. CASE h = NoHeader  BY <2>1, AnonymousTyped DEF NoHeader
  <2>2. CASE \E claims \in Identities, k \in {0, 1} : h = Header(claims, k)
    BY <2>2, NormalizedTyped, SummaryAssumption DEF Header
  <2>3. QED  BY <2>1, <2>2 DEF Headers
<1>3. QED  BY <1>2, NormalizedTyped, AnonymousTyped DEF ContextOf

\* A commit of another application leads to a state of the database.
LEMMA ChangedTyped ==
    ASSUME NEW d \in Databases, NEW e \in Changed(d)
    PROVE  e \in Databases
<1>1. CASE \E p \in Payments, s \in Statuses : e = [d EXCEPT !.status[p] = s]
  BY <1>1 DEF Databases
<1>2. CASE \E n \in Names : e = [d EXCEPT !.parties = (@ \cup {n}) \ (@ \cap {n})]
  BY <1>2 DEF Databases
<1>3. CASE \E n \in Names : e = [d EXCEPT !.banks = (@ \cup {n}) \ (@ \cap {n})]
  BY <1>3 DEF Databases
<1>4. CASE \E n \in AccountNames : e = [d EXCEPT !.accounts = (@ \cup {n}) \ (@ \cap {n})]
  BY <1>4 DEF Databases
<1>5. CASE \E r \in CrmRecords, s \in {"absent", "open", "closed"} : e = [d EXCEPT !.record[r] = s]
  BY <1>5 DEF Databases
<1>6. CASE \E c \in Columns : e = [d EXCEPT !.columns = (@ \cup {c}) \ (@ \cap {c})]
  BY <1>6 DEF Databases
<1>7. CASE \E c \in d.columns, V \in SUBSET Values : e = [d EXCEPT !.values[c] = V]
  BY <1>7 DEF Databases
<1>8. \/ \E p \in Payments, s \in Statuses : e = [d EXCEPT !.status[p] = s]
      \/ \E n \in Names : e = [d EXCEPT !.parties = (@ \cup {n}) \ (@ \cap {n})]
      \/ \E n \in Names : e = [d EXCEPT !.banks = (@ \cup {n}) \ (@ \cap {n})]
      \/ \E n \in AccountNames : e = [d EXCEPT !.accounts = (@ \cup {n}) \ (@ \cap {n})]
      \/ \E r \in CrmRecords, s \in {"absent", "open", "closed"} :
            e = [d EXCEPT !.record[r] = s]
      \/ \E c \in Columns : e = [d EXCEPT !.columns = (@ \cup {c}) \ (@ \cap {c})]
      \/ \E c \in d.columns, V \in SUBSET Values : e = [d EXCEPT !.values[c] = V]
  BY DEF Changed
<1>9. QED  BY <1>1, <1>2, <1>3, <1>4, <1>5, <1>6, <1>7, <1>8

\* A summary whose rows lead to no answer yet has a query left, and the
\* tools of one query have an answer after it.
LEMMA OutcomeIs ==
    ASSUME NEW t \in SummaryTools \cup OtherTools, NEW s, NEW c, NEW rs
    PROVE  /\ t \in SummaryTools /\ Outcome(t, s, c, rs) = Unfinished => Len(rs) < Queries[t]
           /\ t \in {"query", "news"} => Outcome(t, s, c, rs) # Unfinished
<1>0. /\ \A x, y, z : ClientAnswer(x, y, z).kind = "client"
      /\ \A x, y : BankAnswer(x, y).kind = "bank"
      /\ \A x, y : CrmAnswer(x, y).kind = "crm"
      /\ \A x : NewsAnswer(x).kind = "news"
      /\ \A x : Refused(x).kind = x
  BY DEF ClientAnswer, BankAnswer, CrmAnswer, NewsAnswer, Refused
<1>1. CASE t \in SummaryTools
  BY <1>0, <1>1 DEF SummaryTools, Outcome, SummaryOutcome, Unfinished
<1>2. CASE t \notin SummaryTools
  BY <1>0, <1>2 DEF SummaryTools, OtherTools, Outcome, Unfinished
<1>3. QED  BY <1>1, <1>2

\* What the CRM service answers its caller's claims allow.
LEMMA CrmBounded ==
    ASSUME NEW s, NEW ctx, NEW rs
    PROVE  Bounded(Outcome("crm", s, ctx, rs), ctx)
<1> DEFINE a == Outcome("crm", s, ctx, rs)
<1> SUFFICES ASSUME a.kind \in SummaryTools \cup OtherTools
             PROVE  /\ a.kind = "crm"
                    /\ MayAccess(ctx, a.account)
                    /\ (\E c \in a.contacts : c.pii) => MaySeePii(ctx)
  BY DEF Bounded
<1>0. \A x : Refused(x).kind = x  BY DEF Refused
<1>1. a = SummaryOutcome("crm", s, ctx, rs)  BY DEF Outcome, SummaryTools
<1>2. MayAccess(ctx, rs[1].name) /\ a = CrmAnswer(rs, MaySeePii(ctx))
  <2>1. /\ a # Refused("not_found") /\ a # Refused("access_denied")
        /\ a # Refused("no_data") /\ a # Unfinished
    BY <1>0 DEF Unfinished, SummaryTools, OtherTools
  <2> HIDE DEF a
  <2>2. QED  BY <1>1, <2>1 DEF SummaryOutcome, Queries
<1> HIDE DEF a
<1>3. a.kind = "crm" /\ a.account = rs[1].name /\ \A c \in a.contacts : c.pii = MaySeePii(ctx)
  BY <1>2 DEF CrmAnswer
<1>4. QED  BY <1>2, <1>3

-----------------------------------------------------------------------------
(* The invariant: one lemma per action.                                    *)

\* The invariant holds initially.
LEMMA InitInv == Init => IInv
<1> SUFFICES ASSUME Init PROVE IInv  OBVIOUS
<1>0. Len(rows) = 0 /\ rows = <<>>  BY DEF Init
<1>1. TypeOK
  <2>1. rows = [i \in 1..Len(rows) |-> rows[i]]  BY <1>0
  <2>2. context \in Claims(AccountNames)  BY AnonymousTyped DEF Init
  <2>3. "schema" \in OtherTools /\ "none" \in Asked("schema")
    BY DEF OtherTools, Asked, SummaryTools
  <2>4. NoHeader \in Headers /\ "" \in UserRoles  BY DEF Headers, UserRoles
  <2>5. db \in Databases  BY SummaryAssumption DEF Init
  <2>6. commits \in 0..MaxCommits
    <3>1. commits = 0 /\ MaxCommits \in Nat  BY SummaryAssumption DEF Init
    <3>2. QED  BY <3>1
  <2>7. entitled \in Claims(AccountNames)  BY AnonymousTyped DEF Init
  <2>8. QED  BY <1>0, <2>1, <2>2, <2>3, <2>4, <2>5, <2>6, <2>7 DEF Init, TypeOK, Places
<1>2. /\ NothingEarly /\ ContextKnown /\ SnapshotLived /\ RowsRead /\ AnswerOfRows
      /\ KeptBounded
  BY DEF Init, NothingEarly, ContextKnown, SnapshotLived, RowsRead, AnswerOfRows, KeptBounded
<1>3. CatalogueRead  BY <1>0 DEF CatalogueRead
<1>4. QED  BY <1>1, <1>2, <1>3 DEF IInv

\* A call begins, with no rows yet.
LEMMA BeginInv == IInv /\ Begin => IInv'
<1> SUFFICES ASSUME IInv, Begin PROVE IInv'  OBVIOUS
<1>0. rows = <<>> /\ rows' = rows /\ snapshot = NoSnapshot /\ Len(rows) = 0
  BY DEF IInv, NothingEarly, Begin
<1>1. TypeOK'
  BY SummaryAssumption DEF IInv, TypeOK, Begin, Places
<1>2. NothingEarly' /\ ContextKnown' /\ SnapshotLived' /\ RowsRead' /\ AnswerOfRows'
  BY <1>0 DEF IInv, Begin, NothingEarly, ContextKnown, SnapshotLived, RowsRead, AnswerOfRows
<1>3. CatalogueRead'  BY <1>0 DEF CatalogueRead
<1>4. KeptBounded'
  <2>1. kept' \in {kept, NoEntry} /\ ~hit /\ ~hit'  BY DEF IInv, ContextKnown, Begin
  <2>2. QED  BY <2>1 DEF IInv, KeptBounded
<1>5. QED  BY <1>1, <1>2, <1>3, <1>4 DEF IInv

\* The policy is asked: the context is the one of the header from here on.
LEMMA AuthorizeInv == IInv /\ Authorize => IInv'
<1> SUFFICES ASSUME IInv, Authorize PROVE IInv'  OBVIOUS
<1>0. rows = <<>> /\ rows' = rows /\ snapshot = NoSnapshot /\ Len(rows) = 0
  BY DEF IInv, NothingEarly, Authorize
<1>1. TypeOK'
  <2>1. context' \in Claims(AccountNames)
    BY ContextTyped DEF IInv, TypeOK, Authorize
  <2>2. entitled' = context'  BY DEF Authorize
  <2>3. QED  BY <2>1, <2>2 DEF IInv, TypeOK, Authorize, Answer, Places
<1>2. NothingEarly' /\ ContextKnown' /\ SnapshotLived' /\ RowsRead'
  BY <1>0 DEF IInv, Authorize, Answer, NothingEarly, ContextKnown, SnapshotLived, RowsRead
<1>3. CatalogueRead'  BY <1>0 DEF CatalogueRead
<1>4. AnswerOfRows'  BY <1>0 DEF Authorize, Answer, AnswerOfRows, Excuses
<1>5. KeptBounded'
  <2>1. kept' = kept /\ ~hit'  BY DEF IInv, ContextKnown, Authorize
  <2>2. QED  BY <2>1 DEF IInv, KeptBounded
<1>6. QED  BY <1>1, <1>2, <1>3, <1>4, <1>5 DEF IInv

\* The cache has it: with the claims it was computed for.
LEMMA HitInv == IInv /\ Hit => IInv'
<1> SUFFICES ASSUME IInv, Hit PROVE IInv'  OBVIOUS
<1>0. rows = <<>> /\ rows' = rows /\ snapshot = NoSnapshot /\ Len(rows) = 0
  BY DEF IInv, NothingEarly, Hit
<1>1. /\ kept.claims \in Claims(AccountNames) /\ kept.key[2] = kept.claims.role
      /\ Bounded(kept.answer, kept.claims) /\ kept.key[2] = context.role
  BY DEF IInv, KeptBounded, Hit, CrmKey
<1>2. /\ answer' = kept.answer /\ entitled' = kept.claims /\ hit' /\ pc' = "answered"
      /\ kept' = kept /\ tool' = "crm" /\ context' = context
  BY DEF Hit, Answer
<1>3. TypeOK'  BY <1>1 DEF IInv, TypeOK, Hit, Answer, Places
<1>4. NothingEarly' /\ ContextKnown' /\ SnapshotLived' /\ RowsRead' /\ AnswerOfRows'
  BY <1>0 DEF IInv, Hit, Answer, NothingEarly, ContextKnown, SnapshotLived, RowsRead,
              AnswerOfRows
<1>5. CatalogueRead'  BY <1>0 DEF CatalogueRead
<1>6. KeptBounded'  BY <1>1, <1>2 DEF IInv, KeptBounded, Bounded
<1>7. QED  BY <1>3, <1>4, <1>5, <1>6 DEF IInv

\* The entry expires.
LEMMA ExpireInv == IInv /\ Expire => IInv'
<1> SUFFICES ASSUME IInv, Expire PROVE IInv'  OBVIOUS
<1>1. UNCHANGED <<db, commits, generation, callVars>> /\ kept' = NoEntry  BY DEF Expire
<1> USE <1>1 DEF IInv, callVars
<1>2. TypeOK' /\ NothingEarly' /\ ContextKnown' /\ SnapshotLived'
  BY DEF TypeOK, NothingEarly, ContextKnown, SnapshotLived
<1>3. RowsRead' /\ CatalogueRead' /\ AnswerOfRows'
  BY DEF RowsRead, CatalogueRead, AnswerOfRows
<1>4. KeptBounded'  BY DEF KeptBounded
<1>5. QED  BY <1>2, <1>3, <1>4

\* A statement is turned down: an excuse, without rows.
LEMMA RejectInv == IInv /\ Reject => IInv'
<1> SUFFICES ASSUME IInv, Reject PROVE IInv'  OBVIOUS
<1>0. rows = <<>> /\ rows' = rows /\ snapshot = NoSnapshot /\ Len(rows) = 0
  BY DEF IInv, NothingEarly, Reject
<1>1. TypeOK'  BY DEF IInv, TypeOK, Reject, Answer, Places
<1>2. NothingEarly' /\ ContextKnown' /\ SnapshotLived' /\ RowsRead'
  BY <1>0 DEF IInv, Reject, Answer, NothingEarly, ContextKnown, SnapshotLived, RowsRead
<1>3. CatalogueRead'  BY <1>0 DEF CatalogueRead
<1>4. AnswerOfRows'  BY <1>0 DEF Reject, Answer, AnswerOfRows, Excuses
<1>5. KeptBounded'  BY DEF IInv, Reject, ContextKnown, KeptBounded
<1>6. QED  BY <1>1, <1>2, <1>3, <1>4, <1>5 DEF IInv

\* The transaction begins, and still has no snapshot.
LEMMA OpenInv == IInv /\ Open => IInv'
<1> SUFFICES ASSUME IInv, Open PROVE IInv'  OBVIOUS
<1>0. rows = <<>> /\ rows' = rows /\ snapshot = NoSnapshot /\ Len(rows) = 0
  BY DEF IInv, NothingEarly, Open
<1>1. TypeOK'  BY DEF IInv, TypeOK, Open, Places
<1>2. NothingEarly' /\ ContextKnown' /\ SnapshotLived' /\ RowsRead' /\ AnswerOfRows'
  BY <1>0 DEF IInv, Open, NothingEarly, ContextKnown, SnapshotLived, RowsRead, AnswerOfRows
<1>3. CatalogueRead'  BY <1>0 DEF CatalogueRead
<1>4. KeptBounded'  BY DEF IInv, Open, ContextKnown, KeptBounded
<1>5. QED  BY <1>1, <1>2, <1>3, <1>4 DEF IInv

\* A failure answers with an excuse, whatever was read.
LEMMA DbFailsInv == IInv /\ DbFails => IInv'
<1> SUFFICES ASSUME IInv, DbFails PROVE IInv'  OBVIOUS
<1>1. TypeOK'  BY DEF IInv, TypeOK, DbFails, Answer, Places
<1>2. NothingEarly' /\ ContextKnown' /\ SnapshotLived' /\ RowsRead'
  BY DEF IInv, DbFails, Answer, NothingEarly, ContextKnown, SnapshotLived, RowsRead
<1>3. CatalogueRead'  BY DEF IInv, DbFails, Answer, CatalogueRead
<1>4. AnswerOfRows'
  <2>1. PICK reason \in Failures(tool) : Answer(Refused(reason))  BY DEF DbFails
  <2>2. reason \in Excuses  BY DEF IInv, TypeOK, Excuses
  <2>3. QED  BY <2>1, <2>2 DEF Answer, AnswerOfRows
<1>5. KeptBounded'  BY DEF IInv, DbFails, ContextKnown, KeptBounded
<1>6. QED  BY <1>1, <1>2, <1>3, <1>4, <1>5 DEF IInv

\* The caller has its answer: everything of the call is forgotten.
LEMMA ReturnInv == IInv /\ Return => IInv'
<1> SUFFICES ASSUME IInv, Return PROVE IInv'  OBVIOUS
<1>0. rows' = <<>> /\ snapshot' = NoSnapshot /\ Len(rows') = 0 /\ pc' = "idle"
  BY DEF Return
<1>1. TypeOK'
  <2>1. context' \in Claims(AccountNames) /\ entitled' \in Claims(AccountNames)
    BY AnonymousTyped DEF Return
  <2>2. "schema" \in OtherTools /\ "none" \in Asked("schema")
    BY DEF OtherTools, Asked, SummaryTools
  <2>3. NoHeader \in Headers /\ "" \in UserRoles  BY DEF Headers, UserRoles
  <2>4. rows' = [i \in 1..Len(rows') |-> rows'[i]]  BY <1>0
  <2>5. QED  BY <1>0, <2>1, <2>2, <2>3, <2>4 DEF IInv, TypeOK, Return, Places
<1>2. NothingEarly' /\ ContextKnown' /\ SnapshotLived' /\ RowsRead' /\ AnswerOfRows'
  BY <1>0 DEF Return, NothingEarly, ContextKnown, SnapshotLived, RowsRead, AnswerOfRows
<1>3. CatalogueRead'  BY <1>0 DEF CatalogueRead
<1>4. KeptBounded'  BY DEF IInv, Return, KeptBounded
<1>5. QED  BY <1>1, <1>2, <1>3, <1>4 DEF IInv

\* A commit leaves the snapshot and the rows, and adds to the databases that
\* lived.
LEMMA DbChangesInv == IInv /\ DbChanges => IInv'
<1> SUFFICES ASSUME IInv, DbChanges PROVE IInv'  OBVIOUS
<1>0. lived \subseteq lived' /\ db' \in Databases
  BY ChangedTyped DEF IInv, TypeOK, DbChanges
<1>1. TypeOK'
  BY <1>0, SummaryAssumption DEF IInv, TypeOK, DbChanges
<1>2. NothingEarly' /\ ContextKnown' /\ SnapshotLived' /\ RowsRead' /\ AnswerOfRows'
  BY <1>0 DEF IInv, DbChanges, NothingEarly, ContextKnown, SnapshotLived, RowsRead, AnswerOfRows
<1>3. CatalogueRead'
  BY <1>0 DEF IInv, DbChanges, CatalogueRead
<1>4. KeptBounded'  BY DEF IInv, DbChanges, KeptBounded
<1>5. QED  BY <1>1, <1>2, <1>3, <1>4 DEF IInv

\* A query adds a row of its snapshot: the first of a summary fixes the
\* snapshot, and a probe of the catalogue that lists values lists them all.
LEMMA FetchInv == IInv /\ Fetch => IInv'
<1> SUFFICES ASSUME IInv, Fetch PROVE IInv'  OBVIOUS
<1> DEFINE view == View
           a == Outcome(tool, search, context, rows')
<1>1. PICK row \in NextRows(tool, search, view, rows) : rows' = Append(rows, row)
  BY DEF Fetch
<1>2. /\ tool \in SummaryTools \cup OtherTools /\ pc = "reading"
      /\ UNCHANGED <<db, commits, generation, tool, search, header, userRole, lived, context,
                     hit, entitled>>
      /\ snapshot' = IF tool = "schema" THEN NoSnapshot ELSE view
      /\ \/ a = Unfinished /\ pc' = pc /\ answer' = answer
         \/ a # Unfinished /\ pc' = "answered" /\ answer' = a
      /\ kept' = kept \/ Keep(a)
  BY DEF IInv, TypeOK, Fetch, Answer
<1>3. /\ Len(rows) \in Nat /\ Len(rows') \in Nat /\ Len(rows') = Len(rows) + 1
      /\ rows' = [i \in 1..Len(rows') |-> rows'[i]] /\ rows' # <<>>
      /\ \A i \in 1..Len(rows) : rows'[i] = rows[i]
      /\ rows'[Len(rows')] = row
  <2>1. Len(rows) \in Nat /\ rows = [i \in 1..Len(rows) |-> rows[i]]  BY DEF IInv, TypeOK
  <2>2. QED  BY <1>1, <2>1, AppendIs
<1>4. rows = <<>> => Len(rows) = 0  OBVIOUS
<1>4a. PICK n \in Nat : n = Len(rows) /\ n + 1 = Len(rows')  BY <1>3
<1>5. Len(rows) = 0 => rows = <<>>
  BY DEF IInv, TypeOK
<1>6. view \in lived /\ view \in Databases
  BY <1>2 DEF IInv, TypeOK, SnapshotLived, View
<1>7. tool # "schema" /\ rows # <<>> => snapshot = view
  BY <1>2, SummaryAssumption DEF IInv, SnapshotLived, TypeOK, View
<1>8. rows # <<>> => Outcome(tool, search, context, rows) = Unfinished
  BY <1>2 DEF IInv, AnswerOfRows
<1> HIDE DEF view, a
<1>9. TypeOK'
  BY <1>2, <1>3, <1>6 DEF IInv, TypeOK, Places
<1>10. NothingEarly' /\ ContextKnown' /\ SnapshotLived'
  BY <1>2, <1>3, <1>6 DEF IInv, NothingEarly, ContextKnown, SnapshotLived
<1>11. RowsRead'
  <2>1. ASSUME tool \in SummaryTools, rows = <<>>
        PROVE  /\ Len(rows') <= Queries[tool]
               /\ rows'[1] \in LookUps(tool, search, view)
               /\ \A i \in 2..Len(rows') : rows'[i] = Row(tool, view, rows'[1].name, i)
    <3>1. Len(rows') = 1 /\ rows'[1] = row  BY <1>3, <1>4, <2>1
    <3>2. row \in LookUps(tool, search, view)  BY <1>1, <2>1 DEF NextRows, SummaryTools
    <3>3. 1 <= Queries[tool]  BY <2>1 DEF SummaryTools, Queries
    <3>4. QED  BY <1>4a, <3>1, <3>2, <3>3
  <2>2. ASSUME tool \in SummaryTools, rows # <<>>
        PROVE  /\ Len(rows') <= Queries[tool]
               /\ rows'[1] \in LookUps(tool, search, view)
               /\ \A i \in 2..Len(rows') : rows'[i] = Row(tool, view, rows'[1].name, i)
    <3>1. Len(rows) < Queries[tool]  BY <1>8, <2>2, OutcomeIs
    <3>2. Queries[tool] \in Nat  BY <2>2 DEF SummaryTools, Queries
    <3>3. rows'[1] = rows[1] /\ Len(rows) >= 1  BY <1>3, <1>5, <2>2
    <3>4. snapshot = view  BY <1>7, <2>2 DEF SummaryTools
    <3>5. rows[1] \in LookUps(tool, search, view)
          /\ \A i \in 2..Len(rows) : rows[i] = Row(tool, view, rows[1].name, i)
      BY <2>2, <3>4 DEF IInv, RowsRead
    <3>6. row = Row(tool, view, rows[1].name, Len(rows) + 1)
      BY <1>1, <2>2 DEF NextRows, SummaryTools
    <3>7. QED  BY <1>3, <3>1, <3>2, <3>3, <3>5, <3>6
  <2>3. ASSUME tool = "query"  PROVE rows'[1] = QueryResult(view, search)
    <3>1. rows = <<>>  BY <1>8, <2>3, OutcomeIs DEF OtherTools
    <3>2. Len(rows') = 1 /\ rows'[1] = row  BY <1>3, <1>4, <3>1
    <3>3. row = QueryResult(view, search)  BY <2>3 DEF NextRows, SummaryTools
    <3>4. QED  BY <3>2, <3>3
  <2>4. tool # "schema" => snapshot' = view  BY <1>2
  <2>5. QED  BY <1>2, <2>1, <2>2, <2>3, <2>4 DEF RowsRead, SummaryTools
<1>12. CatalogueRead'
  <2> SUFFICES ASSUME tool = "schema"  PROVE CatalogueRead'  BY <1>2 DEF CatalogueRead
  <2>1. row \in SchemaRows(view, rows)  BY DEF NextRows, SummaryTools
  <2>2. ASSUME Len(rows') >= 2  PROVE \E d \in lived : rows'[2] = d.columns
    <3>1. CASE Len(rows) >= 2  BY <1>3, <3>1 DEF IInv, CatalogueRead
    <3>2. CASE Len(rows) = 1  BY <1>3, <1>6, <2>1, <3>2 DEF SchemaRows
    <3>3. n >= 2 \/ n = 1  BY <1>4a, <2>2
    <3>4. QED  BY <1>4a, <3>1, <3>2, <3>3
  <2>3. ASSUME Len(rows') >= 4  PROVE \E d \in lived : rows'[4] = ForeignKeys(d)
    <3>1. CASE Len(rows) >= 4  BY <1>3, <3>1 DEF IInv, CatalogueRead
    <3>2. CASE Len(rows) = 3  BY <1>3, <1>6, <2>1, <3>2 DEF SchemaRows
    <3>3. n >= 4 \/ n = 3  BY <1>4a, <2>3
    <3>4. QED  BY <1>4a, <3>1, <3>2, <3>3
  <2>4. ASSUME NEW i \in 5..Len(rows')
        PROVE  \/ rows'[i] = NoValues
               \/ \E d \in lived : LET c == Candidate(rows'[2], i - 4)
                                IN  c \in d.columns /\ rows'[i] = d.values[c]
    <3>1. rows'[2] = rows[2]  BY <1>3
    <3>2. CASE i <= Len(rows)
      <4>1. rows'[i] = rows[i] /\ i \in 5..Len(rows)  BY <1>3, <3>2
      <4>2. QED  BY <3>1, <4>1 DEF IInv, CatalogueRead
    <3>3. CASE i = Len(rows) + 1
      <4> DEFINE c == Candidate(rows[2], Len(rows) - 3)
      <4>1. rows'[i] = row /\ i - 4 = Len(rows) - 3 /\ Len(rows) > 3  BY <1>3, <3>3
      <4>2. row = NoValues \/ (c \in view.columns /\ row = Sampled(view, c))
        BY <2>1, <4>1 DEF SchemaRows
      <4> HIDE DEF c
      <4>3. c \in view.columns /\ row = Sampled(view, c) /\ row # NoValues => row = view.values[c]
        <5>1. c \in view.columns => c \in Columns  BY <1>6 DEF Databases
        <5>2. QED  BY <1>6, <5>1, SampledIs
      <4>4. c = Candidate(rows'[2], i - 4)  BY <3>1, <4>1 DEF c
      <4>5. QED  BY <1>6, <4>1, <4>2, <4>3, <4>4
    <3>4. QED  BY <1>3, <3>2, <3>3
  <2>5. QED  BY <1>2, <2>2, <2>3, <2>4 DEF CatalogueRead
<1>13. AnswerOfRows'
  BY <1>2, <1>3 DEF AnswerOfRows, a
<1>14. KeptBounded'
  <2>1. ~hit /\ ~hit'  BY <1>2 DEF IInv, ContextKnown
  <2>2. CASE kept' = kept  BY <2>1, <2>2 DEF IInv, KeptBounded
  <2>3. CASE kept' # kept
    <3>1. /\ tool = "crm"
          /\ kept' = [key |-> CrmKey(search, context), claims |-> context, answer |-> a]
      BY <1>2, <2>3 DEF Keep
    <3>2. Bounded(a, context)  BY <3>1, CrmBounded DEF a
    <3>3. context \in Claims(AccountNames)  BY DEF IInv, TypeOK
    <3>4. kept'.key[2] = context.role  BY <3>1 DEF CrmKey
    <3>5. QED  BY <2>1, <3>1, <3>2, <3>3, <3>4 DEF KeptBounded
  <2>4. QED  BY <2>2, <2>3
<1>15. QED  BY <1>9, <1>10, <1>11, <1>12, <1>13, <1>14 DEF IInv

\* Each step preserves the invariant.
LEMMA StepInv == IInv /\ [Next]_vars => IInv'
<1> SUFFICES ASSUME IInv, [Next]_vars PROVE IInv'  OBVIOUS
<1>1. CASE Next
  BY <1>1, BeginInv, AuthorizeInv, RejectInv, OpenInv, FetchInv, DbFailsInv, ReturnInv,
     DbChangesInv, HitInv, ExpireInv DEF Next
<1>2. CASE UNCHANGED vars
  BY <1>2 DEF vars, callVars, IInv, TypeOK, NothingEarly, ContextKnown, SnapshotLived,
     RowsRead, CatalogueRead, AnswerOfRows, KeptBounded
<1>3. QED  BY <1>1, <1>2

\* The inductive invariant holds in every reachable state.
THEOREM Invariant == Spec => []IInv
<1>1. QED  BY InitInv, StepInv, PTL DEF Spec

-----------------------------------------------------------------------------
(* The properties.                                                         *)

\* The state has its types.
THEOREM TypeCorrect == Spec => []TypeOK
<1>1. IInv => TypeOK  BY DEF IInv
<1>2. QED  BY <1>1, Invariant, PTL

\* The kinds of the answers.
LEMMA Kinds ==
    /\ \A x, y, z : ClientAnswer(x, y, z).kind = "client"
    /\ \A x, y : BankAnswer(x, y).kind = "bank"
    /\ \A x, y : CrmAnswer(x, y).kind = "crm"
    /\ \A x : NewsAnswer(x).kind = "news"
    /\ \A x : SchemaAnswer(x).kind = "schema"
    /\ \A x : Refused(x).kind = x
BY DEF ClientAnswer, BankAnswer, CrmAnswer, NewsAnswer, SchemaAnswer, Refused

\* No excuse looks like an answer made from rows.
LEMMA ExcusesAre ==
    ASSUME NEW reason \in Excuses
    PROVE  reason \notin SummaryTools \cup OtherTools \cup {"not_found", "access_denied", "no_data"}
BY DEF Excuses, Failures, SummaryTools, OtherTools

\* An answer of data, unless out of the cache, is the one its rows lead to.
LEMMA AnsweredFromRows ==
    ASSUME IInv, Given, ~hit,
           Complete \/ answer.kind \in {"not_found", "access_denied", "no_data"}
    PROVE  rows # <<>> /\ answer = Outcome(tool, search, context, rows) /\ answer # Unfinished
<1>1. answer \notin {Refused(reason) : reason \in Excuses}
  BY ExcusesAre, Kinds DEF Complete
<1>2. QED  BY <1>1 DEF IInv, AnswerOfRows, Given

\* A complete summary that the service made has all its rows, each the query of
\* its place on the snapshot, and its caller may see it.
LEMMA CompleteRows ==
    ASSUME IInv, Complete, ~hit, tool \in SummaryTools
    PROVE  /\ rows[1].found
           /\ Len(rows) = Queries[tool]
           /\ \A i \in 2..Queries[tool] : rows[i] = Row(tool, snapshot, rows[1].name, i)
           /\ tool = "client" => answer = ClientAnswer(search, rows, ColMask(context))
           /\ tool = "bank" => answer = BankAnswer(search, rows)
           /\ tool = "crm" => /\ MayAccess(context, rows[1].name)
                              /\ answer = CrmAnswer(rows, MaySeePii(context))
<1>1. rows # <<>> /\ answer = Outcome(tool, search, context, rows) /\ answer # Unfinished
  BY AnsweredFromRows DEF Complete
<1>2. answer = SummaryOutcome(tool, search, context, rows)  BY <1>1 DEF Outcome, SummaryTools
<1>3. /\ answer # Refused("not_found") /\ answer # Refused("access_denied")
      /\ answer # Refused("no_data")
  BY Kinds DEF Complete, SummaryTools, OtherTools
<1>4. /\ rows[1].found /\ ~(Len(rows) < Queries[tool])
      /\ tool = "client" => answer = ClientAnswer(search, rows, ColMask(context))
      /\ tool = "bank" => answer = BankAnswer(search, rows)
      /\ tool = "crm" => /\ MayAccess(context, rows[1].name)
                         /\ answer = CrmAnswer(rows, MaySeePii(context))
  BY <1>1, <1>2, <1>3 DEF SummaryOutcome
<1>5. Len(rows) \in Nat /\ Queries[tool] \in Nat  BY DEF IInv, TypeOK, Queries, SummaryTools
<1>6. /\ Len(rows) <= Queries[tool]
      /\ \A i \in 2..Len(rows) : rows[i] = Row(tool, snapshot, rows[1].name, i)
  BY <1>1 DEF IInv, RowsRead
<1>7. Len(rows) = Queries[tool]  BY <1>4, <1>5, <1>6
<1>8. QED  BY <1>4, <1>6, <1>7

\* FiguresAgree: for payments of any number and amount, the parts of a
\* payments answer add up (PaymentSummaryService.get_summary, get_bank_summary).
THEOREM CompleteFiguresAgree == Spec => []FiguresAgree
<1>1. IInv => FiguresAgree
  <2> SUFFICES ASSUME IInv, Complete, tool \in {"client", "bank"}
               PROVE  /\ PaymentFigures(answer)
                      /\ tool = "client" => ClientFigures(answer)
                      /\ tool = "bank" => BankFigures(answer)
    BY DEF FiguresAgree
  <2> DEFINE name == rows[1].name
  <2>0. ~hit  BY DEF IInv, KeptBounded
  <2>1. CASE tool = "client"
    <3>1. /\ \A i \in 2..8 : rows[i] = Row(tool, snapshot, name, i)
          /\ answer = ClientAnswer(search, rows, ColMask(context))
      BY <2>0, <2>1, CompleteRows DEF SummaryTools, Queries
    <3>2. \A i \in 2..8 : rows[i] = ClientRow(snapshot, name, i)  BY <2>1, <3>1 DEF Row
    <3>3. /\ rows[2] = Outbound(snapshot, name) /\ rows[3] = Inbound(snapshot, name)
          /\ rows[5] = Counterparties(snapshot, name) /\ rows[6] = StatusMix(snapshot, name)
          /\ rows[7] = PayorBanks(snapshot, name)
      BY <3>2 DEF ClientRow
    <3>4. QED  BY <2>1, <3>1, <3>3, ClientFiguresHold
  <2>2. CASE tool = "bank"
    <3>1. /\ \A i \in 2..9 : rows[i] = Row(tool, snapshot, name, i)
          /\ answer = BankAnswer(search, rows)
      BY <2>0, <2>2, CompleteRows DEF SummaryTools, Queries
    <3>2. \A i \in 2..9 : rows[i] = BankRow(snapshot, name, i)  BY <2>2, <3>1 DEF Row
    <3>3. /\ rows[3] = Originating(snapshot, name) /\ rows[4] = Beneficiary(snapshot, name)
          /\ rows[6] = BankStatusMix(snapshot, name) /\ rows[7] = TopOriginators(snapshot, name)
          /\ rows[8] = TopBeneficiaries(snapshot, name)
          /\ rows[9] = CounterpartyBanks(snapshot, name)
      BY <3>2 DEF BankRow
    <3>4. QED  BY <2>2, <3>1, <3>3, BankFiguresHold
  <2>3. QED  BY <2>1, <2>2
<1>2. QED  BY <1>1, Invariant, PTL

\* AnswersOneMoment: whatever is committed during a summary, its answer is
\* the one of a single database that was committed at a moment of the call.
THEOREM SummariesAreAtomic == Spec => []AnswersOneMoment
<1>1. IInv => AnswersOneMoment
  <2> SUFFICES ASSUME IInv, FromQueries  PROVE \E d \in lived : answer \in AnswersOn(d)
    BY DEF AnswersOneMoment
  <2>1. /\ tool \in SummaryTools \cup {"query"}
        /\ Given /\ ~hit /\ (Complete \/ answer.kind \in {"not_found", "access_denied", "no_data"})
    BY DEF IInv, TypeOK, FromQueries, OtherTools
  <2>2. rows # <<>> /\ answer = Outcome(tool, search, context, rows) /\ answer # Unfinished
    BY <2>1, AnsweredFromRows
  <2>3. snapshot \in lived  BY <2>1, <2>2 DEF IInv, SnapshotLived, SummaryTools
  <2>4. CASE tool = "query"
    <3>1. rows[1] = QueryResult(snapshot, search)  BY <2>2, <2>4 DEF IInv, RowsRead
    <3>2. answer = Outcome(tool, search, context, <<QueryResult(snapshot, search)>>)
      BY <2>2, <2>4, <3>1 DEF Outcome, SummaryTools
    <3>3. QED  BY <2>3, <2>4, <3>2 DEF AnswersOn
  <2>5. CASE tool \in SummaryTools
    <3> DEFINE all == RowsOn(snapshot, rows[1])
               n == Queries[tool]
    <3>1. n \in Nat /\ n >= 1 /\ tool # "query"  BY <2>5 DEF Queries, SummaryTools
    <3>2. /\ Len(rows) \in Nat /\ rows = [i \in 1..Len(rows) |-> rows[i]] /\ Len(rows) <= n
          /\ rows[1] \in LookUps(tool, search, snapshot)
          /\ \A i \in 2..Len(rows) : rows[i] = Row(tool, snapshot, rows[1].name, i)
      BY <2>2, <2>5 DEF IInv, TypeOK, RowsRead
    <3>3. Len(rows) >= 1
      <4>1. Len(rows) # 0  BY <2>2, <3>2
      <4>2. QED  BY <3>2, <4>1
    <3>4. all = [i \in 1..n |-> all[i]]  BY DEF RowsOn
    <3>5. \A i \in 1..Len(rows) : all[i] = rows[i]  BY <3>1, <3>2 DEF RowsOn
    <3> HIDE DEF n, all
    <3>6. Len(all) = n  BY <3>1, <3>4, LenOfFunction
    <3>7. rows[1].found => answer = SummaryOutcome(tool, search, context, all)
      <4> SUFFICES ASSUME rows[1].found
                   PROVE  answer = SummaryOutcome(tool, search, context, all)
        OBVIOUS
      <4>1. all[1] = rows[1]  BY <3>2, <3>3, <3>5
      <4>2. answer = SummaryOutcome(tool, search, context, rows)
        BY <2>2, <2>5 DEF Outcome, SummaryTools
      <4>3. CASE tool = "crm" /\ ~MayAccess(context, rows[1].name)
        BY <4>1, <4>2, <4>3 DEF SummaryOutcome
      <4>4. CASE ~(tool = "crm" /\ ~MayAccess(context, rows[1].name)) /\ NoVolume(tool, rows)
        <5>1. NoVolume(tool, all)
          <6>1. Volumes[tool] \in {<<2, 3>>, <<3, 4>>}  BY <4>4 DEF NoVolume, Volumes
          <6>2. QED  BY <3>1, <3>2, <3>5, <3>6, <4>4, <6>1 DEF NoVolume
        <5>2. QED  BY <4>1, <4>2, <4>4, <5>1 DEF SummaryOutcome
      <4>5. CASE ~(tool = "crm" /\ ~MayAccess(context, rows[1].name)) /\ ~NoVolume(tool, rows)
        <5>1. ~(Len(rows) < n)  BY <2>2, <4>2, <4>5 DEF SummaryOutcome, n
        <5>2. Len(rows) = n  BY <3>1, <3>2, <5>1
        <5>3. all = rows  BY <3>2, <3>4, <3>5, <5>2
        <5>4. QED  BY <4>2, <5>3
      <4>6. QED  BY <4>3, <4>4, <4>5
    <3>8. ~rows[1].found => answer = Refused("not_found")
      BY <2>2, <2>5 DEF Outcome, SummaryOutcome, SummaryTools
    <3>9. answer = IF rows[1].found THEN Outcome(tool, search, context, all)
                   ELSE Refused("not_found")
      BY <2>5, <3>7, <3>8 DEF Outcome, SummaryTools
    <3>10. QED  BY <2>3, <3>1, <3>2, <3>9 DEF AnswersOn, all
  <2>6. QED  BY <2>1, <2>4, <2>5
<1>2. QED  BY <1>1, Invariant, PTL

\* CatalogueWasThere: the columns, the foreign keys and the values that the
\* planner is told of were each there at a moment of the call, whatever the
\* number of columns and of values.
THEOREM CatalogueIsTrue == Spec => []CatalogueWasThere
<1>1. IInv => CatalogueWasThere
  <2> SUFFICES ASSUME IInv, Complete, tool = "schema"
               PROVE  /\ \E d \in lived : answer.columns = d.columns
                      /\ \E d \in lived : answer.references = ForeignKeys(d)
                      /\ \A v \in answer.values : v.values # NoValues =>
                            \E d \in lived :
                               v.column \in d.columns /\ v.values = d.values[v.column]
    BY DEF CatalogueWasThere
  <2>1. answer = Outcome(tool, search, context, rows) /\ answer # Unfinished
    BY AnsweredFromRows DEF IInv, KeptBounded, Complete
  <2>2. answer = SchemaAnswer(rows) /\ Probed(rows)
    BY <2>1 DEF Outcome, SummaryTools
  <2>3. Len(rows) \in Nat /\ Len(rows) > 3  BY <2>2 DEF IInv, TypeOK, Probed
  <2>4. /\ answer.columns = rows[2] /\ answer.references = rows[4]
        /\ answer.values = {[column |-> Candidate(rows[2], i), values |-> rows[4 + i]] :
                               i \in 1..(Len(rows) - 4)}
    BY <2>2 DEF SchemaAnswer
  <2>5. /\ \E d \in lived : rows[2] = d.columns
        /\ \E d \in lived : rows[4] = ForeignKeys(d)
        /\ \A i \in 5..Len(rows) :
              \/ rows[i] = NoValues
              \/ \E d \in lived : LET c == Candidate(rows[2], i - 4)
                               IN  c \in d.columns /\ rows[i] = d.values[c]
    BY <2>3 DEF IInv, CatalogueRead
  <2>6. ASSUME NEW v \in answer.values, v.values # NoValues
        PROVE  \E d \in lived : v.column \in d.columns /\ v.values = d.values[v.column]
    <3>1. PICK i \in 1..(Len(rows) - 4) :
             v = [column |-> Candidate(rows[2], i), values |-> rows[4 + i]]
      BY <2>4
    <3>2. v.column = Candidate(rows[2], i) /\ v.values = rows[4 + i]  BY <3>1
    <3>3. 4 + i \in 5..Len(rows) /\ (4 + i) - 4 = i  BY <2>3
    <3>4. QED  BY <2>5, <2>6, <3>2, <3>3
  <2>7. QED  BY <2>4, <2>5, <2>6
<1>2. QED  BY <1>1, Invariant, PTL

\* NoMoreThanClaims: an account that the CRM service shows in answer to a call
\* is one that the call's verified claims reach; one out of the cache is one that
\* the claims of a caller with the same role reached (the key of
\* get_salesforce_summary names the role and not the assigned accounts), and
\* contact details stay with the roles that may see them.
THEOREM ClaimsBoundAnswers == Spec => []NoMoreThanClaims
<1>1. IInv => NoMoreThanClaims
  <2> SUFFICES ASSUME IInv, Complete, tool = "crm"  PROVE NoMoreThanClaims
    BY DEF NoMoreThanClaims
  <2>1. /\ MayAccess(entitled, answer.account)
        /\ (\E c \in answer.contacts : c.pii) => MaySeePii(entitled)
        /\ entitled.role = context.role
    <3>1. CASE hit  BY <3>1 DEF IInv, KeptBounded, Bounded, Complete
    <3>2. CASE ~hit
      <4>1. MayAccess(context, rows[1].name) /\ answer = CrmAnswer(rows, MaySeePii(context))
        BY <3>2, CompleteRows DEF SummaryTools
      <4>2. entitled = context  BY <3>2 DEF IInv, ContextKnown, Complete, Given
      <4>3. answer.account = rows[1].name /\ \A c \in answer.contacts : c.pii = MaySeePii(context)
        BY <4>1 DEF CrmAnswer
      <4>4. QED  BY <4>1, <4>2, <4>3
    <3>3. QED  BY <3>1, <3>2
  <2>2. ASSUME ~hit
        PROVE  /\ header.present /\ header.signature \in Accepted(generation)
               /\ entitled = header.payload
    <3>1. entitled = ContextOf(header, generation)
      BY <2>2 DEF IInv, ContextKnown, Complete, Given
    <3>2. entitled # Anonymous
      <4>1. Anonymous.role = "readonly" /\ Anonymous.accounts = {}  BY DEF Anonymous
      <4>2. QED  BY <2>1, <4>1 DEF MayAccess, Unrestricted
    <3>3. /\ header.present /\ header.signature \in Accepted(generation)
          /\ entitled = Normalized(header.payload)
      BY <3>1, <3>2 DEF ContextOf
    <3>4. PICK claims \in Identities : header.payload = Normalized(claims)
      BY <3>3 DEF IInv, TypeOK, Headers, Header, NoHeader
    <3>5. Normalized(header.payload) = header.payload
      BY <3>4, NormalizedTwice, SummaryAssumption
    <3>6. QED  BY <3>3, <3>5
  <2>3. QED  BY <2>1, <2>2 DEF NoMoreThanClaims, MayAccess, Unrestricted, MaySeePii
<1>2. QED  BY <1>1, Invariant, PTL
=============================================================================
