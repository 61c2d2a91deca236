---------------------------- MODULE FiniteFacts -----------------------------
(***************************************************************************)
(* Facts about finite data that the proofs share.  Least elements stand for *)
(* induction: a property that fails somewhere fails at a least number or a  *)
(* least set, and there the smaller cases may be used.  Sums are those of   *)
(* the community modules, whose recursion is unfolded once and never again. *)
(***************************************************************************)
EXTENDS Integers, FiniteSets, Functions, FiniteSetTheorems, WellFoundedInduction, TLAPS

---------------------------------------------------------------------------
(* Least elements.                                                         *)

\* A set of naturals has a least element.
LEMMA LeastNatural ==
  ASSUME NEW S \in SUBSET Nat, S # {}
  PROVE  \E x \in S : \A y \in S : x <= y
<1>1. PICK x \in S : \A y \in S : ~(<<y, x>> \in OpToRel(<, Nat))
  BY NatLessThanWellFounded, WFMin, Zenon
<1>2. \A y \in S : <<y, x>> \in Nat \X Nat
  OBVIOUS
<1>3. \A y \in S : ~(y < x)
  BY <1>1, <1>2 DEF OpToRel
<1> QED
  BY <1>3

\* A collection of subsets of a finite set has a member with no smaller one.
LEMMA LeastSubset ==
  ASSUME NEW F, IsFiniteSet(F), NEW B \in SUBSET (SUBSET F), B # {}
  PROVE  \E X \in B : \A Y \in B : ~(Y \subseteq X /\ Y # X)
<1>1. PICK X \in B : \A Y \in B : ~(<<Y, X>> \in StrictSubsetOrdering(F))
  <2>1. IsWellFoundedOn(StrictSubsetOrdering(F), FiniteSubsetsOf(F))
    BY FS_StrictSubsetOrderingWellFounded, Zenon
  <2>2. B \subseteq FiniteSubsetsOf(F)
    BY FS_Subset DEF FiniteSubsetsOf
  <2> QED
    BY <2>1, <2>2, WFMin, Zenon
<1> QED
  BY <1>1 DEF StrictSubsetOrdering

---------------------------------------------------------------------------
(* Sizes.                                                                  *)

\* The image of a finite set is finite, and no larger.
LEMMA ImageFinite ==
  ASSUME NEW S, IsFiniteSet(S), NEW f, DOMAIN f = S, f = [x \in S |-> f[x]]
  PROVE  /\ IsFiniteSet({f[x] : x \in S})
         /\ Cardinality({f[x] : x \in S}) <= Cardinality(S)
<1> DEFINE T == {f[x] : x \in S}
<1>1. f \in Surjection(S, T)
  BY DEF Surjection
<1> QED
  BY <1>1, FS_Surjection

\* A set that goes into a finite one, each element to one of its own, has no more elements.
LEMMA Embedded ==
  ASSUME NEW S, NEW T, IsFiniteSet(T), NEW f \in [S -> T], \A x, y \in S : f[x] = f[y] => x = y
  PROVE  IsFiniteSet(S) /\ Cardinality(S) <= Cardinality(T)
<1>1. f \in Injection(S, T)
  BY DEF Injection, IsInjective
<1> QED
  BY <1>1, FS_Injection

\* The union of two finite sets has at most as many members as the two.
LEMMA UnionSize ==
  ASSUME NEW S, NEW T, IsFiniteSet(S), IsFiniteSet(T)
  PROVE  /\ IsFiniteSet(S \cup T) /\ Cardinality(S \cup T) \in Nat
         /\ Cardinality(S \cup T) <= Cardinality(S) + Cardinality(T)
<1>1. /\ Cardinality(S) \in Nat /\ Cardinality(T) \in Nat
      /\ IsFiniteSet(S \cap T) /\ Cardinality(S \cap T) \in Nat
  BY FS_CardinalityType, FS_Intersection
<1>2. IsFiniteSet(S \cup T) /\ Cardinality(S \cup T) = Cardinality(S) + Cardinality(T) - Cardinality(S \cap T)
  BY FS_Union
<1>3. Cardinality(S \cup T) \in Nat
  BY <1>2, FS_CardinalityType
<1> QED
  BY <1>1, <1>2, <1>3

---------------------------------------------------------------------------
(* Sums.                                                                   *)

\* What SumFunctionOnSet's recursion says, of any set within T.
Adds(g, F, T) ==
  g = [s \in SUBSET T |->
         IF s = {} THEN 0 ELSE F[CHOOSE x \in s : TRUE] + g[s \ {CHOOSE x \in s : TRUE}]]

LEMMA AddsAt ==
  ASSUME NEW T, NEW F, NEW g, Adds(g, F, T), NEW s \in SUBSET T
  PROVE  g[s] = IF s = {} THEN 0 ELSE F[CHOOSE x \in s : TRUE] + g[s \ {CHOOSE x \in s : TRUE}]
  BY DEF Adds

\* At most one function does.
LEMMA AddsUnique ==
  ASSUME NEW T, IsFiniteSet(T), NEW F, NEW g, NEW h, Adds(g, F, T), Adds(h, F, T)
  PROVE  g = h
<1> DEFINE B == {s \in SUBSET T : g[s] # h[s]}
<1>1. ASSUME B # {}  PROVE FALSE
  <2>0. B \in SUBSET (SUBSET T)
    OBVIOUS
  <2> HIDE DEF B
  <2>1. PICK s \in B : \A y \in B : ~(y \subseteq s /\ y # s)
    BY <1>1, <2>0, LeastSubset
  <2> USE DEF B
  <2> DEFINE x == CHOOSE x \in s : TRUE
  <2>2. CASE s = {}
    BY <2>1, <2>2 DEF Adds
  <2>3. CASE s # {}
    <3>1. x \in s
      BY <2>3
    <3>2. s \ {x} \in SUBSET T /\ s \ {x} \notin B
      BY <2>1, <3>1
    <3>3. g[s] = F[x] + g[s \ {x}] /\ h[s] = F[x] + h[s \ {x}]
      BY <2>1, <2>3 DEF Adds
    <3> QED
      BY <2>1, <3>2, <3>3
  <2> QED
    BY <2>2, <2>3
<1>2. \A s \in SUBSET T : g[s] = h[s]
  BY <1>1
<1>3. /\ g = [s \in SUBSET T |-> g[s]]
      /\ h = [s \in SUBSET T |-> h[s]]
  BY DEF Adds
<1> QED
  BY <1>2, <1>3

\* What does so within T does so within a part of it.
LEMMA AddsWithin ==
  ASSUME NEW T, NEW F, NEW g, Adds(g, F, T), NEW U \in SUBSET T
  PROVE  Adds([s \in SUBSET U |-> g[s]], F, U)
<1> DEFINE c(s) == CHOOSE x \in s : TRUE
<1>1. ASSUME NEW s \in SUBSET U
      PROVE  g[s] = IF s = {} THEN 0 ELSE F[c(s)] + g[s \ {c(s)}]
  <2>1. s \in SUBSET T
    OBVIOUS
  <2> QED
    BY <2>1 DEF Adds
<1>2. \A s \in SUBSET U : s \ {c(s)} \in SUBSET U
  OBVIOUS
<1> DEFINE h == [s \in SUBSET U |-> g[s]]
<1>3. \A s \in SUBSET U : h[s] = IF s = {} THEN 0 ELSE F[c(s)] + h[s \ {c(s)}]
  BY <1>1, <1>2
<1>4. h = [s \in SUBSET U |-> h[s]]
  OBVIOUS
<1> HIDE DEF h
<1>5. h = [s \in SUBSET U |-> IF s = {} THEN 0 ELSE F[c(s)] + h[s \ {c(s)}]]
  BY <1>3, <1>4
<1> QED
  BY <1>5 DEF Adds, h

\* And some function does: the recursion defines a sum of every finite set.
LEMMA AddsExists ==
  ASSUME NEW S, IsFiniteSet(S), NEW F
  PROVE  \E g : Adds(g, F, S)
<1> DEFINE B == {T \in SUBSET S : ~\E g : Adds(g, F, T)}
           G(T) == CHOOSE g : Adds(g, F, T)
           c(s) == CHOOSE x \in s : TRUE
<1>1. ASSUME B # {}  PROVE FALSE
  <2>0. B \in SUBSET (SUBSET S)
    OBVIOUS
  <2> HIDE DEF B
  <2>1. PICK T \in B : \A U \in B : ~(U \subseteq T /\ U # T)
    BY <1>1, <2>0, LeastSubset
  <2> USE DEF B
  <2>2. \A U \in SUBSET T : U # T => Adds(G(U), F, U)
    BY <2>1
  <2> DEFINE h == [s \in SUBSET T |-> IF s = {} THEN 0 ELSE F[c(s)] + G(s \ {c(s)})[s \ {c(s)}]]
  <2>3. \A s \in SUBSET T : s # {} => s \ {c(s)} \in SUBSET T /\ s \ {c(s)} # T /\ s \ {c(s)} # s
    OBVIOUS
  <2>4. ASSUME NEW U \in SUBSET T, U # T, NEW V \in SUBSET U
        PROVE  G(U)[V] = G(V)[V]
    <3>1. Adds([s \in SUBSET V |-> G(U)[s]], F, V)
      BY <2>2, <2>4, AddsWithin
    <3>2. V \in SUBSET T /\ V # T /\ IsFiniteSet(V)
      BY <2>4, FS_Subset
    <3>3. G(V) = [s \in SUBSET V |-> G(U)[s]]
      BY <2>2, <3>1, <3>2, AddsUnique
    <3> QED
      BY <3>3
  <2>5. ASSUME NEW U \in SUBSET T, U # T
        PROVE  h[U] = G(U)[U]
    <3>1. G(U)[U] = IF U = {} THEN 0 ELSE F[c(U)] + G(U)[U \ {c(U)}]
      <4>1. Adds(G(U), F, U) /\ U \in SUBSET U
        BY <2>2, <2>5
      <4> HIDE DEF G
      <4> QED
        BY <4>1, AddsAt
    <3>2. U # {} => G(U)[U \ {c(U)}] = G(U \ {c(U)})[U \ {c(U)}]
      BY <2>3, <2>4, <2>5
    <3> QED
      BY <3>1, <3>2
  <2>6. ASSUME NEW s \in SUBSET T
        PROVE  h[s] = IF s = {} THEN 0 ELSE F[c(s)] + h[s \ {c(s)}]
    <3>1. h[s] = IF s = {} THEN 0 ELSE F[c(s)] + G(s \ {c(s)})[s \ {c(s)}]
      OBVIOUS
    <3>2. s # {} => h[s \ {c(s)}] = G(s \ {c(s)})[s \ {c(s)}]
      BY <2>3, <2>5
    <3> HIDE DEF h, G, c
    <3> QED
      BY <3>1, <3>2
  <2>7. h = [s \in SUBSET T |-> h[s]]
    OBVIOUS
  <2> HIDE DEF h
  <2>8. h = [s \in SUBSET T |-> IF s = {} THEN 0 ELSE F[c(s)] + h[s \ {c(s)}]]
    BY <2>6, <2>7
  <2>9. Adds(h, F, T)
    BY <2>8 DEF Adds
  <2> QED
    BY <2>1, <2>9
<1> QED
  BY <1>1

\* The sum of no numbers is 0; of some, it is one of them and the sum of the others.
LEMMA SumStep ==
  ASSUME NEW F, NEW S, IsFiniteSet(S)
  PROVE  /\ SumFunctionOnSet(F, {}) = 0
         /\ S # {} => \E x \in S : SumFunctionOnSet(F, S) = F[x] + SumFunctionOnSet(F, S \ {x})
<1> DEFINE I(T) == CHOOSE g : Adds(g, F, T)
           c(s) == CHOOSE x \in s : TRUE
<1>1. ASSUME NEW T  PROVE SumFunctionOnSet(F, T) = I(T)[T]
  BY DEF SumFunctionOnSet, FoldFunctionOnSet, MapThenFoldSet, Adds
<1>2. \A T \in SUBSET S : IsFiniteSet(T) /\ Adds(I(T), F, T)
  BY FS_Subset, AddsExists
<1>3. SumFunctionOnSet(F, {}) = 0
  <2>1. I({})[{}] = 0
    BY <1>2 DEF Adds
  <2> QED
    BY <1>1, <2>1
<1>4. ASSUME S # {}
      PROVE  SumFunctionOnSet(F, S) = F[c(S)] + SumFunctionOnSet(F, S \ {c(S)})
  <2> DEFINE U == S \ {c(S)}
  <2>0. S \in SUBSET S /\ U \in SUBSET S /\ IsFiniteSet(U)
    BY <1>2
  <2>1. I(S)[S] = F[c(S)] + I(S)[U]
    BY <1>2, <1>4, <2>0, AddsAt
  <2>2. I(U) = [s \in SUBSET U |-> I(S)[s]]
    <3>1. Adds(I(S), F, S) /\ Adds(I(U), F, U)
      BY <1>2, <2>0
    <3> HIDE DEF I, U
    <3>2. Adds([s \in SUBSET U |-> I(S)[s]], F, U)
      BY <2>0, <3>1, AddsWithin
    <3> QED
      BY <2>0, <3>1, <3>2, AddsUnique
  <2>3. I(U)[U] = I(S)[U]
    BY <2>2
  <2> QED
    BY <1>1, <2>1, <2>3
<1> QED
  BY <1>3, <1>4

\* A sum of integers is an integer, of naturals a natural.
LEMMA SumInt ==
  ASSUME NEW S, IsFiniteSet(S), NEW F, \A x \in S : F[x] \in Int
  PROVE  /\ SumFunctionOnSet(F, S) \in Int
         /\ (\A x \in S : F[x] >= 0) => SumFunctionOnSet(F, S) >= 0
<1> DEFINE Typed(T) == /\ SumFunctionOnSet(F, T) \in Int
                       /\ (\A x \in S : F[x] >= 0) => SumFunctionOnSet(F, T) >= 0
           B == {T \in SUBSET S : ~Typed(T)}
<1>1. B \in SUBSET (SUBSET S)
  OBVIOUS
<1>2. ASSUME B # {}  PROVE FALSE
  <2> HIDE DEF B
  <2>1. PICK T \in B : \A U \in B : ~(U \subseteq T /\ U # T)
    BY <1>1, <1>2, LeastSubset
  <2> USE DEF B
  <2>2. T \in SUBSET S /\ IsFiniteSet(T)
    BY <2>1, FS_Subset
  <2>3. T # {}
    <3>1. SumFunctionOnSet(F, {}) = 0
      BY <2>2, SumStep
    <3>2. Typed({})
      BY <3>1
    <3> QED
      BY <2>1, <3>2
  <2>4. PICK x \in T : SumFunctionOnSet(F, T) = F[x] + SumFunctionOnSet(F, T \ {x})
    BY <2>2, <2>3, SumStep
  <2>5. Typed(T \ {x})
    BY <2>1
  <2>6. Typed(T)
    BY <2>2, <2>4, <2>5
  <2> QED
    BY <2>1, <2>6
<1> QED
  BY <1>2

\* Any member can be taken first.
LEMMA SumElement ==
  ASSUME NEW S, IsFiniteSet(S), NEW F, \A y \in S : F[y] \in Int, NEW x \in S
  PROVE  SumFunctionOnSet(F, S) = F[x] + SumFunctionOnSet(F, S \ {x})
<1> DEFINE Sum(T) == SumFunctionOnSet(F, T)
           First(T) == \A y \in T : Sum(T) = F[y] + Sum(T \ {y})
           B == {T \in SUBSET S : ~First(T)}
<1>1. B \in SUBSET (SUBSET S)
  OBVIOUS
<1>0. \A T \in SUBSET S : IsFiniteSet(T) /\ Sum(T) \in Int
  BY FS_Subset, SumInt
<1>2. ASSUME B # {}  PROVE FALSE
  <2> HIDE DEF B
  <2>1. PICK T \in B : \A U \in B : ~(U \subseteq T /\ U # T)
    BY <1>1, <1>2, LeastSubset
  <2> USE DEF B
  <2>2. PICK z \in T : Sum(T) # F[z] + Sum(T \ {z})
    BY <2>1
  <2>3. PICK y \in T : Sum(T) = F[y] + Sum(T \ {y})
    BY <1>0, <2>1, SumStep
  <2>4. y # z
    BY <2>2, <2>3
  <2>5. First(T \ {y}) /\ First(T \ {z})
    BY <2>1
  <2>6. (T \ {y}) \ {z} = (T \ {z}) \ {y}
    OBVIOUS
  <2> DEFINE U == (T \ {z}) \ {y}
  <2>7. Sum(T \ {y}) = F[z] + Sum(U) /\ Sum(T \ {z}) = F[y] + Sum(U)
    BY <2>4, <2>5, <2>6
  <2>8. Sum(U) \in Int /\ F[y] \in Int /\ F[z] \in Int
    BY <1>0
  <2> HIDE DEF U, Sum
  <2> QED
    BY <2>2, <2>3, <2>7, <2>8
<1>3. First(S)
  BY <1>2
<1> QED
  BY <1>3

\* One more member adds its number.
LEMMA SumMore ==
  ASSUME NEW S, IsFiniteSet(S), NEW F, NEW x, x \notin S, \A y \in S \cup {x} : F[y] \in Int
  PROVE  SumFunctionOnSet(F, S \cup {x}) = F[x] + SumFunctionOnSet(F, S)
<1>1. IsFiniteSet(S \cup {x}) /\ (S \cup {x}) \ {x} = S
  BY FS_AddElement
<1> QED
  BY <1>1, SumElement

\* A sum is no greater than one whose numbers are no smaller.
LEMMA SumMonotone ==
  ASSUME NEW S, IsFiniteSet(S), NEW F, NEW G,
         \A x \in S : F[x] \in Int /\ G[x] \in Int /\ F[x] <= G[x]
  PROVE  SumFunctionOnSet(F, S) <= SumFunctionOnSet(G, S)
<1> DEFINE Less(T) == SumFunctionOnSet(F, T) <= SumFunctionOnSet(G, T)
           B == {T \in SUBSET S : ~Less(T)}
<1>1. B \in SUBSET (SUBSET S)
  OBVIOUS
<1>2. ASSUME B # {}  PROVE FALSE
  <2> HIDE DEF B
  <2>1. PICK T \in B : \A U \in B : ~(U \subseteq T /\ U # T)
    BY <1>1, <1>2, LeastSubset
  <2> USE DEF B
  <2>2. T \in SUBSET S /\ IsFiniteSet(T)
    BY <2>1, FS_Subset
  <2>3. T # {}
    <3>1. SumFunctionOnSet(F, {}) = 0 /\ SumFunctionOnSet(G, {}) = 0
      BY <2>2, SumStep
    <3>2. Less({})
      BY <3>1
    <3> QED
      BY <2>1, <3>2
  <2>4. PICK x \in T : TRUE
    BY <2>3
  <2>5. /\ SumFunctionOnSet(F, T) = F[x] + SumFunctionOnSet(F, T \ {x})
        /\ SumFunctionOnSet(G, T) = G[x] + SumFunctionOnSet(G, T \ {x})
    BY <2>2, SumElement
  <2>6. Less(T \ {x})
    BY <2>1
  <2>7. /\ SumFunctionOnSet(F, T \ {x}) \in Int /\ SumFunctionOnSet(G, T \ {x}) \in Int
    <3>1. IsFiniteSet(T \ {x}) /\ \A y \in T \ {x} : F[y] \in Int /\ G[y] \in Int
      BY <2>2, FS_Subset
    <3> QED
      BY <3>1, SumInt
  <2>8. F[x] \in Int /\ G[x] \in Int /\ F[x] <= G[x]
    BY <2>2
  <2> HIDE DEF B
  <2>9. Less(T)
    BY <2>5, <2>6, <2>7, <2>8
  <2> QED
    BY <2>1, <2>9 DEF B
<1> QED
  BY <1>2

\* Only the numbers of the members matter.
LEMMA SumSame ==
  ASSUME NEW S, IsFiniteSet(S), NEW F, NEW G, \A x \in S : F[x] \in Int /\ F[x] = G[x]
  PROVE  SumFunctionOnSet(F, S) = SumFunctionOnSet(G, S)
<1>1. \A x \in S : F[x] \in Int /\ G[x] \in Int /\ F[x] <= G[x] /\ G[x] <= F[x]
  OBVIOUS
<1>2. SumFunctionOnSet(F, S) <= SumFunctionOnSet(G, S) /\ SumFunctionOnSet(G, S) <= SumFunctionOnSet(F, S)
  BY <1>1, SumMonotone
<1>3. SumFunctionOnSet(F, S) \in Int /\ SumFunctionOnSet(G, S) \in Int
  BY <1>1, SumInt
<1> QED
  BY <1>2, <1>3

\* A sum changes by as much as its one number that changes.
LEMMA SumChanged ==
  ASSUME NEW S, IsFiniteSet(S), NEW F, NEW G, NEW x \in S,
         \A y \in S : F[y] \in Int /\ G[y] \in Int, \A y \in S \ {x} : F[y] = G[y]
  PROVE  SumFunctionOnSet(G, S) = SumFunctionOnSet(F, S) + (G[x] - F[x])
<1>1. IsFiniteSet(S \ {x})
  BY FS_Subset
<1>2. SumFunctionOnSet(F, S \ {x}) = SumFunctionOnSet(G, S \ {x}) /\ SumFunctionOnSet(F, S \ {x}) \in Int
  BY <1>1, SumSame, SumInt
<1>3. /\ SumFunctionOnSet(F, S) = F[x] + SumFunctionOnSet(F, S \ {x})
      /\ SumFunctionOnSet(G, S) = G[x] + SumFunctionOnSet(G, S \ {x})
  BY SumElement
<1> QED
  BY <1>2, <1>3

\* A sum of zeros is zero, and only that, of naturals.
LEMMA SumZero ==
  ASSUME NEW S, IsFiniteSet(S), NEW F, \A x \in S : F[x] \in Nat
  PROVE  SumFunctionOnSet(F, S) = 0 <=> \A x \in S : F[x] = 0
<1>1. ASSUME NEW x \in S, F[x] # 0  PROVE SumFunctionOnSet(F, S) # 0
  <2>1. SumFunctionOnSet(F, S) = F[x] + SumFunctionOnSet(F, S \ {x})
    BY SumElement
  <2>2. SumFunctionOnSet(F, S \ {x}) \in Int /\ SumFunctionOnSet(F, S \ {x}) >= 0
    <3>1. IsFiniteSet(S \ {x}) /\ \A y \in S \ {x} : F[y] \in Int /\ F[y] >= 0
      BY FS_Subset
    <3>2. SumFunctionOnSet(F, S \ {x}) \in Int
      BY <3>1, SumInt
    <3>3. SumFunctionOnSet(F, S \ {x}) >= 0
      BY <3>1, SumInt
    <3> QED
      BY <3>2, <3>3
  <2> QED
    BY <1>1, <2>1, <2>2
<1>2. ASSUME \A x \in S : F[x] = 0  PROVE SumFunctionOnSet(F, S) = 0
  <2> DEFINE B == {T \in SUBSET S : SumFunctionOnSet(F, T) # 0}
  <2>1. B \in SUBSET (SUBSET S)
    OBVIOUS
  <2>2. ASSUME B # {}  PROVE FALSE
    <3> HIDE DEF B
    <3>1. PICK T \in B : \A U \in B : ~(U \subseteq T /\ U # T)
      BY <2>1, <2>2, LeastSubset
    <3> USE DEF B
    <3>2. IsFiniteSet(T)
      BY <3>1, FS_Subset
    <3>3. T # {}
      BY <3>1, <3>2, SumStep
    <3>4. PICK x \in T : SumFunctionOnSet(F, T) = F[x] + SumFunctionOnSet(F, T \ {x})
      BY <3>2, <3>3, SumStep
    <3>5. SumFunctionOnSet(F, T \ {x}) = 0 /\ F[x] = 0
      BY <1>2, <3>1
    <3> QED
      BY <3>1, <3>4, <3>5
  <2> QED
    BY <2>2
<1> QED
  BY <1>1, <1>2

\* The sum of the sums of two functions is that of their sums.
LEMMA SumPlus ==
  ASSUME NEW S, IsFiniteSet(S), NEW F, NEW G, NEW H,
         \A x \in S : F[x] \in Int /\ G[x] \in Int /\ H[x] = F[x] + G[x]
  PROVE  SumFunctionOnSet(H, S) = SumFunctionOnSet(F, S) + SumFunctionOnSet(G, S)
<1> DEFINE Same(T) == SumFunctionOnSet(H, T) = SumFunctionOnSet(F, T) + SumFunctionOnSet(G, T)
           B == {T \in SUBSET S : ~Same(T)}
<1>1. B \in SUBSET (SUBSET S)
  OBVIOUS
<1>2. ASSUME B # {}  PROVE FALSE
  <2> HIDE DEF B
  <2>1. PICK T \in B : \A U \in B : ~(U \subseteq T /\ U # T)
    BY <1>1, <1>2, LeastSubset
  <2> USE DEF B
  <2>2. T \in SUBSET S /\ IsFiniteSet(T)
    BY <2>1, FS_Subset
  <2>3. T # {}
    <3>1. SumFunctionOnSet(F, {}) = 0 /\ SumFunctionOnSet(G, {}) = 0 /\ SumFunctionOnSet(H, {}) = 0
      BY <2>2, SumStep
    <3>2. Same({})
      BY <3>1
    <3> QED
      BY <2>1, <3>2
  <2>4. PICK x \in T : TRUE
    BY <2>3
  <2>5. \A y \in T : F[y] \in Int /\ G[y] \in Int /\ H[y] \in Int
    BY <2>2
  <2>6. /\ SumFunctionOnSet(F, T) = F[x] + SumFunctionOnSet(F, T \ {x})
        /\ SumFunctionOnSet(G, T) = G[x] + SumFunctionOnSet(G, T \ {x})
        /\ SumFunctionOnSet(H, T) = H[x] + SumFunctionOnSet(H, T \ {x})
    BY <2>2, <2>5, SumElement
  <2>7. Same(T \ {x})
    BY <2>1
  <2>8. SumFunctionOnSet(F, T \ {x}) \in Int /\ SumFunctionOnSet(G, T \ {x}) \in Int
    <3>1. IsFiniteSet(T \ {x})
      BY <2>2, FS_Subset
    <3> QED
      BY <2>5, <3>1, SumInt
  <2>9. F[x] \in Int /\ G[x] \in Int /\ H[x] = F[x] + G[x]
    BY <2>2
  <2> HIDE DEF B
  <2>10. Same(T)
    BY <2>6, <2>7, <2>8, <2>9
  <2> QED
    BY <2>1, <2>10 DEF B
<1> QED
  BY <1>2

\* The sum over two sets with no common member is the sum of both.
LEMMA SumUnion ==
  ASSUME NEW S, IsFiniteSet(S), NEW R, IsFiniteSet(R), S \cap R = {}, NEW F, \A x \in S \cup R : F[x] \in Int
  PROVE  SumFunctionOnSet(F, S \cup R) = SumFunctionOnSet(F, S) + SumFunctionOnSet(F, R)
<1> DEFINE Same(T) == SumFunctionOnSet(F, T \cup R) = SumFunctionOnSet(F, T) + SumFunctionOnSet(F, R)
           B == {T \in SUBSET S : ~Same(T)}
<1>1. B \in SUBSET (SUBSET S)
  OBVIOUS
<1>2. ASSUME B # {}  PROVE FALSE
  <2> HIDE DEF B
  <2>1. PICK T \in B : \A U \in B : ~(U \subseteq T /\ U # T)
    BY <1>1, <1>2, LeastSubset
  <2> USE DEF B
  <2>2. T \in SUBSET S /\ IsFiniteSet(T) /\ IsFiniteSet(T \cup R) /\ SumFunctionOnSet(F, R) \in Int
    BY <2>1, FS_Subset, FS_Union, SumInt
  <2>3. T # {}
    <3>1. SumFunctionOnSet(F, {}) = 0
      BY SumStep
    <3>2. {} \cup R = R
      OBVIOUS
    <3>3. Same({})
      BY <2>2, <3>1, <3>2
    <3> QED
      BY <2>1, <3>3
  <2>4. PICK x \in T : TRUE
    BY <2>3
  <2>5. (T \cup R) \ {x} = (T \ {x}) \cup R
    BY <2>2, <2>4
  <2>6. /\ SumFunctionOnSet(F, T) = F[x] + SumFunctionOnSet(F, T \ {x})
        /\ SumFunctionOnSet(F, T \cup R) = F[x] + SumFunctionOnSet(F, (T \ {x}) \cup R)
    <3>1. \A y \in T \cup R : F[y] \in Int
      BY <2>2
    <3> QED
      BY <2>2, <2>5, <3>1, SumElement
  <2>7. Same(T \ {x})
    BY <2>1
  <2>8. F[x] \in Int /\ SumFunctionOnSet(F, T \ {x}) \in Int
    <3>1. IsFiniteSet(T \ {x}) /\ \A y \in T : F[y] \in Int
      BY <2>2, FS_Subset
    <3> QED
      BY <3>1, SumInt
  <2> HIDE DEF B
  <2>9. Same(T)
    BY <2>2, <2>6, <2>7, <2>8
  <2> QED
    BY <2>1, <2>9 DEF B
<1> QED
  BY <1>2

\* What counts for nothing can be left out of a sum.
LEMMA SumOthers ==
  ASSUME NEW S, IsFiniteSet(S), NEW T \in SUBSET S, NEW F,
         \A x \in S : F[x] \in Int, \A x \in S \ T : F[x] = 0
  PROVE  SumFunctionOnSet(F, S) = SumFunctionOnSet(F, T)
<1>1. /\ IsFiniteSet(T) /\ IsFiniteSet(S \ T) /\ T \cap (S \ T) = {} /\ T \cup (S \ T) = S
  BY FS_Subset
<1>2. \A x \in T \cup (S \ T) : F[x] \in Int
  OBVIOUS
<1>3. SumFunctionOnSet(F, S) = SumFunctionOnSet(F, T) + SumFunctionOnSet(F, S \ T)
  <2>1. SumFunctionOnSet(F, T \cup (S \ T)) = SumFunctionOnSet(F, T) + SumFunctionOnSet(F, S \ T)
    BY <1>1, <1>2, SumUnion
  <2> QED
    BY <1>1, <2>1
<1>4. SumFunctionOnSet(F, S \ T) = 0
  BY <1>1, SumZero
<1>5. SumFunctionOnSet(F, T) \in Int
  BY <1>1, SumInt
<1> QED
  BY <1>1, <1>3, <1>4, <1>5

\* A sum over what stands for others, one for each, is the sum over those.
LEMMA SumImage ==
  ASSUME NEW Z, IsFiniteSet(Z), NEW g, NEW F, NEW H,
         \A x, y \in Z : g[x] = g[y] => x = y,
         \A x \in Z : H[x] \in Int /\ H[x] = F[g[x]]
  PROVE  SumFunctionOnSet(F, {g[x] : x \in Z}) = SumFunctionOnSet(H, Z)
<1> DEFINE Image(T) == {g[x] : x \in T}
           Same(T) == SumFunctionOnSet(F, Image(T)) = SumFunctionOnSet(H, T)
           B == {T \in SUBSET Z : ~Same(T)}
<1>1. B \in SUBSET (SUBSET Z)
  OBVIOUS
<1>2. ASSUME NEW T \in SUBSET Z
      PROVE  /\ IsFiniteSet(T) /\ IsFiniteSet(Image(T))
             /\ \A y \in Image(T) : F[y] \in Int
  <2>1. IsFiniteSet(T)
    BY FS_Subset
  <2>2. IsFiniteSet(Image(T))
    <3> DEFINE f == [x \in T |-> g[x]]
    <3>1. DOMAIN f = T /\ f = [x \in T |-> f[x]]
      OBVIOUS
    <3>2. {f[x] : x \in T} = Image(T)
      OBVIOUS
    <3> HIDE DEF f, Image
    <3> QED
      BY <2>1, <3>1, <3>2, ImageFinite
  <2> QED
    BY <2>1, <2>2
<1>3. ASSUME B # {}  PROVE FALSE
  <2> HIDE DEF B
  <2>1. PICK T \in B : \A U \in B : ~(U \subseteq T /\ U # T)
    BY <1>1, <1>3, LeastSubset
  <2> USE DEF B
  <2>2. T \in SUBSET Z
    OBVIOUS
  <2>3. T # {}
    <3>1. SumFunctionOnSet(F, {}) = 0 /\ SumFunctionOnSet(H, {}) = 0
      BY <1>2, <2>2, SumStep
    <3>2. Image({}) = {}
      OBVIOUS
    <3>3. Same({})
      BY <3>1, <3>2
    <3> QED
      BY <2>1, <3>3
  <2>4. PICK x \in T : TRUE
    BY <2>3
  <2>5. T \ {x} \in SUBSET Z /\ Same(T \ {x})
    BY <2>1
  <2>6. Image(T \ {x}) = Image(T) \ {g[x]} /\ g[x] \in Image(T)
    BY <2>2
  <2>7. SumFunctionOnSet(F, Image(T)) = F[g[x]] + SumFunctionOnSet(F, Image(T) \ {g[x]})
    <3>1. IsFiniteSet(Image(T)) /\ \A y \in Image(T) : F[y] \in Int
      BY <1>2, <2>2
    <3> HIDE DEF Image
    <3> QED
      BY <2>6, <3>1, SumElement
  <2>8. SumFunctionOnSet(H, T) = H[x] + SumFunctionOnSet(H, T \ {x})
    <3>1. IsFiniteSet(T) /\ \A y \in T : H[y] \in Int
      BY <1>2, <2>2
    <3> QED
      BY <3>1, SumElement
  <2>9. H[x] = F[g[x]]
    BY <2>2
  <2>10. Same(T)
    BY <2>5, <2>6, <2>7, <2>8, <2>9
  <2> QED
    BY <2>1, <2>10
<1>4. Z \in SUBSET Z /\ Z \notin B
  BY <1>3
<1> QED
  BY <1>4

---------------------------------------------------------------------------
(* Ranks.                                                                  *)

\* Of a finite set in a strict order of which every two are before one another, as many
\* have fewer than k before them as there are places, k or all.
LEMMA Ranked ==
  ASSUME NEW S, IsFiniteSet(S), NEW R, NEW k \in Nat, k <= Cardinality(S),
         \A x \in S : <<x, x>> \notin R,
         \A x, y, z \in S : <<x, y>> \in R /\ <<y, z>> \in R => <<x, z>> \in R,
         \A x, y \in S : x # y => <<x, y>> \in R \/ <<y, x>> \in R
  PROVE  Cardinality({x \in S : Cardinality({y \in S : <<y, x>> \in R}) < k}) = k
<1> DEFINE P(x) == {y \in S : <<y, x>> \in R}
           f == [x \in S |-> Cardinality(P(x))]
           n == Cardinality(S)
           T == {x \in S : f[x] < k}
<1>1. n \in Nat
  BY FS_CardinalityType
<1>2. ASSUME NEW x \in S
      PROVE  /\ IsFiniteSet(P(x)) /\ f[x] \in Nat /\ f[x] < n
  <2>1. P(x) \in SUBSET S /\ P(x) # S
    OBVIOUS
  <2> HIDE DEF P
  <2>2. IsFiniteSet(P(x)) /\ Cardinality(P(x)) <= Cardinality(S) /\ Cardinality(P(x)) # Cardinality(S)
    BY <2>1, FS_Subset
  <2>3. Cardinality(P(x)) \in Nat
    BY <2>2, FS_CardinalityType
  <2> QED
    BY <1>1, <2>2, <2>3
<1>3. ASSUME NEW x \in S, NEW y \in S, <<x, y>> \in R
      PROVE  f[x] < f[y]
  <2>1. P(x) \in SUBSET P(y) /\ P(x) # P(y)
    BY <1>3
  <2>2. IsFiniteSet(P(y)) /\ IsFiniteSet(P(x)) /\ f[x] = Cardinality(P(x)) /\ f[y] = Cardinality(P(y))
        /\ f[x] \in Nat /\ f[y] \in Nat
    BY <1>2
  <2> HIDE DEF P, f
  <2>3. Cardinality(P(x)) <= Cardinality(P(y)) /\ Cardinality(P(x)) # Cardinality(P(y))
    BY <2>1, <2>2, FS_Subset
  <2> QED
    BY <2>2, <2>3
<1>4. f \in Injection(S, 0..(n - 1))
  <2>1. f \in [S -> 0..(n - 1)]
    <3>1. \A x \in S : f[x] \in 0..(n - 1)
      <4> SUFFICES ASSUME NEW x \in S  PROVE f[x] \in 0..(n - 1)
        OBVIOUS
      <4>1. f[x] \in Nat /\ f[x] < n
        BY <1>2
      <4> HIDE DEF f, n
      <4> QED
        BY <1>1, <4>1
    <3>2. f = [x \in S |-> f[x]]
      OBVIOUS
    <3> HIDE DEF f
    <3> QED
      BY <3>1, <3>2
  <2>2. \A x, y \in S : f[x] = f[y] => x = y
    <3> SUFFICES ASSUME NEW x \in S, NEW y \in S, x # y  PROVE f[x] # f[y]
      OBVIOUS
    <3>1. f[x] < f[y] \/ f[y] < f[x]
      BY <1>3
    <3>2. f[x] \in Nat /\ f[y] \in Nat
      BY <1>2
    <3> HIDE DEF f
    <3> QED
      BY <3>1, <3>2
  <2> HIDE DEF f
  <2> QED
    BY <2>1, <2>2 DEF Injection, IsInjective
<1> HIDE DEF f, P
<1>5. \A m \in 0..n : IsFiniteSet(0..(m - 1)) /\ Cardinality(0..(m - 1)) = m
  <2> SUFFICES ASSUME NEW m \in 0..n  PROVE IsFiniteSet(0..(m - 1)) /\ Cardinality(0..(m - 1)) = m
    OBVIOUS
  <2>1. 0 \in Int /\ m - 1 \in Int /\ (0 > m - 1 <=> m = 0) /\ m - 1 - 0 + 1 = m
    BY <1>1
  <2>2. IsFiniteSet(0..(m - 1)) /\ Cardinality(0..(m - 1)) = IF 0 > m - 1 THEN 0 ELSE m - 1 - 0 + 1
    BY <2>1, FS_Interval
  <2> QED
    BY <2>1, <2>2
<1>6. f \in Surjection(S, 0..(n - 1))
  <2>1. n \in 0..n
    BY <1>1
  <2>2. IsFiniteSet(0..(n - 1)) /\ Cardinality(0..(n - 1)) = Cardinality(S)
    BY <1>5, <2>1
  <2> QED
    BY <1>4, <2>2, FS_Injection
<1> DEFINE h == [x \in T |-> f[x]]
<1>7. h \in Bijection(T, 0..(k - 1))
  <2>1. k \in 0..n /\ T \in SUBSET S
    BY <1>1
  <2>2. h \in [T -> 0..(k - 1)]
    <3>1. \A x \in T : f[x] \in 0..(k - 1)
      BY <1>1, <1>2, <2>1
    <3> QED
      BY <3>1
  <2>3. \A x, y \in T : h[x] = h[y] => x = y
    BY <1>4, <2>1 DEF Injection, IsInjective
  <2>4. \A m \in 0..(k - 1) : \E x \in T : h[x] = m
    <3> SUFFICES ASSUME NEW m \in 0..(k - 1)  PROVE \E x \in T : h[x] = m
      OBVIOUS
    <3>1. m \in 0..(n - 1) /\ m < k
      BY <1>1, <2>1
    <3>2. PICK x \in S : f[x] = m
      BY <1>6, <3>1 DEF Surjection
    <3> QED
      BY <3>1, <3>2
  <2> HIDE DEF h, T
  <2> QED
    BY <2>2, <2>3, <2>4 DEF Bijection, Injection, Surjection, IsInjective
<1>8. Cardinality(T) = k
  <2>1. IsFiniteSet(T)
    <3>1. T \in SUBSET S
      OBVIOUS
    <3> QED
      BY <3>1, FS_Subset
  <2>2. Cardinality(0..(k - 1)) = k
    BY <1>1, <1>5
  <2>3. ExistsBijection(T, 0..(k - 1))
    BY <1>7 DEF ExistsBijection
  <2> HIDE DEF T
  <2> QED
    BY <2>1, <2>2, <2>3, FS_Bijection
<1> QED
  BY <1>8 DEF f, P
=============================================================================
