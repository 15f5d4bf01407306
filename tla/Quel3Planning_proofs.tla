-------------------------- MODULE Quel3Planning_proofs --------------------------
(***************************************************************************)
(* Proofs about Quel3Groups and Quel3Planning.                             *)
(***************************************************************************)
EXTENDS Quel3Planning, FiniteSetTheorems, SequenceTheorems, WellFoundedInduction, TLAPS

-----------------------------------------------------------------------------
(* Induction, with sets in the place of predicates.                          *)

\* A set of natural numbers has a least element.
LEMMA Least ==
  ASSUME NEW S \in SUBSET Nat, S # {}
  PROVE  \E m \in S : \A k \in S : m <= k
<1> DEFINE R == OpToRel(<, Nat)
<1>1. IsWellFoundedOn(R, Nat)
  BY NatLessThanWellFounded
<1>2. \A x, y \in Nat : y < x => <<y, x>> \in R
  BY DEF OpToRel
<1> HIDE DEF R
<1>3. PICK m \in S : \A k \in S : ~(<<k, m>> \in R)
  BY <1>1, WFMin
<1>4. ASSUME NEW k \in S
      PROVE  m <= k
  <2>1. ~(k < m)
    BY <1>2, <1>3
  <2> QED
    BY <2>1
<1> QED
  BY <1>4

\* Induction on the natural numbers.
LEMMA Counting ==
  ASSUME NEW P \in SUBSET Nat, 0 \in P, \A n \in P : n + 1 \in P
  PROVE  P = Nat
<1> SUFFICES ASSUME Nat \ P # {} PROVE FALSE
  OBVIOUS
<1>1. PICK m \in Nat \ P : \A k \in Nat \ P : m <= k
  BY Least
<1>2. m - 1 \in Nat /\ m - 1 \in P
  BY <1>1
<1> QED
  BY <1>1, <1>2

\* Among subsets of a finite set, some have no proper subset.
LEMMA SmallestSubset ==
  ASSUME NEW S, IsFiniteSet(S), NEW Q \in SUBSET (SUBSET S), Q # {}
  PROVE  \E T \in Q : \A x \in T : T \ {x} \notin Q
<1> DEFINE sizes == {Cardinality(T) : T \in Q}
<1>1. \A T \in Q : IsFiniteSet(T) /\ Cardinality(T) \in Nat
  BY FS_Subset, FS_CardinalityType
<1>2. sizes \in SUBSET Nat /\ sizes # {}
  BY <1>1
<1>3. PICK n \in sizes : \A k \in sizes : n <= k
  BY <1>2, Least
<1>4. PICK T \in Q : Cardinality(T) = n
  BY <1>3
<1>5. ASSUME NEW x \in T, T \ {x} \in Q
      PROVE  FALSE
  <2>1. Cardinality(T \ {x}) = Cardinality(T) - 1
    BY <1>1, FS_RemoveElement
  <2> QED
    BY <1>1, <1>3, <1>4, <1>5, <2>1
<1> QED
  BY <1>5

\* Induction on a finite set.
LEMMA AddingElements ==
  ASSUME NEW S, IsFiniteSet(S), NEW P \in SUBSET (SUBSET S), {} \in P,
         \A T \in P : \A x \in S \ T : T \cup {x} \in P
  PROVE  P = SUBSET S
<1> SUFFICES ASSUME (SUBSET S) \ P # {} PROVE FALSE
  OBVIOUS
<1>1. PICK T \in (SUBSET S) \ P : \A x \in T : T \ {x} \notin (SUBSET S) \ P
  BY SmallestSubset
<1>2. PICK x \in T : TRUE
  BY <1>1
<1>3. T \ {x} \in P /\ x \in S \ (T \ {x}) /\ (T \ {x}) \cup {x} = T
  BY <1>1
<1> QED
  BY <1>1, <1>3

-----------------------------------------------------------------------------
(* Folds over finite sets.                                                   *)

Some(T) == CHOOSE x \in T : TRUE

\* g folds f with op over the subsets of S.
Folds(g, f, op, base, S) ==
    /\ g \in [SUBSET S -> Nat]
    /\ g[{}] = base
    /\ \A T \in SUBSET S : T # {} => g[T] = op[<<f[Some(T)], g[T \ {Some(T)}]>>]
Adds(g, f, S) ==
    /\ g \in [SUBSET S -> Nat]
    /\ g[{}] = 0
    /\ \A T \in SUBSET S : T # {} => g[T] = f[Some(T)] + g[T \ {Some(T)}]

\* A recursion over the subsets of a finite set has a solution.
LEMMA FoldExists ==
  ASSUME NEW S, IsFiniteSet(S), NEW f \in [S -> Nat], NEW op \in [Nat \X Nat -> Nat],
         NEW base \in Nat
  PROVE  \E g : Folds(g, f, op, base, S)
<1> DEFINE Sub(n) == {T \in SUBSET S : Cardinality(T) <= n}
           Step(g, T) == IF T = {} THEN base ELSE op[<<f[Some(T)], g[T \ {Some(T)}]>>]
           P == {n \in Nat : \E g \in [Sub(n) -> Nat] : \A T \in Sub(n) : g[T] = Step(g, T)}
<1>0. \A T \in SUBSET S : /\ IsFiniteSet(T) /\ Cardinality(T) \in Nat
                          /\ Cardinality(T) = 0 <=> T = {}
                          /\ T # {} => Some(T) \in T
                          /\ T # {} => Cardinality(T \ {Some(T)}) = Cardinality(T) - 1
  BY FS_Subset, FS_CardinalityType, FS_EmptySet, FS_RemoveElement DEF Some
<1>1. 0 \in P
  <2>1. ASSUME NEW T \in Sub(0)
        PROVE  T = {}
    <3>1. T \in SUBSET S /\ Cardinality(T) <= 0
      OBVIOUS
    <3>2. Cardinality(T) \in Nat /\ (Cardinality(T) = 0 <=> T = {})
      BY <1>0, <3>1
    <3>3. Cardinality(T) = 0
      BY <3>1, <3>2
    <3> QED
      BY <3>2, <3>3
  <2>2. [T \in Sub(0) |-> base] \in [Sub(0) -> Nat]
    OBVIOUS
  <2> QED
    BY <2>1, <2>2
<1>2. ASSUME NEW n \in P
      PROVE  n + 1 \in P
  <2>1. PICK g \in [Sub(n) -> Nat] : \A T \in Sub(n) : g[T] = Step(g, T)
    OBVIOUS
  <2> DEFINE h == [T \in Sub(n + 1) |-> Step(g, T)]
  <2>2. \A T \in Sub(n + 1) : T # {} => T \ {Some(T)} \in Sub(n) /\ T \ {Some(T)} \in Sub(n + 1)
    BY <1>0
  <2>3. \A T \in Sub(n + 1) : Step(g, T) \in Nat
    <3> SUFFICES ASSUME NEW T \in Sub(n + 1), T # {} PROVE Step(g, T) \in Nat
      OBVIOUS
    <3>1. f[Some(T)] \in Nat /\ g[T \ {Some(T)}] \in Nat
      BY <1>0, <2>2
    <3> QED
      BY <3>1
  <2>4. h \in [Sub(n + 1) -> Nat]
    BY <2>3
  <2>5. \A T \in Sub(n) : T \in Sub(n + 1) /\ h[T] = g[T]
    BY <1>0, <2>1
  <2>6. \A T \in Sub(n + 1) : h[T] = Step(h, T)
    <3> SUFFICES ASSUME NEW T \in Sub(n + 1), T # {} PROVE h[T] = Step(h, T)
      OBVIOUS
    <3>1. h[T \ {Some(T)}] = g[T \ {Some(T)}]
      BY <2>2, <2>5
    <3> QED
      BY <3>1
  <2>7. n + 1 \in Nat
    OBVIOUS
  <2> HIDE DEF h, Step, Sub
  <2> QED
    BY <2>4, <2>6, <2>7
<1> HIDE DEF P
<1>3. P = Nat
  <2>1. P \in SUBSET Nat
    BY DEF P
  <2> QED
    BY <1>1, <1>2, <2>1, Counting
<1>4. Sub(Cardinality(S)) = SUBSET S
  BY FS_Subset, FS_CardinalityType
<1>5. Cardinality(S) \in P
  BY <1>3, FS_CardinalityType
<1>6. PICK g \in [SUBSET S -> Nat] : \A T \in SUBSET S : g[T] = Step(g, T)
  BY <1>4, <1>5 DEF P
<1>7. Folds(g, f, op, base, S)
  BY <1>6 DEF Folds
<1> QED
  BY <1>7

-----------------------------------------------------------------------------
(* Sums.                                                                     *)

\* Adding up over the subsets of a finite set.
LEMMA SumFold ==
  ASSUME NEW S, IsFiniteSet(S), NEW f \in [S -> Nat]
  PROVE  \E g : Adds(g, f, S)
<1> DEFINE op == [p \in Nat \X Nat |-> p[1] + p[2]]
<1>1. op \in [Nat \X Nat -> Nat] /\ \A a, b \in Nat : op[<<a, b>>] = a + b
  OBVIOUS
<1>2. 0 \in Nat
  OBVIOUS
<1> HIDE DEF op
<1>3. PICK g : Folds(g, f, op, 0, S)
  BY <1>1, <1>2, FoldExists
<1>4. ASSUME NEW T \in SUBSET S, T # {}
      PROVE  g[T] = f[Some(T)] + g[T \ {Some(T)}]
  <2>1. Some(T) \in S
    BY <1>4 DEF Some
  <2>2. f[Some(T)] \in Nat /\ g[T \ {Some(T)}] \in Nat
    BY <1>3, <2>1 DEF Folds
  <2>3. g[T] = op[<<f[Some(T)], g[T \ {Some(T)}]>>]
    BY <1>3, <1>4 DEF Folds
  <2> QED
    BY <1>1, <2>2, <2>3
<1>5. Adds(g, f, S)
  BY <1>3, <1>4 DEF Folds, Adds
<1> QED
  BY <1>5

\* On the subsets of a finite set, a sum adds up in some order.
LEMMA SumGraph ==
  ASSUME NEW S, IsFiniteSet(S), NEW f, \A x \in S : f[x] \in Nat
  PROVE  /\ SumFunctionOnSet(f, S) \in Nat
         /\ SumFunctionOnSet(f, {}) = 0
         /\ \A T \in SUBSET S :
              T # {} => SumFunctionOnSet(f, T)
                           = f[Some(T)] + SumFunctionOnSet(f, T \ {Some(T)})
<1> DEFINE Solves(g, D) == \A T \in SUBSET D :
                              g[T] = IF T = {} THEN 0 ELSE f[Some(T)] + g[T \ {Some(T)}]
<1>2. ASSUME NEW D \in SUBSET S
      PROVE  \E g \in [SUBSET D -> Nat] : Solves(g, D) /\ g[D] = SumFunctionOnSet(f, D)
  <2> DEFINE h == [x \in D |-> f[x]]
             iter == CHOOSE iter : iter = [T \in SUBSET D |-> IF T = {} THEN 0
                                             ELSE f[Some(T)] + iter[T \ {Some(T)}]]
  <2>1. IsFiniteSet(D) /\ h \in [D -> Nat]
    BY FS_Subset
  <2>2. \A T \in SUBSET D : T # {} => Some(T) \in T /\ h[Some(T)] = f[Some(T)] /\ h[Some(T)] \in Nat
    BY DEF Some
  <2> HIDE DEF h
  <2>3. PICK g : Adds(g, h, D)
    BY <2>1, SumFold
  <2>4. g \in [SUBSET D -> Nat] /\ Solves(g, D)
    BY <2>2, <2>3 DEF Adds
  <2>5. g = [T \in SUBSET D |-> IF T = {} THEN 0 ELSE f[Some(T)] + g[T \ {Some(T)}]]
    BY <2>4
  <2>6. iter = [T \in SUBSET D |-> IF T = {} THEN 0 ELSE f[Some(T)] + iter[T \ {Some(T)}]]
    BY <2>5
  <2>7. SumFunctionOnSet(f, D) = iter[D]
    BY DEF SumFunctionOnSet, FoldFunctionOnSet, MapThenFoldSet, Some
  <2> HIDE DEF iter
  <2>8. \A T \in SUBSET D : iter[T] = g[T]
    <3> DEFINE Q == {T \in SUBSET D : iter[T] # g[T]}
    <3>0. \A T \in SUBSET D : iter[T] = IF T = {} THEN 0 ELSE f[Some(T)] + iter[T \ {Some(T)}]
      BY <2>6
    <3>1. ASSUME Q # {}
          PROVE  FALSE
      <4>1. PICK T \in Q : \A x \in T : T \ {x} \notin Q
        BY <2>1, <3>1, SmallestSubset
      <4>2. T # {} /\ Some(T) \in T
        BY <2>4, <3>0 DEF Some
      <4>3. T \ {Some(T)} \in SUBSET D /\ iter[T \ {Some(T)}] = g[T \ {Some(T)}]
        BY <4>1, <4>2
      <4>4. iter[T] = g[T]
        BY <2>4, <3>0, <4>2, <4>3
      <4> QED
        BY <4>4
    <3> QED
      BY <3>1
  <2> QED
    BY <2>4, <2>7, <2>8
<1>3. ASSUME NEW D \in SUBSET S, NEW E \in SUBSET D,
             NEW g \in [SUBSET D -> Nat], Solves(g, D)
      PROVE  g[E] = SumFunctionOnSet(f, E)
  <2>1. PICK h \in [SUBSET E -> Nat] : Solves(h, E) /\ h[E] = SumFunctionOnSet(f, E)
    BY <1>2
  <2> DEFINE Q == {T \in SUBSET E : h[T] # g[T]}
  <2>2. ASSUME Q # {}
        PROVE  FALSE
    <3>0. IsFiniteSet(E)
      BY FS_Subset
    <3>1. PICK T \in Q : \A x \in T : T \ {x} \notin Q
      BY <2>2, <3>0, SmallestSubset
    <3>2. T # {} /\ Some(T) \in T /\ T \in SUBSET D
      BY <1>3, <2>1 DEF Some
    <3>3. T \ {Some(T)} \in SUBSET E /\ h[T \ {Some(T)}] = g[T \ {Some(T)}]
      BY <3>1, <3>2
    <3>4. h[T] = g[T]
      BY <1>3, <2>1, <3>2, <3>3
    <3> QED
      BY <3>4
  <2> QED
    BY <2>1, <2>2
<1>4. PICK g \in [SUBSET S -> Nat] : Solves(g, S)
  <2>1. S \in SUBSET S
    OBVIOUS
  <2> HIDE DEF Solves
  <2> QED
    BY <1>2, <2>1
<1>5. \A T \in SUBSET S : g[T] = SumFunctionOnSet(f, T)
  BY <1>3, <1>4
<1> QED
  BY <1>4, <1>5

\* Any element of the set can be added last.
LEMMA SumRemove ==
  ASSUME NEW S, IsFiniteSet(S), NEW f, \A x \in S : f[x] \in Nat, NEW x \in S
  PROVE  /\ SumFunctionOnSet(f, S \ {x}) \in Nat
         /\ SumFunctionOnSet(f, S) = f[x] + SumFunctionOnSet(f, S \ {x})
<1> DEFINE g(T) == SumFunctionOnSet(f, T)
           Q == {T \in SUBSET S : \E y \in T : g(T) # f[y] + g(T \ {y})}
<1>1. \A T \in SUBSET S : IsFiniteSet(T) /\ \A y \in T : f[y] \in Nat
  BY FS_Subset
<1>2. \A T \in SUBSET S : g(T) \in Nat
  BY <1>1, SumGraph
<1>3. \A T \in SUBSET S : T # {} => Some(T) \in T /\ g(T) = f[Some(T)] + g(T \ {Some(T)})
  BY SumGraph DEF Some
<1> HIDE DEF g
<1>4. ASSUME Q # {}
      PROVE  FALSE
  <2>1. PICK T \in Q : \A y \in T : T \ {y} \notin Q
    BY <1>4, SmallestSubset
  <2>2. PICK y \in T : g(T) # f[y] + g(T \ {y})
    BY <2>1
  <2> DEFINE z == Some(T)
  <2>3. z \in T /\ z # y /\ g(T) = f[z] + g(T \ {z})
    BY <1>3, <2>2
  <2> HIDE DEF z
  <2>4. T \ {z} \notin Q /\ T \ {y} \notin Q /\ y \in T \ {z} /\ z \in T \ {y}
    BY <2>1, <2>2, <2>3
  <2>5. /\ g(T \ {z}) = f[y] + g((T \ {z}) \ {y})
        /\ g(T \ {y}) = f[z] + g((T \ {y}) \ {z})
    BY <2>4
  <2>6. (T \ {z}) \ {y} = (T \ {y}) \ {z}
    OBVIOUS
  <2>7. f[y] \in Nat /\ f[z] \in Nat /\ g((T \ {z}) \ {y}) \in Nat
    BY <1>1, <1>2, <2>2, <2>3
  <2> QED
    BY <2>2, <2>3, <2>5, <2>6, <2>7
<1>5. g(S) = f[x] + g(S \ {x})
  BY <1>4
<1> QED
  BY <1>2, <1>5 DEF g

\* A sum does not see the zeros, nor the rest of the function.
LEMMA SumSkipsZeros ==
  ASSUME NEW S, IsFiniteSet(S), NEW f, \A x \in S : f[x] \in Nat,
         NEW h, NEW U \in SUBSET S,
         \A x \in U : h[x] = f[x], \A x \in S \ U : f[x] = 0
  PROVE  SumFunctionOnSet(f, S) = SumFunctionOnSet(h, U)
<1> DEFINE F(T) == SumFunctionOnSet(f, T)
           H(T) == SumFunctionOnSet(h, T \cap U)
           P == {T \in SUBSET S : F(T) = H(T)}
<1>1. \A T \in SUBSET S : /\ IsFiniteSet(T) /\ IsFiniteSet(T \cap U)
                          /\ \A x \in T : f[x] \in Nat
                          /\ \A x \in T \cap U : h[x] \in Nat
  BY FS_Subset
<1>2. {} \in P
  <2>1. F({}) = 0
    BY SumGraph
  <2>2. IsFiniteSet(U) /\ \A x \in U : h[x] \in Nat
    BY <1>1
  <2>3. H({}) = 0
    BY <2>2, SumGraph
  <2> QED
    BY <2>1, <2>3
<1>3. ASSUME NEW T \in P, NEW x \in S \ T
      PROVE  T \cup {x} \in P
  <2>1. T \cup {x} \in SUBSET S /\ (T \cup {x}) \ {x} = T /\ x \in T \cup {x}
    OBVIOUS
  <2>0. IsFiniteSet(T \cup {x}) /\ \A y \in T \cup {x} : f[y] \in Nat
    BY <1>1, <2>1
  <2>2. F(T \cup {x}) = f[x] + F(T) /\ F(T) \in Nat
    BY <2>0, <2>1, SumRemove
  <2>3. CASE x \in U
    <3>1. x \in (T \cup {x}) \cap U /\ ((T \cup {x}) \cap U) \ {x} = T \cap U
      BY <2>3
    <3>0. /\ IsFiniteSet((T \cup {x}) \cap U)
          /\ \A y \in (T \cup {x}) \cap U : h[y] \in Nat
      BY <1>1, <2>1
    <3>2. H(T \cup {x}) = h[x] + H(T)
      BY <3>0, <3>1, SumRemove
    <3> QED
      BY <2>1, <2>2, <2>3, <3>2
  <2>4. CASE x \notin U
    <3>1. (T \cup {x}) \cap U = T \cap U
      BY <2>4
    <3>2. H(T \cup {x}) = H(T)
      BY <3>1
    <3>3. f[x] = 0 /\ F(T) = H(T)
      BY <2>4
    <3> HIDE DEF F, H
    <3> QED
      BY <2>1, <2>2, <3>2, <3>3
  <2> QED
    BY <2>3, <2>4
<1>4. P = SUBSET S
  <2>1. P \in SUBSET (SUBSET S)
    OBVIOUS
  <2> HIDE DEF P
  <2> QED
    BY <1>2, <1>3, <2>1, AddingElements
<1>5. S \in P /\ S \cap U = U
  BY <1>4
<1> QED
  BY <1>5

\* A part sums to no more than the whole.
LEMMA SumOfPart ==
  ASSUME NEW S, IsFiniteSet(S), NEW f, \A x \in S : f[x] \in Nat, NEW U \in SUBSET S
  PROVE  /\ SumFunctionOnSet(f, U) \in Nat
         /\ SumFunctionOnSet(f, U) <= SumFunctionOnSet(f, S)
<1> DEFINE F(T) == SumFunctionOnSet(f, T)
           P == {T \in SUBSET S : F(T \cap U) <= F(T)}
<1>1. \A T \in SUBSET S : IsFiniteSet(T) /\ \A x \in T : f[x] \in Nat
  BY FS_Subset
<1>2. \A T \in SUBSET S : F(T) \in Nat
  BY <1>1, SumGraph
<1>3. {} \in P
  BY <1>2
<1>4. ASSUME NEW T \in P, NEW x \in S \ T
      PROVE  T \cup {x} \in P
  <2>1. T \cup {x} \in SUBSET S /\ (T \cup {x}) \ {x} = T /\ x \in T \cup {x}
    OBVIOUS
  <2>0. IsFiniteSet(T \cup {x}) /\ \A y \in T \cup {x} : f[y] \in Nat
    BY <1>1, <2>1
  <2>2. F(T \cup {x}) = f[x] + F(T)
    BY <2>0, <2>1, SumRemove
  <2>3. CASE x \in U
    <3>1. /\ x \in (T \cup {x}) \cap U /\ ((T \cup {x}) \cap U) \ {x} = T \cap U
          /\ (T \cup {x}) \cap U \in SUBSET S
      BY <2>3
    <3>0. IsFiniteSet((T \cup {x}) \cap U) /\ \A y \in (T \cup {x}) \cap U : f[y] \in Nat
      BY <1>1, <3>1
    <3>2. F((T \cup {x}) \cap U) = f[x] + F(T \cap U)
      BY <3>0, <3>1, SumRemove
    <3>3. F(T) \in Nat /\ F(T \cap U) \in Nat /\ f[x] \in Nat /\ F(T \cap U) <= F(T)
      BY <1>2
    <3> QED
      BY <2>1, <2>2, <3>2, <3>3
  <2>4. CASE x \notin U
    <3>0. (T \cup {x}) \cap U = T \cap U
      BY <2>4
    <3>1. F((T \cup {x}) \cap U) = F(T \cap U)
      BY <3>0
    <3>2. F(T) \in Nat /\ F(T \cap U) \in Nat /\ f[x] \in Nat /\ F(T \cap U) <= F(T)
      BY <1>2
    <3> HIDE DEF F
    <3> QED
      BY <2>1, <2>2, <3>1, <3>2
  <2> QED
    BY <2>3, <2>4
<1>5. P = SUBSET S
  <2>1. P \in SUBSET (SUBSET S)
    OBVIOUS
  <2> HIDE DEF P
  <2> QED
    BY <1>3, <1>4, <2>1, AddingElements
<1>6. S \in P /\ S \cap U = U
  BY <1>5
<1> QED
  BY <1>2, <1>6

-----------------------------------------------------------------------------
(* Products.                                                                 *)

Multiplies(g, S) ==
    /\ g \in [SUBSET S -> Nat]
    /\ g[{}] = 1
    /\ \A T \in SUBSET S : T # {} => g[T] = Some(T) * g[T \ {Some(T)}]

\* The product of a finite set of numbers is what multiplying in some order gives.
LEMMA ProductFold ==
  ASSUME NEW S \in SUBSET Nat, IsFiniteSet(S)
  PROVE  \E g : Multiplies(g, S) /\ g[S] = ProductSet(S)
<1> DEFINE op == [p \in Nat \X Nat |-> p[1] * p[2]]
           f == [x \in S |-> x]
           iter == CHOOSE iter : iter = [T \in SUBSET S |-> IF T = {} THEN 1
                                           ELSE Some(T) * iter[T \ {Some(T)}]]
<1>1. op \in [Nat \X Nat -> Nat] /\ f \in [S -> Nat] /\ \A a, b \in Nat : op[<<a, b>>] = a * b
  OBVIOUS
<1>2. 1 \in Nat /\ \A x \in S : f[x] = x
  OBVIOUS
<1>3. \A T \in SUBSET S : T # {} => Some(T) \in T
  BY DEF Some
<1>4. ProductSet(S) = iter[S]
  BY DEF ProductSet, FoldSet, MapThenFoldSet, Some
<1> HIDE DEF op, f
<1>5. PICK g : Folds(g, f, op, 1, S)
  BY <1>1, <1>2, FoldExists
<1>6. Multiplies(g, S)
  <2>1. ASSUME NEW T \in SUBSET S, T # {}
        PROVE  g[T] = Some(T) * g[T \ {Some(T)}]
    <3>1. Some(T) \in S /\ Some(T) \in Nat
      BY <1>3, <2>1
    <3>2. f[Some(T)] = Some(T)
      BY <1>2, <3>1
    <3>3. g[T \ {Some(T)}] \in Nat
      BY <1>5 DEF Folds
    <3>4. g[T] = op[<<f[Some(T)], g[T \ {Some(T)}]>>]
      BY <1>5, <2>1 DEF Folds
    <3> QED
      BY <1>1, <3>1, <3>2, <3>3, <3>4
  <2>2. g \in [SUBSET S -> Nat] /\ g[{}] = 1
    BY <1>5 DEF Folds
  <2> QED
    BY <2>1, <2>2 DEF Multiplies
<1>7. iter = [T \in SUBSET S |-> IF T = {} THEN 1 ELSE Some(T) * iter[T \ {Some(T)}]]
  <2>1. g = [T \in SUBSET S |-> IF T = {} THEN 1 ELSE Some(T) * g[T \ {Some(T)}]]
    BY <1>6 DEF Multiplies
  <2> QED
    BY <2>1
<1>8. \A T \in SUBSET S : iter[T] = IF T = {} THEN 1 ELSE Some(T) * iter[T \ {Some(T)}]
  BY <1>7
<1> HIDE DEF iter
<1> DEFINE Q == {T \in SUBSET S : iter[T] # g[T]}
<1>9. ASSUME Q # {}
      PROVE  FALSE
  <2>1. PICK T \in Q : \A x \in T : T \ {x} \notin Q
    BY <1>9, SmallestSubset
  <2>2. T # {} /\ Some(T) \in T
    BY <1>3, <1>6, <1>8 DEF Multiplies
  <2>3. T \ {Some(T)} \in SUBSET S /\ iter[T \ {Some(T)}] = g[T \ {Some(T)}]
    BY <2>1, <2>2
  <2>4. iter[T] = g[T]
    BY <1>6, <1>8, <2>2, <2>3 DEF Multiplies
  <2> QED
    BY <2>4
<1> QED
  BY <1>4, <1>6, <1>9

\* The product of a finite set of positive numbers is positive and a multiple of each.
LEMMA ProductIsMultiple ==
  ASSUME NEW S \in SUBSET (Nat \ {0}), IsFiniteSet(S)
  PROVE  /\ ProductSet(S) \in Nat \ {0}
         /\ \A x \in S : ProductSet(S) % x = 0
<1>1. S \in SUBSET Nat
  OBVIOUS
<1>2. PICK g : Multiplies(g, S) /\ g[S] = ProductSet(S)
  BY <1>1, ProductFold
<1> DEFINE Good(T) == g[T] \in Nat \ {0} /\ \A x \in T : \E m \in Nat : g[T] = x * m
           Q == {T \in SUBSET S : ~Good(T)}
<1>3. ASSUME Q # {}
      PROVE  FALSE
  <2>1. PICK T \in Q : \A x \in T : T \ {x} \notin Q
    BY <1>3, SmallestSubset
  <2>2. T # {}
    <3>1. ASSUME T = {}
          PROVE  Good(T)
      <4>1. g[{}] = 1
        BY <1>2 DEF Multiplies
      <4> QED
        BY <3>1, <4>1
    <3> QED
      BY <2>1, <3>1
  <2> DEFINE z == Some(T)
  <2>3. z \in T /\ z \in Nat \ {0} /\ g[T] = z * g[T \ {z}]
    BY <1>2, <2>2 DEF Multiplies, Some
  <2> HIDE DEF z
  <2>4. T \ {z} \in SUBSET S /\ Good(T \ {z})
    BY <2>1, <2>3
  <2>5. g[T \ {z}] \in Nat \ {0}
    BY <2>4
  <2> DEFINE p == g[T \ {z}]
  <2>6. z * p \in Nat \ {0}
    <3> HIDE DEF p
    <3>1. z \in Nat /\ p \in Nat /\ z >= 1 /\ p >= 1
      BY <2>3, <2>5 DEF p
    <3>2. z * p >= 1
      BY <3>1
    <3> QED
      BY <3>1, <3>2
  <2>7. ASSUME NEW x \in T
        PROVE  \E m \in Nat : g[T] = x * m
    <3>1. CASE x = z
      BY <2>3, <2>5, <3>1
    <3>2. CASE x # z
      <4>1. PICK m \in Nat : p = x * m
        BY <2>4, <3>2
      <4>2. x \in Nat /\ z \in Nat
        BY <2>3
      <4>3. z * (x * m) = x * (z * m) /\ z * m \in Nat
        BY <4>2
      <4> QED
        BY <2>3, <4>1, <4>3
    <3> QED
      BY <3>1, <3>2
  <2>8. Good(T)
    BY <2>3, <2>6, <2>7
  <2> QED
    BY <2>8
<1>4. Good(S)
  BY <1>3
<1>5. ASSUME NEW x \in S
      PROVE  ProductSet(S) % x = 0
  <2>1. PICK m \in Nat : ProductSet(S) = x * m
    BY <1>2, <1>4
  <2>2. x \in Nat \ {0} /\ (x * m) % x = 0
    OBVIOUS
  <2> QED
    BY <2>1, <2>2
<1> QED
  BY <1>2, <1>4, <1>5

-----------------------------------------------------------------------------
(* Numbers.                                                                  *)

\* What Min returns of a set of natural numbers.
LEMMA MinOfNaturals ==
  ASSUME NEW S \in SUBSET Nat, S # {}
  PROVE  /\ Min(S) \in S
         /\ \A k \in S : Min(S) <= k
<1>1. \E m \in S : \A k \in S : m <= k
  BY Least
<1> QED
  BY <1>1 DEF Min

\* A multiple of a multiple.
LEMMA MultipleOfMultiple ==
  ASSUME NEW x \in Nat, NEW y \in Nat \ {0}, NEW z \in Nat \ {0}, x % y = 0, y % z = 0
  PROVE  x % z = 0
<1>1. x = y * (x \div y) /\ x \div y \in Nat
  OBVIOUS
<1>2. y = z * (y \div z) /\ y \div z \in Nat
  OBVIOUS
<1> DEFINE q == x \div y
           r == y \div z
<1> HIDE DEF q, r
<1>3. x = y * q /\ y = z * r /\ q \in Nat /\ r \in Nat
  BY <1>1, <1>2 DEF q, r
<1>4. (z * r) * q = z * (r * q) /\ r * q \in Nat
  BY <1>3
<1>5. PICK m \in Nat : x = z * m
  BY <1>3, <1>4
<1>6. (z * m) % z = 0
  OBVIOUS
<1> QED
  BY <1>5, <1>6

\* Rounding up to a grid.
LEMMA CeilToGridFacts ==
  ASSUME NEW t \in Nat, NEW g \in Nat \ {0}
  PROVE  /\ CeilToGrid(t, g) \in Nat
         /\ CeilToGrid(t, g) >= t
         /\ CeilToGrid(t, g) % g = 0
<1> DEFINE q == (t + g - 1) \div g
<1>1. q \in Nat /\ q * g <= t + g - 1 /\ t + g - 1 < q * g + g
  OBVIOUS
<1>2. CeilToGrid(t, g) = q * g
  BY DEF CeilToGrid
<1> HIDE DEF q
<1>3. q * g \in Nat /\ (q * g) % g = 0
  BY <1>1
<1>4. q * g >= t
  <2> DEFINE p == q * g
  <2> HIDE DEF p
  <2>1. p \in Nat /\ t + g - 1 < p + g
    BY <1>1, <1>3 DEF p
  <2>2. p >= t
    BY <2>1
  <2> QED
    BY <2>2 DEF p
<1> QED
  BY <1>2, <1>3, <1>4

\* A quotient is the most that can be multiplied within a limit.
LEMMA QuotientIsLimit ==
  ASSUME NEW limit \in Nat, NEW d \in Nat \ {0}
  PROVE  /\ limit \div d \in Nat
         /\ \A s \in Nat : s <= limit \div d => d * s <= limit
         /\ d * ((limit \div d) + 1) > limit
<1> DEFINE q == limit \div d
<1>1. q \in Nat /\ d * q <= limit /\ limit < d * q + d
  OBVIOUS
<1> HIDE DEF q
<1>2. ASSUME NEW s \in Nat, s <= q
      PROVE  d * s <= limit
  <2>1. PICK m \in Nat : q = s + m
    <3>1. q - s \in Nat /\ q = s + (q - s)
      BY <1>1, <1>2
    <3> QED
      BY <3>1
  <2>2. d * q = d * s + d * m /\ d * s \in Nat /\ d * m \in Nat /\ d * q \in Nat
    BY <2>1
  <2> DEFINE a == d * s
             b == d * m
             c == d * q
  <2> HIDE DEF a, b, c
  <2>3. c = a + b /\ a \in Nat /\ b \in Nat /\ c <= limit
    BY <1>1, <2>2 DEF a, b, c
  <2>4. a <= limit
    BY <2>3
  <2> QED
    BY <2>4 DEF a
<1>3. d * (q + 1) = d * q + d
  BY <1>1
<1>4. d * (q + 1) > limit
  BY <1>1, <1>3
<1> QED
  BY <1>1, <1>2, <1>4 DEF q

\* The image of a finite set is finite.
LEMMA ImageFinite ==
  ASSUME NEW S, IsFiniteSet(S), NEW f, f = [x \in S |-> f[x]]
  PROVE  IsFiniteSet({f[x] : x \in S})
<1> DEFINE T == {f[x] : x \in S}
<1>1. f \in [S -> T] /\ \A t \in T : \E x \in S : f[x] = t
  OBVIOUS
<1>2. f \in Surjection(S, T)
  BY <1>1 DEF Surjection
<1> QED
  BY <1>2, FS_Surjection

-----------------------------------------------------------------------------
(* Groups.                                                                   *)

IsGroup(group) == group \in Seq(Payloads) /\ group # <<>>

\* What is assumed of a payload.
LEMMA MemberFacts ==
  ASSUME NEW group, IsGroup(group)
  PROVE  /\ Len(group) \in Nat \ {0} /\ 1 \in 1..Len(group) /\ Len(group) \in 1..Len(group)
         /\ \A k \in 1..Len(group) :
               LET p == group[k]
               IN /\ p \in Payloads
                  /\ p.n \in Nat \ {0} /\ p.dur \in Nat \ {0} /\ p.grid \in Nat \ {0}
                  /\ p.interval \in Nat /\ p.mode \in Modes
                  /\ AliasesOf(p) \subseteq DOMAIN ReceiverOf
                  /\ IsFiniteSet(AliasesOf(p))
                  /\ \A a \in AliasesOf(p) : p.wave[a] \in Nat /\ p.caps[a] \in Seq(Nat \ {0})
<1>1. Len(group) \in Nat \ {0} /\ \A k \in 1..Len(group) : group[k] \in Payloads
  BY DEF IsGroup
<1>2. 1 \in 1..Len(group) /\ Len(group) \in 1..Len(group)
  BY <1>1
<1>3. ASSUME NEW k \in 1..Len(group)
      PROVE  LET p == group[k]
             IN /\ p \in Payloads
                /\ p.n \in Nat \ {0} /\ p.dur \in Nat \ {0} /\ p.grid \in Nat \ {0}
                /\ p.interval \in Nat /\ p.mode \in Modes
                /\ AliasesOf(p) \subseteq DOMAIN ReceiverOf
                /\ \A a \in AliasesOf(p) : p.wave[a] \in Nat /\ p.caps[a] \in Seq(Nat \ {0})
  BY <1>1, PayloadsAssumption, Zenon DEF AliasesOf
<1>4. ASSUME NEW k \in 1..Len(group)
      PROVE  IsFiniteSet(AliasesOf(group[k]))
  <2>1. AliasesOf(group[k]) \in SUBSET (DOMAIN ReceiverOf)
    BY <1>3
  <2> QED
    BY <2>1, ReceiversAssumption, FS_Subset
<1> QED
  BY <1>1, <1>2, <1>3, <1>4

\* The common grid is a multiple of every member's.
LEMMA GridFacts ==
  ASSUME NEW group, IsGroup(group)
  PROVE  /\ Grid(group) \in Nat \ {0}
         /\ \A k \in 1..Len(group) : Grid(group) % group[k].grid = 0
<1> DEFINE f == [k \in 1..Len(group) |-> group[k].grid]
           grids == {group[k].grid : k \in 1..Len(group)}
           common == {m \in 1..ProductSet(grids) : \A g \in grids : m % g = 0}
<1>1. Len(group) \in Nat /\ \A k \in 1..Len(group) : group[k].grid \in Nat \ {0}
  BY MemberFacts
<1>2. grids \in SUBSET (Nat \ {0})
  BY <1>1
<1>3. IsFiniteSet(grids)
  <2>1. IsFiniteSet(1..Len(group))
    BY <1>1, FS_Interval
  <2>2. f = [x \in 1..Len(group) |-> f[x]] /\ {f[x] : x \in 1..Len(group)} = grids
    OBVIOUS
  <2> HIDE DEF f, grids
  <2> QED
    BY <2>1, <2>2, ImageFinite
<1>4. Grid(group) = Min(common)
  BY DEF Grid
<1> HIDE DEF grids
<1>5. ProductSet(grids) \in Nat \ {0} /\ \A g \in grids : ProductSet(grids) % g = 0
  BY <1>2, <1>3, ProductIsMultiple
<1>6. common \in SUBSET Nat /\ common # {}
  <2>1. ProductSet(grids) \in common
    BY <1>5
  <2> QED
    BY <1>5, <2>1
<1>7. Min(common) \in common
  BY <1>6, MinOfNaturals
<1>8. \A g \in grids : Grid(group) % g = 0
  BY <1>4, <1>7
<1>9. Grid(group) \in Nat \ {0}
  BY <1>4, <1>5, <1>7
<1>10. \A k \in 1..Len(group) : group[k].grid \in grids
  BY DEF grids
<1> QED
  BY <1>8, <1>9, <1>10

\* The capture windows of a group, one by one.
LEMMA CaptureMembers ==
  ASSUME NEW group, IsGroup(group)
  PROVE  \A c : c \in Captures(group)
                  <=> \E k \in 1..Len(group) : \E a \in AliasesOf(group[k]) :
                        \E i \in 1..Len(group[k].caps[a]) : c = <<k, a, i>>
BY DEF Captures

\* They are finitely many.
LEMMA CapturesFinite ==
  ASSUME NEW group, IsGroup(group)
  PROVE  IsFiniteSet(Captures(group))
<1> DEFINE Windows(k, a) == {<<k, a, i>> : i \in 1..Len(group[k].caps[a])}
           OfJob(k) == UNION {Windows(k, a) : a \in AliasesOf(group[k])}
<1>1. ASSUME NEW k \in 1..Len(group), NEW a \in AliasesOf(group[k])
      PROVE  IsFiniteSet(Windows(k, a))
  <2> DEFINE n == Len(group[k].caps[a])
             f == [i \in 1..n |-> <<k, a, i>>]
  <2>1. n \in Nat
    <3>1. group[k].caps[a] \in Seq(Nat \ {0})
      BY MemberFacts
    <3> QED
      BY <3>1
  <2>2. f = [i \in 1..n |-> f[i]] /\ Windows(k, a) = {f[i] : i \in 1..n}
    OBVIOUS
  <2> HIDE DEF n, f, Windows
  <2>3. IsFiniteSet(1..n)
    BY <2>1, FS_Interval
  <2>4. IsFiniteSet({f[i] : i \in 1..n})
    BY <2>2, <2>3, ImageFinite
  <2> QED
    BY <2>2, <2>4, Zenon
<1>2. ASSUME NEW k \in 1..Len(group)
      PROVE  IsFiniteSet(OfJob(k))
  <2> DEFINE f == [a \in AliasesOf(group[k]) |-> Windows(k, a)]
             T == {Windows(k, a) : a \in AliasesOf(group[k])}
  <2> HIDE DEF Windows
  <2>1. f = [a \in AliasesOf(group[k]) |-> f[a]] /\ T = {f[a] : a \in AliasesOf(group[k])}
    OBVIOUS
  <2>2. IsFiniteSet(AliasesOf(group[k]))
    BY MemberFacts
  <2>3. \A t \in T : IsFiniteSet(t)
    BY <1>1
  <2> HIDE DEF f, T
  <2>4. IsFiniteSet(T)
    BY <2>1, <2>2, ImageFinite
  <2>5. IsFiniteSet(UNION T)
    BY <2>3, <2>4, FS_UNION
  <2> QED
    BY <2>5 DEF T
<1> DEFINE f == [k \in 1..Len(group) |-> OfJob(k)]
           T == {OfJob(k) : k \in 1..Len(group)}
<1>3. Captures(group) = UNION T
  BY DEF Captures
<1> HIDE DEF OfJob
<1>4. f = [k \in 1..Len(group) |-> f[k]] /\ T = {f[k] : k \in 1..Len(group)}
  OBVIOUS
<1>5. \A t \in T : IsFiniteSet(t)
  BY <1>2
<1> HIDE DEF f, T
<1>6. IsFiniteSet(1..Len(group))
  BY MemberFacts, FS_Interval
<1>7. IsFiniteSet(T)
  BY <1>4, <1>6, ImageFinite
<1> QED
  BY <1>3, <1>5, <1>7, FS_UNION

\* Where the jobs of a group start: the first at 0, each later one on the grid
\* after its predecessor and the interval.
LEMMA StartsFacts ==
  ASSUME NEW group, IsGroup(group)
  PROVE  /\ Starts(group) \in [1..Len(group) -> Nat]
         /\ \A k \in 1..Len(group) :
               /\ Starts(group)[k] % Grid(group) = 0
               /\ k > 1 => Starts(group)[k] >= Starts(group)[k - 1] + group[k - 1].dur
                                                 + Conditions(group).interval
<1> DEFINE n == Len(group)
           after(k, t) == CeilToGrid(t + group[k - 1].dur + Conditions(group).interval,
                                     Grid(group))
           Solves(h, m) == \A k \in 1..m : h[k] = IF k = 1 THEN 0 ELSE after(k, h[k - 1])
           P == {m \in Nat : m <= n => \E h \in [1..m -> Nat] : Solves(h, m)}
<1>1. n \in Nat \ {0}
  BY MemberFacts
<1>2. ASSUME NEW k \in 2..n, NEW t \in Nat
      PROVE  /\ after(k, t) \in Nat /\ after(k, t) % Grid(group) = 0
             /\ after(k, t) >= t + group[k - 1].dur + Conditions(group).interval
  <2>1. k - 1 \in 1..n /\ 1 \in 1..n
    BY <1>1
  <2>2. group[k - 1].dur \in Nat /\ Conditions(group).interval \in Nat
    BY <2>1, MemberFacts DEF Conditions
  <2>3. t + group[k - 1].dur + Conditions(group).interval \in Nat
    BY <2>2
  <2>4. Grid(group) \in Nat \ {0}
    BY GridFacts
  <2> QED
    BY <2>3, <2>4, CeilToGridFacts
<1> HIDE DEF after
<1>3. 0 \in P
  <2> DEFINE h == [k \in 1..0 |-> 0]
  <2>1. h \in [1..0 -> Nat]
    OBVIOUS
  <2>2. Solves(h, 0)
    OBVIOUS
  <2> HIDE DEF h
  <2> QED
    BY <2>1, <2>2
<1>4. ASSUME NEW m \in P
      PROVE  m + 1 \in P
  <2>1. SUFFICES ASSUME m + 1 <= n
                 PROVE  \E h \in [1..(m + 1) -> Nat] : Solves(h, m + 1)
    OBVIOUS
  <2>2. PICK g \in [1..m -> Nat] : Solves(g, m)
    BY <1>1, <2>1
  <2> DEFINE h == [k \in 1..(m + 1) |-> IF k = m + 1 THEN IF m = 0 THEN 0 ELSE after(m + 1, g[m])
                                        ELSE g[k]]
  <2>3. m # 0 => after(m + 1, g[m]) \in Nat
    <3>1. SUFFICES ASSUME m # 0 PROVE after(m + 1, g[m]) \in Nat
      OBVIOUS
    <3>2. m + 1 \in 2..n /\ m \in 1..m
      BY <1>1, <2>1, <3>1
    <3>3. g[m] \in Nat
      BY <2>2, <3>2
    <3> QED
      BY <1>2, <3>2, <3>3
  <2>4. h \in [1..(m + 1) -> Nat]
    BY <2>3
  <2>5. \A k \in 1..m : h[k] = g[k]
    OBVIOUS
  <2>6. h[m + 1] = IF m = 0 THEN 0 ELSE after(m + 1, g[m])
    OBVIOUS
  <2> HIDE DEF h
  <2>7. ASSUME NEW k \in 1..(m + 1)
        PROVE  h[k] = IF k = 1 THEN 0 ELSE after(k, h[k - 1])
    <3>1. CASE k \in 1..m
      <4>1. k # 1 => k - 1 \in 1..m
        BY <3>1
      <4> QED
        BY <2>2, <2>5, <3>1, <4>1
    <3>2. CASE k = m + 1
      <4>1. m # 0 => m \in 1..m /\ k - 1 = m /\ k # 1
        BY <3>2
      <4>2. m = 0 => k = 1
        BY <3>2
      <4> QED
        BY <2>5, <2>6, <3>2, <4>1, <4>2
    <3> QED
      BY <3>1, <3>2
  <2> QED
    BY <2>4, <2>7
<1>5. n \in P
  <2>1. P \in SUBSET Nat
    OBVIOUS
  <2> HIDE DEF P
  <2>2. P = Nat
    BY <1>3, <1>4, <2>1, Counting
  <2> QED
    BY <1>1, <2>2
<1>6. PICK h \in [1..n -> Nat] : Solves(h, n)
  BY <1>1, <1>5
<1>7. h = [k \in 1..n |-> IF k = 1 THEN 0 ELSE after(k, h[k - 1])]
  BY <1>6
<1>8. Starts(group) = CHOOSE st : st = [k \in 1..n |-> IF k = 1 THEN 0 ELSE after(k, st[k - 1])]
  BY DEF Starts, after
<1> DEFINE st == CHOOSE st : st = [k \in 1..n |-> IF k = 1 THEN 0 ELSE after(k, st[k - 1])]
<1>9. st = [k \in 1..n |-> IF k = 1 THEN 0 ELSE after(k, st[k - 1])]
  BY <1>7
<1>10. Starts(group) = st
  BY <1>8
<1> HIDE DEF st
<1>11. \A k \in 1..n : st[k] = IF k = 1 THEN 0 ELSE after(k, st[k - 1])
  BY <1>9
<1>12. \A k \in 1..n : st[k] \in Nat
  <2> DEFINE R == {m \in Nat : m + 1 \in 1..n => st[m + 1] \in Nat}
  <2>1. 0 \in R
    BY <1>1, <1>11
  <2>2. ASSUME NEW m \in R
        PROVE  m + 1 \in R
    <3>1. SUFFICES ASSUME m + 2 \in 1..n PROVE st[m + 2] \in Nat
      OBVIOUS
    <3>2. m + 1 \in 1..n /\ m + 2 \in 2..n /\ m + 2 # 1 /\ (m + 2) - 1 = m + 1
      BY <3>1
    <3>3. st[m + 1] \in Nat
      BY <3>2
    <3>4. st[m + 2] = after(m + 2, st[m + 1])
      BY <1>11, <3>1, <3>2
    <3> QED
      BY <1>2, <3>2, <3>3, <3>4
  <2>3. R = Nat
    <3>1. R \in SUBSET Nat
      OBVIOUS
    <3> HIDE DEF R
    <3> QED
      BY <2>1, <2>2, <3>1, Counting
  <2>4. ASSUME NEW k \in 1..n
        PROVE  st[k] \in Nat
    <3>1. k - 1 \in Nat /\ (k - 1) + 1 = k
      BY <2>4
    <3>2. k - 1 \in R
      BY <2>3, <3>1
    <3> QED
      BY <3>1, <3>2
  <2> QED
    BY <2>4
<1>13. st \in [1..n -> Nat]
  BY <1>9, <1>12
<1>14. ASSUME NEW k \in 1..n
       PROVE  /\ st[k] % Grid(group) = 0
              /\ k > 1 => st[k] >= st[k - 1] + group[k - 1].dur + Conditions(group).interval
  <2>1. CASE k = 1
    <3>1. st[k] = 0 /\ Grid(group) \in Nat \ {0}
      BY <1>11, <2>1, GridFacts
    <3> QED
      BY <2>1, <3>1
  <2>2. CASE k # 1
    <3>1. k \in 2..n /\ k - 1 \in 1..n
      BY <2>2
    <3>2. st[k - 1] \in Nat /\ st[k] = after(k, st[k - 1])
      BY <1>11, <1>12, <2>2, <3>1
    <3> QED
      BY <1>2, <3>1, <3>2
  <2> QED
    BY <2>1, <2>2
<1> QED
  BY <1>10, <1>13, <1>14

\* A shot takes some time.
LEMMA ShotDurationPositive ==
  ASSUME NEW group, IsGroup(group)
  PROVE  ShotDuration(group) \in Nat \ {0}
<1>1. 1 \in 1..Len(group) /\ Len(group) \in 1..Len(group)
  BY MemberFacts
<1>2. Starts(group)[Len(group)] \in Nat
  BY <1>1, StartsFacts
<1>3. group[Len(group)].dur \in Nat \ {0} /\ Conditions(group).interval \in Nat
  BY <1>1, MemberFacts DEF Conditions
<1> QED
  BY <1>2, <1>3 DEF ShotDuration

\* The samples of some of the group's windows.
LEMMA LengthNatural ==
  ASSUME NEW group, IsGroup(group), NEW D \in SUBSET Captures(group)
  PROVE  /\ Length(group, D) \in Nat
         /\ D # {} => Length(group, D) > 0
<1> DEFINE f == [c \in D |-> group[c[1]].caps[c[2]][c[3]]]
<1>1. IsFiniteSet(D)
  BY CapturesFinite, FS_Subset
<1>2. ASSUME NEW c \in D
      PROVE  f[c] \in Nat \ {0}
  <2>0. PICK k \in 1..Len(group) : \E a \in AliasesOf(group[k]) :
             \E i \in 1..Len(group[k].caps[a]) : c = <<k, a, i>>
    BY CaptureMembers
  <2>1. PICK a \in AliasesOf(group[k]) : \E i \in 1..Len(group[k].caps[a]) : c = <<k, a, i>>
    BY <2>0
  <2>2. PICK i \in 1..Len(group[k].caps[a]) : c = <<k, a, i>>
    BY <2>1
  <2>3. group[k].caps[a] \in Seq(Nat \ {0})
    BY MemberFacts
  <2>4. group[k].caps[a][i] \in Nat \ {0}
    BY <2>2, <2>3
  <2> QED
    BY <2>2, <2>4
<1>3. Length(group, D) = SumFunctionOnSet(f, D)
  BY DEF Length, SumFunction
<1> HIDE DEF f
<1>4. \A c \in D : f[c] \in Nat
  BY <1>2
<1>5. Length(group, D) \in Nat
  BY <1>1, <1>3, <1>4, SumGraph
<1>6. ASSUME D # {}
      PROVE  Length(group, D) > 0
  <2>1. PICK c \in D : TRUE
    BY <1>6
  <2>2. /\ SumFunctionOnSet(f, D \ {c}) \in Nat
        /\ SumFunctionOnSet(f, D) = f[c] + SumFunctionOnSet(f, D \ {c})
    BY <1>1, <1>4, <2>1, SumRemove
  <2>3. f[c] \in Nat \ {0}
    BY <1>2, <2>1
  <2> QED
    BY <1>3, <2>2, <2>3
<1> QED
  BY <1>5, <1>6

\* What is captured by a receiver, and returned of a shot.
LEMMA CapturedFacts ==
  ASSUME NEW group, IsGroup(group)
  PROVE  /\ \A r \in Receivers(group) : Captured(group, r) \in Nat \ {0}
         /\ ReturnedOnce(group) \in Nat
         /\ \A s \in Nat : Returned(group, s) = IF PerShot(group) THEN ReturnedOnce(group) * s
                                                ELSE ReturnedOnce(group)
<1>1. ASSUME NEW r \in Receivers(group)
      PROVE  Captured(group, r) \in Nat \ {0}
  <2> DEFINE D == {c \in Captures(group) : ReceiverOf[c[2]] = r}
  <2>1. D # {} /\ D \in SUBSET Captures(group)
    BY <1>1 DEF Receivers
  <2> HIDE DEF D
  <2>2. Length(group, D) \in Nat /\ Length(group, D) > 0
    BY <2>1, LengthNatural
  <2> QED
    BY <2>2 DEF Captured, D
<1>2. ReturnedOnce(group) \in Nat
  <2>1. Length(group, Captures(group)) \in Nat
    BY LengthNatural
  <2>2. Cardinality(Captures(group)) \in Nat
    BY CapturesFinite, FS_CardinalityType
  <2> QED
    BY <2>1, <2>2 DEF ReturnedOnce
<1>3. \A s \in Nat : Returned(group, s) = IF PerShot(group) THEN ReturnedOnce(group) * s
                                          ELSE ReturnedOnce(group)
  BY <1>2 DEF Returned
<1> QED
  BY <1>1, <1>2, <1>3

\* What is counted for the waveforms of an alias, job by job.
LEMMA WaveformsJobByJob ==
  ASSUME NEW group, IsGroup(group), NEW a
  PROVE  /\ SumFunction([k \in 1..Len(group) |->
                            IF a \in AliasesOf(group[k]) THEN group[k].wave[a] ELSE 0])
              = Waveforms(group, a)
         /\ (\A k \in 1..Len(group) : a \notin AliasesOf(group[k])) => Waveforms(group, a) = 0
<1> DEFINE U == {k \in 1..Len(group) : a \in AliasesOf(group[k])}
           h == [k \in U |-> group[k].wave[a]]
           f == [k \in 1..Len(group) |-> IF a \in AliasesOf(group[k]) THEN group[k].wave[a] ELSE 0]
<1>1. Waveforms(group, a) = SumFunctionOnSet(h, U)
  BY DEF Waveforms, SumFunction
<1>2. SumFunction(f) = SumFunctionOnSet(f, 1..Len(group))
  BY DEF SumFunction
<1>3. U \in SUBSET (1..Len(group)) /\ IsFiniteSet(1..Len(group))
  BY MemberFacts, FS_Interval
<1>4. \A k \in 1..Len(group) : f[k] \in Nat
  BY MemberFacts
<1>5. /\ \A k \in U : h[k] = f[k]
      /\ \A k \in (1..Len(group)) \ U : f[k] = 0
  OBVIOUS
<1>6. U = {} <=> \A k \in 1..Len(group) : a \notin AliasesOf(group[k])
  OBVIOUS
<1> HIDE DEF U, h, f
<1> DEFINE S == 1..Len(group)
<1>7. SumFunctionOnSet(f, S) = SumFunctionOnSet(h, U)
  <2>1. /\ U \in SUBSET S /\ IsFiniteSet(S) /\ \A k \in S : f[k] \in Nat
        /\ \A k \in U : h[k] = f[k]
        /\ \A k \in S \ U : f[k] = 0
    BY <1>3, <1>4, <1>5
  <2> HIDE DEF S
  <2> QED
    BY <2>1, SumSkipsZeros
<1>8. SumFunctionOnSet(h, {}) = 0
  <2>1. IsFiniteSet(U) /\ \A k \in U : h[k] \in Nat
    BY <1>3, <1>4, <1>5, FS_Subset
  <2> QED
    BY <2>1, SumGraph
<1>9. SumFunction(f) = Waveforms(group, a)
  BY <1>1, <1>2, <1>7
<1>10. U = {} => Waveforms(group, a) = 0
  BY <1>1, <1>8
<1> QED
  BY <1>6, <1>9, <1>10 DEF f

\* The quotients that bound the shots of an execution.
Quotients(group, o) ==
    {Conditions(group).n, o.duration \div ShotDuration(group)}
    \cup {o.capture \div Captured(group, r) : r \in Receivers(group)}
    \cup (IF PerShot(group) /\ Returned(group, 1) > 0
          THEN {o.returned \div Returned(group, 1)} ELSE {})

LEMMA QuotientsNatural ==
  ASSUME NEW group, IsGroup(group), NEW o \in OptionSets
  PROVE  /\ Quotients(group, o) \in SUBSET Nat
         /\ ShotLimit(group, o) \in Quotients(group, o)
         /\ \A q \in Quotients(group, o) : ShotLimit(group, o) <= q
<1>1. o.duration \in Nat /\ o.capture \in Nat /\ o.returned \in Nat
  BY OptionsAssumption
<1>2. Conditions(group).n \in Nat
  BY MemberFacts DEF Conditions
<1>3. o.duration \div ShotDuration(group) \in Nat
  BY <1>1, ShotDurationPositive, QuotientIsLimit
<1>4. \A r \in Receivers(group) : o.capture \div Captured(group, r) \in Nat
  BY <1>1, CapturedFacts, QuotientIsLimit
<1>5. Returned(group, 1) > 0 => o.returned \div Returned(group, 1) \in Nat
  <2>1. Returned(group, 1) \in Nat
    BY CapturedFacts
  <2> QED
    BY <1>1, <2>1, QuotientIsLimit
<1>6. Quotients(group, o) \in SUBSET Nat
  BY <1>2, <1>3, <1>4, <1>5 DEF Quotients
<1>7. Quotients(group, o) # {}
  BY DEF Quotients
<1>8. ShotLimit(group, o) = Min(Quotients(group, o))
  BY DEF ShotLimit, Quotients
<1> QED
  BY <1>6, <1>7, <1>8, MinOfNaturals

\* A group that fits with one shot fits with every number of shots up to the limit.
LEMMA LimitFits ==
  ASSUME NEW group, IsGroup(group), NEW o \in OptionSets, Fits(group, o, 1),
         NEW s \in Nat \ {0}, s <= ShotLimit(group, o)
  PROVE  Fits(group, o, s)
<1>1. o.duration \in Nat /\ o.capture \in Nat /\ o.returned \in Nat
  BY OptionsAssumption
<1>2. ShotLimit(group, o) \in Nat /\ \A q \in Quotients(group, o) : q \in Nat /\ s <= q
  BY QuotientsNatural
<1>3. ShotDuration(group) * s <= o.duration
  <2>1. s <= o.duration \div ShotDuration(group)
    BY <1>2 DEF Quotients
  <2> QED
    BY <1>1, <2>1, ShotDurationPositive, QuotientIsLimit
<1>4. ASSUME NEW r \in Receivers(group)
      PROVE  Captured(group, r) * s <= o.capture
  <2>1. s <= o.capture \div Captured(group, r)
    BY <1>2 DEF Quotients
  <2> QED
    BY <1>1, <2>1, CapturedFacts, QuotientIsLimit
<1>5. Returned(group, s) <= o.returned
  <2>1. Returned(group, 1) \in Nat /\ ReturnedOnce(group) \in Nat /\ Returned(group, 1) = ReturnedOnce(group)
    BY CapturedFacts
  <2>2. CASE ~PerShot(group)
    BY <2>1, <2>2, CapturedFacts DEF Fits
  <2>3. CASE PerShot(group) /\ Returned(group, 1) > 0
    <3>1. s <= o.returned \div Returned(group, 1)
      BY <1>2, <2>3 DEF Quotients
    <3>2. ReturnedOnce(group) * s <= o.returned
      BY <1>1, <2>1, <2>3, <3>1, QuotientIsLimit
    <3> QED
      BY <2>3, <3>2, CapturedFacts
  <2>4. CASE PerShot(group) /\ Returned(group, 1) = 0
    <3>1. s \in Nat /\ ReturnedOnce(group) * s = 0
      BY <2>1, <2>4
    <3>2. Returned(group, s) = 0
      BY <2>4, <3>1, CapturedFacts
    <3> QED
      BY <1>1, <3>2
  <2> QED
    BY <2>1, <2>2, <2>3, <2>4
<1> QED
  BY <1>3, <1>4, <1>5 DEF Fits

\* One shot more than a limit that cuts the shots does not fit.
LEMMA LimitIsTight ==
  ASSUME NEW group, IsGroup(group), NEW o \in OptionSets,
         ShotLimit(group, o) < Conditions(group).n
  PROVE  ~Fits(group, o, ShotLimit(group, o) + 1)
<1> DEFINE L == ShotLimit(group, o)
<1>1. o.duration \in Nat /\ o.capture \in Nat /\ o.returned \in Nat
  BY OptionsAssumption
<1>2. L \in Nat /\ L \in Quotients(group, o) /\ L # Conditions(group).n
  BY QuotientsNatural
<1>3. CASE L = o.duration \div ShotDuration(group)
  <2>1. ShotDuration(group) * (L + 1) > o.duration
    BY <1>1, <1>3, ShotDurationPositive, QuotientIsLimit
  <2>2. ShotDuration(group) * (L + 1) \in Nat
    BY <1>2, ShotDurationPositive
  <2> QED
    BY <1>1, <2>1, <2>2 DEF Fits
<1>4. ASSUME NEW r \in Receivers(group), L = o.capture \div Captured(group, r)
      PROVE  ~Fits(group, o, L + 1)
  <2>1. Captured(group, r) \in Nat \ {0}
    BY CapturedFacts
  <2>2. Captured(group, r) * (L + 1) > o.capture
    BY <1>1, <1>4, <2>1, QuotientIsLimit
  <2>3. Captured(group, r) * (L + 1) \in Nat
    BY <1>2, <2>1
  <2>4. ~(Captured(group, r) * (L + 1) <= o.capture)
    BY <1>1, <2>2, <2>3
  <2> QED
    BY <2>4 DEF Fits
<1>5. CASE PerShot(group) /\ Returned(group, 1) > 0 /\ L = o.returned \div Returned(group, 1)
  <2>1. Returned(group, 1) = ReturnedOnce(group) /\ ReturnedOnce(group) \in Nat \ {0}
    <3>1. Returned(group, 1) = ReturnedOnce(group) /\ ReturnedOnce(group) \in Nat
      BY CapturedFacts
    <3> QED
      BY <1>5, <3>1
  <2>2. ReturnedOnce(group) * (L + 1) > o.returned
    BY <1>1, <1>5, <2>1, QuotientIsLimit
  <2>3. Returned(group, L + 1) = ReturnedOnce(group) * (L + 1)
    BY <1>2, <1>5, CapturedFacts
  <2>4. ReturnedOnce(group) * (L + 1) \in Nat
    BY <1>2, <2>1
  <2>5. ~(Returned(group, L + 1) <= o.returned)
    BY <1>1, <2>2, <2>3, <2>4
  <2> QED
    BY <2>5 DEF Fits
<1> QED
  BY <1>2, <1>3, <1>4, <1>5 DEF Quotients

\* The windows of an alias: those of a job come behind all of an earlier one.
LEMMA OffsetsGrow ==
  ASSUME NEW group, IsGroup(group), NEW a
  PROVE  /\ \A k \in 1..Len(group) : Offset(group, k, a) \in Nat
         /\ \A k, l \in 1..Len(group) :
               k < l /\ a \in AliasesOf(group[k])
                  => Offset(group, k, a) + Len(group[k].caps[a]) <= Offset(group, l, a)
<1> DEFINE Before(k) == {m \in 1..(k - 1) : a \in AliasesOf(group[m])}
           f == [m \in {m \in 1..Len(group) : a \in AliasesOf(group[m])} |-> Len(group[m].caps[a])]
<1>1. Len(group) \in Nat
  BY MemberFacts
<1>2. ASSUME NEW m \in 1..Len(group), a \in AliasesOf(group[m])
      PROVE  f[m] = Len(group[m].caps[a]) /\ f[m] \in Nat
  <2>1. group[m].caps[a] \in Seq(Nat \ {0})
    BY <1>2, MemberFacts
  <2> QED
    BY <1>2, <2>1
<1>3. ASSUME NEW k \in 1..Len(group)
      PROVE  /\ IsFiniteSet(Before(k)) /\ \A m \in Before(k) : f[m] \in Nat
             /\ Offset(group, k, a) = SumFunctionOnSet(f, Before(k))
  <2> DEFINE fk == [m \in Before(k) |-> Len(group[m].caps[a])]
  <2>1. IsFiniteSet(Before(k))
    <3>1. IsFiniteSet(1..(k - 1)) /\ Before(k) \in SUBSET (1..(k - 1))
      BY FS_Interval
    <3> QED
      BY <3>1, FS_Subset
  <2>2. \A m \in Before(k) : m \in 1..Len(group) /\ a \in AliasesOf(group[m])
    BY <1>1
  <2>3. \A m \in Before(k) : f[m] = fk[m] /\ f[m] \in Nat /\ fk[m] \in Nat
    BY <1>2, <2>2
  <2>4. Offset(group, k, a) = SumFunctionOnSet(fk, Before(k))
    BY DEF Offset, SumFunction
  <2> HIDE DEF Before, f, fk
  <2>5. SumFunctionOnSet(fk, Before(k)) = SumFunctionOnSet(f, Before(k))
    <3> DEFINE B == Before(k)
    <3>1. IsFiniteSet(B) /\ B \in SUBSET B /\ \A m \in B : fk[m] \in Nat /\ f[m] = fk[m]
      BY <2>1, <2>3
    <3>2. \A m \in B \ B : fk[m] = 0
      OBVIOUS
    <3> HIDE DEF B
    <3>3. SumFunctionOnSet(fk, B) = SumFunctionOnSet(f, B)
      BY <3>1, <3>2, SumSkipsZeros
    <3> QED
      BY <3>3 DEF B
  <2> QED
    BY <2>1, <2>3, <2>4, <2>5
<1>4. ASSUME NEW k \in 1..Len(group)
      PROVE  Offset(group, k, a) \in Nat
  <2> HIDE DEF Before, f
  <2> QED
    BY <1>3, SumGraph
<1>5. ASSUME NEW k \in 1..Len(group), NEW l \in 1..Len(group), k < l, a \in AliasesOf(group[k])
      PROVE  Offset(group, k, a) + Len(group[k].caps[a]) <= Offset(group, l, a)
  <2> DEFINE B == Before(k) \cup {k}
  <2>1. B \in SUBSET Before(l) /\ B \ {k} = Before(k) /\ k \in B
    BY <1>1, <1>5
  <2>2. f[k] = Len(group[k].caps[a]) /\ f[k] \in Nat
    BY <1>2, <1>5
  <2> HIDE DEF Before, f
  <2>3. IsFiniteSet(B) /\ \A m \in B : f[m] \in Nat
    BY <1>3, <2>1, FS_Subset
  <2> HIDE DEF B
  <2>4. SumFunctionOnSet(f, B) = f[k] + SumFunctionOnSet(f, Before(k))
    <3>1. k \in B /\ B \ {k} = Before(k)
      BY <2>1
    <3>2. SumFunctionOnSet(f, B) = f[k] + SumFunctionOnSet(f, B \ {k})
      BY <2>3, <3>1, SumRemove
    <3> QED
      BY <3>1, <3>2
  <2>5. SumFunctionOnSet(f, B) <= SumFunctionOnSet(f, Before(l))
    <3>1. IsFiniteSet(Before(l)) /\ \A m \in Before(l) : f[m] \in Nat
      BY <1>3
    <3> HIDE DEF Before
    <3> QED
      BY <2>1, <3>1, SumOfPart
  <2>6. /\ Offset(group, k, a) = SumFunctionOnSet(f, Before(k))
        /\ Offset(group, l, a) = SumFunctionOnSet(f, Before(l))
    BY <1>3
  <2>7. Offset(group, k, a) \in Nat
    BY <1>4
  <2> QED
    BY <2>2, <2>4, <2>5, <2>6, <2>7
<1> QED
  BY <1>4, <1>5

\* A capture is found again behind its place in the built payload.
THEOREM WindowFound ==
  ASSUME NEW group, IsGroup(group), NEW k \in 1..Len(group), NEW a \in AliasesOf(group[k]),
         NEW i \in 1..Len(group[k].caps[a])
  PROVE  WindowOf(group, a, ExecutionIndex(group, k, a, i)) = <<k, a, i>>
<1> DEFINE n == ExecutionIndex(group, k, a, i)
           Holds(l) == /\ a \in AliasesOf(group[l])
                       /\ n - Offset(group, l, a) \in 1..Len(group[l].caps[a])
<1>1. Offset(group, k, a) \in Nat /\ n = Offset(group, k, a) + i
  BY OffsetsGrow DEF ExecutionIndex
<1> HIDE DEF n
<1>2. \A l \in 1..Len(group) : a \in AliasesOf(group[l]) => Len(group[l].caps[a]) \in Nat
  <2>1. \A l \in 1..Len(group) : a \in AliasesOf(group[l]) => group[l].caps[a] \in Seq(Nat \ {0})
    BY MemberFacts
  <2> QED
    BY <2>1
<1>3. i \in Nat /\ i >= 1 /\ i <= Len(group[k].caps[a]) /\ n - Offset(group, k, a) = i
  BY <1>1, <1>2
<1>4. Holds(k)
  BY <1>3
<1>5. ASSUME NEW l \in 1..Len(group), Holds(l)
      PROVE  l = k
  <2>1. /\ Offset(group, l, a) \in Nat /\ Len(group[l].caps[a]) \in Nat
        /\ n - Offset(group, l, a) >= 1 /\ n - Offset(group, l, a) <= Len(group[l].caps[a])
    <3>1. Offset(group, l, a) \in Nat /\ Len(group[l].caps[a]) \in Nat
      BY <1>2, <1>5, OffsetsGrow
    <3> QED
      BY <1>5, <3>1
  <2>2. CASE l < k
    <3>1. Offset(group, l, a) + Len(group[l].caps[a]) <= Offset(group, k, a)
      BY <1>5, <2>2, OffsetsGrow
    <3> QED
      BY <1>1, <1>3, <2>1, <3>1
  <2>3. CASE k < l
    <3>1. Offset(group, k, a) + Len(group[k].caps[a]) <= Offset(group, l, a)
      BY <2>3, OffsetsGrow
    <3> QED
      BY <1>1, <1>2, <1>3, <2>1, <3>1
  <2> QED
    BY <2>2, <2>3
<1>6. (CHOOSE l \in 1..Len(group) : Holds(l)) = k
  <2> HIDE DEF Holds
  <2> QED
    BY <1>4, <1>5
<1> QED
  BY <1>3, <1>6 DEF WindowOf, n

-----------------------------------------------------------------------------
(* Planning: the inductive invariant.  What it says of a group and of an     *)
(* execution depends on the batch b and the options o alone.                 *)

MembersOf(b, g) == [k \in 1..Len(g) |-> b[g[k]]]

\* Adjacent jobs, in their order.
Adjacent(b, g) ==
    /\ g \in Seq(1..Len(b)) /\ g # <<>>
    /\ \A k \in 1..Len(g) : g[k] = g[1] + k - 1

\* What a packed group is good for.
Shareable(o, group) ==
    /\ Compatible(group)
    /\ Fits(group, o, 1)
    /\ Len(group) > 1 => ShotLimit(group, o) = Conditions(group).n
GroupGood(b, o, g) == Adjacent(b, g) /\ Shareable(o, MembersOf(b, g))

\* An execution takes as many shots of its group as the limit or the group has.
ExecutionGood(b, o, e) ==
    LET group == MembersOf(b, e.jobs)
        n == Conditions(group).n
        limit == ShotLimit(group, o)
    IN /\ GroupGood(b, o, e.jobs) /\ e.starts = Starts(group)
       /\ e.from \in Nat /\ e.to \in Nat /\ e.from < e.to /\ e.to <= n
       /\ e.to - e.from <= limit
       /\ e.to < n => e.to - e.from = limit
       /\ e.to - e.from < n => Len(e.jobs) = 1

\* The chunks of a capture c follow one another up to the shots received.
ChunksGood(c, got, shots, upto) ==
    /\ Len(shots) = Len(got)
    /\ got = <<>> => upto = 0
    /\ got # <<>> => got[1].from = 0 /\ got[Len(got)].to = upto
    /\ \A k \in 1..Len(got) :
          /\ got[k].of = c
          /\ k > 1 => got[k].from = got[k - 1].to
          /\ shots[k] = got[k].to - got[k].from

BatchInv ==
    /\ jobs \in Seq(Payloads) /\ jobs # <<>>
    /\ options \in OptionSets

\* Groups are good and come in the order of their jobs.
GroupsInv ==
    /\ current \in Seq(Nat)
    /\ current # <<>> => GroupGood(jobs, options, current)
    /\ groups \in Seq(Seq(Nat))
    /\ \A k \in 1..Len(groups) : GroupGood(jobs, options, groups[k])
    /\ \A k, l \in 1..Len(groups) : k < l => groups[k][1] < groups[l][1]
    /\ current # <<>> => \A k \in 1..Len(groups) : groups[k][1] < current[1]
    /\ stage = "group" /\ current = <<>> => groups = <<>>

\* A group that was planned in part is the first one left and a job on its own.
PlanInv ==
    /\ plan \in Seq([jobs : Seq(Nat), starts : Seq(Nat), from : Nat, to : Nat])
    /\ stage = "group" => plan = <<>>
    /\ stage \in {"split", "run", "done"} => current = <<>>
    /\ \A k \in 1..Len(plan) : ExecutionGood(jobs, options, plan[k])
    /\ (plan # <<>> /\ groups # <<>> /\ plan[Len(plan)].jobs = groups[1])
          => /\ plan[Len(plan)].to < Conditions(MembersOf(jobs, groups[1])).n
             /\ Len(groups[1]) = 1

AssemblyInv ==
    /\ completed \in Nat
    /\ received \in [Indices -> Nat] /\ weights \in [Indices -> Seq(Nat)]
    /\ chunks \in [Captures(jobs) -> Seq([of : Captures(jobs), from : Nat, to : Nat])]
    /\ \A c \in Captures(jobs) : ChunksGood(c, chunks[c], weights[c[1]], received[c[1]])
    /\ stage = "done" => \A j \in Indices : received[j] = jobs[j].n

PlanningInv == BatchInv /\ GroupsInv /\ PlanInv /\ AssemblyInv

\* The payloads of a group of the batch.
LEMMA GroupOfBatch ==
  ASSUME NEW b \in Seq(Payloads), NEW g, Adjacent(b, g)
  PROVE  /\ IsGroup(MembersOf(b, g))
         /\ Len(MembersOf(b, g)) = Len(g) /\ Len(g) \in Nat \ {0}
         /\ \A k \in 1..Len(g) : g[k] \in 1..Len(b) /\ MembersOf(b, g)[k] = b[g[k]]
         /\ Conditions(MembersOf(b, g)) = b[g[1]]
<1>1. Len(g) \in Nat \ {0} /\ \A k \in 1..Len(g) : g[k] \in 1..Len(b)
  BY DEF Adjacent
<1>2. \A k \in 1..Len(g) : b[g[k]] \in Payloads
  BY <1>1
<1>3. MembersOf(b, g) \in [1..Len(g) -> Payloads]
  BY <1>2 DEF MembersOf
<1>4. MembersOf(b, g) \in Seq(Payloads) /\ Len(MembersOf(b, g)) = Len(g)
  BY <1>1, <1>3
<1>5. \A k \in 1..Len(g) : MembersOf(b, g)[k] = b[g[k]]
  BY DEF MembersOf
<1>6. 1 \in 1..Len(g)
  BY <1>1
<1>7. MembersOf(b, g) # <<>>
  BY <1>1, <1>4
<1> QED
  BY <1>1, <1>4, <1>5, <1>6, <1>7 DEF IsGroup, Conditions

\* The model reads a group as the invariant does.
LEMMA PayloadsAreMembers ==
  ASSUME NEW g
  PROVE  PayloadsOf(g) = MembersOf(jobs, g)
BY DEF PayloadsOf, MembersOf

\* A job is compatible with itself.
LEMMA AloneIsCompatible ==
  ASSUME NEW group, Len(group) = 1
  PROVE  Compatible(group)
<1>1. \A k, l \in 1..Len(group) : k = l
  OBVIOUS
<1>2. \A p : Agree(p, p)
  BY DEF Agree
<1> QED
  BY <1>1, <1>2 DEF Compatible

\* Every batch starts in the invariant.
LEMMA PlanningStarts == Init => PlanningInv
<1> SUFFICES ASSUME Init PROVE PlanningInv
  OBVIOUS
<1>1. PICK n \in 1..MaxJobs : jobs \in [1..n -> Payloads]
  BY DEF Init
<1>2. BatchInv
  <2>1. n \in Nat \ {0}
    BY MaxJobsAssumption
  <2>2. jobs \in Seq(Payloads) /\ Len(jobs) = n
    BY <1>1, <2>1
  <2> QED
    BY <2>1, <2>2 DEF Init, BatchInv
<1>3. GroupsInv
  BY DEF Init, GroupsInv
<1>4. PlanInv
  BY DEF Init, PlanInv
<1>5. AssemblyInv
  <2>1. \A c \in Captures(jobs) : c[1] \in Indices
    <3>1. IsGroup(jobs)
      BY <1>2 DEF BatchInv, IsGroup
    <3> QED
      BY <3>1, CaptureMembers DEF Indices
  <2>2. /\ received = [j \in Indices |-> 0] /\ weights = [j \in Indices |-> <<>>]
        /\ chunks = [c \in Captures(jobs) |-> <<>>] /\ completed = 0 /\ stage = "group"
    BY DEF Init
  <2>3. \A c \in Captures(jobs) : ChunksGood(c, chunks[c], weights[c[1]], received[c[1]])
    BY <2>1, <2>2 DEF ChunksGood
  <2> QED
    BY <2>2, <2>3 DEF AssemblyInv
<1> QED
  BY <1>2, <1>3, <1>4, <1>5 DEF PlanningInv

\* The batch and its limits do not change.
LEMMA BatchStays == [Next]_vars => jobs' = jobs /\ options' = options
BY DEF Next, vars, Refuse, Pack, StartGroup, Grouped, Split, StartRunning, Run, Finish,
       Terminated

\* A job that follows an adjacent group extends it.
LEMMA AdjacentExtends ==
  ASSUME NEW b \in Seq(Payloads), NEW g, Adjacent(b, g), g[Len(g)] + 1 <= Len(b)
  PROVE  /\ Adjacent(b, Append(g, g[Len(g)] + 1))
         /\ Append(g, g[Len(g)] + 1)[1] = g[1]
         /\ g[1] < g[Len(g)] + 1
<1> DEFINE j == g[Len(g)] + 1
           h == Append(g, j)
<1>1. g \in Seq(1..Len(b)) /\ Len(g) \in Nat \ {0} /\ Len(b) \in Nat
  BY DEF Adjacent
<1>2. Len(g) \in 1..Len(g) /\ 1 \in 1..Len(g)
  BY <1>1
<1>3. g[Len(g)] \in 1..Len(b) /\ g[1] \in 1..Len(b) /\ g[Len(g)] = g[1] + Len(g) - 1
  BY <1>1, <1>2 DEF Adjacent
<1>4. j \in 1..Len(b) /\ j = g[1] + Len(g)
  BY <1>1, <1>3
<1> HIDE DEF j
<1>5. /\ h \in Seq(1..Len(b)) /\ Len(h) = Len(g) + 1 /\ h[Len(g) + 1] = j
      /\ \A k \in 1..Len(g) : h[k] = g[k]
  BY <1>1, <1>4
<1>6. h[1] = g[1] /\ h # <<>>
  BY <1>1, <1>2, <1>5
<1> HIDE DEF h
<1>7. ASSUME NEW k \in 1..Len(h)
      PROVE  h[k] = h[1] + k - 1
  <2>1. CASE k \in 1..Len(g)
    BY <1>5, <1>6, <2>1 DEF Adjacent
  <2>2. CASE k = Len(g) + 1
    BY <1>1, <1>3, <1>4, <1>5, <1>6, <2>2
  <2> QED
    BY <1>1, <1>5, <2>1, <2>2
<1>8. Adjacent(b, h)
  BY <1>5, <1>6, <1>7 DEF Adjacent
<1>9. g[1] < j
  BY <1>1, <1>3, <1>4
<1> QED
  BY <1>6, <1>8, <1>9 DEF h, j

\* A packed group that is put aside comes behind the others.
LEMMA AsideInOrder ==
  ASSUME BatchInv, GroupsInv, current # <<>>
  PROVE  LET all == Append(groups, current)
         IN /\ all \in Seq(Seq(Nat)) /\ Len(all) = Len(groups) + 1
            /\ \A k \in 1..Len(all) : GroupGood(jobs, options, all[k])
            /\ \A k, l \in 1..Len(all) : k < l => all[k][1] < all[l][1]
            /\ \A k \in 1..Len(all) : all[k][1] <= current[1]
<1> DEFINE all == Append(groups, current)
           n == Len(groups)
<1>1. groups \in Seq(Seq(Nat)) /\ current \in Seq(Nat) /\ n \in Nat
  BY DEF GroupsInv
<1>2. /\ all \in Seq(Seq(Nat)) /\ Len(all) = n + 1 /\ all[n + 1] = current
      /\ \A k \in 1..n : all[k] = groups[k]
  BY <1>1
<1>3. current[1] \in Nat
  <2>1. 1 \in 1..Len(current)
    BY <1>1
  <2> QED
    BY <1>1, <2>1
<1>4. \A k \in 1..n : groups[k][1] \in Nat
  <2> SUFFICES ASSUME NEW k \in 1..n PROVE groups[k][1] \in Nat
    OBVIOUS
  <2>1. groups[k] \in Seq(Nat) /\ groups[k] # <<>>
    BY <1>1 DEF GroupsInv, GroupGood, Adjacent
  <2>2. 1 \in 1..Len(groups[k])
    BY <2>1
  <2> QED
    BY <2>1, <2>2
<1> HIDE DEF all, n
<1>5. \A k \in 1..(n + 1) : k \in 1..n \/ k = n + 1
  BY <1>1
<1>6. \A k \in 1..(n + 1) : GroupGood(jobs, options, all[k])
  BY <1>2, <1>5 DEF GroupsInv, n
<1>7. ASSUME NEW k \in 1..(n + 1), NEW l \in 1..(n + 1), k < l
      PROVE  all[k][1] < all[l][1]
  <2>1. k \in 1..n
    BY <1>1, <1>7
  <2>2. CASE l \in 1..n
    BY <1>2, <1>7, <2>1, <2>2 DEF GroupsInv, n
  <2>3. CASE l = n + 1
    BY <1>2, <2>1, <2>3 DEF GroupsInv, n
  <2> QED
    BY <1>5, <2>2, <2>3
<1>8. ASSUME NEW k \in 1..(n + 1)
      PROVE  all[k][1] <= current[1]
  <2>1. CASE k \in 1..n
    <3>1. k \in 1..Len(groups) /\ all[k] = groups[k]
      BY <1>2, <2>1 DEF n
    <3>2. groups[k][1] < current[1]
      BY <3>1 DEF GroupsInv
    <3> QED
      BY <1>3, <1>4, <2>1, <3>1, <3>2
  <2>2. CASE k = n + 1
    BY <1>2, <1>3, <2>2
  <2> QED
    BY <1>5, <2>1, <2>2
<1> QED
  BY <1>2, <1>6, <1>7, <1>8 DEF all, n

\* Packing keeps the groups good.
LEMMA PackKeepsGroups ==
  ASSUME PlanningInv, Pack
  PROVE  GroupsInv'
<1> DEFINE g == Append(current, NextJob)
<1>1. jobs \in Seq(Payloads) /\ current # <<>> /\ NextJob = current[Len(current)] + 1
  BY DEF PlanningInv, BatchInv, Pack, NextJob
<1>2. GroupGood(jobs, options, current)
  BY <1>1 DEF PlanningInv, GroupsInv
<1>3. NextJob <= Len(jobs)
  BY DEF Pack, Grouping
<1>4. Adjacent(jobs, g) /\ g[1] = current[1]
  BY <1>1, <1>2, <1>3, AdjacentExtends DEF GroupGood
<1>5. Shareable(options, MembersOf(jobs, g))
  BY PayloadsAreMembers DEF Pack, Packs, Shareable
<1>6. current' = g /\ groups' = groups /\ jobs' = jobs /\ options' = options
  BY DEF Pack
<1>7. g \in Seq(Nat)
  <2>1. g \in Seq(1..Len(jobs)) /\ (1..Len(jobs)) \in SUBSET Nat
    BY <1>4 DEF Adjacent
  <2> HIDE DEF g
  <2> QED
    BY <2>1
<1> HIDE DEF g
<1>8. GroupGood(jobs, options, g)
  BY <1>4, <1>5 DEF GroupGood
<1>9. g # <<>>
  BY <1>4 DEF Adjacent
<1> QED
  BY <1>1, <1>4, <1>6, <1>7, <1>8, <1>9 DEF PlanningInv, GroupsInv

\* So does beginning the next group.
LEMMA StartKeepsGroups ==
  ASSUME PlanningInv, StartGroup
  PROVE  GroupsInv'
<1> DEFINE g == <<NextJob>>
<1>1. jobs \in Seq(Payloads) /\ Len(jobs) \in Nat /\ GroupsInv /\ BatchInv
  BY DEF PlanningInv, BatchInv
<1>2. current' = g /\ jobs' = jobs /\ options' = options /\ NextJob <= Len(jobs) /\ FitsAlone
      /\ groups' = IF current = <<>> THEN groups ELSE Append(groups, current)
  BY DEF StartGroup, Grouping
<1>3. current # <<>> => /\ NextJob = current[Len(current)] + 1 /\ Adjacent(jobs, current)
                        /\ current[1] < NextJob
                        /\ current[1] \in Nat /\ current[Len(current)] \in Nat
  <2>1. SUFFICES ASSUME current # <<>>
                 PROVE  /\ NextJob = current[Len(current)] + 1 /\ Adjacent(jobs, current)
                        /\ current[1] < NextJob
                        /\ current[1] \in Nat /\ current[Len(current)] \in Nat
    OBVIOUS
  <2>2. NextJob = current[Len(current)] + 1 /\ Adjacent(jobs, current)
    BY <1>1, <2>1 DEF NextJob, GroupsInv, GroupGood
  <2>3. current[1] < NextJob
    BY <1>1, <1>2, <2>2, AdjacentExtends
  <2>4. 1 \in 1..Len(current) /\ Len(current) \in 1..Len(current) /\ current \in Seq(Nat)
    BY <1>1, <2>1 DEF GroupsInv
  <2>5. current[1] \in Nat /\ current[Len(current)] \in Nat
    BY <2>4
  <2> QED
    BY <2>2, <2>3, <2>5
<1>4. NextJob \in 1..Len(jobs)
  <2>1. CASE current = <<>>
    BY <1>1, <1>2, <2>1 DEF NextJob
  <2>2. CASE current # <<>>
    BY <1>1, <1>2, <1>3, <2>2
  <2> QED
    BY <2>1, <2>2
<1>5. GroupGood(jobs, options, g)
  <2>1. /\ g \in Seq(1..Len(jobs)) /\ g # <<>> /\ Len(g) = 1 /\ \A k \in 1..Len(g) : k = 1
        /\ g[1] = NextJob
    BY <1>4
  <2>2. Adjacent(jobs, g)
    BY <1>4, <2>1 DEF Adjacent
  <2>3. Len(MembersOf(jobs, g)) = 1
    BY <1>1, <2>1, <2>2, GroupOfBatch
  <2>4. Compatible(MembersOf(jobs, g))
    BY <2>3, AloneIsCompatible
  <2>5. Fits(MembersOf(jobs, g), options, 1)
    BY <1>2, PayloadsAreMembers DEF FitsAlone
  <2> HIDE DEF g
  <2>6. ~(Len(MembersOf(jobs, g)) > 1)
    BY <2>3
  <2> QED
    BY <2>2, <2>4, <2>5, <2>6 DEF GroupGood, Shareable
<1>6. g \in Seq(Nat) /\ g # <<>> /\ g[1] = NextJob
  BY <1>4
<1> HIDE DEF g
<1>7. CASE current = <<>>
  <2>1. groups' = groups
    BY <1>2, <1>7
  <2>2. \A k \in 1..Len(groups) : groups[k][1] < NextJob
    <3>1. groups = <<>>
      BY <1>1, <1>7 DEF GroupsInv, StartGroup, Grouping
    <3>2. 1..Len(groups) = {}
      BY <3>1
    <3> QED
      BY <3>2
  <2> QED
    BY <1>1, <1>2, <1>5, <1>6, <2>1, <2>2 DEF GroupsInv
<1>8. CASE current # <<>>
  <2> DEFINE all == Append(groups, current)
  <2>1. groups' = all
    BY <1>2, <1>8
  <2>2. /\ all \in Seq(Seq(Nat)) /\ Len(all) = Len(groups) + 1
        /\ \A k \in 1..Len(all) : GroupGood(jobs, options, all[k])
        /\ \A k, l \in 1..Len(all) : k < l => all[k][1] < all[l][1]
        /\ \A k \in 1..Len(all) : all[k][1] <= current[1]
    BY <1>1, <1>8, AsideInOrder
  <2> HIDE DEF all
  <2>3. \A k \in 1..Len(all) : all[k][1] \in Nat
    <3> SUFFICES ASSUME NEW k \in 1..Len(all) PROVE all[k][1] \in Nat
      OBVIOUS
    <3>1. all[k] \in Seq(Nat) /\ all[k] # <<>>
      BY <2>2 DEF GroupGood, Adjacent
    <3>2. 1 \in 1..Len(all[k])
      BY <3>1
    <3> QED
      BY <3>1, <3>2
  <2>4. \A k \in 1..Len(all) : all[k][1] < g[1]
    BY <1>3, <1>4, <1>6, <1>8, <2>2, <2>3
  <2> QED
    BY <1>2, <1>5, <1>6, <2>1, <2>2, <2>4 DEF GroupsInv
<1> QED
  BY <1>7, <1>8

\* The last group is put aside.
LEMMA GroupedKeepsGroups ==
  ASSUME PlanningInv, Grouped
  PROVE  GroupsInv'
<1>1. current # <<>>
  <2>1. Len(jobs) \in Nat \ {0}
    BY DEF PlanningInv, BatchInv
  <2> QED
    BY <2>1 DEF Grouped, NextJob
<1> DEFINE all == Append(groups, current)
<1>2. /\ all \in Seq(Seq(Nat))
      /\ \A k \in 1..Len(all) : GroupGood(jobs, options, all[k])
      /\ \A k, l \in 1..Len(all) : k < l => all[k][1] < all[l][1]
  BY <1>1, AsideInOrder DEF PlanningInv
<1> HIDE DEF all
<1>3. /\ groups' = all /\ current' = <<>> /\ jobs' = jobs /\ options' = options
      /\ stage' = "split"
  BY DEF Grouped, all
<1> QED
  BY <1>2, <1>3 DEF GroupsInv

\* A group leaves from the front.
LEMMA SplitKeepsGroups ==
  ASSUME PlanningInv, Split
  PROVE  GroupsInv'
<1>1. /\ groups # <<>> /\ groups' \in {groups, Tail(groups)}
      /\ current' = current /\ jobs' = jobs /\ options' = options /\ stage' = stage
      /\ stage = "split"
  BY DEF Split
<1>2. current = <<>> /\ current' = <<>>
  BY <1>1 DEF PlanningInv, PlanInv
<1>3. groups \in Seq(Seq(Nat)) /\ Len(groups) \in Nat \ {0}
  BY <1>1 DEF PlanningInv, GroupsInv
<1>4. CASE groups' = groups
  BY <1>1, <1>2, <1>4 DEF PlanningInv, GroupsInv
<1>5. CASE groups' = Tail(groups)
  <2> DEFINE rest == Tail(groups)
  <2>1. /\ rest \in Seq(Seq(Nat)) /\ Len(rest) = Len(groups) - 1
        /\ \A k \in 1..Len(rest) : k + 1 \in 1..Len(groups) /\ rest[k] = groups[k + 1]
    BY <1>1, <1>3
  <2> HIDE DEF rest
  <2>2. \A k \in 1..Len(rest) : GroupGood(jobs, options, rest[k])
    BY <2>1 DEF PlanningInv, GroupsInv
  <2>3. ASSUME NEW k \in 1..Len(rest), NEW l \in 1..Len(rest), k < l
        PROVE  rest[k][1] < rest[l][1]
    <3>1. k + 1 \in 1..Len(groups) /\ l + 1 \in 1..Len(groups) /\ k + 1 < l + 1
      BY <2>1, <2>3
    <3>2. groups[k + 1][1] < groups[l + 1][1]
      BY <3>1 DEF PlanningInv, GroupsInv
    <3> QED
      BY <2>1, <3>2
  <2>4. groups' = rest
    BY <1>5 DEF rest
  <2>5. \A k \in 1..Len(groups') : GroupGood(jobs', options', groups'[k])
    BY <1>1, <2>2, <2>4
  <2>6. \A k, l \in 1..Len(groups') : k < l => groups'[k][1] < groups'[l][1]
    BY <2>3, <2>4
  <2>7. groups' \in Seq(Seq(Nat)) /\ current' \in Seq(Nat)
    BY <1>2, <2>1, <2>4
  <2> QED
    BY <1>1, <1>2, <2>5, <2>6, <2>7 DEF GroupsInv
<1> QED
  BY <1>1, <1>4, <1>5

LEMMA GroupsStep == PlanningInv /\ [Next]_vars => GroupsInv'
<1> SUFFICES ASSUME PlanningInv, [Next]_vars PROVE GroupsInv'
  OBVIOUS
<1>1. CASE Refuse
  BY <1>1 DEF Refuse, planning, PlanningInv, GroupsInv
<1>2. CASE StartRunning
  BY <1>2 DEF StartRunning, planning, PlanningInv, GroupsInv
<1>3. CASE Run
  BY <1>3 DEF Run, planning, PlanningInv, GroupsInv
<1>4. CASE Finish
  BY <1>4 DEF Finish, planning, PlanningInv, GroupsInv
<1>5. CASE UNCHANGED vars
  BY <1>5 DEF vars, PlanningInv, GroupsInv
<1> QED
  BY <1>1, <1>2, <1>3, <1>4, <1>5, PackKeepsGroups, StartKeepsGroups, GroupedKeepsGroups,
     SplitKeepsGroups DEF Next, Terminated

\* What Split plans is as much as fits, and the rest of a group is left to it.
LEMMA SplitPlansWell ==
  ASSUME PlanningInv, Split
  PROVE  PlanInv'
<1> DEFINE g == groups[1]
           group == MembersOf(jobs, g)
           limit == ShotLimit(group, options)
           n == Conditions(group).n
           to == Min({Planned + limit, n})
           e == [jobs |-> g, starts |-> Starts(group), from |-> Planned, to |-> to]
<1>1. /\ stage = "split" /\ stage' = stage /\ groups # <<>> /\ limit > 0
      /\ plan' = Append(plan, e) /\ groups' = IF to = n THEN Tail(groups) ELSE groups
      /\ current' = current /\ jobs' = jobs /\ options' = options
  BY PayloadsAreMembers DEF Split
<1>2. /\ jobs \in Seq(Payloads) /\ options \in OptionSets
      /\ groups \in Seq(Seq(Nat)) /\ Len(groups) \in Nat \ {0} /\ 1 \in 1..Len(groups)
      /\ GroupGood(jobs, options, g) /\ g \in Seq(Nat)
  <2>1. jobs \in Seq(Payloads) /\ options \in OptionSets /\ groups \in Seq(Seq(Nat))
    BY DEF PlanningInv, BatchInv, GroupsInv
  <2>2. Len(groups) \in Nat \ {0} /\ 1 \in 1..Len(groups)
    BY <1>1, <2>1
  <2>3. GroupGood(jobs, options, g) /\ g \in Seq(Nat)
    BY <2>1, <2>2 DEF PlanningInv, GroupsInv
  <2> QED
    BY <2>1, <2>2, <2>3
<1>3. /\ IsGroup(group) /\ Len(group) = Len(g) /\ Len(g) \in Nat \ {0}
  BY <1>2, GroupOfBatch DEF GroupGood
<1>4. n \in Nat \ {0} /\ limit \in Nat \ {0} /\ limit <= n
  <2>1. n \in Nat \ {0}
    BY <1>3, MemberFacts DEF Conditions
  <2>2. limit \in Nat /\ limit <= n
    BY <1>2, <1>3, QuotientsNatural DEF Quotients
  <2> QED
    BY <1>1, <2>1, <2>2
<1>5. plan \in Seq([jobs : Seq(Nat), starts : Seq(Nat), from : Nat, to : Nat])
  BY DEF PlanningInv, PlanInv
<1>6. Planned \in Nat /\ Planned < n /\ (Planned # 0 => Len(g) = 1)
  <2>1. CASE plan # <<>> /\ plan[Len(plan)].jobs = g
    <3>1. Len(plan) \in 1..Len(plan) /\ Planned = plan[Len(plan)].to
      BY <1>5, <2>1 DEF Planned
    <3>2. plan[Len(plan)].to \in Nat
      <4> DEFINE R == [jobs : Seq(Nat), starts : Seq(Nat), from : Nat, to : Nat]
      <4>1. plan \in Seq(R)
        BY <1>5
      <4>2. \A r \in R : r.to \in Nat
        OBVIOUS
      <4> HIDE DEF R
      <4>3. plan[Len(plan)] \in R
        BY <3>1, <4>1
      <4> QED
        BY <4>2, <4>3
    <3>3. plan[Len(plan)].to < n /\ Len(g) = 1
      BY <1>1, <2>1 DEF PlanningInv, PlanInv
    <3> QED
      BY <3>1, <3>2, <3>3
  <2>2. CASE ~(plan # <<>> /\ plan[Len(plan)].jobs = g)
    <3>1. Planned = 0
      BY <2>2 DEF Planned
    <3> QED
      BY <1>4, <3>1
  <2> QED
    BY <2>1, <2>2
<1> HIDE DEF limit, n
<1>7. /\ to \in Nat /\ Planned < to /\ to <= n /\ to - Planned <= limit
      /\ to < n => to = Planned + limit
      /\ to = n \/ to = Planned + limit
  <2>1. {Planned + limit, n} \in SUBSET Nat /\ {Planned + limit, n} # {}
    BY <1>4, <1>6
  <2>2. to \in {Planned + limit, n} /\ to <= n /\ to <= Planned + limit
    BY <2>1, MinOfNaturals
  <2> HIDE DEF to
  <2> QED
    BY <1>4, <1>6, <2>2
<1> HIDE DEF to
<1>8. to - Planned < n => Len(g) = 1
  <2>1. SUFFICES ASSUME to - Planned < n, Len(g) # 1 PROVE FALSE
    OBVIOUS
  <2>2. Planned = 0 /\ Len(group) > 1
    <3> HIDE DEF group, g
    <3>1. Len(group) > 1
      BY <1>3, <2>1
    <3> QED
      BY <1>6, <2>1, <3>1
  <2>3. limit = n
    BY <1>2, <2>2 DEF GroupGood, Shareable, limit, n
  <2> QED
    BY <1>4, <1>7, <2>1, <2>2, <2>3
<1>9. ExecutionGood(jobs, options, e)
  <2>1. /\ e.jobs = g /\ e.starts = Starts(group) /\ e.from = Planned /\ e.to = to
    OBVIOUS
  <2>2. to < n => to - Planned = limit
    BY <1>4, <1>6, <1>7
  <2> HIDE DEF e, g
  <2> QED
    BY <1>2, <1>6, <1>7, <1>8, <2>1, <2>2 DEF ExecutionGood, limit, n
<1>10. e \in [jobs : Seq(Nat), starts : Seq(Nat), from : Nat, to : Nat]
  <2>1. Starts(group) \in [1..Len(group) -> Nat] /\ Len(group) \in Nat
    BY <1>3, StartsFacts
  <2>2. Starts(group) \in Seq(Nat)
    BY <2>1
  <2> QED
    BY <1>2, <1>6, <1>7, <2>2
<1>11. /\ plan' \in Seq([jobs : Seq(Nat), starts : Seq(Nat), from : Nat, to : Nat])
       /\ Len(plan') = Len(plan) + 1 /\ Len(plan) \in Nat
       /\ plan'[Len(plan')] = e
       /\ \A k \in 1..Len(plan) : plan'[k] = plan[k]
  <2> HIDE DEF e
  <2> QED
    BY <1>1, <1>5, <1>10
<1>12. e.jobs = g /\ e.to = to
  OBVIOUS
<1> HIDE DEF e
<1>13. \A k \in 1..Len(plan') : ExecutionGood(jobs, options, plan'[k])
  <2> SUFFICES ASSUME NEW k \in 1..Len(plan')
               PROVE  ExecutionGood(jobs, options, plan'[k])
    OBVIOUS
  <2>1. CASE k \in 1..Len(plan)
    BY <1>11, <2>1 DEF PlanningInv, PlanInv
  <2>2. CASE k = Len(plan')
    BY <1>9, <1>11, <2>2
  <2> QED
    BY <1>11, <2>1, <2>2
<1>14. (groups' # <<>> /\ plan'[Len(plan')].jobs = groups'[1])
          => /\ plan'[Len(plan')].to < Conditions(MembersOf(jobs, groups'[1])).n
             /\ Len(groups'[1]) = 1
  <2>1. CASE to = n
    <3>1. SUFFICES ASSUME groups' # <<>> PROVE g # groups'[1]
      BY <1>11, <1>12
    <3>2. groups' = Tail(groups)
      BY <1>1, <2>1
    <3>3. 2 \in 1..Len(groups) /\ groups'[1] = groups[2]
      BY <1>1, <1>2, <3>1, <3>2
    <3>4. groups[1][1] < groups[2][1]
      BY <1>2, <3>3 DEF PlanningInv, GroupsInv
    <3>5. groups[1][1] \in Nat
      <4>1. 1 \in 1..Len(g)
        BY <1>3
      <4> QED
        BY <1>2, <4>1
    <3> QED
      BY <3>3, <3>4, <3>5
  <2>2. CASE to # n
    <3>1. groups' = groups /\ to < n
      BY <1>1, <1>4, <1>7, <2>2
    <3>2. to - Planned < n
      BY <1>4, <1>6, <1>7, <3>1
    <3> QED
      BY <1>8, <1>11, <1>12, <3>1, <3>2 DEF n
  <2> QED
    BY <2>1, <2>2
<1> QED
  BY <1>1, <1>11, <1>13, <1>14 DEF PlanningInv, PlanInv

LEMMA PlanStep == PlanningInv /\ [Next]_vars => PlanInv'
<1> SUFFICES ASSUME PlanningInv, [Next]_vars PROVE PlanInv'
  OBVIOUS
<1> USE DEF PlanningInv, PlanInv
<1>1. CASE Refuse
  BY <1>1 DEF Refuse, planning
<1>2. CASE Pack
  BY <1>2 DEF Pack, Grouping
<1>3. CASE StartGroup
  BY <1>3 DEF StartGroup, Grouping
<1>4. CASE Grouped
  BY <1>4 DEF Grouped
<1>5. CASE Split
  BY <1>5, SplitPlansWell
<1>6. CASE StartRunning
  BY <1>6 DEF StartRunning, planning
<1>7. CASE Run
  BY <1>7 DEF Run, planning
<1>8. CASE Finish
  BY <1>8 DEF Finish, planning
<1>9. CASE UNCHANGED vars
  BY <1>9 DEF vars
<1> QED
  BY <1>1, <1>2, <1>3, <1>4, <1>5, <1>6, <1>7, <1>8, <1>9 DEF Next, Terminated

\* A chunk that follows the shots received keeps a capture's chunks in order.
LEMMA ChunkFollows ==
  ASSUME NEW R, NEW got \in Seq(R), NEW shots \in Seq(Nat), NEW upto, NEW c,
         ChunksGood(c, got, shots, upto),
         NEW chunk \in R, chunk.of = c, chunk.from = upto, NEW w \in Nat,
         w = chunk.to - chunk.from
  PROVE  ChunksGood(c, Append(got, chunk), Append(shots, w), chunk.to)
<1> DEFINE all == Append(got, chunk)
           ws == Append(shots, w)
           n == Len(got)
<1>1. n \in Nat /\ Len(shots) = n
  BY DEF ChunksGood
<1>2. /\ Len(all) = n + 1 /\ all[n + 1] = chunk /\ all # <<>>
      /\ \A k \in 1..n : all[k] = got[k]
  BY <1>1
<1>3. /\ Len(ws) = n + 1 /\ ws[n + 1] = w
      /\ \A k \in 1..n : ws[k] = shots[k]
  BY <1>1
<1> HIDE DEF all, ws
<1>4. all[1].from = 0
  <2>1. CASE got = <<>>
    BY <1>2, <2>1 DEF ChunksGood
  <2>2. CASE got # <<>>
    <3>1. 1 \in 1..n
      BY <2>2
    <3> QED
      BY <1>2, <2>2, <3>1 DEF ChunksGood
  <2> QED
    BY <2>1, <2>2
<1>5. ASSUME NEW k \in 1..(n + 1)
      PROVE  /\ all[k].of = c
             /\ k > 1 => all[k].from = all[k - 1].to
             /\ ws[k] = all[k].to - all[k].from
  <2>1. CASE k \in 1..n
    <3>1. k > 1 => k - 1 \in 1..n
      BY <1>1, <2>1
    <3> QED
      BY <1>2, <1>3, <2>1, <3>1 DEF ChunksGood
  <2>2. CASE k = n + 1
    <3>1. ASSUME k > 1
          PROVE  all[k].from = all[k - 1].to
      <4>1. k - 1 = n /\ n \in 1..n /\ got # <<>>
        BY <1>1, <2>2, <3>1
      <4>2. got[n].to = upto
        BY <4>1 DEF ChunksGood
      <4> QED
        BY <1>2, <2>2, <4>1, <4>2
    <3> QED
      BY <1>2, <1>3, <2>2, <3>1
  <2> QED
    BY <1>1, <2>1, <2>2
<1> QED
  BY <1>1, <1>2, <1>3, <1>4, <1>5 DEF ChunksGood, all, ws

\* The chunk that is taken for a capture is of this capture.
LEMMA ChunkIsOfCapture ==
  ASSUME BatchInv, NEW e, GroupGood(jobs, options, e.jobs),
         NEW c \in Captures(jobs), c[1] \in Members(e.jobs)
  PROVE  Chunk(e, Position(e, c[1]), c[2], c[3]) = [of |-> c, from |-> e.from, to |-> e.to]
<1> DEFINE k == Position(e, c[1])
           group == MembersOf(jobs, e.jobs)
<1>1. jobs \in Seq(Payloads) /\ Adjacent(jobs, e.jobs) /\ IsGroup(jobs)
  BY DEF BatchInv, GroupGood, IsGroup
<1>2. k \in 1..Len(e.jobs) /\ e.jobs[k] = c[1]
  <2>1. \E l \in 1..Len(e.jobs) : e.jobs[l] = c[1]
    BY DEF Members
  <2> QED
    BY <2>1 DEF Position
<1>3. IsGroup(group) /\ Len(group) = Len(e.jobs) /\ group[k] = jobs[c[1]]
  BY <1>1, <1>2, GroupOfBatch
<1>4. /\ c = <<c[1], c[2], c[3]>> /\ c[2] \in AliasesOf(jobs[c[1]])
      /\ c[3] \in 1..Len(jobs[c[1]].caps[c[2]])
  BY <1>1, CaptureMembers
<1> HIDE DEF k, group
<1>5. WindowOf(group, c[2], ExecutionIndex(group, k, c[2], c[3])) = <<k, c[2], c[3]>>
  BY <1>2, <1>3, <1>4, WindowFound
<1>6. Original(e, <<k, c[2], c[3]>>) = c
  BY <1>2, <1>4 DEF Original
<1> QED
  BY <1>5, <1>6, PayloadsAreMembers DEF Chunk, k, group

\* Taking the captures of an execution keeps every job's in order.
LEMMA RunKeepsOrder ==
  ASSUME PlanningInv, Run
  PROVE  AssemblyInv'
<1> DEFINE e == Execution
           R == [of : Captures(jobs), from : Nat, to : Nat]
           taken == Members(e.jobs)
<1>1. /\ stage = "run" /\ stage' = stage /\ completed < Len(plan) /\ completed' = completed + 1
      /\ jobs' = jobs /\ \A j \in taken : received[j] = e.from
      /\ chunks' = [c \in Captures(jobs) |->
                      IF c[1] \in taken
                      THEN Append(chunks[c], Chunk(e, Position(e, c[1]), c[2], c[3]))
                      ELSE chunks[c]]
      /\ received' = [j \in Indices |-> IF j \in taken THEN e.to ELSE received[j]]
      /\ weights' = [j \in Indices |-> IF j \in taken THEN Append(weights[j], e.to - e.from)
                                       ELSE weights[j]]
  BY DEF Run, Weight
<1>2. /\ completed \in Nat /\ received \in [Indices -> Nat] /\ weights \in [Indices -> Seq(Nat)]
      /\ chunks \in [Captures(jobs) -> Seq(R)]
      /\ \A c \in Captures(jobs) : ChunksGood(c, chunks[c], weights[c[1]], received[c[1]])
  BY DEF PlanningInv, AssemblyInv
<1>3. ExecutionGood(jobs, options, e)
  <2>1. Len(plan) \in Nat
    BY DEF PlanningInv, PlanInv
  <2>2. completed + 1 \in 1..Len(plan)
    BY <1>1, <1>2, <2>1
  <2> QED
    BY <2>2 DEF PlanningInv, PlanInv, Execution
<1> HIDE DEF e
<1>4. GroupGood(jobs, options, e.jobs) /\ e.from \in Nat /\ e.to \in Nat /\ e.to - e.from \in Nat
  <2>1. GroupGood(jobs, options, e.jobs) /\ e.from \in Nat /\ e.to \in Nat /\ e.from < e.to
    BY <1>3 DEF ExecutionGood
  <2> QED
    BY <2>1
<1>5. IsGroup(jobs) /\ \A c \in Captures(jobs) : c[1] \in Indices
  <2>1. IsGroup(jobs)
    BY DEF PlanningInv, BatchInv, IsGroup
  <2> QED
    BY <2>1, CaptureMembers DEF Indices
<1>6. \A c \in Captures(jobs) : c[1] \in taken =>
         Chunk(e, Position(e, c[1]), c[2], c[3]) = [of |-> c, from |-> e.from, to |-> e.to]
  BY <1>4, ChunkIsOfCapture DEF PlanningInv
<1> HIDE DEF taken
<1>7. chunks' = [c \in Captures(jobs) |->
                   IF c[1] \in taken
                   THEN Append(chunks[c], [of |-> c, from |-> e.from, to |-> e.to])
                   ELSE chunks[c]]
  BY <1>1, <1>6
<1>8. \A c \in Captures(jobs) : [of |-> c, from |-> e.from, to |-> e.to] \in R
  BY <1>4
<1> HIDE DEF R
<1>9. chunks' \in [Captures(jobs) -> Seq(R)]
  BY <1>2, <1>7, <1>8
<1>10. received' \in [Indices -> Nat] /\ weights' \in [Indices -> Seq(Nat)]
  BY <1>1, <1>2, <1>4
<1>11. ASSUME NEW c \in Captures(jobs)
       PROVE  ChunksGood(c, chunks'[c], weights'[c[1]], received'[c[1]])
  <2>1. c[1] \in Indices /\ ChunksGood(c, chunks[c], weights[c[1]], received[c[1]])
    BY <1>2, <1>5
  <2>2. CASE c[1] \in taken
    <3> DEFINE chunk == [of |-> c, from |-> e.from, to |-> e.to]
    <3>1. /\ chunks'[c] = Append(chunks[c], chunk) /\ received'[c[1]] = e.to
          /\ weights'[c[1]] = Append(weights[c[1]], e.to - e.from)
          /\ received[c[1]] = e.from
      BY <1>1, <1>7, <2>1, <2>2
    <3>2. chunk \in R /\ chunk.of = c /\ chunk.from = e.from /\ chunk.to = e.to
      BY <1>8
    <3> HIDE DEF chunk
    <3>3. chunks[c] \in Seq(R) /\ weights[c[1]] \in Seq(Nat)
      BY <1>2, <2>1
    <3>4. ChunksGood(c, Append(chunks[c], chunk), Append(weights[c[1]], e.to - e.from), chunk.to)
      BY <1>4, <2>1, <3>1, <3>2, <3>3, ChunkFollows
    <3> QED
      BY <3>1, <3>2, <3>4
  <2>3. CASE c[1] \notin taken
    <3>1. /\ chunks'[c] = chunks[c] /\ received'[c[1]] = received[c[1]]
          /\ weights'[c[1]] = weights[c[1]]
      BY <1>1, <1>7, <2>1, <2>3
    <3> QED
      BY <2>1, <3>1
  <2> QED
    BY <2>2, <2>3
<1>12. Captures(jobs)' = Captures(jobs) /\ Indices' = Indices /\ completed' \in Nat
  BY <1>1, <1>2 DEF Indices
<1> QED
  BY <1>1, <1>9, <1>10, <1>11, <1>12 DEF AssemblyInv, R

LEMMA AssemblyStep == PlanningInv /\ [Next]_vars => AssemblyInv'
<1> SUFFICES ASSUME PlanningInv, [Next]_vars PROVE AssemblyInv'
  OBVIOUS
<1> USE DEF PlanningInv, AssemblyInv, Indices
<1>1. CASE Refuse
  BY <1>1 DEF Refuse, assembly
<1>2. CASE Pack
  BY <1>2 DEF Pack, Grouping, assembly
<1>3. CASE StartGroup
  BY <1>3 DEF StartGroup, Grouping, assembly
<1>4. CASE Grouped
  BY <1>4 DEF Grouped, assembly
<1>5. CASE Split
  BY <1>5 DEF Split, assembly
<1>6. CASE StartRunning
  BY <1>6 DEF StartRunning, assembly
<1>7. CASE Run
  BY <1>7, RunKeepsOrder
<1>8. CASE Finish
  BY <1>8 DEF Finish, assembly
<1>9. CASE UNCHANGED vars
  BY <1>9 DEF vars
<1> QED
  BY <1>1, <1>2, <1>3, <1>4, <1>5, <1>6, <1>7, <1>8, <1>9 DEF Next, Terminated

-----------------------------------------------------------------------------
(* Results.                                                                  *)

\* The invariant holds in every state: groups are adjacent jobs that share an
\* execution within the limits, a split continues where it stopped, and the
\* chunks of a capture follow one another.
THEOREM PlanningInductive == Spec => []PlanningInv
<1>1. PlanningInv /\ [Next]_vars => PlanningInv'
  <2> SUFFICES ASSUME PlanningInv, [Next]_vars PROVE PlanningInv'
    OBVIOUS
  <2>1. BatchInv'
    BY BatchStays DEF PlanningInv, BatchInv
  <2> QED
    BY <2>1, GroupsStep, PlanStep, AssemblyStep DEF PlanningInv
<1> QED
  BY <1>1, PlanningStarts, PTL DEF Spec

\* An execution is good, whichever it is.
LEMMA ExecutionsGood ==
  ASSUME PlanningInv, NEW e \in Executions
  PROVE  /\ ExecutionGood(jobs, options, e) /\ options \in OptionSets
         /\ PayloadsOf(e.jobs) = MembersOf(jobs, e.jobs)
         /\ IsGroup(PayloadsOf(e.jobs)) /\ Len(PayloadsOf(e.jobs)) = Len(e.jobs)
<1>1. ExecutionGood(jobs, options, e) /\ options \in OptionSets /\ jobs \in Seq(Payloads)
  BY DEF PlanningInv, PlanInv, BatchInv, Executions
<1>2. PayloadsOf(e.jobs) = MembersOf(jobs, e.jobs)
  BY PayloadsAreMembers
<1>3. Adjacent(jobs, e.jobs)
  BY <1>1 DEF ExecutionGood, GroupGood
<1> QED
  BY <1>1, <1>2, <1>3, GroupOfBatch

\* Every execution is within each limit and its jobs are placed on the grid of
\* each, one after another with the shot interval between them: the smallest
\* quotient (planner.py) is safe for the sums that the limits are about.
THEOREM PlansFit == Spec => []ExecutionsFit
<1>1. PlanningInv => ExecutionsFit
  <2> SUFFICES ASSUME PlanningInv, NEW e \in Executions
               PROVE  LET group == PayloadsOf(e.jobs)
                          last == Len(group)
                      IN /\ \A a \in DOMAIN ReceiverOf :
                              SumFunction([k \in 1..last |-> IF a \in AliasesOf(group[k])
                                              THEN group[k].wave[a] ELSE 0]) <= options.waveform
                         /\ \A r \in Receivers(group) :
                              Captured(group, r) * Shots(e) <= options.capture
                         /\ Returned(group, Shots(e)) <= options.returned
                         /\ (e.starts[last] + group[last].dur + Conditions(group).interval)
                              * Shots(e) <= options.duration
                         /\ \A k \in 1..last :
                              /\ k > 1 => e.starts[k] >= e.starts[k - 1] + group[k - 1].dur
                                                            + group[k].interval
                              /\ \A l \in 1..last : e.starts[k] % group[l].grid = 0
    BY DEF ExecutionsFit
  <2> DEFINE group == PayloadsOf(e.jobs)
             s == Shots(e)
  <2>1. /\ IsGroup(group) /\ options \in OptionSets /\ Shareable(options, group)
        /\ e.starts = Starts(group)
        /\ s \in Nat \ {0} /\ s <= ShotLimit(group, options)
    <3>1. /\ IsGroup(group) /\ options \in OptionSets /\ Shareable(options, group)
          /\ e.starts = Starts(group)
      BY ExecutionsGood DEF ExecutionGood, GroupGood
    <3>2. e.from \in Nat /\ e.to \in Nat /\ e.from < e.to /\ e.to - e.from <= ShotLimit(group, options)
      BY ExecutionsGood DEF ExecutionGood
    <3> QED
      BY <3>1, <3>2 DEF Shots
  <2> HIDE DEF group, s
  <2>2. Fits(group, options, s) /\ Compatible(group)
    BY <2>1, LimitFits DEF Shareable
  <2>3. options.waveform \in Nat
    BY <2>1, OptionsAssumption
  <2>4. ASSUME NEW a
        PROVE  Waveforms(group, a) <= options.waveform
    <3>1. CASE \E k \in 1..Len(group) : a \in AliasesOf(group[k])
      BY <2>2, <3>1 DEF Fits
    <3>2. CASE \A k \in 1..Len(group) : a \notin AliasesOf(group[k])
      <4>1. Waveforms(group, a) = 0
        BY <2>1, <3>2, WaveformsJobByJob
      <4> QED
        BY <2>3, <4>1
    <3> QED
      BY <3>1, <3>2
  <2>5. ASSUME NEW a
        PROVE  SumFunction([k \in 1..Len(group) |-> IF a \in AliasesOf(group[k])
                                THEN group[k].wave[a] ELSE 0]) <= options.waveform
    BY <2>1, <2>4, WaveformsJobByJob
  <2>6. ASSUME NEW k \in 1..Len(group)
        PROVE  /\ k > 1 => e.starts[k] >= e.starts[k - 1] + group[k - 1].dur + group[k].interval
               /\ \A l \in 1..Len(group) : e.starts[k] % group[l].grid = 0
    <3>1. 1 \in 1..Len(group)
      BY <2>1, MemberFacts
    <3>2. group[k].interval = Conditions(group).interval
      BY <2>2, <3>1 DEF Compatible, Agree, Conditions
    <3>3. /\ e.starts[k] \in Nat /\ e.starts[k] % Grid(group) = 0
          /\ k > 1 => e.starts[k] >= e.starts[k - 1] + group[k - 1].dur + Conditions(group).interval
      BY <2>1, StartsFacts
    <3>4. \A l \in 1..Len(group) : e.starts[k] % group[l].grid = 0
      <4> SUFFICES ASSUME NEW l \in 1..Len(group) PROVE e.starts[k] % group[l].grid = 0
        OBVIOUS
      <4>1. /\ Grid(group) \in Nat \ {0} /\ Grid(group) % group[l].grid = 0
            /\ group[l].grid \in Nat \ {0}
        BY <2>1, GridFacts, MemberFacts
      <4> QED
        BY <3>3, <4>1, MultipleOfMultiple
    <3> QED
      BY <3>2, <3>3, <3>4
  <2>7. (e.starts[Len(group)] + group[Len(group)].dur + Conditions(group).interval) * s
           <= options.duration
    BY <2>1, <2>2 DEF Fits, ShotDuration
  <2> QED
    BY <2>2, <2>5, <2>6, <2>7 DEF group, s, Fits
<1> QED
  BY <1>1, PlanningInductive, PTL

\* Only a job on its own is split, and into the fewest executions: an execution
\* that another of its job follows could not have taken one shot more.
THEOREM SplitsAreNeeded == Spec => []SplitsOnlyOversized
<1>1. PlanningInv => SplitsOnlyOversized
  <2> SUFFICES ASSUME PlanningInv, NEW e \in Executions,
                      Shots(e) < Conditions(PayloadsOf(e.jobs)).n
               PROVE  /\ Len(PayloadsOf(e.jobs)) = 1
                      /\ e.to < Conditions(PayloadsOf(e.jobs)).n
                            => ~Fits(PayloadsOf(e.jobs), options, Shots(e) + 1)
    BY DEF SplitsOnlyOversized
  <2> DEFINE group == PayloadsOf(e.jobs)
  <2>1. /\ IsGroup(group) /\ Len(group) = Len(e.jobs) /\ options \in OptionSets
        /\ e.to - e.from < Conditions(group).n => Len(e.jobs) = 1
        /\ e.to < Conditions(group).n => e.to - e.from = ShotLimit(group, options)
    BY ExecutionsGood DEF ExecutionGood
  <2> HIDE DEF group
  <2>2. Len(group) = 1
    BY <2>1 DEF Shots, group
  <2>3. ASSUME e.to < Conditions(group).n
        PROVE  ~Fits(group, options, Shots(e) + 1)
    <3>1. Shots(e) = ShotLimit(group, options) /\ ShotLimit(group, options) < Conditions(group).n
      BY <2>1, <2>3 DEF Shots, group
    <3> QED
      BY <2>1, <3>1, LimitIsTight
  <2> QED
    BY <2>2, <2>3 DEF group
<1> QED
  BY <1>1, PlanningInductive, PTL

\* When the assembler is done, every job has each of its captures of all its
\* shots, once and in order, and each execution's weight is its number of shots.
THEOREM ResultsComeBack == Spec => []ResultsRestored
<1>1. PlanningInv => ResultsRestored
  <2> SUFFICES ASSUME PlanningInv, stage = "done", NEW c \in Captures(jobs)
               PROVE  LET got == chunks[c]
                      IN /\ got # <<>> /\ got[1].from = 0 /\ got[Len(got)].to = jobs[c[1]].n
                         /\ Len(weights[c[1]]) = Len(got)
                         /\ \A k \in 1..Len(got) :
                               /\ got[k].of = c
                               /\ k > 1 => got[k].from = got[k - 1].to
                               /\ weights[c[1]][k] = got[k].to - got[k].from
    BY DEF ResultsRestored
  <2>1. IsGroup(jobs) /\ c[1] \in Indices
    <3>1. IsGroup(jobs)
      BY DEF PlanningInv, BatchInv, IsGroup
    <3> QED
      BY <3>1, CaptureMembers DEF Indices
  <2>2. /\ ChunksGood(c, chunks[c], weights[c[1]], received[c[1]])
        /\ received[c[1]] = jobs[c[1]].n
    BY <2>1 DEF PlanningInv, AssemblyInv
  <2>3. jobs[c[1]].n \in Nat \ {0}
    BY <2>1, MemberFacts DEF Indices
  <2>4. chunks[c] # <<>>
    BY <2>2, <2>3 DEF ChunksGood
  <2> QED
    BY <2>2, <2>4 DEF ChunksGood
<1> QED
  BY <1>1, PlanningInductive, PTL

-----------------------------------------------------------------------------
(* A planned batch is run: the plan covers every shot of every job in order,  *)
(* so that nothing in split, add and finish raises.                          *)

End(g) == g[Len(g)]
ShotsOf(b, g) == b[g[1]].n

\* An execution goes on with the group of the one before it, or begins the next.
Follows(b, e, f) ==
    \/ f.jobs = e.jobs /\ f.from = e.to
    \/ f.from = 0 /\ e.to = ShotsOf(b, e.jobs) /\ f.jobs[1] = End(e.jobs) + 1

CoverInv ==
    /\ \A k \in 1..Len(plan) :
          IF k = 1 THEN plan[k].from = 0 /\ plan[k].jobs[1] = 1
          ELSE Follows(jobs, plan[k - 1], plan[k])
    /\ \A k \in 1..Len(groups) : k > 1 => groups[k][1] = End(groups[k - 1]) + 1
    /\ groups # <<>> =>
          IF plan = <<>> THEN groups[1][1] = 1
          ELSE LET e == plan[Len(plan)]
               IN \/ e.jobs = groups[1]
                  \/ e.to = ShotsOf(jobs, e.jobs) /\ groups[1][1] = End(e.jobs) + 1
    /\ (stage = "group" /\ current # <<>>) =>
          current[1] = IF groups = <<>> THEN 1 ELSE End(groups[Len(groups)]) + 1
    /\ (stage = "split" /\ groups # <<>>) => End(groups[Len(groups)]) = Len(jobs)
    /\ (stage = "run" \/ (stage = "split" /\ groups = <<>>)) =>
          /\ plan # <<>>
          /\ plan[Len(plan)].to = ShotsOf(jobs, plan[Len(plan)].jobs)
          /\ End(plan[Len(plan)].jobs) = Len(jobs)

\* What each job has received when the first executions were run.
FilledInv ==
    /\ stage \notin {"run", "done"} => completed = 0
    /\ completed <= Len(plan)
    /\ completed = 0 => \A j \in Indices : received[j] = 0
    /\ completed > 0 =>
          LET e == plan[completed]
          IN \A j \in Indices :
                received[j] = IF j < e.jobs[1] THEN jobs[j].n
                              ELSE IF j <= End(e.jobs) THEN e.to ELSE 0

\* The jobs of a group lie between its first and its last.
LEMMA AdjacentMembers ==
  ASSUME NEW b \in Seq(Payloads), NEW g, Adjacent(b, g)
  PROVE  /\ g[1] \in 1..Len(b) /\ End(g) \in 1..Len(b) /\ g[1] <= End(g)
         /\ \A j \in 1..Len(b) : j \in Members(g) <=> (g[1] <= j /\ j <= End(g))
<1>1. g \in Seq(1..Len(b)) /\ Len(g) \in Nat \ {0} /\ Len(b) \in Nat
  BY DEF Adjacent
<1>2. 1 \in 1..Len(g) /\ Len(g) \in 1..Len(g)
  BY <1>1
<1>3. /\ g[1] \in 1..Len(b) /\ End(g) \in 1..Len(b) /\ End(g) = g[1] + Len(g) - 1
      /\ \A k \in 1..Len(g) : g[k] = g[1] + k - 1
  <2>1. \A k \in 1..Len(g) : g[k] = g[1] + k - 1
    BY DEF Adjacent
  <2>2. g[1] \in 1..Len(b) /\ g[Len(g)] \in 1..Len(b)
    BY <1>1, <1>2
  <2>3. g[Len(g)] = g[1] + Len(g) - 1
    BY <1>2, <2>1
  <2> QED
    BY <2>1, <2>2, <2>3 DEF End
<1>4. ASSUME NEW j \in 1..Len(b)
      PROVE  j \in Members(g) <=> (g[1] <= j /\ j <= End(g))
  <2>1. ASSUME j \in Members(g)
        PROVE  g[1] <= j /\ j <= End(g)
    <3>1. PICK k \in 1..Len(g) : j = g[k]
      BY <2>1 DEF Members
    <3>2. j = g[1] + k - 1
      BY <1>3, <3>1
    <3> QED
      BY <1>1, <1>3, <3>2
  <2>2. ASSUME g[1] <= j, j <= End(g)
        PROVE  j \in Members(g)
    <3> DEFINE k == j - g[1] + 1
    <3>1. k \in 1..Len(g) /\ j = g[1] + k - 1
      BY <1>1, <1>3, <2>2
    <3> HIDE DEF k
    <3>2. g[k] = j
      BY <1>3, <3>1
    <3> QED
      BY <3>1, <3>2 DEF Members
  <2> QED
    BY <2>1, <2>2
<1>5. g[1] <= End(g)
  BY <1>1, <1>3
<1> QED
  BY <1>3, <1>4, <1>5

\* Compatible jobs have the same number of shots.
LEMMA SameShots ==
  ASSUME NEW b \in Seq(Payloads), NEW o, NEW g, GroupGood(b, o, g)
  PROVE  /\ ShotsOf(b, g) = Conditions(MembersOf(b, g)).n
         /\ \A j \in Members(g) : b[j].n = ShotsOf(b, g)
<1>1. Adjacent(b, g) /\ Compatible(MembersOf(b, g))
  BY DEF GroupGood, Shareable
<1>2. /\ Len(MembersOf(b, g)) = Len(g) /\ Len(g) \in Nat \ {0}
      /\ \A k \in 1..Len(g) : MembersOf(b, g)[k] = b[g[k]]
      /\ Conditions(MembersOf(b, g)) = b[g[1]]
  BY <1>1, GroupOfBatch
<1>3. \A k \in 1..Len(g) : b[g[k]].n = b[g[1]].n
  <2> SUFFICES ASSUME NEW k \in 1..Len(g) PROVE b[g[k]].n = b[g[1]].n
    OBVIOUS
  <2>1. 1 \in 1..Len(g)
    BY <1>2
  <2>2. Agree(MembersOf(b, g)[k], MembersOf(b, g)[1])
    BY <1>1, <1>2, <2>1 DEF Compatible
  <2> QED
    BY <1>2, <2>1, <2>2 DEF Agree
<1> QED
  BY <1>2, <1>3 DEF Members, ShotsOf

\* A group that fits with one shot has a positive limit.
LEMMA LimitPositive ==
  ASSUME NEW group, IsGroup(group), NEW o \in OptionSets, Fits(group, o, 1)
  PROVE  ShotLimit(group, o) > 0
<1> DEFINE L == ShotLimit(group, o)
<1>1. o.duration \in Nat /\ o.capture \in Nat /\ o.returned \in Nat
  BY OptionsAssumption
<1>2. L \in Nat /\ L \in Quotients(group, o) /\ Conditions(group).n \in Nat \ {0}
  <2>1. 1 \in 1..Len(group)
    BY MemberFacts
  <2> QED
    BY <2>1, QuotientsNatural, MemberFacts DEF Conditions
<1>3. ASSUME NEW d \in Nat \ {0}, NEW limit \in Nat, d <= limit
      PROVE  limit \div d # 0
  <2>1. d * ((limit \div d) + 1) > limit
    BY QuotientIsLimit
  <2>2. d * (0 + 1) = d
    OBVIOUS
  <2> QED
    BY <1>3, <2>1, <2>2
<1>4. ShotDuration(group) \in Nat \ {0} /\ ShotDuration(group) <= o.duration
  <2>1. ShotDuration(group) \in Nat \ {0} /\ ShotDuration(group) * 1 <= o.duration
    BY ShotDurationPositive DEF Fits
  <2> QED
    BY <2>1
<1>5. \A r \in Receivers(group) : Captured(group, r) \in Nat \ {0} /\ Captured(group, r) <= o.capture
  <2> SUFFICES ASSUME NEW r \in Receivers(group)
               PROVE  Captured(group, r) \in Nat \ {0} /\ Captured(group, r) <= o.capture
    OBVIOUS
  <2>1. Captured(group, r) \in Nat \ {0} /\ Captured(group, r) * 1 <= o.capture
    BY CapturedFacts DEF Fits
  <2> QED
    BY <2>1
<1>6. Returned(group, 1) \in Nat /\ Returned(group, 1) <= o.returned
  BY CapturedFacts DEF Fits
<1>7. CASE L = Conditions(group).n
  BY <1>2, <1>7
<1>8. CASE L = o.duration \div ShotDuration(group)
  BY <1>1, <1>2, <1>3, <1>4, <1>8
<1>9. ASSUME NEW r \in Receivers(group), L = o.capture \div Captured(group, r)
      PROVE  L > 0
  BY <1>1, <1>2, <1>3, <1>5, <1>9
<1>10. CASE Returned(group, 1) > 0 /\ L = o.returned \div Returned(group, 1)
  BY <1>1, <1>2, <1>3, <1>6, <1>10
<1> QED
  BY <1>2, <1>7, <1>8, <1>9, <1>10 DEF Quotients

\* The group that is put aside goes on where the last one ended.
LEMMA AsideCovers ==
  ASSUME PlanningInv, CoverInv, stage = "group", current # <<>>
  PROVE  LET all == Append(groups, current)
         IN /\ Len(all) = Len(groups) + 1 /\ all # <<>> /\ all[Len(all)] = current
            /\ \A k \in 1..Len(all) : k > 1 => all[k][1] = End(all[k - 1]) + 1
            /\ all[1][1] = 1
<1> DEFINE all == Append(groups, current)
           n == Len(groups)
<1>1. groups \in Seq(Seq(Nat)) /\ current \in Seq(Nat) /\ n \in Nat
  BY DEF PlanningInv, GroupsInv
<1>2. /\ Len(all) = n + 1 /\ all[n + 1] = current /\ all # <<>>
      /\ \A k \in 1..n : all[k] = groups[k]
  <2>1. /\ Len(all) = n + 1 /\ all[n + 1] = current
        /\ \A k \in 1..n : all[k] = groups[k]
    BY <1>1
  <2> HIDE DEF all, n
  <2>2. all # <<>>
    <3>1. Len(<<>>) = 0 /\ Len(all) # 0
      BY <1>1, <2>1
    <3> QED
      BY <3>1
  <2> QED
    BY <2>1, <2>2
<1> HIDE DEF all
<1>3. current[1] = IF groups = <<>> THEN 1 ELSE End(groups[n]) + 1
  BY DEF CoverInv
<1>4. groups = <<>> <=> n = 0
  BY <1>1, EmptySeq
<1>5. ASSUME NEW k \in 1..(n + 1), k > 1
      PROVE  all[k][1] = End(all[k - 1]) + 1
  <2>1. k - 1 \in 1..n
    BY <1>1, <1>5
  <2>2. CASE k \in 1..n
    <3>1. groups[k][1] = End(groups[k - 1]) + 1
      BY <1>5, <2>2 DEF CoverInv
    <3> QED
      BY <1>2, <2>1, <2>2, <3>1
  <2>3. CASE k = n + 1
    BY <1>2, <1>3, <1>4, <2>1, <2>3
  <2> QED
    BY <1>1, <2>2, <2>3
<1>6. all[1][1] = 1
  <2>1. CASE n = 0
    BY <1>2, <1>3, <1>4, <2>1
  <2>2. CASE n # 0
    <3>1. 1 \in 1..n /\ groups # <<>>
      BY <1>1, <1>4, <2>2
    <3>2. plan = <<>>
      BY DEF PlanningInv, PlanInv
    <3> QED
      BY <1>2, <3>1, <3>2 DEF CoverInv
  <2> QED
    BY <2>1, <2>2
<1> QED
  BY <1>1, <1>2, <1>5, <1>6 DEF all

\* Packing the groups leaves out no job.
LEMMA GroupingCovers ==
  ASSUME PlanningInv, CoverInv, Pack \/ StartGroup \/ Grouped
  PROVE  CoverInv'
<1>1. /\ stage = "group" /\ plan = <<>> /\ plan' = plan /\ jobs' = jobs /\ jobs \in Seq(Payloads)
      /\ Len(jobs) \in Nat \ {0}
  <2>1. stage = "group" /\ plan' = plan /\ jobs' = jobs
    BY DEF Pack, StartGroup, Grouped, Grouping
  <2>2. jobs \in Seq(Payloads) /\ Len(jobs) \in Nat \ {0}
    BY DEF PlanningInv, BatchInv
  <2> QED
    BY <2>1, <2>2 DEF PlanningInv, PlanInv
<1>2. current # <<>> => Adjacent(jobs, current) /\ NextJob = End(current) + 1
  BY DEF PlanningInv, GroupsInv, GroupGood, NextJob, End
<1>3. 1..Len(plan) = {}
  BY <1>1
<1>4. CASE Pack
  <2>1. current # <<>> /\ current' = Append(current, NextJob) /\ groups' = groups /\ stage' = stage
    BY <1>4 DEF Pack
  <2>2. current'[1] = current[1]
    <3>1. current \in Seq(Nat) /\ Len(current) \in Nat \ {0}
      BY <2>1 DEF PlanningInv, GroupsInv
    <3> QED
      BY <2>1, <3>1
  <2> QED
    BY <1>1, <1>3, <2>1, <2>2 DEF CoverInv
<1>5. CASE StartGroup /\ current = <<>>
  <2>1. groups = <<>> /\ groups' = groups /\ stage' = stage /\ current' = <<1>>
    BY <1>1, <1>5 DEF StartGroup, PlanningInv, GroupsInv, NextJob
  <2> QED
    BY <1>1, <1>3, <2>1 DEF CoverInv
<1>6. CASE current # <<>> /\ (StartGroup \/ Grouped)
  <2> DEFINE all == Append(groups, current)
  <2>1. /\ groups' = all
        /\ \/ stage' = "group" /\ current' = <<NextJob>>
           \/ stage' = "split" /\ NextJob > Len(jobs)
    BY <1>1, <1>6 DEF StartGroup, Grouped
  <2>2. /\ Len(all) = Len(groups) + 1 /\ all # <<>> /\ all[Len(all)] = current
        /\ \A k \in 1..Len(all) : k > 1 => all[k][1] = End(all[k - 1]) + 1
        /\ all[1][1] = 1
    BY <1>1, <1>6, AsideCovers
  <2> HIDE DEF all
  <2>3. CASE stage' = "group" /\ current' = <<NextJob>>
    <3>1. current'[1] = End(current) + 1
      BY <1>2, <1>6, <2>3
    <3> QED
      BY <1>1, <1>3, <2>1, <2>2, <2>3, <3>1 DEF CoverInv
  <2>4. CASE stage' = "split" /\ NextJob > Len(jobs)
    <3>1. End(current) \in 1..Len(jobs)
      BY <1>1, <1>2, <1>6, AdjacentMembers
    <3>2. End(current) = Len(jobs)
      BY <1>1, <1>2, <1>6, <2>4, <3>1
    <3> QED
      BY <1>1, <1>3, <2>1, <2>2, <2>4, <3>2 DEF CoverInv
  <2> QED
    BY <2>1, <2>3, <2>4
<1>7. CASE Grouped /\ current = <<>>
  BY <1>1, <1>7 DEF Grouped, NextJob
<1> QED
  BY <1>4, <1>5, <1>6, <1>7

\* Nor does splitting them.
LEMMA SplitCovers ==
  ASSUME PlanningInv, CoverInv, Split
  PROVE  CoverInv'
<1> DEFINE R == [jobs : Seq(Nat), starts : Seq(Nat), from : Nat, to : Nat]
           g == groups[1]
           n == Conditions(MembersOf(jobs, g)).n
           e == plan'[Len(plan')]
           m == Len(plan)
           to == Min({Planned + ShotLimit(PayloadsOf(g), options), n})
           starts == Starts(PayloadsOf(g))
<1>1. /\ stage = "split" /\ stage' = stage /\ groups # <<>> /\ jobs' = jobs
      /\ plan' = Append(plan, [jobs |-> g, starts |-> starts, from |-> Planned, to |-> to])
      /\ groups' = IF to = n THEN Tail(groups) ELSE groups
  BY PayloadsAreMembers DEF Split
<1> HIDE DEF to, starts
<1>2. /\ groups \in Seq(Seq(Nat)) /\ Len(groups) \in Nat \ {0} /\ 1 \in 1..Len(groups)
      /\ GroupGood(jobs, options, g) /\ jobs \in Seq(Payloads) /\ plan \in Seq(R) /\ m \in Nat
  <2>1. groups \in Seq(Seq(Nat)) /\ jobs \in Seq(Payloads) /\ plan \in Seq(R)
    BY DEF PlanningInv, GroupsInv, BatchInv, PlanInv
  <2>2. Len(groups) \in Nat \ {0} /\ 1 \in 1..Len(groups) /\ m \in Nat
    BY <1>1, <2>1
  <2> QED
    BY <2>1, <2>2 DEF PlanningInv, GroupsInv
<1>3. n = ShotsOf(jobs, g)
  BY <1>2, SameShots
<1>4. /\ Len(plan') = m + 1 /\ e.jobs = g /\ e.from = Planned /\ e.to = to
      /\ \A k \in 1..m : plan'[k] = plan[k]
      /\ plan' # <<>>
  <2> DEFINE x == [jobs |-> g, starts |-> starts, from |-> Planned, to |-> to]
  <2>1. x.jobs = g /\ x.from = Planned /\ x.to = to /\ plan' = Append(plan, x)
    BY <1>1
  <2> HIDE DEF x, R
  <2>2. Len(plan') = m + 1 /\ plan'[m + 1] = x /\ \A k \in 1..m : plan'[k] = plan[k]
    BY <1>2, <2>1
  <2> HIDE DEF m
  <2>3. plan' # <<>>
    <3>1. Len(<<>>) = 0 /\ Len(plan') # 0
      BY <1>2, <2>2
    <3> QED
      BY <3>1
  <2> QED
    BY <2>1, <2>2, <2>3
<1>5. plan = <<>> <=> m = 0
  BY <1>2, EmptySeq
<1> HIDE DEF n, e, R
<1>6. IF plan = <<>> THEN e.from = 0 /\ g[1] = 1
      ELSE Follows(jobs, plan[m], e)
  <2>1. CASE plan = <<>>
    <3>1. Planned = 0 /\ g[1] = 1
      BY <1>1, <2>1 DEF Planned, CoverInv
    <3> QED
      BY <1>4, <2>1, <3>1
  <2>2. CASE plan # <<>> /\ plan[m].jobs = g
    <3>1. Planned = plan[m].to
      BY <2>2 DEF Planned
    <3> QED
      BY <1>4, <2>2, <3>1 DEF Follows
  <2>3. CASE plan # <<>> /\ plan[m].jobs # g
    <3>1. Planned = 0 /\ plan[m].to = ShotsOf(jobs, plan[m].jobs) /\ g[1] = End(plan[m].jobs) + 1
      BY <1>1, <2>3 DEF Planned, CoverInv
    <3> QED
      BY <1>4, <2>3, <3>1 DEF Follows
  <2> QED
    BY <2>1, <2>2, <2>3
<1>7. \A k \in 1..(m + 1) : IF k = 1 THEN plan'[k].from = 0 /\ plan'[k].jobs[1] = 1
                            ELSE Follows(jobs, plan'[k - 1], plan'[k])
  <2> SUFFICES ASSUME NEW k \in 1..(m + 1)
               PROVE  IF k = 1 THEN plan'[k].from = 0 /\ plan'[k].jobs[1] = 1
                      ELSE Follows(jobs, plan'[k - 1], plan'[k])
    OBVIOUS
  <2>1. CASE k \in 1..m
    <3>1. k # 1 => k - 1 \in 1..m
      BY <1>2, <2>1
    <3>2. IF k = 1 THEN plan[k].from = 0 /\ plan[k].jobs[1] = 1
          ELSE Follows(jobs, plan[k - 1], plan[k])
      BY <2>1 DEF CoverInv
    <3>3. plan'[k] = plan[k] /\ (k # 1 => plan'[k - 1] = plan[k - 1])
      BY <1>4, <2>1, <3>1
    <3> QED
      BY <3>2, <3>3
  <2>2. CASE k = m + 1
    <3>1. plan'[k] = e
      BY <1>4, <2>2 DEF e
    <3>2. CASE m = 0
      BY <1>4, <1>5, <1>6, <2>2, <3>1, <3>2
    <3>3. CASE m # 0
      <4>1. m \in 1..m /\ k # 1 /\ k - 1 = m
        BY <1>2, <2>2, <3>3
      <4> QED
        BY <1>4, <1>5, <1>6, <3>1, <3>3, <4>1
    <3> QED
      BY <3>2, <3>3
  <2> QED
    BY <1>2, <2>1, <2>2
<1>8. \A k \in 1..Len(groups) : k > 1 => groups[k][1] = End(groups[k - 1]) + 1
  BY DEF CoverInv
<1>9. End(groups[Len(groups)]) = Len(jobs)
  BY <1>1 DEF CoverInv
<1>10. CASE to # n
  <2>1. groups' = groups
    BY <1>1, <1>10
  <2>2. e.jobs = groups'[1]
    BY <1>4, <2>1
  <2> QED
    BY <1>1, <1>4, <1>7, <1>8, <1>9, <2>1, <2>2 DEF CoverInv, e
<1>11. CASE to = n
  <2> DEFINE rest == Tail(groups)
             l == Len(rest)
  <2>1. groups' = rest
    BY <1>1, <1>11
  <2>2. /\ l = Len(groups) - 1 /\ rest \in Seq(Seq(Nat))
        /\ \A k \in 1..l : rest[k] = groups[k + 1] /\ k + 1 \in 1..Len(groups)
    BY <1>1, <1>2
  <2> HIDE DEF rest
  <2>3. rest = <<>> <=> l = 0
    BY <2>2, EmptySeq
  <2>4. ASSUME NEW k \in 1..l, k > 1
        PROVE  rest[k][1] = End(rest[k - 1]) + 1
    <3>1. k - 1 \in 1..l /\ k + 1 \in 1..Len(groups) /\ k + 1 > 1 /\ (k + 1) - 1 = k
          /\ (k - 1) + 1 = k
      BY <1>2, <2>2, <2>4
    <3>2. groups[k + 1][1] = End(groups[k]) + 1
      BY <1>8, <3>1
    <3>3. rest[k] = groups[k + 1] /\ rest[k - 1] = groups[k]
      BY <2>2, <3>1
    <3> QED
      BY <3>2, <3>3
  <2>5. e.to = ShotsOf(jobs, e.jobs)
    BY <1>3, <1>4, <1>11
  <2>6. CASE l = 0
    <3>1. Len(groups) = 1
      BY <1>2, <2>2, <2>6
    <3>2. End(e.jobs) = Len(jobs)
      BY <1>4, <1>9, <3>1
    <3>3. rest = <<>> /\ 1..l = {}
      BY <2>3, <2>6
    <3> QED
      BY <1>1, <1>4, <1>7, <2>1, <2>5, <3>2, <3>3 DEF CoverInv, e
  <2>7. CASE l # 0
    <3>1. 1 \in 1..l /\ l \in 1..l /\ rest # <<>> /\ l + 1 = Len(groups)
      BY <1>2, <2>2, <2>3, <2>7
    <3>2. rest[1] = groups[2] /\ rest[l] = groups[Len(groups)] /\ 2 \in 1..Len(groups)
      BY <2>2, <3>1
    <3>3. rest[1][1] = End(e.jobs) + 1
      <4>1. groups[2][1] = End(groups[2 - 1]) + 1
        BY <1>8, <3>2
      <4> QED
        BY <1>4, <3>2, <4>1
    <3>4. End(rest[l]) = Len(jobs)
      BY <1>9, <3>2
    <3> QED
      BY <1>1, <1>4, <1>7, <2>1, <2>4, <2>5, <3>1, <3>3, <3>4 DEF CoverInv, e
  <2> QED
    BY <2>6, <2>7
<1> QED
  BY <1>10, <1>11

LEMMA CoverStep == PlanningInv /\ CoverInv /\ [Next]_vars => CoverInv'
<1> SUFFICES ASSUME PlanningInv, CoverInv, [Next]_vars PROVE CoverInv'
  OBVIOUS
<1>1. CASE Refuse
  BY <1>1 DEF Refuse, planning, CoverInv
<1>2. CASE StartRunning
  BY <1>2 DEF StartRunning, planning, CoverInv
<1>3. CASE Run
  BY <1>3 DEF Run, planning, CoverInv
<1>4. CASE Finish
  BY <1>4 DEF Finish, planning, CoverInv
<1>5. CASE UNCHANGED vars
  BY <1>5 DEF vars, CoverInv
<1> QED
  BY <1>1, <1>2, <1>3, <1>4, <1>5, GroupingCovers, SplitCovers DEF Next, Terminated

\* The next execution is what the jobs wait for, and leaves no gap behind it.
LEMMA NextIsAwaited ==
  ASSUME PlanningInv, CoverInv, FilledInv, completed < Len(plan)
  PROVE  LET e == Execution
         IN /\ Adjacent(jobs, e.jobs)
            /\ \A j \in Indices :
                  received[j] = IF j < e.jobs[1] THEN jobs[j].n
                                ELSE IF j <= End(e.jobs) THEN e.from ELSE 0
<1> DEFINE e == Execution
           p == plan[completed]
<1>1. /\ completed \in Nat /\ Len(plan) \in Nat /\ jobs \in Seq(Payloads)
      /\ completed + 1 \in 1..Len(plan) /\ e = plan[completed + 1]
  <2>1. completed \in Nat /\ Len(plan) \in Nat /\ jobs \in Seq(Payloads)
    BY DEF PlanningInv, AssemblyInv, PlanInv, BatchInv
  <2> QED
    BY <2>1 DEF Execution
<1>2. GroupGood(jobs, options, e.jobs) /\ Adjacent(jobs, e.jobs)
  BY <1>1 DEF PlanningInv, PlanInv, ExecutionGood, GroupGood
<1>3. /\ e.jobs[1] \in 1..Len(jobs) /\ End(e.jobs) \in 1..Len(jobs) /\ e.jobs[1] <= End(e.jobs)
      /\ Len(jobs) \in Nat
  BY <1>1, <1>2, AdjacentMembers
<1> HIDE DEF e
<1>4. CASE completed = 0
  <2>1. e.from = 0 /\ e.jobs[1] = 1
    BY <1>1, <1>4 DEF CoverInv
  <2>2. \A j \in Indices : received[j] = 0 /\ ~(j < e.jobs[1])
    BY <1>4, <2>1 DEF FilledInv, Indices
  <2> QED
    BY <1>2, <2>1, <2>2 DEF e
<1>5. CASE completed # 0
  <2>1. completed \in 1..Len(plan) /\ completed > 0 /\ completed + 1 # 1
        /\ (completed + 1) - 1 = completed
    BY <1>1, <1>5
  <2>2. Follows(jobs, p, e)
    BY <1>1, <2>1 DEF CoverInv
  <2>3. GroupGood(jobs, options, p.jobs) /\ Adjacent(jobs, p.jobs)
    BY <2>1 DEF PlanningInv, PlanInv, ExecutionGood, GroupGood
  <2>4. \A j \in Indices : received[j] = IF j < p.jobs[1] THEN jobs[j].n
                                         ELSE IF j <= End(p.jobs) THEN p.to ELSE 0
    BY <2>1 DEF FilledInv
  <2>5. /\ p.jobs[1] \in 1..Len(jobs) /\ End(p.jobs) \in 1..Len(jobs)
        /\ p.jobs[1] <= End(p.jobs)
        /\ \A j \in 1..Len(jobs) : j \in Members(p.jobs) <=> (p.jobs[1] <= j /\ j <= End(p.jobs))
    BY <1>1, <2>3, AdjacentMembers
  <2> HIDE DEF p
  <2>6. CASE e.jobs = p.jobs /\ e.from = p.to
    BY <1>2, <2>4, <2>6 DEF e
  <2>7. CASE e.from = 0 /\ p.to = ShotsOf(jobs, p.jobs) /\ e.jobs[1] = End(p.jobs) + 1
    <3>1. ASSUME NEW j \in Indices
          PROVE  received[j] = IF j < e.jobs[1] THEN jobs[j].n
                               ELSE IF j <= End(e.jobs) THEN e.from ELSE 0
      <4>1. j \in 1..Len(jobs) /\ j \in Nat
        BY <1>3 DEF Indices
      <4>2. CASE j < p.jobs[1]
        BY <1>3, <2>4, <2>5, <2>7, <4>1, <4>2
      <4>3. CASE p.jobs[1] <= j /\ j <= End(p.jobs)
        <5>1. jobs[j].n = ShotsOf(jobs, p.jobs)
          BY <1>1, <2>3, <2>5, <4>1, <4>3, SameShots
        <5>2. received[j] = p.to /\ j < e.jobs[1]
          BY <1>3, <2>4, <2>5, <2>7, <4>1, <4>3
        <5> QED
          BY <2>7, <5>1, <5>2
      <4>4. CASE j > End(p.jobs)
        <5>1. received[j] = 0 /\ ~(j < e.jobs[1])
          BY <1>3, <2>4, <2>5, <2>7, <4>1, <4>4
        <5> QED
          BY <2>7, <5>1
      <4> QED
        BY <1>3, <2>5, <4>1, <4>2, <4>3, <4>4
    <3> QED
      BY <1>2, <3>1 DEF e
  <2> QED
    BY <2>2, <2>6, <2>7 DEF Follows
<1> QED
  BY <1>4, <1>5

LEMMA FilledStep == PlanningInv /\ CoverInv /\ FilledInv /\ [Next]_vars => FilledInv'
<1> SUFFICES ASSUME PlanningInv, CoverInv, FilledInv, [Next]_vars PROVE FilledInv'
  OBVIOUS
<1> USE DEF FilledInv, Indices
<1>1. CASE Refuse
  BY <1>1 DEF Refuse, assembly, planning, Grouping
<1>2. CASE Pack
  BY <1>2 DEF Pack, Grouping, assembly
<1>3. CASE StartGroup
  BY <1>3 DEF StartGroup, Grouping, assembly
<1>4. CASE Grouped
  BY <1>4 DEF Grouped, assembly
<1>5. CASE Split
  <2>1. completed = 0 /\ completed' = 0 /\ received' = received /\ jobs' = jobs
        /\ stage' = "split"
    BY <1>5 DEF Split, assembly
  <2>2. Len(plan') \in Nat
    <3>1. PlanInv'
      BY PlanStep
    <3> QED
      BY <3>1 DEF PlanInv
  <2> QED
    BY <2>1, <2>2
<1>6. CASE StartRunning
  BY <1>6 DEF StartRunning, assembly, planning
<1>7. CASE Run
  <2> DEFINE e == Execution
  <2>1. /\ stage = "run" /\ stage' = stage /\ completed < Len(plan) /\ completed' = completed + 1
        /\ jobs' = jobs /\ plan' = plan
        /\ received' = [j \in Indices |-> IF j \in Members(e.jobs) THEN e.to ELSE received[j]]
    BY <1>7 DEF Run, planning
  <2>2. /\ Adjacent(jobs, e.jobs) /\ jobs \in Seq(Payloads)
        /\ \A j \in Indices : received[j] = IF j < e.jobs[1] THEN jobs[j].n
                                            ELSE IF j <= End(e.jobs) THEN e.from ELSE 0
    BY <2>1, NextIsAwaited DEF PlanningInv, BatchInv
  <2>3. /\ e.jobs[1] \in 1..Len(jobs) /\ End(e.jobs) \in 1..Len(jobs) /\ Len(jobs) \in Nat
        /\ \A j \in 1..Len(jobs) : j \in Members(e.jobs) <=> (e.jobs[1] <= j /\ j <= End(e.jobs))
    BY <2>2, AdjacentMembers
  <2>4. completed \in Nat /\ Len(plan) \in Nat
    BY DEF PlanningInv, AssemblyInv, PlanInv
  <2>5. e = plan'[completed'] /\ completed' > 0 /\ completed' <= Len(plan')
    BY <2>1, <2>4 DEF Execution
  <2> HIDE DEF e
  <2>6. ASSUME NEW j \in Indices
        PROVE  received'[j] = IF j < e.jobs[1] THEN jobs[j].n
                              ELSE IF j <= End(e.jobs) THEN e.to ELSE 0
    <3>1. j \in 1..Len(jobs)
      OBVIOUS
    <3>2. received'[j] = IF e.jobs[1] <= j /\ j <= End(e.jobs) THEN e.to ELSE received[j]
      BY <2>1, <2>3, <3>1
    <3>3. received[j] = IF j < e.jobs[1] THEN jobs[j].n
                        ELSE IF j <= End(e.jobs) THEN e.from ELSE 0
      BY <2>2
    <3> QED
      BY <2>3, <3>1, <3>2, <3>3
  <2> QED
    BY <2>1, <2>5, <2>6
<1>8. CASE Finish
  BY <1>8 DEF Finish, assembly, planning
<1>9. CASE UNCHANGED vars
  BY <1>9 DEF vars
<1> QED
  BY <1>1, <1>2, <1>3, <1>4, <1>5, <1>6, <1>7, <1>8, <1>9 DEF Next, Terminated

\* range() gets no step of 0 (_split_shots), add takes every fragment, and finish
\* finds each job with all its shots: the conditions without which planner.py and
\* results.py raise.
NothingRaises ==
    /\ (stage = "split" /\ groups # <<>>) => ShotLimit(PayloadsOf(groups[1]), options) > 0
    /\ (stage = "run" /\ completed < Len(plan)) =>
          \A j \in Members(Execution.jobs) : received[j] = Execution.from
    /\ (stage = "run" /\ completed = Len(plan)) => \A j \in Indices : received[j] = jobs[j].n

\* A batch whose jobs fit alone is planned and run to its end: no step of it
\* raises.
THEOREM PlannedBatchesRun == Spec => []NothingRaises
<1>1. Init => CoverInv /\ FilledInv
  <2>1. Init => CoverInv
    BY DEF Init, CoverInv
  <2>2. Init => FilledInv
    BY DEF Init, FilledInv
  <2> QED
    BY <2>1, <2>2
<1>2. PlanningInv /\ CoverInv /\ FilledInv => NothingRaises
  <2> SUFFICES ASSUME PlanningInv, CoverInv, FilledInv PROVE NothingRaises
    OBVIOUS
  <2>0. jobs \in Seq(Payloads) /\ options \in OptionSets /\ Len(jobs) \in Nat
    BY DEF PlanningInv, BatchInv
  <2>1. ASSUME stage = "split", groups # <<>>
        PROVE  ShotLimit(PayloadsOf(groups[1]), options) > 0
    <3>1. 1 \in 1..Len(groups)
      BY <2>1 DEF PlanningInv, GroupsInv
    <3>2. GroupGood(jobs, options, groups[1])
      BY <3>1 DEF PlanningInv, GroupsInv
    <3>3. IsGroup(MembersOf(jobs, groups[1])) /\ Fits(MembersOf(jobs, groups[1]), options, 1)
      BY <2>0, <3>2, GroupOfBatch DEF GroupGood, Shareable
    <3> QED
      BY <2>0, <3>3, LimitPositive, PayloadsAreMembers
  <2>2. ASSUME stage = "run", completed < Len(plan)
        PROVE  \A j \in Members(Execution.jobs) : received[j] = Execution.from
    <3> DEFINE e == Execution
    <3>1. /\ Adjacent(jobs, e.jobs)
          /\ \A j \in Indices : received[j] = IF j < e.jobs[1] THEN jobs[j].n
                                              ELSE IF j <= End(e.jobs) THEN e.from ELSE 0
      BY <2>2, NextIsAwaited
    <3> HIDE DEF e
    <3>2. \A j \in Members(e.jobs) : j \in 1..Len(jobs)
      BY <2>0, <3>1, GroupOfBatch DEF Members
    <3>3. /\ e.jobs[1] \in 1..Len(jobs)
          /\ \A j \in 1..Len(jobs) : j \in Members(e.jobs) <=> (e.jobs[1] <= j /\ j <= End(e.jobs))
      BY <2>0, <3>1, AdjacentMembers
    <3>4. \A j \in Members(e.jobs) : received[j] = e.from
      <4> SUFFICES ASSUME NEW j \in Members(e.jobs) PROVE received[j] = e.from
        OBVIOUS
      <4>1. j \in 1..Len(jobs) /\ e.jobs[1] <= j /\ j <= End(e.jobs)
        BY <3>2, <3>3
      <4>2. ~(j < e.jobs[1])
        BY <2>0, <3>3, <4>1
      <4> QED
        BY <3>1, <4>1, <4>2 DEF Indices
    <3> QED
      BY <3>4 DEF e
  <2>3. ASSUME stage = "run", completed = Len(plan)
        PROVE  \A j \in Indices : received[j] = jobs[j].n
    <3> DEFINE e == plan[Len(plan)]
    <3>1. plan # <<>> /\ e.to = ShotsOf(jobs, e.jobs) /\ End(e.jobs) = Len(jobs)
      BY <2>3 DEF CoverInv
    <3>2. Len(plan) \in Nat \ {0} /\ Len(plan) \in 1..Len(plan)
      BY <3>1 DEF PlanningInv, PlanInv
    <3>3. GroupGood(jobs, options, e.jobs) /\ Adjacent(jobs, e.jobs)
      BY <3>2 DEF PlanningInv, PlanInv, ExecutionGood, GroupGood
    <3>4. \A j \in Indices : received[j] = IF j < e.jobs[1] THEN jobs[j].n
                                           ELSE IF j <= End(e.jobs) THEN e.to ELSE 0
      BY <2>3, <3>2 DEF FilledInv
    <3>5. /\ e.jobs[1] \in 1..Len(jobs)
          /\ \A j \in 1..Len(jobs) : j \in Members(e.jobs) <=> (e.jobs[1] <= j /\ j <= End(e.jobs))
      BY <2>0, <3>3, AdjacentMembers
    <3> HIDE DEF e
    <3>6. ASSUME NEW j \in 1..Len(jobs)
          PROVE  received[j] = jobs[j].n
      <4>1. CASE j < e.jobs[1]
        BY <3>4, <4>1 DEF Indices
      <4>2. CASE ~(j < e.jobs[1])
        <5>1. j <= End(e.jobs) /\ j \in Members(e.jobs)
          BY <2>0, <3>1, <3>5, <4>2
        <5>2. jobs[j].n = ShotsOf(jobs, e.jobs)
          BY <2>0, <3>3, <5>1, SameShots
        <5> QED
          BY <3>1, <3>4, <4>2, <5>1, <5>2 DEF Indices
      <4> QED
        BY <4>1, <4>2
    <3> QED
      BY <3>6 DEF Indices
  <2> QED
    BY <2>1, <2>2, <2>3 DEF NothingRaises
<1> QED
  BY <1>1, <1>2, PlanningInductive, CoverStep, FilledStep, PTL DEF Spec
================================================================================
