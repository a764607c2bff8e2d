------------------------------ MODULE SumFacts ------------------------------
(***************************************************************************)
(* Facts about SumFunctionOnSet, the fold by which the budget queries add  *)
(* up rows.                                                                *)
(***************************************************************************)
EXTENDS Naturals, FiniteSets, Functions, FiniteSetTheorems, TLAPS

-----------------------------------------------------------------------------
(* Induction without predicates: least elements *)

\* A family of subsets of a finite set has a member none of whose proper subsets is in it.
LEMMA MinimalSubset ==
  ASSUME NEW S, IsFiniteSet(S), NEW F \in SUBSET SUBSET S, F # {}
  PROVE  \E T \in F : \A U \in F : U \subseteq T => U = T
<1>1. \A T \in F : T \in SUBSET S /\ IsFiniteSet(T)
  BY FS_Subset
<1>2. F \subseteq FiniteSubsetsOf(S)
  BY <1>1 DEF FiniteSubsetsOf
<1>3. \E T \in F : \A U \in F : <<U, T>> \notin StrictSubsetOrdering(S)
  BY <1>2, FS_StrictSubsetOrderingWellFounded, WFMin
<1> QED
  BY <1>3, <1>1 DEF StrictSubsetOrdering

\* A set of naturals has a least member.
LEMMA LeastNatural ==
  ASSUME NEW F \in SUBSET Nat, F # {}
  PROVE  \E n \in F : \A m \in F : n <= m
<1>1. IsWellFoundedOn({p \in Nat \X Nat : p[1] < p[2]}, Nat)
  BY NatLessThanWellFounded DEF OpToRel
<1>2. PICK n \in F : \A m \in F : <<m, n>> \notin {p \in Nat \X Nat : p[1] < p[2]}
  BY <1>1, WFMin
<1>3. \A m \in F : n \in Nat /\ m \in Nat /\ ~(m < n)
  BY <1>2
<1> QED
  BY <1>3

-----------------------------------------------------------------------------
(* The fold *)

\* The element a fold takes next.
First(T) == CHOOSE x \in T : TRUE

\* What a fold s over the subsets of S says of each of them.
Round(f, s, S) == [T \in SUBSET S |-> IF T = {} THEN 0 ELSE f[First(T)] + s[T \ {First(T)}]]

\* It is one of the set's.
LEMMA FirstIn == ASSUME NEW T, T # {} PROVE First(T) \in T
BY DEF First

\* The sum as the library defines it, by the fold that CHOOSE picks.
LEMMA SumFold ==
  ASSUME NEW f, NEW S
  PROVE  SumFunctionOnSet(f, S) = (CHOOSE s : s = Round(f, s, S))[S]
BY Zenon DEF SumFunctionOnSet, FoldFunctionOnSet, MapThenFoldSet, Round, First

\* Every finite set has a fold: one is built for the sets of each size in turn.
LEMMA FoldExists ==
  ASSUME NEW S, IsFiniteSet(S), NEW f
  PROVE  \E s : s = Round(f, s, S)
<1> DEFINE Level(n) == {T \in SUBSET S : Cardinality(T) <= n}
           Has(n) == \E s : \A T \in Level(n) :
                        s[T] = IF T = {} THEN 0 ELSE f[First(T)] + s[T \ {First(T)}]
           F == {n \in Nat : ~Has(n)}
<1>1. \A T \in SUBSET S : Cardinality(T) \in Nat /\ Cardinality(T) <= Cardinality(S) /\ IsFiniteSet(T)
  BY FS_Subset, FS_CardinalityType
<1>2. \A T \in SUBSET S : T # {} =>
         /\ T \ {First(T)} \in SUBSET S
         /\ Cardinality(T \ {First(T)}) = Cardinality(T) - 1
         /\ Cardinality(T) > 0
  <2> TAKE T \in SUBSET S
  <2> HAVE T # {}
  <2>1. First(T) \in T
    BY FirstIn
  <2>2. Cardinality(T) # 0
    BY <1>1, FS_EmptySet
  <2> QED
    BY <2>1, <2>2, <1>1, FS_RemoveElement
<1>3. Has(0)
  <2> DEFINE s == [T \in SUBSET S |-> 0]
  <2>1. \A T \in Level(0) : T = {}
    BY <1>1, FS_EmptySet
  <2>2. \A T \in Level(0) : s[T] = IF T = {} THEN 0 ELSE f[First(T)] + s[T \ {First(T)}]
    BY <2>1
  <2> QED
    BY <2>2
<1>4. ASSUME NEW n \in Nat, Has(n) PROVE Has(n + 1)
  <2>1. PICK s : \A T \in Level(n) : s[T] = IF T = {} THEN 0 ELSE f[First(T)] + s[T \ {First(T)}]
    BY <1>4
  <2> DEFINE r == [T \in SUBSET S |-> IF T \in Level(n) THEN s[T] ELSE f[First(T)] + s[T \ {First(T)}]]
  <2>2. ASSUME NEW T \in Level(n + 1)
        PROVE  r[T] = IF T = {} THEN 0 ELSE f[First(T)] + r[T \ {First(T)}]
    <3>1. CASE T = {}
      <4>1. T \in Level(n)
        BY <3>1, FS_EmptySet
      <4> QED
        BY <4>1, <3>1, <2>1
    <3>2. CASE T # {}
      <4>1. T \ {First(T)} \in Level(n)
        BY <3>2, <1>2, <1>1
      <4>2. r[T \ {First(T)}] = s[T \ {First(T)}]
        BY <4>1
      <4>3. r[T] = f[First(T)] + s[T \ {First(T)}]
        BY <3>2, <2>1
      <4> QED
        BY <4>2, <4>3, <3>2
    <3> QED
      BY <3>1, <3>2
  <2> HIDE DEF Level, r
  <2> QED
    BY <2>2
<1> HIDE DEF Has
<1>5. F = {}
  <2> SUFFICES ASSUME F # {} PROVE FALSE
    OBVIOUS
  <2>1. PICK n \in F : \A m \in F : n <= m
    <3>1. F \in SUBSET Nat
      OBVIOUS
    <3> HIDE DEF F
    <3> QED BY <3>1, LeastNatural
  <2>2. n # 0
    BY <2>1, <1>3
  <2>3. n - 1 \in Nat /\ n - 1 \notin F
    BY <2>1, <2>2
  <2>4. Has((n - 1) + 1)
    BY <2>3, <1>4
  <2> QED
    BY <2>1, <2>4
<1>6. Has(Cardinality(S))
  BY <1>5, FS_CardinalityType
<1>7. PICK s : \A T \in SUBSET S : s[T] = IF T = {} THEN 0 ELSE f[First(T)] + s[T \ {First(T)}]
  BY <1>6, <1>1 DEF Has
<1> DEFINE r == [T \in SUBSET S |-> s[T]]
<1>8. r = Round(f, r, S)
  <2>1. \A T \in SUBSET S : r[T] = IF T = {} THEN 0 ELSE f[First(T)] + r[T \ {First(T)}]
    BY <1>7
  <2> QED
    BY <2>1 DEF Round
<1> QED
  BY <1>8

\* s is a fold of f over the subsets of S.
Adds(s, f, S) ==
  \A T \in SUBSET S : s[T] = IF T = {} THEN 0 ELSE f[First(T)] + s[T \ {First(T)}]

\* The sum over a set is the value of a fold over its subsets.
LEMMA SumIsFold ==
  ASSUME NEW S, IsFiniteSet(S), NEW f
  PROVE  \E s : /\ SumFunctionOnSet(f, S) = s[S]
                /\ Adds(s, f, S)
<1> DEFINE s == CHOOSE s : s = Round(f, s, S)
<1>1. s = Round(f, s, S)
  BY FoldExists
<1>2. SumFunctionOnSet(f, S) = s[S]
  BY SumFold
<1> HIDE DEF s
<1>3. Adds(s, f, S)
  BY <1>1 DEF Round, Adds
<1> QED
  BY <1>2, <1>3

\* Two folds agree where their functions do.
LEMMA FoldsAgree ==
  ASSUME NEW S, IsFiniteSet(S), NEW f, NEW g, \A x \in S : f[x] = g[x], NEW s, NEW r,
         Adds(s, f, S),
         Adds(r, g, S)
  PROVE  \A T \in SUBSET S : s[T] = r[T]
<1> DEFINE F == {T \in SUBSET S : s[T] # r[T]}
<1> SUFFICES ASSUME F # {} PROVE FALSE
  OBVIOUS
<1>1. PICK T \in F : \A U \in F : U \subseteq T => U = T
  <2>1. F \in SUBSET SUBSET S
    OBVIOUS
  <2> HIDE DEF F
  <2> QED
    BY <2>1, MinimalSubset
<1>2. CASE T = {}
  BY <1>1, <1>2 DEF Adds
<1>3. CASE T # {}
  <2>1. First(T) \in T /\ T \in SUBSET S
    BY <1>1, <1>3, FirstIn
  <2>2. T \ {First(T)} \notin F /\ T \ {First(T)} \in SUBSET S
    BY <1>1, <2>1
  <2>3. s[T] = f[First(T)] + s[T \ {First(T)}] /\ r[T] = g[First(T)] + r[T \ {First(T)}]
    BY <2>1, <1>3 DEF Adds
  <2> QED
    BY <2>1, <2>2, <2>3, <1>1
<1> QED
  BY <1>2, <1>3

\* The sum over nothing, and the next step of the fold.
LEMMA SumStep ==
  ASSUME NEW S, IsFiniteSet(S), NEW f
  PROVE  SumFunctionOnSet(f, S) = IF S = {} THEN 0 ELSE f[First(S)] + SumFunctionOnSet(f, S \ {First(S)})
<1>1. CASE S = {}
  BY <1>1, SumIsFold DEF Adds
<1>2. CASE S # {}
  <2> DEFINE R == S \ {First(S)}
  <2>1. R \subseteq S /\ IsFiniteSet(R)
    BY FS_Subset
  <2>2. PICK s : /\ SumFunctionOnSet(f, S) = s[S]
                 /\ Adds(s, f, S)
    BY SumIsFold
  <2>3. PICK r : /\ SumFunctionOnSet(f, R) = r[R]
                 /\ Adds(r, f, R)
    BY <2>1, SumIsFold
  <2>4. \A T \in SUBSET R : s[T] = r[T]
    <3>1. Adds(s, f, R)
      BY <2>1, <2>2 DEF Adds
    <3> HIDE DEF R
    <3> QED
      BY <2>1, <2>3, <3>1, FoldsAgree
  <2>5. R \in SUBSET R
    OBVIOUS
  <2>6. s[S] = f[First(S)] + s[R]
    BY <2>2, <1>2 DEF Adds
  <2> QED
    BY <2>2, <2>3, <2>4, <2>5, <2>6, <1>2
<1> QED
  BY <1>1, <1>2

\* Nothing adds up to nothing.
LEMMA SumEmpty == ASSUME NEW f PROVE SumFunctionOnSet(f, {}) = 0
BY SumStep, FS_EmptySet

\* A sum of amounts is an amount.
LEMMA SumType ==
  ASSUME NEW S, IsFiniteSet(S), NEW f, \A x \in S : f[x] \in Nat
  PROVE  SumFunctionOnSet(f, S) \in Nat
<1> DEFINE F == {T \in SUBSET S : SumFunctionOnSet(f, T) \notin Nat}
<1> SUFFICES ASSUME F # {} PROVE FALSE
  OBVIOUS
<1>1. PICK T \in F : \A U \in F : U \subseteq T => U = T
  <2>1. F \in SUBSET SUBSET S
    OBVIOUS
  <2> HIDE DEF F
  <2> QED
    BY <2>1, MinimalSubset
<1>2. T \in SUBSET S /\ IsFiniteSet(T)
  BY <1>1, FS_Subset
<1>3. T # {}
  <2>1. SumFunctionOnSet(f, {}) \in Nat
    BY SumEmpty
  <2>2. SumFunctionOnSet(f, T) \notin Nat
    BY <1>1
  <2> QED
    BY <2>1, <2>2, Zenon
<1>4. First(T) \in T
  BY <1>3, FirstIn
<1>5. SumFunctionOnSet(f, T \ {First(T)}) \in Nat
  BY <1>1, <1>2, <1>4
<1>6. SumFunctionOnSet(f, T) = f[First(T)] + SumFunctionOnSet(f, T \ {First(T)})
  BY <1>2, <1>3, SumStep
<1>7. f[First(T)] \in Nat
  BY <1>2, <1>4
<1> QED
  BY <1>1, <1>5, <1>6, <1>7

\* The order of the fold does not matter: any element can be taken out.
LEMMA SumTakeOut ==
  ASSUME NEW S, IsFiniteSet(S), NEW f, \A x \in S : f[x] \in Nat, NEW x \in S
  PROVE  SumFunctionOnSet(f, S) = f[x] + SumFunctionOnSet(f, S \ {x})
<1> DEFINE F == {T \in SUBSET S : \E y \in T :
                    SumFunctionOnSet(f, T) # f[y] + SumFunctionOnSet(f, T \ {y})}
<1>0. ASSUME F # {} PROVE FALSE
  <2>1. PICK T \in F : \A U \in F : U \subseteq T => U = T
    <3>1. F \in SUBSET SUBSET S
      OBVIOUS
    <3> HIDE DEF F
    <3> QED
      BY <3>1, <1>0, MinimalSubset
  <2>2. T \in SUBSET S /\ IsFiniteSet(T)
    BY <2>1, FS_Subset
  <2>3. PICK y \in T : SumFunctionOnSet(f, T) # f[y] + SumFunctionOnSet(f, T \ {y})
    BY <2>1
  <2> DEFINE z == First(T)
             R == T \ {z}
             Q == T \ {y}
             P == R \ {y}
  <2>4. z \in T
    BY <2>3, FirstIn
  <2>5. SumFunctionOnSet(f, T) = f[z] + SumFunctionOnSet(f, R)
    BY <2>2, <2>3, SumStep
  <2> HIDE DEF z
  <2>6. z # y
    BY <2>3, <2>5
  <2>7. SumFunctionOnSet(f, R) = f[y] + SumFunctionOnSet(f, P)
    <3>1. R \in SUBSET S /\ R \subseteq T /\ R # T /\ y \in R
      BY <2>2, <2>3, <2>4, <2>6
    <3>2. R \notin F
      BY <3>1, <2>1
    <3> QED
      BY <3>1, <3>2
  <2>8. SumFunctionOnSet(f, Q) = f[z] + SumFunctionOnSet(f, Q \ {z})
    <3>1. Q \in SUBSET S /\ Q \subseteq T /\ Q # T /\ z \in Q
      BY <2>2, <2>3, <2>4, <2>6
    <3>2. Q \notin F
      BY <3>1, <2>1
    <3> QED
      BY <3>1, <3>2
  <2>9. Q \ {z} = P
    OBVIOUS
  <2>10. IsFiniteSet(P) /\ \A v \in P : f[v] \in Nat
    BY <2>2, FS_Subset
  <2>11. SumFunctionOnSet(f, P) \in Nat
    BY <2>10, SumType
  <2>12. f[y] \in Nat /\ f[z] \in Nat
    BY <2>2, <2>3, <2>4
  <2> HIDE DEF F, P, Q, R
  <2>13. SumFunctionOnSet(f, T) = f[z] + (f[y] + SumFunctionOnSet(f, P))
    BY <2>5, <2>7
  <2>14. SumFunctionOnSet(f, Q) = f[z] + SumFunctionOnSet(f, P)
    BY <2>8, <2>9
  <2>15. SumFunctionOnSet(f, T) = f[y] + SumFunctionOnSet(f, Q)
    BY <2>11, <2>12, <2>13, <2>14
  <2> QED
    BY <2>3, <2>15 DEF Q
<1>1. S \notin F
  BY <1>0
<1> QED
  BY <1>1

\* The sum depends on the values over the set only.
LEMMA SumSame ==
  ASSUME NEW S, IsFiniteSet(S), NEW f, NEW g, \A x \in S : f[x] = g[x]
  PROVE  SumFunctionOnSet(f, S) = SumFunctionOnSet(g, S)
<1>1. PICK s : /\ SumFunctionOnSet(f, S) = s[S]
               /\ Adds(s, f, S)
  BY SumIsFold
<1>2. PICK r : /\ SumFunctionOnSet(g, S) = r[S]
               /\ Adds(r, g, S)
  BY SumIsFold
<1>3. \A T \in SUBSET S : s[T] = r[T]
  BY <1>1, <1>2, FoldsAgree
<1>4. S \in SUBSET S
  OBVIOUS
<1> QED
  BY <1>1, <1>2, <1>3, <1>4

\* Larger values over the set add up to no less.
LEMMA SumMonotone ==
  ASSUME NEW S, IsFiniteSet(S), NEW f, NEW g, \A x \in S : f[x] \in Nat /\ g[x] \in Nat /\ f[x] <= g[x]
  PROVE  SumFunctionOnSet(f, S) <= SumFunctionOnSet(g, S)
<1> DEFINE F == {T \in SUBSET S : ~(SumFunctionOnSet(f, T) <= SumFunctionOnSet(g, T))}
<1>0. ASSUME F # {} PROVE FALSE
  <2>1. PICK T \in F : \A U \in F : U \subseteq T => U = T
    <3>1. F \in SUBSET SUBSET S
      OBVIOUS
    <3> HIDE DEF F
    <3> QED
      BY <3>1, <1>0, MinimalSubset
  <2>2. T \in SUBSET S /\ IsFiniteSet(T)
    BY <2>1, FS_Subset
  <2>3. T # {}
    <3>1. SumFunctionOnSet(f, {}) <= SumFunctionOnSet(g, {})
      BY SumEmpty
    <3>2. ~(SumFunctionOnSet(f, T) <= SumFunctionOnSet(g, T))
      BY <2>1
    <3> QED
      BY <3>1, <3>2, Zenon
  <2> DEFINE z == First(T)
             R == T \ {z}
  <2>4. z \in T
    BY <2>3, FirstIn
  <2>5. SumFunctionOnSet(f, T) = f[z] + SumFunctionOnSet(f, R) /\ SumFunctionOnSet(g, T) = g[z] + SumFunctionOnSet(g, R)
    BY <2>2, <2>3, SumStep
  <2> HIDE DEF z
  <2>6. R \in SUBSET S /\ IsFiniteSet(R) /\ R \subseteq T /\ R # T
    BY <2>2, <2>4, FS_Subset
  <2>7. SumFunctionOnSet(f, R) <= SumFunctionOnSet(g, R)
    BY <2>1, <2>6
  <2>8. SumFunctionOnSet(f, R) \in Nat /\ SumFunctionOnSet(g, R) \in Nat
    BY <2>6, SumType
  <2>9. f[z] \in Nat /\ g[z] \in Nat /\ f[z] <= g[z]
    BY <2>2, <2>4
  <2>10. SumFunctionOnSet(f, T) <= SumFunctionOnSet(g, T)
    BY <2>5, <2>7, <2>8, <2>9
  <2> QED
    BY <2>1, <2>10
<1>1. S \notin F
  BY <1>0
<1> QED
  BY <1>1

\* When one value changes, the sum changes by as much.
LEMMA SumChange ==
  ASSUME NEW S, IsFiniteSet(S), NEW f, NEW g, \A x \in S : f[x] \in Nat /\ g[x] \in Nat,
         NEW y \in S, \A x \in S : x # y => f[x] = g[x]
  PROVE  SumFunctionOnSet(f, S) + g[y] = SumFunctionOnSet(g, S) + f[y]
<1> DEFINE R == S \ {y}
<1>1. IsFiniteSet(R) /\ \A x \in R : f[x] = g[x] /\ f[x] \in Nat
  BY FS_Subset
<1>2. SumFunctionOnSet(f, S) = f[y] + SumFunctionOnSet(f, R)
  BY SumTakeOut
<1>3. SumFunctionOnSet(g, S) = g[y] + SumFunctionOnSet(g, R)
  BY SumTakeOut
<1> HIDE DEF R
<1>4. SumFunctionOnSet(f, R) = SumFunctionOnSet(g, R) /\ SumFunctionOnSet(f, R) \in Nat
  BY <1>1, SumSame, SumType
<1> QED
  BY <1>2, <1>3, <1>4

\* Nothing at every element adds up to nothing.
LEMMA SumZero ==
  ASSUME NEW S, IsFiniteSet(S), NEW f, \A x \in S : f[x] = 0
  PROVE  SumFunctionOnSet(f, S) = 0
<1> DEFINE F == {T \in SUBSET S : SumFunctionOnSet(f, T) # 0}
<1>0. ASSUME F # {} PROVE FALSE
  <2>1. PICK T \in F : \A U \in F : U \subseteq T => U = T
    <3>1. F \in SUBSET SUBSET S
      OBVIOUS
    <3> HIDE DEF F
    <3> QED
      BY <3>1, <1>0, MinimalSubset
  <2>2. T \in SUBSET S /\ IsFiniteSet(T) /\ T # {}
    BY <2>1, FS_Subset, SumEmpty
  <2> DEFINE R == T \ {First(T)}
  <2>3. First(T) \in T
    BY <2>2, FirstIn
  <2>4. SumFunctionOnSet(f, T) = f[First(T)] + SumFunctionOnSet(f, R)
    BY <2>2, SumStep
  <2>5. R \in SUBSET S /\ R \subseteq T /\ R # T
    BY <2>2, <2>3
  <2>6. SumFunctionOnSet(f, R) = 0
    BY <2>1, <2>5
  <2> QED
    BY <2>1, <2>2, <2>3, <2>4, <2>6
<1> QED
  BY <1>0

\* The sum over two disjoint sets is the sum of both sums.
LEMMA SumUnion ==
  ASSUME NEW A, IsFiniteSet(A), NEW B, IsFiniteSet(B), A \cap B = {},
         NEW f, \A x \in A \cup B : f[x] \in Nat
  PROVE  SumFunctionOnSet(f, A \cup B) = SumFunctionOnSet(f, A) + SumFunctionOnSet(f, B)
<1> DEFINE F == {T \in SUBSET A : SumFunctionOnSet(f, T \cup B) # SumFunctionOnSet(f, T) + SumFunctionOnSet(f, B)}
<1>0. ASSUME F # {} PROVE FALSE
  <2>1. PICK T \in F : \A U \in F : U \subseteq T => U = T
    <3>1. F \in SUBSET SUBSET A
      OBVIOUS
    <3> HIDE DEF F
    <3> QED
      BY <3>1, <1>0, MinimalSubset
  <2>2. T \in SUBSET A /\ IsFiniteSet(T) /\ IsFiniteSet(T \cup B)
    BY <2>1, FS_Subset, FS_Union
  <2>3. SumFunctionOnSet(f, B) \in Nat
    BY SumType
  <2>4. T # {}
    <3>1. SumFunctionOnSet(f, {}) = 0 /\ {} \cup B = B
      BY SumEmpty
    <3>2. SumFunctionOnSet(f, {} \cup B) = SumFunctionOnSet(f, {}) + SumFunctionOnSet(f, B)
      BY <3>1, <2>3
    <3>3. SumFunctionOnSet(f, T \cup B) # SumFunctionOnSet(f, T) + SumFunctionOnSet(f, B)
      BY <2>1
    <3> QED
      BY <3>2, <3>3, Zenon
  <2>5. PICK x \in T : TRUE
    BY <2>4
  <2> DEFINE R == T \ {x}
  <2>6. R \in SUBSET A /\ R \subseteq T /\ R # T /\ IsFiniteSet(R)
    BY <2>2, <2>5, FS_Subset
  <2>7. SumFunctionOnSet(f, R \cup B) = SumFunctionOnSet(f, R) + SumFunctionOnSet(f, B)
    <3>1. R \notin F
      BY <2>1, <2>6
    <3> QED
      BY <3>1, <2>6
  <2>8. SumFunctionOnSet(f, T) = f[x] + SumFunctionOnSet(f, R)
    <3>1. \A y \in T : f[y] \in Nat
      BY <2>2
    <3> QED
      BY <3>1, <2>2, <2>5, SumTakeOut
  <2>9. SumFunctionOnSet(f, T \cup B) = f[x] + SumFunctionOnSet(f, R \cup B)
    <3>1. \A y \in T \cup B : f[y] \in Nat
      BY <2>2
    <3>2. (T \cup B) \ {x} = R \cup B
      BY <2>2, <2>5
    <3> HIDE DEF R
    <3> QED
      BY <3>1, <3>2, <2>2, <2>5, SumTakeOut
  <2>10. f[x] \in Nat /\ SumFunctionOnSet(f, R) \in Nat
    BY <2>2, <2>5, <2>6, SumType
  <2> HIDE DEF R
  <2>11. SumFunctionOnSet(f, T \cup B) = SumFunctionOnSet(f, T) + SumFunctionOnSet(f, B)
    BY <2>3, <2>7, <2>8, <2>9, <2>10
  <2> QED
    BY <2>1, <2>11
<1> QED
  BY <1>0
=============================================================================
