----------------------------- MODULE SumTheorems -----------------------------
(***************************************************************************)
(* Lemmas about sums over finite sets, for the proofs about rewards.       *)
(*                                                                         *)
(* SumFunctionOnSet folds a function in the order CHOOSE takes the         *)
(* elements of a set.  It is shown to be the sum in any order, and from    *)
(* this that a sum may leave out zeros, rename its elements, be taken by   *)
(* classes or in two directions, and that sums over blocks telescope.      *)
(***************************************************************************)
EXTENDS FiniteSetsExt, Functions, FiniteSetTheorems, WellFoundedInduction, TLAPS

(* h is the recursive function of the fold.                                *)
Choice(T) == CHOOSE x \in T : TRUE

SumIs(h, g, S) ==
  h = [T \in SUBSET S |->
        IF T = {} THEN 0 ELSE g[Choice(T)] + h[T \ {Choice(T)}]]

(* A sum is the value of a recursive function on sets.                     *)
LEMMA SumUnfold ==
  ASSUME NEW g, NEW S
  PROVE  SumFunctionOnSet(g, S) = (CHOOSE h : SumIs(h, g, S))[S]
BY DEF SumFunctionOnSet, FoldFunctionOnSet, MapThenFoldSet, SumIs, Choice

LEMMA ChoiceIn ==
  ASSUME NEW T, T # {}
  PROVE  Choice(T) \in T
BY DEF Choice

(* A set of numbers that is not empty has a least one.                     *)
LEMMA Least ==
  ASSUME NEW S \in SUBSET Nat, S # {}
  PROVE  \E n \in S : \A k \in S : n <= k
<1>1. PICK x \in S : \A y \in S : ~(<<y, x>> \in OpToRel(<, Nat))
  BY WFMin, NatLessThanWellFounded
<1>2. \A y \in S : ~(y < x) BY <1>1 DEF OpToRel
<1>3. QED BY <1>2

(* A set without one of its elements.                                      *)
LEMMA Smaller ==
  ASSUME NEW T, IsFiniteSet(T), NEW x \in T
  PROVE  /\ IsFiniteSet(T \ {x})
         /\ Cardinality(T) \in Nat /\ Cardinality(T \ {x}) \in Nat
         /\ Cardinality(T \ {x}) = Cardinality(T) - 1
<1>1. IsFiniteSet(T \ {x}) /\ Cardinality(T \ {x}) = Cardinality(T) - 1
  BY FS_RemoveElement
<1>2. Cardinality(T) \in Nat /\ Cardinality(T \ {x}) \in Nat
  BY <1>1, FS_CardinalityType
<1>3. QED BY <1>1, <1>2

(* Sets of at most n elements.                                             *)
Upto(S, n) == {T \in SUBSET S : Cardinality(T) <= n}

PartIs(h, g, S, n) ==
  h = [T \in Upto(S, n) |->
        IF T = {} THEN 0 ELSE g[Choice(T)] + h[T \ {Choice(T)}]]

(* There is such a function, of subsets of ever larger cardinality.        *)
LEMMA SumExists ==
  ASSUME NEW g, NEW S, IsFiniteSet(S)
  PROVE  \E h : SumIs(h, g, S)
<1> DEFINE P(n) == \E h : PartIs(h, g, S, n)
           Bad == {n \in Nat : ~P(n)}
<1>0. \A T \in SUBSET S : IsFiniteSet(T) /\ Cardinality(T) \in Nat
                          /\ Cardinality(T) <= Cardinality(S)
  BY FS_Subset, FS_CardinalityType
<1>1. P(0)
  <2> DEFINE h == [T \in Upto(S, 0) |-> 0]
  <2>1. \A T \in Upto(S, 0) : T = {}
    BY <1>0, FS_EmptySet DEF Upto
  <2>2. PartIs(h, g, S, 0) BY <2>1 DEF PartIs
  <2>3. QED BY <2>2
<1>2. ASSUME NEW n \in Nat, P(n) PROVE P(n + 1)
  <2>1. PICK h : PartIs(h, g, S, n) BY <1>2
  <2> DEFINE k == [T \in Upto(S, n + 1) |->
                    IF T = {} THEN 0 ELSE g[Choice(T)] + h[T \ {Choice(T)}]]
  <2>2. ASSUME NEW T \in Upto(S, n + 1), T # {}
        PROVE  T \ {Choice(T)} \in Upto(S, n)
    BY <2>2, <1>0, ChoiceIn, Smaller DEF Upto
  <2>3. ASSUME NEW T \in Upto(S, n) PROVE k[T] = h[T]
    <3>1. T \in Upto(S, n + 1) BY <2>3, <1>0 DEF Upto
    <3>2. h[T] = IF T = {} THEN 0 ELSE g[Choice(T)] + h[T \ {Choice(T)}]
      BY <2>1 DEF PartIs
    <3>3. QED BY <3>1, <3>2
  <2>4. \A T \in Upto(S, n + 1) :
          T # {} => k[T \ {Choice(T)}] = h[T \ {Choice(T)}]
    BY <2>2, <2>3
  <2>5. k = [T \in Upto(S, n + 1) |->
              IF T = {} THEN 0 ELSE g[Choice(T)] + k[T \ {Choice(T)}]]
    <3> DEFINE kk == [T \in Upto(S, n + 1) |->
              IF T = {} THEN 0 ELSE g[Choice(T)] + k[T \ {Choice(T)}]]
    <3>1. \A T \in Upto(S, n + 1) : k[T] = kk[T] BY <2>4
    <3>2. QED BY <3>1
  <2>6. PartIs(k, g, S, n + 1) BY <2>5 DEF PartIs
  <2>7. QED BY <2>6
<1>3. \A n \in Nat : P(n)
  <2> SUFFICES ASSUME Bad # {} PROVE FALSE OBVIOUS
  <2>1. PICK n \in Bad : \A k \in Bad : n <= k BY Least
  <2>2. n # 0 BY <1>1, <2>1
  <2>3. n - 1 \in Nat /\ n - 1 \notin Bad BY <2>1, <2>2
  <2>4. P(n - 1) BY <2>3
  <2>5. n - 1 + 1 = n BY <2>1
  <2>6. P(n - 1 + 1) BY <1>2, <2>3, <2>4
  <2>7. QED BY <2>1, <2>5, <2>6
<1>4. Cardinality(S) \in Nat BY FS_CardinalityType
<1>5. PICK h : PartIs(h, g, S, Cardinality(S)) BY <1>3, <1>4
<1>6. Upto(S, Cardinality(S)) = SUBSET S BY <1>0 DEF Upto
<1>7. SumIs(h, g, S) BY <1>5, <1>6 DEF SumIs, PartIs
<1>8. QED BY <1>7

(* Two solutions agree on common subsets.                                  *)
LEMMA SumUnique ==
  ASSUME NEW g, NEW S, NEW R, IsFiniteSet(S), IsFiniteSet(R),
         NEW h, SumIs(h, g, S), NEW k, SumIs(k, g, R),
         NEW T, T \subseteq S, T \subseteq R
  PROVE  h[T] = k[T]
<1> DEFINE Bad == {n \in Nat : \E U : U \subseteq S /\ U \subseteq R
                                      /\ Cardinality(U) = n /\ h[U] # k[U]}
<1>1. \A U : U \subseteq S /\ U \subseteq R =>
        IsFiniteSet(U) /\ Cardinality(U) \in Nat
  BY FS_Subset, FS_CardinalityType
<1>2. Bad = {}
  <2> SUFFICES ASSUME Bad # {} PROVE FALSE OBVIOUS
  <2>1. PICK n \in Bad : \A m \in Bad : n <= m BY Least
  <2>2. PICK U : U \subseteq S /\ U \subseteq R /\ Cardinality(U) = n
                 /\ h[U] # k[U]
    BY <2>1
  <2>3. h[U] = IF U = {} THEN 0 ELSE g[Choice(U)] + h[U \ {Choice(U)}]
    BY <2>2 DEF SumIs
  <2>4. k[U] = IF U = {} THEN 0 ELSE g[Choice(U)] + k[U \ {Choice(U)}]
    BY <2>2 DEF SumIs
  <2>5. U # {} BY <2>2, <2>3, <2>4
  <2> DEFINE V == U \ {Choice(U)}
  <2>6. V \subseteq S /\ V \subseteq R /\ Cardinality(V) = n - 1
        /\ Cardinality(V) \in Nat
    BY <1>1, <2>2, <2>5, ChoiceIn, Smaller
  <2>7. h[V] # k[V] BY <2>2, <2>3, <2>4, <2>5
  <2>8. n - 1 \in Bad BY <2>6, <2>7
  <2>9. QED BY <2>1, <2>8
<1>3. QED BY <1>1, <1>2

(* The sum takes out what CHOOSE picks first.                              *)
LEMMA SumStep ==
  ASSUME NEW g, NEW S, IsFiniteSet(S)
  PROVE  /\ S = {} => SumFunctionOnSet(g, S) = 0
         /\ S # {} => SumFunctionOnSet(g, S) =
                        g[Choice(S)] + SumFunctionOnSet(g, S \ {Choice(S)})
<1> DEFINE R == S \ {Choice(S)}
           h == CHOOSE f : SumIs(f, g, S)
           k == CHOOSE f : SumIs(f, g, R)
<1>1. SumIs(h, g, S) BY SumExists
<1>2. IsFiniteSet(R) BY FS_Subset
<1>3. SumIs(k, g, R) BY <1>2, SumExists
<1>4. SumFunctionOnSet(g, S) = h[S] /\ SumFunctionOnSet(g, R) = k[R]
  BY SumUnfold
<1> HIDE DEF h, k
<1>5. h[R] = k[R] BY <1>1, <1>2, <1>3, SumUnique
<1>6. h[S] = IF S = {} THEN 0 ELSE g[Choice(S)] + h[R]
  BY <1>1 DEF SumIs
<1>7. QED BY <1>4, <1>5, <1>6

(* What holds of the empty set and is passed on by every element.          *)
LEMMA SetInduct ==
  ASSUME NEW S, IsFiniteSet(S), NEW P, {} \in P,
         \A T \in SUBSET S : \A x \in S \ T : T \in P => T \cup {x} \in P
  PROVE  S \in P
<1> DEFINE Bad == {n \in Nat : \E U \in SUBSET S :
                                 Cardinality(U) = n /\ U \notin P}
<1>1. \A U \in SUBSET S : IsFiniteSet(U) /\ Cardinality(U) \in Nat
  BY FS_Subset, FS_CardinalityType
<1>2. Bad = {}
  <2> SUFFICES ASSUME Bad # {} PROVE FALSE OBVIOUS
  <2>1. PICK n \in Bad : \A m \in Bad : n <= m BY Least
  <2>2. PICK U \in SUBSET S : Cardinality(U) = n /\ U \notin P BY <2>1
  <2>3. PICK x \in U : TRUE BY <2>2
  <2>4. U \ {x} \in SUBSET S /\ Cardinality(U \ {x}) = n - 1
        /\ Cardinality(U \ {x}) \in Nat
    BY <1>1, <2>2, Smaller
  <2>5. U \ {x} \in P BY <2>1, <2>4
  <2>6. (U \ {x}) \cup {x} = U /\ x \in S \ (U \ {x}) BY <2>2
  <2>7. QED BY <2>2, <2>4, <2>5, <2>6
<1>3. QED BY <1>1, <1>2

LEMMA SumEmpty == ASSUME NEW g PROVE SumFunctionOnSet(g, {}) = 0
BY SumStep, FS_EmptySet

(* A sum of natural numbers is one.                                        *)
LEMMA SumType ==
  ASSUME NEW g, NEW S, IsFiniteSet(S), \A x \in S : g[x] \in Nat
  PROVE  SumFunctionOnSet(g, S) \in Nat
<1> DEFINE Bad == {n \in Nat : \E U \in SUBSET S :
                     Cardinality(U) = n /\ SumFunctionOnSet(g, U) \notin Nat}
<1>1. \A U \in SUBSET S : IsFiniteSet(U) /\ Cardinality(U) \in Nat
  BY FS_Subset, FS_CardinalityType
<1>2. Bad = {}
  <2> SUFFICES ASSUME Bad # {} PROVE FALSE OBVIOUS
  <2>1. PICK n \in Bad : \A m \in Bad : n <= m BY Least
  <2>2. PICK U \in SUBSET S : Cardinality(U) = n
                              /\ SumFunctionOnSet(g, U) \notin Nat
    BY <2>1
  <2>3. U # {}
    <3>1. SumFunctionOnSet(g, {}) \in Nat BY SumEmpty
    <3>2. QED BY <2>2, <3>1
  <2> DEFINE V == U \ {Choice(U)}
  <2>4. V \in SUBSET S /\ Cardinality(V) = n - 1 /\ Cardinality(V) \in Nat
        /\ Choice(U) \in S
    BY <1>1, <2>2, <2>3, ChoiceIn, Smaller
  <2>5. SumFunctionOnSet(g, V) \in Nat BY <2>1, <2>4
  <2>6. SumFunctionOnSet(g, U) = g[Choice(U)] + SumFunctionOnSet(g, V)
    BY <1>1, <2>2, <2>3, SumStep
  <2>7. QED BY <2>2, <2>4, <2>5, <2>6
<1>3. QED BY <1>1, <1>2

(* The order in which the elements are taken does not matter.              *)
LEMMA Swapped ==
  ASSUME NEW U, NEW a, NEW b
  PROVE  (U \ {a}) \ {b} = (U \ {b}) \ {a}
OBVIOUS

(* Any element may be taken out first.                                     *)
LEMMA SumRemove ==
  ASSUME NEW g, NEW S, IsFiniteSet(S), \A x \in S : g[x] \in Nat, NEW x \in S
  PROVE  SumFunctionOnSet(g, S) = g[x] + SumFunctionOnSet(g, S \ {x})
<1> DEFINE Sum(U) == SumFunctionOnSet(g, U)
           Bad == {n \in Nat : \E U \in SUBSET S : \E y \in U :
                     Cardinality(U) = n /\ Sum(U) # g[y] + Sum(U \ {y})}
<1>1. \A U \in SUBSET S : IsFiniteSet(U) /\ Cardinality(U) \in Nat
                          /\ Sum(U) \in Nat
  BY FS_Subset, FS_CardinalityType, SumType
<1>2. \A U \in SUBSET S : U # {} =>
        Choice(U) \in U /\ Sum(U) = g[Choice(U)] + Sum(U \ {Choice(U)})
  BY <1>1, SumStep, ChoiceIn
<1>3. \A U \in SUBSET S : \A y \in U :
        Cardinality(U \ {y}) = Cardinality(U) - 1
  BY <1>1, Smaller
<1>4. Bad = {}
  <2> SUFFICES ASSUME Bad # {} PROVE FALSE OBVIOUS
  <2>1. PICK n \in Bad : \A m \in Bad : n <= m BY Least
  <2>a. PICK U \in SUBSET S : \E y \in U :
          Cardinality(U) = n /\ Sum(U) # g[y] + Sum(U \ {y})
    BY <2>1
  <2>2. PICK y \in U : Cardinality(U) = n /\ Sum(U) # g[y] + Sum(U \ {y})
    BY <2>a
  <2> DEFINE c == Choice(U)
             W == (U \ {c}) \ {y}
  <2>3. c \in U /\ Sum(U) = g[c] + Sum(U \ {c}) BY <1>2, <2>2
  <2>4. c # y BY <2>2, <2>3
  <2> HIDE DEF c
  <2>5. n - 1 \in Nat /\ n - 1 \notin Bad
    <3>1. Cardinality(U \ {c}) = n - 1 /\ Cardinality(U \ {c}) \in Nat
      BY <1>1, <1>3, <2>2, <2>3
    <3>2. QED BY <2>1, <3>1
  <2>6. \A V \in SUBSET S : \A z \in V :
          Cardinality(V) = n - 1 => Sum(V) = g[z] + Sum(V \ {z})
    BY <2>5
  <2>7. Sum(U \ {c}) = g[y] + Sum(W)
    <3>1. U \ {c} \in SUBSET S /\ y \in U \ {c}
          /\ Cardinality(U \ {c}) = n - 1
      BY <1>3, <2>2, <2>3, <2>4
    <3>2. QED BY <2>6, <3>1
  <2>8. (U \ {y}) \ {c} = W BY Swapped
  <2>9. Sum(U \ {y}) = g[c] + Sum(W)
    <3>1. U \ {y} \in SUBSET S /\ c \in U \ {y}
          /\ Cardinality(U \ {y}) = n - 1
      BY <1>3, <2>2, <2>3, <2>4
    <3>2. Sum(U \ {y}) = g[c] + Sum((U \ {y}) \ {c}) BY <2>6, <3>1
    <3>3. QED BY <3>2, <2>8
  <2>10. Sum(W) \in Nat /\ g[c] \in Nat /\ g[y] \in Nat
    BY <1>1, <2>2, <2>3
  <2> HIDE DEF W, Sum
  <2>11. QED BY <2>2, <2>3, <2>7, <2>9, <2>10
<1>5. QED BY <1>1, <1>4

(* An element is added.                                                    *)
LEMMA SumAdd ==
  ASSUME NEW g, NEW S, IsFiniteSet(S), NEW x, x \notin S,
         \A y \in S \cup {x} : g[y] \in Nat
  PROVE  SumFunctionOnSet(g, S \cup {x}) = g[x] + SumFunctionOnSet(g, S)
<1>1. IsFiniteSet(S \cup {x}) BY FS_AddElement
<1>2. (S \cup {x}) \ {x} = S OBVIOUS
<1>3. QED BY <1>1, <1>2, SumRemove

(* Functions that agree have the same sum.                                 *)
LEMMA SumSame ==
  ASSUME NEW g, NEW f, NEW S, IsFiniteSet(S),
         \A x \in S : g[x] \in Nat /\ f[x] = g[x]
  PROVE  SumFunctionOnSet(f, S) = SumFunctionOnSet(g, S)
<1> DEFINE P == {T \in SUBSET S :
                   SumFunctionOnSet(f, T) = SumFunctionOnSet(g, T)}
<1>1. {} \in P BY SumEmpty
<1>2. ASSUME NEW T \in SUBSET S, NEW x \in S \ T, T \in P
      PROVE  T \cup {x} \in P
  <2>1. IsFiniteSet(T) BY FS_Subset
  <2>2. SumFunctionOnSet(f, T \cup {x}) = f[x] + SumFunctionOnSet(f, T)
    BY <2>1, SumAdd
  <2>3. SumFunctionOnSet(g, T \cup {x}) = g[x] + SumFunctionOnSet(g, T)
    BY <2>1, SumAdd
  <2>4. QED BY <1>2, <2>2, <2>3
<1>3. S \in P BY <1>1, <1>2, SetInduct
<1>4. QED BY <1>3

(* Elements that contribute nothing can be left out.                       *)
LEMMA SumWithin ==
  ASSUME NEW g, NEW S, IsFiniteSet(S), NEW R \in SUBSET S,
         \A x \in R : g[x] \in Nat, \A x \in S \ R : g[x] = 0
  PROVE  SumFunctionOnSet(g, S) = SumFunctionOnSet(g, R)
<1> DEFINE P == {T \in SUBSET S :
                   SumFunctionOnSet(g, T) = SumFunctionOnSet(g, T \cap R)}
<1>0. \A x \in S : g[x] \in Nat OBVIOUS
<1>1. {} \in P
  <2>1. {} \cap R = {} OBVIOUS
  <2>2. QED BY <2>1
<1>2. ASSUME NEW T \in SUBSET S, NEW x \in S \ T, T \in P
      PROVE  T \cup {x} \in P
  <2>1. IsFiniteSet(T) /\ IsFiniteSet(T \cap R) BY FS_Subset
  <2>2. SumFunctionOnSet(g, T \cup {x}) = g[x] + SumFunctionOnSet(g, T)
    BY <1>0, <2>1, SumAdd
  <2>3. CASE x \in R
    <3>1. (T \cup {x}) \cap R = (T \cap R) \cup {x} BY <2>3
    <3>2. SumFunctionOnSet(g, (T \cap R) \cup {x})
            = g[x] + SumFunctionOnSet(g, T \cap R)
      BY <1>0, <2>1, <2>3, SumAdd
    <3>3. QED BY <1>2, <2>2, <3>1, <3>2
  <2>4. CASE x \notin R
    <3>1. (T \cup {x}) \cap R = T \cap R BY <2>4
    <3>2. g[x] = 0 BY <2>4
    <3>3. SumFunctionOnSet(g, T) \in Nat BY <1>0, <2>1, SumType
    <3>4. SumFunctionOnSet(g, T \cup {x}) = SumFunctionOnSet(g, T)
      BY <2>2, <3>2, <3>3
    <3>5. SumFunctionOnSet(g, T) = SumFunctionOnSet(g, T \cap R) BY <1>2
    <3>6. QED BY <3>1, <3>4, <3>5
  <2>5. QED BY <2>3, <2>4
<1>3. S \in P BY <1>1, <1>2, SetInduct
<1>4. S \cap R = R OBVIOUS
<1>5. QED BY <1>3, <1>4

(* Elements may be renamed.                                                *)
LEMMA SumRenamed ==
  ASSUME NEW g, NEW f, NEW S, IsFiniteSet(S), NEW to,
         NEW R,
         to \in [S -> R], \A y \in R : \E x \in S : y = to[x],
         \A x, y \in S : to[x] = to[y] => x = y,
         \A x \in S : g[to[x]] \in Nat /\ f[x] = g[to[x]]
  PROVE  IsFiniteSet(R) /\ SumFunctionOnSet(f, S) = SumFunctionOnSet(g, R)
<1> DEFINE Image(T) == {to[x] : x \in T}
           P == {T \in SUBSET S :
                   /\ IsFiniteSet(Image(T))
                   /\ SumFunctionOnSet(f, T) = SumFunctionOnSet(g, Image(T))}
<1>1. {} \in P
  <2>1. Image({}) = {} OBVIOUS
  <2>2. QED BY <2>1, SumEmpty, FS_EmptySet
<1>2. ASSUME NEW T \in SUBSET S, NEW x \in S \ T, T \in P
      PROVE  T \cup {x} \in P
  <2>1. IsFiniteSet(T) BY FS_Subset
  <2>2. Image(T \cup {x}) = Image(T) \cup {to[x]} OBVIOUS
  <2>3. to[x] \notin Image(T) OBVIOUS
  <2>4. \A y \in Image(T) \cup {to[x]} : g[y] \in Nat OBVIOUS
  <2>5. IsFiniteSet(Image(T)) BY <1>2
  <2> HIDE DEF Image
  <2>6. SumFunctionOnSet(g, Image(T) \cup {to[x]})
          = g[to[x]] + SumFunctionOnSet(g, Image(T))
    BY <2>3, <2>4, <2>5, SumAdd
  <2>7. SumFunctionOnSet(f, T \cup {x}) = f[x] + SumFunctionOnSet(f, T)
    BY <2>1, SumAdd
  <2>8. IsFiniteSet(Image(T) \cup {to[x]}) BY <2>5, FS_AddElement
  <2>9. QED BY <1>2, <2>2, <2>6, <2>7, <2>8
<1>3. S \in P
  <2> HIDE DEF P
  <2>1. QED BY <1>1, <1>2, SetInduct
<1>4. Image(S) = R OBVIOUS
<1>5. QED BY <1>3, <1>4

(* A sum by classes.                                                       *)
ClassOf(S, class, k) == {x \in S : class[x] = k}

LEMMA SumClasses ==
  ASSUME NEW g, NEW S, IsFiniteSet(S), \A x \in S : g[x] \in Nat,
         NEW K, IsFiniteSet(K), NEW class, NEW part,
         \A x \in S : class[x] \in K,
         \A k \in K : part[k] = SumFunctionOnSet(g, ClassOf(S, class, k))
  PROVE  SumFunctionOnSet(g, S) = SumFunctionOnSet(part, K)
<1> DEFINE Of(k) == {x \in S : class[x] = k}
           In(L) == {x \in S : class[x] \in L}
           Sum(T) == SumFunctionOnSet(g, T)
           P == {L \in SUBSET K : Sum(In(L)) = SumFunctionOnSet(part, L)}
<1>0. \A T \in SUBSET S : IsFiniteSet(T) /\ Sum(T) \in Nat
  BY FS_Subset, SumType
<1>1. {} \in P
  <2>1. In({}) = {} OBVIOUS
  <2>2. QED BY <2>1, SumEmpty
<1>2. \A k \in K : part[k] = Sum(Of(k)) /\ part[k] \in Nat BY <1>0 DEF ClassOf
<1>3. ASSUME NEW L \in SUBSET K, NEW k \in K \ L, L \in P
      PROVE  L \cup {k} \in P
  <2>1. IsFiniteSet(L) BY FS_Subset
  <2>2. SumFunctionOnSet(part, L \cup {k})
          = part[k] + SumFunctionOnSet(part, L)
    BY <1>2, <2>1, SumAdd
  <2> DEFINE Q == {T \in SUBSET Of(k) :
                     Sum(In(L) \cup T) = Sum(T) + Sum(In(L))}
  <2>3. {} \in Q
    <3>1. In(L) \cup {} = In(L) OBVIOUS
    <3>2. Sum(In(L)) \in Nat BY <1>0
    <3>3. QED BY <3>1, <3>2, SumEmpty
  <2>4. ASSUME NEW T \in SUBSET Of(k), NEW x \in Of(k) \ T, T \in Q
        PROVE  T \cup {x} \in Q
    <3>1. In(L) \cup T \in SUBSET S /\ x \notin In(L) \cup T /\ x \in S
      OBVIOUS
    <3>2. Sum((In(L) \cup T) \cup {x}) = g[x] + Sum(In(L) \cup T)
      BY <3>1, <1>0, SumAdd
    <3>3. Sum(T \cup {x}) = g[x] + Sum(T) BY <1>0, SumAdd
    <3>4. (In(L) \cup T) \cup {x} = In(L) \cup (T \cup {x}) OBVIOUS
    <3>5. Sum(T) \in Nat /\ Sum(In(L)) \in Nat /\ g[x] \in Nat BY <1>0
    <3>6. Sum(In(L) \cup T) = Sum(T) + Sum(In(L)) BY <2>4
    <3>7. Sum(In(L) \cup (T \cup {x})) = Sum(T \cup {x}) + Sum(In(L))
      <4>1. Sum(In(L) \cup (T \cup {x})) = g[x] + (Sum(T) + Sum(In(L)))
        BY <3>2, <3>4, <3>6
      <4>2. \A a, b, c \in Nat : a + (b + c) = (a + b) + c OBVIOUS
      <4>3. QED BY <3>3, <3>5, <4>1, <4>2
    <3>8. QED BY <3>7
  <2>5. IsFiniteSet(Of(k)) BY <1>0
  <2>6. Of(k) \in Q
    <3> HIDE DEF Q, Of
    <3>1. QED BY <2>3, <2>4, <2>5, SetInduct
  <2>7. In(L) \cup Of(k) = In(L \cup {k}) OBVIOUS
  <2>8. Sum(In(L \cup {k})) = Sum(Of(k)) + Sum(In(L)) BY <2>6, <2>7
  <2>9. Sum(In(L)) = SumFunctionOnSet(part, L) BY <1>3
  <2>10. Sum(In(L \cup {k})) = SumFunctionOnSet(part, L \cup {k})
    <3> HIDE DEF Sum, In, Of
    <3>1. QED BY <1>2, <2>2, <2>8, <2>9
  <2>11. QED BY <2>10
<1>4. K \in P
  <2> HIDE DEF P
  <2>1. QED BY <1>1, <1>3, SetInduct
<1>5. In(K) = S OBVIOUS
<1>6. QED BY <1>4, <1>5

(* What holds at 0 and is passed on holds up to n.                         *)
LEMMA Induct ==
  ASSUME NEW n \in Nat, NEW S, 0 \in S,
         \A k \in 1 .. n : k - 1 \in S => k \in S
  PROVE  \A k \in 0 .. n : k \in S
<1> DEFINE B == {k \in 0 .. n : k \notin S}
<1> SUFFICES ASSUME B # {} PROVE FALSE OBVIOUS
<1>1. PICK x \in B : \A y \in B : x <= y
  <2>1. B \in SUBSET Nat OBVIOUS
  <2>2. QED BY <2>1, Least
<1>2. x \in 1 .. n /\ x - 1 \in 0 .. n /\ x - 1 \notin B BY <1>1
<1>3. QED BY <1>1, <1>2

(* Min of a set of numbers is its least element.                           *)
LEMMA MinIs ==
  ASSUME NEW S \in SUBSET Nat, S # {}
  PROVE  Min(S) \in S /\ \A x \in S : Min(S) <= x
BY Least DEF Min

LEMMA Products ==
  /\ \A x, y \in Nat : x * y \in Nat
  /\ \A y \in Nat : 0 * y = 0
OBVIOUS

(* Division by a positive number keeps the order.                          *)
LEMMA DivMono ==
  ASSUME NEW x \in Nat, NEW y \in Nat, x <= y, NEW n \in Nat \ {0}
  PROVE  x \div n \in Nat /\ y \div n \in Nat /\ x \div n <= y \div n
OBVIOUS

-----------------------------------------------------------------------------
(* More sums.                                                              *)

(* Nothing adds up to nothing.                                             *)
LEMMA SumZero ==
  ASSUME NEW g, NEW S, IsFiniteSet(S), \A x \in S : g[x] = 0
  PROVE  SumFunctionOnSet(g, S) = 0
<1>1. SumFunctionOnSet(g, S) = SumFunctionOnSet(g, {}) BY SumWithin
<1>2. QED BY <1>1, SumEmpty

(* The sum of a sum of functions.                                          *)
LEMMA SumPlus ==
  ASSUME NEW f, NEW g, NEW h, NEW S, IsFiniteSet(S),
         \A x \in S : f[x] \in Nat /\ g[x] \in Nat /\ h[x] = f[x] + g[x]
  PROVE  SumFunctionOnSet(h, S)
           = SumFunctionOnSet(f, S) + SumFunctionOnSet(g, S)
<1> DEFINE P == {T \in SUBSET S :
                   SumFunctionOnSet(h, T)
                     = SumFunctionOnSet(f, T) + SumFunctionOnSet(g, T)}
<1>1. {} \in P BY SumEmpty
<1>2. ASSUME NEW T \in SUBSET S, NEW x \in S \ T, T \in P
      PROVE  T \cup {x} \in P
  <2>1. IsFiniteSet(T) BY FS_Subset
  <2>2. SumFunctionOnSet(f, T \cup {x}) = f[x] + SumFunctionOnSet(f, T)
    BY <2>1, SumAdd
  <2>3. SumFunctionOnSet(g, T \cup {x}) = g[x] + SumFunctionOnSet(g, T)
    BY <2>1, SumAdd
  <2>4. SumFunctionOnSet(h, T \cup {x}) = h[x] + SumFunctionOnSet(h, T)
    BY <2>1, SumAdd
  <2>5. SumFunctionOnSet(f, T) \in Nat /\ SumFunctionOnSet(g, T) \in Nat
    BY <2>1, SumType
  <2>6. f[x] \in Nat /\ g[x] \in Nat /\ h[x] = f[x] + g[x] OBVIOUS
  <2>7. QED BY <1>2, <2>2, <2>3, <2>4, <2>5, <2>6
<1>3. S \in P
  <2> HIDE DEF P
  <2>1. QED BY <1>1, <1>2, SetInduct
<1>4. QED BY <1>3

(* A sum of larger numbers is larger.                                      *)
LEMMA SumMono ==
  ASSUME NEW f, NEW g, NEW S, IsFiniteSet(S),
         \A x \in S : f[x] \in Nat /\ g[x] \in Nat /\ f[x] <= g[x]
  PROVE  SumFunctionOnSet(f, S) <= SumFunctionOnSet(g, S)
<1> DEFINE d == [x \in S |-> g[x] - f[x]]
<1>1. \A x \in S : f[x] \in Nat /\ d[x] \in Nat /\ g[x] = f[x] + d[x]
  OBVIOUS
<1>2. \A x \in S : d[x] \in Nat BY <1>1
<1> HIDE DEF d
<1>3. SumFunctionOnSet(g, S)
        = SumFunctionOnSet(f, S) + SumFunctionOnSet(d, S)
  BY <1>1, SumPlus
<1>4. SumFunctionOnSet(f, S) \in Nat /\ SumFunctionOnSet(d, S) \in Nat
  BY <1>2, SumType
<1>5. QED BY <1>3, <1>4

(* Rows and columns of a table add up to the same.                         *)
IsTable(f, turned, row, col, S, T) ==
  /\ \A x \in S : \A y \in T : f[x][y] \in Nat
  /\ \A x \in S : \A y \in T : turned[y][x] = f[x][y]
  /\ \A x \in S : row[x] = SumFunctionOnSet(f[x], T)
  /\ \A y \in T : col[y] = SumFunctionOnSet(turned[y], S)

LEMMA SumSwap ==
  ASSUME NEW S, NEW T, IsFiniteSet(S), IsFiniteSet(T), NEW f, NEW turned,
         NEW row, NEW col, IsTable(f, turned, row, col, S, T)
  PROVE  SumFunctionOnSet(row, S) = SumFunctionOnSet(col, T)
<1> USE DEF IsTable
<1> DEFINE Col(U) == [y \in T |-> SumFunctionOnSet(turned[y], U)]
           P == {U \in SUBSET S :
                   SumFunctionOnSet(row, U) = SumFunctionOnSet(Col(U), T)}
<1>0. \A U \in SUBSET S : IsFiniteSet(U)
        /\ \A y \in T : SumFunctionOnSet(turned[y], U) \in Nat
  <2> TAKE U \in SUBSET S
  <2>1. IsFiniteSet(U) BY FS_Subset
  <2>2. ASSUME NEW y \in T PROVE SumFunctionOnSet(turned[y], U) \in Nat
    <3>1. \A x \in U : turned[y][x] \in Nat OBVIOUS
    <3>2. QED BY <2>1, <3>1, SumType
  <2>3. QED BY <2>1, <2>2
<1>a. \A x \in S : row[x] \in Nat
  <2> TAKE x \in S
  <2>1. \A y \in T : f[x][y] \in Nat OBVIOUS
  <2>2. QED BY <2>1, SumType
<1>1. {} \in P
  <2>1. \A y \in T : Col({})[y] = 0 BY SumEmpty
  <2>2. SumFunctionOnSet(Col({}), T) = 0
    <3> HIDE DEF Col
    <3>1. QED BY <2>1, SumZero
  <2>3. QED BY <2>2, SumEmpty
<1>2. ASSUME NEW U \in SUBSET S, NEW x \in S \ U, U \in P
      PROVE  U \cup {x} \in P
  <2>1. SumFunctionOnSet(row, U \cup {x}) = row[x] + SumFunctionOnSet(row, U)
    BY <1>0, <1>a, SumAdd
  <2>2. ASSUME NEW y \in T
        PROVE  /\ f[x][y] \in Nat /\ Col(U)[y] \in Nat
               /\ Col(U \cup {x})[y] = f[x][y] + Col(U)[y]
    <3>1. \A z \in U \cup {x} : turned[y][z] \in Nat OBVIOUS
    <3>2. SumFunctionOnSet(turned[y], U \cup {x})
            = turned[y][x] + SumFunctionOnSet(turned[y], U)
      BY <1>0, <3>1, SumAdd
    <3>3. QED BY <1>0, <3>2
  <2>3. \A y \in T : /\ f[x][y] \in Nat /\ Col(U)[y] \in Nat
                     /\ Col(U \cup {x})[y] = f[x][y] + Col(U)[y]
    BY <2>2
  <2> HIDE DEF Col
  <2>4. SumFunctionOnSet(Col(U \cup {x}), T)
          = SumFunctionOnSet(f[x], T) + SumFunctionOnSet(Col(U), T)
    <3>1. PICK e, c, d : e = f[x] /\ c = Col(U) /\ d = Col(U \cup {x})
      OBVIOUS
    <3>2. \A y \in T : e[y] \in Nat /\ c[y] \in Nat /\ d[y] = e[y] + c[y]
      BY <2>3, <3>1
    <3>3. SumFunctionOnSet(d, T)
            = SumFunctionOnSet(e, T) + SumFunctionOnSet(c, T)
      BY <3>2, SumPlus
    <3>4. QED BY <3>1, <3>3
  <2>5. SumFunctionOnSet(row, U) = SumFunctionOnSet(Col(U), T)
        /\ row[x] = SumFunctionOnSet(f[x], T)
    BY <1>2 DEF Col
  <2>6. QED BY <2>1, <2>4, <2>5 DEF Col
<1>3. S \in P
  <2> HIDE DEF P
  <2>1. QED BY <1>1, <1>2, SetInduct
<1>4. SumFunctionOnSet(row, S) = SumFunctionOnSet(Col(S), T) BY <1>3
<1>5. \A y \in T : col[y] \in Nat /\ Col(S)[y] = col[y] BY <1>0
<1>6. SumFunctionOnSet(Col(S), T) = SumFunctionOnSet(col, T)
  <2> HIDE DEF Col
  <2>1. QED BY <1>5, SumSame
<1>7. QED BY <1>4, <1>6

(* A level h that rises by g and falls by f from block to block.           *)
Level(h, f, g, lo, hi) ==
  /\ \A b \in lo .. hi : h[b] \in Nat
  /\ \A b \in lo + 1 .. hi :
       f[b] \in Nat /\ g[b] \in Nat /\ f[b] + h[b] = h[b - 1] + g[b]

LEMMA Telescope ==
  ASSUME NEW lo \in Nat, NEW hi \in Nat, lo <= hi, NEW f, NEW g, NEW h,
         Level(h, f, g, lo, hi)
  PROVE  SumFunctionOnSet(f, lo + 1 .. hi) + h[hi]
           = h[lo] + SumFunctionOnSet(g, lo + 1 .. hi)
<1> DEFINE F(n) == SumFunctionOnSet(f, lo + 1 .. lo + n)
           G(n) == SumFunctionOnSet(g, lo + 1 .. lo + n)
           S == {n \in Nat : lo + n <= hi => F(n) + h[lo + n] = h[lo] + G(n)}
<1>0. /\ \A b \in lo .. hi : h[b] \in Nat
      /\ \A b \in lo + 1 .. hi :
           f[b] \in Nat /\ g[b] \in Nat /\ f[b] + h[b] = h[b - 1] + g[b]
  BY DEF Level
<1>1. 0 \in S
  <2>1. lo + 1 .. lo + 0 = {} /\ lo + 0 = lo OBVIOUS
  <2>2. F(0) = 0 /\ G(0) = 0 BY <2>1, SumEmpty
  <2>3. h[lo] \in Nat BY <1>0
  <2>4. F(0) + h[lo + 0] = h[lo] + G(0) BY <2>1, <2>2, <2>3
  <2>5. QED BY <2>4
<1>2. ASSUME NEW n \in 1 .. hi - lo, n - 1 \in S PROVE n \in S
  <2>1. /\ lo + n \in lo + 1 .. hi
        /\ (lo + n) - 1 = lo + (n - 1)
        /\ lo + (n - 1) <= hi /\ lo + (n - 1) \in lo .. hi /\ lo \in lo .. hi
        /\ lo + n \in lo .. hi
        /\ lo + 1 .. lo + n = (lo + 1 .. lo + (n - 1)) \cup {lo + n}
        /\ lo + n \notin lo + 1 .. lo + (n - 1)
        /\ \A b \in (lo + 1 .. lo + (n - 1)) \cup {lo + n} : b \in lo + 1 .. hi
    OBVIOUS
  <2>2. IsFiniteSet(lo + 1 .. lo + (n - 1)) BY FS_Interval
  <2>3. F(n) = f[lo + n] + F(n - 1) BY <1>0, <2>1, <2>2, SumAdd
  <2>4. G(n) = g[lo + n] + G(n - 1) BY <1>0, <2>1, <2>2, SumAdd
  <2>5. F(n - 1) \in Nat /\ G(n - 1) \in Nat
    <3>1. \A b \in lo + 1 .. lo + (n - 1) : f[b] \in Nat /\ g[b] \in Nat
      BY <1>0, <2>1
    <3>2. QED BY <2>2, <3>1, SumType
  <2>6. f[lo + n] \in Nat /\ g[lo + n] \in Nat
        /\ f[lo + n] + h[lo + n] = h[lo + (n - 1)] + g[lo + n]
    BY <1>0, <2>1
  <2>7. h[lo + n] \in Nat /\ h[lo + (n - 1)] \in Nat /\ h[lo] \in Nat BY <1>0, <2>1
  <2>8. F(n - 1) + h[lo + (n - 1)] = h[lo] + G(n - 1) BY <1>2, <2>1
  <2> HIDE DEF F, G
  <2>9. F(n) + h[lo + n] = h[lo] + G(n)
    BY <2>3, <2>4, <2>5, <2>6, <2>7, <2>8
  <2>10. QED BY <2>9
<1>3. hi - lo \in Nat /\ lo + (hi - lo) = hi OBVIOUS
<1>4. hi - lo \in S
  <2> HIDE DEF S
  <2>1. \A k \in 0 .. hi - lo : k \in S BY <1>1, <1>2, <1>3, Induct
  <2>2. QED BY <1>3, <2>1
<1>5. QED BY <1>3, <1>4

(* Levels that never fall by more than f pays for.                         *)
LEMMA TelescopeAtLeast ==
  ASSUME NEW lo \in Nat, NEW hi \in Nat, lo <= hi,
         NEW R, R = lo + 1 .. hi, NEW f, NEW h,
         \A b \in lo .. hi : h[b] \in Nat,
         \A b \in R : f[b] \in Nat /\ f[b] + h[b] >= h[b - 1]
  PROVE  SumFunctionOnSet(f, R) + h[hi] >= h[lo]
<1> DEFINE g == [b \in R |-> f[b] + h[b] - h[b - 1]]
<1>1. \A b \in R :
        f[b] \in Nat /\ g[b] \in Nat /\ f[b] + h[b] = h[b - 1] + g[b]
  <2> TAKE b \in R
  <2>1. b \in lo .. hi /\ b - 1 \in lo .. hi OBVIOUS
  <2>2. h[b] \in Nat /\ h[b - 1] \in Nat /\ f[b] \in Nat
        /\ f[b] + h[b] >= h[b - 1]
    BY <2>1
  <2>3. g[b] = f[b] + h[b] - h[b - 1] OBVIOUS
  <2>4. QED BY <2>2, <2>3
<1> HIDE DEF g
<1>2. SumFunctionOnSet(f, R) + h[hi]
        = h[lo] + SumFunctionOnSet(g, R)
  <2>1. Level(h, f, g, lo, hi) BY <1>1 DEF Level
  <2>2. QED BY <2>1, Telescope
<1>3. SumFunctionOnSet(g, R) \in Nat
  <2>1. IsFiniteSet(R) BY FS_Interval
  <2>2. \A b \in R : g[b] \in Nat BY <1>1
  <2>3. QED BY <2>1, <2>2, SumType
<1>4. h[lo] \in Nat OBVIOUS
<1>5. QED BY <1>2, <1>3, <1>4

(* Levels that fall by what f pays.                                        *)
Drains(f, h, R) == \A b \in R : f[b] \in Nat /\ f[b] + h[b] = h[b - 1]

LEMMA TelescopeExact ==
  ASSUME NEW lo \in Nat, NEW hi \in Nat, lo <= hi,
         NEW R, R = lo + 1 .. hi, NEW f, NEW h,
         \A b \in lo .. hi : h[b] \in Nat,
         Drains(f, h, R)
  PROVE  SumFunctionOnSet(f, R) + h[hi] = h[lo]
<1> DEFINE g == [b \in R |-> 0]
<1>1. \A b \in R :
        f[b] \in Nat /\ g[b] \in Nat /\ f[b] + h[b] = h[b - 1] + g[b]
  <2> TAKE b \in R
  <2>1. b - 1 \in lo .. hi OBVIOUS
  <2>2. h[b - 1] \in Nat BY <2>1
  <2>3. f[b] \in Nat /\ f[b] + h[b] = h[b - 1] BY DEF Drains
  <2>4. QED BY <2>2, <2>3
<1>a. \A b \in R : g[b] = 0 OBVIOUS
<1> HIDE DEF g
<1>2. SumFunctionOnSet(f, R) + h[hi]
        = h[lo] + SumFunctionOnSet(g, R)
  <2>1. Level(h, f, g, lo, hi) BY <1>1 DEF Level
  <2>2. QED BY <2>1, Telescope
<1>3. SumFunctionOnSet(g, R) = 0
  <2>1. IsFiniteSet(R) BY FS_Interval
  <2>2. QED BY <1>a, <2>1, SumZero
<1>4. h[lo] \in Nat OBVIOUS
<1>5. QED BY <1>2, <1>3, <1>4

(* A sum over pairs with a or b is one over their first members.           *)
PairsSum(f, g, K, a, b) ==
  /\ \A p \in K \X {a, b} : f[p] \in Nat
  /\ \A k \in K : g[k] = f[<<k, a>>] + f[<<k, b>>]

LEMMA SumPairs ==
  ASSUME NEW K, IsFiniteSet(K), NEW a, NEW b, a # b, NEW f, NEW g,
         PairsSum(f, g, K, a, b)
  PROVE  /\ IsFiniteSet(K \X {a, b})
         /\ SumFunctionOnSet(f, K \X {a, b}) = SumFunctionOnSet(g, K)
<1> USE DEF PairsSum
<1> DEFINE P == {L \in SUBSET K :
                   /\ IsFiniteSet(L \X {a, b})
                   /\ SumFunctionOnSet(f, L \X {a, b}) = SumFunctionOnSet(g, L)}
<1>0. ASSUME NEW k \in K
      PROVE  f[<<k, a>>] \in Nat /\ f[<<k, b>>] \in Nat /\ g[k] \in Nat
  <2>1. <<k, a>> \in K \X {a, b} /\ <<k, b>> \in K \X {a, b} OBVIOUS
  <2>2. f[<<k, a>>] \in Nat /\ f[<<k, b>>] \in Nat BY <2>1
  <2>3. QED BY <2>2
<1>1. {} \in P
  <2>1. {} \X {a, b} = {} OBVIOUS
  <2>2. QED BY <2>1, SumEmpty, FS_EmptySet
<1>2. ASSUME NEW L \in SUBSET K, NEW k \in K \ L, L \in P
      PROVE  L \cup {k} \in P
  <2>1. (L \cup {k}) \X {a, b} = ((L \X {a, b}) \cup {<<k, a>>}) \cup {<<k, b>>}
    OBVIOUS
  <2> DEFINE A == L \X {a, b}
             B == A \cup {<<k, a>>}
  <2>2. /\ <<k, a>> \notin A /\ <<k, b>> \notin B
        /\ \A p \in B \cup {<<k, b>>} : f[p] \in Nat
        /\ \A p \in B : f[p] \in Nat /\ \A q \in A : f[q] \in Nat
    OBVIOUS
  <2>3. IsFiniteSet(A) BY <1>2
  <2> HIDE DEF A
  <2>4. IsFiniteSet(B) BY <2>3, FS_AddElement
  <2>5. SumFunctionOnSet(f, B) = f[<<k, a>>] + SumFunctionOnSet(f, A)
    BY <2>2, <2>3, SumAdd
  <2> HIDE DEF B
  <2>6. SumFunctionOnSet(f, B \cup {<<k, b>>})
          = f[<<k, b>>] + SumFunctionOnSet(f, B)
    BY <2>2, <2>4, SumAdd
  <2>7. IsFiniteSet(B \cup {<<k, b>>}) BY <2>4, FS_AddElement
  <2>8. IsFiniteSet(L) BY FS_Subset
  <2>9. SumFunctionOnSet(g, L \cup {k}) = g[k] + SumFunctionOnSet(g, L)
    BY <1>0, <2>8, SumAdd
  <2>10. SumFunctionOnSet(g, L) \in Nat BY <1>0, <2>8, SumType
  <2>11. SumFunctionOnSet(f, A) = SumFunctionOnSet(g, L) BY <1>2 DEF A
  <2>12. f[<<k, a>>] \in Nat /\ f[<<k, b>>] \in Nat
         /\ g[k] = f[<<k, a>>] + f[<<k, b>>]
    BY <1>0
  <2>13. SumFunctionOnSet(f, B \cup {<<k, b>>}) = SumFunctionOnSet(g, L \cup {k})
    BY <2>5, <2>6, <2>9, <2>10, <2>11, <2>12
  <2>14. QED BY <2>1, <2>7, <2>13 DEF A, B
<1>3. K \in P
  <2> HIDE DEF P
  <2>1. QED BY <1>1, <1>2, SetInduct
<1>4. QED BY <1>3

(* What never falls lies between its ends.                                 *)
LEMMA Rising ==
  ASSUME NEW lo \in Nat, NEW hi \in Nat, lo <= hi, NEW h,
         \A b \in lo .. hi : h[b] \in Nat,
         \A b \in lo + 1 .. hi : h[b - 1] <= h[b]
  PROVE  \A b \in lo .. hi : h[lo] <= h[b] /\ h[b] <= h[hi]
<1> DEFINE n == hi - lo
           Up == {k \in 0 .. n : h[lo] <= h[lo + k]}
           Down == {k \in 0 .. n : h[hi - k] <= h[hi]}
<1>1. n \in Nat /\ lo + n = hi /\ hi - n = lo OBVIOUS
<1>2. \A k \in 0 .. n : k \in Up
  <2>1. 0 \in Up
    <3>1. lo + 0 = lo /\ h[lo] \in Nat /\ 0 \in 0 .. n OBVIOUS
    <3>2. QED BY <3>1
  <2>2. ASSUME NEW k \in 1 .. n, k - 1 \in Up PROVE k \in Up
    <3>1. lo + k \in lo + 1 .. hi /\ lo + (k - 1) \in lo .. hi
          /\ lo + k \in lo .. hi /\ (lo + k) - 1 = lo + (k - 1)
      OBVIOUS
    <3>2. h[lo + (k - 1)] <= h[lo + k] BY <3>1
    <3>3. h[lo] <= h[lo + (k - 1)] BY <2>2
    <3>4. /\ h[lo] \in Nat /\ h[lo + (k - 1)] \in Nat /\ h[lo + k] \in Nat
      BY <3>1
    <3>5. QED BY <3>2, <3>3, <3>4
  <2> HIDE DEF Up, n
  <2>3. QED BY <1>1, <2>1, <2>2, Induct
<1>3. \A k \in 0 .. n : k \in Down
  <2>1. 0 \in Down
    <3>1. hi - 0 = hi /\ h[hi] \in Nat /\ 0 \in 0 .. n OBVIOUS
    <3>2. QED BY <3>1
  <2>2. ASSUME NEW k \in 1 .. n, k - 1 \in Down PROVE k \in Down
    <3>1. hi - (k - 1) \in lo + 1 .. hi /\ hi - k \in lo .. hi
          /\ hi - (k - 1) \in lo .. hi /\ (hi - (k - 1)) - 1 = hi - k
      OBVIOUS
    <3>2. h[hi - k] <= h[hi - (k - 1)] BY <3>1
    <3>3. h[hi - (k - 1)] <= h[hi] BY <2>2
    <3>4. /\ h[hi] \in Nat /\ h[hi - (k - 1)] \in Nat /\ h[hi - k] \in Nat
      BY <3>1
    <3>5. QED BY <3>2, <3>3, <3>4
  <2> HIDE DEF Down, n
  <2>3. QED BY <1>1, <2>1, <2>2, Induct
<1>4. TAKE b \in lo .. hi
<1>5. b - lo \in 0 .. n /\ hi - b \in 0 .. n /\ lo + (b - lo) = b
      /\ hi - (hi - b) = b
  OBVIOUS
<1>6. b - lo \in Up /\ hi - b \in Down BY <1>2, <1>3, <1>5
<1>7. QED BY <1>5, <1>6

(* A sum that is renamed, and the same without what contributes nothing.   *)
LEMMA SumThrough ==
  ASSUME NEW M, IsFiniteSet(M), NEW debt, NEW col,
         NEW I, NEW value \in [I -> Nat], NEW R \in SUBSET I,
         NEW to \in [M -> I], \A y \in I : \E x \in M : y = to[x],
         \A x, y \in M : to[x] = to[y] => x = y,
         \A m \in M : debt[m] = value[to[m]],
         \A a \in I \ R : value[a] = 0,
         \A a \in R : col[a] = value[a]
  PROVE  SumFunctionOnSet(debt, M) = SumFunctionOnSet(col, R)
<1>1. \A x \in M : value[to[x]] \in Nat /\ debt[x] = value[to[x]]
  OBVIOUS
<1>2. IsFiniteSet(I)
      /\ SumFunctionOnSet(debt, M) = SumFunctionOnSet(value, I)
  BY <1>1, SumRenamed
<1>3. SumFunctionOnSet(value, I) = SumFunctionOnSet(value, R)
  BY <1>2, SumWithin
<1>4. IsFiniteSet(R) BY <1>2, FS_Subset
<1>5. SumFunctionOnSet(col, R) = SumFunctionOnSet(value, R)
  BY <1>4, SumSame
<1>6. QED BY <1>2, <1>3, <1>5
=============================================================================
