----------------------------- MODULE Cart_proofs -----------------------------
(***************************************************************************)
(* Proofs about Cart, for any number of users, handlers, carts, skus,      *)
(* requests and failures, any catalogue, any voucher payloads and any      *)
(* width of the quantity column.  First what sums, quantities, vouchers    *)
(* and prices are, then an invariant that each step keeps, one lemma per   *)
(* action, then the properties of Cart.                                    *)
(***************************************************************************)
EXTENDS Cart, FiniteSetTheorems, WellFoundedInduction, TLAPS

----------------------------------------------------------------------------
\* Sums.  SumFunction is a fold: a function on the subsets of the domain that
\* is defined by recursion on them.  What is needed of it is proved from a
\* smallest counterexample among the subsets of a finite set.

\* A non-empty family of subsets of a finite set has a smallest member.
LEMMA SmallestSubset ==
    ASSUME NEW S, IsFiniteSet(S), NEW B, B \subseteq SUBSET S, B # {}
    PROVE  \E U \in B : \A V \in B : V \subseteq U => V = U
<1>1. IsWellFoundedOn(StrictSubsetOrdering(S), SUBSET S)
  BY FS_StrictSubsetOrderingWellFounded, FS_FiniteSubsetsOfFinite, Zenon
<1>2. PICK U \in B : \A V \in B : ~(<<V, U>> \in StrictSubsetOrdering(S))
  BY <1>1, WFMin, Zenon
<1>3. ASSUME NEW V \in B, V \subseteq U, V # U
      PROVE  FALSE
  <2>1. <<V, U>> \in (SUBSET S) \X (SUBSET S)
    OBVIOUS
  <2> QED
    BY <1>2, <1>3, <2>1 DEF StrictSubsetOrdering
<1> QED
  BY <1>3

\* The recursion of the fold.
Folds(f, S, g) ==
    g = [s \in SUBSET S |-> IF s = {} THEN 0
                            ELSE f[CHOOSE x \in s : TRUE] + g[s \ {CHOOSE x \in s : TRUE}]]
First(s) == CHOOSE x \in s : TRUE

LEMMA FirstIn == ASSUME NEW s, s # {} PROVE First(s) \in s
  BY Zenon DEF First

LEMMA FoldsAt ==
    ASSUME NEW f, NEW S, NEW g, Folds(f, S, g)
    PROVE  /\ g[{}] = 0
           /\ \A s \in SUBSET S : s # {} => g[s] = f[First(s)] + g[s \ {First(s)}]
<1>1. \A s \in SUBSET S : g[s] = IF s = {} THEN 0 ELSE f[First(s)] + g[s \ {First(s)}]
  BY Zenon DEF Folds, First
<1> QED
  BY <1>1

\* Two folds agree where both are defined.
LEMMA FoldsAgree ==
    ASSUME NEW f, NEW S, IsFiniteSet(S), NEW T \in SUBSET S, NEW g, NEW h, Folds(f, S, g), Folds(f, T, h)
    PROVE  \A U \in SUBSET T : g[U] = h[U]
<1> DEFINE B == {U \in SUBSET T : g[U] # h[U]}
<1>1. SUFFICES ASSUME B # {} PROVE FALSE
  OBVIOUS
<1>2. IsFiniteSet(T)
  BY FS_Subset
<1>3. PICK U \in B : \A V \in B : V \subseteq U => V = U
  <2> HIDE DEF B
  <2>1. B \subseteq SUBSET T
    BY DEF B
  <2> QED
    BY <1>1, <1>2, <2>1, SmallestSubset
<1>4. U # {}
  BY FoldsAt, Zenon
<1>5. /\ g[U] = f[First(U)] + g[U \ {First(U)}]
      /\ h[U] = f[First(U)] + h[U \ {First(U)}]
  BY FoldsAt, <1>4, <1>3
<1>6. U \ {First(U)} \notin B
  BY <1>3, <1>4, FirstIn
<1>7. g[U \ {First(U)}] = h[U \ {First(U)}]
  BY <1>6
<1> QED
  BY <1>3, <1>5, <1>7

\* The fold of a finite set exists.
LEMMA FoldsExist ==
    ASSUME NEW f, NEW S, IsFiniteSet(S)
    PROVE  \E g : Folds(f, S, g)
<1> DEFINE B == {U \in SUBSET S : ~\E g : Folds(f, U, g)}
<1>1. SUFFICES ASSUME B # {} PROVE FALSE
  OBVIOUS
<1>2. PICK U \in B : \A V \in B : V \subseteq U => V = U
  <2> HIDE DEF B
  <2>1. B \subseteq SUBSET S
    BY DEF B
  <2> QED
    BY <1>1, <2>1, SmallestSubset
<1> DEFINE G(V) == CHOOSE g : Folds(f, V, g)
           k == [V \in SUBSET U |-> IF V = {} THEN 0 ELSE f[First(V)] + G(V \ {First(V)})[V \ {First(V)}]]
<1>3. \A V \in SUBSET U : V # U => Folds(f, V, G(V))
  <2> SUFFICES ASSUME NEW V \in SUBSET U, V # U PROVE \E g : Folds(f, V, g)
    BY Zenon
  <2> QED
    BY <1>2
<1>4. ASSUME NEW V \in SUBSET U, V # U
      PROVE  k[V] = G(V)[V]
  <2>1. Folds(f, V, G(V))
    BY <1>3, <1>4
  <2>2. CASE V = {}
    <3>1. G(V)[{}] = 0
      BY <2>1, FoldsAt, Zenon
    <3> QED
      BY <3>1, <2>2
  <2>3. CASE V # {}
    <3> DEFINE W == V \ {First(V)}
    <3>1. W \in SUBSET V /\ W \in SUBSET U /\ W # U
      BY <2>3, FirstIn
    <3>2. Folds(f, W, G(W))
      BY <3>1, <1>3, Zenon
    <3>3. IsFiniteSet(V)
      BY <1>2, FS_Subset
    <3>4. G(V)[W] = G(W)[W]
      <4> HIDE DEF W, G
      <4>1. \A X \in SUBSET W : G(V)[X] = G(W)[X]
        BY <2>1, <3>1, <3>2, <3>3, FoldsAgree
      <4> QED
        BY <4>1
    <3>5. G(V)[V] = f[First(V)] + G(V)[W]
      BY <2>1, <2>3, FoldsAt
    <3>6. k[V] = f[First(V)] + G(W)[W]
      BY <2>3
    <3> QED
      BY <3>4, <3>5, <3>6
  <2> QED
    BY <2>2, <2>3
<1>5. Folds(f, U, k)
  <2> HIDE DEF G
  <2>1. \A V \in SUBSET U : V # {} => k[V \ {First(V)}] = G(V \ {First(V)})[V \ {First(V)}]
    <3> SUFFICES ASSUME NEW V \in SUBSET U, V # {}
                 PROVE  k[V \ {First(V)}] = G(V \ {First(V)})[V \ {First(V)}]
      BY Zenon
    <3>1. V \ {First(V)} \in SUBSET U /\ V \ {First(V)} # U
      BY FirstIn
    <3> HIDE DEF k
    <3> QED
      BY <3>1, <1>4
  <2>2. \A V \in SUBSET U : k[V] = IF V = {} THEN 0 ELSE f[First(V)] + k[V \ {First(V)}]
    <3> SUFFICES ASSUME NEW V \in SUBSET U
                 PROVE  k[V] = IF V = {} THEN 0 ELSE f[First(V)] + k[V \ {First(V)}]
      BY Zenon
    <3>1. k[V] = IF V = {} THEN 0 ELSE f[First(V)] + G(V \ {First(V)})[V \ {First(V)}]
      BY Zenon
    <3> HIDE DEF k
    <3> QED
      BY <2>1, <3>1
  <2>3. k = [V \in SUBSET U |-> k[V]]
    BY Zenon
  <2> HIDE DEF k
  <2>4. k = [V \in SUBSET U |-> IF V = {} THEN 0 ELSE f[First(V)] + k[V \ {First(V)}]]
    BY <2>2, <2>3, Zenon
  <2> QED
    BY <2>4, Zenon DEF Folds, First
<1> QED
  BY <1>2, <1>5

\* So the sum over a finite set is its fold.
LEMMA SumFolds ==
    ASSUME NEW f, NEW S, IsFiniteSet(S)
    PROVE  \E g : Folds(f, S, g) /\ SumFunctionOnSet(f, S) = g[S]
<1> DEFINE g == CHOOSE g : Folds(f, S, g)
<1>1. Folds(f, S, g)
  BY FoldsExist, Zenon
<1>2. SumFunctionOnSet(f, S) = g[S]
  BY Zenon DEF SumFunctionOnSet, FoldFunctionOnSet, MapThenFoldSet, Folds
<1> QED
  BY <1>1, <1>2, Zenon

LEMMA SumEmpty == ASSUME NEW f PROVE SumFunctionOnSet(f, {}) = 0
  BY SumFolds, FoldsAt, FS_EmptySet

\* The sum over a set is one of its values more than the sum over the rest.
LEMMA SumFirst ==
    ASSUME NEW f, NEW S, IsFiniteSet(S), S # {}
    PROVE  SumFunctionOnSet(f, S) = f[First(S)] + SumFunctionOnSet(f, S \ {First(S)})
<1> DEFINE T == S \ {First(S)}
<1>1. T \in SUBSET S /\ IsFiniteSet(T)
  BY FS_Subset
<1>2. PICK g : Folds(f, S, g) /\ SumFunctionOnSet(f, S) = g[S]
  BY SumFolds
<1>3. PICK h : Folds(f, T, h) /\ SumFunctionOnSet(f, T) = h[T]
  BY SumFolds, <1>1
<1>4. g[T] = h[T]
  <2> HIDE DEF T
  <2>1. \A U \in SUBSET T : g[U] = h[U]
    BY <1>1, <1>2, <1>3, FoldsAgree
  <2> QED
    BY <2>1
<1>5. g[S] = f[First(S)] + g[T]
  BY <1>2, FoldsAt
<1> QED
  BY <1>2, <1>3, <1>4, <1>5

Integral(f, S) == \A x \in S : f[x] \in Int

\* A sum of integers is an integer.
LEMMA SumInt ==
    ASSUME NEW f, NEW S, IsFiniteSet(S), Integral(f, S)
    PROVE  SumFunctionOnSet(f, S) \in Int
<1> DEFINE B == {U \in SUBSET S : SumFunctionOnSet(f, U) \notin Int}
<1>1. SUFFICES ASSUME B # {} PROVE FALSE
  OBVIOUS
<1>2. PICK U \in B : \A V \in B : V \subseteq U => V = U
  <2> HIDE DEF B
  <2>1. B \subseteq SUBSET S
    BY DEF B
  <2> QED
    BY <1>1, <2>1, SmallestSubset
<1>3. U # {}
  <2>1. SumFunctionOnSet(f, {}) = 0
    BY SumEmpty, Zenon
  <2>2. SumFunctionOnSet(f, {}) \in Int
    BY <2>1
  <2> QED
    BY <1>2, <2>2, Zenon
<1>4. IsFiniteSet(U) /\ First(U) \in U
  BY <1>2, <1>3, FS_Subset, FirstIn
<1>5. SumFunctionOnSet(f, U \ {First(U)}) \in Int
  BY <1>2, <1>4
<1>6. f[First(U)] \in Int
  BY <1>2, <1>4 DEF Integral
<1>7. SumFunctionOnSet(f, U) = f[First(U)] + SumFunctionOnSet(f, U \ {First(U)})
  BY <1>3, <1>4, SumFirst
<1> QED
  BY <1>2, <1>5, <1>6, <1>7

\* A sum of natural numbers is a natural number.
LEMMA SumNat ==
    ASSUME NEW f, NEW S, IsFiniteSet(S), \A x \in S : f[x] \in Nat
    PROVE  SumFunctionOnSet(f, S) \in Nat
<1> DEFINE B == {U \in SUBSET S : SumFunctionOnSet(f, U) \notin Nat}
<1>1. SUFFICES ASSUME B # {} PROVE FALSE
  OBVIOUS
<1>2. PICK U \in B : \A V \in B : V \subseteq U => V = U
  <2> HIDE DEF B
  <2>1. B \subseteq SUBSET S
    BY DEF B
  <2> QED
    BY <1>1, <2>1, SmallestSubset
<1>3. U # {}
  <2>1. SumFunctionOnSet(f, {}) = 0
    BY SumEmpty, Zenon
  <2>2. SumFunctionOnSet(f, {}) \in Nat
    BY <2>1
  <2> QED
    BY <1>2, <2>2, Zenon
<1>4. IsFiniteSet(U) /\ First(U) \in U
  BY <1>2, <1>3, FS_Subset, FirstIn
<1>5. SumFunctionOnSet(f, U \ {First(U)}) \in Nat
  BY <1>2, <1>4
<1>6. f[First(U)] \in Nat
  BY <1>2, <1>4
<1>7. SumFunctionOnSet(f, U) = f[First(U)] + SumFunctionOnSet(f, U \ {First(U)})
  BY <1>3, <1>4, SumFirst
<1> QED
  BY <1>2, <1>5, <1>6, <1>7

\* It depends on the values only.
LEMMA SumSame ==
    ASSUME NEW f, NEW g, NEW S, IsFiniteSet(S), \A x \in S : f[x] = g[x]
    PROVE  SumFunctionOnSet(f, S) = SumFunctionOnSet(g, S)
<1> DEFINE B == {U \in SUBSET S : SumFunctionOnSet(f, U) # SumFunctionOnSet(g, U)}
<1>1. SUFFICES ASSUME B # {} PROVE FALSE
  OBVIOUS
<1>2. PICK U \in B : \A V \in B : V \subseteq U => V = U
  <2> HIDE DEF B
  <2>1. B \subseteq SUBSET S
    BY DEF B
  <2> QED
    BY <1>1, <2>1, SmallestSubset
<1>3. U # {}
  BY <1>2, SumEmpty
<1>4. IsFiniteSet(U) /\ First(U) \in U
  BY <1>2, <1>3, FS_Subset, FirstIn
<1>5. SumFunctionOnSet(f, U \ {First(U)}) = SumFunctionOnSet(g, U \ {First(U)})
  BY <1>2, <1>4
<1>6. f[First(U)] = g[First(U)]
  BY <1>2, <1>4
<1>7. /\ SumFunctionOnSet(f, U) = f[First(U)] + SumFunctionOnSet(f, U \ {First(U)})
      /\ SumFunctionOnSet(g, U) = g[First(U)] + SumFunctionOnSet(g, U \ {First(U)})
  BY <1>3, <1>4, SumFirst
<1> QED
  BY <1>2, <1>5, <1>6, <1>7

\* Any element may be taken out first.
LEMMA SumOut ==
    ASSUME NEW f, NEW S, IsFiniteSet(S), Integral(f, S), NEW a \in S
    PROVE  SumFunctionOnSet(f, S) = f[a] + SumFunctionOnSet(f, S \ {a})
<1> DEFINE Good(U) == \A x \in U : SumFunctionOnSet(f, U) = f[x] + SumFunctionOnSet(f, U \ {x})
           B == {U \in SUBSET S : ~Good(U)}
<1>1. SUFFICES ASSUME B # {} PROVE FALSE
  OBVIOUS
<1>2. PICK U \in B : \A V \in B : V \subseteq U => V = U
  <2> HIDE DEF B
  <2>1. B \subseteq SUBSET S
    BY DEF B
  <2> QED
    BY <1>1, <2>1, SmallestSubset
<1>3. PICK x \in U : SumFunctionOnSet(f, U) # f[x] + SumFunctionOnSet(f, U \ {x})
  BY <1>2, Zenon
<1>4. IsFiniteSet(U) /\ First(U) \in U /\ U # {} /\ U \subseteq S
  BY <1>2, <1>3, FS_Subset, FirstIn
<1>5. SumFunctionOnSet(f, U) = f[First(U)] + SumFunctionOnSet(f, U \ {First(U)})
  BY <1>4, SumFirst
<1>6. x # First(U)
  BY <1>3, <1>5
<1> DEFINE W == U \ {x, First(U)}
<1>7. (U \ {First(U)}) \ {x} = W /\ (U \ {x}) \ {First(U)} = W
  OBVIOUS
<1>8. /\ U \ {First(U)} \in SUBSET S /\ U \ {First(U)} \subseteq U /\ U \ {First(U)} # U
      /\ U \ {x} \in SUBSET S /\ U \ {x} \subseteq U /\ U \ {x} # U
  BY <1>4
<1>9. Good(U \ {First(U)}) /\ Good(U \ {x})
  <2> HIDE DEF Good
  <2> QED
    BY <1>2, <1>8
<1>10. SumFunctionOnSet(f, U \ {First(U)}) = f[x] + SumFunctionOnSet(f, W)
  BY <1>9, <1>7, <1>6
<1>11. SumFunctionOnSet(f, U \ {x}) = f[First(U)] + SumFunctionOnSet(f, W)
  BY <1>9, <1>7, <1>6, <1>4
<1>12. f[x] \in Int /\ f[First(U)] \in Int /\ SumFunctionOnSet(f, W) \in Int
  <2>1. IsFiniteSet(W) /\ Integral(f, W)
    BY <1>4, FS_Subset DEF Integral
  <2> QED
    BY <2>1, SumInt, <1>4 DEF Integral
<1> QED
  BY <1>3, <1>5, <1>10, <1>11, <1>12

\* Elements that count for nothing may be left out.
LEMMA SumDrop ==
    ASSUME NEW f, NEW S, IsFiniteSet(S), Integral(f, S), NEW T \in SUBSET S, \A x \in S \ T : f[x] = 0
    PROVE  SumFunctionOnSet(f, S) = SumFunctionOnSet(f, T)
<1> DEFINE B == {U \in SUBSET S : SumFunctionOnSet(f, U) # SumFunctionOnSet(f, U \intersect T)}
<1>1. SUFFICES ASSUME B # {} PROVE FALSE
  <2>1. S \intersect T = T
    OBVIOUS
  <2> QED
    BY <2>1
<1>2. PICK U \in B : \A V \in B : V \subseteq U => V = U
  <2> HIDE DEF B
  <2>1. B \subseteq SUBSET S
    BY DEF B
  <2> QED
    BY <1>1, <2>1, SmallestSubset
<1>3. U # {}
  <2>1. {} \intersect T = {}
    OBVIOUS
  <2> QED
    BY <1>2, <2>1
<1>4. IsFiniteSet(U) /\ First(U) \in U /\ U \subseteq S
  BY <1>2, <1>3, FS_Subset, FirstIn
<1> DEFINE a == First(U)
<1> HIDE DEF a
<1>5. SumFunctionOnSet(f, U) = f[a] + SumFunctionOnSet(f, U \ {a})
  BY <1>3, <1>4, SumFirst DEF a
<1>6. SumFunctionOnSet(f, U \ {a}) = SumFunctionOnSet(f, (U \ {a}) \intersect T)
  BY <1>2, <1>4 DEF a
<1>7. CASE a \in T
  <2>1. IsFiniteSet(U \intersect T) /\ Integral(f, U \intersect T) /\ a \in U \intersect T
    BY <1>4, <1>7, FS_Subset DEF Integral, a
  <2>2. SumFunctionOnSet(f, U \intersect T) = f[a] + SumFunctionOnSet(f, (U \intersect T) \ {a})
    BY <2>1, SumOut
  <2>3. (U \intersect T) \ {a} = (U \ {a}) \intersect T
    OBVIOUS
  <2> QED
    BY <1>2, <1>5, <1>6, <2>2, <2>3
<1>8. CASE a \notin T
  <2>1. f[a] = 0
    BY <1>8, <1>4 DEF a
  <2>2. (U \ {a}) \intersect T = U \intersect T
    BY <1>8
  <2>3. IsFiniteSet(U \intersect T) /\ Integral(f, U \intersect T)
    BY <1>4, FS_Subset DEF Integral
  <2>4. SumFunctionOnSet(f, U \intersect T) \in Int
    BY <2>3, SumInt
  <2> QED
    BY <1>2, <1>5, <1>6, <2>1, <2>2, <2>4
<1> QED
  BY <1>7, <1>8

----------------------------------------------------------------------------
\* Arithmetic of the quantity column.

LEMMA Times == ASSUME NEW m \in Nat \ {0}, NEW d \in Int, d >= 1 PROVE m * d >= m
  OBVIOUS

LEMMA Divides ==
    ASSUME NEW m \in Nat \ {0}, NEW y \in Int
    PROVE  y \div m \in Int /\ y % m \in 0..(m - 1) /\ y = m * (y \div m) + (y % m)
  OBVIOUS

LEMMA Remainder ==
    ASSUME NEW m \in Nat \ {0}, NEW y \in Int, NEW p \in Int, NEW r \in 0..(m - 1), y = m * p + r
    PROVE  y % m = r
<1> DEFINE q == y \div m
<1>1. q \in Int /\ y % m \in 0..(m - 1) /\ y = m * q + (y % m)
  BY Divides
<1> HIDE DEF q
<1>2. m * p - m * q = (y % m) - r
  BY <1>1
<1>3. m * p - m * q = m * (p - q) /\ m * q - m * p = m * (q - p)
  BY <1>1
<1>4. ~(p - q >= 1)
  BY <1>1, <1>2, <1>3, Times
<1>5. ~(q - p >= 1)
  BY <1>1, <1>2, <1>3, Times
<1>6. p = q
  BY <1>1, <1>4, <1>5
<1> QED
  BY <1>1, <1>6

LEMMA Shift ==
    ASSUME NEW m \in Nat \ {0}, NEW x \in Int, NEW k \in Int
    PROVE  (x + m * k) % m = x % m
<1>1. x \div m \in Int /\ x % m \in 0..(m - 1) /\ x = m * (x \div m) + (x % m)
  BY Divides
<1>2. PICK p \in Int, r \in 0..(m - 1) : p = (x \div m) + k /\ r = x % m
  BY <1>1
<1>3. PICK y \in Int : y = x + m * k
  OBVIOUS
<1>4. y = m * p + r
  BY <1>1, <1>2, <1>3
<1>5. y % m = r
  BY <1>4, Remainder
<1> QED
  BY <1>2, <1>3, <1>5

\* What is written in the column is in its range.
LEMMA Int32Range ==
    ASSUME NEW n \in Int
    PROVE  Int32(n) \in Int /\ -Half <= Int32(n) /\ Int32(n) < Half
<1>1. 2 * Half \in Nat \ {0}
  BY CartConstants
<1>2. n + Half \in Int
  BY CartConstants
<1>3. (n + Half) % (2 * Half) \in 0..(2 * Half - 1)
  BY <1>1, <1>2, Divides, Zenon
<1> QED
  BY <1>3, CartConstants DEF Int32

\* Converting the quantity before or after the addition makes no difference.
LEMMA Int32Adds ==
    ASSUME NEW a \in Int, NEW n \in Int
    PROVE  Int32(a + Int32(n)) = Int32(a + n)
<1>1. PICK m \in Nat \ {0} : m = 2 * Half
  BY CartConstants
<1>2. Half \in Int
  BY CartConstants
<1>3. PICK y \in Int : y = n + Half
  BY <1>2
<1>4. y \div m \in Int /\ y % m \in 0..(m - 1) /\ y = m * (y \div m) + (y % m)
  BY Divides
<1>5. PICK k \in Int : k = -(y \div m)
  BY <1>4
<1>6. m * k = -(m * (y \div m))
  BY <1>4, <1>5
<1>7. Int32(n) = n + m * k
  <2>1. Int32(n) = (y % m) - Half
    BY <1>1, <1>3 DEF Int32
  <2>2. PICK t \in Int : t = m * k
    OBVIOUS
  <2>3. y % m = y + t
    BY <1>4, <1>6, <2>2
  <2> QED
    BY <1>2, <1>3, <2>1, <2>2, <2>3
<1>8. PICK x \in Int : x = a + n + Half
  BY <1>2
<1>9. (x + m * k) % m = x % m
  BY Shift, Zenon
<1>10. m * k \in Int
  OBVIOUS
<1>11. a + Int32(n) + Half = x + m * k
  BY <1>2, <1>7, <1>8, <1>10
<1> QED
  BY <1>1, <1>8, <1>9, <1>11 DEF Int32

LEMMA MaxOfTwo ==
    ASSUME NEW a \in Int, NEW b \in Int
    PROVE  Max({a, b}) = IF a >= b THEN a ELSE b
<1>1. \E x \in {a, b} : \A y \in {a, b} : x >= y
  OBVIOUS
<1>2. Max({a, b}) \in {a, b} /\ \A y \in {a, b} : Max({a, b}) >= y
  BY <1>1, Zenon DEF Max
<1> QED
  BY <1>2

LEMMA MinOfTwo ==
    ASSUME NEW a \in Int, NEW b \in Int
    PROVE  Min({a, b}) = IF a <= b THEN a ELSE b
<1>1. \E x \in {a, b} : \A y \in {a, b} : x <= y
  OBVIOUS
<1>2. Min({a, b}) \in {a, b} /\ \A y \in {a, b} : Min({a, b}) <= y
  BY <1>1, Zenon DEF Min
<1> QED
  BY <1>2

LEMMA MaxIs ==
    ASSUME NEW S, S \subseteq Int, NEW x \in S, \A y \in S : x >= y
    PROVE  Max(S) = x
<1>1. Max(S) \in S /\ \A y \in S : Max(S) >= y
  BY Zenon DEF Max
<1>2. Max(S) \in Int /\ x \in Int /\ Max(S) >= x /\ x >= Max(S)
  BY <1>1, Zenon
<1> QED
  BY <1>2

----------------------------------------------------------------------------
\* What a voucher takes off, and what an order costs.

\* An item row as the voucher rules and the prices see it.
LineRows == [id : Nat, product : Ids, category : Ids \union {None}, brand : Ids \union {None},
             qty : 1..(Half - 1), price : Nat, subtotal : Nat]

LEMMA TotalNat ==
    ASSUME NEW lines, lines \subseteq LineRows, IsFiniteSet(lines)
    PROVE  Total(lines) \in Nat
<1> DEFINE f == [l \in lines |-> l.subtotal]
<1>1. \A l \in lines : f[l] \in Nat
  BY Zenon DEF LineRows
<1>2. Total(lines) = SumFunctionOnSet(f, lines)
  BY Zenon DEF Total, SumFunction
<1> HIDE DEF f
<1> QED
  BY <1>1, <1>2, SumNat, Zenon

\* Lines without a price count for nothing.
LEMMA TotalDrop ==
    ASSUME NEW lines, lines \subseteq LineRows, IsFiniteSet(lines)
    PROVE  Total({l \in lines : l.subtotal > 0}) = Total(lines)
<1> DEFINE f == [l \in lines |-> l.subtotal]
           T == {l \in lines : l.subtotal > 0}
           g == [l \in T |-> l.subtotal]
<1>1. Integral(f, lines) /\ \A l \in lines \ T : f[l] = 0
  BY DEF LineRows, Integral
<1>2. Total(lines) = SumFunctionOnSet(f, lines) /\ Total(T) = SumFunctionOnSet(g, T)
  BY Zenon DEF Total, SumFunction
<1>3. T \in SUBSET lines /\ \A l \in T : f[l] = g[l]
  BY Zenon
<1>4. IsFiniteSet(T)
  BY <1>3, FS_Subset, Zenon
<1> HIDE DEF f, g, T
<1>5. SumFunctionOnSet(f, lines) = SumFunctionOnSet(f, T)
  BY <1>1, <1>3, SumDrop, Zenon
<1>6. SumFunctionOnSet(f, T) = SumFunctionOnSet(g, T)
  BY <1>3, <1>4, SumSame, Zenon
<1> QED
  BY <1>2, <1>5, <1>6, Zenon DEF T

Usable(v) == v.kind = "percent" => v.percentBps # None /\ v.percentBps > 0

\* The percentage, or the face value, that a voucher offers on an amount.
Offer(v, e) == IF v.kind = "percent" THEN (e * v.percentBps) \div 10000 ELSE v.value

LEMMA OfferInt ==
    ASSUME NEW v \in StoredRules, Usable(v), NEW e \in Nat
    PROVE  Offer(v, e) \in Int
<1>1. CASE v.kind = "percent"
  <2>1. v.percentBps \in Int
    BY <1>1, Zenon DEF StoredRules, RuleRows, Usable
  <2>2. e * v.percentBps \in Int
    BY <2>1
  <2> QED
    BY <1>1, <2>2, Divides DEF Offer
<1>2. CASE v.kind # "percent"
  BY <1>2 DEF Offer, StoredRules, RuleRows
<1> QED
  BY <1>1, <1>2, Zenon

LEMMA DiscountIs ==
    ASSUME NEW v \in StoredRules, Usable(v), NEW e \in Nat
    PROVE  /\ cartDiscount(v, e) \in 0..e
           /\ cartDiscount(v, e) = IF Offer(v, e) <= 0 THEN 0 ELSE IF Offer(v, e) <= e THEN Offer(v, e) ELSE e
<1>1. PICK o \in Int : o = Offer(v, e)
  BY OfferInt, Zenon
<1>2. cartDiscount(v, e) = Max({0, Min({e, o})})
  BY <1>1 DEF cartDiscount, Offer
<1>3. Min({e, o}) = IF e <= o THEN e ELSE o
  BY MinOfTwo
<1>4. PICK m \in Int : m = Min({e, o})
  BY <1>3
<1>5. Max({0, m}) = IF 0 >= m THEN 0 ELSE m
  BY MaxOfTwo
<1> QED
  BY <1>1, <1>2, <1>3, <1>4, <1>5

\* The cart's evaluation gives what the voucher is worth.
LEMMA ScopeSame ==
    ASSUME NEW v \in StoredRules, NEW l \in LineRows
    PROVE  itemEligible(l, v) <=> InScope(l, v)
<1>1. None \notin v.categories /\ None \notin v.brands
  BY CartConstants, ZenonT(40) DEF StoredRules, RuleRows
<1> QED
  BY <1>1, Zenon DEF itemEligible, InScope

LEMMA Percent ==
    \A n, d \in Int : d * 10000 <= n <=> d <= n \div 10000
  OBVIOUS

LEMMA WorthIs ==
    ASSUME NEW v \in StoredRules, Usable(v), NEW lines, lines \subseteq LineRows, IsFiniteSet(lines)
    PROVE  WorthOf(v, lines) = cartDiscount(v, Total({l \in lines : itemEligible(l, v)}))
<1> DEFINE T == {l \in lines : itemEligible(l, v)}
<1>1. {l \in lines : InScope(l, v)} = T
  BY ScopeSame, Zenon
<1>2. T \subseteq LineRows /\ IsFiniteSet(T)
  BY FS_Subset, Zenon
<1> HIDE DEF T
<1>3. PICK e \in Nat : e = Total(T)
  BY <1>2, TotalNat, Zenon
<1>4. PICK x \in 0..e : x = cartDiscount(v, e)
  BY DiscountIs, Zenon
<1>5. x = IF Offer(v, e) <= 0 THEN 0 ELSE IF Offer(v, e) <= e THEN Offer(v, e) ELSE e
  BY <1>4, DiscountIs, Zenon
<1>6. PICK o \in Int : o = Offer(v, e)
  BY OfferInt, Zenon
<1> DEFINE S == {0} \union {d \in 0..e : Affords(v, e, d)}
<1>7. WorthOf(v, lines) = Max(S)
  <2>1. Total({l \in lines : InScope(l, v)}) = e
    BY <1>1, <1>3, ZenonT(40)
  <2> DEFINE W(b) == Max({0} \union {d \in 0..b : Affords(v, b, d)})
  <2>2. WorthOf(v, lines) = W(Total({l \in lines : InScope(l, v)}))
    BY Zenon DEF WorthOf
  <2>3. W(e) = Max(S)
    BY Zenon
  <2> HIDE DEF W
  <2> QED
    BY <2>1, <2>2, <2>3, Zenon
<1>8. \A d \in 0..e : Affords(v, e, d) <=> d <= o
  <2>1. CASE v.kind = "percent"
    <3>1. v.percentBps \in Int
      BY <2>1, Zenon DEF StoredRules, RuleRows, Usable
    <3>2. PICK n \in Int : n = e * v.percentBps
      BY <3>1
    <3>3. o = n \div 10000
      BY <2>1, <3>2, <1>6 DEF Offer
    <3>4. \A d \in 0..e : d * 10000 <= n <=> d <= o
      BY <3>3, Percent
    <3>5. \A d \in 0..e : d * 10000 <= e * v.percentBps <=> d <= o
      BY <3>2, <3>4
    <3> QED
      BY <2>1, <3>5 DEF Affords
  <2>2. CASE v.kind # "percent"
    BY <2>2, <1>6 DEF Offer, Affords
  <2> QED
    BY <2>1, <2>2, ZenonT(40)
<1>9. S = {0} \union {d \in 0..e : d <= o}
  BY <1>8, Zenon
<1> HIDE DEF S
<1>10. x \in S /\ S \subseteq Int /\ \A y \in S : x >= y
  BY <1>5, <1>6, <1>9
<1>11. Max(S) = x
  BY <1>10, MaxIs, Zenon
<1> QED
  BY <1>3, <1>4, <1>7, <1>11, Zenon DEF T

\* Both engines admit a voucher under the same conditions, when its limits are
\* positive.
LEMMA AdmitsSame ==
    ASSUME NEW v \in StoredRules, NEW lines, Comparable(v, lines), NEW user, NEW used \in Nat, NEW total \in Nat
    PROVE  cartAdmits(v, user, used, total) <=> Validate(v, IF user = None THEN 0 ELSE used, total)
<1>1. /\ v.usageLimit \in Int \union {None} /\ v.usedCount \in Nat /\ v.minSpend \in Int
      /\ v.perUserLimit \in Int \union {None}
  BY Zenon DEF StoredRules, RuleRows
<1>2. v.usageLimit # None => v.usageLimit >= 0
  BY Zenon DEF Comparable
<1>3. cartLimit(v) \in Int /\ effectivePerUserLimit(v) = IF cartLimit(v) > 0 THEN cartLimit(v) ELSE 0
  <2>1. CASE v.perUserLimit = None
    <3>1. DefaultPerUserLimit \in Int
      BY CartConstants, Zenon
    <3>2. Max({0, DefaultPerUserLimit}) = IF 0 >= DefaultPerUserLimit THEN 0 ELSE DefaultPerUserLimit
      BY <3>1, MaxOfTwo
    <3> QED
      BY <2>1, <3>1, <3>2 DEF cartLimit, effectivePerUserLimit
  <2>2. CASE v.perUserLimit # None
    BY <2>2, <1>1, Zenon DEF cartLimit, effectivePerUserLimit, Comparable
  <2> QED
    BY <2>1, <2>2, Zenon
<1>4. PICK n \in Int : n = cartLimit(v)
  BY <1>3, Zenon
<1>5. (cartLimit(v) > 0 /\ user # None => used < cartLimit(v))
      <=> (effectivePerUserLimit(v) > 0 => (IF user = None THEN 0 ELSE used) < effectivePerUserLimit(v))
  BY <1>3, <1>4
<1> QED
  BY <1>2, <1>5, Zenon DEF cartAdmits, Validate

\* They count the same lines, when no line lacks an attribute of the scope.
LEMMA MatchesSame ==
    ASSUME NEW v \in StoredRules, NEW lines, lines \subseteq LineRows, Comparable(v, lines), NEW l \in lines
    PROVE  itemEligible(l, v) <=> (~Scoped(v) \/ ruleMatchesItem(v, l))
<1>1. l.product # None
  BY CartConstants, Zenon DEF LineRows
<1>2. (v.categories # {} => l.category # None) /\ (v.brands # {} => l.brand # None)
  BY Zenon DEF Comparable
<1>3. v.products # {} \/ v.categories # {} \/ v.brands # {} <=> Scoped(v)
  BY ZenonT(40) DEF Scoped
<1> QED
  BY <1>1, <1>2, <1>3, Zenon DEF itemEligible, ruleMatchesItem

\* The preview's formula is the cart's.
LEMMA ComputeIs ==
    ASSUME NEW v \in StoredRules, NEW e \in Nat
    PROVE  Compute(e, v) = IF e = 0 \/ ~Usable(v) THEN 0 ELSE cartDiscount(v, e)
<1>1. v.percentBps \in Int \union {None}
  BY Zenon DEF StoredRules, RuleRows
<1>2. e <= 0 <=> e = 0
  OBVIOUS
<1>3. (v.kind = "percent" /\ (v.percentBps = None \/ v.percentBps <= 0)) <=> ~Usable(v)
  BY <1>1 DEF Usable
<1> QED
  BY <1>2, <1>3 DEF Compute, cartDiscount

LEMMA EnginesSame ==
    ASSUME NEW v \in StoredRules, NEW lines, lines \subseteq LineRows, IsFiniteSet(lines), Comparable(v, lines),
           NEW user, NEW used \in Nat
    PROVE  evaluateVoucher(lines, v, user, used).discount = Preview(lines, v, user, used, Total(lines)).discount
<1> DEFINE T == {l \in lines : itemEligible(l, v)}
           P == {l \in T : l.subtotal > 0}
           L == toEngineItems(lines)
<1>1. {l \in L : l.subtotal > 0 /\ (~Scoped(v) \/ ruleMatchesItem(v, l))} = P
  BY MatchesSame, Zenon DEF toEngineItems
<1>2. T \subseteq LineRows /\ IsFiniteSet(T) /\ P \subseteq L /\ T \subseteq lines
  BY FS_Subset, Zenon DEF toEngineItems
<1>3. PICK e \in Nat : e = Total(T)
  BY <1>2, TotalNat, Zenon
<1>4. Total(P) = e
  BY <1>2, <1>3, TotalDrop, Zenon
<1>5. EligibleSubtotal(L, v) = e
  BY <1>1, <1>4, Zenon DEF EligibleSubtotal
<1>6. PICK t \in Nat : t = Total(lines)
  BY TotalNat, Zenon
<1> DEFINE ok == /\ lines # {} /\ cartAdmits(v, user, used, t) /\ (Scoped(v) => e # 0) /\ Usable(v)
           fits == Validate(v, IF user = None THEN 0 ELSE used, t)
           d == Compute(e, v)
<1>7. evaluateVoucher(lines, v, user, used) = IF ok THEN Granted(cartDiscount(v, e)) ELSE Refused
  BY <1>3, <1>6, Zenon DEF evaluateVoucher, Usable
<1>8. Preview(lines, v, user, used, Total(lines)) = IF L # {} /\ fits /\ d > 0 THEN Granted(d) ELSE Refused
  BY <1>5, <1>6, Zenon DEF Preview
<1>9. cartAdmits(v, user, used, t) <=> fits
  BY AdmitsSame, Zenon
<1>10. d = IF e = 0 \/ ~Usable(v) THEN 0 ELSE cartDiscount(v, e)
  BY ComputeIs, Zenon
<1>11. Usable(v) => cartDiscount(v, e) \in 0..e
  BY DiscountIs, Zenon
<1>12. e # 0 => lines # {} /\ L # {}
  <2>1. P = {} => Total(P) = 0
    <3>1. [l \in {} |-> l.subtotal] = [l \in {} |-> l.subtotal] /\ DOMAIN [l \in {} |-> l.subtotal] = {}
      BY Zenon
    <3>2. Total({}) = 0
      BY <3>1, SumEmpty, Zenon DEF Total, SumFunction
    <3> QED
      BY <3>2, Zenon
  <2> QED
    BY <2>1, <1>2, <1>4, Zenon
<1> HIDE DEF T, P, L, fits, d
<1>13. \A x : Granted(x).discount = x /\ Refused.discount = 0
  BY Zenon DEF Granted, Refused
<1>14. evaluateVoucher(lines, v, user, used).discount = IF ok THEN cartDiscount(v, e) ELSE 0
  BY <1>7, <1>13, Zenon
<1>15. Preview(lines, v, user, used, Total(lines)).discount = IF L # {} /\ fits /\ d > 0 THEN d ELSE 0
  BY <1>8, <1>13, Zenon
<1>16. CASE e = 0 \/ ~Usable(v)
  BY <1>10, <1>11, <1>14, <1>15, <1>16
<1>17. CASE e # 0 /\ Usable(v)
  BY <1>9, <1>10, <1>11, <1>12, <1>14, <1>15, <1>17
<1> QED
  BY <1>16, <1>17, Zenon

\* What an order costs before discount, tax and shipping.
Cost(lines) == SumFunction([l \in lines |-> l.qty * l.price])

LEMMA CostIs ==
    ASSUME NEW lines, lines \subseteq LineRows, IsFiniteSet(lines)
    PROVE  /\ Cost(lines) \in Nat
           /\ SumFunction([l \in lines |-> IF l.qty <= 0 THEN 0 ELSE l.qty * l.price]) = Cost(lines)
<1> DEFINE f == [l \in lines |-> l.qty * l.price]
           g == [l \in lines |-> IF l.qty <= 0 THEN 0 ELSE l.qty * l.price]
<1>1. \A l \in lines : f[l] \in Nat /\ f[l] = g[l]
  <2> SUFFICES ASSUME NEW l \in lines PROVE f[l] \in Nat /\ f[l] = g[l]
    BY Zenon
  <2>1. l.qty \in Nat /\ l.qty > 0 /\ l.price \in Nat
    BY CartConstants DEF LineRows
  <2>2. l.qty * l.price \in Nat
    BY <2>1
  <2> QED
    BY <2>1, <2>2
<1>2. Cost(lines) = SumFunctionOnSet(f, lines) /\ SumFunction(g) = SumFunctionOnSet(g, lines)
  BY Zenon DEF Cost, SumFunction
<1> HIDE DEF f
<1>3. SumFunctionOnSet(f, lines) \in Nat
  BY <1>1, SumNat, Zenon
<1> HIDE DEF g
<1>4. SumFunctionOnSet(f, lines) = SumFunctionOnSet(g, lines)
  BY <1>1, SumSame, Zenon
<1> QED
  BY <1>2, <1>3, <1>4, Zenon DEF g

LEMMA SummaryIs ==
    ASSUME NEW lines, lines \subseteq LineRows, IsFiniteSet(lines), NEW d \in Nat, NEW ship \in Nat
    PROVE  LET s == Summary(lines, d, TaxBps, ship)
           IN  /\ s.discount = Min({d, Cost(lines)})
               /\ s.discount \in 0..Cost(lines)
               /\ s.shipping = ship
               /\ s.total = Cost(lines) - s.discount + s.tax + s.shipping
               /\ s.total >= s.shipping
<1>1. PICK c \in Nat : c = Cost(lines)
  BY CostIs, Zenon
<1>2. PICK m \in 0..c : m = Min({d, c}) /\ (m = IF d <= c THEN d ELSE c)
  BY MinOfTwo
<1>3. Max({0, c - m}) = c - m
  <2>1. PICK k \in Nat : k = c - m
    OBVIOUS
  <2> QED
    BY <2>1, MaxOfTwo
<1>4. PICK x \in Nat : x = ((c - m) * TaxBps) \div 10000
  <2>1. PICK n \in Nat : n = (c - m) * TaxBps
    BY CartConstants
  <2>2. n \div 10000 \in Nat
    OBVIOUS
  <2> QED
    BY <2>1, <2>2
<1>5. SumFunction([l \in lines |-> IF l.qty <= 0 THEN 0 ELSE l.qty * l.price]) = c
  BY <1>1, CostIs, Zenon
<1>6. Summary(lines, d, TaxBps, ship) =
        [subtotal |-> c, discount |-> m, tax |-> x, shipping |-> ship, total |-> (c - m) + x + ship]
  <2> DEFINE Bill(b, q, t, y) == [subtotal |-> b, discount |-> q, tax |-> y, shipping |-> ship, total |-> t + y + ship]
             Due(b) == LET q == Min({d, b})
                           t == Max({0, b - q})
                       IN  Bill(b, q, t, (t * TaxBps) \div 10000)
  <2>1. Summary(lines, d, TaxBps, ship)
        = Due(SumFunction([l \in lines |-> IF l.qty <= 0 THEN 0 ELSE l.qty * l.price]))
    BY DEF Summary
  <2>2. Due(c) = Bill(c, m, c - m, x)
    <3> HIDE DEF Bill
    <3> QED
      BY <1>2, <1>3, <1>4
  <2> HIDE DEF Due
  <2> QED
    BY <1>5, <2>1, <2>2, ZenonT(40)
<1> QED
  BY <1>1, <1>2, <1>6

\* The conjunct of OrdersAddUp for one order.
Charged(o) ==
    /\ o.sum.discount \in 0..Cost(o.lines)
    /\ o.sum.total >= o.sum.shipping
    /\ o.sum.total = Cost(o.lines) - o.sum.discount + o.sum.tax + o.sum.shipping
    /\ o.rule # None /\ o.rated = o.lines => o.sum.discount = Min({Cost(o.lines), WorthOf(o.rule, o.lines)})

\* The discount a request carries is what the voucher it read is worth on the
\* lines it read.
Worth(rated, rule, discount) ==
    /\ rule = None => discount = 0
    /\ rule # None => Usable(rule) /\ discount = cartDiscount(rule, Total({l \in rated : itemEligible(l, rule)}))

LEMMA OrderCharged ==
    ASSUME NEW lines, lines \subseteq LineRows, IsFiniteSet(lines), NEW rated,
           NEW rule \in StoredRules \union {None}, NEW discount \in Nat, Worth(rated, rule, discount),
           NEW ship \in Nat
    PROVE  Charged([lines |-> lines, rated |-> rated, rule |-> rule,
                    sum |-> Summary(lines, discount, TaxBps, ship)])
<1> DEFINE s == Summary(lines, discount, TaxBps, ship)
<1>1. /\ s.discount = Min({discount, Cost(lines)})
      /\ s.discount \in 0..Cost(lines)
      /\ s.total = Cost(lines) - s.discount + s.tax + s.shipping
      /\ s.total >= s.shipping
  BY SummaryIs, ZenonT(40)
<1>2. ASSUME rule # None, rated = lines
      PROVE  s.discount = Min({Cost(lines), WorthOf(rule, lines)})
  <2>1. rule \in StoredRules /\ Usable(rule)
    BY <1>2, Zenon DEF Worth
  <2>2. discount = cartDiscount(rule, Total({l \in lines : itemEligible(l, rule)}))
    BY <1>2, Zenon DEF Worth
  <2>3. WorthOf(rule, lines) = discount
    BY <2>1, <2>2, WorthIs, Zenon
  <2>4. {discount, Cost(lines)} = {Cost(lines), discount}
    BY Zenon
  <2> QED
    BY <1>1, <2>3, <2>4, Zenon
<1> HIDE DEF s
<1>3. Charged([lines |-> lines, rated |-> rated, rule |-> rule, sum |-> s])
  BY <1>1, <1>2, Zenon DEF Charged
<1> QED
  BY <1>3, Zenon DEF s

----------------------------------------------------------------------------
\* The inductive invariant.

Loop == {"find", "raise", "copy"}
Ends == {"touch user", "expire guest", "clear guest", "transfer"}
\* Where a request has no cart yet.
Cartless == {"idle", "create", "get"}
Places == Loop \union Ends \union Cartless \union
          {"touch ensured", "touch", "increment", "insert", "update", "rate", "rule", "attach", "list",
           "items", "owner", "commit"}
Kinds == {"none", "ensure", "add", "update", "remove", "apply", "unapply", "merge", "checkout"}

ReqRows == [at : Places, kind : Kinds, user : Users \union {None}, anon : Anons \union {None},
            cart : CartIds \union {0}, guest : CartIds \union {0}, sku : Skus \union {None},
            qty : Quantities \union {0}, item : ItemRows \union {NoItem}, seen : SUBSET ItemRows,
            todo : SUBSET ItemRows, lines : SUBSET (ItemRows \union LineRows), rated : SUBSET LineRows,
            discount : Nat, applied : BOOLEAN, rule : StoredRules \union {None}, disturbed : SUBSET Skus]

Owned(c) == carts[c].user # None \/ carts[c].anon # None
Ordered ==
    \A c, d \in CartIds :
        c # d => (<<c, d>> \in recent \/ <<d, c>> \in recent <=> GetCartByID(c) /\ GetCartByID(d))

CartsOK ==
    /\ carts \in [CartIds -> CartRows] /\ recent \subseteq CartIds \X CartIds
    /\ \A c \in CartIds : GetCartByID(c) => Owned(c)
    /\ Ordered

ItemsOK ==
    /\ items \subseteq ItemRows /\ IsFiniteSet(items) /\ made \in 0..MaxItems
    /\ \A i \in items : i.id \in 1..made /\ GetCartByID(i.cart)
    /\ \A i, j \in items : i.id = j.id => i = j

RestOK ==
    /\ voucher \in StoredRules \union {None} /\ uses \in [Users -> Nat]
    /\ due \in [CartIds -> [Skus -> Int]]

\* What is known of the item row r works on: the row may be gone, but no
\* other row has its id.
Names(r) ==
    /\ r.item \in ItemRows /\ r.item.id \in 1..made /\ r.item.cart = r.cart
    /\ \A i \in items : i.id = r.item.id => i.cart = r.item.cart /\ i.sku = r.item.sku

\* The steps of merges, checkouts and voucher applications.
Suits(at, kind, rule) ==
    /\ at \in {"get", "list"} => kind = "merge"
    /\ at \in {"items", "owner", "commit"} => kind = "checkout"
    /\ at \in {"rate", "rule"} => kind \in {"apply", "checkout"}
    /\ at \in {"items", "owner", "rate", "rule"} => rule = None

\* What a request relies on: carts that exist, and what it has read.
Based(r) ==
    /\ Suits(r.at, r.kind, r.rule)
    /\ r.cart # 0 => GetCartByID(r.cart)
    /\ r.at \notin Cartless => r.cart \in CartIds
    /\ r.kind = "merge" => r.guest \in CartIds /\ GetCartByID(r.guest) /\ r.user \in Users
    /\ r.at = "create" => r.user # None \/ r.anon # None
Asked(r) ==
    /\ Based(r)
    /\ r.at \in Loop \union Ends => r.kind = "merge" /\ r.lines \subseteq ItemRows
    /\ r.at \in {"increment", "insert", "raise", "copy"} => r.sku \in Skus
    /\ r.at \in {"increment", "insert", "update"} => r.qty \in Quantities
    /\ r.at \in {"increment", "update", "raise"} => Names(r)
    /\ r.at \in {"increment", "raise"} => r.item.sku = r.sku
    /\ r.at = "increment" => r.item \in r.seen
    /\ r.at = "raise" => \E i \in r.seen : i.id = r.item.id /\ i.qty < r.item.qty
    /\ r.at = "copy" => r.item \in ItemRows
    /\ r.at \in {"insert", "copy"} => r.seen = {}

Rated(r) ==
    /\ IsFiniteSet(r.rated) /\ Worth(r.rated, r.rule, r.discount)
    /\ r.kind = "checkout" => r.lines \subseteq LineRows /\ IsFiniteSet(r.lines)

\* A merge's loop: each line of the guest's cart is still to come, is held,
\* was changed by another request, or is the one in hand, which the next
\* write makes good; the row that write raises still has less.
Holds(c, g) == \E i \in items : i.cart = c /\ i.sku = g.sku /\ i.qty >= g.qty
Kept(r) ==
    r.at \in Loop \union Ends =>
        /\ \A g \in r.lines : \/ r.at \in Loop /\ g \in r.todo
                              \/ g.sku \in r.disturbed
                              \/ Holds(r.cart, g)
                              \/ r.at \in {"raise", "copy"} /\ g.sku = r.sku /\ r.item.qty >= g.qty
        /\ r.at = "raise" => \/ r.sku \in r.disturbed
                             \/ \E i \in items : /\ i.id = r.item.id /\ i.cart = r.cart /\ i.sku = r.sku
                                                 /\ i.qty < r.item.qty

Fine(r) == r \in ReqRows /\ Asked(r) /\ Rated(r) /\ Kept(r)
ReqsOK == req \in [Handlers -> ReqRows] /\ \A h \in Handlers : Fine(req[h])

\* Where nothing raced a cart has at most one row of a sku, with what is due.
Single(c, s) ==
    \/ <<c, s>> \in raced
    \/ FindCartItemByProductVariant(c, s) = {} /\ due[c][s] = 0
    \/ \E i \in items : FindCartItemByProductVariant(c, s) = {i} /\ due[c][s] = i.qty
AllSingle == \A c \in CartIds, s \in Skus : Single(c, s)

OrdersOK == \A o \in orders : Charged(o)

IInv == CartsOK /\ ItemsOK /\ RestOK /\ ReqsOK /\ AllSingle /\ OrdersOK

LEMMA MadeNat == ASSUME ItemsOK PROVE made \in Nat /\ made <= made
  BY CartConstants DEF ItemsOK

LEMMA QtyInt == ASSUME NEW i \in ItemRows PROVE i.qty \in Int
  BY CartConstants DEF ItemRows

\* Requests that work on no item row.
Simple == {"create", "get", "idle", "touch ensured", "touch", "rate", "rule", "attach", "list", "items", "owner",
           "commit"}

LEMMA SimpleFine ==
    ASSUME NEW r \in ReqRows, r.at \in Simple, Based(r), Rated(r)
    PROVE  Fine(r)
  BY Zenon DEF Simple, Fine, Asked, Kept, Loop, Ends

LEMMA NoReqRow == NoReq \in ReqRows
  BY ZenonT(40) DEF NoReq, ReqRows, Places, Cartless, Kinds

LEMMA NoReqFine == Fine(NoReq)
<1>1. NoReq.at = "idle" /\ NoReq.kind = "none" /\ NoReq.cart = 0 /\ NoReq.rated = {} /\ NoReq.rule = None /\ NoReq.discount = 0
  BY Zenon DEF NoReq
<1>2. Based(NoReq)
  BY <1>1, ZenonT(40) DEF Based, Cartless, Suits
<1>3. Rated(NoReq)
  BY <1>1, FS_EmptySet, ZenonT(40) DEF Rated, Worth
<1> QED
  BY <1>1, <1>2, <1>3, NoReqRow, SimpleFine, ZenonT(40) DEF Simple

\* The same of the next state.
LEMMA NoReqFineNext == Fine(NoReq)'
<1>1. Fine(NoReq)
  BY NoReqFine, Zenon
<1>2. NoReq.at = "idle" /\ NoReq.kind = "none" /\ NoReq.cart = 0 /\ NoReq.rated = {} /\ NoReq.rule = None /\ NoReq.discount = 0
  BY DEF NoReq
<1>3. Based(NoReq)'
  BY <1>2, Zenon DEF Based, Cartless, Suits
<1>4. Asked(NoReq)' /\ Kept(NoReq)'
  BY <1>2, <1>3, ZenonT(40) DEF Asked, Kept, Loop, Ends
<1> QED
  BY <1>1, <1>4, Zenon DEF Fine, Rated

LEMMA AtRow ==
    ASSUME NEW q \in ReqRows, NEW a \in Places
    PROVE  [q EXCEPT !.at = a] \in ReqRows
  BY ZenonT(40) DEF ReqRows

LEMMA CartAtRow ==
    ASSUME NEW q \in ReqRows, NEW a \in Places, NEW c \in CartIds
    PROVE  [q EXCEPT !.at = a, !.cart = c] \in ReqRows
  BY ZenonT(40) DEF ReqRows

LEMMA HasCart ==
    ASSUME NEW q, Fine(q), q.at \notin Cartless
    PROVE  q.cart \in CartIds /\ GetCartByID(q.cart)
<1>1. q.cart \in CartIds /\ (q.cart # 0 => GetCartByID(q.cart))
  BY Zenon DEF Fine, Asked, Based
<1>2. 0 \notin CartIds
  BY CartConstants DEF CartIds
<1> QED
  BY <1>1, <1>2, Zenon

----------------------------------------------------------------------------
\* What a step leaves alone.

\* Carts stay, ids are not used again, and a row keeps its cart and its sku.
Persist ==
    /\ \A c \in CartIds : GetCartByID(c) => GetCartByID(c)'
    /\ made' \in Nat /\ made <= made'
    /\ \A j \in items' : j.id > made \/ \E i \in items : i.id = j.id /\ i.cart = j.cart /\ i.sku = j.sku

LEMMA BasedStays ==
    ASSUME Persist, NEW r \in ReqRows, Based(r)
    PROVE  Based(r)'
<1>1. r.cart \in CartIds \union {0}
  BY Zenon DEF ReqRows
<1> QED
  BY <1>1, Zenon DEF Based, Persist

LEMMA NamesStays ==
    ASSUME ItemsOK, Persist, NEW r, Names(r)
    PROVE  Names(r)'
<1>1. r.item.id \in 1..made /\ made \in Nat /\ made' \in Nat /\ made <= made'
  BY DEF Names, ItemsOK, Persist
<1>2. r.item.id \in 1..made'
  BY <1>1
<1>3. ASSUME NEW j \in items', j.id = r.item.id
      PROVE  j.cart = r.item.cart /\ j.sku = r.item.sku
  <2>1. ~(j.id > made)
    BY <1>1, <1>3
  <2>2. PICK i \in items : i.id = j.id /\ i.cart = j.cart /\ i.sku = j.sku
    BY <2>1, Zenon DEF Persist
  <2> QED
    BY <1>3, <2>2, Zenon DEF Names
<1> QED
  BY <1>2, <1>3, Zenon DEF Names

LEMMA AskedStays ==
    ASSUME ItemsOK, Persist, NEW r \in ReqRows, Asked(r)
    PROVE  Asked(r)'
<1>1. Based(r)'
  BY BasedStays, Zenon DEF Asked
<1>2. Names(r) => Names(r)'
  BY NamesStays, Zenon
<1> QED
  BY <1>1, <1>2, Zenon DEF Asked

LEMMA FineStays ==
    ASSUME ItemsOK, Persist, items' = items, NEW r, Fine(r)
    PROVE  Fine(r)'
<1>1. Asked(r)'
  BY AskedStays, Zenon DEF Fine
<1>2. Kept(r)'
  BY Zenon DEF Fine, Kept, Holds
<1> QED
  BY <1>1, <1>2, Zenon DEF Fine, Rated

\* A step that changes one request and no item row.
LEMMA ReqStep ==
    ASSUME ItemsOK, ReqsOK, Persist, items' = items, NEW h \in Handlers, NEW r,
           req' = [req EXCEPT ![h] = r], Fine(r)'
    PROVE  ReqsOK'
<1>1. r \in ReqRows
  BY Zenon DEF Fine
<1>2. req' \in [Handlers -> ReqRows]
  BY <1>1, Zenon DEF ReqsOK
<1>3. ASSUME NEW g \in Handlers PROVE Fine(req[g])'
  <2>1. CASE g = h
    <3>1. req'[g] = r
      BY <2>1, Zenon DEF ReqsOK
    <3> QED
      BY <3>1, Zenon
  <2>2. CASE g # h
    <3>1. PICK q : q = req[g]
      BY Zenon
    <3>2. req'[g] = q
      BY <2>2, <3>1, Zenon DEF ReqsOK
    <3>3. Fine(q)'
      BY <3>1, FineStays, Zenon DEF ReqsOK
    <3> QED
      BY <3>2, <3>3, Zenon
  <2> QED
    BY <2>1, <2>2, Zenon
<1> QED
  BY <1>2, <1>3, Zenon DEF ReqsOK

\* A step that writes one cart's row.
LEMMA CartStep ==
    ASSUME CartsOK, NEW c \in CartIds, NEW row \in CartRows, row.user # None \/ row.anon # None,
           carts' = [carts EXCEPT ![c] = row], Updated(c)
    PROVE  /\ CartsOK' /\ GetCartByID(c)'
           /\ \A d \in CartIds : GetCartByID(d) => GetCartByID(d)'
<1>1. row # NoCart
  BY DEF NoCart
<1>2. carts' \in [CartIds -> CartRows] /\ carts'[c] = row /\ \A d \in CartIds : d # c => carts'[d] = carts[d]
  BY Zenon DEF CartsOK
<1>3. GetCartByID(c)' /\ \A d \in CartIds : d # c => (GetCartByID(d)' <=> GetCartByID(d))
  BY <1>1, <1>2, Zenon DEF GetCartByID
<1>4. \A d \in CartIds : GetCartByID(d)' => Owned(d)'
  BY <1>2, <1>3, Zenon DEF CartsOK, Owned
<1>5. recent' \subseteq CartIds \X CartIds
  BY DEF CartsOK, Updated
<1>6. \A d, e \in CartIds : <<d, e>> \in recent' <=> \/ <<d, e>> \in recent /\ d # c
                                                     \/ e = c /\ d # c /\ GetCartByID(d)
  BY Zenon DEF Updated
<1>7. ASSUME NEW d \in CartIds, NEW e \in CartIds, d # e
      PROVE  (<<d, e>> \in recent' \/ <<e, d>> \in recent') <=> GetCartByID(d)' /\ GetCartByID(e)'
  <2>1. (<<d, e>> \in recent \/ <<e, d>> \in recent) <=> GetCartByID(d) /\ GetCartByID(e)
    BY <1>7, Zenon DEF CartsOK, Ordered
  <2> QED
    BY <1>3, <1>6, <1>7, <2>1, Zenon
<1>8. Ordered'
  BY <1>7, Zenon DEF Ordered
<1> QED
  BY <1>2, <1>3, <1>4, <1>5, <1>8, Zenon DEF CartsOK

\* A step that changes one request only.
LEMMA QuietStep ==
    ASSUME IInv, UNCHANGED <<db, ledger>>, NEW h \in Handlers, NEW r, Fine(r), req' = [req EXCEPT ![h] = r]
    PROVE  IInv'
<1>1. carts' = carts /\ recent' = recent /\ items' = items /\ made' = made /\ voucher' = voucher /\ uses' = uses
      /\ orders' = orders /\ due' = due /\ raced' = raced
  BY Zenon DEF db, ledger
<1>2. Persist
  <2>1. made \in Nat /\ made <= made
    BY MadeNat, Zenon DEF IInv
  <2> QED
    BY <1>1, <2>1, Zenon DEF Persist, GetCartByID
<1>3. Fine(r)'
  BY <1>1, <1>2, FineStays, Zenon DEF IInv
<1>4. ReqsOK'
  BY <1>1, <1>2, <1>3, ReqStep, Zenon DEF IInv
<1>5. CartsOK'
  BY <1>1, Zenon DEF IInv, CartsOK, Ordered, Owned, GetCartByID
<1>6. ItemsOK'
  BY <1>1, Zenon DEF IInv, ItemsOK, GetCartByID
<1>7. RestOK' /\ OrdersOK'
  BY <1>1, Zenon DEF IInv, RestOK, OrdersOK
<1>8. AllSingle'
  BY <1>1, Zenon DEF IInv, AllSingle, Single, FindCartItemByProductVariant
<1> QED
  BY <1>4, <1>5, <1>6, <1>7, <1>8, Zenon DEF IInv

\* A request that goes on to a step that works on no item row.
LEMMA Moved ==
    ASSUME NEW q, Fine(q), NEW a \in Simple, a \notin Cartless => q.cart \in CartIds,
           a = "create" => q.user # None \/ q.anon # None, Suits(a, q.kind, q.rule)
    PROVE  Fine([q EXCEPT !.at = a])
<1> DEFINE r == [q EXCEPT !.at = a]
<1>1. q \in ReqRows /\ a \in Places
  BY Zenon DEF Fine, Simple, Places, Cartless
<1>2. /\ r.at = a /\ r.kind = q.kind /\ r.user = q.user /\ r.anon = q.anon /\ r.cart = q.cart /\ r.guest = q.guest
      /\ r.lines = q.lines /\ r.rated = q.rated /\ r.rule = q.rule /\ r.discount = q.discount
  BY <1>1, ZenonT(40) DEF ReqRows
<1>3. r \in ReqRows
  BY <1>1, AtRow, ZenonT(40)
<1> HIDE DEF r
<1>4. Based(r)
  BY <1>2, Zenon DEF Fine, Asked, Based
<1>5. Rated(r)
  BY <1>2, Zenon DEF Fine, Rated
<1>6. Fine(r)
  BY <1>2, <1>3, <1>4, <1>5, SimpleFine, Zenon
<1> QED
  BY <1>6, Zenon DEF r

LEMMA MovedTo ==
    ASSUME NEW q, Fine(q), NEW a \in Simple \ {"create"}, NEW c \in CartIds, GetCartByID(c), Suits(a, q.kind, q.rule)
    PROVE  Fine([q EXCEPT !.at = a, !.cart = c])
<1> DEFINE r == [q EXCEPT !.at = a, !.cart = c]
<1>1. q \in ReqRows /\ a \in Places
  BY Zenon DEF Fine, Simple, Places, Cartless
<1>2. /\ r.at = a /\ r.kind = q.kind /\ r.user = q.user /\ r.anon = q.anon /\ r.cart = c /\ r.guest = q.guest
      /\ r.lines = q.lines /\ r.rated = q.rated /\ r.rule = q.rule /\ r.discount = q.discount
  BY <1>1, Zenon DEF ReqRows
<1>3. r \in ReqRows
  BY <1>1, CartAtRow, Zenon
<1> HIDE DEF r
<1>4. Based(r)
  BY <1>2, Zenon DEF Fine, Asked, Based
<1>5. Rated(r)
  BY <1>2, Zenon DEF Fine, Rated
<1>6. Fine(r)
  BY <1>2, <1>3, <1>4, <1>5, SimpleFine, Zenon
<1> QED
  BY <1>6, ZenonT(40) DEF r

\* A request that starts.
LEMMA Started ==
    ASSUME NEW a \in Simple \ {"create"}, NEW kind \in Kinds \ {"merge", "checkout"}, NEW c \in CartIds, GetCartByID(c),
           NEW user \in Users \union {None}, Suits(a, kind, None)
    PROVE  Fine([NoReq EXCEPT !.at = a, !.kind = kind, !.cart = c, !.user = user])
<1> DEFINE r == [NoReq EXCEPT !.at = a, !.kind = kind, !.cart = c, !.user = user]
<1>1. /\ r.at = a /\ r.kind = kind /\ r.cart = c /\ r.rated = {} /\ r.rule = None /\ r.discount = 0
  BY Zenon DEF NoReq
<1>2. r \in ReqRows
  <2>1. a \in Places
    BY Zenon DEF Simple, Places, Cartless
  <2> QED
    BY <2>1, NoReqRow, ZenonT(40) DEF ReqRows
<1> HIDE DEF r
<1>3. Based(r)
  BY <1>1, Zenon DEF Based
<1>4. Rated(r)
  BY <1>1, FS_EmptySet, Zenon DEF Rated, Worth
<1>5. Fine(r)
  BY <1>1, <1>2, <1>3, <1>4, SimpleFine, Zenon
<1> QED
  BY <1>5, Zenon DEF r

----------------------------------------------------------------------------
\* The steps that change one request only.

LEMMA EnsureGetFine ==
    ASSUME CartsOK, NEW q, Fine(q), q.user # None \/ q.anon # None, NEW r \in EnsureGet(q)
    PROVE  Fine(r)
<1>1. CASE r = [q EXCEPT !.at = "create"]
  <2>1. "create" \in Simple /\ "create" \in Cartless /\ Suits("create", q.kind, q.rule)
    BY Zenon DEF Simple, Cartless, Suits
  <2> QED
    BY <1>1, <2>1, Moved, ZenonT(40)
<1>2. CASE \E c \in CartIds : carts[c].live /\ r = [q EXCEPT !.at = "touch ensured", !.cart = c]
  <2>1. PICK c \in CartIds : carts[c].live /\ r = [q EXCEPT !.at = "touch ensured", !.cart = c]
    BY <1>2, Zenon
  <2>2. GetCartByID(c)
    BY <2>1 DEF GetCartByID, NoCart
  <2>3. "touch ensured" \in Simple \ {"create"} /\ Suits("touch ensured", q.kind, q.rule)
    BY Zenon DEF Simple, Suits
  <2> QED
    BY <2>1, <2>2, <2>3, MovedTo, Zenon
<1> QED
  BY <1>1, <1>2, Zenon DEF EnsureGet, GetActiveCartByUser, GetActiveCartByAnon, Newest

LEMMA EnsureStep ==
    ASSUME IInv, NEW h \in Handlers, NEW user \in Users \union {None}, NEW anon \in Anons \union {None},
           user # None \/ anon # None, Ensure(h, user, anon)
    PROVE  IInv'
<1> DEFINE q == [NoReq EXCEPT !.kind = "ensure", !.user = user, !.anon = anon]
<1>1. /\ q.at = "idle" /\ q.kind = "ensure" /\ q.cart = 0 /\ q.user = user /\ q.anon = anon
      /\ q.rated = {} /\ q.rule = None /\ q.discount = 0
  BY Zenon DEF NoReq
<1>2. q \in ReqRows
  BY NoReqRow, ZenonT(90) DEF ReqRows, Kinds
<1>3. PICK r \in EnsureGet(q) : Begin(h, r)
  BY Zenon DEF Ensure
<1> HIDE DEF q
<1>4. Based(q) /\ Rated(q) /\ q.at \in Simple
  BY <1>1, FS_EmptySet, Zenon DEF Based, Suits, Cartless, Rated, Worth, Simple
<1>5. Fine(q)
  BY <1>2, <1>4, SimpleFine, Zenon
<1>6. Fine(r)
  BY <1>1, <1>5, EnsureGetFine, Zenon DEF IInv
<1> QED
  BY <1>3, <1>6, QuietStep, Zenon DEF Begin, Ensure

LEMMA MergeEnsureStep ==
    ASSUME IInv, NEW h \in Handlers, MergeEnsure(h)
    PROVE  IInv'
<1>1. PICK q : q = req[h] /\ Fine(q)
  BY Zenon DEF IInv, ReqsOK
<1>2. q.user # None
  <2>1. q.at = "get"
    BY <1>1, ZenonT(40) DEF MergeEnsure
  <2>2. q.user \in Users
    BY <1>1, <2>1, ZenonT(40) DEF Fine, Asked, Based, Suits
  <2> QED
    BY <2>2, CartConstants, ZenonT(40)
<1>3. PICK r \in EnsureGet(q) : Step(h, r)
  BY <1>1, Zenon DEF MergeEnsure
<1>4. Fine(r)
  BY <1>1, <1>2, EnsureGetFine, Zenon DEF IInv
<1> QED
  BY <1>3, <1>4, QuietStep, Zenon DEF Step, MergeEnsure

\* A request on one product of a cart, or one that merges into it.
LEMMA AddItemStep ==
    ASSUME IInv, NEW h \in Handlers, NEW c \in CartIds, NEW s \in Skus, NEW qty \in Quantities, NEW stock,
           AddItem(h, c, s, qty, stock)
    PROVE  IInv'
<1>1. PICK rows : rows = FindCartItemByProductVariant(c, s)
  BY Zenon
<1>2. \A i \in rows : i \in items /\ i.cart = c /\ i.sku = s
  BY <1>1, ZenonT(40) DEF FindCartItemByProductVariant
<1>3. rows \in SUBSET ItemRows /\ GetCartByID(c)
  BY <1>2, Zenon DEF IInv, ItemsOK, AddItem
<1> DEFINE q == [NoReq EXCEPT !.kind = "add", !.cart = c, !.sku = s, !.qty = qty, !.seen = rows]
<1>4. CASE \E i \in rows : Begin(h, [q EXCEPT !.at = "increment", !.item = i])
  <2>1. PICK i \in rows : Begin(h, [q EXCEPT !.at = "increment", !.item = i])
    BY <1>4, Zenon
  <2> DEFINE r == [q EXCEPT !.at = "increment", !.item = i]
  <2>2. i \in ItemRows /\ i \in items /\ i.cart = c /\ i.sku = s /\ i.id \in 1..made
    BY <1>2, <1>3, ZenonT(40) DEF IInv, ItemsOK
  <2>3. /\ r.at = "increment" /\ r.kind = "add" /\ r.cart = c /\ r.sku = s /\ r.qty = qty /\ r.seen = rows /\ r.item = i
        /\ r.rated = {} /\ r.rule = None /\ r.discount = 0
    BY Zenon DEF NoReq
  <2>4. r \in ReqRows
    <3>1. q \in ReqRows
      BY <1>3, NoReqRow, ZenonT(40) DEF ReqRows, Kinds
    <3> HIDE DEF q
    <3> QED
      BY <3>1, <2>2, ZenonT(90) DEF ReqRows, Places
  <2> HIDE DEF r
  <2>5. Based(r)
    BY <1>3, <2>3, Zenon DEF Based, Suits
  <2>6. Names(r)
    BY <2>2, <2>3, Zenon DEF Names, IInv, ItemsOK
  <2>7. Asked(r)
    BY <2>2, <2>3, <2>5, <2>6, Zenon DEF Asked, Loop, Ends
  <2>8. Rated(r) /\ Kept(r)
    BY <2>3, FS_EmptySet, Zenon DEF Rated, Worth, Kept, Loop, Ends
  <2>9. Fine(r)
    BY <2>4, <2>7, <2>8, Zenon DEF Fine
  <2>10. req' = [req EXCEPT ![h] = r] /\ UNCHANGED <<db, ledger>>
    BY <2>1, Zenon DEF Begin, AddItem, r
  <2> QED
    BY <2>9, <2>10, QuietStep, Zenon
<1>5. CASE rows = {} /\ Begin(h, [q EXCEPT !.at = "insert"])
  <2> DEFINE r == [q EXCEPT !.at = "insert"]
  <2>1. /\ r.at = "insert" /\ r.kind = "add" /\ r.cart = c /\ r.sku = s /\ r.qty = qty /\ r.seen = rows
        /\ r.rated = {} /\ r.rule = None /\ r.discount = 0
    BY Zenon DEF NoReq
  <2>2. r \in ReqRows
    BY <1>3, NoReqRow, ZenonT(90) DEF ReqRows, Kinds, Places
  <2> HIDE DEF r
  <2>3. Based(r)
    BY <1>3, <2>1, Zenon DEF Based, Suits
  <2>4. Asked(r)
    BY <1>5, <2>1, <2>3, Zenon DEF Asked, Loop, Ends
  <2>5. Rated(r) /\ Kept(r)
    BY <2>1, FS_EmptySet, Zenon DEF Rated, Worth, Kept, Loop, Ends
  <2>6. Fine(r)
    BY <2>2, <2>4, <2>5, Zenon DEF Fine
  <2>7. req' = [req EXCEPT ![h] = r] /\ UNCHANGED <<db, ledger>>
    BY <1>5, Zenon DEF Begin, AddItem, r
  <2> QED
    BY <2>6, <2>7, QuietStep, Zenon
<1> QED
  BY <1>1, <1>4, <1>5, Zenon DEF AddItem

LEMMA UpdateQtyStep ==
    ASSUME IInv, NEW h \in Handlers, NEW i \in items, NEW qty \in Quantities, UpdateQty(h, i, qty)
    PROVE  IInv'
<1> DEFINE r == [NoReq EXCEPT !.at = "update", !.kind = "update", !.item = i, !.cart = i.cart, !.qty = qty]
<1>1. i \in ItemRows /\ i.cart \in CartIds /\ i.id \in 1..made /\ GetCartByID(i.cart)
  BY Zenon DEF IInv, ItemsOK, ItemRows
<1>2. /\ r.at = "update" /\ r.kind = "update" /\ r.cart = i.cart /\ r.qty = qty /\ r.item = i
      /\ r.rated = {} /\ r.rule = None /\ r.discount = 0
  BY Zenon DEF NoReq
<1>3. r \in ReqRows
  BY <1>1, NoReqRow, ZenonT(90) DEF ReqRows, Kinds, Places
<1> HIDE DEF r
<1>4. Based(r)
  BY <1>1, <1>2, Zenon DEF Based, Suits
<1>5. Names(r)
  BY <1>1, <1>2, Zenon DEF Names, IInv, ItemsOK
<1>6. Asked(r)
  BY <1>2, <1>4, <1>5, ZenonT(40) DEF Asked, Loop, Ends
<1>7. Rated(r) /\ Kept(r)
  BY <1>2, FS_EmptySet, Zenon DEF Rated, Worth, Kept, Loop, Ends
<1>8. Fine(r)
  BY <1>3, <1>6, <1>7, Zenon DEF Fine
<1>9. req' = [req EXCEPT ![h] = r] /\ UNCHANGED <<db, ledger>>
  BY Zenon DEF Begin, UpdateQty, r
<1> QED
  BY <1>8, <1>9, QuietStep, Zenon

LEMMA WriteRefusedStep ==
    ASSUME IInv, NEW h \in Handlers, WriteRefused(h)
    PROVE  IInv'
<1>1. req' = [req EXCEPT ![h] = NoReq] /\ UNCHANGED <<db, ledger>>
  BY Zenon DEF WriteRefused, Done, Step
<1> QED
  BY <1>1, NoReqFine, QuietStep, Zenon

LEMMA ApplyVoucherStep ==
    ASSUME IInv, NEW h \in Handlers, NEW c \in CartIds, ApplyVoucher(h, c)
    PROVE  IInv'
<1>1. PICK u \in Users \union {None} : u = carts[c].user
  BY Zenon DEF IInv, CartsOK, CartRows
<1>2. "rate" \in Simple \ {"create"} /\ "apply" \in Kinds \ {"merge", "checkout"} /\ Suits("rate", "apply", None)
  BY Zenon DEF Simple, Kinds, Suits
<1>3. Fine([NoReq EXCEPT !.at = "rate", !.kind = "apply", !.cart = c, !.user = u])
  BY <1>2, Started, Zenon DEF ApplyVoucher
<1>4. PICK r : Fine(r) /\ r = [NoReq EXCEPT !.at = "rate", !.kind = "apply", !.cart = c, !.user = u]
  BY <1>3, Zenon
<1>5. req' = [req EXCEPT ![h] = r] /\ UNCHANGED <<db, ledger>>
  BY <1>1, <1>4, Zenon DEF ApplyVoucher, Begin
<1> QED
  BY <1>4, <1>5, QuietStep, Zenon

\* The item rows of a cart as lines.
LEMMA LinesOK ==
    ASSUME ItemsOK, NEW c
    PROVE  Lines(ListCartItems(c)) \subseteq LineRows /\ IsFiniteSet(Lines(ListCartItems(c)))
<1>1. ListCartItems(c) \subseteq items /\ IsFiniteSet(ListCartItems(c))
  BY FS_Subset, Zenon DEF ListCartItems, ItemsOK
<1>2. \A i \in items : Line(i) \in LineRows
  <2> SUFFICES ASSUME NEW i \in ItemRows PROVE Line(i) \in LineRows
    BY Zenon DEF ItemsOK
  <2>1. i.sku \in Skus
    BY Zenon DEF ItemRows
  <2>2. /\ Catalog[i.sku].product \in Ids /\ Catalog[i.sku].category \in Ids \union {None}
        /\ Catalog[i.sku].brand \in Ids \union {None}
    BY <2>1, CartConstants, Zenon
  <2> QED
    BY <2>2, Zenon DEF Line, LineRows, ItemRows
<1>3. IsFiniteSet(Lines(ListCartItems(c)))
  <2> DEFINE S == ListCartItems(c)
             f == [i \in S |-> Line(i)]
  <2>1. Lines(S) = {f[i] : i \in S}
    BY Zenon DEF Lines
  <2> HIDE DEF S
  <2>2. f \in Surjection(S, Lines(S))
    BY Zenon DEF Lines, Surjection
  <2> QED
    BY <1>1, <2>2, FS_Surjection, Zenon DEF S
<1> QED
  BY <1>1, <1>2, <1>3, ZenonT(40) DEF Lines

LEMMA RatedRow ==
    ASSUME NEW q \in ReqRows, NEW a \in Places, NEW lines \in SUBSET LineRows
    PROVE  /\ [q EXCEPT !.at = a, !.rated = lines] \in ReqRows
           /\ [q EXCEPT !.at = a, !.lines = lines] \in ReqRows
<1>1. [q EXCEPT !.at = a, !.rated = lines] \in ReqRows
  BY ZenonT(40) DEF ReqRows
<1>2. [q EXCEPT !.at = a, !.lines = lines] \in ReqRows
  BY ZenonT(40) DEF ReqRows
<1> QED
  BY <1>1, <1>2, Zenon

LEMMA loadCartItemsStep ==
    ASSUME IInv, NEW h \in Handlers, loadCartItems(h)
    PROVE  IInv'
<1>1. PICK q : q = req[h] /\ Fine(q)
  BY Zenon DEF IInv, ReqsOK
<1>2. q.at = "rate" /\ UNCHANGED <<db, ledger>> /\ q \in ReqRows
  BY <1>1, Zenon DEF loadCartItems, Fine
<1>3. PICK lines \in SUBSET LineRows : lines = Lines(ListCartItems(q.cart)) /\ IsFiniteSet(lines)
  BY LinesOK, Zenon DEF IInv
<1>4. q.cart \in CartIds /\ q.kind \in {"apply", "checkout"} /\ q.rule = None
  BY <1>1, <1>2, Zenon DEF Fine, Asked, Based, Cartless, Suits
<1> DEFINE r == [q EXCEPT !.at = "rule", !.rated = lines]
<1>5. /\ r.at = "rule" /\ r.kind = q.kind /\ r.user = q.user /\ r.anon = q.anon /\ r.cart = q.cart /\ r.guest = q.guest
      /\ r.lines = q.lines /\ r.rated = lines /\ r.rule = None /\ r.discount = q.discount
  BY <1>2, <1>4, Zenon DEF ReqRows
<1>6. r \in ReqRows
  BY <1>2, RatedRow, Zenon DEF Places
<1>7. \/ req' = [req EXCEPT ![h] = NoReq]
      \/ r.kind # "apply" /\ req' = [req EXCEPT ![h] = [r EXCEPT !.at = "commit"]]
      \/ req' = [req EXCEPT ![h] = r]
  BY <1>1, <1>3, Zenon DEF loadCartItems, NotRated, Done, Step
<1> HIDE DEF r
<1>8. Fine(r)
  <2>1. Based(r)
    BY <1>1, <1>2, <1>4, <1>5, ZenonT(40) DEF Fine, Asked, Based, Suits, Cartless
  <2>2. Worth(lines, None, q.discount)
    BY <1>1, <1>4, ZenonT(40) DEF Fine, Rated, Worth
  <2>3. Rated(r)
    BY <1>1, <1>3, <1>5, <2>2, Zenon DEF Fine, Rated
  <2> QED
    BY <1>5, <1>6, <2>1, <2>3, SimpleFine, Zenon DEF Simple
<1>9. r.kind # "apply" => Fine([r EXCEPT !.at = "commit"])
  <2>1. "commit" \in Simple /\ (r.kind # "apply" => Suits("commit", r.kind, r.rule))
    BY <1>4, <1>5, Zenon DEF Simple, Suits
  <2> QED
    BY <1>4, <1>5, <1>8, <2>1, Moved, ZenonT(40)
<1>10. \E x : Fine(x) /\ req' = [req EXCEPT ![h] = x]
  BY <1>7, <1>8, <1>9, NoReqFine, Zenon
<1> QED
  BY <1>2, <1>10, QuietStep, Zenon

LEMMA RuleRow ==
    ASSUME NEW q \in ReqRows, NEW a \in Places, NEW d \in Nat, NEW v \in StoredRules
    PROVE  [q EXCEPT !.at = a, !.discount = d, !.rule = v] \in ReqRows
  BY ZenonT(40) DEF ReqRows

LEMMA Evaluated ==
    ASSUME NEW v \in StoredRules, v # None, NEW lines, lines \subseteq LineRows, IsFiniteSet(lines), NEW user,
           NEW used, evaluateVoucher(lines, v, user, used).ok
    PROVE  /\ evaluateVoucher(lines, v, user, used).discount \in Nat
           /\ Worth(lines, v, evaluateVoucher(lines, v, user, used).discount)
<1>1. ~Refused.ok /\ \A d : Granted(d).discount = d
  BY Zenon DEF Refused, Granted
<1> DEFINE T == {l \in lines : itemEligible(l, v)}
<1>2. T \subseteq LineRows /\ IsFiniteSet(T)
  BY FS_Subset, Zenon
<1>3. PICK e \in Nat : e = Total(T)
  BY <1>2, TotalNat, ZenonT(40)
<1>4. Usable(v) /\ evaluateVoucher(lines, v, user, used) = Granted(cartDiscount(v, e))
  BY <1>1, <1>3, Zenon DEF evaluateVoucher, Usable
<1>5. evaluateVoucher(lines, v, user, used).discount = cartDiscount(v, e)
  BY <1>1, <1>4, Zenon
<1>6. cartDiscount(v, e) \in Nat
  BY <1>4, DiscountIs
<1> QED
  BY <1>3, <1>4, <1>5, <1>6, Zenon DEF Worth

LEMMA RateVoucherStep ==
    ASSUME IInv, NEW h \in Handlers, RateVoucher(h)
    PROVE  IInv'
<1>1. PICK q : q = req[h] /\ Fine(q)
  BY Zenon DEF IInv, ReqsOK
<1>2. q.at = "rule" /\ UNCHANGED <<db, ledger>> /\ q \in ReqRows
  BY <1>1, ZenonT(40) DEF RateVoucher, Fine
<1>3. q.cart \in CartIds /\ q.kind \in {"apply", "checkout"} /\ q.rule = None
  BY <1>1, <1>2, Zenon DEF Fine, Asked, Based, Cartless, Suits
<1>4. CASE req' = [req EXCEPT ![h] = NoReq]
  BY <1>2, <1>4, NoReqFine, QuietStep, Zenon
<1>5. CASE q.kind # "apply" /\ req' = [req EXCEPT ![h] = [q EXCEPT !.at = "commit"]]
  <2>1. "commit" \in Simple /\ Suits("commit", q.kind, q.rule)
    BY <1>3, <1>5, Zenon DEF Simple, Suits
  <2>2. Fine([q EXCEPT !.at = "commit"])
    BY <1>1, <1>3, <2>1, Moved, ZenonT(40)
  <2> QED
    BY <1>2, <1>5, <2>2, QuietStep, Zenon
<1>6. CASE \E v, e, a : /\ v # None /\ v = voucher /\ e.ok
                        /\ e = evaluateVoucher(q.rated, v, q.user, CountVoucherUsageByUser(q.user))
                        /\ a = IF q.kind = "apply" THEN "attach" ELSE "commit"
                        /\ req' = [req EXCEPT ![h] = [q EXCEPT !.at = a, !.discount = e.discount, !.rule = v]]
  <2>1. PICK v, e, a : /\ v # None /\ v = voucher /\ e.ok
                       /\ e = evaluateVoucher(q.rated, v, q.user, CountVoucherUsageByUser(q.user))
                       /\ a = IF q.kind = "apply" THEN "attach" ELSE "commit"
                       /\ req' = [req EXCEPT ![h] = [q EXCEPT !.at = a, !.discount = e.discount, !.rule = v]]
    BY <1>6, Zenon
  <2>2. PICK n : n = CountVoucherUsageByUser(q.user)
    BY Zenon
  <2>3. v \in StoredRules /\ q.rated \subseteq LineRows /\ IsFiniteSet(q.rated)
    BY <1>1, <1>2, <2>1, Zenon DEF IInv, RestOK, ReqRows, Fine, Rated
  <2>4. e.discount \in Nat /\ Worth(q.rated, v, e.discount)
    BY <2>1, <2>2, <2>3, Evaluated, ZenonT(40)
  <2> DEFINE r == [q EXCEPT !.at = a, !.discount = e.discount, !.rule = v]
  <2>5. a \in Places /\ a \in {"attach", "commit"} /\ a \in Simple
    BY <2>1, Zenon DEF Places, Simple
  <2>6. r \in ReqRows
    BY <1>2, <2>3, <2>4, <2>5, RuleRow, Zenon
  <2>7. /\ r.at = a /\ r.kind = q.kind /\ r.user = q.user /\ r.anon = q.anon /\ r.cart = q.cart /\ r.guest = q.guest
        /\ r.lines = q.lines /\ r.rated = q.rated /\ r.rule = v /\ r.discount = e.discount
    BY <1>2, Zenon DEF ReqRows
  <2>8. req' = [req EXCEPT ![h] = r]
    BY <2>1, Zenon
  <2> HIDE DEF r
  <2>9. Based(r)
    BY <1>1, <1>2, <1>3, <2>1, <2>5, <2>7, ZenonT(40) DEF Fine, Asked, Based, Suits, Cartless
  <2>10. Rated(r)
    BY <1>1, <2>4, <2>7, Zenon DEF Fine, Rated
  <2>11. Fine(r)
    BY <2>5, <2>6, <2>7, <2>9, <2>10, SimpleFine, Zenon
  <2> QED
    BY <1>2, <2>8, <2>11, QuietStep, Zenon
<1> QED
  <2> DEFINE v == voucher
             e == IF v = None THEN Refused ELSE evaluateVoucher(q.rated, v, q.user, CountVoucherUsageByUser(q.user))
  <2>1. IF ~e.ok THEN NotRated(h, q)
        ELSE Step(h, [q EXCEPT !.at = IF q.kind = "apply" THEN "attach" ELSE "commit",
                               !.discount = e.discount, !.rule = v])
    BY <1>1, Zenon DEF RateVoucher, GetVoucherByCode
  <2>2. CASE ~e.ok
    BY <1>4, <1>5, <2>1, <2>2, Zenon DEF NotRated, Done, Step
  <2>3. CASE e.ok
    <3>1. v # None
      BY <2>3, Zenon DEF Refused
    <3>2. req' = [req EXCEPT ![h] = [q EXCEPT !.at = IF q.kind = "apply" THEN "attach" ELSE "commit",
                                              !.discount = e.discount, !.rule = v]]
      BY <2>1, <2>3, Zenon DEF Step
    <3> QED
      BY <1>6, <2>3, <3>1, <3>2, Zenon
  <2> QED
    BY <2>2, <2>3, Zenon

LEMMA MergeStep ==
    ASSUME IInv, NEW h \in Handlers, NEW g \in CartIds, NEW u \in Users, Merge(h, g, u)
    PROVE  IInv'
<1> DEFINE r == [NoReq EXCEPT !.at = "get", !.kind = "merge", !.guest = g, !.user = u]
<1>1. /\ r.at = "get" /\ r.kind = "merge" /\ r.guest = g /\ r.user = u /\ r.cart = 0
      /\ r.rated = {} /\ r.rule = None /\ r.discount = 0
  BY Zenon DEF NoReq
<1>2. r \in ReqRows
  BY NoReqRow, ZenonT(90) DEF ReqRows, Kinds, Places, Cartless
<1>3. req' = [req EXCEPT ![h] = r] /\ UNCHANGED <<db, ledger>> /\ GetCartByID(g)
  BY Zenon DEF Merge, Begin
<1> HIDE DEF r
<1>4. Based(r)
  BY <1>1, <1>3, Zenon DEF Based, Suits, Cartless
<1>5. Rated(r)
  BY <1>1, FS_EmptySet, ZenonT(40) DEF Rated, Worth
<1>6. Fine(r)
  BY <1>1, <1>2, <1>4, <1>5, SimpleFine, Zenon DEF Simple
<1> QED
  BY <1>3, <1>6, QuietStep, Zenon

LEMMA MergeListStep ==
    ASSUME IInv, NEW h \in Handlers, MergeList(h)
    PROVE  IInv'
<1>1. PICK q : q = req[h] /\ Fine(q)
  BY Zenon DEF IInv, ReqsOK
<1>2. q.at = "list" /\ UNCHANGED <<db, ledger>> /\ q \in ReqRows
  BY <1>1, Zenon DEF MergeList, Fine
<1>3. PICK rows \in SUBSET ItemRows : rows = ListCartItems(q.guest)
  BY Zenon DEF ListCartItems, IInv, ItemsOK
<1>4. q.cart \in CartIds /\ q.kind = "merge"
  BY <1>1, <1>2, Zenon DEF Fine, Asked, Based, Suits, Cartless
<1> DEFINE r == [q EXCEPT !.at = "find", !.todo = rows, !.lines = rows, !.disturbed = {}]
<1>5. /\ r.at = "find" /\ r.kind = q.kind /\ r.user = q.user /\ r.anon = q.anon /\ r.cart = q.cart /\ r.guest = q.guest
      /\ r.lines = rows /\ r.todo = rows /\ r.rated = q.rated /\ r.rule = q.rule /\ r.discount = q.discount
  BY <1>2, Zenon DEF ReqRows
<1>6. r \in ReqRows
  BY <1>2, ZenonT(90) DEF ReqRows, Places, Loop
<1>7. req' = [req EXCEPT ![h] = r]
  BY <1>1, <1>3, Zenon DEF MergeList, Step
<1> HIDE DEF r
<1>8. Based(r)
  BY <1>1, <1>4, <1>5, ZenonT(40) DEF Fine, Asked, Based, Suits
<1>9. Rated(r)
  BY <1>1, <1>4, <1>5, ZenonT(40) DEF Fine, Rated
<1>10. Asked(r) /\ Kept(r)
  BY <1>4, <1>5, <1>8, ZenonT(40) DEF Asked, Kept, Loop
<1> QED
  BY <1>2, <1>6, <1>7, <1>9, <1>10, QuietStep, Zenon DEF Fine

\* After the loop of a merge.
LEMMA Ended ==
    ASSUME NEW q, Fine(q), NEW a \in Ends, q.at \in Ends \/ (q.at = "find" /\ q.todo = {})
    PROVE  Fine([q EXCEPT !.at = a])
<1> DEFINE r == [q EXCEPT !.at = a]
<1>1. q \in ReqRows /\ a \in Places
  BY Zenon DEF Fine, Places
<1>2. /\ r.at = a /\ r.kind = q.kind /\ r.user = q.user /\ r.anon = q.anon /\ r.cart = q.cart /\ r.guest = q.guest
      /\ r.lines = q.lines /\ r.disturbed = q.disturbed /\ r.rated = q.rated /\ r.rule = q.rule
      /\ r.discount = q.discount
  BY <1>1, Zenon DEF ReqRows
<1>3. r \in ReqRows
  BY <1>1, AtRow, ZenonT(40)
<1> HIDE DEF r
<1>4. q.cart \in CartIds /\ q.kind = "merge" /\ q.lines \subseteq ItemRows
  BY ZenonT(40) DEF Fine, Asked, Based, Ends, Loop, Cartless
<1>5. Based(r)
  BY <1>2, <1>4, ZenonT(40) DEF Fine, Asked, Based, Suits, Ends
<1>6. Rated(r)
  BY <1>2, <1>4, ZenonT(40) DEF Fine, Rated
<1>7. Asked(r)
  BY <1>2, <1>4, <1>5, ZenonT(40) DEF Asked, Ends
<1>8. \A g \in q.lines : g.sku \in q.disturbed \/ Holds(q.cart, g)
  BY Zenon DEF Fine, Kept, Ends, Loop
<1>9. Kept(r)
  BY <1>2, <1>8, Zenon DEF Kept, Ends
<1>10. Fine(r)
  BY <1>3, <1>6, <1>7, <1>9, Zenon DEF Fine
<1> QED
  BY <1>10, Zenon DEF r

Turn(q, a, g, seen, i) == [q EXCEPT !.at = a, !.todo = q.todo \ {g}, !.sku = g.sku, !.seen = seen, !.item = i]

LEMMA TurnRow ==
    ASSUME NEW q \in ReqRows, NEW a \in Places, NEW g \in ItemRows, NEW seen \in SUBSET ItemRows,
           NEW i \in ItemRows \union {NoItem}, NEW r, r = Turn(q, a, g, seen, i)
    PROVE  /\ r \in ReqRows
           /\ r.at = a /\ r.kind = q.kind /\ r.user = q.user /\ r.anon = q.anon /\ r.cart = q.cart
           /\ r.guest = q.guest /\ r.lines = q.lines /\ r.disturbed = q.disturbed /\ r.rated = q.rated
           /\ r.rule = q.rule /\ r.discount = q.discount
           /\ r.todo = q.todo \ {g} /\ r.sku = g.sku /\ r.seen = seen /\ r.item = i
<1>1. PICK todo \in SUBSET ItemRows : todo = q.todo \ {g}
  BY Zenon DEF ReqRows
<1>2. PICK s \in Skus : s = g.sku
  BY Zenon DEF ItemRows
<1>3. r = [q EXCEPT !.at = a, !.todo = todo, !.sku = s, !.seen = seen, !.item = i]
  BY <1>1, <1>2, Zenon DEF Turn
<1>4. r \in ReqRows
  BY <1>3, ZenonT(90) DEF ReqRows
<1>5. /\ r.at = a /\ r.kind = q.kind /\ r.user = q.user /\ r.anon = q.anon /\ r.cart = q.cart
      /\ r.guest = q.guest /\ r.lines = q.lines /\ r.disturbed = q.disturbed /\ r.rated = q.rated
      /\ r.rule = q.rule /\ r.discount = q.discount
      /\ r.todo = todo /\ r.sku = s /\ r.seen = seen /\ r.item = i
  BY <1>3, ZenonT(40) DEF ReqRows
<1> QED
  BY <1>1, <1>2, <1>4, <1>5, Zenon

\* The next line of the guest's cart: it is in the user's cart already, or it
\* becomes the line in hand.
Chosen(q, g, seen, a, i) ==
    \/ a = "copy" /\ seen = {} /\ i = g
    \/ a = "raise" /\ \E j \in seen : j.qty < g.qty /\ i = [j EXCEPT !.qty = g.qty]
    \/ a = "find" /\ i = q.item /\ \E j \in seen : j.qty >= g.qty

LEMMA Found ==
    ASSUME ItemsOK, NEW q, Fine(q), q.at = "find", NEW g \in q.todo, NEW seen, seen = FindCartItemByProductVariant(q.cart, g.sku),
           NEW a \in Loop, NEW i, NEW r, r = Turn(q, a, g, seen, i), Chosen(q, g, seen, a, i)
    PROVE  Fine(r)
<1>1. q \in ReqRows /\ a \in Places /\ q.todo \in SUBSET ItemRows /\ q.item \in ItemRows \union {NoItem}
  BY Zenon DEF Fine, Places, ReqRows
<1>2. g \in ItemRows /\ g.sku \in Skus /\ g.qty \in 1..(Half - 1)
  BY <1>1, Zenon DEF ItemRows
<1>3. seen \in SUBSET ItemRows /\ \A j \in seen : j \in items /\ j.cart = q.cart /\ j.sku = g.sku
  BY Zenon DEF FindCartItemByProductVariant, ItemsOK
<1>4. i \in ItemRows \union {NoItem} /\ (a # "find" => i \in ItemRows)
  <2>1. \A j \in seen : [j EXCEPT !.qty = g.qty] \in ItemRows
    BY <1>2, <1>3, ZenonT(40) DEF ItemRows
  <2> QED
    BY <1>1, <1>2, <2>1, Zenon DEF Chosen
<1>5. i \in ItemRows \union {NoItem}
  BY <1>4, ZenonT(40)
<1>6. /\ r \in ReqRows
      /\ r.at = a /\ r.kind = q.kind /\ r.user = q.user /\ r.anon = q.anon /\ r.cart = q.cart
      /\ r.guest = q.guest /\ r.lines = q.lines /\ r.disturbed = q.disturbed /\ r.rated = q.rated
      /\ r.rule = q.rule /\ r.discount = q.discount
      /\ r.todo = q.todo \ {g} /\ r.sku = g.sku /\ r.seen = seen /\ r.item = i
  <2>1. q \in ReqRows /\ a \in Places /\ g \in ItemRows /\ seen \in SUBSET ItemRows
    BY <1>1, <1>2, <1>3, ZenonT(40)
  <2> QED
    BY <1>5, <2>1, TurnRow
<1>7. q.cart \in CartIds /\ q.kind = "merge" /\ q.lines \subseteq ItemRows
  BY Zenon DEF Fine, Asked, Based, Loop, Cartless
<1>8. Based(r)
  BY <1>6, <1>7, Zenon DEF Fine, Asked, Based, Suits, Loop
<1>9. Rated(r)
  BY <1>6, <1>7, Zenon DEF Fine, Rated
<1>10. ASSUME a = "raise"
       PROVE  /\ Names(r) /\ r.item.sku = r.sku /\ \E j \in r.seen : j.id = r.item.id /\ j.qty < r.item.qty
              /\ \E j \in items : j.id = r.item.id /\ j.cart = r.cart /\ j.sku = r.sku /\ j.qty < r.item.qty
              /\ r.item.qty = g.qty
  <2>1. PICK j \in seen : j.qty < g.qty /\ i = [j EXCEPT !.qty = g.qty]
    BY <1>10, Zenon DEF Chosen
  <2>2. j \in ItemRows /\ j \in items /\ j.cart = q.cart /\ j.sku = g.sku /\ j.id \in 1..made
    BY <1>3, Zenon DEF ItemsOK
  <2>3. i.id = j.id /\ i.cart = j.cart /\ i.sku = j.sku /\ i.qty = g.qty
    BY <2>1, <2>2, ZenonT(40) DEF ItemRows
  <2>4. Names(r)
    <3>1. r.item = i /\ i \in ItemRows /\ r.cart = q.cart
      BY <1>4, <1>6, <1>10, Zenon
    <3>2. \A k \in items : k.id = i.id => k = j
      BY <2>2, <2>3, Zenon DEF ItemsOK
    <3> QED
      BY <2>2, <2>3, <3>1, <3>2, Zenon DEF Names
  <2> QED
    BY <1>6, <2>1, <2>2, <2>3, <2>4, ZenonT(40)
<1>11. Asked(r)
  <2>1. a \in {"find", "raise", "copy"}
    BY Zenon DEF Loop
  <2> QED
    BY <1>2, <1>4, <1>6, <1>7, <1>8, <1>10, <2>1, ZenonT(40) DEF Asked, Chosen
<1>12. ASSUME NEW x \in q.lines
       PROVE  \/ x \in r.todo \/ x.sku \in r.disturbed \/ Holds(r.cart, x)
              \/ a \in {"raise", "copy"} /\ x.sku = r.sku /\ r.item.qty >= x.qty
  <2>1. x \in q.todo \/ x.sku \in q.disturbed \/ Holds(q.cart, x)
    BY <1>12, ZenonT(40) DEF Fine, Kept, Loop
  <2>2. CASE x # g
    BY <1>6, <2>1, <2>2, ZenonT(40)
  <2>3. CASE x = g /\ a = "find"
    <3>1. PICK j \in seen : j.qty >= g.qty
      BY <2>3, ZenonT(40) DEF Chosen
    <3>2. Holds(q.cart, g)
      BY <1>3, <3>1, ZenonT(40) DEF Holds
    <3> QED
      BY <1>6, <2>3, <3>2, ZenonT(40)
  <2>4. CASE x = g /\ a # "find"
    <3>1. i.qty = g.qty /\ i.qty >= g.qty
      <4>1. i.qty = g.qty
        BY <1>6, <1>10, <2>4, Zenon DEF Chosen
      <4> QED
        BY <1>2, <4>1
    <3> QED
      BY <1>6, <2>4, <3>1, ZenonT(40) DEF Loop
  <2> QED
    BY <2>2, <2>3, <2>4, ZenonT(40)
<1>13. Kept(r)
  BY <1>6, <1>10, <1>12, ZenonT(90) DEF Kept, Loop
<1> QED
  BY <1>6, <1>9, <1>11, <1>13, Zenon DEF Fine

LEMMA MergeFindStep ==
    ASSUME IInv, NEW h \in Handlers, MergeFind(h)
    PROVE  IInv'
<1>1. PICK q : q = req[h] /\ Fine(q)
  BY Zenon DEF IInv, ReqsOK
<1>2. q.at = "find" /\ UNCHANGED <<db, ledger>> /\ q \in ReqRows
  BY <1>1, Zenon DEF MergeFind, Fine
<1>3. CASE q.todo = {} /\ Go(h, "touch user")
  <2>1. Fine([q EXCEPT !.at = "touch user"])
    BY <1>1, <1>2, <1>3, Ended, ZenonT(40) DEF Ends
  <2>2. req' = [req EXCEPT ![h] = [q EXCEPT !.at = "touch user"]]
    BY <1>1, <1>3, Zenon DEF Go, Step
  <2> QED
    BY <1>2, <2>1, <2>2, QuietStep, Zenon
<1>4. CASE \E g \in q.todo :
             LET rows == FindCartItemByProductVariant(q.cart, g.sku)
                 s    == [q EXCEPT !.todo = @ \ {g}, !.sku = g.sku, !.seen = rows]
             IN  \/ rows = {} /\ Step(h, [s EXCEPT !.at = "copy", !.item = g])
                 \/ \E i \in rows :
                      Step(h, IF i.qty < g.qty
                              THEN [s EXCEPT !.at = "raise", !.item = [i EXCEPT !.qty = g.qty]] ELSE s)
  <2>1. PICK g \in q.todo :
             LET rows == FindCartItemByProductVariant(q.cart, g.sku)
                 s    == [q EXCEPT !.todo = @ \ {g}, !.sku = g.sku, !.seen = rows]
             IN  \/ rows = {} /\ Step(h, [s EXCEPT !.at = "copy", !.item = g])
                 \/ \E i \in rows :
                      Step(h, IF i.qty < g.qty
                              THEN [s EXCEPT !.at = "raise", !.item = [i EXCEPT !.qty = g.qty]] ELSE s)
    BY <1>4, Zenon
  <2>2. PICK rows : rows = FindCartItemByProductVariant(q.cart, g.sku)
    BY Zenon
  <2>3. PICK s : s = [q EXCEPT !.todo = @ \ {g}, !.sku = g.sku, !.seen = rows]
    BY Zenon
  <2>4. \/ rows = {} /\ Step(h, [s EXCEPT !.at = "copy", !.item = g])
        \/ \E i \in rows : Step(h, IF i.qty < g.qty
                                   THEN [s EXCEPT !.at = "raise", !.item = [i EXCEPT !.qty = g.qty]] ELSE s)
    BY <2>1, <2>2, <2>3, ZenonT(40)
  <2>5. /\ \A a, i : [s EXCEPT !.at = a, !.item = i] = Turn(q, a, g, rows, i)
        /\ s = Turn(q, "find", g, rows, q.item)
    BY <1>2, <2>3, ZenonT(90) DEF ReqRows, Turn
  <2>6. "copy" \in Loop /\ "raise" \in Loop /\ "find" \in Loop
    BY Zenon DEF Loop
  <2>7. ItemsOK /\ g \in q.todo
    BY <2>1, Zenon DEF IInv
  <2>8. ASSUME NEW a \in Loop, NEW i, Chosen(q, g, rows, a, i), NEW r, r = Turn(q, a, g, rows, i), Step(h, r)
        PROVE  IInv'
    <3>1. Fine(r)
      BY <1>1, <1>2, <2>2, <2>7, <2>8, Found, Zenon
    <3> QED
      BY <1>2, <2>8, <3>1, QuietStep, Zenon DEF Step
  <2>9. CASE rows = {} /\ Step(h, [s EXCEPT !.at = "copy", !.item = g])
    <3>1. Chosen(q, g, rows, "copy", g)
      BY <2>9, Zenon DEF Chosen
    <3>2. Step(h, Turn(q, "copy", g, rows, g))
      BY <2>5, <2>9, Zenon
    <3> QED
      BY <2>6, <2>8, <3>1, <3>2, Zenon
  <2>10. CASE \E i \in rows : i.qty < g.qty /\ Step(h, [s EXCEPT !.at = "raise", !.item = [i EXCEPT !.qty = g.qty]])
    <3>1. PICK i \in rows : i.qty < g.qty /\ Step(h, [s EXCEPT !.at = "raise", !.item = [i EXCEPT !.qty = g.qty]])
      BY <2>10, Zenon
    <3>2. PICK j : j = [i EXCEPT !.qty = g.qty]
      BY Zenon
    <3>3. Step(h, Turn(q, "raise", g, rows, j))
      BY <2>5, <3>1, <3>2, Zenon
    <3>4. Chosen(q, g, rows, "raise", j)
      BY <3>1, <3>2, Zenon DEF Chosen
    <3> QED
      BY <2>6, <2>8, <3>3, <3>4, Zenon
  <2>11. CASE \E i \in rows : ~(i.qty < g.qty) /\ Step(h, s)
    <3>1. PICK i \in rows : ~(i.qty < g.qty) /\ Step(h, s)
      BY <2>11, Zenon
    <3>2. i.qty >= g.qty
      <4>1. i \in ItemRows /\ g \in ItemRows
        BY <1>2, <2>2, <3>1, ZenonT(40) DEF IInv, ItemsOK, FindCartItemByProductVariant, ReqRows
      <4>2. i.qty \in Int /\ g.qty \in Int
        BY <4>1, CartConstants DEF ItemRows
      <4> QED
        BY <3>1, <4>2
    <3>3. Chosen(q, g, rows, "find", q.item)
      BY <3>1, <3>2, Zenon DEF Chosen
    <3>4. PICK j : j = q.item
      BY Zenon
    <3>5. Chosen(q, g, rows, "find", j) /\ Step(h, Turn(q, "find", g, rows, j))
      BY <2>5, <3>1, <3>3, <3>4, Zenon
    <3> QED
      BY <2>6, <2>8, <3>5, Zenon
  <2> QED
    BY <2>4, <2>9, <2>10, <2>11, Zenon
<1> QED
  BY <1>1, <1>3, <1>4, Zenon DEF MergeFind

LEMMA CheckoutStep ==
    ASSUME IInv, NEW h \in Handlers, NEW c \in CartIds, NEW u \in Users, Checkout(h, c, u)
    PROVE  IInv'
<1>1. PICK b \in BOOLEAN : b = carts[c].applied
  BY Zenon DEF IInv, CartsOK, CartRows
<1> DEFINE r == [NoReq EXCEPT !.at = "items", !.kind = "checkout", !.cart = c, !.user = u, !.applied = b]
<1>2. /\ r.at = "items" /\ r.kind = "checkout" /\ r.user = u /\ r.cart = c
      /\ r.lines = {} /\ r.rated = {} /\ r.rule = None /\ r.discount = 0
  BY Zenon DEF NoReq
<1>3. r \in ReqRows
  <2>1. "items" \in Places /\ "checkout" \in Kinds
    BY Zenon DEF Places, Kinds
  <2> QED
    BY <2>1, NoReqRow, ZenonT(40) DEF ReqRows
<1>4. req' = [req EXCEPT ![h] = r] /\ UNCHANGED <<db, ledger>> /\ GetCartByID(c)
  BY <1>1, Zenon DEF Checkout, Begin
<1> HIDE DEF r
<1>5. Based(r)
  BY <1>2, <1>4, ZenonT(40) DEF Based, Suits, Cartless
<1>6. Rated(r)
  BY <1>2, FS_EmptySet, ZenonT(40) DEF Rated, Worth
<1>7. Fine(r)
  BY <1>2, <1>3, <1>5, <1>6, SimpleFine, Zenon DEF Simple
<1> QED
  BY <1>4, <1>7, QuietStep, Zenon

LEMMA CheckoutItemsStep ==
    ASSUME IInv, NEW h \in Handlers, CheckoutItems(h)
    PROVE  IInv'
<1>1. PICK q : q = req[h] /\ Fine(q)
  BY Zenon DEF IInv, ReqsOK
<1>2. q.at = "items" /\ UNCHANGED <<db, ledger>> /\ q \in ReqRows
  BY <1>1, Zenon DEF CheckoutItems, Fine
<1>3. PICK lines \in SUBSET LineRows : lines = Lines(ListCartItems(q.cart)) /\ IsFiniteSet(lines)
  BY LinesOK, Zenon DEF IInv
<1>4. q.cart \in CartIds /\ q.kind = "checkout" /\ q.rule = None
  BY <1>1, <1>2, ZenonT(40) DEF Fine, Asked, Based, Cartless, Suits
<1>5. CASE req' = [req EXCEPT ![h] = NoReq]
  BY <1>2, <1>5, NoReqFine, QuietStep, Zenon
<1>6. ASSUME NEW a \in {"owner", "commit"}, req' = [req EXCEPT ![h] = [q EXCEPT !.at = a, !.lines = lines]]
      PROVE  IInv'
  <2> DEFINE r == [q EXCEPT !.at = a, !.lines = lines]
  <2>1. /\ r.at = a /\ r.kind = q.kind /\ r.user = q.user /\ r.anon = q.anon /\ r.cart = q.cart /\ r.guest = q.guest
        /\ r.lines = lines /\ r.rated = q.rated /\ r.rule = q.rule /\ r.discount = q.discount
    BY <1>2, Zenon DEF ReqRows
  <2>2. r \in ReqRows
    BY <1>2, RatedRow, Zenon DEF Places
  <2>3. req' = [req EXCEPT ![h] = r]
    BY <1>6, ZenonT(40)
  <2> HIDE DEF r
  <2>4. Based(r)
    BY <1>1, <1>4, <2>1, ZenonT(40) DEF Fine, Asked, Based, Suits
  <2>5. Rated(r)
    BY <1>1, <1>3, <2>1, ZenonT(40) DEF Fine, Rated
  <2>6. Fine(r)
    BY <2>1, <2>2, <2>4, <2>5, SimpleFine, Zenon DEF Simple
  <2> QED
    BY <1>2, <2>3, <2>6, QuietStep, Zenon
<1> QED
  <2>1. [q EXCEPT !.lines = lines].lines = lines /\ [q EXCEPT !.lines = lines].applied = q.applied
    BY <1>2, Zenon DEF ReqRows
  <2>2. \A a : [[q EXCEPT !.lines = lines] EXCEPT !.at = a] = [q EXCEPT !.at = a, !.lines = lines]
    BY <1>2, Zenon DEF ReqRows
  <2>3. \/ req' = [req EXCEPT ![h] = NoReq]
        \/ req' = [req EXCEPT ![h] = [[q EXCEPT !.lines = lines] EXCEPT !.at = IF q.applied THEN "owner" ELSE "commit"]]
    BY <1>1, <1>3, <2>1, Zenon DEF CheckoutItems, Done, Step
  <2> QED
    BY <1>5, <1>6, <2>2, <2>3, Zenon

LEMMA EvaluateVoucherStep ==
    ASSUME IInv, NEW h \in Handlers, EvaluateVoucher(h)
    PROVE  IInv'
<1>1. PICK q : q = req[h] /\ Fine(q)
  BY Zenon DEF IInv, ReqsOK
<1>2. q.at = "owner" /\ UNCHANGED <<db, ledger>> /\ q \in ReqRows
  BY <1>1, ZenonT(40) DEF EvaluateVoucher, Fine
<1>3. q.cart \in CartIds /\ q.kind = "checkout" /\ q.rule = None
  BY <1>1, <1>2, Zenon DEF Fine, Asked, Based, Cartless, Suits
<1>4. PICK u \in Users \union {None} : u = carts[q.cart].user
  BY <1>3, Zenon DEF IInv, CartsOK, CartRows
<1> DEFINE r == [q EXCEPT !.at = "rate", !.user = u]
<1>5. /\ r.at = "rate" /\ r.kind = q.kind /\ r.user = u /\ r.anon = q.anon /\ r.cart = q.cart /\ r.guest = q.guest
      /\ r.lines = q.lines /\ r.rated = q.rated /\ r.rule = q.rule /\ r.discount = q.discount
  BY <1>2, Zenon DEF ReqRows
<1>6. r \in ReqRows
  BY <1>2, ZenonT(90) DEF ReqRows, Places
<1>7. req' = [req EXCEPT ![h] = r]
  BY <1>1, <1>4, Zenon DEF EvaluateVoucher, Step
<1> HIDE DEF r
<1>8. Based(r)
  BY <1>1, <1>3, <1>5, ZenonT(40) DEF Fine, Asked, Based, Suits
<1>9. Rated(r)
  BY <1>1, <1>5, ZenonT(40) DEF Fine, Rated
<1>10. Fine(r)
  BY <1>5, <1>6, <1>8, <1>9, SimpleFine, Zenon DEF Simple
<1> QED
  BY <1>2, <1>7, <1>10, QuietStep, Zenon

LEMMA TroubleStep ==
    ASSUME IInv, NEW h \in Handlers, Trouble(h)
    PROVE  IInv'
<1>1. PICK q : q = req[h] /\ Fine(q)
  BY Zenon DEF IInv, ReqsOK
<1>2. UNCHANGED <<db, ledger>> /\ q \in ReqRows
  BY <1>1, Zenon DEF Trouble, Fine
<1>3. PICK r : req' = [req EXCEPT ![h] = r] /\
         \/ q.at = "touch ensured" /\ q.kind = "merge" /\ r = [q EXCEPT !.at = "list"]
         \/ q.at \in Ends /\ \E a \in Ends : r = [q EXCEPT !.at = a]
         \/ q.at \in {"owner", "rate", "rule"} /\ q.kind = "checkout" /\ r = [q EXCEPT !.at = "commit"]
         \/ r = NoReq
  BY <1>1, Zenon DEF Trouble, Ends
<1>4. q.at \notin Cartless => q.cart \in CartIds
  BY <1>1, Zenon DEF Fine, Asked, Based
<1>5. CASE q.at = "touch ensured" /\ q.kind = "merge" /\ r = [q EXCEPT !.at = "list"]
  <2>1. "list" \in Simple /\ "list" # "create" /\ Suits("list", q.kind, q.rule) /\ q.cart \in CartIds
    BY <1>4, <1>5, Zenon DEF Simple, Suits, Cartless
  <2>2. Fine(r)
    BY <1>1, <1>5, <2>1, Moved, Zenon
  <2> QED
    BY <1>2, <1>3, <2>2, QuietStep, Zenon
<1>6. CASE q.at \in Ends /\ \E a \in Ends : r = [q EXCEPT !.at = a]
  <2>1. PICK a \in Ends : r = [q EXCEPT !.at = a]
    BY <1>6, Zenon
  <2>2. q.at \in Ends
    BY <1>6, Zenon
  <2>3. Fine([q EXCEPT !.at = a])
    BY <1>1, <2>2, Ended, Zenon
  <2>4. Fine(r)
    BY <2>1, <2>3, Zenon
  <2> QED
    BY <1>2, <1>3, <2>4, QuietStep, Zenon
<1>7. CASE q.at \in {"owner", "rate", "rule"} /\ q.kind = "checkout" /\ r = [q EXCEPT !.at = "commit"]
  <2>1. "commit" \in Simple /\ "commit" # "create" /\ Suits("commit", q.kind, q.rule) /\ q.cart \in CartIds
    BY <1>4, <1>7, Zenon DEF Simple, Suits, Cartless
  <2>2. Fine(r)
    BY <1>1, <1>7, <2>1, Moved, Zenon
  <2> QED
    BY <1>2, <1>3, <2>2, QuietStep, Zenon
<1>8. CASE r = NoReq
  BY <1>2, <1>3, <1>8, NoReqFine, QuietStep, Zenon
<1> QED
  BY <1>3, <1>5, <1>6, <1>7, <1>8, Zenon

----------------------------------------------------------------------------
\* Steps that write the row of a cart.

LEMMA RowStays ==
    ASSUME IInv, NEW c \in CartIds, NEW row \in CartRows, row.user # None \/ row.anon # None,
           carts' = [carts EXCEPT ![c] = row], Updated(c), UNCHANGED <<items, made, voucher, uses, orders, ledger>>
    PROVE  CartsOK' /\ GetCartByID(c)' /\ ItemsOK' /\ RestOK' /\ AllSingle' /\ OrdersOK' /\ Persist
<1>1. CartsOK' /\ GetCartByID(c)' /\ \A d \in CartIds : GetCartByID(d) => GetCartByID(d)'
  BY CartStep, Zenon DEF IInv
<1>2. items' = items /\ made' = made /\ voucher' = voucher /\ uses' = uses /\ orders' = orders /\ due' = due /\ raced' = raced
  BY Zenon DEF ledger
<1>3. Persist
  <2>1. made \in Nat /\ made <= made
    BY MadeNat, Zenon DEF IInv
  <2> QED
    BY <1>1, <1>2, <2>1, ZenonT(40) DEF Persist
<1>4. ItemsOK'
  <2>1. \A i \in items : i.cart \in CartIds
    BY Zenon DEF IInv, ItemsOK, ItemRows
  <2> QED
    BY <1>1, <1>2, <2>1, Zenon DEF IInv, ItemsOK
<1>5. RestOK' /\ OrdersOK'
  BY <1>2, Zenon DEF IInv, RestOK, OrdersOK
<1>6. AllSingle'
  <2>1. AllSingle
    BY Zenon DEF IInv
  <2>2. \A d, s : FindCartItemByProductVariant(d, s)' = FindCartItemByProductVariant(d, s)
    BY <1>2, Zenon DEF FindCartItemByProductVariant
  <2> QED
    BY <1>2, <2>1, <2>2, Zenon DEF AllSingle, Single
<1> QED
  BY <1>1, <1>3, <1>4, <1>5, <1>6, Zenon

LEMMA RowStep ==
    ASSUME IInv, NEW c \in CartIds, NEW row \in CartRows, row.user # None \/ row.anon # None,
           carts' = [carts EXCEPT ![c] = row], Updated(c), UNCHANGED <<items, made, voucher, uses, orders, ledger>>,
           NEW h \in Handlers, NEW r, Fine(r) \/ Fine(r)', req' = [req EXCEPT ![h] = r]
    PROVE  IInv'
<1>1. CartsOK' /\ ItemsOK' /\ RestOK' /\ AllSingle' /\ OrdersOK' /\ Persist
  BY RowStays, Zenon
<1>2. ItemsOK /\ ReqsOK
  BY Zenon DEF IInv
<1>3. Fine(r)'
  BY <1>1, <1>2, FineStays, Zenon
<1>4. ReqsOK'
  BY <1>1, <1>2, <1>3, ReqStep, ZenonT(40)
<1> QED
  BY <1>1, <1>4, Zenon DEF IInv

\* A cart that exists keeps an owner when it is touched, gets a voucher or
\* loses it, or is transferred.
LEMMA RowKept ==
    ASSUME CartsOK, NEW c \in CartIds, GetCartByID(c)
    PROVE  /\ \A b \in BOOLEAN : LET row == [carts[c] EXCEPT !.live = b]
                                 IN  row \in CartRows /\ (row.user # None \/ row.anon # None)
           /\ \A b \in BOOLEAN : LET row == [carts[c] EXCEPT !.applied = b]
                                 IN  row \in CartRows /\ (row.user # None \/ row.anon # None)
           /\ \A u \in Users : LET row == [carts[c] EXCEPT !.user = u, !.anon = None]
                               IN  row \in CartRows /\ (row.user # None \/ row.anon # None)
<1>1. PICK k \in CartRows : k = carts[c] /\ (k.user # None \/ k.anon # None)
  BY Zenon DEF CartsOK, Owned
<1>2. None \notin Users
  BY CartConstants, Zenon
<1> QED
  BY <1>1, <1>2, Zenon DEF CartRows

\* TouchCart, UpdateCartVoucher and TransferCartToUser write one row.
LEMMA RowWritten ==
    ASSUME CartsOK, NEW c \in CartIds
    PROVE  /\ \A b : TouchCart(c, b) => carts' = [carts EXCEPT ![c] = [carts[c] EXCEPT !.live = b]] /\ Updated(c)
           /\ \A b : UpdateCartVoucher(c, b) => carts' = [carts EXCEPT ![c] = [carts[c] EXCEPT !.applied = b]] /\ Updated(c)
           /\ \A u : TransferCartToUser(c, u) =>
                carts' = [carts EXCEPT ![c] = [carts[c] EXCEPT !.user = u, !.anon = None]] /\ Updated(c)
<1>1. carts \in [CartIds -> CartRows]
  BY Zenon DEF CartsOK
<1> QED
  BY <1>1, Zenon DEF TouchCart, UpdateCartVoucher, TransferCartToUser

LEMMA TouchedStep ==
    ASSUME IInv, NEW c \in CartIds, GetCartByID(c), NEW b \in BOOLEAN, TouchCart(c, b) \/ UpdateCartVoucher(c, b),
           UNCHANGED <<items, made, voucher, uses, orders, ledger>>,
           NEW h \in Handlers, NEW r, Fine(r), req' = [req EXCEPT ![h] = r]
    PROVE  IInv'
<1>1. CartsOK
  BY Zenon DEF IInv
<1>2. CASE TouchCart(c, b)
  <2>1. PICK row : row = [carts[c] EXCEPT !.live = b]
    BY Zenon
  <2>2. row \in CartRows /\ (row.user # None \/ row.anon # None)
    BY <1>1, <2>1, RowKept, Zenon
  <2>3. carts' = [carts EXCEPT ![c] = row] /\ Updated(c)
    BY <1>1, <1>2, <2>1, RowWritten, Zenon
  <2> QED
    BY <2>2, <2>3, RowStep, Zenon
<1>3. CASE UpdateCartVoucher(c, b)
  <2>1. PICK row : row = [carts[c] EXCEPT !.applied = b]
    BY Zenon
  <2>2. row \in CartRows /\ (row.user # None \/ row.anon # None)
    BY <1>1, <2>1, RowKept, Zenon
  <2>3. carts' = [carts EXCEPT ![c] = row] /\ Updated(c)
    BY <1>1, <1>3, <2>1, RowWritten, Zenon
  <2> QED
    BY <2>2, <2>3, RowStep, Zenon
<1> QED
  BY <1>2, <1>3, Zenon

LEMMA TouchStep ==
    ASSUME IInv, NEW h \in Handlers, Touch(h)
    PROVE  IInv'
<1>1. PICK q : q = req[h] /\ Fine(q)
  BY Zenon DEF IInv, ReqsOK
<1>2. q.at = "touch" /\ TouchCart(q.cart, TRUE) /\ req' = [req EXCEPT ![h] = NoReq]
  BY <1>1, Zenon DEF Touch, Done, Step
<1>3. q.cart \in CartIds /\ GetCartByID(q.cart)
  <2>1. q.at \notin Cartless
    BY <1>2, Zenon DEF Cartless
  <2> QED
    BY <1>1, <2>1, HasCart, Zenon
<1>4. UNCHANGED <<items, made, voucher, uses, orders, ledger>>
  BY Zenon DEF Touch
<1>5. PICK c \in CartIds : c = q.cart
  BY <1>3, Zenon
<1>6. TouchCart(c, TRUE) /\ GetCartByID(c)
  BY <1>2, <1>3, <1>5, Zenon
<1> QED
  BY <1>2, <1>4, <1>6, NoReqFine, TouchedStep, Zenon

LEMMA AttachVoucherStep ==
    ASSUME IInv, NEW h \in Handlers, AttachVoucher(h)
    PROVE  IInv'
<1>1. PICK q : q = req[h] /\ Fine(q)
  BY Zenon DEF IInv, ReqsOK
<1>2. q.at = "attach" /\ UpdateCartVoucher(q.cart, TRUE) /\ req' = [req EXCEPT ![h] = [q EXCEPT !.at = "touch"]]
  BY <1>1, Zenon DEF AttachVoucher, Go, Step
<1>3. q.cart \in CartIds /\ GetCartByID(q.cart)
  <2>1. q.at \notin Cartless
    BY <1>2, Zenon DEF Cartless
  <2> QED
    BY <1>1, <2>1, HasCart, Zenon
<1>4. UNCHANGED <<items, made, voucher, uses, orders, ledger>>
  BY Zenon DEF AttachVoucher
<1>5. PICK c \in CartIds : c = q.cart
  BY <1>3, Zenon
<1>6. UpdateCartVoucher(c, TRUE) /\ GetCartByID(c)
  BY <1>2, <1>3, <1>5, Zenon
<1>7. Fine([q EXCEPT !.at = "touch"])
  <2>1. "touch" \in Simple /\ "touch" # "create" /\ Suits("touch", q.kind, q.rule)
    BY Zenon DEF Simple, Suits
  <2> QED
    BY <1>1, <1>3, <2>1, Moved, Zenon
<1> QED
  BY <1>2, <1>4, <1>6, <1>7, TouchedStep, Zenon

LEMMA RemoveVoucherStep ==
    ASSUME IInv, NEW h \in Handlers, NEW c \in CartIds, RemoveVoucher(h, c)
    PROVE  IInv'
<1> DEFINE r == [NoReq EXCEPT !.at = "touch", !.kind = "unapply", !.cart = c]
<1>1. "touch" \in Simple \ {"create"} /\ "unapply" \in Kinds \ {"merge", "checkout"} /\ Suits("touch", "unapply", None)
  BY Zenon DEF Simple, Kinds, Suits
<1>2. GetCartByID(c) /\ UpdateCartVoucher(c, FALSE) /\ req' = [req EXCEPT ![h] = r]
  BY Zenon DEF RemoveVoucher, Begin
<1>3. Fine([NoReq EXCEPT !.at = "touch", !.kind = "unapply", !.cart = c, !.user = None])
  BY <1>1, <1>2, Started, Zenon
<1>4. r = [NoReq EXCEPT !.at = "touch", !.kind = "unapply", !.cart = c, !.user = None]
  <2>1. NoReq.user = None
    BY Zenon DEF NoReq
  <2> QED
    BY <2>1, NoReqRow, Zenon DEF ReqRows
<1>5. UNCHANGED <<items, made, voucher, uses, orders, ledger>>
  BY Zenon DEF RemoveVoucher
<1> HIDE DEF r
<1> QED
  BY <1>2, <1>3, <1>4, <1>5, TouchedStep, Zenon

LEMMA MergeEndStep ==
    ASSUME IInv, NEW h \in Handlers, MergeEnd(h)
    PROVE  IInv'
<1>1. PICK q : q = req[h] /\ Fine(q)
  BY Zenon DEF IInv, ReqsOK
<1>2. q.at \in Ends /\ UNCHANGED <<items, made, voucher, uses, orders, ledger>>
  BY <1>1, Zenon DEF MergeEnd, Ends
<1>3. q.kind = "merge" /\ q.user \in Users /\ q.guest \in CartIds /\ GetCartByID(q.guest)
  BY <1>1, <1>2, Zenon DEF Fine, Asked, Based
<1>4. q.cart \in CartIds /\ GetCartByID(q.cart)
  <2>1. q.at \notin Cartless
    BY <1>2, Zenon DEF Cartless, Ends
  <2> QED
    BY <1>1, <2>1, HasCart, Zenon
<1>5. PICK c \in CartIds : c = q.cart
  BY <1>4, Zenon
<1>6. PICK g \in CartIds : g = q.guest
  BY <1>3, Zenon
<1>7. \A a \in Ends : Fine([q EXCEPT !.at = a])
  BY <1>1, <1>2, Ended, Zenon
<1>8. "expire guest" \in Ends /\ "clear guest" \in Ends /\ "transfer" \in Ends
  BY Zenon DEF Ends
<1>9. GetCartByID(c) /\ GetCartByID(g)
  BY <1>3, <1>4, <1>5, <1>6, Zenon
<1>10. CASE TouchCart(q.cart, TRUE) /\ Go(h, "expire guest")
  <2>1. TouchCart(c, TRUE) /\ req' = [req EXCEPT ![h] = [q EXCEPT !.at = "expire guest"]]
    BY <1>1, <1>5, <1>10, Zenon DEF Go, Step
  <2>2. Fine([q EXCEPT !.at = "expire guest"])
    BY <1>7, <1>8, Zenon
  <2> QED
    BY <1>2, <1>9, <2>1, <2>2, TouchedStep, Zenon
<1>11. CASE TouchCart(q.guest, FALSE) /\ Go(h, "clear guest")
  <2>1. TouchCart(g, FALSE) /\ req' = [req EXCEPT ![h] = [q EXCEPT !.at = "clear guest"]]
    BY <1>1, <1>6, <1>11, Zenon DEF Go, Step
  <2>2. Fine([q EXCEPT !.at = "clear guest"])
    BY <1>7, <1>8, Zenon
  <2> QED
    BY <1>2, <1>9, <2>1, <2>2, TouchedStep, Zenon
<1>12. CASE UpdateCartVoucher(q.guest, FALSE) /\ Go(h, "transfer")
  <2>1. UpdateCartVoucher(g, FALSE) /\ req' = [req EXCEPT ![h] = [q EXCEPT !.at = "transfer"]]
    BY <1>1, <1>6, <1>12, Zenon DEF Go, Step
  <2>2. Fine([q EXCEPT !.at = "transfer"])
    BY <1>7, <1>8, Zenon
  <2> QED
    BY <1>2, <1>9, <2>1, <2>2, TouchedStep, Zenon
<1>13. CASE TransferCartToUser(q.guest, q.user) /\ Done(h)
  <2>1. PICK u \in Users : u = q.user
    BY <1>3, Zenon
  <2>2. TransferCartToUser(g, u) /\ req' = [req EXCEPT ![h] = NoReq]
    BY <1>6, <1>13, <2>1, Zenon DEF Done, Step
  <2>3. PICK row : row = [carts[g] EXCEPT !.user = u, !.anon = None]
    BY ZenonT(40)
  <2>4. row \in CartRows /\ (row.user # None \/ row.anon # None)
    BY <1>9, <2>3, RowKept, Zenon DEF IInv
  <2>5. carts' = [carts EXCEPT ![g] = row] /\ Updated(g)
    BY <2>2, <2>3, RowWritten, ZenonT(90) DEF IInv
  <2> QED
    BY <1>2, <2>2, <2>4, <2>5, NoReqFine, RowStep, Zenon
<1> QED
  BY <1>1, <1>10, <1>11, <1>12, <1>13, Zenon DEF MergeEnd

\* EnsureCart is over: a merge goes on with its list.
LEMMA EnsuredFine ==
    ASSUME NEW q, Fine(q)', NEW c \in CartIds, GetCartByID(c)', NEW h \in Handlers, q = req[h], Ensured(h, c)
    PROVE  \E r : Fine(r)' /\ req' = [req EXCEPT ![h] = r]
<1>1. CASE q.kind # "merge"
  BY <1>1, NoReqFineNext, Zenon DEF Ensured, Done, Step
<1>2. CASE q.kind = "merge"
  <2> DEFINE r == [q EXCEPT !.cart = c, !.at = "list"]
  <2>1. q \in ReqRows /\ "list" \in Places
    BY Zenon DEF Fine, Places
  <2>2. /\ r.at = "list" /\ r.kind = q.kind /\ r.user = q.user /\ r.anon = q.anon /\ r.cart = c /\ r.guest = q.guest
        /\ r.lines = q.lines /\ r.rated = q.rated /\ r.rule = q.rule /\ r.discount = q.discount
    BY <2>1, Zenon DEF ReqRows
  <2>3. r \in ReqRows
    BY <2>1, ZenonT(90) DEF ReqRows
  <2>4. req' = [req EXCEPT ![h] = r]
    BY <1>2, Zenon DEF Ensured, Step
  <2> HIDE DEF r
  <2>5. Based(r)'
    BY <1>2, <2>2, Zenon DEF Fine, Asked, Based, Suits
  <2>6. Rated(r)'
    BY <2>2, Zenon DEF Fine, Rated
  <2>7. Asked(r)' /\ Kept(r)'
    BY <2>2, <2>5, Zenon DEF Asked, Kept, Loop, Ends
  <2> QED
    BY <2>3, <2>4, <2>6, <2>7, Zenon DEF Fine
<1> QED
  BY <1>1, <1>2, Zenon

LEMMA EnsureTouchStep ==
    ASSUME IInv, NEW h \in Handlers, EnsureTouch(h)
    PROVE  IInv'
<1>1. PICK q : q = req[h] /\ Fine(q)
  BY Zenon DEF IInv, ReqsOK
<1>2. q.at = "touch ensured" /\ TouchCart(q.cart, TRUE) /\ Ensured(h, q.cart)
      /\ UNCHANGED <<items, made, voucher, uses, orders, ledger>>
  BY <1>1, Zenon DEF EnsureTouch
<1>3. q.cart \in CartIds /\ GetCartByID(q.cart)
  <2>1. q.at \notin Cartless
    BY <1>2, Zenon DEF Cartless
  <2> QED
    BY <1>1, <2>1, HasCart, Zenon
<1>4. PICK c \in CartIds : c = q.cart
  BY <1>3, Zenon
<1>5. TouchCart(c, TRUE) /\ GetCartByID(c) /\ Ensured(h, c) /\ CartsOK /\ ItemsOK
  BY <1>2, <1>3, <1>4, Zenon DEF IInv
<1>6. PICK row : row = [carts[c] EXCEPT !.live = TRUE]
  BY ZenonT(40)
<1>7. row \in CartRows /\ (row.user # None \/ row.anon # None)
  BY <1>5, <1>6, RowKept, Zenon
<1>8. carts' = [carts EXCEPT ![c] = row] /\ Updated(c)
  BY <1>5, <1>6, RowWritten, Zenon
<1>9. Persist /\ GetCartByID(c)'
  BY <1>2, <1>7, <1>8, RowStays, Zenon
<1>10. Fine(q)'
  BY <1>1, <1>2, <1>5, <1>9, FineStays, Zenon
<1>11. PICK r : Fine(r)' /\ req' = [req EXCEPT ![h] = r]
  BY <1>1, <1>5, <1>9, <1>10, EnsuredFine, Zenon
<1> QED
  BY <1>2, <1>7, <1>8, <1>11, RowStep, Zenon

LEMMA EnsureCreateStep ==
    ASSUME IInv, NEW h \in Handlers, EnsureCreate(h)
    PROVE  IInv'
<1>1. PICK q : q = req[h] /\ Fine(q)
  BY Zenon DEF IInv, ReqsOK
<1>2. q.at = "create" /\ UNCHANGED <<items, made, voucher, uses, orders, ledger>>
  BY <1>1, Zenon DEF EnsureCreate
<1>3. PICK c \in CartIds : /\ CreateCart(c, q.user, IF q.user # None THEN None ELSE q.anon)
                           /\ Ensured(h, c)
  BY <1>1, ZenonT(40) DEF EnsureCreate
<1>4. q.user \in Users \union {None} /\ q.anon \in Anons \union {None} /\ (q.user # None \/ q.anon # None)
  BY <1>1, <1>2, ZenonT(40) DEF Fine, Asked, Based, ReqRows
<1>5. PICK row : row = [NoCart EXCEPT !.user = q.user, !.anon = IF q.user # None THEN None ELSE q.anon, !.live = TRUE]
  BY Zenon
<1>6. row \in CartRows /\ (row.user # None \/ row.anon # None)
  BY <1>4, <1>5, Zenon DEF NoCart, CartRows
<1>7. carts' = [carts EXCEPT ![c] = row] /\ Updated(c)
  BY <1>3, <1>5, Zenon DEF CreateCart
<1>8. Persist /\ GetCartByID(c)' /\ ItemsOK
  BY <1>2, <1>6, <1>7, RowStays, Zenon DEF IInv
<1>9. Fine(q)'
  BY <1>1, <1>2, <1>8, FineStays, Zenon
<1>10. PICK r : Fine(r)' /\ req' = [req EXCEPT ![h] = r]
  BY <1>1, <1>3, <1>8, <1>9, EnsuredFine, ZenonT(90)
<1> QED
  BY <1>2, <1>6, <1>7, <1>10, RowStep, Zenon

LEMMA ExpireStep ==
    ASSUME IInv, NEW c \in CartIds, Expire(c)
    PROVE  IInv'
<1>1. PICK row : row = [carts[c] EXCEPT !.live = FALSE]
  BY Zenon
<1>2. carts' = [carts EXCEPT ![c] = row] /\ carts[c].live
  BY <1>1, Zenon DEF Expire, IInv, CartsOK
<1>3. GetCartByID(c) /\ CartsOK /\ ItemsOK /\ ReqsOK
  BY <1>2 DEF GetCartByID, NoCart, IInv
<1>4. row \in CartRows /\ (row.user # None \/ row.anon # None) /\ row # NoCart
  BY <1>1, <1>3, RowKept, Zenon DEF NoCart
<1>5. /\ recent' = recent /\ items' = items /\ made' = made /\ voucher' = voucher /\ uses' = uses /\ orders' = orders
      /\ req' = req /\ due' = due /\ raced' = raced
  BY Zenon DEF Expire, ledger
<1>6. carts' \in [CartIds -> CartRows] /\ carts'[c] = row /\ \A d \in CartIds : d # c => carts'[d] = carts[d]
  BY <1>2, <1>3, <1>4, Zenon DEF CartsOK
<1>7. \A d \in CartIds : GetCartByID(d)' <=> GetCartByID(d)
  BY <1>3, <1>4, <1>6, Zenon DEF GetCartByID
<1>8. CartsOK'
  <2>1. \A d \in CartIds : GetCartByID(d)' => Owned(d)'
    BY <1>3, <1>4, <1>6, <1>7, Zenon DEF CartsOK, Owned
  <2>2. Ordered'
    BY <1>3, <1>5, <1>7, Zenon DEF CartsOK, Ordered
  <2> QED
    BY <1>3, <1>5, <1>6, <2>1, <2>2, Zenon DEF CartsOK
<1>9. Persist
  <2>1. made \in Nat /\ made <= made
    BY <1>3, MadeNat, Zenon
  <2> QED
    BY <1>5, <1>7, <2>1, Zenon DEF Persist
<1>10. ReqsOK'
  BY <1>3, <1>5, <1>9, FineStays, Zenon DEF ReqsOK
<1>11. ItemsOK'
  <2>1. \A i \in items : i.cart \in CartIds
    BY <1>3, Zenon DEF ItemsOK, ItemRows
  <2> QED
    BY <1>3, <1>5, <1>7, <2>1, ZenonT(40) DEF ItemsOK
<1>12. RestOK' /\ OrdersOK'
  BY <1>5, Zenon DEF IInv, RestOK, OrdersOK
<1>13. AllSingle'
  <2>1. AllSingle
    BY Zenon DEF IInv
  <2>2. \A d, s : FindCartItemByProductVariant(d, s)' = FindCartItemByProductVariant(d, s)
    BY <1>5, Zenon DEF FindCartItemByProductVariant
  <2> QED
    BY <1>5, <2>1, <2>2, Zenon DEF AllSingle, Single
<1> QED
  BY <1>8, <1>10, <1>11, <1>12, <1>13, Zenon DEF IInv

----------------------------------------------------------------------------
\* Steps that write the item rows of one sku in one cart.

\* The rows of other carts and other skus stay.
Elsewhere(c, s) ==
    /\ \A i \in items : i.cart # c \/ i.sku # s => i \in items'
    /\ \A i \in items' : i.cart # c \/ i.sku # s => i \in items

\* What such a step does to the other requests.
Disturbed(q, c, s) ==
    IF q.kind = "merge" /\ q.cart = c THEN [q EXCEPT !.disturbed = @ \union {s}] ELSE q

LEMMA DisturbedRow ==
    ASSUME NEW q \in ReqRows, NEW c, NEW s \in Skus, NEW r, r = Disturbed(q, c, s)
    PROVE  /\ r \in ReqRows
           /\ r.at = q.at /\ r.kind = q.kind /\ r.user = q.user /\ r.anon = q.anon /\ r.cart = q.cart
           /\ r.guest = q.guest /\ r.sku = q.sku /\ r.qty = q.qty /\ r.item = q.item /\ r.seen = q.seen
           /\ r.todo = q.todo /\ r.lines = q.lines /\ r.rated = q.rated /\ r.rule = q.rule
           /\ r.discount = q.discount
           /\ q.disturbed \subseteq r.disturbed /\ (q.kind = "merge" /\ q.cart = c => s \in r.disturbed)
<1>1. CASE q.kind = "merge" /\ q.cart = c
  <2>1. r = [q EXCEPT !.disturbed = q.disturbed \union {s}]
    BY <1>1, Zenon DEF Disturbed
  <2>2. r \in ReqRows
    BY <2>1 DEF ReqRows
  <2>3. /\ r.at = q.at /\ r.kind = q.kind /\ r.user = q.user /\ r.anon = q.anon /\ r.cart = q.cart
        /\ r.guest = q.guest /\ r.sku = q.sku /\ r.qty = q.qty /\ r.item = q.item /\ r.seen = q.seen
        /\ r.todo = q.todo /\ r.lines = q.lines /\ r.rated = q.rated /\ r.rule = q.rule
        /\ r.discount = q.discount /\ r.disturbed = q.disturbed \union {s}
    BY <2>1, Zenon DEF ReqRows
  <2> QED
    BY <2>2, <2>3, Zenon
<1>2. CASE ~(q.kind = "merge" /\ q.cart = c)
  BY <1>2, Zenon DEF Disturbed
<1> QED
  BY <1>1, <1>2, Zenon

\* Another request goes on: a merge knows that the sku was changed.
LEMMA DisturbedFine ==
    ASSUME ItemsOK, Persist, NEW c, NEW s \in Skus, Elsewhere(c, s), NEW q, Fine(q), NEW r, r = Disturbed(q, c, s)
    PROVE  Fine(r)'
<1>1. q \in ReqRows /\ Asked(q) /\ Rated(q) /\ Kept(q)
  BY ZenonT(40) DEF Fine
<1>2. /\ r \in ReqRows
      /\ r.at = q.at /\ r.kind = q.kind /\ r.user = q.user /\ r.anon = q.anon /\ r.cart = q.cart
      /\ r.guest = q.guest /\ r.sku = q.sku /\ r.qty = q.qty /\ r.item = q.item /\ r.seen = q.seen
      /\ r.todo = q.todo /\ r.lines = q.lines /\ r.rated = q.rated /\ r.rule = q.rule
      /\ r.discount = q.discount
      /\ q.disturbed \subseteq r.disturbed /\ (q.kind = "merge" /\ q.cart = c => s \in r.disturbed)
  <2>1. q \in ReqRows
    BY <1>1, Zenon
  <2> QED
    BY <2>1, DisturbedRow
<1>3. Asked(q)'
  BY <1>1, AskedStays, Zenon
<1>4. Asked(r)'
  <2>1. Based(r)'
    BY <1>2, <1>3, Zenon DEF Asked, Based
  <2>2. Names(q)' => Names(r)'
    BY <1>2, ZenonT(40) DEF Names
  <2> QED
    BY <1>2, <1>3, <2>1, <2>2, Zenon DEF Asked
<1>5. Rated(r)'
  BY <1>1, <1>2, Zenon DEF Rated
<1>6. Kept(r)'
  <2>1. SUFFICES ASSUME r.at \in Loop \union Ends
                 PROVE  /\ \A g \in r.lines : \/ r.at \in Loop /\ g \in r.todo
                                              \/ g.sku \in r.disturbed
                                              \/ Holds(r.cart, g)'
                                              \/ r.at \in {"raise", "copy"} /\ g.sku = r.sku /\ r.item.qty >= g.qty
                        /\ r.at = "raise" => \/ r.sku \in r.disturbed
                                             \/ \E i \in items' : /\ i.id = r.item.id /\ i.cart = r.cart
                                                                  /\ i.sku = r.sku /\ i.qty < r.item.qty
    BY Zenon DEF Kept
  <2>2. q.at \in Loop \union Ends /\ q.kind = "merge"
    BY <1>1, <1>2, <2>1, Zenon DEF Asked
  <2>3. ASSUME NEW g, Holds(q.cart, g) PROVE g.sku \in r.disturbed \/ Holds(r.cart, g)'
    <3>1. PICK i \in items : i.cart = q.cart /\ i.sku = g.sku /\ i.qty >= g.qty
      BY <2>3, Zenon DEF Holds
    <3>2. CASE i.cart = c /\ i.sku = s
      BY <1>2, <2>2, <3>1, <3>2, Zenon
    <3>3. CASE i.cart # c \/ i.sku # s
      BY <1>2, <3>1, <3>3, Zenon DEF Elsewhere, Holds
    <3> QED
      BY <3>2, <3>3, Zenon
  <2>4. ASSUME NEW g \in r.lines
        PROVE  \/ (r.at \in Loop /\ g \in r.todo) \/ g.sku \in r.disturbed \/ Holds(r.cart, g)'
               \/ r.at \in {"raise", "copy"} /\ g.sku = r.sku /\ r.item.qty >= g.qty
    <3>1. \/ (q.at \in Loop /\ g \in q.todo) \/ g.sku \in q.disturbed \/ Holds(q.cart, g)
          \/ q.at \in {"raise", "copy"} /\ g.sku = q.sku /\ q.item.qty >= g.qty
      BY <1>1, <1>2, <2>2, <2>4, Zenon DEF Kept
    <3> QED
      BY <1>2, <2>3, <3>1, Zenon
  <2>5. ASSUME r.at = "raise", r.sku \notin r.disturbed
        PROVE  \E i \in items' : i.id = r.item.id /\ i.cart = r.cart /\ i.sku = r.sku /\ i.qty < r.item.qty
    <3>1. q.at = "raise" /\ q.sku \notin q.disturbed
      BY <1>2, <2>5, Zenon
    <3>2. PICK i \in items : i.id = q.item.id /\ i.cart = q.cart /\ i.sku = q.sku /\ i.qty < q.item.qty
      BY <1>1, <2>2, <3>1, Zenon DEF Kept
    <3>3. i.cart # c \/ i.sku # s
      BY <1>2, <2>2, <2>5, <3>2, Zenon
    <3> QED
      BY <1>2, <3>2, <3>3, Zenon DEF Elsewhere
  <2> QED
    BY <2>4, <2>5, Zenon
<1> QED
  BY <1>2, <1>4, <1>5, <1>6, Zenon DEF Fine

\* The request that writes goes on to a step that works on no item row.
LEMMA SimpleStays ==
    ASSUME ItemsOK, Persist, NEW r, Fine(r), r.at \in Simple
    PROVE  Fine(r)'
<1>1. Asked(r)' /\ r \in ReqRows
  BY AskedStays, ZenonT(40) DEF Fine
<1>2. Kept(r)'
  BY Zenon DEF Kept, Simple, Loop, Ends
<1> QED
  BY <1>1, <1>2, Zenon DEF Fine, Rated

LEMMA WriteStep ==
    ASSUME IInv, NEW c \in CartIds, NEW s \in Skus, ItemsOK', Persist, Elsewhere(c, s), NEW n \in Int,
           due' = [due EXCEPT ![c][s] = n], raced \subseteq raced', Single(c, s)',
           UNCHANGED <<carts, recent, voucher, uses, orders>>, NEW h \in Handlers, NEW r, Fine(r)',
           req' = [g \in Handlers |-> IF g = h THEN r ELSE Disturbed(req[g], c, s)]
    PROVE  IInv'
<1>1. CartsOK /\ ItemsOK /\ RestOK /\ ReqsOK /\ AllSingle /\ OrdersOK
  BY Zenon DEF IInv
<1>2. ASSUME NEW g \in Handlers PROVE Fine(req[g])' /\ req'[g] \in ReqRows
  <2>1. CASE g = h
    <3>1. req'[g] = r
      BY <2>1, Zenon
    <3> QED
      BY <3>1, Zenon DEF Fine
  <2>2. CASE g # h
    <3>1. PICK q : q = req[g]
      BY Zenon
    <3>2. PICK p : p = Disturbed(q, c, s)
      BY Zenon
    <3>3. req'[g] = p
      BY <2>2, <3>1, <3>2, Zenon
    <3>4. Fine(p)'
      BY <1>1, <3>1, <3>2, DisturbedFine, Zenon DEF ReqsOK
    <3> QED
      BY <3>3, <3>4, Zenon DEF Fine
  <2> QED
    BY <2>1, <2>2, Zenon
<1>3. ReqsOK'
  <2>1. req' \in [Handlers -> ReqRows]
    <3>1. \A g \in Handlers : (IF g = h THEN r ELSE Disturbed(req[g], c, s)) \in ReqRows
      BY <1>2, Zenon
    <3> QED
      BY <3>1, Zenon
  <2> QED
    BY <1>2, <2>1, Zenon DEF ReqsOK
<1>4. CartsOK' /\ OrdersOK'
  BY <1>1, Zenon DEF CartsOK, Ordered, Owned, GetCartByID, OrdersOK
<1>5. RestOK'
  BY <1>1, Zenon DEF RestOK
<1>6. ASSUME NEW d \in CartIds, NEW t \in Skus PROVE Single(d, t)'
  <2>1. CASE d = c /\ t = s
    BY <2>1, Zenon
  <2>2. CASE ~(d = c /\ t = s)
    <3>1. due'[d][t] = due[d][t]
      BY <1>1, <2>2, Zenon DEF RestOK
    <3>2. FindCartItemByProductVariant(d, t)' = FindCartItemByProductVariant(d, t)
      BY <2>2, Zenon DEF FindCartItemByProductVariant, Elsewhere
    <3>3. \A i : FindCartItemByProductVariant(d, t) = {i} => i \in items'
      BY <3>2, Zenon DEF FindCartItemByProductVariant
    <3>4. Single(d, t)
      BY <1>1, Zenon DEF AllSingle
    <3> QED
      BY <3>1, <3>2, <3>3, <3>4, Zenon DEF Single
  <2> QED
    BY <2>1, <2>2, Zenon
<1> QED
  BY <1>3, <1>4, <1>5, <1>6, Zenon DEF IInv, AllSingle

\* What a new quantity, a new row and a removed row do to the table.
QtyIs(c, s, id, qty) ==
    /\ \A i \in items : i.id # id => i \in items'
    /\ \A i \in items : i.id = id => \E j \in items' : j.id = id /\ j.cart = c /\ j.sku = s /\ j.qty = qty
    /\ \A i \in items : i.id = id /\ FindCartItemByProductVariant(c, s) = {i} =>
         \E j \in items' : FindCartItemByProductVariant(c, s)' = {j} /\ j.qty = qty

LEMMA QtyWritten ==
    ASSUME ItemsOK, carts' = carts, made' = made, NEW c \in CartIds, NEW s \in Skus, NEW id,
           \A i \in items : i.id = id => i.cart = c /\ i.sku = s,
           NEW qty \in 1..(Half - 1), NEW sub \in Nat, UpdateCartItemQty(id, qty, sub)
    PROVE  ItemsOK' /\ Persist /\ Elsewhere(c, s) /\ QtyIs(c, s, id, qty)
<1> DEFINE W(i) == IF i.id = id THEN [i EXCEPT !.qty = qty, !.subtotal = sub] ELSE i
<1>1. items' = {W(i) : i \in items}
  BY Zenon DEF UpdateCartItemQty
<1>2. \A i \in items : /\ W(i) \in ItemRows /\ W(i).id = i.id /\ W(i).cart = i.cart /\ W(i).sku = i.sku
                       /\ (i.id = id => W(i).qty = qty) /\ (i.id # id => W(i) = i)
  BY Zenon DEF ItemsOK, ItemRows
<1> HIDE DEF W
<1>3. IsFiniteSet(items')
  <2>1. PICK S : S = items'
    BY Zenon
  <2>2. [i \in items |-> W(i)] \in Surjection(items, S)
    BY <1>1, <2>1, Zenon DEF Surjection
  <2>3. IsFiniteSet(items)
    BY Zenon DEF ItemsOK
  <2>4. PICK R : R = items
    BY Zenon
  <2>5. PICK f : f \in Surjection(R, S)
    BY <2>2, <2>4, Zenon
  <2> QED
    BY <2>1, <2>3, <2>4, <2>5, FS_Surjection, Zenon
<1>4. \A j \in items' : \E i \in items : j = W(i)
  BY <1>1, Zenon
<1>5. \A i \in items : W(i) \in items'
  BY <1>1, Zenon
<1>6. ItemsOK'
  <2>1. items' \subseteq ItemRows /\ made' \in 0..MaxItems
    BY <1>2, <1>4, Zenon DEF ItemsOK
  <2>2. \A j \in items' : j.id \in 1..made' /\ GetCartByID(j.cart)'
    <3>1. SUFFICES ASSUME NEW i \in items PROVE W(i).id \in 1..made' /\ GetCartByID(W(i).cart)'
      BY <1>4, Zenon
    <3>2. i.id \in 1..made /\ GetCartByID(i.cart)
      BY Zenon DEF ItemsOK
    <3> QED
      BY <1>2, <3>2, Zenon DEF GetCartByID
  <2>3. \A i, j \in items' : i.id = j.id => i = j
    <3>1. SUFFICES ASSUME NEW i \in items, NEW j \in items, W(i).id = W(j).id PROVE W(i) = W(j)
      BY <1>4, ZenonT(90)
    <3>2. i.id = j.id
      BY <1>2, <3>1, Zenon
    <3>3. i = j
      BY <3>2, Zenon DEF ItemsOK
    <3> QED
      BY <3>3, Zenon
  <2> QED
    BY <1>3, <2>1, <2>2, <2>3, Zenon DEF ItemsOK
<1>7. Persist
  <2>1. made \in Nat /\ made <= made
    BY MadeNat, Zenon
  <2>2. \A j \in items' : \E i \in items : i.id = j.id /\ i.cart = j.cart /\ i.sku = j.sku
    BY <1>2, <1>4, Zenon
  <2> QED
    BY <2>1, <2>2, Zenon DEF Persist, GetCartByID
<1>8. Elsewhere(c, s)
  <2>1. \A i \in items : i.cart # c \/ i.sku # s => i \in items'
    BY <1>2, <1>5, Zenon
  <2>2. \A j \in items' : j.cart # c \/ j.sku # s => j \in items
    BY <1>2, <1>4, Zenon
  <2> QED
    BY <2>1, <2>2, Zenon DEF Elsewhere
<1>9. \A i \in items : i.id # id => i \in items'
  BY <1>2, <1>5, Zenon
<1>10. \A i \in items : i.id = id => \E j \in items' : j.id = id /\ j.cart = c /\ j.sku = s /\ j.qty = qty
  BY <1>2, <1>5, Zenon
<1>11. ASSUME NEW i \in items, i.id = id, FindCartItemByProductVariant(c, s) = {i}
       PROVE  \E j \in items' : FindCartItemByProductVariant(c, s)' = {j} /\ j.qty = qty
  <2>1. W(i) \in items' /\ W(i).qty = qty /\ W(i).cart = c /\ W(i).sku = s
    BY <1>2, <1>5, <1>11, Zenon
  <2>2. \A j \in items' : j.cart = c /\ j.sku = s => j = W(i)
    <3>1. SUFFICES ASSUME NEW k \in items, W(k).cart = c, W(k).sku = s PROVE k = i
      BY <1>4, Zenon
    <3>2. k \in FindCartItemByProductVariant(c, s)
      BY <1>2, <3>1, ZenonT(40) DEF FindCartItemByProductVariant
    <3> QED
      BY <1>11, <3>2, Zenon
  <2>3. FindCartItemByProductVariant(c, s)' = {W(i)}
    BY <2>1, <2>2, Zenon DEF FindCartItemByProductVariant
  <2> QED
    BY <2>1, <2>3, Zenon
<1>12. QtyIs(c, s, id, qty)
  BY <1>9, <1>10, <1>11, Zenon DEF QtyIs
<1> QED
  BY <1>6, <1>7, <1>8, <1>12, ZenonT(40)

Created(c, s, qty) ==
    /\ items \subseteq items'
    /\ \E j \in items' : /\ j.cart = c /\ j.sku = s /\ j.qty = qty
                         /\ FindCartItemByProductVariant(c, s) = {} => FindCartItemByProductVariant(c, s)' = {j}

LEMMA ItemCreated ==
    ASSUME ItemsOK, carts' = carts, NEW c \in CartIds, GetCartByID(c), NEW s \in Skus, NEW qty \in 1..(Half - 1),
           NEW price \in Nat, NEW sub \in Nat, CreateCartItem(c, s, qty, price, sub)
    PROVE  ItemsOK' /\ Persist /\ Elsewhere(c, s) /\ Created(c, s, qty)
<1>1. made \in Nat /\ MaxItems \in Nat /\ made' = made + 1 /\ made' <= MaxItems /\ made' \in Nat /\ made < made'
  BY CartConstants DEF ItemsOK, CreateCartItem
<1>2. PICK j : j = [id |-> made', cart |-> c, sku |-> s, qty |-> qty, price |-> price, subtotal |-> sub]
  BY Zenon
<1>3. items' = items \union {j}
  BY <1>2, Zenon DEF CreateCartItem
<1>4. j \in ItemRows /\ j.id = made' /\ j.cart = c /\ j.sku = s /\ j.qty = qty
  BY <1>1, <1>2, Zenon DEF ItemRows
<1>5. \A i \in items : i.id \in 1..made' /\ i.id # made' /\ i.id <= made
  BY <1>1 DEF ItemsOK
<1>6. ItemsOK'
  <2>1. items' \subseteq ItemRows /\ IsFiniteSet(items') /\ made' \in 0..MaxItems
    BY <1>1, <1>3, <1>4, FS_AddElement, SMTT(40) DEF ItemsOK
  <2>2. made' \in 1..made'
    BY <1>1
  <2>3. \A i \in items' : i.id \in 1..made' /\ GetCartByID(i.cart)'
    BY <1>3, <1>4, <1>5, <2>2, Zenon DEF ItemsOK, GetCartByID
  <2>4. \A i, k \in items' : i.id = k.id => i = k
    BY <1>3, <1>4, <1>5, Zenon DEF ItemsOK
  <2> QED
    BY <2>1, <2>3, <2>4, ZenonT(40) DEF ItemsOK
<1>7. Persist
  <2>1. j.id > made /\ made <= made'
    BY <1>1, <1>4
  <2> QED
    BY <1>1, <1>3, <2>1, Zenon DEF Persist, GetCartByID
<1>8. Elsewhere(c, s)
  BY <1>3, <1>4, Zenon DEF Elsewhere
<1>9. ASSUME FindCartItemByProductVariant(c, s) = {}
      PROVE  FindCartItemByProductVariant(c, s)' = {j}
  BY <1>3, <1>4, <1>9 DEF FindCartItemByProductVariant
<1>10. items \subseteq items' /\ j \in items'
  BY <1>3, Zenon
<1>11. Created(c, s, qty)
  BY <1>4, <1>9, <1>10, Zenon DEF Created
<1> QED
  BY <1>6, <1>7, <1>8, <1>11, ZenonT(40)

LEMMA ItemDeleted ==
    ASSUME ItemsOK, carts' = carts, made' = made, NEW i \in items, DeleteCartItem(i.id, i.cart)
    PROVE  /\ ItemsOK' /\ Persist /\ Elsewhere(i.cart, i.sku)
           /\ FindCartItemByProductVariant(i.cart, i.sku) = {i} => FindCartItemByProductVariant(i.cart, i.sku)' = {}
<1>1. items' = items \ {i}
  BY Zenon DEF DeleteCartItem, ItemsOK
<1>2. IsFiniteSet(items') /\ items' \subseteq items
  BY <1>1, FS_Subset, Zenon DEF ItemsOK
<1>3. ItemsOK'
  BY <1>2, Zenon DEF ItemsOK, GetCartByID
<1>4. Persist
  <2>1. made \in Nat /\ made <= made
    BY MadeNat, Zenon
  <2> QED
    BY <1>2, <2>1, Zenon DEF Persist, GetCartByID
<1>5. Elsewhere(i.cart, i.sku)
  BY <1>1, Zenon DEF Elsewhere
<1>6. FindCartItemByProductVariant(i.cart, i.sku) = {i} => FindCartItemByProductVariant(i.cart, i.sku)' = {}
  BY <1>1, Zenon DEF FindCartItemByProductVariant
<1> QED
  BY <1>3, <1>4, <1>5, <1>6, ZenonT(40)

LEMMA Written ==
    ASSUME RestOK, NEW h \in Handlers, NEW c \in CartIds, NEW s \in Skus, NEW n, NEW seen, NEW r, Write(h, c, s, n, seen, r)
    PROVE  /\ req' = [g \in Handlers |-> IF g = h THEN r ELSE Disturbed(req[g], c, s)]
           /\ due' = [due EXCEPT ![c][s] = n] /\ due'[c][s] = n
           /\ raced \subseteq raced' /\ (seen = FindCartItemByProductVariant(c, s) \/ <<c, s>> \in raced')
           /\ UNCHANGED <<carts, recent, voucher, uses, orders>>
<1>1. req' = [g \in Handlers |-> IF g = h THEN r ELSE Disturbed(req[g], c, s)]
  BY Zenon DEF Write, Disturbed
<1>2. due' = [due EXCEPT ![c][s] = n]
  BY Zenon DEF Write
<1>3. due'[c][s] = n
  BY <1>2, Zenon DEF RestOK
<1>4. raced \subseteq raced' /\ (seen = FindCartItemByProductVariant(c, s) \/ <<c, s>> \in raced')
  BY Zenon DEF Write
<1>5. UNCHANGED <<carts, recent, voucher, uses, orders>>
  BY Zenon DEF Write
<1> QED
  BY <1>1, <1>2, <1>3, <1>4, <1>5, Zenon

\* The quantities the CHECK of the table lets in.
LEMMA Int32Fits ==
    ASSUME NEW n \in Int, Int32(n) > 0
    PROVE  Int32(n) \in 1..(Half - 1)
<1>1. Int32(n) \in Int /\ Int32(n) < Half
  BY Int32Range, Zenon
<1>2. Half \in Nat
  BY CartConstants, Zenon
<1> QED
  BY <1>1, <1>2

\* After its write a request only touches the cart.
LEMMA ToTouch ==
    ASSUME NEW q, Fine(q), q.at \notin Cartless, ItemsOK, Persist
    PROVE  Fine([q EXCEPT !.at = "touch"])'
<1>1. "touch" \in Simple /\ "touch" # "create" /\ Suits("touch", q.kind, q.rule)
  BY Zenon DEF Simple, Suits
<1>2. q.cart \in CartIds
  BY HasCart, Zenon
<1>3. PICK r : r = [q EXCEPT !.at = "touch"]
  BY Zenon
<1>4. Fine(r)
  BY <1>1, <1>2, <1>3, Moved, Zenon
<1>5. r.at = "touch"
  BY <1>3, Zenon DEF Fine, ReqRows
<1>6. Fine(r)'
  BY <1>1, <1>4, <1>5, SimpleStays, Zenon
<1> QED
  BY <1>3, <1>6, Zenon

LEMMA AddIncrementStep ==
    ASSUME IInv, NEW h \in Handlers, AddIncrement(h)
    PROVE  IInv'
<1>1. PICK q : q = req[h] /\ Fine(q)
  BY Zenon DEF IInv, ReqsOK
<1>2. PICK newQty : newQty = Int32(q.item.qty + Int32(q.qty))
  BY Zenon
<1>3. PICK n : n = Int32(due[q.cart][q.sku] + q.qty)
  BY Zenon
<1>4. /\ q.at = "increment" /\ newQty > 0 /\ made' = made
      /\ UpdateCartItemQty(q.item.id, newQty, newQty * q.item.price)
      /\ Write(h, q.cart, q.sku, n, q.seen, [q EXCEPT !.at = "touch"])
  BY <1>1, <1>2, <1>3, Zenon DEF AddIncrement
<1>5. q.at \notin Cartless
  BY <1>4, Zenon DEF Cartless
<1>6. q.cart \in CartIds
  BY <1>1, <1>5, HasCart, Zenon
<1>7. /\ q.sku \in Skus /\ q.qty \in Quantities /\ Names(q) /\ q.item.sku = q.sku /\ q.item \in q.seen
  BY <1>1, <1>4, ZenonT(40) DEF Fine, Asked
<1>8. CartsOK /\ ItemsOK /\ RestOK /\ AllSingle
  BY Zenon DEF IInv
<1>9. q.qty \in Int /\ q.item.qty \in Int /\ q.item.price \in Nat /\ Half \in Nat
  <2>1. q.item \in ItemRows
    BY <1>7, Zenon DEF Names
  <2>2. Half \in Nat /\ Quantities \subseteq Nat
    BY CartConstants, Zenon
  <2>3. q.item.qty \in Int /\ q.item.price \in Nat
    BY <2>1, <2>2 DEF ItemRows
  <2>4. q.qty \in Nat
    BY <1>7, <2>2, Zenon
  <2> QED
    BY <2>2, <2>3, <2>4
<1>10. newQty = Int32(q.item.qty + q.qty)
  BY <1>2, <1>9, Int32Adds, Zenon
<1>11. newQty \in 1..(Half - 1)
  <2>1. q.item.qty + q.qty \in Int
    BY <1>9
  <2> QED
    BY <1>4, <1>10, <2>1, Int32Fits, ZenonT(40)
<1>12. PICK sub \in Nat : sub = newQty * q.item.price
  BY <1>9, <1>11, Times
<1>13. PICK c \in CartIds : c = q.cart
  BY <1>6, Zenon
<1>14. PICK s \in Skus : s = q.sku
  BY <1>7, Zenon
<1>15. PICK id : id = q.item.id
  BY Zenon
<1>16. PICK r : r = [q EXCEPT !.at = "touch"]
  BY Zenon
<1>17. PICK seen : seen = q.seen
  BY Zenon
<1>18. UpdateCartItemQty(id, newQty, sub) /\ Write(h, c, s, n, seen, r)
  BY <1>4, <1>12, <1>13, <1>14, <1>15, <1>16, <1>17, ZenonT(40)
<1>19. /\ req' = [g \in Handlers |-> IF g = h THEN r ELSE Disturbed(req[g], c, s)]
       /\ due' = [due EXCEPT ![c][s] = n] /\ due'[c][s] = n
       /\ raced \subseteq raced' /\ (seen = FindCartItemByProductVariant(c, s) \/ <<c, s>> \in raced')
       /\ UNCHANGED <<carts, recent, voucher, uses, orders>>
  BY <1>8, <1>18, Written, Zenon
<1>20. \A i \in items : i.id = id => i.cart = c /\ i.sku = s
  BY <1>7, <1>13, <1>14, <1>15, Zenon DEF Names
<1>21. ItemsOK' /\ Persist /\ Elsewhere(c, s) /\ QtyIs(c, s, id, newQty)
  <2>1. carts' = carts /\ made' = made /\ ItemsOK /\ UpdateCartItemQty(id, newQty, sub) /\ sub \in Nat
    BY <1>4, <1>8, <1>12, <1>18, <1>19, Zenon
  <2> QED
    BY <1>11, <1>20, <2>1, QtyWritten, Zenon
<1>22. Fine(r)'
  BY <1>1, <1>5, <1>8, <1>16, <1>21, ToTouch, ZenonT(40)
<1>23. n \in Int
  <2>1. due[c][s] + q.qty \in Int
    BY <1>8, <1>9 DEF RestOK
  <2> QED
    BY <1>3, <1>13, <1>14, <2>1, Int32Range, ZenonT(40)
<1>24. Single(c, s)'
  <2>1. CASE <<c, s>> \in raced'
    BY <2>1, Zenon DEF Single
  <2>2. CASE seen = FindCartItemByProductVariant(c, s) /\ <<c, s>> \notin raced
    <3>1. Single(c, s) /\ q.item \in FindCartItemByProductVariant(c, s)
      BY <1>7, <1>8, <1>17, <2>2, ZenonT(40) DEF AllSingle
    <3>2. PICK i \in items : FindCartItemByProductVariant(c, s) = {i} /\ due[c][s] = i.qty
      BY <2>2, <3>1, Zenon DEF Single
    <3>3. i = q.item /\ i.id = id
      BY <1>15, <3>1, <3>2, Zenon
    <3>4. PICK j \in items' : FindCartItemByProductVariant(c, s)' = {j} /\ j.qty = newQty
      BY <1>21, <3>2, <3>3, Zenon DEF QtyIs
    <3>5. newQty = n
      BY <1>3, <1>10, <1>13, <1>14, <3>2, <3>3, ZenonT(40)
    <3> QED
      BY <1>19, <3>4, <3>5, Zenon DEF Single
  <2> QED
    BY <1>19, <2>1, <2>2, Zenon
<1> QED
  BY <1>19, <1>21, <1>22, <1>23, <1>24, WriteStep, ZenonT(40)

LEMMA UpdateWriteStep ==
    ASSUME IInv, NEW h \in Handlers, UpdateWrite(h)
    PROVE  IInv'
<1>1. PICK q : q = req[h] /\ Fine(q)
  BY Zenon DEF IInv, ReqsOK
<1>2. PICK n : n = Int32(q.qty)
  BY Zenon
<1>3. PICK seen : seen = FindCartItemByProductVariant(q.item.cart, q.item.sku)
  BY Zenon
<1>4. /\ q.at = "update" /\ n > 0 /\ made' = made /\ GetCartItemByID(q.item.id) # {}
      /\ UpdateCartItemQty(q.item.id, n, q.qty * q.item.price)
      /\ Write(h, q.cart, q.item.sku, n, seen, [q EXCEPT !.at = "touch"])
  BY <1>1, <1>2, <1>3, Zenon DEF UpdateWrite, Fits
<1>5. q.at \notin Cartless
  BY <1>4, ZenonT(40) DEF Cartless
<1>6. q.cart \in CartIds
  BY <1>1, <1>5, HasCart, Zenon
<1>7. q.qty \in Quantities /\ Names(q)
  BY <1>1, <1>4, ZenonT(40) DEF Fine, Asked
<1>8. CartsOK /\ ItemsOK /\ RestOK /\ AllSingle
  BY Zenon DEF IInv
<1>9. q.qty \in Nat /\ q.item.sku \in Skus /\ q.item.price \in Nat /\ Half \in Nat
  BY <1>7, CartConstants, Zenon DEF Names, ItemRows
<1>10. n \in 1..(Half - 1) /\ n \in Int
  <2>1. q.qty \in Int
    BY <1>9
  <2> QED
    BY <1>2, <1>4, <1>9, <2>1, Int32Fits
<1>11. PICK sub \in Nat : sub = q.qty * q.item.price
  BY <1>9, Times
<1>12. PICK c \in CartIds : c = q.cart
  BY <1>6, Zenon
<1>13. PICK s \in Skus : s = q.item.sku
  BY <1>9, Zenon
<1>14. PICK id : id = q.item.id
  BY Zenon
<1>15. PICK r : r = [q EXCEPT !.at = "touch"]
  BY Zenon
<1>16. UpdateCartItemQty(id, n, sub) /\ Write(h, c, s, n, seen, r)
  BY <1>4, <1>11, <1>12, <1>13, <1>14, <1>15, ZenonT(40)
<1>17. /\ req' = [g \in Handlers |-> IF g = h THEN r ELSE Disturbed(req[g], c, s)]
       /\ due' = [due EXCEPT ![c][s] = n] /\ due'[c][s] = n
       /\ raced \subseteq raced' /\ (seen = FindCartItemByProductVariant(c, s) \/ <<c, s>> \in raced')
       /\ UNCHANGED <<carts, recent, voucher, uses, orders>>
  BY <1>8, <1>16, Written, Zenon
<1>18. \A i \in items : i.id = id => i.cart = c /\ i.sku = s
  BY <1>7, <1>12, <1>13, <1>14, Zenon DEF Names
<1>19. ItemsOK' /\ Persist /\ Elsewhere(c, s) /\ QtyIs(c, s, id, n)
  <2>1. carts' = carts /\ made' = made /\ ItemsOK /\ UpdateCartItemQty(id, n, sub) /\ sub \in Nat
    BY <1>4, <1>8, <1>11, <1>16, <1>17, ZenonT(40)
  <2> QED
    BY <1>10, <1>18, <2>1, QtyWritten, ZenonT(40)
<1>20. Fine(r)'
  BY <1>1, <1>5, <1>8, <1>15, <1>19, ToTouch, Zenon
<1>21. Single(c, s)'
  <2>1. CASE <<c, s>> \in raced
    BY <1>17, <2>1, Zenon DEF Single
  <2>2. CASE <<c, s>> \notin raced
    <3>1. PICK k \in items : k.id = id
      BY <1>4, <1>14, Zenon DEF GetCartItemByID
    <3>2. Single(c, s) /\ k \in FindCartItemByProductVariant(c, s)
      BY <1>8, <1>18, <3>1, ZenonT(40) DEF AllSingle, FindCartItemByProductVariant
    <3>3. PICK i \in items : FindCartItemByProductVariant(c, s) = {i}
      BY <2>2, <3>2, Zenon DEF Single
    <3>4. i = k
      BY <3>2, <3>3, Zenon
    <3>5. PICK j \in items' : FindCartItemByProductVariant(c, s)' = {j} /\ j.qty = n
      BY <1>19, <3>1, <3>3, <3>4, Zenon DEF QtyIs
    <3> QED
      BY <1>17, <3>5, Zenon DEF Single
  <2> QED
    BY <2>1, <2>2, Zenon
<1> QED
  BY <1>10, <1>17, <1>19, <1>20, <1>21, WriteStep, ZenonT(40)

LEMMA AddInsertStep ==
    ASSUME IInv, NEW h \in Handlers, AddInsert(h)
    PROVE  IInv'
<1>1. PICK q : q = req[h] /\ Fine(q)
  BY Zenon DEF IInv, ReqsOK
<1>2. PICK price : price = Max({0, GetProductForCart(q.sku).price})
  BY Zenon
<1>3. PICK n : n = Int32(due[q.cart][q.sku] + q.qty)
  BY Zenon
<1>4. PICK qty : qty = Int32(q.qty)
  BY Zenon
<1>5. /\ q.at = "insert" /\ qty > 0
      /\ CreateCartItem(q.cart, q.sku, qty, price, q.qty * price)
      /\ Write(h, q.cart, q.sku, n, q.seen, [q EXCEPT !.at = "touch"])
  BY <1>1, <1>2, <1>3, <1>4, Zenon DEF AddInsert, Fits
<1>6. q.at \notin Cartless
  BY <1>5, ZenonT(40) DEF Cartless
<1>7. q.cart \in CartIds /\ GetCartByID(q.cart)
  BY <1>1, <1>6, HasCart, Zenon
<1>8. q.sku \in Skus /\ q.qty \in Quantities /\ q.seen = {}
  BY <1>1, <1>5, Zenon DEF Fine, Asked
<1>9. ItemsOK /\ RestOK /\ AllSingle
  BY Zenon DEF IInv
<1>10. q.qty \in Nat /\ price \in Nat
  <2>1. Catalog[q.sku].price \in Int
    BY <1>8, CartConstants, Zenon
  <2>2. PICK p \in Int : p = Catalog[q.sku].price
    BY <2>1, Zenon
  <2>3. Max({0, p}) \in Nat
    BY MaxOfTwo
  <2> QED
    BY <1>2, <1>8, <2>2, <2>3, CartConstants, Zenon DEF GetProductForCart
<1>11. qty \in 1..(Half - 1)
  <2>1. q.qty \in Int
    BY <1>10
  <2> QED
    BY <1>4, <1>5, <2>1, Int32Fits, ZenonT(40)
<1>12. PICK sub \in Nat : sub = q.qty * price
  BY <1>10, Times
<1>13. PICK c \in CartIds : c = q.cart
  BY <1>7, Zenon
<1>14. PICK s \in Skus : s = q.sku
  BY <1>8, Zenon
<1>15. PICK r : r = [q EXCEPT !.at = "touch"]
  BY Zenon
<1>16. PICK seen : seen = q.seen
  BY Zenon
<1>17. CreateCartItem(c, s, qty, price, sub) /\ Write(h, c, s, n, seen, r) /\ GetCartByID(c)
  BY <1>5, <1>7, <1>12, <1>13, <1>14, <1>15, <1>16, ZenonT(40)
<1>18. /\ req' = [g \in Handlers |-> IF g = h THEN r ELSE Disturbed(req[g], c, s)]
       /\ due' = [due EXCEPT ![c][s] = n] /\ due'[c][s] = n
       /\ raced \subseteq raced' /\ (seen = FindCartItemByProductVariant(c, s) \/ <<c, s>> \in raced')
       /\ UNCHANGED <<carts, recent, voucher, uses, orders>>
  BY <1>9, <1>17, Written, Zenon
<1>19. ItemsOK' /\ Persist /\ Elsewhere(c, s) /\ Created(c, s, qty)
  <2>1. carts' = carts /\ ItemsOK /\ GetCartByID(c) /\ CreateCartItem(c, s, qty, price, sub) /\ sub \in Nat /\ price \in Nat
    BY <1>9, <1>10, <1>12, <1>17, <1>18, ZenonT(40)
  <2> QED
    BY <1>11, <2>1, ItemCreated, Zenon
<1>20. Fine(r)'
  BY <1>1, <1>6, <1>9, <1>15, <1>19, ToTouch, ZenonT(40)
<1>21. n \in Int
  <2>1. due[c][s] + q.qty \in Int
    BY <1>9, <1>10, SMTT(40) DEF RestOK
  <2> QED
    BY <1>3, <1>13, <1>14, <2>1, Int32Range
<1>22. Single(c, s)'
  <2>1. CASE <<c, s>> \in raced'
    BY <2>1, Zenon DEF Single
  <2>2. CASE seen = FindCartItemByProductVariant(c, s) /\ <<c, s>> \notin raced
    <3>1. Single(c, s) /\ FindCartItemByProductVariant(c, s) = {}
      BY <1>8, <1>9, <1>16, <2>2, ZenonT(40) DEF AllSingle
    <3>2. due[c][s] = 0
      BY <2>2, <3>1, ZenonT(40) DEF Single
    <3>3. n = qty
      BY <1>3, <1>4, <1>10, <1>13, <1>14, <3>2, SMTT(40)
    <3>4. PICK j \in items' : FindCartItemByProductVariant(c, s)' = {j} /\ j.qty = qty
      BY <1>19, <3>1, Zenon DEF Created
    <3> QED
      BY <1>18, <3>3, <3>4, Zenon DEF Single
  <2> QED
    BY <1>18, <2>1, <2>2, Zenon
<1> QED
  BY <1>18, <1>19, <1>20, <1>21, <1>22, WriteStep, ZenonT(40)

\* A merge's write makes the line in hand good, and no other line worse.
LEMMA ToFind ==
    ASSUME NEW q, Fine(q), q.at \in {"raise", "copy"}, ItemsOK, ItemsOK', Persist, Elsewhere(q.cart, q.sku),
           \A i \in items : \/ q.sku \in q.disturbed \/ i.cart # q.cart \/ i.sku # q.sku
                            \/ \E j \in items' : j.cart = i.cart /\ j.sku = i.sku /\ j.qty >= i.qty,
           \E j \in items' : j.cart = q.cart /\ j.sku = q.sku /\ j.qty = q.item.qty
    PROVE  Fine([q EXCEPT !.at = "find"])'
<1>1. PICK r : r = [q EXCEPT !.at = "find"]
  BY Zenon
<1>2. q \in ReqRows /\ Asked(q) /\ Rated(q) /\ Kept(q)
  BY Zenon DEF Fine
<1>3. /\ r.at = "find" /\ r.kind = q.kind /\ r.user = q.user /\ r.anon = q.anon /\ r.cart = q.cart
      /\ r.guest = q.guest /\ r.todo = q.todo /\ r.lines = q.lines /\ r.rated = q.rated /\ r.rule = q.rule
      /\ r.discount = q.discount /\ r.disturbed = q.disturbed
  BY <1>1, <1>2, Zenon DEF ReqRows
<1>4. r \in ReqRows
  <2>1. "find" \in Places
    BY Zenon DEF Places, Loop
  <2> QED
    BY <1>1, <1>2, <2>1, AtRow, ZenonT(40)
<1>5. Asked(q)'
  BY <1>2, AskedStays, ZenonT(40)
<1>6. q.kind = "merge" /\ q.lines \subseteq ItemRows /\ q.at \in Loop /\ q.cart \in CartIds
  BY <1>2, ZenonT(40) DEF Asked, Loop, Based, Cartless
<1>7. Based(r)'
  BY <1>3, <1>5, <1>6, ZenonT(40) DEF Asked, Based, Suits, Cartless
<1>8. Asked(r)'
  BY <1>3, <1>6, <1>7, Zenon DEF Asked
<1>9. Rated(r)'
  BY <1>2, <1>3, Zenon DEF Rated
<1>10. ASSUME NEW g \in q.lines PROVE g \in q.todo \/ g.sku \in q.disturbed \/ Holds(q.cart, g)'
  <2>1. g \in ItemRows /\ q.item \in ItemRows /\ Half \in Nat
    BY <1>2, <1>6, <1>10, CartConstants, ZenonT(40) DEF Asked, Names
  <2>2. g.qty \in Int /\ q.item.qty \in Int
    BY <2>1 DEF ItemRows
  <2>3. \/ g \in q.todo \/ g.sku \in q.disturbed \/ Holds(q.cart, g)
        \/ g.sku = q.sku /\ q.item.qty >= g.qty
    BY <1>2, <1>6, Zenon DEF Kept
  <2>4. CASE Holds(q.cart, g) /\ g.sku \notin q.disturbed
    <3>1. PICK i \in items : i.cart = q.cart /\ i.sku = g.sku /\ i.qty >= g.qty
      BY <2>4, Zenon DEF Holds
    <3>2. CASE g.sku # q.sku
      BY <3>1, <3>2, ZenonT(40) DEF Elsewhere, Holds
    <3>3. CASE g.sku = q.sku
      <4>1. PICK j \in items' : j.cart = i.cart /\ j.sku = i.sku /\ j.qty >= i.qty
        BY <2>4, <3>1, <3>3, ZenonT(40)
      <4>2. i.qty \in Int
        BY QtyInt, Zenon DEF ItemsOK
      <4>3. j.qty \in Int
        BY <4>1, QtyInt, Zenon DEF ItemsOK
      <4>4. j.qty >= g.qty
        BY <2>2, <3>1, <4>1, <4>2, <4>3
      <4> QED
        BY <3>1, <4>1, <4>4, Zenon DEF Holds
    <3> QED
      BY <3>2, <3>3, Zenon
  <2>5. CASE g.sku = q.sku /\ q.item.qty >= g.qty
    BY <2>5, Zenon DEF Holds
  <2> QED
    BY <2>3, <2>4, <2>5, ZenonT(40)
<1>11. Kept(r)'
  <2>1. "find" \in Loop /\ "find" \notin {"raise"}
    BY Zenon DEF Loop
  <2> QED
    BY <1>3, <1>10, <2>1, ZenonT(40) DEF Kept
<1>12. Fine(r)'
  BY <1>4, <1>8, <1>9, <1>11, ZenonT(40) DEF Fine
<1> QED
  BY <1>1, <1>12, Zenon

LEMMA MergeRaiseStep ==
    ASSUME IInv, NEW h \in Handlers, MergeRaise(h)
    PROVE  IInv'
<1>1. PICK q : q = req[h] /\ Fine(q)
  BY Zenon DEF IInv, ReqsOK
<1>2. PICK qty : qty = q.item.qty
  BY Zenon
<1>3. PICK n : n = Larger(due[q.cart][q.sku], qty)
  BY Zenon
<1>4. /\ q.at = "raise" /\ made' = made /\ GetCartItemByID(q.item.id) # {}
      /\ UpdateCartItemQty(q.item.id, qty, qty * q.item.price)
      /\ Write(h, q.cart, q.sku, n, q.seen, [q EXCEPT !.at = "find"])
  BY <1>1, <1>2, <1>3, Zenon DEF MergeRaise
<1>5. q.at \notin Cartless /\ q.at \in {"raise", "copy"}
  BY <1>4, Zenon DEF Cartless
<1>6. q.cart \in CartIds
  BY <1>1, <1>5, HasCart, ZenonT(40)
<1>7. /\ q.sku \in Skus /\ Names(q) /\ q.item.sku = q.sku
      /\ \E i \in q.seen : i.id = q.item.id /\ i.qty < q.item.qty
  BY <1>1, <1>4, ZenonT(40) DEF Fine, Asked
<1>8. ItemsOK /\ RestOK /\ AllSingle
  BY Zenon DEF IInv
<1>9. Half \in Nat /\ q.item.price \in Nat /\ qty \in 1..(Half - 1) /\ qty \in Nat
  <2>1. q.item \in ItemRows
    BY <1>7, Zenon DEF Names
  <2>2. Half \in Nat
    BY CartConstants, Zenon
  <2>3. q.item.price \in Nat /\ q.item.qty \in 1..(Half - 1)
    BY <2>1, Zenon DEF ItemRows
  <2> QED
    BY <1>2, <2>2, <2>3
<1>10. PICK sub \in Nat : sub = qty * q.item.price
  BY <1>9, Times
<1>11. PICK c \in CartIds : c = q.cart
  BY <1>6, Zenon
<1>12. PICK s \in Skus : s = q.sku
  BY <1>7, Zenon
<1>13. PICK id : id = q.item.id
  BY Zenon
<1>14. PICK r : r = [q EXCEPT !.at = "find"]
  BY Zenon
<1>15. PICK seen : seen = q.seen
  BY Zenon
<1>16. UpdateCartItemQty(id, qty, sub) /\ Write(h, c, s, n, seen, r)
  BY <1>4, <1>10, <1>11, <1>12, <1>13, <1>14, <1>15, ZenonT(40)
<1>17. /\ req' = [g \in Handlers |-> IF g = h THEN r ELSE Disturbed(req[g], c, s)]
       /\ due' = [due EXCEPT ![c][s] = n] /\ due'[c][s] = n
       /\ raced \subseteq raced' /\ (seen = FindCartItemByProductVariant(c, s) \/ <<c, s>> \in raced')
       /\ UNCHANGED <<carts, recent, voucher, uses, orders>>
  BY <1>8, <1>16, Written, Zenon
<1>18. \A i \in items : i.id = id => i.cart = c /\ i.sku = s
  BY <1>7, <1>11, <1>12, <1>13, Zenon DEF Names
<1>19. ItemsOK' /\ Persist /\ Elsewhere(c, s) /\ QtyIs(c, s, id, qty)
  <2>1. carts' = carts /\ made' = made /\ ItemsOK /\ UpdateCartItemQty(id, qty, sub) /\ sub \in Nat
    BY <1>4, <1>8, <1>10, <1>16, <1>17, ZenonT(40)
  <2> QED
    BY <1>9, <1>18, <2>1, QtyWritten, Zenon
<1>20. \A i \in items : i.qty \in Int
  BY <1>8, <1>9 DEF ItemsOK, ItemRows
<1>21. PICK k \in items : k.id = id
  BY <1>4, <1>13, Zenon DEF GetCartItemByID
<1>22. PICK m \in items' : m.id = id /\ m.cart = c /\ m.sku = s /\ m.qty = qty
  BY <1>19, <1>21, Zenon DEF QtyIs
<1>23. ASSUME NEW i \in items, q.sku \notin q.disturbed, i.cart = q.cart, i.sku = q.sku
       PROVE  \E j \in items' : j.cart = i.cart /\ j.sku = i.sku /\ j.qty >= i.qty
  <2>1. CASE i.id # id
    <3>1. i \in items' /\ i.qty >= i.qty
      BY <1>19, <1>20, <2>1 DEF QtyIs
    <3> QED
      BY <3>1, Zenon
  <2>2. CASE i.id = id
    <3>1. "raise" \in Loop
      BY Zenon DEF Loop
    <3>2. PICK j \in items : j.id = id /\ j.qty < qty
      BY <1>1, <1>2, <1>4, <1>13, <1>23, <3>1, ZenonT(40) DEF Fine, Kept
    <3>3. j = i
      BY <1>8, <2>2, <3>2, ZenonT(40) DEF ItemsOK
    <3>4. m.qty >= i.qty
      BY <1>9, <1>20, <1>22, <3>2, <3>3, SMTT(40)
    <3> QED
      BY <1>11, <1>12, <1>22, <1>23, <3>4, ZenonT(40)
  <2> QED
    BY <2>1, <2>2, Zenon
<1>24. Fine(r)'
  <2>1. Elsewhere(q.cart, q.sku) /\ \E j \in items' : j.cart = q.cart /\ j.sku = q.sku /\ j.qty = q.item.qty
    BY <1>2, <1>11, <1>12, <1>19, <1>22, ZenonT(40)
  <2>2. \A i \in items : \/ q.sku \in q.disturbed \/ i.cart # q.cart \/ i.sku # q.sku
                         \/ \E j \in items' : j.cart = i.cart /\ j.sku = i.sku /\ j.qty >= i.qty
    BY <1>23, Zenon
  <2> QED
    BY <1>1, <1>5, <1>8, <1>14, <1>19, <2>1, <2>2, ToFind, ZenonT(40)
<1>25. n \in Int
  <2>1. due[c][s] \in Int
    BY <1>8, Zenon DEF RestOK
  <2> QED
    BY <1>3, <1>9, <1>11, <1>12, <2>1, SMTT(40) DEF Larger
<1>26. Single(c, s)'
  <2>1. CASE <<c, s>> \in raced'
    BY <2>1, Zenon DEF Single
  <2>2. CASE seen = FindCartItemByProductVariant(c, s) /\ <<c, s>> \notin raced
    <3>1. PICK g \in FindCartItemByProductVariant(c, s) : g.id = id /\ g.qty < qty
      BY <1>2, <1>7, <1>13, <1>15, <2>2, ZenonT(40)
    <3>2. Single(c, s)
      BY <1>8, ZenonT(40) DEF AllSingle
    <3>3. PICK i \in items : FindCartItemByProductVariant(c, s) = {i} /\ due[c][s] = i.qty
      BY <2>2, <3>1, <3>2, ZenonT(40) DEF Single
    <3>4. i = g
      BY <3>1, <3>3, Zenon
    <3>5. PICK j \in items' : FindCartItemByProductVariant(c, s)' = {j} /\ j.qty = qty
      BY <1>19, <3>1, <3>3, <3>4, Zenon DEF QtyIs
    <3>6. n = qty
      BY <1>3, <1>11, <1>12, <3>1, <3>3, <3>4, ZenonT(40) DEF Larger
    <3> QED
      BY <1>17, <3>5, <3>6, ZenonT(40) DEF Single
  <2> QED
    BY <1>17, <2>1, <2>2, Zenon
<1> QED
  BY <1>17, <1>19, <1>24, <1>25, <1>26, WriteStep, ZenonT(40)

LEMMA MergeCopyStep ==
    ASSUME IInv, NEW h \in Handlers, MergeCopy(h)
    PROVE  IInv'
<1>1. PICK q : q = req[h] /\ Fine(q)
  BY Zenon DEF IInv, ReqsOK
<1>2. PICK qty : qty = q.item.qty
  BY Zenon
<1>3. PICK n : n = Larger(due[q.cart][q.sku], qty)
  BY Zenon
<1>4. /\ q.at = "copy" /\ CreateCartItem(q.cart, q.sku, qty, q.item.price, q.item.subtotal)
      /\ Write(h, q.cart, q.sku, n, q.seen, [q EXCEPT !.at = "find"])
  BY <1>1, <1>2, <1>3, Zenon DEF MergeCopy
<1>5. q.at \notin Cartless /\ q.at \in {"raise", "copy"}
  BY <1>4, Zenon DEF Cartless
<1>6. q.cart \in CartIds /\ GetCartByID(q.cart)
  BY <1>1, <1>5, HasCart, Zenon
<1>7. q.sku \in Skus /\ q.item \in ItemRows /\ q.seen = {}
  BY <1>1, <1>4, ZenonT(40) DEF Fine, Asked
<1>8. ItemsOK /\ RestOK /\ AllSingle
  BY Zenon DEF IInv
<1>9. Half \in Nat /\ qty \in 1..(Half - 1) /\ qty \in Nat
  <2>1. Half \in Nat
    BY CartConstants
  <2>2. q.item.qty \in 1..(Half - 1)
    BY <1>7, Zenon DEF ItemRows
  <2> QED
    BY <1>2, <2>1, <2>2, SMTT(40)
<1>10. PICK price \in Nat : price = q.item.price
  BY <1>7, Zenon DEF ItemRows
<1>11. PICK sub \in Nat : sub = q.item.subtotal
  BY <1>7, Zenon DEF ItemRows
<1>12. PICK c \in CartIds : c = q.cart
  BY <1>6, Zenon
<1>13. PICK s \in Skus : s = q.sku
  BY <1>7, Zenon
<1>14. PICK r : r = [q EXCEPT !.at = "find"]
  BY Zenon
<1>15. PICK seen : seen = q.seen
  BY Zenon
<1>16. CreateCartItem(c, s, qty, price, sub) /\ Write(h, c, s, n, seen, r) /\ GetCartByID(c)
  BY <1>4, <1>6, <1>10, <1>11, <1>12, <1>13, <1>14, <1>15, ZenonT(40)
<1>17. /\ req' = [g \in Handlers |-> IF g = h THEN r ELSE Disturbed(req[g], c, s)]
       /\ due' = [due EXCEPT ![c][s] = n] /\ due'[c][s] = n
       /\ raced \subseteq raced' /\ (seen = FindCartItemByProductVariant(c, s) \/ <<c, s>> \in raced')
       /\ UNCHANGED <<carts, recent, voucher, uses, orders>>
  BY <1>8, <1>16, Written, Zenon
<1>18. ItemsOK' /\ Persist /\ Elsewhere(c, s) /\ Created(c, s, qty)
  <2>1. carts' = carts /\ ItemsOK /\ GetCartByID(c) /\ CreateCartItem(c, s, qty, price, sub) /\ sub \in Nat /\ price \in Nat
    BY <1>8, <1>10, <1>11, <1>16, <1>17, Zenon
  <2> QED
    BY <1>9, <2>1, ItemCreated, Zenon
<1>19. Fine(r)'
  <2>1. Elsewhere(q.cart, q.sku) /\ \E j \in items' : j.cart = q.cart /\ j.sku = q.sku /\ j.qty = q.item.qty
    BY <1>2, <1>12, <1>13, <1>18, ZenonT(40) DEF Created
  <2>2. \A i \in items : i \in items' /\ i.qty >= i.qty
    <3>1. \A i \in items : i.qty \in Int
      BY <1>8, <1>9 DEF ItemsOK, ItemRows
    <3> QED
      BY <1>18, <3>1 DEF Created
  <2>3. \A i \in items : \/ q.sku \in q.disturbed \/ i.cart # q.cart \/ i.sku # q.sku
                         \/ \E j \in items' : j.cart = i.cart /\ j.sku = i.sku /\ j.qty >= i.qty
    BY <2>2, Zenon
  <2> QED
    BY <1>1, <1>5, <1>8, <1>14, <1>18, <2>1, <2>3, ToFind, ZenonT(40)
<1>20. n \in Int
  <2>1. due[c][s] \in Int
    BY <1>8, Zenon DEF RestOK
  <2> QED
    BY <1>3, <1>9, <1>12, <1>13, <2>1, SMTT(40) DEF Larger
<1>21. Single(c, s)'
  <2>1. CASE <<c, s>> \in raced'
    BY <2>1, Zenon DEF Single
  <2>2. CASE seen = FindCartItemByProductVariant(c, s) /\ <<c, s>> \notin raced
    <3>1. Single(c, s) /\ FindCartItemByProductVariant(c, s) = {}
      BY <1>7, <1>8, <1>15, <2>2, ZenonT(40) DEF AllSingle
    <3>2. due[c][s] = 0
      BY <2>2, <3>1, ZenonT(40) DEF Single
    <3>3. n = qty
      BY <1>3, <1>9, <1>12, <1>13, <3>2, SMTT(40) DEF Larger
    <3>4. PICK j \in items' : FindCartItemByProductVariant(c, s)' = {j} /\ j.qty = qty
      BY <1>18, <3>1, Zenon DEF Created
    <3> QED
      BY <1>17, <3>3, <3>4, Zenon DEF Single
  <2> QED
    BY <1>17, <2>1, <2>2, Zenon
<1> QED
  BY <1>17, <1>18, <1>19, <1>20, <1>21, WriteStep, ZenonT(40)

LEMMA RemoveItemStep ==
    ASSUME IInv, NEW h \in Handlers, NEW i \in items, RemoveItem(h, i)
    PROVE  IInv'
<1>1. ItemsOK /\ RestOK /\ AllSingle
  BY Zenon DEF IInv
<1>2. PICK c \in CartIds : c = i.cart
  BY <1>1, Zenon DEF ItemsOK, ItemRows
<1>3. PICK s \in Skus : s = i.sku
  BY <1>1, Zenon DEF ItemsOK, ItemRows
<1>4. PICK r : r = [NoReq EXCEPT !.at = "touch", !.kind = "remove", !.cart = c]
  BY Zenon
<1>5. /\ carts' = carts /\ recent' = recent /\ made' = made /\ voucher' = voucher /\ uses' = uses /\ orders' = orders
      /\ raced' = raced /\ DeleteCartItem(i.id, i.cart) /\ due' = [due EXCEPT ![c][s] = 0]
  BY <1>2, <1>3, ZenonT(40) DEF RemoveItem
<1>6. req' = [g \in Handlers |-> IF g = h THEN r ELSE Disturbed(req[g], c, s)]
  BY <1>2, <1>3, <1>4, ZenonT(40) DEF RemoveItem, Disturbed
<1>7. /\ ItemsOK' /\ Persist /\ Elsewhere(c, s)
      /\ FindCartItemByProductVariant(c, s) = {i} => FindCartItemByProductVariant(c, s)' = {}
  BY <1>1, <1>2, <1>3, <1>5, ItemDeleted, Zenon
<1>8. GetCartByID(c)
  BY <1>1, <1>2, Zenon DEF ItemsOK
<1>9. Fine(r)'
  <2>1. "touch" \in Simple \ {"create"} /\ "remove" \in Kinds \ {"merge", "checkout"} /\ Suits("touch", "remove", None)
    BY Zenon DEF Simple, Kinds, Suits
  <2>2. Fine([NoReq EXCEPT !.at = "touch", !.kind = "remove", !.cart = c, !.user = None])
    BY <1>8, <2>1, Started, Zenon
  <2>3. r = [NoReq EXCEPT !.at = "touch", !.kind = "remove", !.cart = c, !.user = None] /\ r.at = "touch"
    <3>1. NoReq.user = None
      BY Zenon DEF NoReq
    <3> QED
      BY <1>4, <3>1, NoReqRow, Zenon DEF ReqRows
  <2>4. Fine(r) /\ r.at \in Simple
    BY <2>1, <2>2, <2>3, Zenon
  <2> QED
    BY <1>1, <1>7, <2>4, SimpleStays, ZenonT(40)
<1>10. Single(c, s)'
  <2>1. CASE <<c, s>> \in raced
    BY <1>5, <2>1, Zenon DEF Single
  <2>2. CASE <<c, s>> \notin raced
    <3>1. Single(c, s) /\ i \in FindCartItemByProductVariant(c, s)
      BY <1>1, <1>2, <1>3, ZenonT(40) DEF AllSingle, FindCartItemByProductVariant
    <3>2. FindCartItemByProductVariant(c, s) = {i}
      BY <2>2, <3>1, ZenonT(40) DEF Single
    <3>3. due'[c][s] = 0
      BY <1>1, <1>5, ZenonT(40) DEF RestOK
    <3> QED
      BY <1>7, <3>2, <3>3, ZenonT(40) DEF Single
  <2> QED
    BY <2>1, <2>2, Zenon
<1>11. 0 \in Int /\ raced \subseteq raced' /\ UNCHANGED <<carts, recent, voucher, uses, orders>>
  BY <1>5
<1> QED
  BY <1>5, <1>6, <1>7, <1>9, <1>10, <1>11, WriteStep, ZenonT(40)

----------------------------------------------------------------------------
\* The other steps.

LEMMA RestStep ==
    ASSUME IInv, voucher' \in StoredRules, uses' \in [Users -> Nat],
           UNCHANGED <<carts, recent, items, made, orders, req, ledger>>
    PROVE  IInv'
<1>1. /\ carts' = carts /\ recent' = recent /\ items' = items /\ made' = made /\ orders' = orders /\ req' = req
      /\ due' = due /\ raced' = raced
  BY Zenon DEF ledger
<1>2. CartsOK /\ ItemsOK /\ RestOK /\ ReqsOK /\ AllSingle /\ OrdersOK
  BY Zenon DEF IInv
<1>3. Persist
  <2>1. made \in Nat /\ made <= made
    BY <1>2, MadeNat, Zenon
  <2> QED
    BY <1>1, <2>1, ZenonT(40) DEF Persist, GetCartByID
<1>4. ReqsOK'
  BY <1>1, <1>2, <1>3, FineStays, Zenon DEF ReqsOK
<1>5. CartsOK' /\ ItemsOK' /\ OrdersOK'
  BY <1>1, <1>2, Zenon DEF CartsOK, Ordered, Owned, GetCartByID, ItemsOK, OrdersOK
<1>6. RestOK'
  BY <1>1, <1>2, Zenon DEF RestOK
<1>7. AllSingle'
  <2>1. \A d, s : FindCartItemByProductVariant(d, s)' = FindCartItemByProductVariant(d, s)
    BY <1>1, Zenon DEF FindCartItemByProductVariant
  <2> QED
    BY <1>1, <1>2, <2>1, Zenon DEF AllSingle, Single
<1> QED
  BY <1>4, <1>5, <1>6, <1>7, ZenonT(40) DEF IInv

LEMMA Built ==
    ASSUME NEW v \in Rules, buildCreateParams(v) # None
    PROVE  buildCreateParams(v) \in StoredRules
<1>1. v \in RuleRows(STRING \union {None})
  BY CartConstants, Zenon
<1>2. /\ v.kind \in {None, "fixed_amount", "percent"}
      /\ buildCreateParams(v) = [v EXCEPT !.kind = IF v.kind = None THEN "fixed_amount" ELSE v.kind]
  BY Zenon DEF buildCreateParams
<1>3. PICK k \in {"fixed_amount", "percent"} : k = IF v.kind = None THEN "fixed_amount" ELSE v.kind
  BY <1>2, Zenon
<1>4. [v EXCEPT !.kind = k] \in StoredRules
  BY <1>1, Zenon DEF RuleRows, StoredRules
<1> QED
  BY <1>2, <1>3, <1>4, Zenon

LEMMA VoucherStep ==
    ASSUME IInv, NEW v \in Rules, VoucherCreate(v) \/ VoucherUpdate(v)
    PROVE  IInv'
<1>1. PICK b : b = buildCreateParams(v)
  BY Zenon
<1>2. /\ b # None /\ UNCHANGED <<carts, recent, items, made, orders, req, ledger>> /\ uses' = uses
      /\ \/ voucher' = [b EXCEPT !.usedCount = 0]
         \/ voucher # None /\ voucher' = [b EXCEPT !.usedCount = voucher.usedCount]
  BY <1>1, Zenon DEF VoucherCreate, VoucherUpdate, buildUpdateParams, CreateVoucher, UpdateVoucher
<1>3. b \in StoredRules
  BY <1>1, <1>2, Built, Zenon
<1>4. voucher \in StoredRules \union {None} /\ uses \in [Users -> Nat]
  BY Zenon DEF IInv, RestOK
<1>5. \A n \in Nat : [b EXCEPT !.usedCount = n] \in StoredRules
  BY <1>3, ZenonT(40) DEF StoredRules, RuleRows
<1>6. voucher # None => voucher.usedCount \in Nat
  BY <1>4, Zenon DEF StoredRules, RuleRows
<1>7. voucher' \in StoredRules
  <2>1. 0 \in Nat
    BY Zenon
  <2> QED
    BY <1>2, <1>5, <1>6, <2>1, ZenonT(40)
<1> QED
  BY <1>2, <1>4, <1>7, RestStep, Zenon

LEMMA WindowPassesStep ==
    ASSUME IInv, WindowPasses
    PROVE  IInv'
<1>1. voucher \in StoredRules /\ uses \in [Users -> Nat]
  BY Zenon DEF IInv, RestOK, WindowPasses
<1>2. PICK w \in {"open", "past"} : voucher' = [voucher EXCEPT !.window = w]
  BY DEF WindowPasses
<1>3. voucher' \in StoredRules
  BY <1>1, <1>2, Zenon DEF StoredRules, RuleRows
<1>4. UNCHANGED <<carts, recent, items, made, orders, req, ledger>> /\ uses' = uses
  BY Zenon DEF WindowPasses
<1> QED
  BY <1>1, <1>3, <1>4, RestStep, ZenonT(40)

LEMMA RedeemStep ==
    ASSUME IInv, NEW u \in Users, Redeem(u)
    PROVE  IInv'
<1>1. voucher \in StoredRules /\ uses \in [Users -> Nat]
  BY Zenon DEF IInv, RestOK, Redeem
<1>2. voucher' \in StoredRules
  BY <1>1 DEF Redeem, StoredRules, RuleRows
<1>3. uses' \in [Users -> Nat]
  BY <1>1 DEF Redeem
<1>4. UNCHANGED <<carts, recent, items, made, orders, req, ledger>>
  BY Zenon DEF Redeem
<1> QED
  BY <1>2, <1>3, <1>4, RestStep, ZenonT(40)

LEMMA CheckoutCommitStep ==
    ASSUME IInv, NEW h \in Handlers, NEW p \in ShippingPrices, CheckoutCommit(h, p)
    PROVE  IInv'
<1>1. PICK q : q = req[h] /\ Fine(q)
  BY Zenon DEF IInv, ReqsOK
<1>2. PICK ship : ship = Max({0, p})
  BY Zenon
<1>3. /\ q.at = "commit" /\ req' = [req EXCEPT ![h] = NoReq]
      /\ orders' = orders \union {[lines |-> q.lines, rated |-> q.rated, rule |-> q.rule,
                                   sum |-> Summary(q.lines, q.discount, TaxBps, ship)]}
  BY <1>1, <1>2, Zenon DEF CheckoutCommit, CreateOrder, Done, Step
<1>4. /\ carts' = carts /\ recent' = recent /\ items' = items /\ made' = made /\ voucher' = voucher /\ uses' = uses
      /\ due' = due /\ raced' = raced
  BY Zenon DEF CheckoutCommit, ledger
<1>5. CartsOK /\ ItemsOK /\ RestOK /\ ReqsOK /\ AllSingle /\ OrdersOK
  BY Zenon DEF IInv
<1>6. OrdersOK'
  <2>1. q.kind = "checkout"
    BY <1>1, <1>3, Zenon DEF Fine, Asked, Based, Suits
  <2>2. PICK lines : lines = q.lines /\ lines \subseteq LineRows /\ IsFiniteSet(lines)
    BY <1>1, <2>1, Zenon DEF Fine, Rated
  <2>3. PICK rated, rule, discount : rated = q.rated /\ rule = q.rule /\ discount = q.discount
    BY ZenonT(40)
  <2>4. rule \in StoredRules \union {None} /\ discount \in Nat
    BY <1>1, <2>3, Zenon DEF Fine, ReqRows
  <2>5. Worth(rated, rule, discount)
    BY <1>1, <2>3, Zenon DEF Fine, Rated
  <2>6. ship \in Nat
    <3>1. p \in Int
      BY CartConstants, Zenon
    <3> QED
      BY <1>2, <3>1, MaxOfTwo, SMTT(40)
  <2>7. Charged([lines |-> lines, rated |-> rated, rule |-> rule, sum |-> Summary(lines, discount, TaxBps, ship)])
    BY <2>2, <2>4, <2>5, <2>6, OrderCharged, Zenon
  <2> QED
    BY <1>3, <1>5, <2>2, <2>3, <2>7, ZenonT(40) DEF OrdersOK
<1>7. Persist
  <2>1. made \in Nat /\ made <= made
    BY <1>5, MadeNat, Zenon
  <2> QED
    BY <1>4, <2>1, Zenon DEF Persist, GetCartByID
<1>8. ReqsOK'
  BY <1>3, <1>4, <1>5, <1>7, NoReqFineNext, ReqStep, ZenonT(40)
<1>9. CartsOK' /\ ItemsOK' /\ RestOK'
  BY <1>4, <1>5, Zenon DEF CartsOK, Ordered, Owned, GetCartByID, ItemsOK, RestOK
<1>10. AllSingle'
  <2>1. \A d, s : FindCartItemByProductVariant(d, s)' = FindCartItemByProductVariant(d, s)
    BY <1>4, Zenon DEF FindCartItemByProductVariant
  <2> QED
    BY <1>4, <1>5, <2>1, Zenon DEF AllSingle, Single
<1> QED
  BY <1>6, <1>8, <1>9, <1>10, ZenonT(40) DEF IInv

LEMMA StillStep == ASSUME IInv, UNCHANGED vars PROVE IInv'
<1>1. /\ carts' = carts /\ recent' = recent /\ items' = items /\ made' = made /\ voucher' = voucher /\ uses' = uses
      /\ orders' = orders /\ req' = req /\ due' = due /\ raced' = raced
  BY Zenon DEF vars, db, ledger
<1>2. CartsOK /\ ItemsOK /\ RestOK /\ ReqsOK /\ AllSingle /\ OrdersOK
  BY Zenon DEF IInv
<1>3. Persist
  <2>1. made \in Nat /\ made <= made
    BY <1>2, MadeNat, Zenon
  <2> QED
    BY <1>1, <2>1, Zenon DEF Persist, GetCartByID
<1>4. ReqsOK'
  BY <1>1, <1>2, <1>3, FineStays, Zenon DEF ReqsOK
<1>5. CartsOK' /\ ItemsOK' /\ OrdersOK' /\ RestOK'
  BY <1>1, <1>2, Zenon DEF CartsOK, Ordered, Owned, GetCartByID, ItemsOK, OrdersOK, RestOK
<1>6. AllSingle'
  <2>1. \A d, s : FindCartItemByProductVariant(d, s)' = FindCartItemByProductVariant(d, s)
    BY <1>1, Zenon DEF FindCartItemByProductVariant
  <2> QED
    BY <1>1, <1>2, <2>1, Zenon DEF AllSingle, Single
<1> QED
  BY <1>4, <1>5, <1>6, Zenon DEF IInv

----------------------------------------------------------------------------
\* The rows the requests find.

LEMMA SumNone == Sum({}) = 0
<1>1. DOMAIN [i \in {} |-> i.qty] = {}
  BY Zenon
<1> QED
  BY <1>1, SumEmpty, Zenon DEF Sum, SumFunction

LEMMA SumOne == ASSUME NEW i, i.qty \in Int PROVE Sum({i}) = i.qty
<1> DEFINE f == [j \in {i} |-> j.qty]
<1>1. Sum({i}) = SumFunctionOnSet(f, {i})
  BY Zenon DEF Sum, SumFunction
<1>2. f[i] = i.qty
  BY Zenon
<1> HIDE DEF f
<1>3. IsFiniteSet({i}) /\ {i} # {}
  BY FS_Singleton, Zenon
<1>4. First({i}) \in {i}
  BY Zenon DEF First
<1>5. {i} \ {First({i})} = {} /\ First({i}) = i
  BY <1>4, ZenonT(40)
<1>6. SumFunctionOnSet(f, {i}) = f[First({i})] + SumFunctionOnSet(f, {i} \ {First({i})})
  BY <1>3, SumFirst, Zenon
<1>7. SumFunctionOnSet(f, {i}) = f[i] + 0
  BY <1>5, <1>6, SumEmpty, Zenon
<1> QED
  BY <1>1, <1>2, <1>7

LEMMA CartsFound ==
    /\ Len(Carts0) \in Nat /\ MaxCarts \in Nat /\ Len(Carts0) <= MaxCarts
    /\ \A c \in 1..Len(Carts0) : Carts0[c] \in CartRows /\ (Carts0[c].user # None \/ Carts0[c].anon # None)
<1>1. Carts0 \in Seq(CartRows) /\ MaxCarts \in Nat
  BY RowsFound, CartConstants, Zenon
<1>2. Len(Carts0) \in Nat /\ \A c \in 1..Len(Carts0) : Carts0[c] \in CartRows
  BY <1>1
<1> QED
  BY <1>1, <1>2, RowsFound, Zenon

LEMMA InitFine == ASSUME Init PROVE IInv
<1>1. CartsOK
  <2>1. Len(Carts0) \in Nat /\ MaxCarts \in Nat /\ Len(Carts0) <= MaxCarts
    BY CartsFound, Zenon
  <2>2. \A c \in 1..Len(Carts0) : Carts0[c] \in CartRows /\ (Carts0[c].user # None \/ Carts0[c].anon # None)
    BY CartsFound, Zenon
  <2>3. NoCart \in CartRows
    BY Zenon DEF NoCart, CartRows
  <2>4. \A c \in CartIds : c > Len(Carts0) => carts[c] = NoCart
    BY Zenon DEF Init
  <2>5. ASSUME NEW c \in CartIds, ~(c > Len(Carts0))
        PROVE  carts[c] \in CartRows /\ (carts[c].user # None \/ carts[c].anon # None)
    <3>1. c \in 1..Len(Carts0)
      BY <2>1, <2>5 DEF CartIds
    <3>2. PICK b \in BOOLEAN : b = (Carts0[c].applied /\ voucher # None)
      BY Zenon
    <3>3. carts[c] = [Carts0[c] EXCEPT !.applied = b]
      BY <2>5, <3>2, Zenon DEF Init
    <3> QED
      BY <2>2, <3>1, <3>3, Zenon DEF CartRows
  <2>6. \A c \in CartIds : GetCartByID(c) <=> ~(c > Len(Carts0))
    <3>1. NoCart.user = None /\ NoCart.anon = None
      BY Zenon DEF NoCart
    <3> QED
      BY <2>4, <2>5, <3>1, Zenon DEF GetCartByID
  <2>7. carts \in [CartIds -> CartRows]
    <3>1. \A c \in CartIds : carts[c] \in CartRows
      BY <2>3, <2>4, <2>5, ZenonT(40)
    <3>2. carts = [c \in CartIds |-> carts[c]]
      BY Zenon DEF Init
    <3> QED
      BY <3>1, <3>2, ZenonT(40)
  <2>8. \A c \in CartIds : GetCartByID(c) => Owned(c)
    BY <2>5, <2>6, Zenon DEF Owned
  <2>9. recent \subseteq CartIds \X CartIds
    BY Zenon DEF Init
  <2>10. Ordered
    <3>1. \A c, d \in CartIds : <<c, d>> \in recent <=> c < d /\ d <= Len(Carts0)
      BY Zenon DEF Init
    <3>2. CartIds \subseteq Nat
      BY <2>1, SMTT(40) DEF CartIds
    <3> QED
      BY <2>1, <2>6, <3>1, <3>2, SMTT(40) DEF Ordered
  <2> QED
    BY <2>7, <2>8, <2>9, <2>10, Zenon DEF CartsOK
<1>2. /\ items = Items0 /\ made = Cardinality(Items0) /\ IsFiniteSet(items) /\ items \subseteq ItemRows
      /\ made \in 0..MaxItems /\ \A i \in items : i.id \in 1..made /\ i.cart <= Len(Carts0)
  <2>1. items = Items0 /\ made = Cardinality(Items0)
    BY ZenonT(40) DEF Init
  <2>2. Cardinality(Items0) \in Nat /\ MaxItems \in Nat
    BY RowsFound, CartConstants, FS_CardinalityType, ZenonT(40)
  <2> QED
    BY <2>1, <2>2, RowsFound
<1>3. \A i, j \in items : i.id = j.id \/ (i.cart = j.cart /\ i.sku = j.sku) => i = j
  BY <1>2, RowsFound, Zenon
<1>4. ItemsOK
  <2>1. ASSUME NEW i \in items PROVE GetCartByID(i.cart)
    <3>1. i.cart \in CartIds /\ i.cart <= Len(Carts0)
      BY <1>2, ZenonT(40) DEF ItemRows
    <3>2. i.cart \in 1..Len(Carts0)
      <4>1. Len(Carts0) \in Nat /\ MaxCarts \in Nat
        BY CartsFound, Zenon
      <4> QED
        BY <3>1, <4>1 DEF CartIds
    <3>3. Carts0[i.cart].user # None \/ Carts0[i.cart].anon # None
      BY <3>2, CartsFound, Zenon
    <3>4. Carts0[i.cart] \in CartRows
      BY <3>2, CartsFound, Zenon
    <3>5. PICK b \in BOOLEAN : b = (Carts0[i.cart].applied /\ voucher # None)
      BY Zenon
    <3>6. carts[i.cart] = [Carts0[i.cart] EXCEPT !.applied = b]
      BY <3>1, <3>2, <3>5, RowsFound DEF Init
    <3> QED
      BY <3>3, <3>4, <3>6, SMTT(40) DEF GetCartByID, NoCart, CartRows
  <2> QED
    BY <1>2, <1>3, <2>1, Zenon DEF ItemsOK
<1>5. ASSUME NEW c \in CartIds, NEW s \in Skus PROVE Single(c, s) /\ due[c][s] \in Int
  <2>1. due[c][s] = Sum(FindCartItemByProductVariant(c, s))
    BY Zenon DEF Init
  <2>2. CASE FindCartItemByProductVariant(c, s) = {}
    <3>1. due[c][s] = 0
      BY <2>1, <2>2, SumNone, Zenon
    <3> QED
      BY <2>2, <3>1 DEF Single
  <2>3. CASE FindCartItemByProductVariant(c, s) # {}
    <3>1. PICK i \in items : i.cart = c /\ i.sku = s
      BY <2>3, Zenon DEF FindCartItemByProductVariant
    <3>2. FindCartItemByProductVariant(c, s) = {i}
      BY <1>3, <3>1, ZenonT(40) DEF FindCartItemByProductVariant
    <3>3. i.qty \in Int
      BY <1>2, CartConstants DEF ItemRows
    <3>4. due[c][s] = i.qty
      BY <2>1, <3>2, <3>3, SumOne, Zenon
    <3> QED
      BY <3>2, <3>3, <3>4, Zenon DEF Single
  <2> QED
    BY <2>2, <2>3, Zenon
<1>6. RestOK
  <2>1. voucher \in StoredRules \union {None} /\ uses \in [Users -> Nat]
    BY RowsFound, ZenonT(40) DEF Init
  <2>2. due = [c \in CartIds |-> [s \in Skus |-> due[c][s]]]
    BY Zenon DEF Init
  <2>3. due \in [CartIds -> [Skus -> Int]]
    BY <1>5, <2>2, ZenonT(40)
  <2> QED
    BY <2>1, <2>3, Zenon DEF RestOK
<1>7. ReqsOK
  <2>1. req = [h \in Handlers |-> NoReq]
    BY Zenon DEF Init
  <2> QED
    BY <2>1, NoReqFine, NoReqRow, Zenon DEF ReqsOK
<1>8. OrdersOK /\ AllSingle
  BY <1>5, ZenonT(40) DEF Init, OrdersOK, AllSingle
<1> QED
  BY <1>1, <1>4, <1>6, <1>7, <1>8, Zenon DEF IInv

LEMMA RequestFine ==
    ASSUME IInv, NEW h \in Handlers, Request(h)
    PROVE  IInv'
<1>1. ASSUME NEW a \in Anons, Ensure(h, None, a) PROVE IInv'
  BY <1>1, EnsureStep, CartConstants, ZenonT(40)
<1>2. ASSUME NEW u \in Users, Ensure(h, u, None) PROVE IInv'
  BY <1>2, EnsureStep, CartConstants, ZenonT(40)
<1>3. ASSUME NEW c \in CartIds, NEW s \in Skus, NEW qty \in Quantities, NEW stock \in {0, 1}, AddItem(h, c, s, qty, stock)
      PROVE  IInv'
  BY <1>3, AddItemStep, Zenon
<1>4. ASSUME NEW i \in items, NEW qty \in Quantities, UpdateQty(h, i, qty) PROVE IInv'
  BY <1>4, UpdateQtyStep, Zenon
<1>5. ASSUME NEW i \in items, RemoveItem(h, i) PROVE IInv'
  BY <1>5, RemoveItemStep, Zenon
<1>6. ASSUME NEW c \in CartIds, ApplyVoucher(h, c) \/ RemoveVoucher(h, c) PROVE IInv'
  BY <1>6, ApplyVoucherStep, RemoveVoucherStep, Zenon
<1>7. ASSUME NEW c \in CartIds, NEW u \in Users, Merge(h, c, u) \/ Checkout(h, c, u) PROVE IInv'
  BY <1>7, MergeStep, CheckoutStep, Zenon
<1> QED
  BY <1>1, <1>2, <1>3, <1>4, <1>5, <1>6, <1>7, ZenonT(40) DEF Request

LEMMA StatementFine ==
    ASSUME IInv, NEW h \in Handlers, Statement(h)
    PROVE  IInv'
<1>1. ASSUME EnsureCreate(h) \/ EnsureTouch(h) \/ Touch(h) \/ AttachVoucher(h) \/ MergeEnd(h) PROVE IInv'
  BY <1>1, EnsureCreateStep, EnsureTouchStep, TouchStep, AttachVoucherStep, MergeEndStep, Zenon
<1>2. ASSUME AddIncrement(h) \/ AddInsert(h) \/ UpdateWrite(h) \/ MergeRaise(h) \/ MergeCopy(h) PROVE IInv'
  BY <1>2, AddIncrementStep, AddInsertStep, UpdateWriteStep, MergeRaiseStep, MergeCopyStep, ZenonT(40)
<1>3. ASSUME WriteRefused(h) \/ loadCartItems(h) \/ RateVoucher(h) \/ MergeEnsure(h) \/ MergeList(h) \/ MergeFind(h)
      PROVE  IInv'
  BY <1>3, WriteRefusedStep, loadCartItemsStep, RateVoucherStep, MergeEnsureStep, MergeListStep, MergeFindStep, ZenonT(40)
<1>4. ASSUME CheckoutItems(h) \/ EvaluateVoucher(h) \/ Trouble(h) PROVE IInv'
  BY <1>4, CheckoutItemsStep, EvaluateVoucherStep, TroubleStep, Zenon
<1>5. ASSUME NEW p \in ShippingPrices, CheckoutCommit(h, p) PROVE IInv'
  BY <1>5, CheckoutCommitStep, Zenon
<1> QED
  BY <1>1, <1>2, <1>3, <1>4, <1>5, Zenon DEF Statement

LEMMA StepFine == IInv /\ [Next]_vars => IInv'
<1>1. SUFFICES ASSUME IInv, [Next]_vars PROVE IInv'
  BY Zenon
<1>2. CASE UNCHANGED vars
  BY <1>1, <1>2, StillStep, Zenon
<1>3. ASSUME NEW h \in Handlers, Request(h) \/ Statement(h) PROVE IInv'
  BY <1>1, <1>3, RequestFine, StatementFine, Zenon
<1>4. ASSUME NEW c \in CartIds, Expire(c) PROVE IInv'
  BY <1>1, <1>4, ExpireStep, Zenon
<1>5. ASSUME NEW v \in Rules, VoucherCreate(v) \/ VoucherUpdate(v) PROVE IInv'
  BY <1>1, <1>5, VoucherStep, Zenon
<1>6. ASSUME WindowPasses \/ \E u \in Users : Redeem(u) PROVE IInv'
  BY <1>1, <1>6, WindowPassesStep, RedeemStep, Zenon
<1> QED
  BY <1>1, <1>2, <1>3, <1>4, <1>5, <1>6, ZenonT(40) DEF Next

LEMMA Always == Spec => []IInv
<1>1. Init => IInv
  BY InitFine, Zenon
<1> QED
  BY <1>1, StepFine, PTL DEF Spec

----------------------------------------------------------------------------
\* What the invariant gives.

\* Item rows always belong to a cart that exists and hold a positive quantity
\* that fits the column, whatever the requests ask for and however they
\* interleave; exactly the carts that exist are ordered by their last update.
THEOREM ItemsStayValid == Spec => []TypeOK
<1>1. IInv => TypeOK
  <2>1. SUFFICES ASSUME IInv PROVE TypeOK
    BY Zenon
  <2>2. made <= MaxItems
    BY <2>1, CartConstants DEF IInv, ItemsOK
  <2>3. \A i \in items : /\ i.id \in 1..made /\ GetCartByID(i.cart) /\ i.sku \in Skus
                         /\ i.qty \in 1..(Half - 1) /\ i.price \in Nat /\ i.subtotal \in Nat
    BY <2>1, Zenon DEF IInv, ItemsOK, ItemRows
  <2> QED
    BY <2>1, <2>2, <2>3, Zenon DEF TypeOK, IInv, CartsOK, Ordered
<1> QED
  BY <1>1, Always, PTL

\* Requests on a cart leave of each product what they would leave one after
\* the other, except where a request wrote over rows that had changed since it
\* read them: AddItem, UpdateQty, RemoveItem and Merge take no lock, and that
\* overtaking is the only way they go wrong.
THEOREM CartsAreSerial == Spec => []Serial
<1>1. IInv => Serial
  <2>1. SUFFICES ASSUME IInv, NEW c \in CartIds, NEW s \in Skus, <<c, s>> \notin raced
                 PROVE  Sum(FindCartItemByProductVariant(c, s)) = due[c][s]
    BY Zenon DEF Serial
  <2>2. Single(c, s)
    BY <2>1, Zenon DEF IInv, AllSingle
  <2>3. CASE FindCartItemByProductVariant(c, s) = {} /\ due[c][s] = 0
    BY <2>3, SumNone, Zenon
  <2>4. CASE \E i \in items : FindCartItemByProductVariant(c, s) = {i} /\ due[c][s] = i.qty
    <3>1. PICK i \in items : FindCartItemByProductVariant(c, s) = {i} /\ due[c][s] = i.qty
      BY <2>4, ZenonT(40)
    <3>2. i.qty \in Int
      BY <2>1, CartConstants, SMTT(40) DEF IInv, ItemsOK, ItemRows
    <3> QED
      BY <3>1, <3>2, SumOne, Zenon
  <2> QED
    BY <2>1, <2>2, <2>3, <2>4, Zenon DEF Single
<1> QED
  BY <1>1, Always, PTL

\* A merge whose loop is over has lost nothing of the guest's cart that no
\* other request changed meanwhile, also when its last statements fail.
THEOREM MergesLoseNothing == Spec => []MergeKeeps
<1>1. IInv => MergeKeeps
  <2>1. SUFFICES ASSUME IInv, NEW h \in Handlers, req[h].at \in {"touch user", "expire guest", "clear guest", "transfer"},
                        NEW g \in req[h].lines, g.sku \notin req[h].disturbed
                 PROVE  \E i \in items : i.cart = req[h].cart /\ i.sku = g.sku /\ i.qty >= g.qty
    BY Zenon DEF MergeKeeps
  <2>2. PICK q : q = req[h] /\ Fine(q)
    BY <2>1, ZenonT(40) DEF IInv, ReqsOK
  <2>3. q.at \in Ends /\ q.at \notin Loop /\ q.at \notin {"raise", "copy"}
    BY <2>1, <2>2, ZenonT(40) DEF Ends, Loop
  <2>4. Holds(q.cart, g)
    BY <2>1, <2>2, <2>3, ZenonT(40) DEF Fine, Kept
  <2> QED
    BY <2>2, <2>4, ZenonT(40) DEF Holds
<1> QED
  BY <1>1, Always, PTL

\* Every order checkout creates adds up: it is charged what its lines cost,
\* less a discount that never exceeds them, plus tax and shipping; and a
\* voucher rated on the order's own lines takes off what it is worth on them,
\* although cart, items and voucher are read in different statements.
THEOREM EveryOrderAddsUp == Spec => []OrdersAddUp
<1>1. IInv => OrdersAddUp
  BY Zenon DEF IInv, OrdersOK, OrdersAddUp, Charged, Cost
<1> QED
  BY <1>1, Always, PTL

\* The rule engine behind the preview and the evaluation behind carts and
\* checkout give the same discount on every cart that requests can make, for
\* every voucher row with positive limits (Comparable).
THEOREM BothEnginesAgree == Spec => []EnginesAgree
<1>1. IInv => EnginesAgree
  <2>1. SUFFICES ASSUME IInv, voucher # None, NEW c \in CartIds, Comparable(voucher, Lines(ListCartItems(c)))
                 PROVE  LET lines == Lines(ListCartItems(c))
                            u == carts[c].user
                        IN  evaluateVoucher(lines, voucher, u, CountVoucherUsageByUser(u)).discount =
                            Preview(lines, voucher, u, CountVoucherUsageByUser(u), Total(lines)).discount
    BY Zenon DEF EnginesAgree
  <2>2. PICK lines : lines = Lines(ListCartItems(c)) /\ lines \subseteq LineRows /\ IsFiniteSet(lines)
    BY <2>1, LinesOK, Zenon DEF IInv
  <2>3. PICK v \in StoredRules : v = voucher
    BY <2>1, Zenon DEF IInv, RestOK
  <2>4. PICK u \in Users \union {None} : u = carts[c].user
    BY <2>1, ZenonT(40) DEF IInv, CartsOK, CartRows
  <2>5. PICK used \in Nat : used = CountVoucherUsageByUser(u)
    BY <2>1, Zenon DEF IInv, RestOK, CountVoucherUsageByUser
  <2>6. evaluateVoucher(lines, v, u, used).discount = Preview(lines, v, u, used, Total(lines)).discount
    BY <2>1, <2>2, <2>3, EnginesSame, Zenon
  <2> QED
    BY <2>2, <2>3, <2>4, <2>5, <2>6, Zenon
<1> QED
  BY <1>1, Always, PTL

=============================================================================
