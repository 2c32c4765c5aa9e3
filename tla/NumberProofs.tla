---------------------------- MODULE NumberProofs ----------------------------
(***************************************************************************)
(* Facts about naturals that proofs in several modules cite: minima and    *)
(* maxima, division, and sums over sets, which the provers know little     *)
(* about.                                                                  *)
(***************************************************************************)
EXTENDS Integers, FiniteSetsExt, WellFoundedInduction, FiniteSetTheorems, TLAPS

(* A nonempty set of naturals has a minimum, a bounded one a maximum.      *)
LEMMA MinIsLeast ==
    ASSUME NEW T \in SUBSET Nat, T # {}
    PROVE  Min(T) \in T /\ \A t \in T : Min(T) <= t
<1> DEFINE Less == {ss \in Nat \X Nat : ss[1] < ss[2]}
<1>1. IsWellFoundedOn(OpToRel(<, Nat), Nat)  BY NatLessThanWellFounded
<1>2. IsWellFoundedOn(Less, Nat)  BY <1>1 DEF OpToRel
<1>3. PICK a \in T : \A t \in T : ~(<<t, a>> \in Less)
  <2> HIDE DEF Less
  <2> QED  BY <1>2, WFMin
<1>4. \A t \in T : a <= t
  <2> TAKE t \in T
  <2>1. ~(<<t, a>> \in Nat \X Nat /\ t < a)  BY <1>3
  <2> QED  BY <2>1
<1>5. QED  BY <1>4 DEF Min

(* A nonempty bounded set of naturals has a greatest member, and Max       *)
(* returns it.                                                             *)
LEMMA MaxIsGreatest ==
    ASSUME NEW q \in Nat, NEW T, T # {}, \A t \in T : t \in Nat /\ t <= q
    PROVE  Max(T) \in T /\ \A t \in T : t <= Max(T)
<1> DEFINE D == {q - t : t \in T}
<1>1. D \in SUBSET Nat /\ D # {}  OBVIOUS
<1>2. Min(D) \in D /\ \A d \in D : Min(D) <= d
  <2> HIDE DEF D
  <2> QED  BY <1>1, MinIsLeast
<1>3. PICK a \in T : Min(D) = q - a  BY <1>2
<1>4. \A t \in T : t <= a
  <2> TAKE t \in T
  <2>1. q - t \in D  OBVIOUS
  <2>2. q - a <= q - t  BY <1>2, <1>3, <2>1
  <2> QED  BY <2>2
<1>5. QED  BY <1>4 DEF Max

(* A family of finite sets has a least member: none is a proper subset.    *)
LEMMA SmallestSet ==
    ASSUME NEW S, IsFiniteSet(S), NEW F, \A x \in F : x \subseteq S, F # {}
    PROVE  \E x \in F : \A y \in F : y \subseteq x => y = x
<1>1. IsWellFoundedOn(StrictSubsetOrdering(S), FiniteSubsetsOf(S))
  BY FS_StrictSubsetOrderingWellFounded
<1>2. F \subseteq FiniteSubsetsOf(S)  BY FS_Subset DEF FiniteSubsetsOf
<1>3. PICK x \in F : \A y \in F : ~(<<y, x>> \in StrictSubsetOrdering(S))
  BY <1>1, <1>2, WFMin
<1>4. ASSUME NEW y \in F  PROVE y \subseteq x => y = x
  BY <1>3, <1>4 DEF StrictSubsetOrdering
<1>5. QED  BY <1>4
-----------------------------------------------------------------------------
(* Induction up to n, over the set of the numbers that have the property.  *)
LEMMA InductionUpTo ==
    ASSUME NEW n \in Nat, NEW P, 0 \in P, \A i \in 1..n : i - 1 \in P => i \in P
    PROVE  \A i \in 0..n : i \in P
<1> DEFINE T == {i \in 0..n : i \notin P}
<1>1. SUFFICES ASSUME T # {} PROVE FALSE  OBVIOUS
<1>2. Min(T) \in T /\ \A t \in T : Min(T) <= t
  <2>1. T \in SUBSET Nat  OBVIOUS
  <2> HIDE DEF T
  <2> QED  BY <1>1, <2>1, MinIsLeast
<1>3. PICK k \in 0..n : k \notin P /\ \A t \in T : k <= t  BY <1>2
<1>4. k \in 1..n  BY <1>3
<1>5. k - 1 \in P  BY <1>3, <1>4
<1>6. QED  BY <1>3, <1>4, <1>5

(* A recursive function from the naturals up to n exists: its values are   *)
(* x, and what the functions of f make of the value before.                *)
Recurses(h, n, X, x, f) ==
    h \in [0..n -> X] /\ h[0] = x /\ \A i \in 1..n : h[i] = f[i][h[i - 1]]

(* A recursive definition over 1..n has a solution: the fact behind every  *)
(* recursive function of the models, by induction on n.                    *)
LEMMA RecursionExists ==
    ASSUME NEW n \in Nat, NEW X, NEW x \in X, NEW f \in [1..n -> [X -> X]]
    PROVE  \E h : Recurses(h, n, X, x, f)
<1> DEFINE Has(k, h) == h[0] = x /\ \A i \in 1..k : h[i] = f[i][h[i - 1]]
           P == {k \in 0..n : \E h \in [0..k -> X] : Has(k, h)}
<1>1. 0 \in P
  <2>1. Has(0, [i \in 0..0 |-> x]) /\ [i \in 0..0 |-> x] \in [0..0 -> X]  OBVIOUS
  <2> HIDE DEF Has
  <2>2. \E h \in [0..0 -> X] : Has(0, h)  BY <2>1, Zenon
  <2>3. 0 \in 0..n  OBVIOUS
  <2>4. QED  BY <2>2, <2>3, Zenon
<1>2. ASSUME NEW k \in 1..n, k - 1 \in P  PROVE k \in P
  <2>1. PICK h \in [0..k - 1 -> X] : Has(k - 1, h)  BY <1>2
  <2> DEFINE g == [i \in 0..k |-> IF i = k THEN f[k][h[k - 1]] ELSE h[i]]
  <2>2. k - 1 \in 0..k - 1 /\ h[k - 1] \in X  OBVIOUS
  <2>3. f[k][h[k - 1]] \in X  BY <2>2
  <2>4. g \in [0..k -> X]  BY <2>3
  <2>5. g[0] = x  BY <2>1
  <2>6. ASSUME NEW i \in 1..k  PROVE g[i] = f[i][g[i - 1]]
    <3>1. i - 1 \in 0..k - 1 /\ g[i - 1] = h[i - 1]  OBVIOUS
    <3>2. CASE i = k  BY <3>1, <3>2
    <3>3. CASE i # k
      <4>1. i \in 1..k - 1 /\ g[i] = h[i]  BY <3>3
      <4>2. QED  BY <2>1, <3>1, <4>1
    <3>4. QED  BY <3>2, <3>3
  <2>7. Has(k, g)  BY <2>5, <2>6
  <2> HIDE DEF Has, g
  <2>8. \E y \in [0..k -> X] : Has(k, y)  BY <2>4, <2>7, Zenon
  <2>9. k \in 0..n  OBVIOUS
  <2>10. QED  BY <2>8, <2>9, Zenon
<1>3. \A i \in 0..n : i \in P
  <2> HIDE DEF P
  <2> QED  BY <1>1, <1>2, InductionUpTo
<1>4. n \in P  BY <1>3
<1>5. QED  BY <1>4 DEF Recurses
-----------------------------------------------------------------------------
(* Division: quotient and remainder are what they are called.              *)
LEMMA DivisionIs ==
    ASSUME NEW w \in Nat \ {0}, NEW k \in Nat
    PROVE  /\ (k % w) \in 0..(w - 1) /\ (k \div w) \in Nat
           /\ k = w * (k \div w) + (k % w)
OBVIOUS

(* The quotient and the remainder are the only ones in range.              *)
LEMMA RemainderIs ==
    ASSUME NEW w \in Nat \ {0}, NEW k \in Nat, NEW q \in Int, NEW i \in 0..(w - 1),
           k = w * q + i
    PROVE  k % w = i /\ (k \div w) = q
<1>1. PICK p \in Nat, j \in 0..(w - 1) : p = (k \div w) /\ j = (k % w) /\ k = w * p + j
  BY DivisionIs
<1>2. CASE q >= p + 1
  <2>1. w * q >= w * p + w  BY <1>2
  <2>2. QED  BY <1>1, <2>1
<1>3. CASE p >= q + 1
  <2>1. w * p >= w * q + w  BY <1>3
  <2>2. QED  BY <1>1, <2>1
<1>4. CASE p = q  BY <1>1, <1>4
<1>5. QED  BY <1>1, <1>2, <1>3, <1>4

(* The next slot of a ring of w.                                           *)
LEMMA NextSlot ==
    ASSUME NEW w \in Nat \ {0}, NEW k \in Nat
    PROVE  ((k % w) + 1) % w = (k + 1) % w
<1>1. PICK q \in Nat, i \in 0..(w - 1) : k = w * q + i /\ k % w = i
  BY DivisionIs
<1>2. q \in Int  OBVIOUS
<1>3. CASE i + 1 < w
  <2>1. (i + 1) % w = i + 1  BY <1>3
  <2>2. PICK n \in Nat, j \in 0..(w - 1) : n = k + 1 /\ j = i + 1 /\ n = w * q + j
    BY <1>1, <1>3
  <2>3. n % w = j  BY <1>2, <2>2, RemainderIs, Zenon
  <2>4. QED  BY <1>1, <2>1, <2>2, <2>3
<1>4. CASE i + 1 = w
  <2>1. w = w * 1 + 0 /\ 0 \in 0..(w - 1)  OBVIOUS
  <2>2. w % w = 0  BY <2>1, RemainderIs
  <2>3. PICK n \in Nat, p \in Int, j \in 0..(w - 1) : n = k + 1 /\ j = 0 /\ n = w * p + j
    <3>1. /\ k + 1 \in Nat /\ q + 1 \in Int /\ 0 \in 0..(w - 1)
          /\ k + 1 = w * (q + 1) + 0
      BY <1>1, <1>4
    <3>2. QED  BY <3>1
  <2>4. n % w = j  BY <2>3, RemainderIs, Zenon
  <2>5. QED  BY <1>1, <1>4, <2>2, <2>3, <2>4
<1>5. QED  BY <1>1, <1>3, <1>4

(* Among k consecutive numbers one is a multiple of k.                     *)
LEMMA MultipleWithin ==
    ASSUME NEW k \in Nat \ {0}, NEW n \in Nat
    PROVE  \E j \in n + 1..n + k : j % k = 0
<1>1. PICK q \in Nat, i \in 0..(k - 1) : n = k * q + i  BY DivisionIs
<1>2. /\ k * (q + 1) = n + (k - i) /\ k * (q + 1) \in Nat
      /\ k * (q + 1) = k * (q + 1) + 0 /\ q + 1 \in Int /\ 0 \in 0..(k - 1)
  BY <1>1
<1>3. PICK j \in Nat, p \in Int, z \in 0..(k - 1) : j = n + (k - i) /\ z = 0 /\ j = k * p + z
  BY <1>1, <1>2
<1>4. j % k = z  BY <1>3, RemainderIs, Zenon
<1>5. QED  BY <1>1, <1>3, <1>4

(* A fraction of u.                                                        *)
LEMMA FractionIs ==
    ASSUME NEW n \in Nat, NEW d \in Nat \ {0}, n <= d, NEW u \in Nat
    PROVE  (n * u) \div d \in 0..u
<1>1. n * u \in Nat /\ d * u \in Nat /\ n * u <= d * u  OBVIOUS
<1>2. PICK q \in Int, i \in 0..(d - 1) : n * u = d * q + i /\ (n * u) \div d = q
  BY <1>1, DivisionIs
<1>3. q >= 0
  <2>1. CASE q <= -1
    <3>1. d * q <= -d  BY <2>1
    <3>2. QED  BY <1>1, <1>2, <3>1
  <2>2. QED  BY <2>1
<1>4. q <= u
  <2>1. CASE q >= u + 1
    <3>1. d * q >= d * u + d  BY <2>1
    <3>2. QED  BY <1>1, <1>2, <3>1
  <2>2. QED  BY <2>1
<1>5. QED  BY <1>2, <1>3, <1>4
-----------------------------------------------------------------------------
(***************************************************************************)
(* Sums over finite sets, which the community modules define by a fold     *)
(* that takes the elements in an order of CHOOSE's.                        *)
(***************************************************************************)
SumOf(f, S) == MapThenSumSet(LAMBDA c : f[c], S)
SumBody(f, S, g) ==
    [T \in SUBSET S |-> IF T = {} THEN 0
                        ELSE f[CHOOSE x \in T : TRUE] + g[T \ {CHOOSE x \in T : TRUE}]]

(* The fold is the recursive function it declares.                         *)
LEMMA SumOfIs ==
    ASSUME NEW f, NEW S
    PROVE  SumOf(f, S) = (CHOOSE g : g = SumBody(f, S, g))[S]
BY DEF SumOf, SumBody, MapThenSumSet, MapThenFoldSet

(* A fold from z over the elements of a finite set, in the order CHOOSE    *)
(* takes them, exists: unrolled often enough it no longer changes.         *)
FoldBody(F, z, S, g) ==
    [T \in SUBSET S |-> IF T = {} THEN z
                        ELSE F[CHOOSE x \in T : TRUE][g[T \ {CHOOSE x \in T : TRUE}]]]
Folds(g, F, z, S, X) == g \in [SUBSET S -> X] /\ g = FoldBody(F, z, S, g)

LEMMA FoldExists ==
    ASSUME NEW S, IsFiniteSet(S), NEW X, NEW z \in X, NEW F \in [S -> [X -> X]]
    PROVE  \E g : Folds(g, F, z, S, X)
<1> DEFINE Y == [SUBSET S -> X]
           n == Cardinality(S) + 1
           G == [k \in 1..n |-> [g \in Y |-> FoldBody(F, z, S, g)]]
           same == [T \in SUBSET S |-> z]
           pick(T) == CHOOSE x \in T : TRUE
<1>1. Cardinality(S) \in Nat /\ n \in Nat /\ n >= 1  BY FS_CardinalityType
<1>2. ASSUME NEW T \in SUBSET S, T # {}  PROVE pick(T) \in T /\ pick(T) \in S
  BY <1>2
<1>3. ASSUME NEW g \in Y  PROVE FoldBody(F, z, S, g) \in Y
  <2>1. ASSUME NEW T \in SUBSET S
        PROVE  (IF T = {} THEN z ELSE F[pick(T)][g[T \ {pick(T)}]]) \in X
    <3>1. CASE T = {}  BY <3>1
    <3>2. CASE T # {}
      <4>1. pick(T) \in S /\ g[T \ {pick(T)}] \in X  BY <1>2, <3>2
      <4>2. F[pick(T)] \in [X -> X]  BY <4>1
      <4>3. QED  BY <3>2, <4>1, <4>2
    <3>3. QED  BY <3>1, <3>2
  <2>2. QED  BY <2>1 DEF FoldBody
<1>4. G \in [1..n -> [Y -> Y]]
  <2> HIDE DEF Y, n
  <2> QED  BY <1>3
<1>5. same \in Y  OBVIOUS
<1>6. PICK h : Recurses(h, n, Y, same, G)
  <2> HIDE DEF Y, n, G, same
  <2> QED  BY <1>1, <1>4, <1>5, RecursionExists
<1>7. /\ h \in [0..n -> Y] /\ h[0] = same
      /\ \A k \in 1..n : h[k] = FoldBody(F, z, S, h[k - 1])
  <2>1. h \in [0..n -> Y] /\ h[0] = same /\ \A k \in 1..n : h[k] = G[k][h[k - 1]]
    BY <1>6 DEF Recurses
  <2>2. \A k \in 1..n : h[k - 1] \in Y
    <3> HIDE DEF Y, n
    <3> QED  BY <1>1, <2>1
  <2>3. \A k \in 1..n, g \in Y : G[k][g] = FoldBody(F, z, S, g)
    <3> HIDE DEF Y, n
    <3> QED  OBVIOUS
  <2> HIDE DEF Y, n, G, same
  <2>4. QED  BY <2>1, <2>2, <2>3
<1> DEFINE Still(k) == \A T \in SUBSET S : Cardinality(T) <= k => h[k + 1][T] = h[k][T]
           P == {k \in 0..n - 1 : Still(k)}
<1>8. \A T \in SUBSET S : IsFiniteSet(T) /\ Cardinality(T) \in Nat /\ Cardinality(T) <= Cardinality(S)
  BY FS_Subset, FS_CardinalityType
<1>9. \A k \in 1..n, T \in SUBSET S :
        h[k][T] = IF T = {} THEN z ELSE F[pick(T)][h[k - 1][T \ {pick(T)}]]
  <2> TAKE k \in 1..n, T \in SUBSET S
  <2>1. h[k] = FoldBody(F, z, S, h[k - 1])  BY <1>7
  <2>2. FoldBody(F, z, S, h[k - 1])[T] = IF T = {} THEN z ELSE F[pick(T)][h[k - 1][T \ {pick(T)}]]
    BY DEF FoldBody
  <2>3. QED  BY <2>1, <2>2
<1> HIDE DEF Y, G
<1>10. 0 \in P
  <2>1. ASSUME NEW T \in SUBSET S, Cardinality(T) <= 0  PROVE h[1][T] = h[0][T]
    <3>1. T = {}  BY <1>8, <2>1, FS_EmptySet
    <3>2. h[1][T] = z
      <4>1. 1 \in 1..n  BY <1>1
      <4>2. QED  BY <1>9, <3>1, <4>1
    <3>3. QED  BY <1>7, <3>1, <3>2
  <2>2. QED  BY <1>1, <2>1
<1>11. ASSUME NEW k \in 1..n - 1, k - 1 \in P  PROVE k \in P
  <2>1. ASSUME NEW T \in SUBSET S, Cardinality(T) <= k  PROVE h[k + 1][T] = h[k][T]
    <3>1. k \in 1..n /\ k + 1 \in 1..n /\ (k + 1) - 1 = k /\ (k - 1) + 1 = k  BY <1>1
    <3>2. CASE T = {}  BY <1>9, <3>1, <3>2
    <3>3. CASE T # {}
      <4>1. pick(T) \in T  BY <1>2, <3>3
      <4>2. Cardinality(T \ {pick(T)}) = Cardinality(T) - 1  BY <1>8, <4>1, FS_RemoveElement
      <4>3. Cardinality(T \ {pick(T)}) <= k - 1  BY <1>8, <2>1, <4>2
      <4>4. h[k][T \ {pick(T)}] = h[k - 1][T \ {pick(T)}]  BY <1>11, <3>1, <4>3
      <4>5. h[k + 1][T] = F[pick(T)][h[(k + 1) - 1][T \ {pick(T)}]]  BY <1>9, <3>1, <3>3
      <4>6. h[k][T] = F[pick(T)][h[k - 1][T \ {pick(T)}]]  BY <1>9, <3>1, <3>3
      <4> HIDE DEF pick
      <4>7. QED  BY <3>1, <4>4, <4>5, <4>6
    <3>4. QED  BY <3>2, <3>3
  <2>2. QED  BY <2>1
<1>12. n - 1 \in P
  <2>1. n - 1 \in Nat  BY <1>1
  <2>2. \A k \in 0..n - 1 : k \in P
    <3> HIDE DEF P, n
    <3> QED  BY <1>10, <1>11, <2>1, InductionUpTo
  <2>3. QED  BY <2>1, <2>2
<1>13. n - 1 \in 0..n /\ n \in 1..n /\ n \in 0..n /\ (n - 1) + 1 = n  BY <1>1
<1>14. h[n - 1] \in [SUBSET S -> X] /\ h[n] = FoldBody(F, z, S, h[n - 1])  BY <1>7, <1>13 DEF Y
<1>15. h[n] = h[n - 1]
  <2>1. \A T \in SUBSET S : h[n][T] = h[n - 1][T]  BY <1>8, <1>12, <1>13
  <2>2. h[n] \in [SUBSET S -> X]
    <3> HIDE DEF n
    <3> QED  BY <1>7, <1>13 DEF Y
  <2>3. QED  BY <1>14, <2>1, <2>2
<1>16. QED  BY <1>14, <1>15 DEF Folds

(* The recursive function of a sum exists.                                 *)
LEMMA SumExists ==
    ASSUME NEW S, IsFiniteSet(S), NEW f, \A x \in S : f[x] \in Nat
    PROVE  \E g \in [SUBSET S -> Nat] : g = SumBody(f, S, g)
<1>1. PICK F : F = [x \in S |-> [y \in Nat |-> f[x] + y]]  OBVIOUS
<1>2. PICK g \in [SUBSET S -> Nat] : g = FoldBody(F, 0, S, g)
  <2>1. PICK X : X = Nat  OBVIOUS
  <2>2. F \in [S -> [X -> X]] /\ 0 \in X  BY <1>1, <2>1
  <2>3. \E g : Folds(g, F, 0, S, X)  BY <2>2, FoldExists, Zenon
  <2>4. QED  BY <2>1, <2>3 DEF Folds
<1>3. ASSUME NEW T \in SUBSET S, T # {}
      PROVE  LET c == CHOOSE x \in T : TRUE IN F[c][g[T \ {c}]] = f[c] + g[T \ {c}]
  <2>1. (CHOOSE x \in T : TRUE) \in S  BY <1>3
  <2>2. g[T \ {CHOOSE x \in T : TRUE}] \in Nat  OBVIOUS
  <2>3. QED  BY <1>1, <2>1, <2>2
<1>4. FoldBody(F, 0, S, g) = SumBody(f, S, g)
  <2> QED  BY <1>3 DEF FoldBody, SumBody
<1>5. QED  BY <1>2, <1>4

(* It is unique, and the one for a set holds those of its subsets.         *)
LEMMA SumUnique ==
    ASSUME NEW S, IsFiniteSet(S), NEW f, NEW R \in SUBSET S,
           NEW g, g = SumBody(f, S, g), NEW h, h = SumBody(f, R, h)
    PROVE  \A T \in SUBSET R : g[T] = h[T]
<1> DEFINE Bad == {T \in SUBSET R : g[T] # h[T]}
           pick(T) == CHOOSE x \in T : TRUE
<1>1. SUFFICES ASSUME Bad # {} PROVE FALSE  OBVIOUS
<1>2. PICK T \in Bad : \A U \in Bad : U \subseteq T => U = T
  <2>1. \A T \in Bad : T \subseteq S  OBVIOUS
  <2> HIDE DEF Bad
  <2> QED  BY <1>1, <2>1, SmallestSet
<1>3. /\ g[T] = IF T = {} THEN 0 ELSE f[pick(T)] + g[T \ {pick(T)}]
      /\ h[T] = IF T = {} THEN 0 ELSE f[pick(T)] + h[T \ {pick(T)}]
  <2>1. T \in SUBSET S /\ T \in SUBSET R  OBVIOUS
  <2>2. SumBody(f, S, g)[T] = IF T = {} THEN 0 ELSE f[pick(T)] + g[T \ {pick(T)}]
    BY <2>1 DEF SumBody
  <2>3. SumBody(f, R, h)[T] = IF T = {} THEN 0 ELSE f[pick(T)] + h[T \ {pick(T)}]
    BY <2>1 DEF SumBody
  <2>4. QED  BY <2>2, <2>3
<1>4. T # {}  BY <1>3
<1>5. pick(T) \in T  BY <1>4
<1>6. T \ {pick(T)} \notin Bad  BY <1>2, <1>5
<1>7. QED  BY <1>3, <1>4, <1>6

(* A sum is a natural, that of nothing 0, and an element more adds its     *)
(* term, whichever the fold takes first.                                   *)
LEMMA SumAdds ==
    ASSUME NEW S, IsFiniteSet(S), NEW f, \A x \in S : f[x] \in Nat
    PROVE  /\ SumOf(f, {}) = 0
           /\ \A T \in SUBSET S : SumOf(f, T) \in Nat
           /\ \A T \in SUBSET S : \A x \in S \ T : SumOf(f, T \cup {x}) = SumOf(f, T) + f[x]
<1> DEFINE pick(T) == CHOOSE x \in T : TRUE
<1>1. PICK g \in [SUBSET S -> Nat] : g = SumBody(f, S, g)  BY SumExists
<1>2. ASSUME NEW T \in SUBSET S  PROVE SumOf(f, T) = g[T]
  <2>1. IsFiniteSet(T) /\ \A x \in T : f[x] \in Nat  BY FS_Subset
  <2>2. \E h : h = SumBody(f, T, h)  BY <2>1, SumExists
  <2> DEFINE h == CHOOSE h : h = SumBody(f, T, h)
  <2>3. h = SumBody(f, T, h)  BY <2>2
  <2>4. SumOf(f, T) = h[T]  BY SumOfIs
  <2> HIDE DEF h
  <2>5. T \in SUBSET T  OBVIOUS
  <2>6. QED  BY <1>1, <2>3, <2>4, <2>5, SumUnique
<1>3. \A T \in SUBSET S : g[T] = IF T = {} THEN 0 ELSE f[pick(T)] + g[T \ {pick(T)}]
  <2>1. \A T \in SUBSET S :
          SumBody(f, S, g)[T] = IF T = {} THEN 0 ELSE f[pick(T)] + g[T \ {pick(T)}]
    BY DEF SumBody
  <2>2. QED  BY <1>1, <2>1
<1>4. g[{}] = 0  BY <1>3
<1> DEFINE Bad == {T \in SUBSET S : \E x \in S \ T : g[T \cup {x}] # g[T] + f[x]}
<1>5. Bad = {}
  <2>1. SUFFICES ASSUME Bad # {} PROVE FALSE  OBVIOUS
  <2>2. PICK T \in Bad : \A U \in Bad : U \subseteq T => U = T
    <3>1. \A T \in Bad : T \subseteq S  OBVIOUS
    <3> HIDE DEF Bad
    <3> QED  BY <2>1, <3>1, SmallestSet
  <2>3. PICK x \in S \ T : g[T \cup {x}] # g[T] + f[x]  OBVIOUS
  <2> DEFINE U == T \cup {x}
             c == pick(U)
  <2>4. U \in SUBSET S /\ U # {} /\ T \in SUBSET S  OBVIOUS
  <2>5. c \in U  BY <2>4
  <2>6. g[U] = f[c] + g[U \ {c}]  BY <1>3, <2>4
  <2> HIDE DEF c
  <2>7. CASE c = x
    <3>1. U \ {c} = T  BY <2>3, <2>7
    <3>2. f[x] \in Nat /\ g[T] \in Nat  BY <1>1, <2>4
    <3>3. g[U] = f[x] + g[T]  BY <2>6, <2>7, <3>1
    <3> HIDE DEF U
    <3>4. g[U] = g[T] + f[x]  BY <3>2, <3>3
    <3>5. QED  BY <2>3, <3>4 DEF U
  <2>8. CASE c # x
    <3> DEFINE V == T \ {c}
    <3>1. c \in T /\ V \in SUBSET S /\ V # T /\ V \subseteq T  BY <2>5, <2>8
    <3>2. V \notin Bad  BY <2>2, <3>1
    <3>3. x \in S \ V /\ c \in S \ V /\ V \cup {c} = T /\ U \ {c} = V \cup {x}
      BY <2>3, <2>8, <3>1
    <3>4. g[V \cup {x}] = g[V] + f[x] /\ g[V \cup {c}] = g[V] + f[c]  BY <3>1, <3>2, <3>3
    <3>5. f[x] \in Nat /\ f[c] \in Nat /\ g[V] \in Nat  BY <1>1, <3>1, <3>3
    <3> HIDE DEF V, U
    <3>6. g[U] = f[c] + (g[V] + f[x]) /\ g[T] = g[V] + f[c]  BY <2>6, <3>3, <3>4
    <3>7. g[U] = g[T] + f[x]  BY <3>5, <3>6
    <3>8. QED  BY <2>3, <3>7 DEF U
  <2>9. QED  BY <2>7, <2>8
<1>6. \A T \in SUBSET S : \A x \in S \ T : T \cup {x} \in SUBSET S  OBVIOUS
<1>7. \A T \in SUBSET S : \A x \in S \ T : g[T \cup {x}] = g[T] + f[x]  BY <1>5
<1>8. {} \in SUBSET S  OBVIOUS
<1> HIDE DEF pick, Bad
<1>9. QED  BY <1>1, <1>2, <1>4, <1>6, <1>7, <1>8

(* Induction over the subsets of a finite set.                             *)
LEMMA SetInduction ==
    ASSUME NEW S, IsFiniteSet(S), NEW P, {} \in P,
           \A T \in SUBSET S : \A x \in S \ T : T \in P => T \cup {x} \in P
    PROVE  \A T \in SUBSET S : T \in P
<1> DEFINE Bad == {T \in SUBSET S : T \notin P}
<1>1. SUFFICES ASSUME Bad # {} PROVE FALSE  OBVIOUS
<1>2. PICK T \in Bad : \A U \in Bad : U \subseteq T => U = T
  <2>1. \A T \in Bad : T \subseteq S  OBVIOUS
  <2> HIDE DEF Bad
  <2> QED  BY <1>1, <2>1, SmallestSet
<1>3. PICK x \in T : TRUE  OBVIOUS
<1>4. T \ {x} \in SUBSET S /\ x \in S \ (T \ {x}) /\ (T \ {x}) \cup {x} = T /\ T \ {x} # T
  BY <1>3
<1>5. T \ {x} \notin Bad  BY <1>2, <1>4
<1>6. QED  BY <1>4, <1>5

(* The sum over two disjoint sets.                                         *)
LEMMA SumOfUnion ==
    ASSUME NEW S, IsFiniteSet(S), NEW f, \A x \in S : f[x] \in Nat,
           NEW A \in SUBSET S, NEW C \in SUBSET S, A \cap C = {}
    PROVE  SumOf(f, A \cup C) = SumOf(f, A) + SumOf(f, C)
<1> DEFINE P == {T \in SUBSET S : A \cap T = {} => SumOf(f, A \cup T) = SumOf(f, A) + SumOf(f, T)}
<1>1. /\ SumOf(f, {}) = 0
      /\ \A T \in SUBSET S : SumOf(f, T) \in Nat
      /\ \A T \in SUBSET S : \A x \in S \ T : SumOf(f, T \cup {x}) = SumOf(f, T) + f[x]
  BY SumAdds
<1>2. {} \in P  BY <1>1
<1>3. ASSUME NEW T \in SUBSET S, NEW x \in S \ T, T \in P  PROVE T \cup {x} \in P
  <2>1. SUFFICES ASSUME A \cap (T \cup {x}) = {}
                 PROVE  SumOf(f, A \cup (T \cup {x})) = SumOf(f, A) + SumOf(f, T \cup {x})
    OBVIOUS
  <2>2. A \cup T \in SUBSET S /\ x \in S \ (A \cup T) /\ A \cup (T \cup {x}) = (A \cup T) \cup {x}
        /\ A \cap T = {}
    BY <2>1
  <2>3. SumOf(f, A \cup (T \cup {x})) = SumOf(f, A \cup T) + f[x]  BY <1>1, <2>2
  <2>4. SumOf(f, A \cup T) = SumOf(f, A) + SumOf(f, T)  BY <1>3, <2>2
  <2>5. SumOf(f, T \cup {x}) = SumOf(f, T) + f[x]  BY <1>1
  <2>6. SumOf(f, A) \in Nat /\ SumOf(f, T) \in Nat /\ f[x] \in Nat  BY <1>1
  <2>7. QED  BY <2>3, <2>4, <2>5, <2>6
<1>4. \A T \in SUBSET S : T \in P
  <2> HIDE DEF P
  <2> QED  BY <1>2, <1>3, SetInduction
<1>5. QED  BY <1>4

(* A part sums to no more than the whole.                                  *)
LEMMA SumOfPart ==
    ASSUME NEW S, IsFiniteSet(S), NEW f, \A x \in S : f[x] \in Nat,
           NEW A \in SUBSET S, NEW C \in SUBSET A
    PROVE  SumOf(f, C) <= SumOf(f, A)
<1>1. C \in SUBSET S /\ A \ C \in SUBSET S /\ C \cap (A \ C) = {} /\ C \cup (A \ C) = A
  OBVIOUS
<1>2. SumOf(f, C \cup (A \ C)) = SumOf(f, C) + SumOf(f, A \ C)  BY <1>1, SumOfUnion
<1>3. SumOf(f, C) \in Nat /\ SumOf(f, A \ C) \in Nat  BY <1>1, SumAdds
<1>4. SumOf(f, A) = SumOf(f, C) + SumOf(f, A \ C)
  <2>1. SumOf(f, A) = SumOf(f, C \cup (A \ C))  BY <1>1
  <2>2. QED  BY <1>2, <2>1
<1> DEFINE rest == SumOf(f, A \ C)
<1> HIDE DEF rest
<1>5. SumOf(f, A) = SumOf(f, C) + rest /\ rest \in Nat  BY <1>3, <1>4 DEF rest
<1>6. QED  BY <1>3, <1>5

(* As many terms, each at least as large as any of the others, sum to at   *)
(* least as much.                                                          *)
LEMMA SumOfLarger ==
    ASSUME NEW S, IsFiniteSet(S), NEW f, \A x \in S : f[x] \in Nat,
           NEW A \in SUBSET S, NEW C \in SUBSET S, Cardinality(A) <= Cardinality(C),
           \A a \in A, b \in C : f[a] <= f[b]
    PROVE  SumOf(f, A) <= SumOf(f, C)
<1> DEFINE Under(T, U) == Cardinality(T) <= Cardinality(U) /\ \A a \in T, b \in U : f[a] <= f[b]
           P == {T \in SUBSET S : \A U \in SUBSET S : Under(T, U) => SumOf(f, T) <= SumOf(f, U)}
<1>1. /\ SumOf(f, {}) = 0
      /\ \A T \in SUBSET S : SumOf(f, T) \in Nat
      /\ \A T \in SUBSET S : \A x \in S \ T : SumOf(f, T \cup {x}) = SumOf(f, T) + f[x]
  BY SumAdds
<1>2. {} \in P  BY <1>1
<1>3. ASSUME NEW T \in SUBSET S, NEW x \in S \ T, T \in P  PROVE T \cup {x} \in P
  <2>1. SUFFICES ASSUME NEW U \in SUBSET S, Under(T \cup {x}, U)
                 PROVE  SumOf(f, T \cup {x}) <= SumOf(f, U)
    OBVIOUS
  <2>2. /\ IsFiniteSet(T) /\ IsFiniteSet(U)
        /\ Cardinality(T) \in Nat /\ Cardinality(U) \in Nat
        /\ Cardinality(T \cup {x}) = Cardinality(T) + 1
    <3>1. IsFiniteSet(T) /\ IsFiniteSet(U)  BY FS_Subset
    <3>2. Cardinality(T) \in Nat /\ Cardinality(U) \in Nat  BY <3>1, FS_CardinalityType
    <3>3. Cardinality(T \cup {x}) = Cardinality(T) + 1  BY <3>1, FS_AddElement
    <3>4. QED  BY <3>1, <3>2, <3>3
  <2>3. U # {}  BY <2>1, <2>2, FS_EmptySet
  <2>4. PICK y \in U : TRUE  BY <2>3
  <2> DEFINE V == U \ {y}
  <2>5. V \in SUBSET S /\ y \in S \ V /\ V \cup {y} = U  BY <2>4
  <2>6. Cardinality(V) = Cardinality(U) - 1  BY <2>2, <2>4, FS_RemoveElement
  <2>7. Under(T, V) /\ f[x] <= f[y]  BY <2>1, <2>2, <2>4, <2>6
  <2>8. SumOf(f, T) <= SumOf(f, V)  BY <1>3, <2>5, <2>7
  <2>9. SumOf(f, T \cup {x}) = SumOf(f, T) + f[x]  BY <1>1
  <2>10. SumOf(f, V \cup {y}) = SumOf(f, V) + f[y]  BY <1>1, <2>5
  <2>11. /\ SumOf(f, T) \in Nat /\ SumOf(f, V) \in Nat /\ f[x] \in Nat /\ f[y] \in Nat
    BY <1>1, <2>5
  <2> HIDE DEF V
  <2>12. SumOf(f, U) = SumOf(f, V) + f[y]  BY <2>5, <2>10
  <2>13. QED  BY <2>7, <2>8, <2>9, <2>11, <2>12
<1>4. \A T \in SUBSET S : T \in P
  <2> HIDE DEF P
  <2> QED  BY <1>2, <1>3, SetInduction
<1>5. A \in P /\ Under(A, C)  BY <1>4
<1>6. QED  BY <1>5
(* The exchange argument: a set with no more elements, those it does not   *)
(* share with another no larger than those the other does not share, sums  *)
(* to no more.                                                             *)
LEMMA SumOfExchange ==
    ASSUME NEW S, IsFiniteSet(S), NEW f, \A x \in S : f[x] \in Nat,
           NEW A \in SUBSET S, NEW C \in SUBSET S, Cardinality(A) <= Cardinality(C),
           \A a \in A \ C, c \in C \ A : f[a] <= f[c]
    PROVE  SumOf(f, A) <= SumOf(f, C)
<1> DEFINE both == A \cap C
           less == A \ C
           more == C \ A
<1>1. /\ both \in SUBSET S /\ less \in SUBSET S /\ more \in SUBSET S
      /\ both \cap less = {} /\ both \cap more = {}
      /\ both \cup less = A /\ both \cup more = C
  OBVIOUS
<1>2. Cardinality(less) <= Cardinality(more)
  <2>1. IsFiniteSet(A) /\ IsFiniteSet(C) /\ IsFiniteSet(A \cap C)  BY FS_Subset
  <2>2. Cardinality(A) \in Nat /\ Cardinality(C) \in Nat /\ Cardinality(A \cap C) \in Nat
    BY <2>1, FS_CardinalityType
  <2>3. Cardinality(A \ C) = Cardinality(A) - Cardinality(A \cap C)  BY <2>1, FS_Difference
  <2>4. Cardinality(C \ A) = Cardinality(C) - Cardinality(A \cap C)
    <3>1. C \cap A = A \cap C  OBVIOUS
    <3>2. Cardinality(C \ A) = Cardinality(C) - Cardinality(C \cap A)  BY <2>1, FS_Difference
    <3>3. QED  BY <3>1, <3>2
  <2>5. Cardinality(A \ C) <= Cardinality(C \ A)  BY <2>2, <2>3, <2>4
  <2>6. QED  BY <2>5
<1>3. \A a \in less, c \in more : f[a] <= f[c]  OBVIOUS
<1> HIDE DEF both, less, more
<1>4. SumOf(f, less) <= SumOf(f, more)  BY <1>1, <1>2, <1>3, SumOfLarger
<1>5. SumOf(f, both \cup less) = SumOf(f, both) + SumOf(f, less)  BY <1>1, SumOfUnion
<1>6. SumOf(f, both \cup more) = SumOf(f, both) + SumOf(f, more)  BY <1>1, SumOfUnion
<1>7. SumOf(f, both) \in Nat /\ SumOf(f, less) \in Nat /\ SumOf(f, more) \in Nat
  BY <1>1, SumAdds
<1>8. SumOf(f, A) = SumOf(f, both) + SumOf(f, less)  BY <1>1, <1>5
<1>9. SumOf(f, C) = SumOf(f, both) + SumOf(f, more)  BY <1>1, <1>6
<1>10. QED  BY <1>4, <1>7, <1>8, <1>9

(* A finite nonempty set has a last element in any total order: R holds    *)
(* the pairs of which the second is not before the first.                  *)
LEMMA LastInOrder ==
    ASSUME NEW C, IsFiniteSet(C), C # {}, NEW R,
           \A a, b \in C : <<a, b>> \in R \/ <<b, a>> \in R,
           \A a, b, c \in C : <<a, b>> \in R /\ <<b, c>> \in R => <<a, c>> \in R
    PROVE  \E b \in C : \A c \in C : <<c, b>> \in R
<1> DEFINE Later(c) == {d \in C : <<d, c>> \notin R}
           F == {Later(c) : c \in C}
<1>1. (\A x \in F : x \subseteq C) /\ F # {}
  <2>1. \A x \in F : x \subseteq C  OBVIOUS
  <2>2. PICK c \in C : TRUE  OBVIOUS
  <2>3. Later(c) \in F  OBVIOUS
  <2>4. QED  BY <2>1, <2>3
<1>2. PICK x \in F : \A y \in F : y \subseteq x => y = x
  <2> HIDE DEF F, Later
  <2>1. QED  BY <1>1, SmallestSet
<1>3. PICK c \in C : x = Later(c)  BY <1>2
<1>4. ASSUME NEW d \in C, <<d, c>> \notin R  PROVE FALSE
  <2>1. <<c, d>> \in R /\ <<d, d>> \in R  BY <1>4
  <2>2. ASSUME NEW e \in Later(d)  PROVE e \in Later(c)
    <3>1. e \in C /\ <<e, d>> \notin R  BY <2>2
    <3>2. ASSUME <<e, c>> \in R  PROVE FALSE  BY <2>1, <3>1, <3>2
    <3>3. QED  BY <3>1, <3>2
  <2>3. Later(d) \subseteq Later(c)  BY <2>2
  <2>4. d \in Later(c) /\ d \notin Later(d)  BY <1>4, <2>1
  <2>5. Later(d) \in F  OBVIOUS
  <2>6. QED  BY <1>2, <1>3, <2>3, <2>4, <2>5
<1>5. QED  BY <1>4

(* A function takes finitely many values on a finite set.                  *)
LEMMA ImageIsFinite ==
    ASSUME NEW S, IsFiniteSet(S), NEW R, NEW f \in [S -> R]
    PROVE  IsFiniteSet({f[x] : x \in S})
<1> DEFINE T == {f[x] : x \in S}
<1>1. f \in Surjection(S, T)  BY DEF Surjection
<1>2. QED  BY <1>1, FS_Surjection

(* A finite nonempty set of integers has a greatest element.               *)
LEMMA MaxOfFinite ==
    ASSUME NEW T \in SUBSET Int, IsFiniteSet(T), T # {}
    PROVE  Max(T) \in T /\ \A t \in T : t <= Max(T)
<1> DEFINE R == {ss \in T \X T : ss[1] <= ss[2]}
<1>1. \A a, b \in T : <<a, b>> \in R \/ <<b, a>> \in R  OBVIOUS
<1>2. \A a, b, c \in T : <<a, b>> \in R /\ <<b, c>> \in R => <<a, c>> \in R  OBVIOUS
<1>3. PICK m \in T : \A t \in T : <<t, m>> \in R
  <2> HIDE DEF R
  <2>1. QED  BY <1>1, <1>2, LastInOrder
<1>4. \E x \in T : \A y \in T : x >= y  BY <1>3
<1>5. Max(T) \in T /\ \A y \in T : Max(T) >= y  BY <1>4 DEF Max
<1>6. QED  BY <1>5
=============================================================================
