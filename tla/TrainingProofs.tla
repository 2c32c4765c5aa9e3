--------------------------- MODULE TrainingProofs ---------------------------
(***************************************************************************)
(* Proofs about training over several invocations, and about the files it  *)
(* leaves behind.                                                          *)
(***************************************************************************)
EXTENDS Training, Checkpoint, NumberProofs, SequenceTheorems

(* Euclid's algorithm ends with a combination of the numbers it began      *)
(* with.                                                                   *)
Combination(z, x, y) == \E u, v \in Int : z = u * x + v * y
RemainderOf(r, a, b) == \E q \in Int : a = b * q + r

(* A remainder of two combinations of x and y is one too.                  *)
LEMMA CombinationStep ==
    ASSUME NEW x \in Int, NEW y \in Int, NEW a \in Int, NEW b \in Int, NEW r \in Int,
           Combination(a, x, y), Combination(b, x, y), RemainderOf(r, a, b)
    PROVE  Combination(r, x, y)
<1> PICK q \in Int : a = b * q + r  BY DEF RemainderOf
<1>1. PICK u, v \in Int : a = u * x + v * y  BY DEF Combination
<1>2. PICK z, w \in Int : b = z * x + w * y  BY DEF Combination
<1>3. u - z * q \in Int /\ v - w * q \in Int  BY <1>1, <1>2
<1>4. r = (u * x + v * y) - (z * x + w * y) * q  BY <1>1, <1>2
<1>5. (u * x + v * y) - (z * x + w * y) * q = (u - z * q) * x + (v - w * q) * y
  BY <1>1, <1>2
<1>6. QED  BY <1>3, <1>4, <1>5 DEF Combination

(* Bezout's identity for the rounds train_gcd makes: the last nonzero      *)
(* remainder is a combination of its arguments.                            *)
LEMMA GcdIsCombination ==
    ASSUME NEW x \in Nat, NEW y \in Nat
    PROVE  Combination(Gcd(x, y), x, y)
<1> DEFINE X == Nat \X Nat
           Body(f) == [k \in 0..y |-> IF k = 0 THEN <<x, y>> ELSE EuclidRound(f[k - 1])]
           F == [k \in 1..y |-> [p \in X |-> EuclidRound(p)]]
           g == CHOOSE f : f = Body(f)
<1>1. ASSUME NEW p \in X
      PROVE  /\ EuclidRound(p) \in X
             /\ p[2] = 0 => EuclidRound(p) = p
             /\ p[2] # 0 => /\ EuclidRound(p)[1] = p[2] /\ EuclidRound(p)[2] < p[2]
                            /\ \E q \in Int : p[1] = p[2] * q + EuclidRound(p)[2]
  <2>1. PICK a \in Nat, b \in Nat : p = <<a, b>>  OBVIOUS
  <2>2. CASE b = 0  BY <2>1, <2>2 DEF EuclidRound
  <2>3. CASE b # 0
    <3>1. PICK q \in Nat, r \in 0..b - 1 : r = a % b /\ a = b * q + r  BY <2>3, DivisionIs
    <3>2. EuclidRound(p) = <<b, r>>  BY <2>1, <2>3, <3>1 DEF EuclidRound
    <3>3. r \in Nat /\ r < b /\ q \in Int  BY <3>1, <2>3
    <3>4. QED  BY <2>1, <2>3, <3>1, <3>2, <3>3
  <2>4. QED  BY <2>2, <2>3
<1>2. \E f : f = Body(f)
  <2>1. F \in [1..y -> [X -> X]]  BY <1>1
  <2>2. \E h : Recurses(h, y, X, <<x, y>>, F)
    <3>1. <<x, y>> \in X  OBVIOUS
    <3> HIDE DEF F, Body, g, X
    <3> QED  BY <2>1, <3>1, RecursionExists, Zenon
  <2> PICK h : Recurses(h, y, X, <<x, y>>, F)  BY <2>2
  <2> USE DEF Recurses
  <2>3. ASSUME NEW k \in 0..y  PROVE h[k] = Body(h)[k]
    <3>1. CASE k = 0  BY <3>1
    <3>2. CASE k # 0
      <4>1. k \in 1..y /\ k - 1 \in 0..y /\ h[k - 1] \in X  BY <3>2, <2>2
      <4>2. h[k] = EuclidRound(h[k - 1])  BY <2>2, <4>1
      <4>3. QED  BY <3>2, <4>2
    <3>3. QED  BY <3>1, <3>2
  <2>4. h = Body(h)  BY <2>3
  <2>5. QED  BY <2>4
<1>3. g = Body(g)  BY <1>2
<1>4. Gcd(x, y) = g[y][1]  BY DEF Gcd
<1> HIDE DEF g
<1>5. g[0] = <<x, y>> /\ \A k \in 1..y : g[k] = EuclidRound(g[k - 1])
  <2>1. 0 \in 0..y  OBVIOUS
  <2>2. g[0] = <<x, y>>  BY <1>3, <2>1
  <2>3. ASSUME NEW k \in 1..y  PROVE g[k] = EuclidRound(g[k - 1])
    <3>1. k \in 0..y /\ k # 0  OBVIOUS
    <3>2. QED  BY <1>3, <3>1
  <2>4. QED  BY <2>2, <2>3
<1> DEFINE Good(p) == /\ p \in X
                      /\ Combination(p[1], x, y) /\ Combination(p[2], x, y)
           P == {k \in 0..y : Good(g[k])}
<1>6. \A k \in 0..y : k \in P
  <2>1. 0 \in P
    <3>1. x = 1 * x + 0 * y /\ y = 0 * x + 1 * y  OBVIOUS
    <3>2. Combination(x, x, y) /\ Combination(y, x, y)  BY <3>1 DEF Combination
    <3>3. QED  BY <1>5, <3>2
  <2>2. ASSUME NEW k \in 1..y, k - 1 \in P  PROVE k \in P
    <3>1. Good(g[k - 1])  BY <2>2
    <3> DEFINE p == g[k - 1]
    <3>2. g[k] = EuclidRound(p)  BY <1>5
    <3> HIDE DEF p
    <3>3. CASE p[2] = 0  BY <1>1, <3>1, <3>2, <3>3 DEF p
    <3>4. CASE p[2] # 0
      <4>1. g[k] \in X /\ g[k][1] = p[2] /\ p \in X  BY <1>1, <3>1, <3>2, <3>4 DEF p
      <4>2. PICK q \in Int : p[1] = p[2] * q + g[k][2]  BY <1>1, <3>1, <3>2, <3>4 DEF p
      <4>3. p[1] \in Int /\ p[2] \in Int /\ g[k][2] \in Int  BY <4>1
      <4>4. Combination(p[1], x, y) /\ Combination(p[2], x, y)  BY <3>1 DEF p
      <4>5. PICK a \in Int, b \in Int, r \in Int : a = p[1] /\ b = p[2] /\ r = g[k][2]  BY <4>3
      <4>6. Combination(a, x, y) /\ Combination(b, x, y)  BY <4>4, <4>5
      <4>7. RemainderOf(r, a, b)  BY <4>2, <4>5 DEF RemainderOf
      <4>8. Combination(r, x, y)  BY <4>6, <4>7, CombinationStep
      <4>9. QED  BY <4>1, <4>4, <4>5, <4>8
    <3>5. QED  BY <3>3, <3>4
  <2> HIDE DEF P
  <2> QED  BY <2>1, <2>2, InductionUpTo
<1>7. QED  BY <1>4, <1>6

(* A multiplier that is coprime with n, or 1, permutes the windows.        *)
LEMMA Permutes ==
    ASSUME NEW n \in Nat \ {0}, NEW a \in Nat, Combination(1, a, n), NEW b \in Nat,
           NEW i \in 0..n - 1, NEW j \in 0..n - 1, (a * i + b) % n = (a * j + b) % n
    PROVE  i = j
<1>1. PICK u, v \in Int : 1 = u * a + v * n  BY DEF Combination
<1>2. a * i + b \in Nat /\ a * j + b \in Nat  OBVIOUS
<1>3. PICK p \in Int, r \in Int : a * i + b = n * p + r /\ r = (a * i + b) % n
  <2>1. PICK m \in Nat : m = a * i + b  BY <1>2
  <2>2. m % n \in Int /\ m \div n \in Int /\ m = n * (m \div n) + (m % n)  BY DivisionIs
  <2>3. QED  BY <2>1, <2>2
<1>4. PICK q \in Int, s \in Int : a * j + b = n * q + s /\ s = (a * j + b) % n
  <2>1. PICK m \in Nat : m = a * j + b  BY <1>2
  <2>2. m % n \in Int /\ m \div n \in Int /\ m = n * (m \div n) + (m % n)  BY DivisionIs
  <2>3. QED  BY <2>1, <2>2
<1>5. PICK d \in Int, t \in Int : d = i - j /\ t = p - q  OBVIOUS
<1>6. a * d = n * t
  <2>1. a * i - a * j = n * p - n * q  BY <1>3, <1>4
  <2>2. a * (i - j) = a * i - a * j /\ n * (p - q) = n * p - n * q  OBVIOUS
  <2>3. QED  BY <1>5, <2>1, <2>2
<1>7. PICK k \in Int : k = u * t + v * d  OBVIOUS
<1>8. d = n * k
  <2>1. d = (u * a + v * n) * d  BY <1>1
  <2>2. (u * a + v * n) * d = u * (a * d) + v * (n * d)  OBVIOUS
  <2>3. u * (n * t) + v * (n * d) = n * (u * t + v * d)  OBVIOUS
  <2>4. QED  BY <1>6, <1>7, <2>1, <2>2, <2>3
<1>9. -n < d /\ d < n  BY <1>5
<1>10. CASE k >= 1
  <2>1. n * k >= n  BY <1>10
  <2>2. QED  BY <1>8, <1>9, <2>1
<1>11. CASE k <= -1
  <2>1. n * k <= -n  BY <1>11
  <2>2. QED  BY <1>8, <1>9, <2>1
<1>12. CASE k = 0  BY <1>5, <1>8, <1>12
<1>13. QED  BY <1>10, <1>11, <1>12

(* A data step visits a window of the corpus, whatever the draws are.      *)
LEMMA SearchTyped ==
    ASSUME NEW a0 \in Nat, NEW n \in Nat \ {0}
    PROVE  Search(a0, n) \in Nat
<1> DEFINE Down(a) == IF Coprime(a, n) THEN a ELSE StepDown(a, n)
           Body(f) == [k \in 0..MaxTries |->
                          LET a == IF k = 0 THEN a0 ELSE f[k - 1]
                          IN  IF k = 0 \/ Coprime(a, n) THEN a ELSE StepDown(a, n)]
           F == [k \in 1..MaxTries |-> [a \in Nat |-> Down(a)]]
           g == CHOOSE f : f = Body(f)
<1>1. MaxTries \in Nat  BY WindowOrderAssumption
<1>2. \A a \in Nat : Down(a) \in Nat  BY DEF StepDown
<1>3. \E f : f = Body(f)
  <2>1. F \in [1..MaxTries -> [Nat -> Nat]]
    <3> HIDE DEF Down
    <3> QED  BY <1>2
  <2>2. \E h : Recurses(h, MaxTries, Nat, a0, F)
    <3> HIDE DEF F, Body, g
    <3>1. a0 \in Nat  OBVIOUS
    <3> QED  BY <1>1, <2>1, <3>1, RecursionExists, Zenon
  <2> PICK h : Recurses(h, MaxTries, Nat, a0, F)  BY <2>2
  <2> USE DEF Recurses
  <2>3. ASSUME NEW k \in 0..MaxTries  PROVE h[k] = Body(h)[k]
    <3>1. CASE k = 0  BY <3>1
    <3>2. CASE k # 0
      <4>1. k \in 1..MaxTries /\ k - 1 \in 0..MaxTries /\ h[k - 1] \in Nat  BY <3>2, <1>1, <2>2
      <4>2. h[k] = Down(h[k - 1])  BY <2>2, <4>1
      <4>3. QED  BY <3>2, <4>2
    <3>3. QED  BY <3>1, <3>2
  <2>4. h = Body(h)  BY <2>3
  <2>5. QED  BY <2>4
<1>4. g = Body(g)  BY <1>3
<1>6. Search(a0, n) = g[MaxTries]  BY DEF Search
<1> HIDE DEF g
<1>5. \A k \in 0..MaxTries : k \in {i \in 0..MaxTries : g[i] \in Nat}
  <2> DEFINE P == {i \in 0..MaxTries : g[i] \in Nat}
  <2>1. 0 \in P  BY <1>1, <1>4
  <2>2. ASSUME NEW k \in 1..MaxTries, k - 1 \in P  PROVE k \in P
    <3>1. g[k] = Down(g[k - 1])  BY <1>1, <1>4
    <3>2. QED  BY <1>2, <2>2, <3>1
  <2> HIDE DEF P
  <2> QED  BY <1>1, <2>1, <2>2, InductionUpTo DEF P
<1>7. QED  BY <1>1, <1>5, <1>6

(* The window of a data step is a window of the corpus.                    *)
LEMMA WindowTyped ==
    ASSUME NEW s \in Setups, NEW d \in Nat, d < MaxStep * s.gradAccum
    PROVE  WindowIndex(d, s.windows, s.mix) \in 0..s.windows - 1
<1>1. /\ MaxStep \in Nat /\ s.windows \in Nat \ {0} /\ s.gradAccum \in Nat \ {0}
      /\ s.mix \in [0..MaxStep * s.gradAccum -> [a : 0..s.windows - 1, b : 0..s.windows - 1]]
  BY TrainingAssumption
<1>2. CASE s.windows <= 1  BY <1>1, <1>2 DEF WindowIndex
<1>3. CASE ~(s.windows <= 1)
  <2> DEFINE n == s.windows
             q == d \div n
             draw == s.mix[q]
  <2>1. n \in Nat \ {0}  BY <1>1
  <2>2. d % n \in 0..n - 1 /\ q \in Nat /\ d = n * q + (d % n)
    <3> HIDE DEF n
    <3> QED  BY <2>1, DivisionIs
  <2>3. q <= d
    <3>1. \A m \in Nat \ {0}, k \in Nat : m * k >= k  OBVIOUS
    <3> HIDE DEF q, n
    <3> QED  BY <2>1, <2>2, <3>1
  <2>4. MaxStep * s.gradAccum \in Nat  BY <1>1
  <2>5. q \in 0..MaxStep * s.gradAccum  BY <2>2, <2>3, <2>4
  <2>6. draw.a \in Nat /\ draw.b \in Nat  BY <1>1, <2>5
  <2> HIDE DEF draw, n
  <2>7. Search(IF draw.a = 0 THEN 1 ELSE draw.a, n) \in Nat  BY <2>1, <2>6, SearchTyped
  <2>8. Multiplier(draw.a, n) \in Nat  BY <2>7 DEF Multiplier
  <2>9. Multiplier(draw.a, n) * (d % n) + draw.b \in Nat  BY <2>2, <2>6, <2>8
  <2>10. (Multiplier(draw.a, n) * (d % n) + draw.b) % n \in 0..n - 1
    BY <2>1, <2>9, DivisionIs
  <2>11. WindowIndex(d, n, s.mix) = (Multiplier(draw.a, n) * (d % n) + draw.b) % n
    BY <1>3 DEF WindowIndex, draw, n
  <2>12. QED  BY <2>10, <2>11 DEF n
<1>4. QED  BY <1>2, <1>3

(* Whatever the draw, the multiplier the search ends with is coprime to    *)
(* the corpus (train_window_multiplier).                                   *)
LEMMA MultiplierPermutes ==
    ASSUME NEW a0 \in Nat, NEW n \in Nat \ {0}
    PROVE  Multiplier(a0, n) \in Nat /\ Combination(1, Multiplier(a0, n), n)
<1> DEFINE a == Search(IF a0 = 0 THEN 1 ELSE a0, n)
<1>1. a \in Nat  BY SearchTyped
<1>2. Multiplier(a0, n) = IF Coprime(a, n) THEN a ELSE 1  BY DEF Multiplier
<1> HIDE DEF a
<1>3. CASE Coprime(a, n)
  <2>1. Gcd(a, n) = 1  BY <1>3 DEF Coprime
  <2>2. Combination(Gcd(a, n), a, n)  BY <1>1, GcdIsCombination
  <2>3. QED  BY <1>1, <1>2, <1>3, <2>1, <2>2
<1>4. CASE ~Coprime(a, n)
  <2>1. 1 = 1 * 1 + 0 * n  OBVIOUS
  <2>2. Combination(1, 1, n)  BY <2>1 DEF Combination
  <2>3. QED  BY <1>2, <1>4, <2>2
<1>5. QED  BY <1>3, <1>4

(* Two data steps of one epoch visit different windows.                    *)
LEMMA WindowOnce ==
    ASSUME NEW s \in Setups, NEW c \in Nat, c < MaxStep * s.gradAccum,
           NEW d \in Nat, d < MaxStep * s.gradAccum, c \div s.windows = d \div s.windows,
           WindowIndex(c, s.windows, s.mix) = WindowIndex(d, s.windows, s.mix)
    PROVE  c = d
<1> DEFINE n == s.windows
           q == d \div n
           draw == s.mix[q]
           m == Multiplier(draw.a, n)
<1>1. /\ MaxStep \in Nat /\ n \in Nat \ {0} /\ s.gradAccum \in Nat \ {0}
      /\ s.mix \in [0..MaxStep * s.gradAccum -> [a : 0..n - 1, b : 0..n - 1]]
  BY TrainingAssumption
<1> HIDE DEF n
<1>2. /\ d % n \in 0..n - 1 /\ q \in Nat /\ d = n * q + (d % n)
      /\ c % n \in 0..n - 1 /\ c = n * (c \div n) + (c % n)
  BY <1>1, DivisionIs
<1>3. c = n * q + (c % n)  BY <1>2 DEF n
<1>4. CASE n <= 1
  <2>1. c % n = d % n  BY <1>1, <1>2, <1>4
  <2> HIDE DEF q
  <2>2. QED  BY <1>2, <1>3, <2>1
<1>5. CASE ~(n <= 1)
  <2>1. q <= d
    <3>1. \A x \in Nat \ {0}, k \in Nat : x * k >= k  OBVIOUS
    <3> HIDE DEF q
    <3> QED  BY <1>1, <1>2, <3>1
  <2>2. MaxStep * s.gradAccum \in Nat  BY <1>1
  <2>3. q \in 0..MaxStep * s.gradAccum  BY <1>2, <2>1, <2>2
  <2>4. draw.a \in Nat /\ draw.b \in Nat  BY <1>1, <2>3
  <2>5. WindowIndex(d, n, s.mix) = (m * (d % n) + draw.b) % n  BY <1>5 DEF WindowIndex
  <2>6. WindowIndex(c, n, s.mix) = (m * (c % n) + draw.b) % n  BY <1>5 DEF WindowIndex, n
  <2> HIDE DEF draw, q
  <2>7. m \in Nat /\ Combination(1, m, n)  BY <1>1, <2>4, MultiplierPermutes
  <2>8. (m * (c % n) + draw.b) % n = (m * (d % n) + draw.b) % n  BY <2>5, <2>6 DEF n
  <2> HIDE DEF m
  <2>9. c % n = d % n  BY <1>1, <1>2, <2>4, <2>7, <2>8, Permutes
  <2>10. QED  BY <1>2, <1>3, <2>9
<1>6. QED  BY <1>4, <1>5

(* What a micro-batch visits is a pair of an epoch and a window.           *)
LEMMA VisitTyped ==
    ASSUME NEW s \in Setups, NEW n \in 0..MaxStep - 1, NEW i \in 1..s.gradAccum
    PROVE  Visits(s, n)[i] \in Nat \X Nat
<1>1. MaxStep \in Nat /\ s.gradAccum \in Nat \ {0} /\ s.windows \in Nat \ {0}
  BY TrainingAssumption
<1> DEFINE d == n * s.gradAccum + i - 1
<1>2. PICK g \in Nat \ {0}, k \in Nat : g = s.gradAccum /\ k = n /\ k + 1 <= MaxStep  BY <1>1
<1>3. (k + 1) * g <= MaxStep * g /\ (k + 1) * g = k * g + g /\ k * g \in Nat  BY <1>1, <1>2
<1>4. d \in Nat /\ d < MaxStep * s.gradAccum  BY <1>1, <1>2, <1>3
<1>5. WindowIndex(d, s.windows, s.mix) \in 0..s.windows - 1
  <2> HIDE DEF d
  <2> QED  BY <1>4, WindowTyped
<1>6. Visits(s, n)[i] = <<d, WindowIndex(d, s.windows, s.mix)>>  BY DEF Visits, Visit
<1>7. QED  BY <1>1, <1>4, <1>5, <1>6
-----------------------------------------------------------------------------
(* The windows of one optimizer step, one after the other.                 *)
Summed == [grad : Grad, sum : Grad]
Accumulates(g, s, old, n) ==
    /\ g \in [0..s.gradAccum -> Summed]
    /\ g[0] = [grad |-> old, sum |-> <<>>]
    /\ \A i \in 1..s.gradAccum : g[i] = MicroStep(s, g[i - 1], Visits(s, n)[i])
    /\ Gradient(s, old, n) = IF s.gradAccum > 1 THEN g[s.gradAccum].sum ELSE g[s.gradAccum].grad

(* Adding a micro-batch to a sum of gradients gives such a sum.            *)
LEMMA MicroStepTyped ==
    ASSUME NEW s, NEW g \in Summed, NEW v \in Nat \X Nat
    PROVE  MicroStep(s, g, v) \in Summed
<1>1. <<v>> \in Grad /\ <<>> \o <<v>> \in Grad  BY DEF Grad
<1>2. g.sum \in Grad /\ g.grad \in Grad  BY DEF Summed
<1>3. g.sum \o (<<>> \o <<v>>) \in Grad  BY <1>1, <1>2 DEF Grad
<1>4. QED  BY <1>1, <1>2, <1>3 DEF MicroStep, Summed, GradAdd, GradZero

(* The recursive sum over the micro-batches of a step exists.              *)
LEMMA Accumulation ==
    ASSUME NEW s \in Setups, NEW n \in 0..MaxStep - 1, NEW old \in Grad
    PROVE  \E g : Accumulates(g, s, old, n)
<1> DEFINE K == s.gradAccum
           x == [grad |-> old, sum |-> <<>>]
           Body(f) == [i \in 0..K |-> IF i = 0 THEN [grad |-> old, sum |-> GradZero]
                                      ELSE MicroStep(s, f[i - 1], Visits(s, n)[i])]
           F == [i \in 1..K |-> [y \in Summed |-> MicroStep(s, y, Visits(s, n)[i])]]
           g == CHOOSE f : f = Body(f)
<1>1. K \in Nat \ {0}  BY TrainingAssumption
<1>2. x \in Summed  BY DEF Summed, Grad
<1>3. \A i \in 1..K, y \in Summed : MicroStep(s, y, Visits(s, n)[i]) \in Summed
  BY VisitTyped, MicroStepTyped
<1>4. \E f : f = Body(f)
  <2>1. F \in [1..K -> [Summed -> Summed]]  BY <1>3
  <2>2. \E h : Recurses(h, K, Summed, x, F)
    <3> HIDE DEF F, Body, g, x, K
    <3> QED  BY <1>1, <1>2, <2>1, RecursionExists, Zenon
  <2> PICK h : Recurses(h, K, Summed, x, F)  BY <2>2
  <2> USE DEF Recurses
  <2>3. ASSUME NEW k \in 0..K  PROVE h[k] = Body(h)[k]
    <3>1. CASE k = 0  BY <3>1 DEF GradZero
    <3>2. CASE k # 0
      <4>1. k \in 1..K /\ k - 1 \in 0..K /\ h[k - 1] \in Summed  BY <3>2, <1>1, <2>2
      <4>2. h[k] = MicroStep(s, h[k - 1], Visits(s, n)[k])  BY <2>2, <4>1
      <4>3. QED  BY <3>2, <4>2
    <3>3. QED  BY <3>1, <3>2
  <2>4. h = Body(h)  BY <2>3
  <2>5. QED  BY <2>4
<1>5. g = Body(g)  BY <1>4
<1>6. Gradient(s, old, n) = IF s.gradAccum > 1 THEN <<>> \o g[K].sum ELSE g[K].grad
  BY DEF Gradient, GradAdd, GradZero
<1> HIDE DEF g
<1>7. g[0] = x /\ \A i \in 1..K : g[i] = MicroStep(s, g[i - 1], Visits(s, n)[i])
  BY <1>1, <1>5 DEF GradZero
<1>8. \A i \in 0..K : i \in {j \in 0..K : g[j] \in Summed}
  <2> DEFINE P == {i \in 0..K : g[i] \in Summed}
  <2>1. 0 \in P  BY <1>1, <1>2, <1>7
  <2>2. \A i \in 1..K : i - 1 \in P => i \in P  BY <1>1, <1>3, <1>7
  <2> HIDE DEF P
  <2> QED  BY <1>1, <2>1, <2>2, InductionUpTo DEF P
<1>9. g \in [0..K -> Summed]  BY <1>5, <1>8
<1>10. <<>> \o g[K].sum = g[K].sum  BY <1>1, <1>9 DEF Summed, Grad
<1>11. Accumulates(g, s, old, n)  BY <1>6, <1>7, <1>9, <1>10 DEF Accumulates
<1>12. QED  BY <1>11
(* The gradient of a step is the sum over its windows, and what an earlier *)
(* step left behind has no part in it when the step computes a window.     *)
LEMMA GradientTyped ==
    ASSUME NEW s \in Setups, NEW n \in 0..MaxStep - 1, NEW old \in Grad
    PROVE  Gradient(s, old, n) \in Grad
<1>1. PICK g : Accumulates(g, s, old, n)  BY Accumulation
<1>2. s.gradAccum \in 0..s.gradAccum  BY TrainingAssumption
<1>3. QED  BY <1>1, <1>2 DEF Accumulates, Summed

(* A step that computes a gradient does not depend on the one left by the  *)
(* step before.                                                            *)
LEMMA GradientIsFresh ==
    ASSUME NEW s \in Setups, NEW n \in 0..MaxStep - 1, NEW old \in Grad, NEW other \in Grad,
           s.gradAccum = 1 => Computes(s, n)
    PROVE  Gradient(s, old, n) = Gradient(s, other, n)
<1>1. PICK g : Accumulates(g, s, old, n)  BY Accumulation
<1>2. PICK h : Accumulates(h, s, other, n)  BY Accumulation
<1>3. s.gradAccum \in Nat \ {0}  BY TrainingAssumption
<1>4. CASE s.gradAccum = 1
  <2>1. ~Skipped(s, Visits(s, n)[1])  BY <1>4 DEF Computes
  <2>2. g[1] = MicroStep(s, g[0], Visits(s, n)[1])  BY <1>1, <1>4 DEF Accumulates
  <2>3. h[1] = MicroStep(s, h[0], Visits(s, n)[1])  BY <1>2, <1>4 DEF Accumulates
  <2>4. g[1].grad = h[1].grad  BY <2>1, <2>2, <2>3 DEF MicroStep
  <2>5. Gradient(s, old, n) = g[1].grad /\ Gradient(s, other, n) = h[1].grad
    BY <1>1, <1>2, <1>4 DEF Accumulates
  <2>6. QED  BY <2>4, <2>5
<1>5. CASE s.gradAccum # 1
  <2> DEFINE K == s.gradAccum
             P == {i \in 0..K : g[i].sum = h[i].sum}
  <2>1. 0 \in P  BY <1>1, <1>2, <1>3 DEF Accumulates
  <2>2. ASSUME NEW i \in 1..K, i - 1 \in P  PROVE i \in P
    <3>1. /\ g[i] = MicroStep(s, g[i - 1], Visits(s, n)[i])
          /\ h[i] = MicroStep(s, h[i - 1], Visits(s, n)[i])
          /\ g[i - 1].sum = h[i - 1].sum
      BY <1>1, <1>2, <2>2 DEF Accumulates
    <3>2. g[i].sum = h[i].sum  BY <3>1 DEF MicroStep
    <3>3. QED  BY <1>3, <3>2
  <2>3. \A i \in 0..K : i \in P
    <3> HIDE DEF P
    <3> QED  BY <1>3, <2>1, <2>2, InductionUpTo
  <2>4. g[K].sum = h[K].sum  BY <1>3, <2>3
  <2>5. K > 1  BY <1>3, <1>5
  <2>6. QED  BY <1>1, <1>2, <2>4, <2>5 DEF Accumulates
<1>6. QED  BY <1>4, <1>5

(* The gradient of step n holds visits of data steps of step n, in order.  *)
VisitsIn(g, s, lo, hi) ==
    /\ g \in Grad
    /\ \A k \in 1..Len(g) : g[k][1] \in lo..hi - 1 /\ g[k] = Visit(s, g[k][1])
    /\ \A k, l \in 1..Len(g) : k < l => g[k][1] < g[l][1]

(* What VisitsIn says of one entry of a gradient.                          *)
LEMMA VisitAt ==
    ASSUME NEW g, NEW s, NEW lo, NEW hi, VisitsIn(g, s, lo, hi), NEW k \in 1..Len(g)
    PROVE  g[k][1] \in lo..hi - 1 /\ g[k] = Visit(s, g[k][1])
BY DEF VisitsIn

(* A gradient that visited up to hi, and one that visits hi next.          *)
LEMMA VisitAdded ==
    ASSUME NEW s, NEW lo \in Nat, NEW hi \in Nat, lo <= hi, NEW g, VisitsIn(g, s, lo, hi),
           Visit(s, hi) \in Nat \X Nat
    PROVE  VisitsIn(g, s, lo, hi + 1) /\ VisitsIn(g \o <<Visit(s, hi)>>, s, lo, hi + 1)
<1> DEFINE v == Visit(s, hi)
           h == g \o <<v>>
<1>1. v[1] = hi  BY DEF Visit
<1> HIDE DEF v
<1>2. g \in Seq(Nat \X Nat) /\ v \in Nat \X Nat /\ Len(g) \in Nat
  BY DEF VisitsIn, Grad, v
<1>3. h \in Grad /\ Len(h) = Len(g) + 1  BY <1>2 DEF Grad
<1>4. (\A k \in 1..Len(g) : h[k] = g[k]) /\ h[Len(g) + 1] = v  BY <1>2
<1> HIDE DEF h
<1>5. \A k \in 1..Len(g) : g[k][1] \in lo..hi - 1 /\ g[k][1] \in lo..hi /\ g[k][1] < hi
  BY DEF VisitsIn
<1>6. VisitsIn(g, s, lo, hi + 1)  BY <1>5 DEF VisitsIn
<1>7. ASSUME NEW k \in 1..Len(h)
      PROVE  h[k][1] \in lo..(hi + 1) - 1 /\ h[k] = Visit(s, h[k][1])
  <2>1. CASE k \in 1..Len(g)  BY <1>4, <1>5, <2>1 DEF VisitsIn
  <2>2. CASE k = Len(g) + 1
    <3>1. h[k] = v /\ h[k][1] = hi  BY <1>1, <1>4, <2>2
    <3>2. hi \in lo..(hi + 1) - 1  OBVIOUS
    <3>3. QED  BY <3>1, <3>2 DEF v
  <2>3. k \in 1..Len(g) \/ k = Len(g) + 1  BY <1>2, <1>3
  <2>4. QED  BY <2>1, <2>2, <2>3
<1>len. Len(g) \in Nat /\ Len(h) = Len(g) + 1  BY <1>2, <1>3
<1>8. ASSUME NEW k \in 1..Len(h), NEW l \in 1..Len(h), k < l  PROVE h[k][1] < h[l][1]
  <2>1. k \in 1..Len(g)  BY <1>len, <1>8
  <2>2. CASE l \in 1..Len(g)  BY <1>4, <1>8, <2>1, <2>2 DEF VisitsIn
  <2>3. CASE l = Len(g) + 1  BY <1>1, <1>4, <1>5, <2>1, <2>3
  <2>4. l \in 1..Len(g) \/ l = Len(g) + 1  BY <1>len
  <2>5. QED  BY <2>2, <2>3, <2>4
<1>9. VisitsIn(h, s, lo, hi + 1)  BY <1>3, <1>7, <1>8 DEF VisitsIn
<1>10. QED  BY <1>6, <1>9 DEF h, v

(* A step visits the windows of its own data steps and no others.          *)
LEMMA GradientVisits ==
    ASSUME NEW s \in Setups, NEW n \in 0..MaxStep - 1, NEW old \in Grad,
           s.gradAccum = 1 => Computes(s, n)
    PROVE  VisitsIn(Gradient(s, old, n), s, n * s.gradAccum, n * s.gradAccum + s.gradAccum)
<1>1. PICK g : Accumulates(g, s, old, n)  BY Accumulation
<1>2. s.gradAccum \in Nat \ {0} /\ MaxStep \in Nat  BY TrainingAssumption
<1>3. PICK K \in Nat \ {0}, lo \in Nat : K = s.gradAccum /\ lo = n * s.gradAccum
  <2>1. n \in Nat  BY <1>2
  <2>2. n * s.gradAccum \in Nat  BY <1>2, <2>1
  <2>3. QED  BY <1>2, <2>2
<1>4. ASSUME NEW i \in 1..K
      PROVE  /\ Visits(s, n)[i] = Visit(s, lo + (i - 1)) /\ Visit(s, lo + (i - 1)) \in Nat \X Nat
             /\ lo + (i - 1) \in Nat /\ lo <= lo + (i - 1) /\ lo + (i - 1) + 1 = lo + i
             /\ g[i] = MicroStep(s, g[i - 1], Visits(s, n)[i])
  <2>1. lo + i - 1 = lo + (i - 1)  OBVIOUS
  <2>2. Visits(s, n)[i] = Visit(s, lo + (i - 1))  BY <1>3, <2>1 DEF Visits
  <2>3. Visits(s, n)[i] \in Nat \X Nat  BY <1>3, VisitTyped
  <2>4. g[i] = MicroStep(s, g[i - 1], Visits(s, n)[i])  BY <1>1, <1>3 DEF Accumulates
  <2>5. lo + (i - 1) \in Nat /\ lo <= lo + (i - 1) /\ lo + (i - 1) + 1 = lo + i  OBVIOUS
  <2>6. QED  BY <2>2, <2>3, <2>4, <2>5
<1>5. VisitsIn(<<>>, s, lo, lo)
  <2>1. <<>> \in Grad /\ Len(<<>>) = 0  BY EmptySeq DEF Grad
  <2>2. QED  BY <2>1 DEF VisitsIn
<1>6. CASE K = 1
  <2>1. ~Skipped(s, Visits(s, n)[1])  BY <1>3, <1>6 DEF Computes
  <2>2. Visits(s, n)[1] = Visit(s, lo) /\ Visit(s, lo) \in Nat \X Nat
        /\ g[1] = MicroStep(s, g[0], Visits(s, n)[1])
    <3>1. 1 \in 1..K /\ lo + (1 - 1) = lo /\ 1 - 1 = 0  BY <1>6
    <3>2. QED  BY <1>4, <3>1
  <2>3. g[1].grad = <<>> \o <<Visit(s, lo)>>
    BY <2>1, <2>2 DEF MicroStep, GradAdd, GradZero
  <2>4. VisitsIn(<<>> \o <<Visit(s, lo)>>, s, lo, lo + 1)  
    <3>1. lo <= lo  OBVIOUS
    <3>2. QED  BY <1>5, <2>2, <3>1, VisitAdded, Zenon
  <2>5. Gradient(s, old, n) = g[1].grad  BY <1>1, <1>3, <1>6 DEF Accumulates
  <2>6. QED  BY <1>3, <1>6, <2>3, <2>4, <2>5
<1>7. CASE K > 1
  <2> DEFINE P == {i \in 0..K : VisitsIn(g[i].sum, s, lo, lo + i)}
  <2>1. 0 \in P
    <3>1. g[0].sum = <<>> /\ lo + 0 = lo  BY <1>1 DEF Accumulates
    <3>2. QED  BY <1>5, <3>1
  <2>2. ASSUME NEW i \in 1..K, i - 1 \in P  PROVE i \in P
    <3>1. VisitsIn(g[i - 1].sum, s, lo, lo + (i - 1))  BY <2>2
    <3>2. /\ VisitsIn(g[i - 1].sum, s, lo, lo + i)
          /\ VisitsIn(g[i - 1].sum \o <<Visit(s, lo + (i - 1))>>, s, lo, lo + i)
      <4>1. PICK hi \in Nat : hi = lo + (i - 1) /\ lo <= hi /\ hi + 1 = lo + i  BY <1>4
      <4>2. Visit(s, hi) \in Nat \X Nat /\ VisitsIn(g[i - 1].sum, s, lo, hi)  BY <1>4, <3>1, <4>1
      <4>3. QED  BY <4>1, <4>2, VisitAdded, SMTT(30)
    <3>3. \/ g[i].sum = g[i - 1].sum
          \/ g[i].sum = g[i - 1].sum \o (<<>> \o <<Visit(s, lo + (i - 1))>>)
      <4>1. g[i] = MicroStep(s, g[i - 1], Visit(s, lo + (i - 1))) /\ s.gradAccum > 1
        BY <1>3, <1>4, <1>7
      <4>2. QED  BY <4>1 DEF MicroStep, GradAdd, GradZero
    <3>4. <<>> \o <<Visit(s, lo + (i - 1))>> = <<Visit(s, lo + (i - 1))>>  BY <1>4
    <3>5. VisitsIn(g[i].sum, s, lo, lo + i)  BY <3>2, <3>3, <3>4
    <3>6. QED  BY <3>5
  <2>3. \A i \in 0..K : i \in P
    <3> HIDE DEF P
    <3> QED  BY <2>1, <2>2, InductionUpTo
  <2>4. VisitsIn(g[K].sum, s, lo, lo + K)  BY <2>3
  <2>5. Gradient(s, old, n) = g[K].sum  BY <1>1, <1>3, <1>7 DEF Accumulates
  <2>6. QED  BY <1>3, <2>4, <2>5
<1>8. QED  BY <1>6, <1>7

(* An optimizer step leaves a model with one more update.                  *)
LEMMA UpdatedTyped ==
    ASSUME NEW s \in Setups, NEW m \in Model, NEW n \in 0..MaxStep - 1, NEW e \in 0..MaxStep
    PROVE  /\ Updated(s, m, n, e) \in Model
           /\ Updated(s, m, n, e).weights # <<>>
           /\ Len(Updated(s, m, n, e).weights) = Len(m.weights) + 1
<1> DEFINE g == Gradient(s, m.grad, n)
           u == [grad |-> g, copies |-> Refreshed(s, m, n), bias |-> BiasStep(s, m),
                 moments |-> Moments(s, m, g, e), plan |-> Planned(s, e), step |-> n]
<1>1. /\ m.weights \in Seq(Update) /\ m.moments \in Seq(Moment) /\ m.bias \in Nat
      /\ m.grad \in Grad /\ m.copies \in Int
  BY DEF Model
<1>2. g \in Grad  BY <1>1, GradientTyped
<1> HIDE DEF g
<1>3. Refreshed(s, m, n) \in Int
  <2>1. Len(m.weights) \in Int  BY <1>1, LenProperties
  <2>2. QED  BY <1>1, <2>1 DEF Refreshed
<1>4. BiasStep(s, m) \in Nat  BY <1>1 DEF BiasStep
<1>5. MaxStep \in Nat  BY TrainingAssumption
<1>6. Planned(s, e) \in Nat  BY <1>5 DEF Planned
<1>7. Moments(s, m, g, e) \in Seq(Moment)
  <2>1. [grad |-> g, plan |-> Planned(s, e)] \in Moment  BY <1>2, <1>6 DEF Moment
  <2>2. Append(m.moments, [grad |-> g, plan |-> Planned(s, e)]) \in Seq(Moment)
    BY <1>1, <2>1, AppendProperties
  <2>3. <<>> \in Seq(Moment)  BY EmptySeq
  <2>4. QED  BY <2>2, <2>3 DEF Moments
<1>8. u \in Update  BY <1>2, <1>3, <1>4, <1>5, <1>6, <1>7 DEF Update
<1>9. /\ Append(m.weights, u) \in Seq(Update) /\ Append(m.weights, u) # <<>>
      /\ Len(Append(m.weights, u)) = Len(m.weights) + 1
  <2> HIDE DEF u
  <2> QED  BY <1>1, <1>8, AppendProperties
<1>10. Updated(s, m, n, e) =
          [weights |-> Append(m.weights, u), moments |-> Moments(s, m, g, e),
           bias |-> BiasStep(s, m), grad |-> g, copies |-> Refreshed(s, m, n)]
  BY DEF Updated, g
<1> HIDE DEF u
<1>11. QED  BY <1>2, <1>3, <1>4, <1>7, <1>9, <1>10 DEF Model
-----------------------------------------------------------------------------
(* The continuous run, step by step.                                       *)
LEMMA FreshTyped == Fresh \in Model
BY EmptySeq DEF Fresh, Model, Grad

Runs(h, s, e) ==
    /\ h \in [0..e -> Model]
    /\ h[0] = Fresh
    /\ \A n \in 1..e : h[n] = Updated(s, h[n - 1], n - 1, e)

(* The uninterrupted run satisfies its recursive equation.                 *)
LEMMA ContinuousIs ==
    ASSUME NEW s \in Setups, NEW e \in 0..MaxStep
    PROVE  Runs(Continuous(s, e), s, e)
<1> DEFINE Body(f) == [n \in 0..e |-> IF n = 0 THEN Fresh ELSE Updated(s, f[n - 1], n - 1, e)]
           F == [n \in 1..e |-> [m \in Model |-> Updated(s, m, n - 1, e)]]
           g == CHOOSE f : f = Body(f)
<1>1. e \in Nat /\ \A n \in 1..e : n - 1 \in 0..MaxStep - 1  BY TrainingAssumption
<1>2. \A n \in 1..e, m \in Model : Updated(s, m, n - 1, e) \in Model  BY <1>1, UpdatedTyped
<1>3. \E f : f = Body(f)
  <2>1. F \in [1..e -> [Model -> Model]]  BY <1>2
  <2>2. \E h : Recurses(h, e, Model, Fresh, F)
    <3> HIDE DEF F, Body, g
    <3> QED  BY <1>1, <2>1, FreshTyped, RecursionExists, Zenon
  <2> PICK h : Recurses(h, e, Model, Fresh, F)  BY <2>2
  <2> USE DEF Recurses
  <2>3. ASSUME NEW k \in 0..e  PROVE h[k] = Body(h)[k]
    <3>1. CASE k = 0  BY <3>1
    <3>2. CASE k # 0
      <4>1. k \in 1..e /\ k - 1 \in 0..e /\ h[k - 1] \in Model  BY <3>2, <1>1, <2>2
      <4>2. h[k] = Updated(s, h[k - 1], k - 1, e)  BY <2>2, <4>1
      <4>3. QED  BY <3>2, <4>2
    <3>3. QED  BY <3>1, <3>2
  <2>4. h = Body(h)  BY <2>3
  <2>5. QED  BY <2>4
<1>4. g = Body(g)  BY <1>3
<1>5. Continuous(s, e) = g  BY DEF Continuous
<1> HIDE DEF g
<1>6. g[0] = Fresh /\ \A n \in 1..e : g[n] = Updated(s, g[n - 1], n - 1, e)  BY <1>1, <1>4
<1>7. \A n \in 0..e : n \in {k \in 0..e : g[k] \in Model}
  <2> DEFINE P == {k \in 0..e : g[k] \in Model}
  <2>1. 0 \in P  BY <1>1, <1>6, FreshTyped
  <2>2. \A n \in 1..e : n - 1 \in P => n \in P  BY <1>1, <1>2, <1>6
  <2> HIDE DEF P
  <2> QED  BY <1>1, <2>1, <2>2, InductionUpTo DEF P
<1>8. g \in [0..e -> Model]  BY <1>4, <1>7
<1>9. QED  BY <1>5, <1>6, <1>8 DEF Runs

(* Under SGD there are no moments, and without reduced copies none.        *)
LEMMA ContinuousKeeps ==
    ASSUME NEW s \in Setups, NEW e \in 0..MaxStep, NEW n \in 0..e
    PROVE  LET run == Continuous(s, e)[n]
           IN  /\ ~s.adamw => run.moments = <<>> /\ run.bias = 0
               /\ ~s.bf16 => run.copies = -1
<1> DEFINE g == Continuous(s, e)
           Keeps(m) == /\ ~s.adamw => m.moments = <<>> /\ m.bias = 0
                       /\ ~s.bf16 => m.copies = -1
           P == {k \in 0..e : Keeps(g[k])}
<1>1. Runs(g, s, e)  BY ContinuousIs
<1>2. e \in Nat  BY TrainingAssumption
<1> HIDE DEF g
<1>3. 0 \in P  BY <1>1, <1>2 DEF Runs, Fresh
<1>4. ASSUME NEW k \in 1..e, k - 1 \in P  PROVE k \in P
  <2>1. g[k] = Updated(s, g[k - 1], k - 1, e)  BY <1>1 DEF Runs
  <2>2. Keeps(g[k])  BY <1>4, <2>1 DEF Updated, Moments, BiasStep, Refreshed
  <2>3. QED  BY <1>2, <2>2
<1>5. \A k \in 0..e : k \in P
  <2> HIDE DEF P
  <2> QED  BY <1>2, <1>3, <1>4, InductionUpTo
<1>6. QED  BY <1>5 DEF g

(* A schedule that the end has no part in makes the same run to any end.   *)
LEMMA SamePlan ==
    ASSUME NEW s \in Setups, NEW e \in 0..MaxStep, NEW f \in 0..MaxStep, NEW n \in 0..MaxStep,
           n <= e, n <= f, s.fraction => e = f
    PROVE  Continuous(s, e)[n] = Continuous(s, f)[n]
<1> DEFINE g == Continuous(s, e)
           h == Continuous(s, f)
           P == {k \in 0..n : g[k] = h[k]}
<1>1. Runs(g, s, e) /\ Runs(h, s, f)  BY ContinuousIs
<1>2. n \in Nat /\ e \in Nat /\ f \in Nat  BY TrainingAssumption
<1> HIDE DEF g, h
<1>3. 0 \in P  BY <1>1, <1>2 DEF Runs
<1>4. ASSUME NEW k \in 1..n, k - 1 \in P  PROVE k \in P
  <2>1. k \in 1..e /\ k \in 1..f  BY <1>2
  <2>2. g[k] = Updated(s, g[k - 1], k - 1, e) /\ h[k] = Updated(s, h[k - 1], k - 1, f)
    BY <1>1, <2>1 DEF Runs
  <2>3. Planned(s, e) = Planned(s, f)  BY DEF Planned
  <2>4. g[k] = h[k]  BY <1>4, <2>2, <2>3 DEF Updated, Moments
  <2>5. QED  BY <1>2, <2>4
<1>5. \A k \in 0..n : k \in P
  <2> HIDE DEF P
  <2> QED  BY <1>2, <1>3, <1>4, InductionUpTo
<1>6. QED  BY <1>2, <1>5 DEF g, h
-----------------------------------------------------------------------------
(***************************************************************************)
(* The inductive invariant.                                                *)
(***************************************************************************)
(* What a numbered file is called is the step it was saved at, and the     *)
(* step of a file is within the run it was saved by.                       *)
FilesInv ==
    \A n \in Name : Loadable(n) =>
        /\ disk[n].step <= disk[n].end
        /\ setup.template /\ n[1] \in {"weights", "optim"} => disk[n].step = n[2]

(* Memory and every file of a lineage that never departed hold what one    *)
(* continuous run has after as many steps.                                 *)
Agrees(m, run) == m.weights = run.weights /\ m.moments = run.moments /\ m.bias = run.bias
FileAgrees(kind, f, run) ==
    IF kind \in {"weights", "best"} THEN f.weights = run.weights
    ELSE f.moments = run.moments /\ f.bias = run.bias
LineageInv ==
    Replayable(setup) =>
        /\ pc # "idle" /\ ways \subseteq {"best"} =>
              Agrees(mem, Continuous(setup, end)[step]) /\ (~setup.bf16 => mem.copies = -1)
        /\ \A n \in Name : Loadable(n) /\ disk[n].ways \subseteq {"best"} =>
              FileAgrees(n[1], disk[n], Continuous(setup, disk[n].end)[disk[n].step])

(* From the newest whole pair up to a step no save was due.  Before the    *)
(* saves of a step, and at the end, that pair is of an earlier step.       *)
Since(n, upto) == (n = 0 \/ Pair(n)) /\ \A j \in n + 1..upto : ~Every(setup.saveEvery, j)
CoverInv ==
    pc # "idle" /\ setup.template /\ ways \cap {"cold", "best"} = {} =>
        /\ IF pc = "loop" /\ step < end THEN \E n \in 0..step : Since(n, step)
           ELSE \E n \in 0..step - 1 : Since(n, step - 1)
        /\ pc = "optim" => Loadable(<<"weights", step>>)
        /\ pc \in {"eval", "best", "bestOptim"} => ~Every(setup.saveEvery, step) \/ Pair(step)

(* The best metric is the one of the best file, but while that is written. *)
BestInv ==
    pc # "idle" =>
        /\ Len(mem.weights) + (end - step) <= MaxStep
        /\ ~(pc = "loop" /\ step < end) => mem.weights # <<>>
        /\ evals = {} => best = -1
        /\ evals # {} => best \in evals /\ \A v \in evals : v <= best
        /\ pc = "best" => best \in evals /\ best = Metric
        /\ pc = "bestOptim" =>
              /\ setup.adamw
              /\ Loadable(<<"best", 0>>) /\ disk[<<"best", 0>>].step = step
              /\ best = setup.metric[Len(disk[<<"best", 0>>].weights)]
        /\ evals # {} /\ pc \notin {"best", "bestOptim"} =>
              /\ Loadable(<<"best", 0>>)
              /\ best = setup.metric[Len(disk[<<"best", 0>>].weights)]
              /\ setup.adamw => /\ Loadable(<<"bestOptim", 0>>)
                                /\ disk[<<"bestOptim", 0>>].step = disk[<<"best", 0>>].step

(* Between invocations nothing is left in memory.                          *)
IdleInv == pc = "idle" => step = 0 /\ mem = Fresh /\ evals = {}

IInv == TypeOK /\ IdleInv /\ FilesInv /\ LineageInv /\ CoverInv /\ BestInv

(* The inductive invariant holds before the first invocation.              *)
LEMMA InitIInv == Init => IInv
<1> SUFFICES ASSUME Init PROVE IInv  OBVIOUS
<1>1. MaxStep \in Nat /\ MaxStarts \in Nat  BY TrainingAssumption
<1>2. \A n \in Name : disk[n] = NoFile  BY DEF Init
<1>3. \A n \in Name : ~Loadable(n)  BY <1>2 DEF Loadable
<1>4. TypeOK
  <2>1. disk = [n \in Name |-> disk[n]]  BY DEF Init
  <2>2. step <= end /\ step \in 0..MaxStep /\ end \in 0..MaxStep /\ starts \in 0..MaxStarts
    BY <1>1 DEF Init
  <2>3. \A n \in Name : disk[n] \in {NoFile, Torn} \cup Files(n[1])  BY <1>2
  <2>4. setup \in Setups /\ mem \in Model  BY FreshTyped DEF Init
  <2>5. pc \in {"idle", "loop", "monitor", "eval"} \cup Kinds  BY DEF Init
  <2>6. open \in BOOLEAN /\ final \in BOOLEAN  BY DEF Init
  <2>7. best \in Int /\ evals \subseteq Nat /\ ways \subseteq Departures  BY DEF Init
  <2>8. QED  BY <2>1, <2>2, <2>3, <2>4, <2>5, <2>6, <2>7 DEF TypeOK
<1>5. IdleInv /\ FilesInv /\ LineageInv /\ CoverInv /\ BestInv
  BY <1>3 DEF Init, IdleInv, FilesInv, LineageInv, CoverInv, BestInv
<1>6. QED  BY <1>4, <1>5 DEF IInv
-----------------------------------------------------------------------------
(* Files.                                                                  *)
LEMMA Kinded ==
    ASSUME TypeOK, NEW n \in Name, Loadable(n)
    PROVE  /\ disk[n] \in Files(n[1])
           /\ disk[n].step \in 0..MaxStep /\ disk[n].end \in 0..MaxStep
           /\ disk[n].ways \subseteq Departures
           /\ n[1] \in {"weights", "best"} => disk[n].weights \in Seq(Update)
           /\ n[1] \in {"optim", "bestOptim"} => disk[n].moments \in Seq(Moment) /\ disk[n].bias \in Nat
<1>1. disk[n] \in Files(n[1])  BY DEF TypeOK, Loadable
<1>2. QED  BY <1>1 DEF Files, WeightFiles, OptimFiles

(* The names of the files.                                                 *)
LEMMA Names ==
    /\ \A n \in 0..MaxStep : <<"weights", n>> \in Name /\ <<"optim", n>> \in Name
    /\ <<"best", 0>> \in Name /\ <<"bestOptim", 0>> \in Name
    /\ \A n \in Name : n[1] \in Kinds
BY DEF Name, Kinds

(* The file a save writes is one of the names, of its kind.                *)
LEMMA FileNamed ==
    ASSUME NEW kind \in Kinds, NEW n \in 0..MaxStep
    PROVE  FileName(kind, n) \in Name /\ FileName(kind, n)[1] = kind
<1>1. 0 \in 0..MaxStep  BY TrainingAssumption
<1>2. QED  BY <1>1 DEF FileName, Kinds, Name

(* What a save writes is a file of its kind.                               *)
LEMMA ContentsTyped ==
    ASSUME TypeOK, NEW kind \in Kinds
    PROVE  /\ Contents(kind) \in Files(kind) /\ Contents(kind) \notin {NoFile, Torn}
           /\ Contents(kind).step = step /\ Contents(kind).end = end /\ Contents(kind).ways = ways
<1>1. WeightFile \in WeightFiles  BY DEF TypeOK, Model, WeightFile, WeightFiles
<1>2. OptimFile \in OptimFiles  BY DEF TypeOK, Model, OptimFile, OptimFiles
<1>3. QED  BY <1>1, <1>2, NotFiles DEF Contents, Files, WeightFile, OptimFile

(* What the two halves of a save do to the files.                          *)
LEMMA Opened ==
    ASSUME TypeOK, OpenFile
    PROVE  /\ disk' = [disk EXCEPT ![FileName(pc, step)] = Torn]
           /\ FileName(pc, step) \in Name /\ FileName(pc, step)[1] = pc
           /\ \A n \in Name : disk'[n] = IF n = FileName(pc, step) THEN Torn ELSE disk[n]
           /\ disk' = [n \in Name |-> disk'[n]]
<1>1. FileName(pc, step) \in Name /\ FileName(pc, step)[1] = pc  BY FileNamed DEF OpenFile, TypeOK
<1>2. disk' = [disk EXCEPT ![FileName(pc, step)] = Torn] /\ disk = [n \in Name |-> disk[n]]
  BY DEF OpenFile, TypeOK
<1> DEFINE f == FileName(pc, step)
<1> HIDE DEF f
<1>3. disk' = [disk EXCEPT ![f] = Torn] /\ f \in Name  BY <1>1, <1>2 DEF f
<1>4. \A n \in Name : disk'[n] = IF n = f THEN Torn ELSE disk[n]  BY <1>2, <1>3
<1>5. disk' = [n \in Name |-> disk'[n]]  BY <1>2, <1>3
<1>6. QED  BY <1>1, <1>2, <1>4, <1>5 DEF f

(* Closing a file changes that file alone.                                 *)
LEMMA Closed ==
    ASSUME TypeOK, CloseFile
    PROVE  /\ FileName(pc, step) \in Name /\ FileName(pc, step)[1] = pc
           /\ \A n \in Name : disk'[n] = IF n = FileName(pc, step) THEN Contents(pc) ELSE disk[n]
           /\ disk' = [n \in Name |-> disk'[n]]
<1>1. FileName(pc, step) \in Name /\ FileName(pc, step)[1] = pc  BY FileNamed DEF CloseFile, TypeOK
<1>2. disk' = [disk EXCEPT ![FileName(pc, step)] = Contents(pc)] /\ disk = [n \in Name |-> disk[n]]
  BY DEF CloseFile, TypeOK
<1> DEFINE f == FileName(pc, step)
           c == Contents(pc)
<1> HIDE DEF f, c
<1>3. disk' = [disk EXCEPT ![f] = c] /\ f \in Name  BY <1>1, <1>2 DEF f, c
<1>4. \A n \in Name : disk'[n] = IF n = f THEN c ELSE disk[n]  BY <1>2, <1>3
<1>5. disk' = [n \in Name |-> disk'[n]]  BY <1>2, <1>3
<1>6. QED  BY <1>1, <1>4, <1>5 DEF f, c
-----------------------------------------------------------------------------
(* Every step preserves the invariant, one part at a time.                 *)
DiskTyped ==
    /\ disk = [n \in Name |-> disk[n]]
    /\ \A n \in Name : disk[n] \in {NoFile, Torn} \cup Files(n[1])

(* Only saves change the disk, and nothing changes the setup.              *)
LEMMA DiskChanges ==
    ASSUME [Next]_vars
    PROVE  (OpenFile \/ CloseFile \/ disk' = disk) /\ setup' = setup
<1>1. CASE UNCHANGED vars  BY <1>1 DEF vars, process
<1>2. CASE StartFresh \/ Resume  BY <1>2 DEF StartFresh, Resume, Begins
<1>3. CASE Train  BY <1>3 DEF Train
<1>4. CASE Monitor \/ LoopEnds  BY <1>4 DEF Monitor, LoopEnds
<1>5. CASE OpenFile \/ CloseFile  BY <1>5 DEF OpenFile, CloseFile
<1>6. CASE Evaluate  BY <1>6 DEF Evaluate, process
<1>7. CASE Kill \/ Rest  BY <1>7 DEF Kill, Rest, vars, process
<1>8. QED  BY <1>1, <1>2, <1>3, <1>4, <1>5, <1>6, <1>7 DEF Next

(* Every step leaves the disk typed and the setup unchanged.               *)
LEMMA DiskStep ==
    ASSUME TypeOK, [Next]_vars
    PROVE  DiskTyped' /\ setup' = setup
<1> USE DEF DiskTyped
<1>1. CASE OpenFile  BY <1>1, Opened DEF TypeOK, OpenFile, Files
<1>2. CASE CloseFile
  <2>1. pc \in Kinds /\ setup' = setup  BY <1>2 DEF CloseFile
  <2>2. Contents(pc) \in Files(pc)  BY <2>1, ContentsTyped
  <2>3. QED  BY <1>2, <2>1, <2>2, Closed DEF TypeOK, Files
<1>3. CASE UNCHANGED <<setup, disk>>  BY <1>3 DEF TypeOK, Files
<1>4. QED  BY <1>1, <1>2, <1>3, DiskChanges

(* The end of an invocation keeps the types.                               *)
LEMMA ExitedTyped ==
    ASSUME TypeOK, DiskTyped', setup' = setup, starts' = starts, Exited
    PROVE  TypeOK'
<1>1. MaxStep \in Nat  BY TrainingAssumption
<1>2. step' <= end' /\ step' \in 0..MaxStep /\ end' \in 0..MaxStep  BY <1>1 DEF Exited
<1>3. mem' \in Model  BY FreshTyped DEF Exited
<1>4. setup' \in Setups /\ starts' \in 0..MaxStarts  BY DEF TypeOK
<1>5. /\ pc' \in {"idle", "loop", "monitor", "eval"} \cup Kinds
      /\ open' \in BOOLEAN /\ final' \in BOOLEAN
  BY DEF Exited
<1>6. best' \in Int /\ evals' \subseteq Nat /\ ways' \subseteq Departures  BY DEF Exited
<1>7. QED  BY <1>2, <1>3, <1>4, <1>5, <1>6 DEF TypeOK, DiskTyped

(* The phases that follow a step are phases of the loop.                   *)
LEMMA PhaseTyped ==
    ASSUME NEW n, NEW fin \in BOOLEAN
    PROVE  /\ AfterEval(fin) \in {"idle", "loop"}
           /\ AfterSave(n, fin) \in {"eval", "idle", "loop"}
           /\ BeforeSave(n, fin) \in {"weights", "eval", "idle", "loop"}
           /\ AfterTrain(n) \in {"monitor", "weights", "eval", "loop"}
BY DEF AfterEval, AfterSave, BeforeSave, AfterTrain

(* The beginning of an invocation keeps the types.                         *)
LEMMA BeginsTyped ==
    ASSUME TypeOK, DiskTyped', NEW start \in 0..MaxStep, NEW steps \in 1..MaxStep,
           start + steps <= MaxStep, NEW m \in Model, NEW w \in SUBSET Departures,
           Begins(start, steps, m, w)
    PROVE  TypeOK'
<1>1. MaxStep \in Nat /\ MaxStarts \in Nat  BY TrainingAssumption
<1>2. step' \in 0..MaxStep /\ end' \in 0..MaxStep /\ step' <= end'  BY <1>1 DEF Begins
<1>3. starts' \in 0..MaxStarts  BY <1>1 DEF Begins, TypeOK
<1>4. setup' \in Setups /\ mem' \in Model  BY DEF TypeOK, Begins
<1>5. /\ pc' \in {"idle", "loop", "monitor", "eval"} \cup Kinds
      /\ open' \in BOOLEAN /\ final' \in BOOLEAN
  BY DEF Begins, TypeOK
<1>6. best' \in Int /\ evals' \subseteq Nat /\ ways' \subseteq Departures  BY DEF Begins
<1>7. QED  BY <1>2, <1>3, <1>4, <1>5, <1>6 DEF TypeOK, DiskTyped

(* What a resumed invocation starts from.                                  *)
Resumes(w, o, given, steps) ==
    /\ pc = "idle"
    /\ \E p \in Pairs : w = p.w /\ o \in {NoFile, p.o}
    /\ w \in Name /\ w[1] \in {"weights", "best"} /\ Loadable(w)
    /\ o = NoFile \/ (/\ o \in Name /\ o # NoFile /\ setup.adamw /\ Loadable(o)
                      /\ o[1] \in {"optim", "bestOptim"})
    /\ given \in {NoFile, disk[w].step}
    /\ steps \in 1..MaxStep /\ StartStep(o, given) + steps <= MaxStep
    /\ Len(disk[w].weights) + steps <= MaxStep
    /\ Begins(StartStep(o, given), steps, LoadOptim(LoadWeights(Fresh, w), o),
              Departing(w, o, given, StartStep(o, given) + steps))

(* A resumption has files, flags and a length.                             *)
LEMMA ResumeIs ==
    ASSUME Resume
    PROVE  \E w, o, given, steps : Resumes(w, o, given, steps)
<1>1. PICK p \in Pairs, steps \in 1..MaxStep, withOptim \in BOOLEAN, byHand \in BOOLEAN :
         LET o == IF withOptim THEN p.o ELSE NoFile
             given == IF byHand THEN disk[p.w].step ELSE NoFile
         IN  /\ Loadable(p.w)
             /\ withOptim => setup.adamw /\ Loadable(p.o)
             /\ StartStep(o, given) + steps <= MaxStep
             /\ Len(disk[p.w].weights) + steps <= MaxStep
             /\ Begins(StartStep(o, given), steps, LoadOptim(LoadWeights(Fresh, p.w), o),
                       Departing(p.w, o, given, StartStep(o, given) + steps))
  BY DEF Resume
<1>2. /\ p.w \in Name /\ p.w[1] \in {"weights", "best"}
      /\ p.o \in Name /\ p.o[1] \in {"optim", "bestOptim"}
  BY Names DEF Pairs
<1>3. p.o # NoFile  BY <1>2, NotFiles
<1> DEFINE o == IF withOptim THEN p.o ELSE NoFile
           given == IF byHand THEN disk[p.w].step ELSE NoFile
<1>4. Resumes(p.w, o, given, steps)  BY <1>1, <1>2, <1>3 DEF Resumes, Resume
<1>5. QED  BY <1>4

(* What a resumption loads and where it starts are typed.                  *)
LEMMA ResumesTyped ==
    ASSUME TypeOK, NEW w, NEW o, NEW given, NEW steps, Resumes(w, o, given, steps)
    PROVE  /\ StartStep(o, given) \in 0..MaxStep
           /\ LoadOptim(LoadWeights(Fresh, w), o) \in Model
           /\ Departing(w, o, given, StartStep(o, given) + steps) \in SUBSET Departures
<1>1. /\ disk[w].step \in 0..MaxStep /\ disk[w].ways \subseteq Departures
      /\ disk[w].weights \in Seq(Update)
  BY Kinded DEF Resumes
<1>2. o # NoFile => /\ disk[o].step \in 0..MaxStep /\ disk[o].ways \subseteq Departures
                    /\ disk[o].moments \in Seq(Moment) /\ disk[o].bias \in Nat
  BY Kinded DEF Resumes
<1>3. StartStep(o, given) \in 0..MaxStep
  <2>1. 0 \in 0..MaxStep  BY TrainingAssumption
  <2>2. QED  BY <1>1, <1>2, <2>1 DEF StartStep, Resumes
<1>4. LoadWeights(Fresh, w) \in Model  BY <1>1, FreshTyped DEF LoadWeights, Model
<1>5. LoadOptim(LoadWeights(Fresh, w), o) \in Model  BY <1>2, <1>4 DEF LoadOptim, Model
<1>6. Departing(w, o, given, StartStep(o, given) + steps) \in SUBSET Departures
  BY <1>1, <1>2 DEF Departing, Departures
<1>7. QED  BY <1>3, <1>5, <1>6

(* The metric is measured after a step.                                    *)
LEMMA MetricTyped ==
    ASSUME TypeOK, BestInv, pc \in {"eval", "best"}
    PROVE  Len(mem.weights) \in 1..MaxStep /\ Metric \in Int
<1>1. mem.weights \in Seq(Update) /\ mem.weights # <<>>  BY DEF TypeOK, Model, BestInv
<1>2. Len(mem.weights) \in Nat \ {0}  BY <1>1, LenProperties, EmptySeq
<1>3. Len(mem.weights) <= MaxStep  BY <1>2, TrainingAssumption DEF BestInv, TypeOK
<1>4. Len(mem.weights) \in 1..MaxStep  BY <1>2, <1>3, TrainingAssumption
<1>5. setup.metric \in [1..MaxStep -> Int]  BY TrainingAssumption DEF TypeOK
<1>6. QED  BY <1>4, <1>5 DEF Metric

(* Every step keeps the types.                                             *)
LEMMA TypeStep ==
    ASSUME IInv, [Next]_vars
    PROVE  TypeOK'
<1>1. TypeOK  BY DEF IInv
<1>2. DiskTyped' /\ setup' = setup  BY <1>1, DiskStep
<1>3. MaxStep \in Nat /\ MaxStarts \in Nat  BY TrainingAssumption
<1>4. CASE StartFresh
  <2>1. PICK steps \in 1..MaxStep : Begins(0, steps, Fresh, {})  BY <1>4 DEF StartFresh
  <2>2. 0 \in 0..MaxStep /\ 0 + steps <= MaxStep  BY <1>3
  <2>3. QED  BY <1>1, <1>2, <2>1, <2>2, FreshTyped, BeginsTyped
<1>5. CASE Resume
  <2>1. PICK w, o, given, steps : Resumes(w, o, given, steps)  BY <1>5, ResumeIs
  <2>2. /\ StartStep(o, given) \in 0..MaxStep
        /\ LoadOptim(LoadWeights(Fresh, w), o) \in Model
        /\ Departing(w, o, given, StartStep(o, given) + steps) \in SUBSET Departures
    BY <1>1, <2>1, ResumesTyped
  <2>3. /\ steps \in 1..MaxStep /\ StartStep(o, given) + steps <= MaxStep
        /\ Begins(StartStep(o, given), steps, LoadOptim(LoadWeights(Fresh, w), o),
                  Departing(w, o, given, StartStep(o, given) + steps))
    BY <2>1 DEF Resumes
  <2>4. QED  BY <1>1, <1>2, <2>2, <2>3, BeginsTyped
<1>6. CASE Train
  <2>1. step \in 0..MaxStep - 1 /\ end \in 0..MaxStep /\ step + 1 <= end /\ step + 1 \in 0..MaxStep
    BY <1>1, <1>3, <1>6 DEF TypeOK, Train, Unfinished
  <2>2. mem' \in Model  BY <1>1, <1>6, <2>1, UpdatedTyped DEF TypeOK, Train
  <2>3. pc' \in {"idle", "loop", "monitor", "eval"} \cup Kinds
    <3>1. AfterTrain(step + 1) \in {"monitor", "weights", "eval", "loop"}  BY PhaseTyped
    <3>2. QED  BY <1>6, <3>1 DEF Train, Kinds
  <2>4. step' \in 0..MaxStep /\ end' \in 0..MaxStep /\ step' <= end'  BY <1>6, <2>1 DEF Train
  <2>5. QED  BY <1>1, <1>2, <1>6, <2>2, <2>3, <2>4 DEF TypeOK, DiskTyped, Train
<1>7. CASE Monitor
  <2>1. BeforeSave(step, FALSE) \in {"weights", "eval", "idle", "loop"}  BY PhaseTyped
  <2>2. CASE pc' = BeforeSave(step, FALSE) /\ UNCHANGED <<open, process>>
    BY <1>1, <1>2, <1>7, <2>1, <2>2 DEF TypeOK, DiskTyped, Monitor, process, Kinds
  <2>3. CASE Exited  BY <1>1, <1>2, <1>7, <2>3, ExitedTyped DEF Monitor
  <2>4. QED  BY <1>7, <2>2, <2>3 DEF Monitor
<1>8. CASE LoopEnds
  <2>1. BeforeSave(step, TRUE) \in {"weights", "eval", "idle", "loop"}  BY PhaseTyped
  <2>2. QED  BY <1>1, <1>2, <1>8, <2>1 DEF TypeOK, DiskTyped, LoopEnds, Kinds
<1>9. CASE OpenFile  BY <1>1, <1>2, <1>9 DEF TypeOK, DiskTyped, OpenFile, process
<1>10. CASE CloseFile
  <2>1. AfterFile(pc) \in {"optim", "bestOptim", "eval", "idle", "loop"}
    BY <1>1, PhaseTyped DEF TypeOK, AfterFile, WithMoments, WeightsAlone
  <2>2. CASE AfterFile(pc) = "idle"  BY <1>1, <1>2, <1>10, <2>2, ExitedTyped DEF CloseFile
  <2>3. CASE AfterFile(pc) # "idle"
    BY <1>1, <1>2, <1>10, <2>1, <2>3 DEF TypeOK, DiskTyped, CloseFile, process, Kinds
  <2>4. QED  BY <2>2, <2>3
<1>11. CASE Evaluate
  <2>1. CASE Improved(Metric)
    <3>1. Metric \in Nat  BY <1>1, <1>11, <2>1, MetricTyped DEF IInv, Evaluate, Improved
    <3>2. best' \in Int /\ evals' \subseteq Nat  BY <1>1, <1>11, <2>1, <3>1 DEF Evaluate, TypeOK
    <3>3. /\ pc' = "best" /\ UNCHANGED <<open, final, step, end, mem, ways>>
          /\ starts' = starts
      BY <1>11, <2>1 DEF Evaluate
    <3>4. QED  BY <1>1, <1>2, <3>2, <3>3 DEF TypeOK, DiskTyped, Kinds
  <2>2. CASE ~Improved(Metric) /\ AfterEval(final) = "idle"
    BY <1>1, <1>2, <1>11, <2>2, ExitedTyped DEF Evaluate
  <2>3. CASE ~Improved(Metric) /\ AfterEval(final) # "idle"
    <3>1. pc' = "loop"  BY <1>1, <1>11, <2>3 DEF Evaluate, AfterEval
    <3>2. evals' \subseteq Nat /\ best' = best  BY <1>1, <1>11, <2>3 DEF Evaluate, TypeOK
    <3>3. UNCHANGED <<open, final, step, end, mem, ways, starts>>  BY <1>11, <2>3 DEF Evaluate
    <3>4. QED  BY <1>1, <1>2, <3>1, <3>2, <3>3 DEF TypeOK, DiskTyped
  <2>4. QED  BY <2>1, <2>2, <2>3
<1>12. CASE Kill  BY <1>1, <1>2, <1>12, ExitedTyped DEF Kill
<1>13. CASE Rest \/ UNCHANGED vars
  BY <1>1, <1>2, <1>13 DEF Rest, vars, process, TypeOK, DiskTyped
<1>14. QED
  BY <1>4, <1>5, <1>6, <1>7, <1>8, <1>9, <1>10, <1>11, <1>12, <1>13 DEF Next

(* Between invocations the program holds nothing.                          *)
LEMMA IdleStep ==
    ASSUME IInv, [Next]_vars
    PROVE  IdleInv'
<1>1. IdleInv /\ TypeOK  BY DEF IInv
<1>2. CASE Exited  BY <1>2 DEF IdleInv, Exited
<1>3. CASE UNCHANGED vars  BY <1>1, <1>3 DEF IdleInv, vars, process
<1>4. CASE ~Exited /\ Next /\ pc' = "idle" /\ ~UNCHANGED vars
  <2>1. AfterTrain(step + 1) # "idle" /\ BeforeSave(step, FALSE) # "idle" /\ BeforeSave(step, TRUE) # "idle"
    BY DEF AfterTrain, BeforeSave, AfterSave, AfterEval
  <2>2. CASE StartFresh \/ Resume  BY <1>4, <2>2 DEF StartFresh, Resume, Begins
  <2>3. CASE Train  BY <1>4, <2>1, <2>3 DEF Train
  <2>4. CASE Monitor \/ LoopEnds  BY <1>4, <2>1, <2>4 DEF Monitor, LoopEnds
  <2>5. CASE OpenFile \/ CloseFile  BY <1>4, <2>5 DEF OpenFile, CloseFile, Kinds
  <2>6. CASE Evaluate  BY <1>4, <2>6 DEF Evaluate
  <2>7. CASE Rest \/ Kill  BY <1>4, <2>7 DEF Rest, Kill
  <2>8. QED  BY <1>4, <2>2, <2>3, <2>4, <2>5, <2>6, <2>7 DEF Next
<1>5. CASE pc' # "idle"  BY <1>5 DEF IdleInv
<1>6. QED  BY <1>2, <1>3, <1>4, <1>5

(* Every file keeps holding the state of a continuous run to its step,     *)
(* unless its ways name how it departed.                                   *)
LEMMA FilesStep ==
    ASSUME IInv, [Next]_vars
    PROVE  FilesInv'
<1>1. TypeOK /\ FilesInv  BY DEF IInv
<1>2. setup' = setup  BY <1>1, DiskStep
<1> SUFFICES ASSUME NEW n \in Name, Loadable(n)'
             PROVE  /\ disk'[n].step <= disk'[n].end
                    /\ setup'.template /\ n[1] \in {"weights", "optim"} => disk'[n].step = n[2]
  BY DEF FilesInv
<1>3. CASE disk'[n] = disk[n]  BY <1>1, <1>2, <1>3 DEF FilesInv, Loadable
<1>4. CASE OpenFile
  <2>1. disk'[n] = disk[n]  BY <1>1, <1>4, Opened DEF Loadable
  <2>2. QED  BY <1>3, <2>1
<1>5. CASE CloseFile
  <2>1. CASE n = FileName(pc, step)
    <3>1. pc \in Kinds  BY <1>5 DEF CloseFile
    <3>2. disk'[n] = Contents(pc)  BY <1>1, <1>5, <2>1, Closed
    <3>3. disk'[n].step = step /\ disk'[n].end = end  BY <1>1, <3>1, <3>2, ContentsTyped
    <3>4. step <= end  BY <1>1 DEF TypeOK
    <3>5. setup.template /\ n[1] \in {"weights", "optim"} => n[2] = step
      BY <2>1, <3>1 DEF FileName
    <3>6. QED  BY <1>2, <3>3, <3>4, <3>5
  <2>2. CASE n # FileName(pc, step)
    <3>1. disk'[n] = disk[n]  BY <1>1, <1>5, <2>2, Closed
    <3>2. QED  BY <1>3, <3>1
  <2>3. QED  BY <2>1, <2>2
<1>6. QED  BY <1>3, <1>4, <1>5, DiskChanges
-----------------------------------------------------------------------------
(* Lineages.  A step of an invocation that agrees with the continuous run  *)
(* agrees with its next step.                                              *)
LEMMA StepAgrees ==
    ASSUME NEW s \in Setups, Replayable(s), NEW e \in 0..MaxStep, NEW n \in 0..e - 1,
           NEW m \in Model, Agrees(m, Continuous(s, e)[n]), ~s.bf16 => m.copies = -1
    PROVE  LET u == Updated(s, m, n, e)
           IN  Agrees(u, Continuous(s, e)[n + 1]) /\ (~s.bf16 => u.copies = -1)
<1> DEFINE g == Continuous(s, e)
           run == g[n]
<1>1. MaxStep \in Nat /\ e \in Nat /\ n \in 0..MaxStep - 1 /\ n \in 0..e /\ n + 1 \in 1..e
      /\ (n + 1) - 1 = n
  BY TrainingAssumption
<1>2. Runs(g, s, e)  BY ContinuousIs
<1>3. ~s.bf16 => run.copies = -1  BY <1>1, ContinuousKeeps
<1> HIDE DEF g
<1>4. run \in Model /\ g[n + 1] = Updated(s, run, n, e)  BY <1>1, <1>2 DEF Runs
<1>5. m.weights = run.weights /\ m.moments = run.moments /\ m.bias = run.bias  BY DEF Agrees, g
<1>6. m.grad \in Grad /\ run.grad \in Grad  BY <1>4 DEF Model
<1>7. s.gradAccum = 1 \/ s.bf16 => Computes(s, n)  BY <1>1 DEF Replayable
<1>8. Gradient(s, m.grad, n) = Gradient(s, run.grad, n)  BY <1>1, <1>6, <1>7, GradientIsFresh
<1>9. Refreshed(s, m, n) = Refreshed(s, run, n)
  BY <1>3, <1>5, <1>7 DEF Refreshed
<1>10. Moments(s, m, Gradient(s, m.grad, n), e) = Moments(s, run, Gradient(s, run.grad, n), e)
       /\ BiasStep(s, m) = BiasStep(s, run)
  BY <1>5, <1>8 DEF Moments, BiasStep
<1>11. Agrees(Updated(s, m, n, e), Updated(s, run, n, e))
  BY <1>5, <1>8, <1>9, <1>10 DEF Agrees, Updated
<1>12. ~s.bf16 => Updated(s, m, n, e).copies = -1  BY DEF Updated, Refreshed
<1>13. QED  BY <1>4, <1>11, <1>12 DEF g

(* An invocation that resumes without departing starts where the lineage   *)
(* of its files stands.                                                    *)
LEMMA ResumeAgrees ==
    ASSUME IInv, Replayable(setup), NEW w, NEW o, NEW given, NEW steps, Resumes(w, o, given, steps),
           Departing(w, o, given, StartStep(o, given) + steps) \subseteq {"best"}
    PROVE  LET start == StartStep(o, given)
               m == LoadOptim(LoadWeights(Fresh, w), o)
           IN  Agrees(m, Continuous(setup, start + steps)[start]) /\ m.copies = -1
<1> DEFINE start == StartStep(o, given)
           e == start + steps
           m == LoadOptim(LoadWeights(Fresh, w), o)
           run == Continuous(setup, e)[start]
<1>1. TypeOK /\ FilesInv /\ LineageInv /\ setup \in Setups /\ MaxStep \in Nat
  BY TrainingAssumption DEF IInv, TypeOK
<1>2. /\ start \in 0..MaxStep /\ e \in 0..MaxStep /\ start <= e
      /\ w \in Name /\ w[1] \in {"weights", "best"} /\ Loadable(w)
      /\ o # NoFile => o \in Name /\ o[1] \in {"optim", "bestOptim"} /\ Loadable(o)
  BY <1>1, ResumesTyped DEF Resumes
<1>3. /\ start = disk[w].step /\ disk[w].ways \subseteq {"best"}
      /\ setup.fraction => e = disk[w].end
      /\ o = NoFile => ~setup.adamw
      /\ o # NoFile => /\ disk[o].step = start /\ disk[o].ways \subseteq {"best"}
                       /\ setup.fraction => e = disk[o].end
  <2> DEFINE D == Departing(w, o, given, e)
  <2>1. "cold" \notin D /\ "mismatch" \notin D /\ "replanned" \notin D  OBVIOUS
  <2>2. disk[w].ways \subseteq D /\ (o # NoFile => disk[o].ways \subseteq D)  BY DEF Departing
  <2>3. setup.fraction => e = disk[w].end /\ (o # NoFile => e = disk[o].end)
    BY <2>1 DEF Departing
  <2>4. o = NoFile => ~setup.adamw /\ start = disk[w].step  BY <2>1 DEF Departing
  <2>5. o # NoFile => disk[o].step = disk[w].step /\ start = disk[w].step
    BY <2>1 DEF Departing
  <2>6. QED  BY <2>2, <2>3, <2>4, <2>5
<1> HIDE DEF e, start
<1>4. m.weights = disk[w].weights /\ m.copies = -1
      /\ IF o = NoFile THEN m.moments = <<>> /\ m.bias = 0
         ELSE m.moments = disk[o].moments /\ m.bias = disk[o].bias
  BY DEF LoadOptim, LoadWeights, Fresh
<1>5. disk[w].weights = run.weights
  <2>1. FileAgrees(w[1], disk[w], Continuous(setup, disk[w].end)[disk[w].step])
    BY <1>1, <1>2, <1>3 DEF LineageInv
  <2>2. disk[w].end \in 0..MaxStep /\ start <= disk[w].end
    BY <1>1, <1>2, <1>3, Kinded DEF FilesInv
  <2>3. Continuous(setup, disk[w].end)[start] = run
    BY <1>1, <1>2, <1>3, <2>2, SamePlan
  <2>4. QED  BY <1>2, <1>3, <2>1, <2>3 DEF FileAgrees
<1>6. m.moments = run.moments /\ m.bias = run.bias
  <2>1. CASE o = NoFile
    <3>1. start \in 0..e  BY <1>1, <1>2
    <3>2. run.moments = <<>> /\ run.bias = 0  BY <1>1, <1>2, <1>3, <2>1, <3>1, ContinuousKeeps
    <3>3. QED  BY <1>4, <2>1, <3>2
  <2>2. CASE o # NoFile
    <3>1. FileAgrees(o[1], disk[o], Continuous(setup, disk[o].end)[disk[o].step])
      BY <1>1, <1>2, <1>3, <2>2 DEF LineageInv
    <3>2. disk[o].end \in 0..MaxStep /\ start <= disk[o].end
      BY <1>1, <1>2, <1>3, <2>2, Kinded DEF FilesInv
    <3>3. Continuous(setup, disk[o].end)[start] = run
      BY <1>1, <1>2, <1>3, <2>2, <3>2, SamePlan
    <3>4. QED  BY <1>2, <1>3, <1>4, <2>2, <3>1, <3>3 DEF FileAgrees
  <2>3. QED  BY <2>1, <2>2
<1>7. QED  BY <1>4, <1>5, <1>6 DEF Agrees, e, start

(* Memory keeps holding the state of a continuous run to its step, unless  *)
(* its ways name how it departed.                                          *)
LEMMA LineageStep ==
    ASSUME IInv, [Next]_vars
    PROVE  LineageInv'
<1>1. TypeOK /\ LineageInv /\ setup' = setup /\ setup \in Setups /\ MaxStep \in Nat
  BY DiskStep, TrainingAssumption DEF IInv, TypeOK
<1> SUFFICES ASSUME Replayable(setup)
             PROVE  /\ pc' # "idle" /\ ways' \subseteq {"best"} =>
                         /\ Agrees(mem', Continuous(setup, end')[step'])
                         /\ ~setup.bf16 => mem'.copies = -1
                    /\ \A n \in Name : Loadable(n)' /\ disk'[n].ways \subseteq {"best"} =>
                          FileAgrees(n[1], disk'[n], Continuous(setup, disk'[n].end)[disk'[n].step])
  BY <1>1 DEF LineageInv, Agrees, FileAgrees
<1>2. ASSUME pc' # "idle", ways' \subseteq {"best"}
      PROVE  Agrees(mem', Continuous(setup, end')[step']) /\ (~setup.bf16 => mem'.copies = -1)
  <2>1. CASE StartFresh
    <3>1. PICK steps \in 1..MaxStep : Begins(0, steps, Fresh, {})  BY <2>1 DEF StartFresh
    <3>2. mem' = Fresh /\ step' = 0 /\ end' = steps  BY <3>1 DEF Begins
    <3>3. Continuous(setup, steps)[0] = Fresh  BY <1>1, <3>1, ContinuousIs DEF Runs
    <3>4. QED  BY <3>2, <3>3 DEF Agrees, Fresh
  <2>2. CASE Resume
    <3>1. PICK w, o, given, steps : Resumes(w, o, given, steps)  BY <2>2, ResumeIs
    <3> DEFINE start == StartStep(o, given)
               m == LoadOptim(LoadWeights(Fresh, w), o)
    <3>2. /\ mem' = m /\ step' = start /\ end' = start + steps
          /\ ways' = Departing(w, o, given, start + steps)
      BY <3>1 DEF Resumes, Begins
    <3>3. Agrees(m, Continuous(setup, start + steps)[start]) /\ m.copies = -1
      BY <1>2, <3>1, <3>2, ResumeAgrees
    <3>4. QED  BY <3>2, <3>3
  <2>3. CASE Train
    <3>1. /\ pc # "idle" /\ ways = ways' /\ end' = end /\ step' = step + 1
          /\ mem' = Updated(setup, mem, step, end)
      BY <2>3 DEF Train
    <3>2. step \in 0..end - 1 /\ end \in 0..MaxStep /\ mem \in Model
      BY <1>1, <2>3 DEF Train, Unfinished, TypeOK
    <3>3. Agrees(mem, Continuous(setup, end)[step]) /\ (~setup.bf16 => mem.copies = -1)
      BY <1>1, <1>2, <3>1 DEF LineageInv
    <3>4. QED  BY <1>1, <3>1, <3>2, <3>3, StepAgrees
  <2>4. CASE pc # "idle" /\ UNCHANGED <<mem, step, end, ways>>
    BY <1>1, <1>2, <2>4 DEF LineageInv
  <2>5. QED
    BY <1>2, <2>1, <2>2, <2>3, <2>4 DEF Next, vars, process, Rest, Monitor, LoopEnds, OpenFile,
                                        CloseFile, Evaluate, Kill, Exited, Kinds
<1>3. ASSUME NEW n \in Name, Loadable(n)', disk'[n].ways \subseteq {"best"}
      PROVE  FileAgrees(n[1], disk'[n], Continuous(setup, disk'[n].end)[disk'[n].step])
  <2>1. CASE disk'[n] = disk[n]  BY <1>1, <1>3, <2>1 DEF LineageInv, Loadable
  <2>2. CASE OpenFile
    <3>1. disk'[n] = disk[n]  BY <1>1, <1>3, <2>2, Opened DEF Loadable
    <3>2. QED  BY <2>1, <3>1
  <2>3. CASE CloseFile /\ n = FileName(pc, step)
    <3>1. pc \in Kinds /\ pc # "idle"  BY <2>3 DEF CloseFile, Kinds
    <3>2. disk'[n] = Contents(pc) /\ n[1] = pc  BY <1>1, <2>3, Closed
    <3>3. Contents(pc).step = step /\ Contents(pc).end = end /\ Contents(pc).ways = ways
      BY <1>1, <3>1, ContentsTyped
    <3>4. Agrees(mem, Continuous(setup, end)[step])  BY <1>1, <1>3, <3>1, <3>2, <3>3 DEF LineageInv
    <3>5. FileAgrees(pc, Contents(pc), Continuous(setup, end)[step])
      BY <3>4 DEF FileAgrees, Agrees, Contents, WeightFile, OptimFile
    <3>6. QED  BY <3>2, <3>3, <3>5
  <2>4. CASE CloseFile /\ n # FileName(pc, step)
    <3>1. disk'[n] = disk[n]  BY <1>1, <2>4, Closed
    <3>2. QED  BY <2>1, <3>1
  <2>5. QED  BY <2>1, <2>2, <2>3, <2>4, DiskChanges
<1>4. QED  BY <1>2, <1>3
-----------------------------------------------------------------------------
(* Numbered checkpoints.  What has to hold of a step that is trained.      *)
Below == \E n \in 0..step - 1 : Since(n, step - 1)
Due == Every(setup.saveEvery, step)

(* What the phase needs of the last numbered pair follows from the pairs   *)
(* below and the save in progress.                                         *)
LEMMA CoverFromBelow ==
    ASSUME TypeOK', Below',
           pc' \in {"loop", "eval", "best", "bestOptim"} => ~Due' \/ Pair(step)',
           pc' = "optim" => Loadable(<<"weights", step>>)'
    PROVE  CoverInv'
<1>1. PICK s \in Nat : s = step'  BY TrainingAssumption DEF TypeOK
<1>2. ASSUME pc' = "loop"  PROVE \E n \in 0..step' : Since(n, step)'
  <2>1. CASE Pair(step)'
    <3>1. s \in 0..s /\ s + 1..s = {}  OBVIOUS
    <3>2. Since(s, step)'  BY <1>1, <2>1, <3>1 DEF Since
    <3>3. QED  BY <1>1, <3>1, <3>2
  <2>2. CASE ~Due'
    <3>1. PICK n \in 0..s - 1 : Since(n, step - 1)'  BY <1>1 DEF Below
    <3>2. n \in 0..s /\ \A k \in n + 1..s : k \in n + 1..s - 1 \/ k = s  OBVIOUS
    <3>3. /\ (n = 0 \/ Pair(n))' /\ \A k \in n + 1..s - 1 : ~Every(setup.saveEvery, k)'
          /\ ~Every(setup.saveEvery, s)'
      BY <1>1, <2>2, <3>1 DEF Since, Due
    <3>4. \A k \in n + 1..s : ~Every(setup.saveEvery, k)'  BY <3>2, <3>3
    <3>5. Since(n, step)'  BY <1>1, <3>3, <3>4 DEF Since
    <3>6. QED  BY <1>1, <3>2, <3>5
  <2>3. QED  BY <1>2, <2>1, <2>2
<1>3. QED  BY <1>2 DEF CoverInv, Below, Due

(* Writing a file of this step leaves the pairs of earlier steps alone.    *)
LEMMA PairKept ==
    ASSUME TypeOK, setup.template, OpenFile \/ CloseFile, NEW n \in 0..MaxStep, Pair(n),
           n # step \/ pc \notin {"weights", "optim"}
    PROVE  Pair(n)'
<1> DEFINE f == FileName(pc, step)
<1>1. pc \in Kinds /\ setup' = setup  BY DEF OpenFile, CloseFile
<1>2. f # <<"weights", n>> /\ f # <<"optim", n>>  BY <1>1 DEF FileName, Kinds
<1>3. /\ disk'[<<"weights", n>>] = disk[<<"weights", n>>]
      /\ disk'[<<"optim", n>>] = disk[<<"optim", n>>]
  BY <1>2, Names, Opened, Closed
<1>4. QED  BY <1>1, <1>3 DEF Pair, Loadable

(* A save in progress leaves the pairs below it.                           *)
LEMMA BelowKept ==
    ASSUME TypeOK, setup.template, setup' = setup, step' = step, Below,
           OpenFile \/ CloseFile \/ disk' = disk
    PROVE  Below'
<1>1. step \in 0..MaxStep /\ step \in Nat /\ MaxStep \in Nat  BY TrainingAssumption DEF TypeOK
<1>2. PICK n \in 0..step - 1 : Since(n, step - 1)  BY DEF Below
<1>3. n \in 0..MaxStep /\ n # step  BY <1>1
<1>4. Pair(n) => Pair(n)'
  <2>1. CASE OpenFile \/ CloseFile  BY <1>3, <2>1, PairKept
  <2>2. CASE disk' = disk  BY <2>2 DEF Pair, Loadable
  <2>3. QED  BY <2>1, <2>2
<1>5. Since(n, step - 1)'  BY <1>2, <1>4 DEF Since, Every
<1>6. QED  BY <1>5 DEF Below

(* Every step keeps the last numbered pair near.                           *)
LEMMA CoverStep ==
    ASSUME IInv, [Next]_vars
    PROVE  CoverInv'
<1>1. TypeOK /\ TypeOK' /\ FilesInv /\ FilesInv' /\ CoverInv /\ setup' = setup /\ MaxStep \in Nat
      /\ step \in Nat /\ step <= end /\ end \in Nat
  BY DiskStep, TypeStep, FilesStep, TrainingAssumption DEF IInv, TypeOK
<1> SUFFICES ASSUME pc' # "idle", setup.template, ways' \cap {"cold", "best"} = {}
             PROVE  CoverInv'
  BY <1>1 DEF CoverInv
<1>2. ASSUME Below', pc' \in {"loop", "eval", "best", "bestOptim"} => ~Due' \/ Pair(step)',
             pc' = "optim" => Loadable(<<"weights", step>>)'
      PROVE  CoverInv'
  BY <1>1, <1>2, CoverFromBelow
<1>3. CASE StartFresh
  <2>1. PICK steps \in 1..MaxStep : Begins(0, steps, Fresh, {})  BY <1>3 DEF StartFresh
  <2>2. pc' = "loop" /\ step' = 0 /\ end' = steps  BY <2>1 DEF Begins
  <2>3. Since(0, step)' /\ 0 \in 0..step'  BY <2>2 DEF Since
  <2>4. step' < end'  BY <2>2
  <2>5. QED  BY <2>2, <2>3, <2>4 DEF CoverInv
<1>4. CASE Resume
  <2>1. PICK w, o, given, steps : Resumes(w, o, given, steps)  BY <1>4, ResumeIs
  <2> DEFINE start == StartStep(o, given)
  <2>2. /\ pc' = "loop" /\ step' = start /\ end' = start + steps /\ disk' = disk
        /\ ways' = Departing(w, o, given, start + steps)
        /\ start \in 0..MaxStep /\ steps \in 1..MaxStep
    BY <1>1, <2>1, ResumesTyped DEF Resumes, Begins
  <2>3. "cold" \notin ways' /\ "best" \notin ways'  OBVIOUS
  <2>4. PICK k \in 0..MaxStep : w = <<"weights", k>> /\ o \in {NoFile, <<"optim", k>>}
    <3>1. w # <<"best", 0>>  BY <2>2, <2>3 DEF Departing
    <3>2. QED  BY <2>1, <3>1 DEF Resumes, Pairs
  <2>5. Loadable(<<"weights", k>>) /\ disk[<<"weights", k>>].step = k
    BY <1>1, <2>1, <2>4 DEF Resumes, FilesInv
  <2>6. start = k /\ Pair(k)
    <3>1. CASE o = NoFile
      <4>1. ~setup.adamw /\ start = disk[w].step  BY <2>2, <2>3, <3>1 DEF Departing
      <4>2. QED  BY <2>4, <2>5, <4>1 DEF Pair
    <3>2. CASE o # NoFile
      <4>1. Loadable(<<"optim", k>>) /\ disk[<<"optim", k>>].step = k
        BY <1>1, <2>1, <2>4, <3>2 DEF Resumes, FilesInv
      <4>2. start = k  BY <2>1, <2>4, <2>5, <3>2, <4>1 DEF StartStep, Resumes
      <4>3. QED  BY <2>5, <4>1, <4>2 DEF Pair
    <3>3. QED  BY <3>1, <3>2
  <2>7. Pair(k)'  BY <1>1, <2>2, <2>6 DEF Pair, Loadable
  <2>8. Since(k, step)' /\ k \in 0..step' /\ step' < end'
    BY <1>1, <2>2, <2>6, <2>7 DEF Since
  <2>9. QED  BY <2>2, <2>8 DEF CoverInv
<1>5. CASE Train
  <2>1. /\ pc = "loop" /\ step < end /\ step' = step + 1 /\ pc' = AfterTrain(step + 1)
        /\ disk' = disk /\ end' = end /\ ways' = ways
    BY <1>5 DEF Train, Unfinished
  <2>2. PICK n \in 0..step : Since(n, step)  BY <1>1, <2>1 DEF CoverInv
  <2>3. Since(n, step - 1)'  BY <1>1, <2>1, <2>2 DEF Since, Pair, Loadable
  <2>4. Below'  BY <1>1, <2>1, <2>2, <2>3 DEF Below
  <2>5. pc' # "optim" /\ (pc' \in {"loop", "eval", "best", "bestOptim"} => ~Due')
    BY <1>1, <2>1 DEF AfterTrain, BeforeSave, AfterSave, AfterEval, Due
  <2>6. QED  BY <1>2, <2>4, <2>5
<1>6. CASE pc # "idle" /\ ~(pc = "loop" /\ step < end) /\ step' = step /\ ways' = ways
  <2>1. Below  BY <1>1, <1>6 DEF CoverInv, Below
  <2>2. Below'  BY <1>1, <1>6, <2>1, BelowKept, DiskChanges
  <2>3. CASE Monitor \/ LoopEnds
    <3>1. pc' \in {BeforeSave(step, FALSE), BeforeSave(step, TRUE)} /\ (LoopEnds => pc' = BeforeSave(step, TRUE))
      BY <2>3 DEF Monitor, LoopEnds, Exited
    <3>2. pc' # "optim" /\ (pc' \in {"loop", "eval", "best", "bestOptim"} => ~Due')
      BY <1>1, <1>6, <3>1 DEF BeforeSave, AfterSave, AfterEval, Due
    <3>3. QED  BY <1>2, <2>2, <3>2
  <2>4. CASE OpenFile
    <3>1. pc' = pc /\ pc \in Kinds  BY <2>4 DEF OpenFile
    <3>2. ASSUME pc \in {"best", "bestOptim"}  PROVE ~Due' \/ Pair(step)'
      <4>1. ~Due \/ Pair(step)  BY <1>1, <1>6, <3>2 DEF CoverInv, Due
      <4>2. Pair(step) => Pair(step)'
        BY <1>1, <1>6, <2>4, <3>2, PairKept DEF TypeOK
      <4>3. QED  BY <1>1, <1>6, <4>1, <4>2 DEF Due
    <3>3. ASSUME pc = "optim"  PROVE Loadable(<<"weights", step>>)'
      <4>1. Loadable(<<"weights", step>>)  BY <1>1, <1>6, <3>3 DEF CoverInv
      <4>2. <<"weights", step>> # FileName(pc, step) /\ <<"weights", step>> \in Name
        BY <1>1, <3>3, Names DEF FileName, TypeOK
      <4>3. disk'[<<"weights", step>>] = disk[<<"weights", step>>]  BY <1>1, <2>4, <4>2, Opened
      <4>4. QED  BY <1>6, <4>1, <4>3 DEF Loadable
    <3>4. QED  BY <1>2, <2>2, <3>1, <3>2, <3>3 DEF Kinds
  <2>5. CASE CloseFile
    <3>1. pc \in Kinds /\ pc' = AfterFile(pc)  BY <2>5 DEF CloseFile, Exited
    <3>2. disk'[FileName(pc, step)] = Contents(pc) /\ FileName(pc, step) \in Name
      BY <1>1, <2>5, Closed
    <3>3. Contents(pc) \notin {NoFile, Torn} /\ Contents(pc).step = step
      BY <1>1, <3>1, ContentsTyped
    <3>4. ASSUME pc \in {"weights", "optim"}
          PROVE  disk'[<<pc, step>>] \notin {NoFile, Torn} /\ disk'[<<pc, step>>].step = step
      BY <3>2, <3>3, <3>4 DEF FileName
    <3>5. CASE pc = "weights"
      <4>1. Loadable(<<"weights", step>>)'  BY <1>6, <3>4, <3>5 DEF Loadable
      <4>2. ~setup.adamw => Pair(step)'  BY <1>1, <1>6, <3>4, <3>5, <4>1 DEF Pair
      <4>3. pc' \in {"loop", "eval", "best", "bestOptim"} => ~setup.adamw
        BY <3>1, <3>5 DEF AfterFile, WithMoments
      <4>4. QED  BY <1>2, <2>2, <4>1, <4>2, <4>3
    <3>6. CASE pc = "optim"
      <4>1. Loadable(<<"weights", step>>)  BY <1>1, <1>6, <3>6 DEF CoverInv
      <4>2. <<"weights", step>> # FileName(pc, step) /\ <<"weights", step>> \in Name
        BY <1>1, <3>6, Names DEF FileName, TypeOK
      <4>3. disk'[<<"weights", step>>] = disk[<<"weights", step>>]  BY <1>1, <2>5, <4>2, Closed
      <4>4. disk[<<"weights", step>>].step = step  BY <1>1, <4>1, <4>2 DEF FilesInv
      <4>5. Pair(step)'  BY <1>1, <1>6, <3>4, <3>6, <4>1, <4>3, <4>4 DEF Pair, Loadable
      <4>6. pc' # "optim"
        BY <3>1, <3>6, PhaseTyped, <1>1 DEF AfterFile, WithMoments, WeightsAlone, TypeOK
      <4>7. QED  BY <1>2, <2>2, <4>5, <4>6
    <3>7. CASE pc \in {"best", "bestOptim"}
      <4>1. ~Due \/ Pair(step)  BY <1>1, <1>6, <3>7 DEF CoverInv, Due
      <4>2. Pair(step) => Pair(step)'  BY <1>1, <1>6, <2>5, <3>7, PairKept DEF TypeOK
      <4>3. ~Due' \/ Pair(step)'  BY <1>1, <1>6, <4>1, <4>2 DEF Due
      <4>4. pc' # "optim"
        BY <3>1, <3>7, PhaseTyped, <1>1 DEF AfterFile, WithMoments, WeightsAlone, TypeOK
      <4>5. QED  BY <1>2, <2>2, <4>3, <4>4
    <3>8. QED  BY <3>1, <3>5, <3>6, <3>7 DEF Kinds
  <2>6. CASE Evaluate
    <3>1. pc = "eval" /\ pc' \in {"best", "loop"} /\ disk' = disk
      BY <2>6 DEF Evaluate, Exited, AfterEval
    <3>2. ~Due \/ Pair(step)  BY <1>1, <1>6, <3>1 DEF CoverInv, Due
    <3>3. ~Due' \/ Pair(step)'  BY <1>1, <1>6, <3>1, <3>2 DEF Due, Pair, Loadable
    <3>4. QED  BY <1>2, <2>2, <3>1, <3>3
  <2>7. CASE UNCHANGED vars  BY <1>1, <2>7 DEF vars, process, CoverInv, Since, Pair, Loadable
  <2>8. QED
    BY <1>6, <2>3, <2>4, <2>5, <2>6, <2>7 DEF Next, StartFresh, Resume, Rest, Train, Unfinished, Kill, Exited
<1>7. CASE UNCHANGED vars  BY <1>1, <1>7 DEF vars, process, CoverInv, Since, Pair, Loadable
<1>8. QED
  BY <1>3, <1>4, <1>5, <1>6, <1>7 DEF Next, vars, process, Rest, Monitor, LoopEnds, Unfinished, OpenFile,
                                      CloseFile, Evaluate, Kill, Exited, Kinds
-----------------------------------------------------------------------------
(* The best files.                                                         *)
BestFile == Loadable(<<"best", 0>>) /\ best = setup.metric[Len(disk[<<"best", 0>>].weights)]
BestPair ==
    setup.adamw => /\ Loadable(<<"bestOptim", 0>>)
                   /\ disk[<<"bestOptim", 0>>].step = disk[<<"best", 0>>].step

(* Every step keeps the best file the best model measured.                 *)
LEMMA BestStep ==
    ASSUME IInv, [Next]_vars
    PROVE  BestInv'
<1>1. /\ TypeOK /\ BestInv /\ setup' = setup /\ MaxStep \in Nat /\ step \in Nat /\ end \in Nat
      /\ step <= end /\ best \in Int /\ evals \subseteq Nat /\ mem \in Model
  BY DiskStep, TrainingAssumption DEF IInv, TypeOK
<1>2. Len(mem.weights) \in Nat  BY <1>1, LenProperties DEF Model
<1> SUFFICES ASSUME pc' # "idle" PROVE BestInv'  BY DEF BestInv
<1>3. CASE StartFresh
  <2>1. PICK steps \in 1..MaxStep : Begins(0, steps, Fresh, {})  BY <1>3 DEF StartFresh
  <2>2. pc' = "loop" /\ step' = 0 /\ end' = steps /\ mem' = Fresh /\ evals' = {} /\ best' = -1
    BY <2>1 DEF Begins
  <2>3. Len(mem'.weights) = 0  BY <2>2, EmptySeq DEF Fresh
  <2>4. Len(mem'.weights) + (end' - step') <= MaxStep /\ step' < end'  BY <1>1, <2>1, <2>2, <2>3
  <2>5. QED  BY <2>2, <2>4 DEF BestInv
<1>4. CASE Resume
  <2>1. PICK w, o, given, steps : Resumes(w, o, given, steps)  BY <1>4, ResumeIs
  <2> DEFINE start == StartStep(o, given)
  <2>2. /\ pc' = "loop" /\ step' = start /\ end' = start + steps /\ evals' = {} /\ best' = -1
        /\ mem' = LoadOptim(LoadWeights(Fresh, w), o)
        /\ Len(disk[w].weights) + steps <= MaxStep /\ steps \in 1..MaxStep
    BY <2>1 DEF Resumes, Begins
  <2>3. start \in Nat  BY <1>1, <2>1, ResumesTyped
  <2>4. mem'.weights = disk[w].weights  BY <2>2 DEF LoadOptim, LoadWeights, Fresh
  <2>5. (start + steps) - start = steps /\ start < start + steps  BY <1>1, <2>2, <2>3
  <2>6. Len(mem'.weights) + (end' - step') <= MaxStep /\ step' < end'  BY <2>2, <2>4, <2>5
  <2>7. QED  BY <2>2, <2>6 DEF BestInv
<1>5. CASE Train
  <2>1. /\ pc = "loop" /\ step < end /\ step' = step + 1 /\ end' = end /\ disk' = disk
        /\ evals' = evals /\ best' = best /\ mem' = Updated(setup, mem, step, end)
    BY <1>5 DEF Train, Unfinished
  <2>2. pc' \in {"monitor", "weights", "eval", "loop"}  BY <1>5, PhaseTyped DEF Train
  <2>3. Len(mem'.weights) = Len(mem.weights) + 1 /\ mem'.weights # <<>>
    <3>1. step \in 0..MaxStep - 1 /\ end \in 0..MaxStep /\ setup \in Setups
      BY <1>1, <2>1 DEF TypeOK
    <3>2. QED  BY <1>1, <2>1, <3>1, UpdatedTyped
  <2>4. Len(mem'.weights) + (end' - step') <= MaxStep
    <3>1. Len(mem.weights) + (end - step) <= MaxStep  BY <1>1, <2>1 DEF BestInv
    <3>2. Len(mem.weights) + 1 + (end - (step + 1)) <= MaxStep  BY <1>1, <1>2, <3>1
    <3>3. QED  BY <2>1, <2>3, <3>2
  <2>5. QED  BY <1>1, <2>1, <2>2, <2>3, <2>4 DEF BestInv, Loadable
<1>6. CASE /\ pc # "idle" /\ ~(pc = "loop" /\ step < end) /\ mem.weights # <<>>
           /\ UNCHANGED <<mem, step, end>>
  <2>1. Len(mem'.weights) + (end' - step') <= MaxStep /\ mem'.weights # <<>>
    BY <1>1, <1>6 DEF BestInv
  <2>2. CASE Monitor \/ LoopEnds
    <3>1. pc \in {"monitor", "loop"} /\ disk' = disk /\ evals' = evals /\ best' = best
      BY <2>2 DEF Monitor, LoopEnds, Exited, process
    <3>2. pc' \in {"weights", "eval", "loop"}
      BY <2>2, PhaseTyped DEF Monitor, LoopEnds, Exited
    <3>3. QED  BY <1>1, <2>1, <3>1, <3>2 DEF BestInv, Loadable
  <2>3. CASE OpenFile
    <3>1. pc' = pc /\ pc \in Kinds /\ evals' = evals /\ best' = best  BY <2>3 DEF OpenFile, process
    <3>2. pc # "best" => disk'[<<"best", 0>>] = disk[<<"best", 0>>]
      BY <1>1, <2>3, <3>1, Names, Opened
    <3>3. pc # "bestOptim" => disk'[<<"bestOptim", 0>>] = disk[<<"bestOptim", 0>>]
      BY <1>1, <2>3, <3>1, Names, Opened
    <3>4. QED  BY <1>1, <1>6, <2>1, <3>1, <3>2, <3>3 DEF BestInv, Loadable, Metric
  <2>4. CASE CloseFile
    <3>1. pc \in Kinds /\ pc' = AfterFile(pc) /\ evals' = evals /\ best' = best
      BY <2>4 DEF CloseFile, Exited, process
    <3>2. \A n \in Name : disk'[n] = IF n = FileName(pc, step) THEN Contents(pc) ELSE disk[n]
      BY <1>1, <2>4, Closed
    <3>3. Contents(pc) \notin {NoFile, Torn} /\ Contents(pc).step = step
      BY <1>1, <3>1, ContentsTyped
    <3>4. FileName("best", step) = <<"best", 0>> /\ FileName("bestOptim", step) = <<"bestOptim", 0>>
      BY DEF FileName
    <3>5. CASE pc \in {"weights", "optim"}
      <4>1. FileName(pc, step) # <<"best", 0>> /\ FileName(pc, step) # <<"bestOptim", 0>>
        BY <3>5 DEF FileName
      <4>2. /\ disk'[<<"best", 0>>] = disk[<<"best", 0>>]
            /\ disk'[<<"bestOptim", 0>>] = disk[<<"bestOptim", 0>>]
        BY <3>2, <4>1, Names
      <4>3. pc' \in {"optim", "eval", "idle", "loop"}
        BY <1>1, <3>1, <3>5, PhaseTyped DEF AfterFile, WithMoments, WeightsAlone, TypeOK
      <4>4. QED  BY <1>1, <2>1, <3>1, <3>5, <4>2, <4>3 DEF BestInv, Loadable
    <3>6. CASE pc = "best"
      <4>1. disk'[<<"best", 0>>] = Contents("best")  BY <3>2, <3>4, <3>6, Names
      <4>2. best = setup.metric[Len(Contents("best").weights)] /\ best \in evals
            /\ \A v \in evals : v <= best
        BY <1>1, <3>6 DEF BestInv, Metric, Contents, WeightFile
      <4>3. pc' = IF setup.adamw THEN "bestOptim" ELSE AfterEval(final)
        BY <3>1, <3>6 DEF AfterFile, WithMoments, WeightsAlone
      <4>4. AfterEval(final) \in {"idle", "loop"}  BY DEF AfterEval
      <4>5. Loadable(<<"best", 0>>)' /\ disk'[<<"best", 0>>].step = step
        BY <3>3, <3>6, <4>1 DEF Loadable
      <4>6. QED  BY <1>1, <1>6, <2>1, <3>1, <4>1, <4>2, <4>3, <4>4, <4>5 DEF BestInv
    <3>7. CASE pc = "bestOptim"
      <4>1. disk'[<<"bestOptim", 0>>] = Contents("bestOptim")  BY <3>2, <3>4, <3>7, Names
      <4>2. disk'[<<"best", 0>>] = disk[<<"best", 0>>]  BY <3>2, <3>4, <3>7, Names
      <4>3. pc' \in {"idle", "loop"}  BY <3>1, <3>7 DEF AfterFile, WithMoments, WeightsAlone, AfterEval
      <4>4. Loadable(<<"bestOptim", 0>>)' /\ disk'[<<"bestOptim", 0>>].step = step
        BY <3>3, <3>7, <4>1 DEF Loadable
      <4>5. QED  BY <1>1, <1>6, <2>1, <3>1, <3>7, <4>2, <4>3, <4>4 DEF BestInv, Loadable
    <3>8. QED  BY <3>1, <3>5, <3>6, <3>7 DEF Kinds
  <2>5. CASE Evaluate
    <3>1. pc = "eval" /\ disk' = disk  BY <2>5 DEF Evaluate
    <3>2. Metric \in Int  BY <1>1, <3>1, MetricTyped
    <3>3. CASE Improved(Metric)
      <4>1. best' = Metric /\ evals' = evals \cup {Metric} /\ pc' = "best"
        BY <2>5, <3>3 DEF Evaluate
      <4>2. Metric > best  BY <3>3 DEF Improved
      <4>3. \A v \in evals : v <= Metric  BY <1>1, <3>1, <3>2, <4>2 DEF BestInv
      <4>4. Metric' = Metric  BY <1>1, <1>6 DEF Metric
      <4>5. QED  BY <2>1, <3>2, <4>1, <4>3, <4>4 DEF BestInv
    <3>4. CASE ~Improved(Metric)
      <4>1. best' = best /\ evals' = evals \cup ({Metric} \cap Nat) /\ pc' = "loop"
        BY <2>5, <3>4 DEF Evaluate, Exited, AfterEval
      <4>2. Metric \in Nat => Metric <= best /\ evals # {}
        BY <1>1, <3>1, <3>2, <3>4 DEF Improved, BestInv
      <4>3. (evals = {} => best = -1) /\ (evals # {} => best \in evals /\ \A v \in evals : v <= best)
        BY <1>1, <3>1 DEF BestInv
      <4>4. evals' # {} => evals # {}  BY <4>1, <4>2
      <4>5. \A v \in evals' : v <= best  BY <4>1, <4>2, <4>3
      <4>6. evals # {} => BestFile /\ BestPair  BY <1>1, <3>1 DEF BestInv, BestFile, BestPair
      <4>7. evals' # {} => BestFile' /\ BestPair'
        BY <1>1, <3>1, <4>1, <4>4, <4>6 DEF BestFile, BestPair, Loadable
      <4>8. /\ evals' = {} => best' = -1
            /\ evals' # {} => best' \in evals' /\ \A v \in evals' : v <= best'
        BY <4>1, <4>3, <4>4, <4>5
      <4>9. QED  BY <2>1, <4>1, <4>7, <4>8 DEF BestInv, BestFile, BestPair
    <3>5. QED  BY <3>3, <3>4
  <2>6. CASE UNCHANGED vars  BY <1>1, <2>6 DEF vars, process, BestInv, Loadable, Metric
  <2>7. QED
    BY <1>6, <2>2, <2>3, <2>4, <2>5, <2>6 DEF Next, StartFresh, Resume, Rest, Train, Unfinished, Kill, Exited
<1>7. CASE UNCHANGED vars  BY <1>1, <1>7 DEF vars, process, BestInv, Loadable, Metric
<1>8. pc # "idle" /\ ~(pc = "loop" /\ step < end) => mem.weights # <<>>  BY <1>1 DEF BestInv
<1>9. QED
  BY <1>3, <1>4, <1>5, <1>6, <1>7, <1>8 DEF Next, vars, process, Rest, Monitor, LoopEnds, Unfinished,
       OpenFile, CloseFile, Evaluate, Kill, Exited, Kinds
-----------------------------------------------------------------------------
(* Every step keeps the inductive invariant.                               *)
LEMMA Inductive == IInv /\ [Next]_vars => IInv'
BY TypeStep, IdleStep, FilesStep, LineageStep, CoverStep, BestStep DEF IInv

(* The inductive invariant holds in every reachable state.                 *)
LEMMA InvariantHolds == Spec => []IInv
BY InitIInv, Inductive, PTL DEF Spec

(* The variables keep their types.                                         *)
THEOREM TypeCorrect == Spec => []TypeOK
<1>1. IInv => TypeOK  BY DEF IInv
<1>2. QED  BY <1>1, InvariantHolds, PTL

(* A run resumed from a matching pair of files, any number of times and    *)
(* after any kill, has the weights, the moments and the bias-correction    *)
(* counter of one continuous run, whatever the corpus, the number of       *)
(* windows, the draws of their order and the schedule.                     *)
THEOREM ResumeIsExact == Spec => []ResumedIsContinuous
<1>1. IInv => ResumedIsContinuous
  BY DEF IInv, LineageInv, ResumedIsContinuous, Agrees
<1>2. QED  BY <1>1, InvariantHolds, PTL

(* No multiple of save_every lies between the last numbered pair and the   *)
(* step, so they are less than save_every apart.                           *)
LEMMA CoverBounds ==
    ASSUME IInv, setup.saveEvery > 0, NEW upto \in {step - 1, step}, upto \in Int,
           NEW n \in 0..MaxStep, n <= upto, Since(n, upto)
    PROVE  upto - n < setup.saveEvery
<1>1. PICK k \in Nat \ {0} : k = setup.saveEvery  BY TrainingAssumption DEF IInv, TypeOK
<1>2. n \in Nat  BY TrainingAssumption
<1>3. PICK j \in n + 1..n + k : j % k = 0  BY <1>1, <1>2, MultipleWithin
<1>4. ~(j \in n + 1..upto)  BY <1>1, <1>3 DEF Since, Every
<1>5. QED  BY <1>1, <1>2, <1>3, <1>4

(* With numbered checkpoints a kill at any point, also between the two     *)
(* files of a save, costs at most save_every steps.                        *)
THEOREM KillCostsLittle == Spec => []RecentCheckpoint
<1>1. IInv => RecentCheckpoint
  <2> SUFFICES ASSUME IInv, setup.template, setup.saveEvery > 0, ways \cap {"cold", "best"} = {}
               PROVE  \E n \in 0..MaxStep : (n = 0 \/ Pair(n)) /\ step - n <= setup.saveEvery
    BY DEF RecentCheckpoint
  <2>1. /\ step \in 0..MaxStep /\ MaxStep \in Nat /\ step \in Nat /\ setup.saveEvery \in Nat
        /\ CoverInv
    BY TrainingAssumption DEF IInv, TypeOK
  <2>2. CASE pc = "idle"
    <3>1. step = 0  BY <2>2 DEF IInv, IdleInv
    <3>2. QED  BY <2>1, <3>1
  <2>3. CASE pc = "loop" /\ step < end
    <3>1. PICK n \in 0..step : Since(n, step)  BY <2>1, <2>3 DEF CoverInv
    <3>2. n \in 0..MaxStep /\ n <= step  BY <2>1
    <3>3. step - n < setup.saveEvery  BY <2>1, <3>1, <3>2, CoverBounds
    <3>4. step - n <= setup.saveEvery  BY <2>1, <3>2, <3>3
    <3>5. QED  BY <3>1, <3>2, <3>4 DEF Since
  <2>4. CASE pc # "idle" /\ ~(pc = "loop" /\ step < end)
    <3>1. PICK n \in 0..step - 1 : Since(n, step - 1)  BY <2>1, <2>4 DEF CoverInv
    <3>2. n \in 0..MaxStep /\ n <= step - 1 /\ step - 1 \in Int  BY <2>1
    <3>3. (step - 1) - n < setup.saveEvery  BY <2>1, <3>1, <3>2, CoverBounds
    <3>4. step - n <= setup.saveEvery  BY <2>1, <3>2, <3>3
    <3>5. QED  BY <3>1, <3>2, <3>4 DEF Since
  <2>5. QED  BY <2>2, <2>3, <2>4
<1>2. QED  BY <1>1, InvariantHolds, PTL

(* The data steps of different optimizer steps are different.              *)
LEMMA SlotOnce ==
    ASSUME NEW g \in Nat \ {0}, NEW x \in Nat, NEW y \in Nat, NEW c,
           c \in x * g..x * g + g - 1, c \in y * g..y * g + g - 1
    PROVE  x = y
<1>1. x * g \in Nat /\ y * g \in Nat  OBVIOUS
<1>2. CASE x > y
  <2>1. PICK r \in Nat : x = y + 1 + r  BY <1>2
  <2>2. r * g \in Nat /\ x * g = y * g + g + r * g  BY <2>1
  <2>3. QED  BY <1>1, <2>2
<1>3. CASE y > x
  <2>1. PICK r \in Nat : y = x + 1 + r  BY <1>3
  <2>2. r * g \in Nat /\ y * g = x * g + g + r * g  BY <2>1
  <2>3. QED  BY <1>1, <2>2
<1>4. QED  BY <1>2, <1>3

(* In a continuous run the i-th update visits the data steps of step i and *)
(* no others.                                                              *)
LEMMA StepsVisit ==
    ASSUME NEW s \in Setups, Replayable(s), NEW e \in 0..MaxStep, NEW n \in 0..e
    PROVE  LET w == Continuous(s, e)[n].weights
           IN  Len(w) = n /\ \A i \in 1..n : VisitsIn(w[i].grad, s, (i - 1) * s.gradAccum,
                                                      (i - 1) * s.gradAccum + s.gradAccum)
<1> DEFINE run == Continuous(s, e)
           In(g, i) == VisitsIn(g, s, (i - 1) * s.gradAccum, (i - 1) * s.gradAccum + s.gradAccum)
           Good(w, m) == Len(w) = m /\ \A i \in 1..m : In(w[i].grad, i)
           P == {m \in 0..e : Good(run[m].weights, m)}
<1>1. Runs(run, s, e)  BY ContinuousIs
<1>2. e \in Nat /\ MaxStep \in Nat  BY TrainingAssumption
<1> HIDE DEF run, In
<1>3. 0 \in P
  <2>1. run[0] = Fresh  BY <1>1 DEF Runs
  <2>2. Len(run[0].weights) = 0  BY <2>1, EmptySeq DEF Fresh
  <2>3. QED  BY <1>2, <2>2
<1>4. ASSUME NEW m \in 1..e, m - 1 \in P  PROVE m \in P
  <2> DEFINE old == run[m - 1]
             g == Gradient(s, old.grad, m - 1)
  <2>1. old \in Model /\ run[m] = Updated(s, old, m - 1, e)  BY <1>1, <1>2 DEF Runs
  <2>2. Good(old.weights, m - 1)  BY <1>4
  <2>3. old.weights \in Seq(Update) /\ old.grad \in Grad  BY <2>1 DEF Model
  <2>4. PICK u : run[m].weights = Append(old.weights, u) /\ u.grad = g
    BY <2>1 DEF Updated
  <2> HIDE DEF old
  <2>5. m - 1 \in 0..MaxStep - 1 /\ (s.gradAccum = 1 => Computes(s, m - 1))
    BY <1>2 DEF Replayable
  <2>6. In(g, m)  BY <2>3, <2>5, GradientVisits DEF In
  <2> HIDE DEF g
  <2>7. Len(run[m].weights) = m  BY <2>2, <2>3, <2>4
  <2>8. ASSUME NEW i \in 1..m  PROVE In(run[m].weights[i].grad, i)
    <3>1. CASE i = m
      <4>1. run[m].weights[i] = u  BY <2>2, <2>3, <2>4, <3>1
      <4>2. QED  BY <2>4, <2>6, <3>1, <4>1
    <3>2. CASE i # m
      <4>1. i \in 1..m - 1  BY <3>2
      <4>2. run[m].weights[i] = old.weights[i]  BY <2>2, <2>3, <2>4, <4>1
      <4>3. QED  BY <2>2, <4>1, <4>2
    <3>3. QED  BY <3>1, <3>2
  <2>9. QED  BY <2>7, <2>8
<1>5. \A m \in 0..e : m \in P
  <2> HIDE DEF P
  <2> QED  BY <1>2, <1>3, <1>4, InductionUpTo
<1>6. QED  BY <1>5 DEF run, In

(* No window is applied twice within an epoch, whatever the corpus, the    *)
(* accumulation and the draws: the step of a continuous lineage and the    *)
(* coprime multiplier leave no room for it.                                *)
THEOREM WindowsOnce == Spec => []EpochOnce
<1>1. IInv => EpochOnce
  <2> DEFINE s == setup
             K == s.gradAccum
             w == mem.weights
  <2> SUFFICES ASSUME IInv, ways \subseteq {"best"}, Replayable(s),
                      NEW i \in 1..Len(w), NEW j \in 1..Len(w),
                      NEW k \in 1..Len(w[i].grad), NEW l \in 1..Len(w[j].grad),
                      w[i].grad[k][1] \div s.windows = w[j].grad[l][1] \div s.windows,
                      w[i].grad[k][2] = w[j].grad[l][2]
               PROVE  i = j /\ k = l
    BY DEF EpochOnce
  <2>1. s \in Setups /\ MaxStep \in Nat /\ K \in Nat \ {0} /\ mem \in Model
        /\ end \in 0..MaxStep /\ step \in 0..end
    BY TrainingAssumption DEF IInv, TypeOK
  <2>2. pc # "idle"
    <3>1. CASE pc = "idle"
      <4>1. w = <<>>  BY <3>1 DEF IInv, IdleInv, Fresh
      <4>2. Len(w) = 0  BY <4>1, EmptySeq
      <4>3. QED  BY <4>2
    <3>2. QED  BY <3>1
  <2>3. w = Continuous(s, end)[step].weights  BY <2>2 DEF IInv, LineageInv, Agrees
  <2> DEFINE c == w[i].grad[k][1]
             d == w[j].grad[l][1]
  <2>4. Len(w) = step /\ \A x \in 1..step : VisitsIn(w[x].grad, s, (x - 1) * K, (x - 1) * K + K)
    BY <2>1, <2>3, StepsVisit
  <2> HIDE DEF w
  <2> HIDE DEF K, s
  <2>a. i \in 1..step /\ j \in 1..step /\ step \in Nat /\ step <= MaxStep
    BY <2>1, <2>4
  <2>b. VisitsIn(w[i].grad, s, (i - 1) * K, (i - 1) * K + K)  BY <2>4, <2>a
  <2>c. VisitsIn(w[j].grad, s, (j - 1) * K, (j - 1) * K + K)  BY <2>4, <2>a
  <2>5. /\ c \in (i - 1) * K..(i - 1) * K + K - 1 /\ w[i].grad[k] = Visit(s, c)
        /\ d \in (j - 1) * K..(j - 1) * K + K - 1 /\ w[j].grad[l] = Visit(s, d)
    <3> HIDE DEF c, d
    <3>1. c \in (i - 1) * K..(i - 1) * K + K - 1 /\ w[i].grad[k] = Visit(s, c)
      <4>1. PICK g, lo, hi : g = w[i].grad /\ lo = (i - 1) * K /\ hi = (i - 1) * K + K
        OBVIOUS
      <4>2. VisitsIn(g, s, lo, hi) /\ k \in 1..Len(g)  BY <2>b, <4>1
      <4>3. g[k][1] \in lo..hi - 1 /\ g[k] = Visit(s, g[k][1])  BY <4>2, VisitAt
      <4>4. QED  BY <2>1, <2>a, <4>1, <4>3 DEF c
    <3>2. d \in (j - 1) * K..(j - 1) * K + K - 1 /\ w[j].grad[l] = Visit(s, d)
      <4>1. PICK g, lo, hi : g = w[j].grad /\ lo = (j - 1) * K /\ hi = (j - 1) * K + K
        OBVIOUS
      <4>2. VisitsIn(g, s, lo, hi) /\ l \in 1..Len(g)  BY <2>c, <4>1
      <4>3. g[l][1] \in lo..hi - 1 /\ g[l] = Visit(s, g[l][1])  BY <4>2, VisitAt
      <4>4. QED  BY <2>1, <2>a, <4>1, <4>3 DEF d
    <3>3. QED  BY <3>1, <3>2
  <2>6. /\ w[i].grad[k][2] = WindowIndex(c, s.windows, s.mix)
        /\ w[j].grad[l][2] = WindowIndex(d, s.windows, s.mix)
    BY <2>5 DEF Visit
  <2> HIDE DEF c, d
  <2>7. WindowIndex(c, s.windows, s.mix) = WindowIndex(d, s.windows, s.mix)  BY <2>6
  <2>8. ASSUME NEW x \in 1..step, NEW y, y \in (x - 1) * K..(x - 1) * K + K - 1
        PROVE  y \in Nat /\ y < MaxStep * K
    <3>1. PICK g \in Nat \ {0} : g = K  BY <2>1
    <3>2. PICK z \in Nat : z = x - 1  BY <2>a
    <3>3. PICK m \in Nat : m = MaxStep  BY <2>1
    <3>4. z + 1 <= m  BY <2>a, <3>2, <3>3
    <3>5. PICK r \in Nat : m = z + 1 + r  BY <3>4
    <3>6. z * g \in Nat /\ r * g \in Nat /\ m * g = z * g + g + r * g  BY <3>5
    <3>7. y \in z * g..z * g + g - 1  BY <2>8, <3>1, <3>2
    <3>8. y \in Nat /\ y < m * g  BY <3>6, <3>7
    <3>9. QED  BY <3>1, <3>3, <3>8
  <2>9. c \in Nat /\ c < MaxStep * K /\ d \in Nat /\ d < MaxStep * K  BY <2>a, <2>5, <2>8
  <2>10. c = d  BY <2>1, <2>7, <2>9, WindowOnce DEF c, d, K
  <2>11. i = j
    <3>1. PICK g \in Nat \ {0} : g = K  BY <2>1
    <3>2. PICK x \in Nat : x = i - 1  BY <2>a
    <3>3. PICK y \in Nat : y = j - 1  BY <2>a
    <3>4. c \in x * g..x * g + g - 1 /\ c \in y * g..y * g + g - 1
      BY <2>5, <2>10, <3>1, <3>2, <3>3
    <3>5. x = y  BY <3>4, SlotOnce, Zenon
    <3>6. QED  BY <2>a, <3>2, <3>3, <3>5
  <2>12. k = l
    <3>1. VisitsIn(w[i].grad, s, (i - 1) * K, (i - 1) * K + K)  BY <2>b
    <3>2. ~(c < c) /\ c \in Nat  BY <2>9
    <3>3. ~(k < l) /\ ~(l < k)  BY <2>10, <2>11, <3>1, <3>2 DEF VisitsIn, c, d
    <3>4. Len(w[i].grad) \in Nat  BY <3>1, LenProperties DEF VisitsIn, Grad
    <3>5. QED  BY <2>11, <3>3, <3>4
  <2>13. QED  BY <2>11, <2>12
<1>2. QED  BY <1>1, InvariantHolds, PTL

(* The best checkpoint is the model with the best metric this invocation   *)
(* has measured, and its moments are of the same step.                     *)
THEOREM BestIsKept == Spec => []BestIsBest
<1>1. IInv => BestIsBest
  <2> SUFFICES ASSUME IInv, evals # {}, pc \notin {"best", "bestOptim"}
               PROVE  /\ Loadable(<<"best", 0>>)
                      /\ \A v \in evals : v <= setup.metric[Len(disk[<<"best", 0>>].weights)]
                      /\ setup.adamw => /\ Loadable(<<"bestOptim", 0>>)
                                        /\ disk[<<"bestOptim", 0>>].step = disk[<<"best", 0>>].step
    BY DEF BestIsBest
  <2>1. pc # "idle"  BY DEF IInv, IdleInv
  <2>2. QED  BY <2>1 DEF IInv, BestInv
<1>2. QED  BY <1>1, InvariantHolds, PTL

-----------------------------------------------------------------------------
(***************************************************************************)
(* Checkpoint: what is saved, resumed and loaded.  The invariant says that *)
(* the checkpoint holds the first entries of the model it was last saved   *)
(* from, that this is a model some command trained, and that so is the one *)
(* in training; the dimensions of a model's tensors tell its shape, so a   *)
(* file a loader accepts is one of its own model's.                        *)
(***************************************************************************)

(* Options given in one place hide those of another.                       *)
LEMMA Hides ==
    ASSUME NEW f, NEW g
    PROVE  /\ DOMAIN (f ++ g) = DOMAIN f \cup DOMAIN g
           /\ \A x \in DOMAIN f : (f ++ g)[x] = f[x]
           /\ \A x \in DOMAIN g \ DOMAIN f : (f ++ g)[x] = g[x]
           /\ f ++ g = [x \in DOMAIN (f ++ g) |-> (f ++ g)[x]]
BY Zenon DEF ++

(* Functions with the same values are the same.                            *)
LEMMA SameFunction ==
    ASSUME NEW f, NEW g, f = [x \in DOMAIN f |-> f[x]], g = [x \in DOMAIN g |-> g[x]],
           DOMAIN f = DOMAIN g, \A x \in DOMAIN f : f[x] = g[x]
    PROVE  f = g
OBVIOUS

(* What a command is given in the end: the flag, else the override, else   *)
(* the YAML value, else the default.                                       *)
LEMMA LayeredIs ==
    ASSUME NEW cmd, NEW D, \A o \in {cmd.yaml, cmd.override, cmd.flags} : DOMAIN o \subseteq DOMAIN D
    PROVE  /\ DOMAIN Layered(cmd, D) = DOMAIN D
           /\ Layered(cmd, D) = [x \in DOMAIN D |-> Layered(cmd, D)[x]]
           /\ \A f \in DOMAIN D \ (Overridden(cmd) \cup {x \in DOMAIN cmd.yaml : cmd.yaml[x] # D[x]}) :
                Layered(cmd, D)[f] = D[f]
           /\ \A f \in DOMAIN D \ Overridden(cmd) :
                f \in DOMAIN cmd.yaml => Layered(cmd, D)[f] = cmd.yaml[f]
<1> DEFINE A == cmd.flags ++ cmd.override
           C == A ++ cmd.yaml
           E == C ++ D
<1>1. /\ DOMAIN A = DOMAIN cmd.flags \cup DOMAIN cmd.override
  BY Hides, Zenon
<1>2. /\ DOMAIN C = DOMAIN A \cup DOMAIN cmd.yaml
      /\ \A x \in DOMAIN cmd.yaml \ DOMAIN A : C[x] = cmd.yaml[x]
  <2> HIDE DEF A
  <2>1. DOMAIN C = DOMAIN A \cup DOMAIN cmd.yaml  BY Hides, Zenon
  <2>2. \A x \in DOMAIN cmd.yaml \ DOMAIN A : (A ++ cmd.yaml)[x] = cmd.yaml[x]  BY DEF ++
  <2> QED  BY <2>1, <2>2
<1>3. /\ DOMAIN E = DOMAIN C \cup DOMAIN D
      /\ \A x \in DOMAIN C : E[x] = C[x]
      /\ \A x \in DOMAIN D \ DOMAIN C : E[x] = D[x]
      /\ E = [x \in DOMAIN E |-> E[x]]
  <2> HIDE DEF C
  <2> QED  BY Hides, Zenon
<1>4. Layered(cmd, D) = E  BY Zenon DEF Layered
<1>5. DOMAIN E = DOMAIN D  
  <2> HIDE DEF A, C, E
  <2> QED BY <1>1, <1>2, <1>3
<1> HIDE DEF A, C, E
<1>6. DOMAIN A = Overridden(cmd)  BY <1>1 DEF Overridden
<1>7. QED  BY <1>1, <1>2, <1>3, <1>4, <1>5, <1>6

TrainFields ==
    {"embed", "layers", "enc_layers", "glob_layers", "dec_layers", "cross_attn", "d0_mode",
     "block_size", "entropy_patches", "entropy_lm"}
InferFields ==
    {"embed", "enc_layers", "glob_layers", "dec_layers", "method", "block_size", "unmask", "threshold",
     "cross_attn", "fixed_patches", "entropy_lm", "allow_random_entropy_lm"}

(* The options there are.                                                  *)
LEMMA FieldsAre == DOMAIN TrainConfig = TrainFields /\ DOMAIN InferConfig = InferFields
  /\ DOMAIN TrainArgs = TrainFields /\ DOMAIN InferArgs = InferFields
BY DEF TrainConfig, InferConfig, TrainArgs, InferArgs, TrainFields, InferFields

(* The trainer parses from its argv the options its wrapper resolved.      *)
LEMMA ArgvKeepsTraining ==
    ASSUME NEW cfg, DOMAIN cfg = TrainFields, cfg = [x \in TrainFields |-> cfg[x]]
    PROVE  ParseTraining(ToArgv(cfg, TrainConfig)) = cfg
<1> DEFINE given == {f \in DOMAIN cfg : cfg[f] # TrainConfig[f]}
           G == [f \in given |-> cfg[f]]
           V == NoOptions ++ G
           P == V ++ TrainArgs
<1>1. "unmask" \notin DOMAIN cfg  BY DEF TrainFields
<1>2. ToArgv(cfg, TrainConfig) = V  BY <1>1, Zenon DEF ToArgv
<1>3. DOMAIN NoOptions = {}  BY DEF NoOptions
<1>4. DOMAIN G = given /\ \A f \in given : G[f] = cfg[f]  OBVIOUS
<1>5. DOMAIN V = DOMAIN G /\ \A f \in DOMAIN G : V[f] = G[f]
  <2> HIDE DEF G
  <2>1. /\ DOMAIN V = DOMAIN NoOptions \cup DOMAIN G
        /\ \A f \in DOMAIN G \ DOMAIN NoOptions : V[f] = G[f]
    BY DEF ++
  <2> HIDE DEF V
  <2> QED  BY <2>1, <1>3
<1>6. /\ DOMAIN P = DOMAIN V \cup DOMAIN TrainArgs
      /\ \A f \in DOMAIN V : P[f] = V[f]
      /\ \A f \in DOMAIN TrainArgs \ DOMAIN V : P[f] = TrainArgs[f]
      /\ P = [x \in DOMAIN P |-> P[x]]
  <2> HIDE DEF V
  <2> QED  BY Hides, Zenon
<1>7. TrainArgs = TrainConfig  BY DEF TrainArgs, TrainConfig
<1>8. ParseTraining(ToArgv(cfg, TrainConfig)) = P  BY <1>2, Zenon DEF ParseTraining
<1>9. given \subseteq TrainFields /\ \A f \in TrainFields \ given : cfg[f] = TrainConfig[f]
  OBVIOUS
<1> HIDE DEF G, V, P, given
<1>10. DOMAIN P = TrainFields /\ \A f \in TrainFields : P[f] = cfg[f]
  BY <1>4, <1>5, <1>6, <1>7, <1>9, FieldsAre
<1>11. QED  BY <1>6, <1>8, <1>10

(* An inference command's argv says what its completed config says; the    *)
(* threshold has a default of its own.                                     *)
LEMMA ArgvKeepsInference ==
    ASSUME NEW cfg, DOMAIN cfg = InferFields
    PROVE  LET arg == ParseInference(InferArgv(cfg))
           IN  DOMAIN arg = InferFields /\ \A f \in InferFields \ {"threshold"} : arg[f] = cfg[f]
<1> DEFINE differing == {f \in DOMAIN cfg : cfg[f] # InferConfig[f]}
           G == [f \in differing |-> cfg[f]]
           eb == IF "unmask" \in DOMAIN cfg /\ cfg.unmask = "eb" /\ cfg.threshold = NoThreshold
                 THEN [f \in {"threshold"} |-> 10] ELSE NoOptions
           B == IF cfg.method \in BlockMethods THEN [f \in {"block_size"} |-> cfg.block_size] ELSE NoOptions
           T == eb ++ G
           V == T ++ B
           P == V ++ InferArgs
<1>1. ParseInference(InferArgv(cfg)) = P  BY Zenon DEF ParseInference, InferArgv, ToArgv
<1>2. DOMAIN NoOptions = {}  BY DEF NoOptions
<1>3. DOMAIN G = differing /\ \A f \in differing : G[f] = cfg[f]  OBVIOUS
<1>4. DOMAIN eb \subseteq {"threshold"}  BY <1>2
<1>5. DOMAIN B \subseteq {"block_size"} /\ \A f \in DOMAIN B : B[f] = cfg[f]  BY <1>2
<1>6. /\ DOMAIN T = DOMAIN eb \cup DOMAIN G
      /\ \A f \in DOMAIN G \ DOMAIN eb : T[f] = G[f]
  <2> HIDE DEF eb, G
  <2> QED  BY DEF ++
<1>7. /\ DOMAIN V = DOMAIN T \cup DOMAIN B
      /\ \A f \in DOMAIN T : V[f] = T[f]
      /\ \A f \in DOMAIN B \ DOMAIN T : V[f] = B[f]
  <2> HIDE DEF T, B
  <2> QED  BY DEF ++
<1>8. /\ DOMAIN P = DOMAIN V \cup DOMAIN InferArgs
      /\ \A f \in DOMAIN V : P[f] = V[f]
      /\ \A f \in DOMAIN InferArgs \ DOMAIN V : P[f] = InferArgs[f]
  <2> HIDE DEF V
  <2> QED  BY DEF ++
<1>9. \A f \in InferFields \ {"threshold"} : InferArgs[f] = InferConfig[f]
  <2>1. /\ InferArgs.embed = InferConfig.embed /\ InferArgs.enc_layers = InferConfig.enc_layers
        /\ InferArgs.glob_layers = InferConfig.glob_layers
        /\ InferArgs.dec_layers = InferConfig.dec_layers
        /\ InferArgs.method = InferConfig.method /\ InferArgs.block_size = InferConfig.block_size
        /\ InferArgs.unmask = InferConfig.unmask /\ InferArgs.cross_attn = InferConfig.cross_attn
        /\ InferArgs.fixed_patches = InferConfig.fixed_patches
        /\ InferArgs.entropy_lm = InferConfig.entropy_lm
        /\ InferArgs.allow_random_entropy_lm = InferConfig.allow_random_entropy_lm
    BY DEF InferArgs, InferConfig
  <2>2. QED  BY <2>1 DEF InferFields
<1>10. differing \subseteq InferFields /\ \A f \in InferFields \ differing : cfg[f] = InferConfig[f]
  OBVIOUS
<1>11. "threshold" \in InferFields /\ "block_size" \in InferFields  BY DEF InferFields
<1> HIDE DEF G, eb, B, T, V, P, differing
<1>12. DOMAIN P = InferFields  BY <1>3, <1>4, <1>5, <1>6, <1>7, <1>8, <1>10, <1>11, FieldsAre
<1>13. ASSUME NEW f \in InferFields \ {"threshold"}  PROVE P[f] = cfg[f]
  <2>1. CASE f \in differing  BY <1>3, <1>4, <1>6, <1>7, <1>8, <2>1
  <2>2. CASE f \in DOMAIN B \ differing  BY <1>3, <1>4, <1>5, <1>6, <1>7, <1>8, <2>2
  <2>3. CASE f \notin DOMAIN B \cup differing
    BY <1>3, <1>4, <1>6, <1>7, <1>8, <1>9, <1>10, <2>3, FieldsAre
  <2>4. QED  BY <2>1, <2>2, <2>3
<1>14. QED  BY <1>1, <1>12, <1>13

(* The options a trainer runs with, and the width and depth of its model.  *)
LEMMA OptionsAre ==
    ASSUME NEW cmd \in Trainings, NEW cfg, cfg = Layered(cmd, TrainConfig), NEW opt, opt = WithLayers(cfg)
    PROVE  /\ DOMAIN cfg = TrainFields /\ cfg = [x \in TrainFields |-> cfg[x]] /\ cfg # NoOptions
           /\ DOMAIN opt = TrainFields /\ opt = [x \in TrainFields |-> opt[x]]
           /\ \A f \in {"embed", "cross_attn", "block_size", "entropy_patches", "entropy_lm"} : opt[f] = cfg[f]
           /\ opt.entropy_patches \in BOOLEAN
           /\ \A f \in ShapeFields : opt[f] \in Nat \ {0}
<1>1. /\ \A o \in {cmd.yaml, cmd.override, cmd.flags} : DOMAIN o \subseteq DOMAIN TrainConfig
      /\ cfg.entropy_patches \in BOOLEAN
      /\ \A f \in ShapeFields : opt[f] \in Nat \ {0}
  BY CommandsAssumption
<1>2. DOMAIN cfg = TrainFields /\ cfg = [x \in TrainFields |-> cfg[x]]
  BY <1>1, LayeredIs, FieldsAre
<1> DEFINE zero == {g \in {"enc_layers", "glob_layers", "dec_layers"} : cfg[g] = 0}
           Z == [f \in zero |-> cfg.layers]
<1>3. DOMAIN Z = zero  OBVIOUS
<1>4. opt = Z ++ cfg  BY Zenon DEF WithLayers
<1> HIDE DEF Z
<1>5. /\ DOMAIN opt = DOMAIN Z \cup DOMAIN cfg
      /\ \A f \in DOMAIN cfg \ DOMAIN Z : opt[f] = cfg[f]
      /\ opt = [x \in DOMAIN opt |-> opt[x]]
  BY <1>4 DEF ++
<1>6. "embed" \in TrainFields /\ zero \subseteq TrainFields  BY DEF TrainFields
<1>7. DOMAIN opt = TrainFields /\ opt = [x \in TrainFields |-> opt[x]]  BY <1>2, <1>3, <1>5, <1>6
<1>8. \A f \in {"embed", "cross_attn", "block_size", "entropy_patches", "entropy_lm"} : opt[f] = cfg[f]
  BY <1>2, <1>3, <1>5 DEF TrainFields
<1>9. cfg # NoOptions  BY <1>2, <1>6 DEF NoOptions
<1>10. QED  BY <1>1, <1>2, <1>7, <1>8, <1>9

(* The tensors of a model in the order of every walk, and the leaves of a  *)
(* layer with and without cross-attention.                                 *)
W(s) == Walk(s, SELF_NAMES, CROSS_NAMES)
SelfLeaves == SELF_NAMES
LocalLeaves == SELF_NAMES \o CROSS_NAMES
Leaf == {"norm1", "attn_qkv", "attn_proj", "norm2", "ffn_up", "ffn_gate", "ffn_down",
         "cross_norm", "cross_q", "cross_k", "cross_v", "cross_proj",
         "embed", "ngram", "lm_head", "d0_embed"}
TensorName == {"enc", "glob", "dec"} \X Int \X Leaf

(* A sequence followed by another.                                         *)
Joins(w, u, v, m, n, S) ==
    /\ w \in Seq(S) /\ Len(w) = m + n
    /\ \A i \in 1..m : w[i] = u[i]
    /\ \A i \in 1..n : w[m + i] = v[i]

(* A concatenation is one.                                                 *)
LEMMA JoinIs ==
    ASSUME NEW S, NEW u \in Seq(S), NEW v \in Seq(S), NEW m \in Nat, NEW n \in Nat, m = Len(u), n = Len(v)
    PROVE  Joins(u \o v, u, v, m, n, S)
<1> DEFINE w == u \o v
<1>1. /\ w \in Seq(S) /\ Len(w) = m + n
      /\ \A i \in 1..m + n : w[i] = IF i <= m THEN u[i] ELSE v[i - m]
  BY ConcatProperties, Zenon
<1> HIDE DEF w
<1>2. \A i \in 1..m : w[i] = u[i]  BY <1>1
<1>3. ASSUME NEW i \in 1..n  PROVE w[m + i] = v[i]
  <2>1. PICK k \in 1..m + n : k = m + i  OBVIOUS
  <2>2. ~(k <= m) /\ k - m = i  BY <2>1
  <2>3. QED  BY <1>1, <2>1, <2>2
<1>4. Joins(w, u, v, m, n, S)  BY <1>1, <1>2, <1>3 DEF Joins
<1>5. QED  BY <1>4 DEF w

Deep(s) == \A f \in ShapeFields : s[f] \in Nat \ {0}

(* The leaves of a layer, with cross-attention and without.                *)
LEMMA LeavesAre ==
    /\ SelfLeaves \in Seq(Leaf) /\ Len(SelfLeaves) = 7
    /\ LocalLeaves \in Seq(Leaf) /\ Len(LocalLeaves) = 12
    /\ \A j \in 1..7 : LocalLeaves[j] = SelfLeaves[j]
    /\ LocalLeaves[8] = "cross_norm" /\ LocalLeaves[9] = "cross_q"
<1>1. SelfLeaves \in Seq(Leaf) /\ Len(SelfLeaves) = 7  BY DEF SelfLeaves, SELF_NAMES, Leaf
<1>2. CROSS_NAMES \in Seq(Leaf) /\ Len(CROSS_NAMES) = 5
      /\ CROSS_NAMES[1] = "cross_norm" /\ CROSS_NAMES[2] = "cross_q"
  BY DEF CROSS_NAMES, Leaf
<1>3. LocalLeaves = SelfLeaves \o CROSS_NAMES  BY DEF LocalLeaves, SelfLeaves
<1>4. /\ LocalLeaves \in Seq(Leaf) /\ Len(LocalLeaves) = 7 + 5
      /\ \A i \in 1..7 : LocalLeaves[i] = SelfLeaves[i]
      /\ \A i \in 1..5 : LocalLeaves[7 + i] = CROSS_NAMES[i]
  <2>1. 7 \in Nat /\ 5 \in Nat  OBVIOUS
  <2>2. Joins(LocalLeaves, SelfLeaves, CROSS_NAMES, 7, 5, Leaf)  BY <2>1, <1>1, <1>2, <1>3, JoinIs, Zenon
  <2>3. QED  BY <2>2 DEF Joins
<1>5. LocalLeaves[7 + 1] = CROSS_NAMES[1] /\ LocalLeaves[7 + 2] = CROSS_NAMES[2]
  BY <1>4
<1>6. QED  BY <1>1, <1>2, <1>4, <1>5

(* The layers of a part lie one after another, each with its leaves.       *)
Lists(names, g, n, leaves, k) ==
    /\ names \in Seq(TensorName) /\ Len(names) = n * k
    /\ \A l \in 0..n - 1, j \in 1..k :
        l * k + j \in 1..n * k /\ names[l * k + j] = <<g, l, leaves[j]>>

(* The tensors of a part's layers lie that way.                            *)
LEMMA LayersAre ==
    ASSUME NEW g \in {"enc", "glob", "dec"}, NEW n \in Nat, NEW leaves \in Seq(Leaf),
           NEW k \in Nat \ {0}, k = Len(leaves)
    PROVE  Lists(Layers(g, n, leaves), g, n, leaves, k)
<1> DEFINE L == Layers(g, n, leaves)
<1>1. L = [i \in 1..(n * k) |-> <<g, (i - 1) \div k, leaves[((i - 1) % k) + 1]>>]  BY DEF Layers
<1>2. n * k \in Nat  OBVIOUS
<1>3. ASSUME NEW i \in 1..(n * k)
      PROVE  <<g, (i - 1) \div k, leaves[((i - 1) % k) + 1]>> \in TensorName
  <2>1. i - 1 \in Nat  BY <1>2
  <2>2. ((i - 1) % k) \in 0..(k - 1) /\ ((i - 1) \div k) \in Nat  BY <2>1, DivisionIs
  <2>3. PICK r \in 0..(k - 1) : r = ((i - 1) % k)  BY <2>2
  <2>4. leaves[r + 1] \in Leaf  OBVIOUS
  <2>5. QED  BY <2>2, <2>3, <2>4 DEF TensorName
<1>4. L \in Seq(TensorName) /\ Len(L) = n * k
  <2> HIDE DEF L
  <2> QED  BY <1>1, <1>2, <1>3
<1>5. ASSUME NEW l \in 0..n - 1, NEW j \in 1..k
      PROVE  l * k + j \in 1..n * k /\ L[l * k + j] = <<g, l, leaves[j]>>
  <2>1. PICK i \in Nat : i = l * k + j  OBVIOUS
  <2>2. i \in 1..(n * k)
    <3>1. (l + 1) * k <= n * k  OBVIOUS
    <3>2. (l + 1) * k = l * k + k  OBVIOUS
    <3>3. l * k \in Nat  OBVIOUS
    <3>4. QED  BY <2>1, <3>1, <3>2, <3>3, <1>2
  <2>3. i - 1 = k * l + (j - 1) /\ i - 1 \in Nat  BY <2>1, <2>2
  <2>4. PICK p \in Nat : p = i - 1  BY <2>3
  <2>5. PICK r \in 0..(k - 1) : r = j - 1  OBVIOUS
  <2>6. p % k = r /\ (p \div k) = l
    <3>1. p = k * l + r /\ l \in Int  BY <2>3, <2>4, <2>5
    <3>2. QED  BY <3>1, RemainderIs
  <2>7. L[i] = <<g, (i - 1) \div k, leaves[((i - 1) % k) + 1]>>  BY <1>1, <2>2
  <2>8. L[i] = <<g, l, leaves[j]>>  BY <2>4, <2>5, <2>6, <2>7
  <2>9. QED  BY <2>1, <2>2, <2>8
<1>6. QED  BY <1>4, <1>5 DEF Lists

(* The parts of a walk, one after another.                                 *)
Parted(B, S, A0, A2, A3, A4, A5, p, q, r, x, y, z) ==
    /\ B \in Seq(S) /\ Len(B) = z + 2
    /\ B[1] = A0[1] /\ B[z + 1] = A5[1]
    /\ \A i \in 1..p : B[3 + i] = A2[i]
    /\ \A i \in 1..q : B[x + i] = A3[i]
    /\ \A i \in 1..r : B[y + i] = A4[i]

(* Six sequences joined lie that way, whatever the second holds.           *)
LEMMA SixParts ==
    ASSUME NEW S, NEW A0 \in Seq(S), NEW A1 \in Seq(S), NEW A2 \in Seq(S), NEW A3 \in Seq(S),
           NEW A4 \in Seq(S), NEW A5 \in Seq(S), NEW p \in Nat, NEW q \in Nat, NEW r \in Nat,
           Len(A0) = 1, Len(A1) = 2, Len(A2) = p, Len(A3) = q, Len(A4) = r, Len(A5) = 2,
           NEW x \in Nat, NEW y \in Nat, NEW z \in Nat, x = 3 + p, y = x + q, z = y + r
    PROVE  Parted(((((A0 \o A1) \o A2) \o A3) \o A4) \o A5, S, A0, A2, A3, A4, A5, p, q, r, x, y, z)
<1> DEFINE B == ((((A0 \o A1) \o A2) \o A3) \o A4) \o A5
<1> PICK B1, B2, B3, B4 : B1 = A0 \o A1 /\ B2 = B1 \o A2 /\ B3 = B2 \o A3 /\ B4 = B3 \o A4  OBVIOUS
<1>1. 1 \in Nat /\ 2 \in Nat /\ 1 + 2 = 3 /\ 3 \in Nat /\ B = B4 \o A5  OBVIOUS
<1> HIDE DEF B
<1>2. Joins(B1, A0, A1, 1, 2, S)  BY <1>1, JoinIs, Zenon
<1>3. B1 \in Seq(S) /\ Len(B1) = 3 /\ B1[1] = A0[1]  BY <1>2 DEF Joins
<1>4. Joins(B2, B1, A2, 3, p, S)  BY <1>1, <1>3, JoinIs, Zenon
<1>5. B2 \in Seq(S) /\ Len(B2) = x /\ B2[1] = B1[1]  BY <1>4 DEF Joins
<1>6. Joins(B3, B2, A3, x, q, S)  BY <1>5, JoinIs, Zenon
<1>7. B3 \in Seq(S) /\ Len(B3) = y  BY <1>6 DEF Joins
<1>8. Joins(B4, B3, A4, y, r, S)  BY <1>7, JoinIs, Zenon
<1>9. B4 \in Seq(S) /\ Len(B4) = z  BY <1>8 DEF Joins
<1>10. Joins(B, B4, A5, z, 2, S)  BY <1>1, <1>9, JoinIs, Zenon
<1>11. 1 \in 1..x /\ 1 \in 1..y /\ 1 \in 1..z  OBVIOUS
<1>12. B[1] = A0[1] /\ B[z + 1] = A5[1] /\ B \in Seq(S) /\ Len(B) = z + 2
  BY <1>3, <1>5, <1>6, <1>8, <1>10, <1>11 DEF Joins
<1>13. ASSUME NEW i \in 1..p  PROVE B[3 + i] = A2[i]
  <2>1. 3 + i \in 1..x /\ 3 + i \in 1..y /\ 3 + i \in 1..z  OBVIOUS
  <2>2. B2[3 + i] = A2[i] /\ B3[3 + i] = B2[3 + i] /\ B4[3 + i] = B3[3 + i] /\ B[3 + i] = B4[3 + i]
    BY <1>4, <1>6, <1>8, <1>10, <2>1 DEF Joins
  <2>3. QED  BY <2>2
<1>14. ASSUME NEW i \in 1..q  PROVE B[x + i] = A3[i]
  <2>1. x + i \in 1..y /\ x + i \in 1..z  OBVIOUS
  <2>2. B3[x + i] = A3[i] /\ B4[x + i] = B3[x + i] /\ B[x + i] = B4[x + i]
    BY <1>6, <1>8, <1>10, <2>1 DEF Joins
  <2>3. QED  BY <2>2
<1>15. ASSUME NEW i \in 1..r  PROVE B[y + i] = A4[i]
  <2>1. y + i \in 1..z  OBVIOUS
  <2>2. B4[y + i] = A4[i] /\ B[y + i] = B4[y + i]  BY <1>8, <1>10, <2>1 DEF Joins
  <2>3. QED  BY <2>2
<1>16. Parted(B, S, A0, A2, A3, A4, A5, p, q, r, x, y, z)
  BY <1>12, <1>13, <1>14, <1>15, Zenon DEF Parted
<1>17. QED  BY <1>16, Zenon DEF B

(* Where each tensor stands in the walk.                                   *)
Laid(u, a, b, c, x, y, z) ==
    /\ u \in Seq(TensorName)
    /\ Len(u) = z + 2
    /\ u[1] = <<"enc", -1, "embed">>
    /\ \A l \in 0..a - 1, j \in 1..12 : u[3 + (l * 12 + j)] = <<"enc", l, LocalLeaves[j]>>
    /\ \A l \in 0..b - 1, j \in 1..7 : u[x + (l * 7 + j)] = <<"glob", l, SelfLeaves[j]>>
    /\ \A l \in 0..c - 1, j \in 1..12 : u[y + (l * 12 + j)] = <<"dec", l, LocalLeaves[j]>>

(* A model's walk lists the three parts in order, between the embeddings   *)
(* and the heads.                                                          *)
LEMMA WalkIs ==
    ASSUME NEW s, NEW a \in Nat, NEW b \in Nat, NEW c \in Nat,
           a = s.enc_layers, b = s.glob_layers, c = s.dec_layers,
           NEW x \in Nat, NEW y \in Nat, NEW z \in Nat,
           x = 3 + a * 12, y = x + b * 7, z = y + c * 12
    PROVE  Laid(W(s), a, b, c, x, y, z)
<1> PICK p \in Nat : p = a * 12  OBVIOUS
<1> PICK q \in Nat : q = b * 7  OBVIOUS
<1> PICK r \in Nat : r = c * 12  OBVIOUS
<1> DEFINE A0 == <<<<"enc", -1, "embed">>>>
           A1 == [k \in 1..NumTables |-> <<"enc", k - 1, "ngram">>]
           A2 == Layers("enc", a, LocalLeaves)
           A3 == Layers("glob", b, SelfLeaves)
           A4 == Layers("dec", c, LocalLeaves)
           A5 == <<<<"dec", -1, "lm_head">>, <<"dec", -1, "d0_embed">>>>
<1>1. W(s) = ((((A0 \o A1) \o A2) \o A3) \o A4) \o A5  BY DEF W, Walk, SelfLeaves, LocalLeaves
<1>2. /\ A0 \in Seq(TensorName) /\ Len(A0) = 1 /\ A0[1] = <<"enc", -1, "embed">>
      /\ A1 \in Seq(TensorName) /\ Len(A1) = 2
      /\ A5 \in Seq(TensorName) /\ Len(A5) = 2 /\ A5[1] = <<"dec", -1, "lm_head">>
  BY DEF TensorName, Leaf, NumTables
<1>3. Lists(A2, "enc", a, LocalLeaves, 12)
  <2>1. 12 \in Nat \ {0} /\ 12 = Len(LocalLeaves) /\ "enc" \in {"enc", "glob", "dec"}  BY LeavesAre
  <2>2. QED  BY <2>1, LeavesAre, LayersAre, Zenon
<1>4. Lists(A3, "glob", b, SelfLeaves, 7)
  <2>1. 7 \in Nat \ {0} /\ 7 = Len(SelfLeaves) /\ "glob" \in {"enc", "glob", "dec"}  BY LeavesAre
  <2>2. QED  BY <2>1, LeavesAre, LayersAre, Zenon
<1>5. Lists(A4, "dec", c, LocalLeaves, 12)
  <2>1. 12 \in Nat \ {0} /\ 12 = Len(LocalLeaves) /\ "dec" \in {"enc", "glob", "dec"}  BY LeavesAre
  <2>2. QED  BY <2>1, LeavesAre, LayersAre, Zenon
<1> HIDE DEF A0, A1, A2, A3, A4, A5
<1>6. A2 \in Seq(TensorName) /\ Len(A2) = p /\ A3 \in Seq(TensorName) /\ Len(A3) = q
      /\ A4 \in Seq(TensorName) /\ Len(A4) = r
  BY <1>3, <1>4, <1>5 DEF Lists
<1>7. /\ W(s) \in Seq(TensorName) /\ Len(W(s)) = z + 2
      /\ W(s)[1] = A0[1]
      /\ \A i \in 1..p : W(s)[3 + i] = A2[i]
      /\ \A i \in 1..q : W(s)[x + i] = A3[i]
      /\ \A i \in 1..r : W(s)[y + i] = A4[i]
  <2>1. x = 3 + p /\ y = x + q /\ z = y + r  OBVIOUS
  <2>2. Parted(((((A0 \o A1) \o A2) \o A3) \o A4) \o A5, TensorName, A0, A2, A3, A4, A5, p, q, r, x, y, z)
    BY <1>2, <1>6, <2>1, SixParts
  <2>3. Parted(W(s), TensorName, A0, A2, A3, A4, A5, p, q, r, x, y, z)  BY <1>1, <2>2, Zenon
  <2>4. QED  BY <2>3, Zenon DEF Parted
<1>8. ASSUME NEW l \in 0..a - 1, NEW j \in 1..12
      PROVE  W(s)[3 + (l * 12 + j)] = <<"enc", l, LocalLeaves[j]>>
  <2>1. l * 12 + j \in 1..p /\ A2[l * 12 + j] = <<"enc", l, LocalLeaves[j]>>  BY <1>3, Zenon DEF Lists
  <2>2. QED  BY <1>7, <2>1, Zenon
<1>9. ASSUME NEW l \in 0..b - 1, NEW j \in 1..7
      PROVE  W(s)[x + (l * 7 + j)] = <<"glob", l, SelfLeaves[j]>>
  <2>1. l * 7 + j \in 1..q /\ A3[l * 7 + j] = <<"glob", l, SelfLeaves[j]>>  BY <1>4, Zenon DEF Lists
  <2>2. QED  BY <1>7, <2>1, Zenon
<1>10. ASSUME NEW l \in 0..c - 1, NEW j \in 1..12
       PROVE  W(s)[y + (l * 12 + j)] = <<"dec", l, LocalLeaves[j]>>
  <2>1. l * 12 + j \in 1..r /\ A4[l * 12 + j] = <<"dec", l, LocalLeaves[j]>>  BY <1>5, Zenon DEF Lists
  <2>2. QED  BY <1>7, <2>1, Zenon
<1>11. QED  BY <1>2, <1>7, <1>8, <1>9, <1>10, Zenon DEF Laid

(* The layer counts of a model, and where its parts begin.                 *)
LEMMA DeepIs ==
    ASSUME NEW s, Deep(s)
    PROVE  \E a \in Nat \ {0}, b \in Nat \ {0}, c \in Nat \ {0}, x \in Nat, y \in Nat, z \in Nat :
              /\ a = s.enc_layers /\ b = s.glob_layers /\ c = s.dec_layers
              /\ x = 3 + a * 12 /\ y = x + b * 7 /\ z = y + c * 12
              /\ Laid(W(s), a, b, c, x, y, z)
<1>1. /\ s["enc_layers"] \in Nat \ {0} /\ s["glob_layers"] \in Nat \ {0} /\ s["dec_layers"] \in Nat \ {0}
  BY DEF Deep, ShapeFields
<1>2. PICK a \in Nat \ {0}, b \in Nat \ {0}, c \in Nat \ {0} :
        a = s.enc_layers /\ b = s.glob_layers /\ c = s.dec_layers
  BY <1>1
<1>3. PICK x \in Nat, y \in Nat, z \in Nat : x = 3 + a * 12 /\ y = x + b * 7 /\ z = y + c * 12
  <2>1. PICK x \in Nat : x = 3 + a * 12  OBVIOUS
  <2>2. PICK y \in Nat : y = x + b * 7  OBVIOUS
  <2>3. PICK z \in Nat : z = y + c * 12  OBVIOUS
  <2>4. QED  BY <2>1, <2>2, <2>3, Zenon
<1>4. a \in Nat /\ b \in Nat /\ c \in Nat  OBVIOUS
<1>5. Laid(W(s), a, b, c, x, y, z)  BY <1>2, <1>3, <1>4, WalkIs, Zenon
<1>6. QED  BY <1>2, <1>3, <1>5, Zenon

(* Every walk over a model's tensors lists the same tensors in one order,  *)
(* which the layer counts alone determine.                                 *)
LEMMA WalksAgree ==
    ASSUME NEW s
    PROVE  /\ Parameters(s) = Range(W(s))
           /\ MomentPairs(s) = W(s)
           /\ TensorAt(s) = [i \in DOMAIN W(s) |-> [name |-> W(s)[i], tensor |-> W(s)[i]]]
           /\ ParamPairs(s) =
                [i \in DOMAIN W(s) |-> [w |-> W(s)[i], g |-> W(s)[i], decay |-> W(s)[i][3] \notin Norms]]
<1>1. /\ Walk(s, SELF_TENSORS, CROSS_TENSORS) = W(s)
      /\ Walk(s, self_tensor, cross_tensor) = W(s) /\ Walk(s, self_grad, cross_grad) = W(s)
  BY Zenon DEF W, SELF_NAMES, CROSS_NAMES, SELF_TENSORS, CROSS_TENSORS, self_tensor, cross_tensor,
           self_grad, cross_grad
<1>2. MomentPairs(s) = W(s)  BY Zenon DEF MomentPairs, W, SELF_NAMES, CROSS_NAMES
<1>3. Parameters(s) = Range(W(s))  BY <1>1, Zenon DEF Parameters
<1>4. TensorAt(s) = [i \in DOMAIN W(s) |-> [name |-> W(s)[i], tensor |-> W(s)[i]]]
  BY <1>1, Zenon DEF TensorAt, W
<1>5. ParamPairs(s) =
        [i \in DOMAIN W(s) |-> [w |-> W(s)[i], g |-> W(s)[i], decay |-> W(s)[i][3] \notin Norms]]
  BY <1>1, Zenon DEF ParamPairs
<1>6. QED  BY <1>2, <1>3, <1>4, <1>5

(* The walk depends on the shape alone.                                    *)
LEMMA WalkOfShape ==
    ASSUME NEW s
    PROVE  /\ W(Shape(s)) = W(s) /\ Parameters(Shape(s)) = Parameters(s)
           /\ \A f \in ShapeFields : Shape(s)[f] = s[f]
           /\ NumTensors(Shape(s)) = NumTensors(s)
<1>1. \A f \in ShapeFields : Shape(s)[f] = s[f]  BY DEF Shape
<1>2. /\ Shape(s).enc_layers = s.enc_layers /\ Shape(s).glob_layers = s.glob_layers
      /\ Shape(s).dec_layers = s.dec_layers
  BY <1>1 DEF ShapeFields
<1>3. W(Shape(s)) = W(s)  BY <1>2, Zenon DEF W, Walk
<1>4. NumTensors(Shape(s)) = NumTensors(s)  BY <1>2, Zenon DEF NumTensors
<1>5. QED  BY <1>1, <1>3, <1>4, WalksAgree

(* A walk is a sequence of tensors as long as the count of tensors says.   *)
LEMMA WalkIsSequence ==
    ASSUME NEW s, Deep(s)
    PROVE  /\ W(s) \in Seq(TensorName) /\ Len(W(s)) \in Nat \ {0} /\ Len(W(s)) = NumTensors(s)
           /\ DOMAIN W(s) = 1..Len(W(s)) /\ W(s)[1] = <<"enc", -1, "embed">>
           /\ \A n \in Parameters(s) : n \in TensorName /\ \E i \in 1..Len(W(s)) : W(s)[i] = n
           /\ \A i \in 1..Len(W(s)) : W(s)[i] \in Parameters(s)
<1>1. PICK a \in Nat \ {0}, b \in Nat \ {0}, c \in Nat \ {0}, x \in Nat, y \in Nat, z \in Nat :
        /\ a = s.enc_layers /\ b = s.glob_layers /\ c = s.dec_layers
        /\ x = 3 + a * 12 /\ y = x + b * 7 /\ z = y + c * 12
        /\ Laid(W(s), a, b, c, x, y, z)
  BY DeepIs, Zenon
<1>2. W(s) \in Seq(TensorName) /\ Len(W(s)) = z + 2 /\ W(s)[1] = <<"enc", -1, "embed">>
  BY <1>1, Zenon DEF Laid
<1>3. z + 2 = 1 + 2 + (a + c) * 12 + b * 7 + 2
  <2>1. x = 3 + a * 12 /\ y = x + b * 7 /\ z = y + c * 12  BY <1>1
  <2>2. QED  BY <2>1
<1>4. NumTensors(s) = z + 2  BY <1>1, <1>3, Zenon DEF NumTensors, NumTables
<1>5. DOMAIN W(s) = 1..Len(W(s)) /\ Len(W(s)) \in Nat \ {0} /\ Len(W(s)) = NumTensors(s)
  <2>1. z + 2 \in Nat \ {0}  OBVIOUS
  <2>2. DOMAIN W(s) = 1..Len(W(s))  BY <1>2
  <2>3. QED  BY <1>2, <1>4, <2>1, <2>2, Zenon
<1>6. Parameters(s) = Range(W(s))  BY WalksAgree
<1>7. ASSUME NEW n \in Parameters(s)  PROVE n \in TensorName /\ \E i \in 1..Len(W(s)) : W(s)[i] = n
  <2>1. PICK i \in 1..Len(W(s)) : W(s)[i] = n  BY <1>5, <1>6 DEF Range
  <2>2. QED  BY <2>1, <1>2
<1>8. \A i \in 1..Len(W(s)) : W(s)[i] \in Parameters(s)  BY <1>5, <1>6, Zenon DEF Range
<1>9. QED  BY <1>2, <1>5, <1>7, <1>8, Zenon

(* The dimensions of the tensors that tell two models apart.               *)
LEMMA DimsAre ==
    ASSUME NEW n, NEW e
    PROVE  /\ n[3] = "embed" => Dims(n, e) = <<256, e>>
           /\ n[3] = "attn_qkv" => Dims(n, e) = <<e, 3 * e>>
           /\ n[3] = "cross_q" => Dims(n, e) = <<e, e>>
BY DEF Dims

(* One part a layer longer would put a cross_q where the other model has   *)
(* an attn_qkv of the part that follows, and their dimensions differ.      *)
LEMMA NotOneLayerMore ==
    ASSUME NEW s, Deep(s), NEW t, Deep(t), NEW e \in Nat \ {0}, s.embed = e, t.embed = e,
           \A i \in 1..Len(W(s)) : Dims(W(s)[i], e) = Dims(W(t)[i], e), Len(W(s)) = Len(W(t))
    PROVE  /\ ~(s.enc_layers < t.enc_layers)
           /\ s.enc_layers = t.enc_layers => ~(s.glob_layers < t.glob_layers)
<1>1. PICK a \in Nat \ {0}, b \in Nat \ {0}, c \in Nat \ {0}, x \in Nat, y \in Nat, z \in Nat :
        /\ a = s.enc_layers /\ b = s.glob_layers /\ c = s.dec_layers
        /\ x = 3 + a * 12 /\ y = x + b * 7 /\ z = y + c * 12
        /\ Laid(W(s), a, b, c, x, y, z)
  BY DeepIs, Zenon
<1>2. PICK aa \in Nat \ {0}, bb \in Nat \ {0}, cc \in Nat \ {0}, xx \in Nat, yy \in Nat, zz \in Nat :
        /\ aa = t.enc_layers /\ bb = t.glob_layers /\ cc = t.dec_layers
        /\ xx = 3 + aa * 12 /\ yy = xx + bb * 7 /\ zz = yy + cc * 12
        /\ Laid(W(t), aa, bb, cc, xx, yy, zz)
  BY DeepIs, Zenon
<1>3. SelfLeaves[2] = "attn_qkv" /\ LocalLeaves[2] = "attn_qkv" /\ LocalLeaves[9] = "cross_q"
  <2>1. SelfLeaves[2] = "attn_qkv"  BY DEF SelfLeaves, SELF_NAMES
  <2>2. 2 \in 1..7  OBVIOUS
  <2>3. QED  BY <2>1, <2>2, LeavesAre
<1>4. Len(W(s)) = z + 2 /\ x \in Nat /\ y \in Nat /\ z \in Nat  BY <1>1, Zenon DEF Laid
<1>5. ASSUME NEW g, NEW l, NEW g2, NEW l2, NEW i \in 1..z + 2
      PROVE  /\ ~(W(s)[i] = <<g, l, "attn_qkv">> /\ W(t)[i] = <<g2, l2, "cross_q">>)
             /\ ~(W(s)[i] = <<g, l, "cross_q">> /\ W(t)[i] = <<g2, l2, "attn_qkv">>)
  <2>1. Dims(W(s)[i], e) = Dims(W(t)[i], e)  BY <1>4
  <2>2. <<e, 3 * e>> # <<e, e>>  OBVIOUS
  <2>4. ASSUME W(s)[i] = <<g, l, "attn_qkv">>, W(t)[i] = <<g2, l2, "cross_q">>  PROVE FALSE
    <3>1. W(s)[i][3] = "attn_qkv" /\ W(t)[i][3] = "cross_q"  BY <2>4
    <3>2. Dims(W(s)[i], e) = <<e, 3 * e>>  BY <3>1, DimsAre
    <3>3. Dims(W(t)[i], e) = <<e, e>>  BY <3>1, DimsAre
    <3>4. QED  BY <2>1, <2>2, <3>2, <3>3
  <2>5. ASSUME W(s)[i] = <<g, l, "cross_q">>, W(t)[i] = <<g2, l2, "attn_qkv">>  PROVE FALSE
    <3>1. W(s)[i][3] = "cross_q" /\ W(t)[i][3] = "attn_qkv"  BY <2>5
    <3>2. Dims(W(t)[i], e) = <<e, 3 * e>>  BY <3>1, DimsAre
    <3>3. Dims(W(s)[i], e) = <<e, e>>  BY <3>1, DimsAre
    <3>4. QED  BY <2>1, <2>2, <3>2, <3>3
  <2>6. QED  BY <2>4, <2>5, Zenon
<1>6. x = 3 + a * 12 /\ y = x + b * 7 /\ z = y + c * 12  BY <1>1, Zenon
<1>7. xx = 3 + aa * 12 /\ yy = xx + bb * 7 /\ zz = yy + cc * 12  BY <1>2, Zenon
<1>8. x + 9 \in 1..z + 2 /\ y + 9 \in 1..z + 2  BY <1>6
<1>9. 9 \in 1..12 /\ 2 \in 1..7 /\ 2 \in 1..12 /\ 0 \in 0..c - 1 /\ 0 \in 0..cc - 1  OBVIOUS
<1>10. ASSUME a < aa  PROVE FALSE
  <2>1. a \in 0..aa - 1 /\ 3 + (a * 12 + 9) = x + 9  BY <1>10, <1>6
  <2>2. W(t)[x + 9] = <<"enc", a, "cross_q">>
    <3>1. W(t)[3 + (a * 12 + 9)] = <<"enc", a, LocalLeaves[9]>>  BY <2>1, <1>2, <1>9, Zenon DEF Laid
    <3>2. QED  BY <3>1, <2>1, <1>3, Zenon
  <2>3. \E g, l : W(s)[x + 9] = <<g, l, "attn_qkv">>
    <3>1. CASE b = 1
      <4>1. y + (0 * 12 + 2) = x + 9  BY <3>1, <1>6
      <4>2. W(s)[y + (0 * 12 + 2)] = <<"dec", 0, LocalLeaves[2]>>  BY <1>1, <1>9, Zenon DEF Laid
      <4>3. QED  BY <4>1, <4>2, <1>3, Zenon
    <3>2. CASE b # 1
      <4>1. 1 \in 0..b - 1 /\ x + (1 * 7 + 2) = x + 9  BY <3>2
      <4>2. W(s)[x + (1 * 7 + 2)] = <<"glob", 1, SelfLeaves[2]>>  BY <4>1, <1>1, <1>9, Zenon DEF Laid
      <4>3. QED  BY <4>1, <4>2, <1>3, Zenon
    <3>3. QED  BY <3>1, <3>2
  <2>4. QED  BY <1>5, <1>8, <2>2, <2>3, Zenon
<1>11. ASSUME a = aa, b < bb  PROVE FALSE
  <2>1. x = xx /\ y + (0 * 12 + 9) = y + 9  BY <1>11, <1>6, <1>7
  <2>2. W(s)[y + 9] = <<"dec", 0, "cross_q">>
    <3>1. W(s)[y + (0 * 12 + 9)] = <<"dec", 0, LocalLeaves[9]>>  BY <1>1, <1>9, Zenon DEF Laid
    <3>2. QED  BY <3>1, <2>1, <1>3, Zenon
  <2>3. \E g, l : W(t)[y + 9] = <<g, l, "attn_qkv">>
    <3>1. CASE bb = b + 1
      <4>1. yy + (0 * 12 + 2) = y + 9
        <5>1. bb * 7 = b * 7 + 7  BY <3>1
        <5>2. yy = xx + bb * 7 /\ y = x + b * 7  BY <1>6, <1>7, Zenon
        <5>3. PICK p \in Nat : p = b * 7  OBVIOUS
        <5>4. yy = y + 7  BY <2>1, <5>1, <5>2, <5>3
        <5>5. QED  BY <5>4
      <4>2. W(t)[yy + (0 * 12 + 2)] = <<"dec", 0, LocalLeaves[2]>>  BY <1>2, <1>9, Zenon DEF Laid
      <4>3. QED  BY <4>1, <4>2, <1>3, Zenon
    <3>2. CASE bb # b + 1
      <4>1. b + 1 \in 0..bb - 1 /\ xx + ((b + 1) * 7 + 2) = y + 9  BY <3>2, <1>11, <2>1, <1>6
      <4>2. W(t)[xx + ((b + 1) * 7 + 2)] = <<"glob", b + 1, SelfLeaves[2]>>
        BY <4>1, <1>2, <1>9, Zenon DEF Laid
      <4>3. QED  BY <4>1, <4>2, <1>3, Zenon
    <3>3. QED  BY <3>1, <3>2
  <2>4. QED  BY <1>5, <1>8, <2>2, <2>3, Zenon
<1>12. QED  BY <1>1, <1>2, <1>10, <1>11, Zenon

(* The dimensions of a model's tensors tell its width and its depths.      *)
LEMMA DimsTellTheShape ==
    ASSUME NEW s, Deep(s), NEW t, Deep(t), Len(W(s)) = Len(W(t)),
           \A i \in 1..Len(W(s)) : Dims(W(s)[i], s.embed) = Dims(W(t)[i], t.embed)
    PROVE  (\A f \in ShapeFields : s[f] = t[f]) /\ W(s) = W(t)
<1>1. PICK e \in Nat \ {0}, d \in Nat \ {0} : e = s.embed /\ d = t.embed
  <2>1. s["embed"] \in Nat \ {0} /\ t["embed"] \in Nat \ {0}  BY DEF Deep, ShapeFields
  <2>2. QED  BY <2>1
<1>2. e = d
  <2>1. /\ 1 \in 1..Len(W(s)) /\ W(s)[1] = <<"enc", -1, "embed">> /\ W(t)[1] = <<"enc", -1, "embed">>
    BY WalkIsSequence
  <2>2. Dims(W(s)[1], e) = Dims(W(t)[1], d) /\ W(s)[1][3] = "embed" /\ W(t)[1][3] = "embed"
    <3>1. Dims(W(s)[1], s.embed) = Dims(W(t)[1], t.embed)  BY <2>1, Zenon
    <3>2. W(s)[1][3] = "embed" /\ W(t)[1][3] = "embed"  BY <2>1
    <3>3. QED  BY <1>1, <3>1, <3>2, Zenon
  <2>3. Dims(W(s)[1], e) = <<256, e>>  BY <2>2, DimsAre
  <2>4. Dims(W(t)[1], d) = <<256, d>>  BY <2>2, DimsAre
  <2>5. <<256, e>> = <<256, d>>  BY <2>2, <2>3, <2>4
  <2>6. QED  BY <2>5
<1>3. /\ \A i \in 1..Len(W(s)) : Dims(W(s)[i], e) = Dims(W(t)[i], e)
      /\ \A i \in 1..Len(W(t)) : Dims(W(t)[i], e) = Dims(W(s)[i], e)
  BY <1>1, <1>2
<1>4. /\ ~(s.enc_layers < t.enc_layers)
      /\ s.enc_layers = t.enc_layers => ~(s.glob_layers < t.glob_layers)
  BY <1>1, <1>2, <1>3, NotOneLayerMore
<1>5. /\ ~(t.enc_layers < s.enc_layers)
      /\ t.enc_layers = s.enc_layers => ~(t.glob_layers < s.glob_layers)
  BY <1>1, <1>2, <1>3, NotOneLayerMore
<1>6. PICK a \in Nat, b \in Nat, c \in Nat, aa \in Nat, bb \in Nat, cc \in Nat :
        /\ a = s.enc_layers /\ b = s.glob_layers /\ c = s.dec_layers
        /\ aa = t.enc_layers /\ bb = t.glob_layers /\ cc = t.dec_layers
  BY DEF Deep, ShapeFields
<1>7. a = aa /\ b = bb
  <2>1. ~(a < aa) /\ ~(aa < a)  BY <1>4, <1>5, <1>6, Zenon
  <2>2. a = aa  BY <2>1
  <2>3. ~(b < bb) /\ ~(bb < b)  BY <1>4, <1>5, <1>6, <2>2, Zenon
  <2>4. QED  BY <2>2, <2>3
<1>8. c = cc
  <2>1. 1 + 2 + (a + c) * 12 + b * 7 + 2 = 1 + 2 + (aa + cc) * 12 + bb * 7 + 2
    BY WalkIsSequence, <1>6, Zenon DEF NumTensors, NumTables
  <2>2. QED  BY <2>1, <1>7
<1>9. \A f \in ShapeFields : s[f] = t[f]  BY <1>1, <1>2, <1>6, <1>7, <1>8 DEF ShapeFields
<1>10. W(s) = W(t)  BY <1>6, <1>7, <1>8, Zenon DEF W, Walk
<1>11. QED  BY <1>9, <1>10

(* A parameter of a model: its own gradients have moved it, no later run   *)
(* than that one has, and it lies the way its program keeps it.            *)
IsValue(v, n, turned, upto) ==
    /\ v = [from |-> {n}, run |-> v.run, decayed |-> v.decayed, turned |-> turned]
    /\ v.run \in 0..upto
ParamsAre(params, opt, torch, upto) ==
    /\ DOMAIN params = Parameters(opt)
    /\ \A n \in Parameters(opt) : IsValue(params[n], n, torch /\ n[3] \in Linear, upto)

(* The moments of a model belong to its tensors in order.                  *)
MomentsAre(moments, opt) ==
    /\ DOMAIN moments = 1..Len(W(opt))
    /\ \A i \in 1..Len(W(opt)) : moments[i] \subseteq {W(opt)[i]}

(* What was saved is a model that some command trained.                    *)
IsSaved(m, upto) ==
    \E cmd \in Trainings :
        /\ m = [params |-> m.params, opt |-> m.opt, config |-> m.config]
        /\ m.config = Layered(cmd, TrainConfig) /\ m.opt = WithLayers(m.config)
        /\ ParamsAre(m.params, m.opt, cmd.backend = "torch", upto)

(* A checkpoint holds the first entries of what was saved, as the C        *)
(* programs keep them.                                                     *)
Lying(v, turned) == [v EXCEPT !.turned = turned]
EntryIn(params, opt, n) == Entry(n, Dims(n, opt.embed), Lying(params[n], FALSE))
Has(e, params, opt, n) ==
    e.name = n /\ e.dims = Dims(n, opt.embed) /\ e.value = Lying(params[n], FALSE)
FileHolds(f, m) ==
    /\ f = [header |-> TRUE, meta |-> f.meta, num |-> Len(W(m.opt)), entries |-> f.entries]
    /\ f.meta \in {NoOptions, Meta(m.opt)}
    /\ Len(f.entries) \in 0..Len(W(m.opt))
    /\ f.entries = [k \in 1..Len(f.entries) |-> EntryIn(m.params, m.opt, W(m.opt)[k])]

(* An optimizer file holds the first moments of a model some command       *)
(* trained.                                                                *)
OptimHolds(o) ==
    \E cmd \in Trainings :
        LET opt == WithLayers(Layered(cmd, TrainConfig))
        IN  /\ o.num = Len(W(opt)) /\ Len(o.entries) \in 0..Len(W(opt))
            /\ \A k \in 1..Len(o.entries) :
                /\ o.entries[k].dims = Dims(W(opt)[k], opt.embed)
                /\ o.entries[k].value \subseteq {W(opt)[k]}

(* The training process.                                                   *)
Commanded(p) ==
    /\ p.cmd \in Trainings
    /\ resolved = Layered(p.cmd, TrainConfig) /\ p.opt = WithLayers(resolved)
ToLoad(p) == p = [phase |-> "load", cmd |-> p.cmd, opt |-> p.opt] /\ Commanded(p) /\ runs # 0
Trained(p) ==
    /\ ParamsAre(p.params, p.opt, p.cmd.backend = "torch", runs)
    /\ \A n \in Parameters(p.opt) :
        p.params[n].run = runs /\ p.cmd.backend = "c" =>
            (p.params[n].decayed => n[3] \notin {"norm1", "norm2", "cross_norm"})
    /\ MomentsAre(p.moments, p.opt)
InTraining(p) ==
    /\ p = [phase |-> "train", cmd |-> p.cmd, opt |-> p.opt, params |-> p.params, moments |-> p.moments]
    /\ Commanded(p) /\ Trained(p)

(* The latest run whose training the checkpoint may hold: none but the     *)
(* earlier ones while a process is still to load.                          *)
Latest == IF proc.phase = "load" THEN runs - 1 ELSE runs

RunsAre == runs \in 0..MaxRuns
ResolvedIs == resolved = NoOptions \/ \E cmd \in Trainings : resolved = Layered(cmd, TrainConfig)
ProcIs == proc = Idle \/ ToLoad(proc) \/ InTraining(proc)
SavedIs == saved = NotSaved \/ IsSaved(saved, Latest)
FileIs == file = NoHeader \/ (IsSaved(saved, Latest) /\ FileHolds(file, saved))
OptimIs == optim = NoHeader \/ OptimHolds(optim)
LmIs == Len(lmfile.entries) <= lmfile.num
LoadedRight ==
    \A n \in DOMAIN last.params :
        /\ n \in DOMAIN saved.params
        /\ Same(last.params[n], saved.params[n], last.cmd.backend = "torch" /\ n[3] \in Linear)
LastIs == last.ran => proc = Idle /\ LoadedRight /\ InferredAsTrained

CheckpointInv ==
    /\ RunsAre /\ ResolvedIs /\ ProcIs /\ SavedIs /\ FileIs /\ OptimIs /\ LmIs /\ LastIs

(* What an entry of a checkpoint has.                                      *)
LEMMA EntryHas ==
    ASSUME NEW params, NEW opt, NEW n, NEW e, e = EntryIn(params, opt, n)
    PROVE  Has(e, params, opt, n)
<1> PICK d, v : d = Dims(n, opt.embed) /\ v = Lying(params[n], FALSE)  OBVIOUS
<1>1. e = [name |-> n, dims |-> d, value |-> v]  BY Zenon DEF EntryIn, Entry
<1>2. e.name = n /\ e.dims = d /\ e.value = v  BY <1>1
<1>3. QED  BY <1>2, Zenon DEF Has

(* A tensor PyTorch exports has the dimensions the C programs keep.        *)
LEMMA TurnedTwice ==
    ASSUME NEW n \in TensorName, NEW e
    PROVE  Turned(TorchDims(n, e), n[3] \in ExportTurns) = Dims(n, e)
<1>1. ExportTurns = Linear  BY DEF ExportTurns, Linear
<1>2. CASE n[3] \notin Linear  BY <1>1, <1>2 DEF TorchDims, Turned
<1>3. CASE n[3] \in Linear
  <2>1. \E x, y : Dims(n, e) = <<x, y>>  BY <1>3 DEF Dims, Linear
  <2>2. PICK x, y : Dims(n, e) = <<x, y>>  BY <2>1
  <2>3. ASSUME NEW u, NEW v  PROVE Reverse(<<u, v>>) = <<v, u>>  BY DEF Reverse
  <2>4. TorchDims(n, e) = Reverse(Dims(n, e))  BY <1>3, Zenon DEF TorchDims, Turned
  <2>5. Turned(TorchDims(n, e), n[3] \in ExportTurns) = Reverse(TorchDims(n, e))
    BY <1>1, <1>3, Zenon DEF Turned
  <2>6. QED  BY <2>2, <2>3, <2>4, <2>5, Zenon
<1>4. QED  BY <1>2, <1>3

(* What was saved has a width and layers.                                  *)
LEMMA SavedIsDeep ==
    ASSUME NEW m, NEW upto, IsSaved(m, upto)
    PROVE  Deep(m.opt) /\ DOMAIN m.params = Parameters(m.opt)
<1>1. PICK cmd \in Trainings :
        /\ m.config = Layered(cmd, TrainConfig) /\ m.opt = WithLayers(m.config)
        /\ ParamsAre(m.params, m.opt, cmd.backend = "torch", upto)
  BY DEF IsSaved
<1>2. Deep(m.opt)  BY <1>1, OptionsAre, Zenon DEF Deep
<1>3. QED  BY <1>1, <1>2 DEF ParamsAre

(* An entry's value is the saved one, turned the way the C programs keep   *)
(* it.                                                                     *)
LEMMA SavedValue ==
    ASSUME NEW m, NEW upto, IsSaved(m, upto), NEW n \in Parameters(m.opt), NEW t
    PROVE  /\ Lying(m.params[n], t) =
                [from |-> {n}, run |-> m.params[n].run, decayed |-> m.params[n].decayed, turned |-> t]
           /\ m.params[n].run \in 0..upto
<1>1. PICK cmd \in Trainings : ParamsAre(m.params, m.opt, cmd.backend = "torch", upto)
  BY DEF IsSaved
<1>2. IsValue(m.params[n], n, cmd.backend = "torch" /\ n[3] \in Linear, upto)  BY <1>1 DEF ParamsAre
<1>3. QED  BY <1>2 DEF IsValue, Lying

(* Two models of the same width and depths.                                *)
Alike(s, t) == \A g \in ShapeFields : s[g] = t[g]

(* What is loaded from a checkpoint is what was saved into it.             *)
Brings(params, s, m, torch) ==
    /\ DOMAIN params = Parameters(s)
    /\ \A n \in Parameters(s) :
        n \in Parameters(m.opt) /\ params[n] = Lying(m.params[n], torch /\ n[3] \in Linear)

(* The C trainer and inference load what was saved, whole, into a model of *)
(* the same width and depths.                                              *)
LEMMA LoadedIs ==
    ASSUME NEW f, NEW m, NEW upto, IsSaved(m, upto), FileHolds(f, m), NEW s, Deep(s),
           Accepts(f, TensorAt(s), s.embed), NEW torch, torch = FALSE
    PROVE  Alike(s, m.opt) /\ Brings(Loaded(f, TensorAt(s)), s, m, torch)
<1> DEFINE T == TensorAt(s)
           len == Len(W(m.opt))
<1>1. Deep(m.opt)  BY SavedIsDeep
<1>2. /\ DOMAIN W(s) = 1..Len(W(s)) /\ Len(W(s)) \in Nat /\ len \in Nat
  BY <1>1, WalkIsSequence
<1>3. T = [i \in 1..Len(W(s)) |-> [name |-> W(s)[i], tensor |-> W(s)[i]]]  BY <1>2, WalksAgree, Zenon
<1> HIDE DEF T
<1>4. Len(T) = Len(W(s)) /\ DOMAIN T = 1..Len(W(s))  BY <1>2, <1>3
<1>5. \A i \in 1..Len(W(s)) : T[i].name = W(s)[i] /\ T[i].tensor = W(s)[i]  BY <1>3
<1>6. /\ f.num = Len(T) /\ Len(f.entries) = f.num
      /\ \A i \in DOMAIN T : f.entries[i].name = T[i].name /\ f.entries[i].dims = Dims(T[i].tensor, s.embed)
  BY Zenon DEF Accepts, T
<1>7. f.num = len /\ f.entries = [k \in 1..Len(f.entries) |-> EntryIn(m.params, m.opt, W(m.opt)[k])]
  <2>1. f.num = len  BY DEF FileHolds
  <2>2. QED  BY <2>1, Zenon DEF FileHolds
<1>8. Len(W(s)) = len /\ Len(f.entries) = len  BY <1>4, <1>6, <1>7
<1>9. ASSUME NEW k \in 1..len
      PROVE  /\ f.entries[k].name = W(m.opt)[k] /\ f.entries[k].dims = Dims(W(m.opt)[k], m.opt.embed)
             /\ f.entries[k].value = Lying(m.params[W(m.opt)[k]], FALSE)
  <2>1. f.entries[k] = EntryIn(m.params, m.opt, W(m.opt)[k])  BY <1>7, <1>8
  <2>2. Has(f.entries[k], m.params, m.opt, W(m.opt)[k])  BY <2>1, EntryHas, Zenon
  <2>3. QED  BY <2>2 DEF Has
<1>10. \A i \in 1..Len(W(s)) : Dims(W(s)[i], s.embed) = Dims(W(m.opt)[i], m.opt.embed)
  <2>1. ASSUME NEW i \in 1..Len(W(s))
        PROVE  Dims(W(s)[i], s.embed) = Dims(W(m.opt)[i], m.opt.embed)
    <3>1. f.entries[i].dims = Dims(T[i].tensor, s.embed)  BY <1>4, <1>6
    <3>2. T[i].tensor = W(s)[i]  BY <1>5
    <3>3. f.entries[i].dims = Dims(W(m.opt)[i], m.opt.embed)  BY <1>8, <1>9
    <3>4. QED  BY <3>1, <3>2, <3>3
  <2>2. QED  BY <2>1
<1>11. (\A g \in ShapeFields : s[g] = m.opt[g]) /\ W(s) = W(m.opt)
  BY <1>1, <1>8, <1>10, DimsTellTheShape
<1>12. Parameters(s) = Parameters(m.opt)  BY <1>11, WalksAgree
<1>13. {T[i].tensor : i \in DOMAIN T} = Parameters(s)
  <2>1. \A n \in Parameters(s) : \E i \in DOMAIN T : T[i].tensor = n  BY <1>4, <1>5, WalkIsSequence
  <2>2. \A i \in DOMAIN T : T[i].tensor \in Parameters(s)  BY <1>4, <1>5, WalkIsSequence
  <2>3. QED  BY <2>1, <2>2
<1>14. ASSUME NEW n \in Parameters(s)
       PROVE  Loaded(f, T)[n] = Lying(m.params[n], FALSE)
  <2>1. Loaded(f, T)[n] = f.entries[CHOOSE i \in DOMAIN T : T[i].tensor = n].value
    BY <1>13 DEF Loaded
  <2>2. \E i \in DOMAIN T : T[i].tensor = n  BY <1>13
  <2>3. PICK i : i = CHOOSE j \in DOMAIN T : T[j].tensor = n  OBVIOUS
  <2>4. i \in DOMAIN T /\ T[i].tensor = n  BY <2>2, <2>3
  <2>5. i \in 1..len /\ W(m.opt)[i] = n  BY <2>4, <1>4, <1>5, <1>8, <1>11
  <2>6. QED  BY <1>9, <2>1, <2>3, <2>5
<1>15. DOMAIN Loaded(f, T) = Parameters(s)  BY <1>13 DEF Loaded
<1>16. ASSUME NEW n \in Parameters(s)
       PROVE  Loaded(f, T)[n] = Lying(m.params[n], torch /\ n[3] \in Linear)
  <2>1. (torch /\ n[3] \in Linear) = FALSE  OBVIOUS
  <2>2. QED  BY <1>14, <2>1, Zenon
<1>17. Brings(Loaded(f, T), s, m, torch)  BY <1>12, <1>15, <1>16, Zenon DEF Brings
<1>18. Alike(s, m.opt)  BY <1>11, Zenon DEF Alike
<1>19. QED  BY <1>17, <1>18 DEF T

(* PyTorch loads by name what was saved, turned its own way.               *)
LEMMA TorchLoadedIs ==
    ASSUME NEW f, NEW m, NEW upto, IsSaved(m, upto), FileHolds(f, m), NEW s, TorchAccepts(f, s),
           NEW torch, torch = TRUE
    PROVE  Brings(TorchLoaded(f, s), s, m, torch)
<1>1. Deep(m.opt)  BY SavedIsDeep
<1>2. DOMAIN TorchLoaded(f, s) = Parameters(s)  BY DEF TorchLoaded
<1>3. ImportTurns = Linear  BY DEF ImportTurns, Linear
<1>4. /\ f.entries = [k \in 1..Len(f.entries) |-> EntryIn(m.params, m.opt, W(m.opt)[k])]
      /\ Len(f.entries) \in 0..Len(W(m.opt))
  BY Zenon DEF FileHolds
<1>5. ASSUME NEW n \in Parameters(s)
      PROVE  /\ n \in Parameters(m.opt)
             /\ TorchLoaded(f, s)[n] = Lying(m.params[n], n[3] \in Linear)
  <2>1. PICK k : k = CHOOSE j \in ByName(f, n) : TRUE  OBVIOUS
  <2>2. ByName(f, n) # {}  BY DEF TorchAccepts
  <2>3. k \in DOMAIN f.entries /\ f.entries[k].name = n  BY <2>1, <2>2 DEF ByName
  <2>4. k \in 1..Len(f.entries) /\ Len(W(m.opt)) \in Nat  BY <1>1, <1>4, <2>3, WalkIsSequence
  <2>5. k \in 1..Len(W(m.opt))  BY <1>4, <2>4
  <2>6. f.entries[k] = EntryIn(m.params, m.opt, W(m.opt)[k])  BY <1>4, <2>4
  <2>7. W(m.opt)[k] = n /\ f.entries[k].value = Lying(m.params[n], FALSE)
    <3>1. Has(f.entries[k], m.params, m.opt, W(m.opt)[k])  BY <2>6, EntryHas, Zenon
    <3>2. f.entries[k].name = W(m.opt)[k] /\ f.entries[k].value = Lying(m.params[W(m.opt)[k]], FALSE)
      BY <3>1 DEF Has
    <3>3. QED  BY <2>3, <3>2
  <2>8. n \in Parameters(m.opt)  BY <1>1, <2>5, <2>7, WalkIsSequence
  <2>9. TorchLoaded(f, s)[n] = Turn(f.entries[k].value, n[3] \in Linear)
    BY <1>3, <2>1 DEF TorchLoaded
  <2>10. QED
    <3>1. \A t : Lying(m.params[n], t) =
                [from |-> {n}, run |-> m.params[n].run, decayed |-> m.params[n].decayed, turned |-> t]
      BY <2>8, SavedValue
    <3>2. f.entries[k].value =
            [from |-> {n}, run |-> m.params[n].run, decayed |-> m.params[n].decayed, turned |-> FALSE]
      BY <2>7, <3>1
    <3>3. Turn(f.entries[k].value, n[3] \in Linear) =
            [from |-> {n}, run |-> m.params[n].run, decayed |-> m.params[n].decayed,
             turned |-> (n[3] \in Linear)]
      <4>1. PICK r, d, b : r = m.params[n].run /\ d = m.params[n].decayed /\ b = (n[3] \in Linear)
        OBVIOUS
      <4>2. b \in BOOLEAN  BY <4>1
      <4>3. PICK v : v = [from |-> {n}, run |-> r, decayed |-> d, turned |-> FALSE]  OBVIOUS
      <4>4. Turn(v, b) = [from |-> {n}, run |-> r, decayed |-> d, turned |-> b]
        <5>1. v.turned = FALSE  BY <4>3
        <5>2. (v.turned # b) = b
          <6>1. CASE b = TRUE  BY <5>1, <6>1
          <6>2. CASE b = FALSE  BY <5>1, <6>2
          <6>3. QED  BY <4>2, <6>1, <6>2
        <5>3. Turn(v, b) = [v EXCEPT !.turned = (v.turned # b)]  BY Zenon DEF Turn
        <5>4. Turn(v, b) = [v EXCEPT !.turned = b]  BY <5>2, <5>3, Zenon
        <5>5. QED  BY <4>3, <5>4
      <4>5. f.entries[k].value = v  BY <3>2, <4>1, <4>3
      <4>6. QED  BY <4>1, <4>4, <4>5
    <3>4. QED  BY <2>8, <2>9, <3>1, <3>3
<1>6. ASSUME NEW n \in Parameters(s)
      PROVE  TorchLoaded(f, s)[n] = Lying(m.params[n], torch /\ n[3] \in Linear)
  <2>1. PICK t : t = (n[3] \in Linear)  OBVIOUS
  <2>2. t = (torch /\ n[3] \in Linear)  BY <2>1
  <2>3. QED  BY <1>5, <2>1, <2>2, Zenon
<1>7. QED  BY <1>2, <1>5, <1>6, Zenon DEF Brings

(* What a later run may have trained an earlier one has.                   *)
LEMMA SavedBefore ==
    ASSUME NEW m, NEW u \in Nat, NEW w \in Nat, u <= w, IsSaved(m, u)
    PROVE  IsSaved(m, w)
<1>1. PICK cmd \in Trainings :
        /\ m = [params |-> m.params, opt |-> m.opt, config |-> m.config]
        /\ m.config = Layered(cmd, TrainConfig) /\ m.opt = WithLayers(m.config)
        /\ ParamsAre(m.params, m.opt, cmd.backend = "torch", u)
  BY DEF IsSaved
<1>2. \A r \in 0..u : r \in 0..w  OBVIOUS
<1>3. ParamsAre(m.params, m.opt, cmd.backend = "torch", w)  BY <1>1, <1>2 DEF ParamsAre, IsValue
<1>4. QED  BY <1>1, <1>3, Zenon DEF IsSaved

(* What a process in training would save, and its model's width and        *)
(* depths.                                                                 *)
LEMMA SavedIsTrained ==
    ASSUME RunsAre, InTraining(proc)
    PROVE  /\ IsSaved(Saved, runs) /\ Saved.opt = proc.opt /\ Saved.params = proc.params
           /\ Deep(proc.opt) /\ runs \in Nat /\ proc.cmd.backend \in {"c", "torch"}
<1>1. /\ Saved.opt = proc.opt /\ Saved.params = proc.params /\ Saved.config = resolved
      /\ Saved = [params |-> Saved.params, opt |-> Saved.opt, config |-> Saved.config]
  BY DEF Saved
<1>2. /\ proc.cmd \in Trainings /\ resolved = Layered(proc.cmd, TrainConfig)
      /\ proc.opt = WithLayers(resolved)
      /\ ParamsAre(proc.params, proc.opt, proc.cmd.backend = "torch", runs)
  BY DEF InTraining, Commanded, Trained
<1>3. IsSaved(Saved, runs)
  <2> HIDE DEF Saved
  <2> QED  BY <1>1, <1>2 DEF IsSaved
<1>4. Deep(proc.opt)  BY <1>2, OptionsAre, Zenon DEF Deep
<1>5. runs \in Nat /\ proc.cmd.backend \in {"c", "torch"}  BY <1>2, CommandsAssumption DEF RunsAre
<1>6. QED  BY <1>1, <1>3, <1>4, <1>5

(* A value that lies one way already stays as it is.                       *)
LEMMA LyingAsItIs ==
    ASSUME NEW v, NEW n, NEW t, NEW upto, IsValue(v, n, t, upto)
    PROVE  Lying(v, t) = v
<1>1. Lying(v, t) = [from |-> {n}, run |-> v.run, decayed |-> v.decayed, turned |-> t]
  BY DEF IsValue, Lying
<1>2. v = [from |-> {n}, run |-> v.run, decayed |-> v.decayed, turned |-> t]  BY DEF IsValue
<1>3. QED  BY <1>1, <1>2, Zenon

WrittenInC(n, s, params) == Entry(n, Dims(n, s.embed), params[n])
WrittenInTorch(n, s, params) ==
    Entry(n, Turned(TorchDims(n, s.embed), n[3] \in ExportTurns), Turn(params[n], n[3] \in ExportTurns))

(* The entries the C trainer writes are those of the saved model.          *)
LEMMA EntryInC ==
    ASSUME NEW opt, Deep(opt), NEW params, NEW torch, torch = FALSE, NEW upto, ParamsAre(params, opt, torch, upto),
           NEW n \in Parameters(opt)
    PROVE  WrittenInC(n, Shape(opt), params) = EntryIn(params, opt, n)
<1>1. Shape(opt).embed = opt.embed  BY WalkOfShape DEF ShapeFields
<1>2. IsValue(params[n], n, torch /\ n[3] \in Linear, upto)  BY DEF ParamsAre
<1>3. PICK f : f = FALSE  OBVIOUS
<1>4. IsValue(params[n], n, f, upto)  BY <1>2, <1>3
<1>5. Lying(params[n], FALSE) = params[n]  BY <1>3, <1>4, LyingAsItIs
<1>6. QED  BY <1>1, <1>5, Zenon DEF EntryIn, WrittenInC

(* And so are those PyTorch writes.                                        *)
LEMMA EntryInTorch ==
    ASSUME NEW opt, Deep(opt), NEW params, NEW torch, torch = TRUE, NEW upto, ParamsAre(params, opt, torch, upto),
           NEW n \in Parameters(opt)
    PROVE  WrittenInTorch(n, Shape(opt), params) = EntryIn(params, opt, n)
<1>1. Shape(opt).embed = opt.embed  BY WalkOfShape DEF ShapeFields
<1>2. n \in TensorName  BY WalkIsSequence
<1>3. IsValue(params[n], n, torch /\ n[3] \in Linear, upto)  BY DEF ParamsAre
<1>4. ExportTurns = Linear  BY DEF ExportTurns, Linear
<1>10. PICK b : b = (n[3] \in Linear)  OBVIOUS
<1>5. b \in BOOLEAN /\ b = (n[3] \in Linear) /\ b = (n[3] \in ExportTurns)  BY <1>4, <1>10
<1>6. PICK v, r, d : v = params[n] /\ v = [from |-> {n}, run |-> r, decayed |-> d, turned |-> b]
  BY <1>3, <1>5 DEF IsValue
<1>7. Turn(v, b) = Lying(v, FALSE)
  <2>1. (v.turned # b) = FALSE  BY <1>6
  <2>2. Turn(v, b) = [v EXCEPT !.turned = (v.turned # b)]  BY Zenon DEF Turn
  <2>3. QED  BY <2>1, <2>2, Zenon DEF Lying
<1>8. Turned(TorchDims(n, opt.embed), n[3] \in ExportTurns) = Dims(n, opt.embed)
  BY <1>2, TurnedTwice, Zenon
<1>9. QED  BY <1>1, <1>5, <1>6, <1>7, <1>8, Zenon DEF EntryIn, WrittenInTorch

(* The checkpoint that training writes holds the model in training, all of *)
(* it.                                                                     *)
LEMMA WrittenIs ==
    ASSUME RunsAre, InTraining(proc), NEW meta \in {NoOptions, Meta(proc.opt)}
    PROVE  FileHolds(Written(meta), Saved) /\ Len(Written(meta).entries) = Len(W(proc.opt))
<1> PICK opt, params, s : opt = proc.opt /\ params = proc.params /\ s = Shape(opt)  OBVIOUS
<1> DEFINE len == Len(W(opt))
           E == [i \in 1..len |-> EntryIn(params, opt, W(opt)[i])]
<1>1. /\ Deep(opt) /\ proc.cmd.backend \in {"c", "torch"}
      /\ ParamsAre(params, opt, proc.cmd.backend = "torch", runs)
  BY SavedIsTrained DEF InTraining, Trained
<1>2. /\ W(s) = W(opt) /\ len \in Nat /\ DOMAIN W(opt) = 1..len /\ NumTensors(s) = len
  BY <1>1, WalkIsSequence, WalkOfShape
<1>3. Len(E) = len /\ DOMAIN E = 1..len  BY <1>2
<1>4. Written(meta) = [header |-> TRUE, meta |-> meta, num |-> len, entries |-> E]
  <2>4. PICK x : x = E  OBVIOUS
  <2>5. File(meta, x) = [header |-> TRUE, meta |-> meta, num |-> len, entries |-> x]
    BY <1>3, <2>4, Zenon DEF File
  <2>1. CASE proc.cmd.backend = "c"
    <3>11. PICK torch : torch = FALSE /\ ParamsAre(params, opt, torch, runs)  BY <1>1, <2>1
    <3>1. Written(meta) = ModelFile(s, params, meta)  BY <2>1 DEF Written
    <3>2. PICK T : T = TensorAt(s)  OBVIOUS
    <3>3. T = [i \in 1..len |-> [name |-> W(opt)[i], tensor |-> W(opt)[i]]]
      <4>1. TensorAt(s) = [i \in DOMAIN W(s) |-> [name |-> W(s)[i], tensor |-> W(s)[i]]]
        BY WalksAgree
      <4>2. QED  BY <1>2, <3>2, <4>1, Zenon
    <3>4. DOMAIN T = 1..len /\ \A i \in 1..len : T[i].name = W(opt)[i] /\ T[i].tensor = W(opt)[i]
      BY <3>3
    <3>5. ASSUME NEW i \in 1..len
          PROVE  Entry(T[i].name, Dims(T[i].tensor, s.embed), params[T[i].tensor]) =
                   EntryIn(params, opt, W(opt)[i])
      <4>1. PICK n : n = W(opt)[i]  OBVIOUS
      <4>4. n \in Parameters(opt)  BY <1>1, <4>1, WalkIsSequence
      <4>2. WrittenInC(n, s, params) = EntryIn(params, opt, n)
        BY <1>1, <3>11, <4>4, EntryInC, Zenon
      <4>3. QED  BY <3>4, <4>1, <4>2, Zenon DEF WrittenInC
    <3>6. Entries(T, s.embed, params) = x  BY <2>4, <3>4, <3>5, Zenon DEF Entries
    <3>7. Written(meta) = [File(meta, x) EXCEPT !.num = len]
      BY <1>2, <3>1, <3>2, <3>6, Zenon DEF ModelFile
    <3>8. Written(meta) = [[header |-> TRUE, meta |-> meta, num |-> len, entries |-> x] EXCEPT !.num = len]
      BY <2>5, <3>7, Zenon
    <3>9. Written(meta) = [header |-> TRUE, meta |-> meta, num |-> len, entries |-> x]  BY <3>8
    <3>10. QED  BY <2>4, <3>9, Zenon
  <2>2. CASE proc.cmd.backend = "torch"
    <3>11. PICK torch : torch = TRUE /\ ParamsAre(params, opt, torch, runs)  BY <1>1, <2>2
    <3>1. Written(meta) = TorchFile(s, params, meta)  BY <2>2 DEF Written
    <3>2. TorchFile(s, params, meta) = File(meta, [i \in 1..len |-> WrittenInTorch(W(opt)[i], s, params)])
      BY <1>2, Zenon DEF TorchFile, W, WrittenInTorch
    <3>3. ASSUME NEW i \in 1..len
          PROVE  WrittenInTorch(W(opt)[i], s, params) = EntryIn(params, opt, W(opt)[i])
      <4>1. PICK n : n = W(opt)[i]  OBVIOUS
      <4>4. n \in Parameters(opt)  BY <1>1, <4>1, WalkIsSequence
      <4>2. WrittenInTorch(n, s, params) = EntryIn(params, opt, n)
        BY <1>1, <3>11, <4>4, EntryInTorch, Zenon
      <4>3. QED  BY <4>1, <4>2, Zenon
    <3>4. [i \in 1..len |-> WrittenInTorch(W(opt)[i], s, params)] = x  BY <2>4, <3>3, Zenon
    <3>5. QED  BY <2>4, <2>5, <3>1, <3>2, <3>4, Zenon
  <2>3. QED  BY <1>1, <2>1, <2>2
<1>5. Saved.opt = opt /\ Saved.params = params  BY SavedIsTrained
<1>6. PICK f : f = Written(meta)  OBVIOUS
<1>7. /\ f.header = TRUE /\ f.meta = meta /\ f.num = len /\ f.entries = E
      /\ f = [header |-> TRUE, meta |-> f.meta, num |-> f.num, entries |-> f.entries]
  <2> HIDE DEF E
  <2> QED  BY <1>4, <1>6
<1>8. Len(f.entries) = len /\ len \in 0..len  BY <1>2, <1>3, <1>7
<1>9. FileHolds(f, Saved)  BY <1>5, <1>7, <1>8 DEF FileHolds
<1>10. QED  BY <1>6, <1>8, <1>9

(* A save that is killed leaves the first of the entries.                  *)
LEMMA CutIs ==
    ASSUME NEW f, NEW k \in Nat, NEW len \in Nat, Len(f.entries) = len,
           f = [header |-> f.header, meta |-> f.meta, num |-> f.num, entries |-> f.entries]
    PROVE  \E q \in 0..len :
              CutAt(f, k) = [header |-> f.header, meta |-> f.meta, num |-> f.num,
                             entries |-> [i \in 1..q |-> f.entries[i]]]
<1>1. PICK q \in 0..len : q = Min({k, len})
  <2>1. CASE k <= len
    <3>1. k \in {k, len} /\ \A y \in {k, len} : k <= y  BY <2>1
    <3>2. \A x \in {k, len} : (\A y \in {k, len} : x <= y) => x = k  BY <2>1
    <3>3. Min({k, len}) = k  BY <3>1, <3>2 DEF Min
    <3>4. QED  BY <2>1, <3>3
  <2>2. CASE ~(k <= len)
    <3>1. len \in {k, len} /\ \A y \in {k, len} : len <= y  BY <2>2
    <3>2. \A x \in {k, len} : (\A y \in {k, len} : x <= y) => x = len  BY <2>2
    <3>3. Min({k, len}) = len  BY <3>1, <3>2 DEF Min
    <3>4. QED  BY <3>3
  <2>3. QED  BY <2>1, <2>2
<1>2. PICK E : E = f.entries  OBVIOUS
<1>3. SubSeq(E, 1, q) = [i \in 1..q |-> E[i]]
  <2>1. SubSeq(E, 1, q) = [i \in 1..q |-> SubSeq(E, 1, q)[i]]  OBVIOUS
  <2>2. \A i \in 1..q : SubSeq(E, 1, q)[i] = E[i]  OBVIOUS
  <2>3. QED  BY <2>1, <2>2
<1>4. PICK u : u = SubSeq(E, 1, q)  OBVIOUS
<1>5. CutAt(f, k) = [f EXCEPT !.entries = u]  BY <1>1, <1>2, <1>4, Zenon DEF CutAt
<1>6. [f EXCEPT !.entries = u] = [header |-> f.header, meta |-> f.meta, num |-> f.num, entries |-> u]
  OBVIOUS
<1>7. u = [i \in 1..q |-> f.entries[i]]  BY <1>2, <1>3, <1>4, Zenon
<1>8. QED  BY <1>5, <1>6, <1>7, Zenon

(* What a killed save leaves still holds the first entries of the model.   *)
LEMMA CutHolds ==
    ASSUME NEW f, NEW m, FileHolds(f, m), NEW k \in Nat, NEW len \in Nat,
           len = Len(W(m.opt)), Len(f.entries) = len
    PROVE  FileHolds(CutAt(f, k), m)
<1>1. /\ f = [header |-> TRUE, meta |-> f.meta, num |-> Len(W(m.opt)), entries |-> f.entries]
      /\ f.meta \in {NoOptions, Meta(m.opt)}
      /\ f.entries = [i \in 1..Len(f.entries) |-> EntryIn(m.params, m.opt, W(m.opt)[i])]
  BY Zenon DEF FileHolds
<1>2. f.header = TRUE /\ f.num = len  BY <1>1
<1>3. f = [header |-> f.header, meta |-> f.meta, num |-> f.num, entries |-> f.entries]
  BY <1>1, <1>2, Zenon
<1>4. PICK q \in 0..len : CutAt(f, k) = [header |-> f.header, meta |-> f.meta, num |-> f.num,
                                        entries |-> [i \in 1..q |-> f.entries[i]]]
  BY <1>3, CutIs
<1>5. PICK E, g, h, t : /\ E = f.entries /\ g = CutAt(f, k) /\ h = [i \in 1..q |-> E[i]] /\ t = f.meta
  OBVIOUS
<1>6. g = [header |-> TRUE, meta |-> t, num |-> len, entries |-> h]  BY <1>2, <1>4, <1>5, Zenon
<1>7. Len(h) = q /\ Len(h) \in 0..len  BY <1>5
<1>8. h = [i \in 1..Len(h) |-> EntryIn(m.params, m.opt, W(m.opt)[i])]
  <2>1. \A i \in 1..q : i \in 1..len  OBVIOUS
  <2>2. \A i \in 1..q : E[i] = EntryIn(m.params, m.opt, W(m.opt)[i])  BY <1>1, <1>5, <2>1
  <2>3. h = [i \in 1..q |-> EntryIn(m.params, m.opt, W(m.opt)[i])]  BY <1>5, <2>2, Zenon
  <2>4. QED  BY <1>7, <2>3, Zenon
<1>9. g.meta = t /\ g.entries = h  BY <1>6
<1>10. FileHolds(g, m)
  <2>1. g.meta \in {NoOptions, Meta(m.opt)}  BY <1>1, <1>5, <1>9
  <2>2. g = [header |-> TRUE, meta |-> g.meta, num |-> Len(W(m.opt)), entries |-> g.entries]
    BY <1>6, <1>9, Zenon
  <2>3. Len(g.entries) \in 0..Len(W(m.opt))  BY <1>7, <1>9
  <2>4. g.entries = [i \in 1..Len(g.entries) |-> EntryIn(m.params, m.opt, W(m.opt)[i])]
    BY <1>8, <1>9, Zenon
  <2>5. QED  BY <2>1, <2>2, <2>3, <2>4, Zenon DEF FileHolds
<1>11. QED  BY <1>5, <1>10

(* A saved value, as it lies after loading.                                *)
LEMMA ValueKept ==
    ASSUME NEW m, NEW upto, IsSaved(m, upto), NEW n \in Parameters(m.opt), NEW t
    PROVE  IsValue(Lying(m.params[n], t), n, t, upto)
<1>1. PICK v : v = Lying(m.params[n], t)  OBVIOUS
<1>2. PICK r, d : r = m.params[n].run /\ d = m.params[n].decayed  OBVIOUS
<1>3. v = [from |-> {n}, run |-> r, decayed |-> d, turned |-> t] /\ r \in 0..upto
  BY <1>1, <1>2, SavedValue, Zenon
<1>4. v.run = r /\ v.decayed = d  BY <1>3
<1>5. IsValue(v, n, t, upto)  BY <1>3, <1>4, Zenon DEF IsValue
<1>6. QED  BY <1>1, <1>5

(* The parameters a run begins with: none decayed by it.                   *)
Begun(params, opt, torch, run) ==
    /\ ParamsAre(params, opt, torch, run)
    /\ \A n \in Parameters(opt) : params[n].decayed => params[n].run # run

(* A new model.                                                            *)
LEMMA FreshIs ==
    ASSUME NEW opt, NEW s, s = Shape(opt), NEW run \in Nat, NEW backend, NEW torch,
           torch = (backend = "torch")
    PROVE  Begun(FreshModel(s, run, backend), opt, torch, run)
<1>1. Parameters(s) = Parameters(opt)  BY WalkOfShape
<1>2. ASSUME NEW n \in Parameters(opt)
      PROVE  /\ IsValue(FreshModel(s, run, backend)[n], n, torch /\ n[3] \in Linear, run)
             /\ FreshModel(s, run, backend)[n].decayed = FALSE
  <2>1. PICK b : b = (torch /\ n[3] \in Linear) /\ b = (backend = "torch" /\ n[3] \in Linear)  OBVIOUS
  <2>2. PICK v : v = FreshModel(s, run, backend)[n]  OBVIOUS
  <2>3. v = Value(n, run, b)  BY <1>1, <2>1, <2>2, Zenon DEF FreshModel
  <2>4. v = [from |-> {n}, run |-> run, decayed |-> FALSE, turned |-> b]  BY <2>3, Zenon DEF Value
  <2>5. v.run = run /\ v.decayed = FALSE /\ run \in 0..run  BY <2>4
  <2>6. IsValue(v, n, b, run)  BY <2>4, <2>5, Zenon DEF IsValue
  <2>7. QED  BY <2>1, <2>2, <2>5, <2>6, Zenon
<1>3. DOMAIN FreshModel(s, run, backend) = Parameters(opt)  BY <1>1, Zenon DEF FreshModel
<1>4. QED  BY <1>2, <1>3, Zenon DEF ParamsAre, Begun

(* A model that was loaded: no value of it is of this run.                 *)
LEMMA KeptIs ==
    ASSUME NEW m, NEW upto, IsSaved(m, upto), NEW run \in Nat, upto = run - 1, NEW opt, NEW torch,
           NEW params, Brings(params, opt, m, torch)
    PROVE  Begun(params, opt, torch, run)
<1>1. \A r \in 0..upto : r \in 0..run /\ r # run  OBVIOUS
<1>2. ASSUME NEW n \in Parameters(opt)
      PROVE  IsValue(params[n], n, torch /\ n[3] \in Linear, run) /\ params[n].run # run
  <2>1. PICK t, v : t = (torch /\ n[3] \in Linear) /\ v = params[n]  OBVIOUS
  <2>4. n \in Parameters(m.opt) /\ v = Lying(m.params[n], t)  BY <2>1, Zenon DEF Brings
  <2>5. IsValue(Lying(m.params[n], t), n, t, upto)  BY <2>4, ValueKept
  <2>2. IsValue(v, n, t, upto)  BY <2>4, <2>5
  <2>3. QED  BY <1>1, <2>1, <2>2, Zenon DEF IsValue
<1>3. DOMAIN params = Parameters(opt)  BY Zenon DEF Brings
<1>4. QED  BY <1>2, <1>3, Zenon DEF ParamsAre, Begun

(* Moments that are accepted were some model's whose tensors are these.    *)
LEMMA MomentsAreTheirs ==
    ASSUME NEW s, Deep(s), OptimIs, MomentsAccepted(s), NEW i \in 1..Len(W(s))
    PROVE  optim.entries[i].value \subseteq {W(s)[i]}
<1>1. MomentPairs(s) = W(s)  BY WalksAgree
<1>2. PICK len \in Nat : len = Len(W(s)) /\ DOMAIN W(s) = 1..len  BY WalkIsSequence
<1>3. /\ optim.header /\ optim.num = len /\ Len(optim.entries) = optim.num
      /\ \A k \in 1..len : optim.entries[k].dims = Dims(W(s)[k], s.embed)
  BY <1>1, <1>2, Zenon DEF MomentsAccepted
<1>4. optim # NoHeader  BY <1>3 DEF NoHeader
<1>5. OptimHolds(optim)  BY <1>4 DEF OptimIs
<1>6. PICK t : \E cmd \in Trainings :
        /\ t = WithLayers(Layered(cmd, TrainConfig))
        /\ optim.num = Len(W(t))
        /\ \A k \in 1..Len(optim.entries) :
            optim.entries[k].dims = Dims(W(t)[k], t.embed) /\ optim.entries[k].value \subseteq {W(t)[k]}
  BY <1>5, Zenon DEF OptimHolds
<1>7. Deep(t)  BY <1>6, OptionsAre, Zenon DEF Deep
<1>8. Len(W(t)) = len /\ Len(optim.entries) = len  BY <1>3, <1>6
<1>9. \A k \in 1..Len(W(s)) : Dims(W(s)[k], s.embed) = Dims(W(t)[k], t.embed)
  BY <1>2, <1>3, <1>6, <1>8
<1>10. W(s) = W(t)  BY <1>2, <1>7, <1>8, <1>9, DimsTellTheShape
<1>11. QED  BY <1>2, <1>6, <1>8, <1>10

(* A command's argv tells the trainer what its wrapper resolved.           *)
LEMMA ConfigureKeeps ==
    ASSUME CheckpointInv, NEW cmd \in Trainings, Configure(cmd)
    PROVE  CheckpointInv'
<1> USE DEF CheckpointInv
<1> PICK cfg, p : cfg = Layered(cmd, TrainConfig) /\ p = [phase |-> "load", cmd |-> cmd, opt |-> WithLayers(cfg)]
  OBVIOUS
<1>1. DOMAIN cfg = TrainFields /\ cfg = [x \in TrainFields |-> cfg[x]]  BY OptionsAre, Zenon
<1>2. ParseTraining(ToArgv(cfg, TrainConfig)) = cfg  BY <1>1, ArgvKeepsTraining, Zenon
<1>3. /\ proc = Idle /\ runs < MaxRuns /\ resolved' = cfg /\ runs' = runs + 1 /\ last' = NotRun
      /\ UNCHANGED <<file, optim, lmfile, saved>>
  BY Zenon DEF Configure
<1>4. proc' = p  BY <1>2, Zenon DEF Configure
<1>5. p.phase = "load" /\ p.cmd = cmd /\ p.opt = WithLayers(cfg)  OBVIOUS
<1>6. runs' \in 0..MaxRuns /\ runs' # 0 /\ runs' - 1 = runs  BY <1>3, CommandsAssumption DEF RunsAre
<1>7. proc.phase # "load"  BY <1>3 DEF Idle
<1>8. Latest' = Latest  BY <1>4, <1>5, <1>6, <1>7 DEF Latest
<1>9. ToLoad(proc)'
  <2>1. p = [phase |-> "load", cmd |-> p.cmd, opt |-> p.opt]  BY <1>5
  <2>2. (Commanded(p))'  BY <1>3, <1>5 DEF Commanded
  <2>3. QED  BY <1>4, <1>6, <2>1, <2>2 DEF ToLoad, Commanded
<1>10. RunsAre' /\ ResolvedIs' /\ ProcIs'  BY <1>3, <1>6, <1>9 DEF RunsAre, ResolvedIs, ProcIs
<1>11. SavedIs' /\ FileIs' /\ OptimIs' /\ LmIs'
  BY <1>3, <1>8, Zenon DEF SavedIs, FileIs, OptimIs, LmIs, IsSaved
<1>12. LastIs'
  <2>1. ~last'.ran  BY <1>3 DEF NotRun
  <2>2. QED  BY <2>1 DEF LastIs
<1>13. QED  BY <1>10, <1>11, <1>12

(* A process that ends, or could not load, leaves the files as they are.   *)
LEMMA EndKeeps ==
    ASSUME CheckpointInv, proc.phase \in {"load", "train"}, proc' = Idle,
           UNCHANGED <<resolved, file, optim, lmfile, runs, saved, last>>
    PROVE  CheckpointInv'
<1> USE DEF CheckpointInv
<1>1. proc # Idle /\ ~last.ran /\ Idle.phase # "load"  BY DEF Idle, LastIs
<1>2. Latest' = runs  BY <1>1 DEF Latest
<1>3. \A m : IsSaved(m, Latest) => IsSaved(m, Latest)'
  <2>1. runs \in Nat  BY DEF RunsAre
  <2>2. CASE proc.phase = "load"
    <3>1. runs # 0
      <4>1. ~InTraining(proc)
        <5>1. \A p : InTraining(p) => p.phase = "train"  BY DEF InTraining
        <5>2. QED  BY <2>2, <5>1
      <4>2. QED  BY <1>1, <4>1 DEF ProcIs, ToLoad
    <3>2. Latest = runs - 1 /\ Latest \in Nat /\ Latest <= runs  BY <2>1, <2>2, <3>1 DEF Latest
    <3>3. \A m : IsSaved(m, Latest) => IsSaved(m, runs)  BY <2>1, <3>2, SavedBefore
    <3>4. QED  BY <1>2, <3>3 DEF IsSaved
  <2>3. CASE proc.phase # "load"
    <3>1. Latest = runs  BY <2>3 DEF Latest
    <3>2. QED  BY <1>2, <3>1 DEF IsSaved
  <2>4. QED  BY <2>2, <2>3
<1>4. ProcIs'  BY DEF ProcIs
<1>5. RunsAre' /\ ResolvedIs'  BY DEF RunsAre, ResolvedIs
<1>6. SavedIs' /\ FileIs'  BY <1>3, Zenon DEF SavedIs, FileIs, FileHolds
<1>7. OptimIs' /\ LmIs'  BY Zenon DEF OptimIs, LmIs
<1>8. LastIs'  BY <1>1 DEF LastIs
<1>9. QED  BY <1>4, <1>5, <1>6, <1>7, <1>8

(* What a command that starts the training starts from.                    *)
LEMMA StartKeeps ==
    ASSUME CheckpointInv, Start
    PROVE  CheckpointInv'
<1>10. PICK cmd, opt, s, torch :
        cmd = proc.cmd /\ opt = proc.opt /\ s = Shape(opt) /\ torch = (cmd.backend = "torch")
  OBVIOUS
<1>11. PICK loads :
        loads = /\ cmd.resume => IF torch THEN TorchAccepts(file, s) ELSE ModelAccepts(file, s)
                /\ ~torch /\ opt.entropy_patches => LmAccepted(opt)
                /\ ~torch /\ cmd.moments => MomentsAccepted(s)
  OBVIOUS
<1>12. PICK params :
        params = CASE ~cmd.resume -> FreshModel(s, runs, cmd.backend)
                   [] cmd.resume /\ torch -> TorchLoaded(file, s)
                   [] cmd.resume /\ ~torch -> Loaded(file, TensorAt(s))
  OBVIOUS
<1>13. PICK moments :
        moments = [i \in DOMAIN MomentPairs(s) |->
                    IF ~torch /\ cmd.moments THEN optim.entries[i].value ELSE {}]
  OBVIOUS
<1>14. PICK p :
        p = [phase |-> "train", cmd |-> cmd, opt |-> opt, params |-> params, moments |-> moments]
  OBVIOUS
<1>1. /\ proc.phase = "load" /\ proc' = IF loads THEN p ELSE Idle
      /\ UNCHANGED <<resolved, file, optim, lmfile, runs, saved, last>>
  BY <1>10, <1>11, <1>12, <1>13, <1>14, Zenon DEF Start
<1>2. ToLoad(proc)
  <2>1. proc # Idle /\ ~InTraining(proc)
    <3>1. \A q : InTraining(q) => q.phase = "train"  BY DEF InTraining
    <3>2. QED  BY <1>1, <3>1 DEF Idle
  <2>2. QED  BY <2>1 DEF CheckpointInv, ProcIs
<1>3. /\ cmd \in Trainings /\ cmd.backend \in {"c", "torch"} /\ cmd.resume \in BOOLEAN
      /\ cmd.moments \in BOOLEAN /\ resolved = Layered(cmd, TrainConfig) /\ opt = WithLayers(resolved)
  BY <1>2, <1>10, CommandsAssumption DEF ToLoad, Commanded
<1>4. Deep(opt)  BY <1>3, OptionsAre, Zenon DEF Deep
<1>5. Deep(s) /\ W(s) = W(opt) /\ Parameters(s) = Parameters(opt)  BY <1>4, <1>10, WalkOfShape DEF Deep
<1>6. runs \in Nat /\ runs # 0 /\ Latest = runs - 1 /\ Latest \in Nat
  BY <1>1, <1>2 DEF CheckpointInv, RunsAre, ToLoad, Latest
<1>7. CASE ~loads
  <2>1. proc' = Idle  BY <1>1, <1>7
  <2>2. QED  BY <1>1, <2>1, EndKeeps
<1>8. CASE loads
  <2>1. cmd.resume /\ torch => TorchAccepts(file, s)  BY <1>8, <1>11
  <2>2. cmd.resume /\ ~torch => Accepts(file, TensorAt(s), s.embed)  BY <1>8, <1>11 DEF ModelAccepts
  <2>3. ~torch /\ cmd.moments => MomentsAccepted(s)  BY <1>8, <1>11
  <2>4. Begun(params, opt, torch, runs)
    <3>1. CASE ~cmd.resume
      <4>1. params = FreshModel(s, runs, cmd.backend)  BY <3>1, <1>12
      <4>2. PICK backend : backend = cmd.backend  OBVIOUS
      <4>3. Begun(FreshModel(s, runs, backend), opt, torch, runs)  BY <1>6, <1>10, <4>2, FreshIs
      <4>4. QED  BY <4>1, <4>2, <4>3, Zenon
    <3>2. CASE cmd.resume
      <4>1. PICK m : m = saved /\ IsSaved(m, Latest) /\ FileHolds(file, m)
        <5>1. file.header
          <6>1. CASE torch  BY <2>1, <3>2, <6>1 DEF TorchAccepts
          <6>2. CASE ~torch  BY <2>2, <3>2, <6>2 DEF Accepts
          <6>3. QED  BY <6>1, <6>2
        <5>2. file # NoHeader  BY <5>1 DEF NoHeader
        <5>3. QED  BY <5>2 DEF CheckpointInv, FileIs
      <4>2. Brings(params, s, m, torch)
        <5>1. CASE torch
          <6>1. params = TorchLoaded(file, s)  BY <1>12, <3>2, <5>1
          <6>2. torch = TRUE  BY <1>10, <5>1
          <6>3. Brings(TorchLoaded(file, s), s, m, torch)  BY <2>1, <3>2, <4>1, <6>2, TorchLoadedIs
          <6>4. QED  BY <6>1, <6>3, Zenon
        <5>2. CASE ~torch
          <6>1. params = Loaded(file, TensorAt(s))  BY <1>12, <3>2, <5>2
          <6>2. torch = FALSE  BY <1>10, <5>2
          <6>3. Accepts(file, TensorAt(s), s.embed)  BY <2>2, <3>2, <5>2
          <6>4. Brings(Loaded(file, TensorAt(s)), s, m, torch)  BY <1>5, <4>1, <6>2, <6>3, LoadedIs
          <6>5. QED  BY <6>1, <6>4, Zenon
        <5>3. QED  BY <5>1, <5>2
      <4>3. Brings(params, opt, m, torch)  BY <1>5, <4>2, Zenon DEF Brings
      <4>4. QED  BY <1>6, <4>1, <4>3, KeptIs
    <3>3. QED  BY <1>3, <3>1, <3>2
  <2>5. MomentsAre(moments, opt)
    <3>1. MomentPairs(s) = W(s) /\ DOMAIN W(s) = 1..Len(W(s))  BY <1>5, WalksAgree, WalkIsSequence
    <3>2. DOMAIN moments = 1..Len(W(opt))  BY <1>5, <1>13, <3>1
    <3>3. ASSUME NEW i \in 1..Len(W(opt))  PROVE moments[i] \subseteq {W(opt)[i]}
      <4>1. moments[i] = IF ~torch /\ cmd.moments THEN optim.entries[i].value ELSE {}
        BY <1>5, <1>13, <3>1
      <4>2. ~torch /\ cmd.moments => optim.entries[i].value \subseteq {W(opt)[i]}
        BY <1>5, <2>3, MomentsAreTheirs DEF CheckpointInv
      <4>3. CASE ~torch /\ cmd.moments  BY <4>1, <4>2, <4>3
      <4>4. CASE ~(~torch /\ cmd.moments)  BY <4>1, <4>4
      <4>5. QED  BY <4>3, <4>4
    <3>4. QED  BY <3>2, <3>3 DEF MomentsAre
  <2>6. InTraining(proc)'
    <3>1. /\ p.cmd = cmd /\ p.opt = opt /\ p.params = params /\ p.moments = moments
      BY <1>14
    <3>2. p = [phase |-> "train", cmd |-> p.cmd, opt |-> p.opt, params |-> p.params, moments |-> p.moments]
      BY <1>14, <3>1, Zenon
    <3>3. proc' = p  BY <1>1, <1>8
    <3>4. Commanded(p)'  BY <1>1, <1>3, <3>1 DEF Commanded
    <3>5. Trained(p)'
      <4>1. ParamsAre(p.params, p.opt, p.cmd.backend = "torch", runs)  BY <1>10, <2>4, <3>1, Zenon DEF Begun
      <4>2. MomentsAre(p.moments, p.opt)  BY <2>5, <3>1, Zenon
      <4>3. \A n \in Parameters(p.opt) : p.params[n].decayed => p.params[n].run # runs
        BY <2>4, <3>1, Zenon DEF Begun
      <4>4. runs' = runs  BY <1>1
      <4>5. QED  BY <4>1, <4>2, <4>3, <4>4, Zenon DEF Trained
    <3>6. QED  BY <3>2, <3>3, <3>4, <3>5 DEF InTraining, Commanded
  <2>7. proc'.phase = "train"  BY <1>1, <1>8, <1>14
  <2>8. Latest' = runs  BY <1>1, <2>7 DEF Latest
  <2>9. \A m : IsSaved(m, Latest) => IsSaved(m, Latest)'
    <3>1. Latest <= runs  BY <1>6
    <3>2. \A m : IsSaved(m, Latest) => IsSaved(m, runs)  BY <1>6, <3>1, SavedBefore
    <3>3. QED  BY <2>8, <3>2 DEF IsSaved
  <2>10. ProcIs'  BY <2>6 DEF ProcIs
  <2>11. RunsAre' /\ ResolvedIs'  BY <1>1 DEF CheckpointInv, RunsAre, ResolvedIs
  <2>12. SavedIs' /\ FileIs'  BY <1>1, <2>9, Zenon DEF CheckpointInv, SavedIs, FileIs, FileHolds
  <2>13. OptimIs' /\ LmIs'  BY <1>1, Zenon DEF CheckpointInv, OptimIs, LmIs
  <2>14. LastIs'
    <3>1. ~last.ran  BY <1>1 DEF CheckpointInv, LastIs, Idle
    <3>2. QED  BY <1>1, <3>1 DEF LastIs
  <2>15. QED  BY <2>10, <2>11, <2>12, <2>13, <2>14 DEF CheckpointInv
<1>9. QED  BY <1>7, <1>8

(* A process in its training phase trains a command's model.               *)
LEMMA TrainingPhase ==
    ASSUME CheckpointInv, proc.phase = "train"
    PROVE  InTraining(proc) /\ ~last.ran /\ Latest = runs /\ runs \in Nat
<1>1. \A p : ToLoad(p) => p.phase = "load"  BY DEF ToLoad
<1>2. proc # Idle /\ ~ToLoad(proc)  BY <1>1 DEF Idle
<1>3. QED  BY <1>2 DEF CheckpointInv, ProcIs, LastIs, RunsAre, Latest

(* One optimizer pass moves a parameter by its own gradient and moments.   *)
LEMMA StepKeeps ==
    ASSUME CheckpointInv, Step
    PROVE  CheckpointInv'
<1>1. InTraining(proc) /\ ~last.ran /\ Latest = runs /\ runs \in Nat  BY TrainingPhase DEF Step
<1>2. PICK cmd, opt, params, moments :
        cmd = proc.cmd /\ opt = proc.opt /\ params = proc.params /\ moments = proc.moments
  OBVIOUS
<1>3. /\ proc = [phase |-> "train", cmd |-> cmd, opt |-> opt, params |-> params, moments |-> moments]
      /\ Commanded(proc) /\ Trained(proc)
  BY <1>1, <1>2, Zenon DEF InTraining
<1>4. Deep(opt) /\ cmd.backend \in {"c", "torch"}  BY <1>1, <1>2, SavedIsTrained DEF CheckpointInv
<1>5. PICK len \in Nat : len = Len(W(opt)) /\ DOMAIN W(opt) = 1..len  BY <1>4, WalkIsSequence
<1> DEFINE pairs0 == ParamPairs(Shape(proc.opt))
           at0 == [n \in {pairs0[i].w : i \in DOMAIN pairs0} |->
                    CHOOSE i \in DOMAIN pairs0 : pairs0[i].w = n]
           moments0 == [i \in DOMAIN pairs0 |-> proc.moments[i] \cup {pairs0[i].g}]
           params0 == [n \in DOMAIN proc.params |->
                        [from |-> proc.params[n].from \cup moments0[at0[n]], run |-> runs,
                         turned |-> proc.params[n].turned,
                         decayed |-> proc.cmd.backend = "torch" \/ pairs0[at0[n]].decay]]
<1>28. /\ proc' = [proc EXCEPT !.params = params0, !.moments = moments0]
       /\ UNCHANGED <<resolved, file, optim, lmfile, runs, saved, last>>
  BY Zenon DEF Step
<1>6. PICK pairs : pairs = pairs0  OBVIOUS
<1>29. pairs = ParamPairs(Shape(opt))  BY <1>2, <1>6
<1>7. pairs = [i \in 1..len |-> [w |-> W(opt)[i], g |-> W(opt)[i], decay |-> W(opt)[i][3] \notin Norms]]
  BY <1>5, <1>29, WalkOfShape, WalksAgree
<1>8. /\ DOMAIN pairs = 1..len
      /\ \A i \in 1..len : pairs[i].w = W(opt)[i] /\ pairs[i].g = W(opt)[i]
      /\ \A i \in 1..len : pairs[i].decay = (W(opt)[i][3] \notin Norms)
  BY <1>7
<1> HIDE DEF pairs0
<1>30. PICK at : at = at0  OBVIOUS
<1>9. at = [n \in {pairs[i].w : i \in DOMAIN pairs} |-> CHOOSE i \in DOMAIN pairs : pairs[i].w = n]
  BY <1>6, <1>30
<1> HIDE DEF at0
<1>31. PICK M : M = moments0  OBVIOUS
<1>10. M = [i \in DOMAIN pairs |-> moments[i] \cup {pairs[i].g}]  BY <1>2, <1>6, <1>31
<1> HIDE DEF moments0
<1>32. PICK P : P = params0  OBVIOUS
<1>11. P = [n \in DOMAIN params |->
                [from |-> params[n].from \cup M[at[n]], run |-> runs, turned |-> params[n].turned,
                 decayed |-> cmd.backend = "torch" \/ pairs[at[n]].decay]]
  BY <1>2, <1>6, <1>30, <1>31, <1>32, Zenon
<1> HIDE DEF params0
<1>12. /\ proc' = [proc EXCEPT !.params = P, !.moments = M]
       /\ UNCHANGED <<resolved, file, optim, lmfile, runs, saved, last>>
  BY <1>28, <1>31, <1>32, Zenon
<1>13. PICK p : p = [phase |-> "train", cmd |-> cmd, opt |-> opt, params |-> P, moments |-> M]  OBVIOUS
<1>14. proc' = p
  <2>1. proc' = [[proc EXCEPT !.params = P] EXCEPT !.moments = M]  BY <1>12, Zenon
  <2>2. PICK q : q = [phase |-> "train", cmd |-> cmd, opt |-> opt, params |-> P, moments |-> moments]
    OBVIOUS
  <2>3. [proc EXCEPT !.params = P] = q
    <3>1. [proc EXCEPT !.params = P] =
            [[phase |-> "train", cmd |-> cmd, opt |-> opt, params |-> params, moments |-> moments]
                EXCEPT !.params = P]
      BY <1>3, Zenon
    <3>2. QED  BY <2>2, <3>1
  <2>4. [q EXCEPT !.moments = M] = p
    <3>1. [q EXCEPT !.moments = M] =
            [[phase |-> "train", cmd |-> cmd, opt |-> opt, params |-> P, moments |-> moments]
                EXCEPT !.moments = M]
      BY <2>2, Zenon
    <3>2. QED  BY <1>13, <3>1
  <2>5. QED  BY <2>1, <2>3, <2>4, Zenon
<1>15. /\ ParamsAre(params, opt, cmd.backend = "torch", runs) /\ MomentsAre(moments, opt)
  BY <1>2, <1>3, Zenon DEF Trained
<1>16. MomentsAre(M, opt)
  <2>1. ASSUME NEW i \in 1..len  PROVE M[i] \subseteq {W(opt)[i]}
    <3>1. M[i] = moments[i] \cup {W(opt)[i]}  BY <1>8, <1>10
    <3>2. moments[i] \subseteq {W(opt)[i]}  BY <1>5, <1>15 DEF MomentsAre
    <3>3. QED  BY <3>1, <3>2
  <2>2. DOMAIN M = 1..len  BY <1>8, <1>10
  <2>3. QED  BY <1>5, <2>1, <2>2 DEF MomentsAre
<1>17. DOMAIN P = Parameters(opt)  BY <1>11, <1>15, Zenon DEF ParamsAre
<1>18. ASSUME NEW n \in Parameters(opt)
       PROVE  /\ IsValue(P[n], n, cmd.backend = "torch" /\ n[3] \in Linear, runs)
              /\ cmd.backend = "c" => (P[n].decayed => n[3] \notin {"norm1", "norm2", "cross_norm"})
  <2>1. PICK j \in 1..len : W(opt)[j] = n  BY <1>4, <1>5, WalkIsSequence
  <2>2. PICK k : k = at[n]  OBVIOUS
  <2>3. k \in 1..len /\ W(opt)[k] = n
    <3>1. j \in DOMAIN pairs /\ pairs[j].w = n  BY <1>8, <2>1
    <3>2. k = CHOOSE i \in DOMAIN pairs : pairs[i].w = n  BY <1>9, <2>2, <3>1
    <3>3. k \in DOMAIN pairs /\ pairs[k].w = n  BY <3>1, <3>2
    <3>4. QED  BY <1>8, <3>3
  <2>4. M[k] \subseteq {n}  BY <1>5, <1>16, <2>3 DEF MomentsAre
  <2>5. pairs[k].decay = (n[3] \notin Norms)  BY <1>8, <2>3
  <2>6. PICK t, v : t = (cmd.backend = "torch" /\ n[3] \in Linear) /\ v = params[n]  OBVIOUS
  <2>7. IsValue(v, n, t, runs)  BY <1>15, <2>6, Zenon DEF ParamsAre
  <2>8. PICK f, d : f = v.from \cup M[k] /\ d = (cmd.backend = "torch" \/ pairs[k].decay)  OBVIOUS
  <2>9. v.from = {n} /\ v.turned = t  BY <2>7 DEF IsValue
  <2>10. f = {n}  BY <2>4, <2>8, <2>9
  <2>11. P[n] = [from |-> f, run |-> runs, turned |-> v.turned, decayed |-> d]
    BY <1>11, <1>17, <2>2, <2>6, <2>8, Zenon
  <2>12. PICK u : u = P[n]  OBVIOUS
  <2>13. u = [from |-> {n}, run |-> runs, decayed |-> d, turned |-> t]  BY <2>9, <2>10, <2>11, <2>12
  <2>14. u.run = runs /\ u.decayed = d /\ runs \in 0..runs  BY <1>1, <2>13
  <2>15. IsValue(u, n, t, runs)  BY <2>13, <2>14, Zenon DEF IsValue
  <2>16. ASSUME cmd.backend = "c", u.decayed  PROVE n[3] \notin {"norm1", "norm2", "cross_norm"}
    <3>1. n[3] \notin Norms  BY <2>5, <2>8, <2>14, <2>16
    <3>2. Norms = {"norm1", "norm2", "cross_norm"}  BY DEF Norms, self_tensor, cross_tensor
    <3>3. QED  BY <3>1, <3>2
  <2>17. QED  BY <2>6, <2>12, <2>15, <2>16, Zenon
<1>19. InTraining(proc)'
  <2>1. p.cmd = cmd /\ p.opt = opt /\ p.params = P /\ p.moments = M /\ p.phase = "train"  BY <1>13
  <2>2. p = [phase |-> "train", cmd |-> p.cmd, opt |-> p.opt, params |-> p.params, moments |-> p.moments]
    BY <1>13, <2>1, Zenon
  <2>3. Commanded(p)'  BY <1>2, <1>3, <1>12, <2>1 DEF Commanded
  <2>4. ParamsAre(p.params, p.opt, p.cmd.backend = "torch", runs)
    BY <1>17, <1>18, <2>1, Zenon DEF ParamsAre
  <2>5. MomentsAre(p.moments, p.opt)  BY <1>16, <2>1, Zenon
  <2>6. runs' = runs  BY <1>12
  <2>7. \A n \in Parameters(p.opt) : p.cmd.backend = "c" =>
            (p.params[n].decayed => n[3] \notin {"norm1", "norm2", "cross_norm"})
    BY <1>18, <2>1, Zenon
  <2>8. Trained(p)'  BY <2>4, <2>5, <2>6, <2>7, Zenon DEF Trained
  <2>9. QED  BY <1>14, <2>2, <2>3, <2>8 DEF InTraining, Commanded
<1>20. proc'.phase = "train"  BY <1>13, <1>14
<1>21. Latest' = Latest  BY <1>1, <1>12, <1>20 DEF Latest
<1>22. ProcIs'  BY <1>19 DEF ProcIs
<1>23. RunsAre' /\ ResolvedIs'  BY <1>12 DEF CheckpointInv, RunsAre, ResolvedIs
<1>24. SavedIs' /\ FileIs'  BY <1>12, <1>21, Zenon DEF CheckpointInv, SavedIs, FileIs, FileHolds, IsSaved
<1>25. OptimIs' /\ LmIs'  BY <1>12, Zenon DEF CheckpointInv, OptimIs, LmIs
<1>26. LastIs'  BY <1>1, <1>12 DEF LastIs
<1>27. QED  BY <1>22, <1>23, <1>24, <1>25, <1>26 DEF CheckpointInv

(* What a save needs to keep: a checkpoint of the model in training, whole *)
(* or in part, or none.                                                    *)
LEMMA SavesKeep ==
    ASSUME CheckpointInv, InTraining(proc), ~last.ran, proc' \in {proc, Idle}, saved' = Saved,
           UNCHANGED <<resolved, lmfile, runs, last>>,
           file' = NoHeader \/ FileHolds(file', Saved), OptimIs'
    PROVE  CheckpointInv'
<1>1. proc.phase = "train" /\ Idle.phase = "idle"  BY DEF InTraining, Idle
<1>2. Latest' = runs  BY <1>1 DEF Latest
<1>3. IsSaved(saved', Latest')  BY <1>2, SavedIsTrained DEF CheckpointInv
<1>4. SavedIs' /\ FileIs'
  <2>1. PICK u : u = Latest'  OBVIOUS
  <2>2. IsSaved(saved', u) /\ (file' = NoHeader \/ FileHolds(file', saved'))  BY <1>3, <2>1, Zenon
  <2>3. QED  BY <2>1, <2>2, Zenon DEF SavedIs, FileIs
<1>5. ProcIs'
  <2>1. CASE proc' = Idle  BY <2>1 DEF ProcIs
  <2>2. CASE proc' = proc
    <3>1. InTraining(proc)'  BY <2>2, Zenon DEF InTraining, Commanded, Trained
    <3>2. QED  BY <3>1 DEF ProcIs
  <2>3. QED  BY <2>1, <2>2
<1>6. RunsAre' /\ ResolvedIs'  BY DEF CheckpointInv, RunsAre, ResolvedIs
<1>7. LmIs' /\ LastIs'  BY DEF CheckpointInv, LmIs, LastIs
<1>8. QED  BY <1>4, <1>5, <1>6, <1>7 DEF CheckpointInv

(* The optimizer file holds the moments of the model in training, all or   *)
(* the first of them.                                                      *)
LEMMA MomentsFileIs ==
    ASSUME RunsAre, InTraining(proc), NEW k \in Nat
    PROVE  OptimHolds(MomentsFile) /\ OptimHolds(CutAt(MomentsFile, k))
<1>1. PICK cmd, opt, moments : cmd = proc.cmd /\ opt = proc.opt /\ moments = proc.moments  OBVIOUS
<1>2. cmd \in Trainings /\ opt = WithLayers(Layered(cmd, TrainConfig)) /\ MomentsAre(moments, opt)
  BY <1>1 DEF InTraining, Commanded, Trained
<1>3. PICK len \in Nat : len = Len(W(opt)) /\ DOMAIN W(opt) = 1..len
  BY <1>1, SavedIsTrained, WalkIsSequence
<1>4. MomentPairs(Shape(opt)) = W(opt)  BY WalkOfShape, WalksAgree
<1>5. PICK E : E = [i \in 1..len |-> Entry(NoName, Dims(W(opt)[i], opt.embed), moments[i])]  OBVIOUS
<1>6. MomentsFile = File(NoOptions, E)  BY <1>1, <1>3, <1>4, <1>5, Zenon DEF MomentsFile
<1>7. Len(E) = len  BY <1>5
<1>8. PICK f : f = [header |-> TRUE, meta |-> NoOptions, num |-> len, entries |-> E]  OBVIOUS
<1>9. MomentsFile = f  BY <1>6, <1>7, <1>8, Zenon DEF File
<1>10. ASSUME NEW i \in 1..len
       PROVE  E[i].dims = Dims(W(opt)[i], opt.embed) /\ E[i].value \subseteq {W(opt)[i]}
  <2>1. PICK d, m : d = Dims(W(opt)[i], opt.embed) /\ m = moments[i]  OBVIOUS
  <2>2. E[i] = [name |-> NoName, dims |-> d, value |-> m]  BY <1>5, <2>1, Zenon DEF Entry
  <2>3. m \subseteq {W(opt)[i]}  BY <1>2, <1>3, <2>1 DEF MomentsAre
  <2>4. QED  BY <2>1, <2>2, <2>3
<1>11. ASSUME NEW o, NEW q \in 0..len, o.num = len, o.entries = [i \in 1..q |-> E[i]]
       PROVE  OptimHolds(o)
  <2>1. Len(o.entries) = q /\ \A i \in 1..q : o.entries[i] = E[i] /\ i \in 1..len  BY <1>11
  <2>2. o.num = Len(W(opt)) /\ Len(o.entries) \in 0..Len(W(opt))  BY <1>3, <1>11, <2>1
  <2>3. \A i \in 1..Len(o.entries) :
            o.entries[i].dims = Dims(W(opt)[i], opt.embed) /\ o.entries[i].value \subseteq {W(opt)[i]}
    BY <1>10, <2>1
  <2>4. QED  BY <1>2, <2>2, <2>3, Zenon DEF OptimHolds
<1>12. OptimHolds(f)
  <2>1. f.num = len /\ f.entries = [i \in 1..len |-> E[i]] /\ len \in 0..len  BY <1>5, <1>8
  <2>2. QED  BY <1>11, <2>1
<1>13. OptimHolds(CutAt(f, k))
  <2>1. /\ f.header = TRUE /\ f.meta = NoOptions /\ f.num = len /\ f.entries = E  BY <1>8
  <2>2. f = [header |-> f.header, meta |-> f.meta, num |-> f.num, entries |-> f.entries]
    BY <1>8, <2>1, Zenon
  <2>3. PICK q \in 0..len : CutAt(f, k) = [header |-> f.header, meta |-> f.meta, num |-> f.num,
                                          entries |-> [i \in 1..q |-> f.entries[i]]]
    BY <1>7, <2>1, <2>2, CutIs
  <2>4. PICK o, h : o = CutAt(f, k) /\ h = [i \in 1..q |-> E[i]]  OBVIOUS
  <2>5. o = [header |-> TRUE, meta |-> NoOptions, num |-> len, entries |-> h]
    BY <2>1, <2>3, <2>4, Zenon
  <2>6. o.num = len /\ o.entries = h  BY <2>5
  <2>7. OptimHolds(o)  BY <1>11, <2>4, <2>6
  <2>8. QED  BY <2>4, <2>7
<1>14. QED  BY <1>9, <1>12, <1>13

(* A checkpoint of the model in training, or what a kill leaves of it.     *)
LEMMA WrittenKeeps ==
    ASSUME RunsAre, InTraining(proc), NEW meta \in {NoOptions, Meta(proc.opt)}, NEW k \in Nat
    PROVE  FileHolds(Written(meta), Saved) /\ FileHolds(CutAt(Written(meta), k), Saved)
<1>1. FileHolds(Written(meta), Saved) /\ Len(Written(meta).entries) = Len(W(proc.opt))  BY WrittenIs
<1>2. PICK f, m : f = Written(meta) /\ m = Saved  OBVIOUS
<1>3. PICK len \in Nat : len = Len(W(proc.opt))  BY SavedIsTrained, WalkIsSequence
<1>4. m.opt = proc.opt  BY <1>2, SavedIsTrained
<1>5. FileHolds(f, m) /\ Len(f.entries) = len /\ len = Len(W(m.opt))  BY <1>1, <1>2, <1>3, <1>4
<1>6. FileHolds(CutAt(f, k), m)  BY <1>5, CutHolds
<1>7. QED  BY <1>1, <1>2, <1>6

(* Saves, killed or not, keep the invariant.                               *)
LEMMA AllSavesKeep ==
    ASSUME CheckpointInv, Save \/ SaveBest \/ SaveKilled \/ MomentsKilled
    PROVE  CheckpointInv'
<1>1. proc.phase = "train"  BY Zenon DEF Save, SaveBest, SaveKilled, MomentsKilled
<1>2. InTraining(proc) /\ ~last.ran /\ RunsAre  BY <1>1, TrainingPhase DEF CheckpointInv
<1>3. 0 \in Nat /\ Cuts \subseteq Nat  BY CommandsAssumption
<1>4. \A meta \in {NoOptions, Meta(proc.opt)}, k \in Nat :
        FileHolds(Written(meta), Saved) /\ FileHolds(CutAt(Written(meta), k), Saved)
  BY <1>2, WrittenKeeps
<1>5. \A k \in Nat : OptimHolds(MomentsFile) /\ OptimHolds(CutAt(MomentsFile, k))
  BY <1>2, MomentsFileIs
<1>6. optim' = optim => OptimIs'  BY DEF CheckpointInv, OptimIs
<1>7. OptimHolds(optim') => OptimIs'  BY DEF OptimIs
<1>8. CASE Save
  <2>1. /\ proc' = proc /\ saved' = Saved /\ UNCHANGED <<resolved, lmfile, runs, last>>
        /\ file' = Written(Meta(proc.opt)) /\ (optim' = MomentsFile \/ optim' = optim)
    BY <1>8, Zenon DEF Save
  <2>2. FileHolds(file', Saved)  BY <1>3, <1>4, <2>1
  <2>3. OptimIs'  BY <1>3, <1>5, <1>6, <1>7, <2>1
  <2>4. QED  BY <1>2, <2>1, <2>2, <2>3, SavesKeep
<1>9. CASE SaveBest
  <2>1. /\ proc' = proc /\ saved' = Saved /\ UNCHANGED <<resolved, lmfile, runs, last>>
        /\ file' = Written(NoOptions) /\ optim' = optim
    BY <1>9, Zenon DEF SaveBest
  <2>2. FileHolds(file', Saved)  BY <1>3, <1>4, <2>1
  <2>3. QED  BY <1>2, <1>6, <2>1, <2>2, SavesKeep
<1>10. CASE SaveKilled
  <2>1. /\ proc' = Idle /\ saved' = Saved /\ UNCHANGED <<resolved, lmfile, runs, last>>
        /\ \E k \in Cuts : file' \in {CutAt(Written(Meta(proc.opt)), k), NoHeader}
        /\ optim' = optim
    BY <1>10, Zenon DEF SaveKilled
  <2>2. file' = NoHeader \/ FileHolds(file', Saved)
    <3>1. PICK k \in Cuts : file' = NoHeader \/ file' = CutAt(Written(Meta(proc.opt)), k)  BY <2>1
    <3>2. FileHolds(CutAt(Written(Meta(proc.opt)), k), Saved)  BY <1>3, <1>4
    <3>3. QED  BY <3>1, <3>2
  <2>3. QED  BY <1>2, <1>6, <2>1, <2>2, SavesKeep
<1>11. CASE MomentsKilled
  <2>1. /\ proc' = Idle /\ saved' = Saved /\ UNCHANGED <<resolved, lmfile, runs, last>>
        /\ file' = Written(Meta(proc.opt)) /\ \E k \in Cuts : optim' = CutAt(MomentsFile, k)
    BY <1>11, Zenon DEF MomentsKilled
  <2>2. FileHolds(file', Saved)  BY <1>3, <1>4, <2>1
  <2>3. OptimIs'
    <3>1. PICK k \in Cuts : optim' = CutAt(MomentsFile, k)  BY <2>1
    <3>2. OptimHolds(CutAt(MomentsFile, k))  BY <1>3, <1>5
    <3>3. QED  BY <1>7, <3>1, <3>2
  <2>4. QED  BY <1>2, <2>1, <2>2, <2>3, SavesKeep
<1>12. QED  BY <1>8, <1>9, <1>10, <1>11

(* The entropy model's file has no more entries than its header says.      *)
LEMMA TrainLmKeeps ==
    ASSUME CheckpointInv, TrainLm
    PROVE  CheckpointInv'
<1> DEFINE values0 == [n \in {t.tensor : t \in Range(LmTensors)} |-> Value(n, 0, FALSE)]
           names == <<<<"ent", -1, "embed">>>> \o Layers("ent", 1, SELF_NAMES) \o <<<<"ent", -1, "lm_head">>>>
<1>1. /\ proc = Idle /\ last' = NotRun /\ UNCHANGED <<resolved, file, optim, proc, runs, saved>>
      /\ \/ lmfile' = File(NoOptions, Entries(LmTensors, 32, values0))
         \/ \E k \in Cuts : lmfile' = CutAt(File(NoOptions, Entries(LmTensors, 32, values0)), k)
  BY Zenon DEF TrainLm
<1>2. PICK len \in Nat : DOMAIN LmTensors = 1..len
  <2>1. \E S : Layers("ent", 1, SELF_NAMES) \in Seq(S)
    <3>1. Len(SELF_NAMES) = 7  BY DEF SELF_NAMES
    <3>2. PICK L : L = Layers("ent", 1, SELF_NAMES)  OBVIOUS
    <3>3. DOMAIN L = 1..7 /\ L = [i \in 1..7 |-> L[i]]  BY <3>1, <3>2 DEF Layers
    <3>4. PICK S : S = {L[i] : i \in 1..7}  OBVIOUS
    <3>5. \A i \in 1..7 : L[i] \in S  BY <3>4
    <3>6. L \in Seq(S)  BY <3>3, <3>5
    <3>7. QED  BY <3>2, <3>6
  <2>2. PICK S : Layers("ent", 1, SELF_NAMES) \in Seq(S)  BY <2>1
  <2>3. PICK a, b, c, T : /\ a = <<<<"ent", -1, "embed">>>> /\ c = <<<<"ent", -1, "lm_head">>>>
                          /\ b = Layers("ent", 1, SELF_NAMES)
                          /\ T = S \cup {<<"ent", -1, "embed">>, <<"ent", -1, "lm_head">>}
    OBVIOUS
  <2>4. a \in Seq(T) /\ c \in Seq(T)  BY <2>3
  <2>5. b \in Seq(T)  BY <2>2, <2>3
  <2>6. (a \o b) \o c \in Seq(T)  BY <2>4, <2>5
  <2>7. names \in Seq(T)  BY <2>3, <2>6
  <2> HIDE DEF names
  <2>8. DOMAIN names = 1..Len(names) /\ Len(names) \in Nat  BY <2>7
  <2>9. DOMAIN LmTensors = DOMAIN names  BY Zenon DEF LmTensors, names
  <2>10. QED  BY <2>8, <2>9
<1>3. PICK E : E = Entries(LmTensors, 32, values0)  OBVIOUS
<1> HIDE DEF values0
<1>4. DOMAIN E = 1..len /\ E = [i \in 1..len |-> E[i]]  BY <1>2, <1>3, Zenon DEF Entries
<1>5. Len(E) = len  BY <1>4
<1>6. PICK f : f = [header |-> TRUE, meta |-> NoOptions, num |-> len, entries |-> E]  OBVIOUS
<1>7. f = File(NoOptions, E)  BY <1>5, <1>6, Zenon DEF File
<1>8. f.header = TRUE /\ f.meta = NoOptions /\ f.num = len /\ f.entries = E  BY <1>6
<1>9. LmIs'
  <2>1. CASE lmfile' = f  BY <1>5, <1>8, <2>1 DEF LmIs
  <2>2. ASSUME NEW k \in Cuts, lmfile' = CutAt(f, k)  PROVE LmIs'
    <3>1. k \in Nat  BY CommandsAssumption
    <3>2. f = [header |-> f.header, meta |-> f.meta, num |-> f.num, entries |-> f.entries]
      BY <1>6, <1>8, Zenon
    <3>3. PICK q \in 0..len : CutAt(f, k) = [header |-> f.header, meta |-> f.meta, num |-> f.num,
                                            entries |-> [i \in 1..q |-> f.entries[i]]]
      BY <1>5, <1>8, <3>1, <3>2, CutIs
    <3>4. PICK o, h : o = CutAt(f, k) /\ h = [i \in 1..q |-> E[i]]  OBVIOUS
    <3>5. o = [header |-> TRUE, meta |-> NoOptions, num |-> len, entries |-> h]
      BY <1>8, <3>3, <3>4, Zenon
    <3>6. o.num = len /\ o.entries = h /\ Len(h) = q  BY <3>4, <3>5
    <3>7. Len(o.entries) <= o.num  BY <3>6
    <3>8. QED  BY <2>2, <3>4, <3>7 DEF LmIs
  <2>3. QED  BY <1>1, <1>3, <1>7, <2>1, <2>2
<1>10. RunsAre' /\ ResolvedIs' /\ Latest' = Latest
  BY <1>1 DEF CheckpointInv, RunsAre, ResolvedIs, Latest
<1>11. ProcIs'  BY <1>1 DEF ProcIs
<1>12. SavedIs' /\ FileIs' /\ OptimIs'
  BY <1>1, <1>10, Zenon DEF CheckpointInv, SavedIs, FileIs, OptimIs, FileHolds, IsSaved
<1>13. LastIs'
  <2>1. ~last'.ran  BY <1>1 DEF NotRun
  <2>2. QED  BY <2>1 DEF LastIs
<1>14. QED  BY <1>9, <1>10, <1>11, <1>12, <1>13 DEF CheckpointInv

(* Four layers of options.                                                 *)
LayersOf(h, a, b, c, d) ==
    /\ DOMAIN h = DOMAIN a \cup DOMAIN b \cup DOMAIN c \cup DOMAIN d
    /\ \A x \in DOMAIN a : h[x] = a[x]
    /\ \A x \in DOMAIN b \ DOMAIN a : h[x] = b[x]
    /\ \A x \in DOMAIN c \ (DOMAIN a \cup DOMAIN b) : h[x] = c[x]
    /\ \A x \in DOMAIN d \ (DOMAIN a \cup DOMAIN b \cup DOMAIN c) : h[x] = d[x]

(* Each hides those after it.                                              *)
LEMMA FourLayers ==
    ASSUME NEW a, NEW b, NEW c, NEW d
    PROVE  LayersOf(a ++ b ++ c ++ d, a, b, c, d)
<1>1. PICK u, v, h : u = a ++ b /\ v = u ++ c /\ h = v ++ d  OBVIOUS
<1>2. /\ DOMAIN u = DOMAIN a \cup DOMAIN b /\ \A x \in DOMAIN a : u[x] = a[x]
      /\ \A x \in DOMAIN b \ DOMAIN a : u[x] = b[x]
  BY <1>1 DEF ++
<1>3. /\ DOMAIN v = DOMAIN u \cup DOMAIN c /\ \A x \in DOMAIN u : v[x] = u[x]
      /\ \A x \in DOMAIN c \ DOMAIN u : v[x] = c[x]
  BY <1>1 DEF ++
<1>4. /\ DOMAIN h = DOMAIN v \cup DOMAIN d /\ \A x \in DOMAIN v : h[x] = v[x]
      /\ \A x \in DOMAIN d \ DOMAIN v : h[x] = d[x]
  BY <1>1 DEF ++
<1>5. LayersOf(h, a, b, c, d)  BY <1>2, <1>3, <1>4 DEF LayersOf
<1>6. QED  BY <1>1, <1>5, Zenon

(* What an inference command says, and what it leaves open.                *)
LEMMA SaidIs ==
    ASSUME NEW cmd \in Inferences, NEW L, L = Layered(cmd, InferConfig)
    PROVE  /\ DOMAIN L = InferFields /\ Overridden(cmd) \subseteq InferFields
           /\ \A f \in InferFields : f \in Says(cmd) => ~Unset(L, cmd, f)
           /\ \A f \in InferFields : f \notin Says(cmd) => Unset(L, cmd, f)
           /\ \A f \in ShapeFields : L[f] \in Nat
           /\ cmd.backend \in {"c", "torch"} /\ cmd.beside \in BOOLEAN
<1>1. /\ \A o \in {cmd.yaml, cmd.override, cmd.flags} : DOMAIN o \subseteq DOMAIN InferConfig
      /\ \A f \in ShapeFields : L[f] \in Nat
      /\ cmd.backend \in {"c", "torch"} /\ cmd.beside \in BOOLEAN
  BY CommandsAssumption
<1>2. DOMAIN InferConfig = InferFields  BY FieldsAre
<1>3. /\ DOMAIN L = InferFields
      /\ \A f \in InferFields \ (Overridden(cmd) \cup {x \in DOMAIN cmd.yaml : cmd.yaml[x] # InferConfig[x]}) :
            L[f] = InferConfig[f]
      /\ \A f \in InferFields \ Overridden(cmd) : f \in DOMAIN cmd.yaml => L[f] = cmd.yaml[f]
  BY <1>1, <1>2, LayeredIs
<1>4. Overridden(cmd) \subseteq InferFields  BY <1>1, <1>2 DEF Overridden
<1>5. ASSUME NEW f \in InferFields, f \in Says(cmd)  PROVE ~Unset(L, cmd, f)
  <2>1. CASE f \in Overridden(cmd)  BY <2>1 DEF Unset
  <2>2. CASE f \notin Overridden(cmd)
    <3>1. f \in DOMAIN cmd.yaml /\ cmd.yaml[f] # InferConfig[f]  BY <1>5, <2>2 DEF Says
    <3>2. L[f] = cmd.yaml[f]  BY <1>3, <2>2, <3>1
    <3>3. QED  BY <3>1, <3>2 DEF Unset
  <2>3. QED  BY <2>1, <2>2
<1>6. ASSUME NEW f \in InferFields, f \notin Says(cmd)  PROVE Unset(L, cmd, f)
  <2>1. f \notin Overridden(cmd) /\ L[f] = InferConfig[f]  BY <1>3, <1>6 DEF Says
  <2>2. QED  BY <2>1 DEF Unset
<1>7. QED  BY <1>1, <1>3, <1>4, <1>5, <1>6

(* What the wrapper reads in the checkpoint's metadata.                    *)
LEMMA ReadMetaIs ==
    ASSUME NEW m, FileHolds(file, m)
    PROVE  /\ file.header /\ DOMAIN ReadMeta \subseteq ShapeFields \cup {"block_size"}
           /\ \A f \in ShapeFields \cap DOMAIN ReadMeta : ReadMeta[f] = m.opt[f]
<1>1. /\ file = [header |-> TRUE, meta |-> file.meta, num |-> Len(W(m.opt)), entries |-> file.entries]
      /\ file.meta \in {NoOptions, Meta(m.opt)}
  BY Zenon DEF FileHolds
<1>2. file.header  BY <1>1
<1>3. ReadMeta = file.meta  BY <1>2 DEF ReadMeta
<1>4. PICK s, b : s = Shape(m.opt) /\ b = [f \in {"block_size"} |-> m.opt.block_size]  OBVIOUS
<1>5. DOMAIN s = ShapeFields /\ \A f \in ShapeFields : s[f] = m.opt[f]  BY <1>4 DEF Shape
<1>6. DOMAIN b = {"block_size"}  BY <1>4
<1>7. Meta(m.opt) = s ++ b  BY <1>4, Zenon DEF Meta
<1>8. /\ DOMAIN (s ++ b) = ShapeFields \cup {"block_size"} /\ \A f \in ShapeFields : (s ++ b)[f] = m.opt[f]
  BY <1>5, <1>6 DEF ++
<1>9. DOMAIN NoOptions = {}  BY DEF NoOptions
<1>10. QED  BY <1>1, <1>2, <1>3, <1>7, <1>8, <1>9

(* A shape that neither the command nor the metadata gives stays open.     *)
FromFile(cfg, L, cmd, m) ==
    /\ DOMAIN cfg = InferFields
    /\ \A f \in InferFields : f \in Says(cmd) => cfg[f] = L[f]
    /\ \A f \in InferFields \ ShapeFields : cfg[f] = L[f]
    /\ \A f \in ShapeFields : cfg[f] \in Nat
    /\ \A f \in ShapeFields : f \notin Says(cmd) => cfg[f] \in {0, m.opt[f]}

(* The configuration with the shape of the metadata.                       *)
LEMMA FromMetaIs ==
    ASSUME NEW cmd \in Inferences, NEW L, L = Layered(cmd, InferConfig), NEW m, FileHolds(file, m),
           Deep(m.opt)
    PROVE  FromFile(FromMeta(L, cmd), L, cmd, m)
<1>1. PICK set : set = {g \in ShapeFields \cap DOMAIN ReadMeta : Unset(L, cmd, g)}  OBVIOUS
<1>2. PICK h : h = [f \in set |-> ReadMeta[f]]  OBVIOUS
<1>3. FromMeta(L, cmd) = h ++ L  BY <1>1, <1>2, Zenon DEF FromMeta
<1>4. PICK cfg : cfg = h ++ L  OBVIOUS
<1>5. /\ DOMAIN cfg = DOMAIN h \cup DOMAIN L /\ \A f \in DOMAIN h : cfg[f] = h[f]
      /\ \A f \in DOMAIN L \ DOMAIN h : cfg[f] = L[f]
  BY <1>4 DEF ++
<1>6. DOMAIN h = set /\ \A f \in set : f \in ShapeFields /\ h[f] = m.opt[f] /\ Unset(L, cmd, f)
  BY <1>1, <1>2, ReadMetaIs
<1>7. ShapeFields \subseteq InferFields /\ \A f \in ShapeFields : InferConfig[f] = 0
  BY DEF ShapeFields, InferFields, InferConfig
<1>8. /\ DOMAIN L = InferFields /\ \A f \in ShapeFields : L[f] \in Nat
      /\ \A f \in InferFields : f \in Says(cmd) => ~Unset(L, cmd, f)
      /\ \A f \in InferFields : f \notin Says(cmd) => Unset(L, cmd, f)
  BY SaidIs
<1>9. DOMAIN cfg = InferFields /\ \A f \in InferFields \ set : cfg[f] = L[f]  BY <1>5, <1>6, <1>7, <1>8
<1>10. \A f \in set : cfg[f] = m.opt[f]  BY <1>5, <1>6
<1>11. \A f \in InferFields : f \in Says(cmd) => cfg[f] = L[f]  BY <1>6, <1>8, <1>9
<1>12. \A f \in InferFields \ ShapeFields : cfg[f] = L[f]  BY <1>6, <1>9
<1>13. \A f \in ShapeFields : m.opt[f] \in Nat  BY DEF Deep
<1>14. \A f \in ShapeFields : cfg[f] \in Nat  BY <1>7, <1>8, <1>9, <1>10, <1>13
<1>15. ASSUME NEW f \in ShapeFields, f \notin Says(cmd)  PROVE cfg[f] \in {0, m.opt[f]}
  <2>1. CASE f \in set  BY <1>10, <2>1
  <2>2. CASE f \notin set
    <3>1. L[f] = InferConfig[f]  BY <1>7, <1>8, <1>15 DEF Unset
    <3>2. QED  BY <1>7, <1>9, <2>2, <3>1
  <2>3. QED  BY <2>1, <2>2
<1>16. FromFile(cfg, L, cmd, m)  BY <1>9, <1>11, <1>12, <1>14, <1>15 DEF FromFile
<1>17. QED  BY <1>3, <1>4, <1>16, Zenon

(* The wrapper's completed configuration: what the command says, and the   *)
(* training's options for the rest.                                        *)
Completes(cfg, L, cmd, m) ==
    /\ DOMAIN cfg = InferFields
    /\ \A f \in InferFields : f \in Says(cmd) => cfg[f] = L[f]
    /\ \A f \in ShapeFields : cfg[f] \in Nat
    /\ cmd.beside /\ resolved = m.config =>
        /\ \A f \in ShapeFields \cup {"cross_attn", "block_size"} : f \notin Says(cmd) => cfg[f] = m.opt[f]
        /\ "fixed_patches" \notin Says(cmd) /\ "entropy_lm" \notin Says(cmd) =>
            /\ cfg.fixed_patches = ~m.opt.entropy_patches
            /\ m.opt.entropy_patches => cfg.entropy_lm = m.opt.entropy_lm

(* The configuration completed from the resolved one of the run.           *)
LEMMA FromResolvedIs ==
    ASSUME NEW cmd \in Inferences, NEW L, L = Layered(cmd, InferConfig), NEW m, NEW upto, IsSaved(m, upto),
           NEW cfg, FromFile(cfg, L, cmd, m), ResolvedIs, resolved # NoOptions
    PROVE  Completes(FromResolved(cfg, cmd), L, cmd, m)
<1>1. PICK trained, copied, fixed, lm :
        /\ trained = WithLayers(resolved)
        /\ copied = {f \in ShapeFields \cup {"cross_attn", "block_size"} : Unset(cfg, cmd, f)}
        /\ fixed = (Unset(cfg, cmd, "fixed_patches") /\ ~trained.entropy_patches)
        /\ lm = (/\ Unset(cfg, cmd, "entropy_lm") /\ ~fixed /\ ~cfg.fixed_patches
                 /\ trained.entropy_patches)
  OBVIOUS
<1>2. PICK a, b, c :
        /\ a = [f \in copied |-> trained[f]]
        /\ b = IF fixed THEN [f \in {"fixed_patches"} |-> TRUE] ELSE NoOptions
        /\ c = IF lm THEN [f \in {"entropy_lm"} |-> trained.entropy_lm] ELSE NoOptions
  OBVIOUS
<1>3. FromResolved(cfg, cmd) = a ++ b ++ c ++ cfg  BY <1>1, <1>2, Zenon DEF FromResolved
<1>4. PICK r : r = a ++ b ++ c ++ cfg  OBVIOUS
<1>5. LayersOf(r, a, b, c, cfg)  BY <1>4, FourLayers, Zenon
<1>6. DOMAIN NoOptions = {}  BY DEF NoOptions
<1>7. /\ DOMAIN a = copied /\ \A f \in copied : a[f] = trained[f]
      /\ fixed => DOMAIN b = {"fixed_patches"} /\ b["fixed_patches"] = TRUE
      /\ ~fixed => DOMAIN b = {}
      /\ lm => DOMAIN c = {"entropy_lm"} /\ c["entropy_lm"] = trained.entropy_lm
      /\ ~lm => DOMAIN c = {}
  BY <1>2, <1>6
<1>8. /\ ShapeFields \subseteq InferFields
      /\ {"cross_attn", "block_size", "fixed_patches", "entropy_lm"} \subseteq InferFields
      /\ "cross_attn" \notin ShapeFields /\ "block_size" \notin ShapeFields
      /\ "fixed_patches" \notin ShapeFields \cup {"cross_attn", "block_size", "entropy_lm"}
      /\ "entropy_lm" \notin ShapeFields \cup {"cross_attn", "block_size", "fixed_patches"}
      /\ \A f \in ShapeFields : InferConfig[f] = 0
      /\ InferConfig.fixed_patches = FALSE
  BY DEF ShapeFields, InferFields, InferConfig
<1>9. /\ DOMAIN L = InferFields
      /\ \A f \in InferFields : f \in Says(cmd) => ~Unset(L, cmd, f)
      /\ \A f \in InferFields : f \notin Says(cmd) => Unset(L, cmd, f)
  BY SaidIs
<1>10. /\ DOMAIN cfg = InferFields
       /\ \A f \in InferFields : f \in Says(cmd) => cfg[f] = L[f]
       /\ \A f \in InferFields \ ShapeFields : cfg[f] = L[f]
       /\ \A f \in ShapeFields : cfg[f] \in Nat
       /\ \A f \in ShapeFields : f \notin Says(cmd) => cfg[f] \in {0, m.opt[f]}
  BY DEF FromFile
<1>11. \A f \in InferFields : f \in Says(cmd) => ~Unset(cfg, cmd, f)  BY <1>9, <1>10 DEF Unset
<1>12. \A f \in InferFields \ ShapeFields : f \notin Says(cmd) => Unset(cfg, cmd, f)
  BY <1>9, <1>10 DEF Unset
<1>13. copied \subseteq ShapeFields \cup {"cross_attn", "block_size"} /\ \A f \in copied : Unset(cfg, cmd, f)
  BY <1>1
<1>14. (fixed => Unset(cfg, cmd, "fixed_patches")) /\ (lm => Unset(cfg, cmd, "entropy_lm"))  BY <1>1
<1>15. DOMAIN b \subseteq {"fixed_patches"} /\ DOMAIN c \subseteq {"entropy_lm"}  BY <1>7
<1>16. DOMAIN r = InferFields  BY <1>5, <1>7, <1>8, <1>10, <1>13, <1>15 DEF LayersOf
<1>17. ASSUME NEW f \in InferFields, f \notin copied, f \notin DOMAIN b, f \notin DOMAIN c
       PROVE  r[f] = cfg[f]
  BY <1>5, <1>7, <1>10, <1>17 DEF LayersOf
<1>18. \A f \in copied : r[f] = trained[f]  BY <1>5, <1>7 DEF LayersOf
<1>19. ASSUME NEW f \in InferFields, f \in Says(cmd)  PROVE r[f] = L[f]
  <2>1. ~Unset(cfg, cmd, f)  BY <1>11, <1>19
  <2>2. f \notin copied /\ f \notin DOMAIN b /\ f \notin DOMAIN c  BY <2>1, <1>7, <1>13, <1>14
  <2>3. QED  BY <1>10, <1>17, <1>19, <2>2
<1>20. PICK tcmd \in Trainings : resolved = Layered(tcmd, TrainConfig)  BY DEF ResolvedIs
<1>21. /\ \A f \in ShapeFields : trained[f] \in Nat
       /\ trained.entropy_patches \in BOOLEAN
  BY <1>1, <1>20, OptionsAre
<1>22. ASSUME NEW f \in ShapeFields  PROVE r[f] \in Nat
  <2>1. CASE f \in copied  BY <1>18, <1>21, <2>1
  <2>2. CASE f \notin copied
    <3>1. f \notin DOMAIN b /\ f \notin DOMAIN c  BY <1>8, <1>15
    <3>2. QED  BY <1>8, <1>10, <1>17, <2>2, <3>1
  <2>3. QED  BY <2>1, <2>2
<1>23. ASSUME resolved = m.config
       PROVE  /\ \A f \in ShapeFields \cup {"cross_attn", "block_size"} : f \notin Says(cmd) => r[f] = m.opt[f]
              /\ "fixed_patches" \notin Says(cmd) /\ "entropy_lm" \notin Says(cmd) =>
                    /\ r.fixed_patches = ~m.opt.entropy_patches
                    /\ m.opt.entropy_patches => r.entropy_lm = m.opt.entropy_lm
  <2>1. trained = m.opt  BY <1>1, <1>23 DEF IsSaved
  <2>2. ASSUME NEW f \in ShapeFields \cup {"cross_attn", "block_size"}, f \notin Says(cmd)
        PROVE  r[f] = m.opt[f]
    <3>1. CASE f \in copied  BY <1>18, <2>1, <3>1
    <3>2. CASE f \notin copied
      <4>1. ~Unset(cfg, cmd, f)  BY <1>1, <3>2
      <4>2. f \in ShapeFields  BY <1>8, <1>12, <2>2, <4>1
      <4>3. f \notin Overridden(cmd)  BY <2>2 DEF Says
      <4>4. cfg[f] # 0  BY <1>8, <4>1, <4>2, <4>3 DEF Unset
      <4>5. cfg[f] = m.opt[f]  BY <1>10, <2>2, <4>2, <4>4
      <4>6. f \notin DOMAIN b /\ f \notin DOMAIN c /\ f \in InferFields  BY <1>8, <1>15, <4>2
      <4>7. QED  BY <1>17, <3>2, <4>5, <4>6
    <3>3. QED  BY <3>1, <3>2
  <2>3. ASSUME "fixed_patches" \notin Says(cmd), "entropy_lm" \notin Says(cmd)
        PROVE  /\ r.fixed_patches = ~m.opt.entropy_patches
               /\ m.opt.entropy_patches => r.entropy_lm = m.opt.entropy_lm
    <3>1. Unset(cfg, cmd, "fixed_patches") /\ Unset(cfg, cmd, "entropy_lm")  BY <1>8, <1>12, <2>3
    <3>2. cfg.fixed_patches = FALSE  BY <1>8, <3>1 DEF Unset
    <3>3. PICK e \in BOOLEAN : e = m.opt.entropy_patches  BY <1>21, <2>1
    <3>4. "fixed_patches" \notin copied /\ "entropy_lm" \notin copied  BY <1>8, <1>13
    <3>5. CASE e = TRUE
      <4>1. ~fixed /\ lm  BY <1>1, <2>1, <3>1, <3>2, <3>3, <3>5
      <4>2. DOMAIN b = {} /\ DOMAIN c = {"entropy_lm"} /\ c["entropy_lm"] = trained.entropy_lm
        BY <1>7, <4>1
      <4>3. r["fixed_patches"] = cfg["fixed_patches"]  BY <1>8, <1>17, <3>4, <4>2
      <4>4. r["entropy_lm"] = trained.entropy_lm  BY <1>5, <1>7, <3>4, <4>2 DEF LayersOf
      <4>5. QED  BY <2>1, <3>2, <3>3, <3>5, <4>3, <4>4
    <3>6. CASE e = FALSE
      <4>1. fixed  BY <1>1, <2>1, <3>1, <3>3, <3>6
      <4>2. r["fixed_patches"] = TRUE  BY <1>5, <1>7, <3>4, <4>1 DEF LayersOf
      <4>3. QED  BY <3>3, <3>6, <4>2
    <3>7. QED  BY <3>5, <3>6
  <2>4. QED  BY <2>2, <2>3
<1>24. Completes(r, L, cmd, m)  BY <1>16, <1>19, <1>22, <1>23 DEF Completes
<1>25. QED  BY <1>3, <1>4, <1>24, Zenon

(* The configuration an inference runs with.                               *)
LEMMA CompletedIs ==
    ASSUME NEW cmd \in Inferences, NEW L, L = Layered(cmd, InferConfig), NEW m, NEW upto, IsSaved(m, upto),
           FileHolds(file, m), ResolvedIs
    PROVE  Completes(Completed(cmd), L, cmd, m)
<1>1. Deep(m.opt)  BY SavedIsDeep
<1>2. PICK cfg : cfg = FromMeta(L, cmd)  OBVIOUS
<1>3. FromFile(cfg, L, cmd, m)  BY <1>1, <1>2, FromMetaIs
<1>4. Completed(cmd) = IF cmd.beside /\ resolved # NoOptions THEN FromResolved(cfg, cmd) ELSE cfg
  BY <1>2, Zenon DEF Completed
<1>5. CASE cmd.beside /\ resolved # NoOptions
  <2>1. Completes(FromResolved(cfg, cmd), L, cmd, m)  BY <1>3, <1>5, FromResolvedIs
  <2>2. QED  BY <1>4, <1>5, <2>1
<1>6. CASE ~(cmd.beside /\ resolved # NoOptions)
  <2>1. PICK tcmd \in Trainings : m.config = Layered(tcmd, TrainConfig)  BY DEF IsSaved
  <2>2. m.config # NoOptions  BY <2>1, OptionsAre
  <2>3. ~(cmd.beside /\ resolved = m.config)  BY <1>6, <2>2
  <2>4. Completes(cfg, L, cmd, m)  BY <1>3, <2>3 DEF FromFile, Completes
  <2>5. QED  BY <1>4, <1>6, <2>4
<1>7. QED  BY <1>5, <1>6

(* The options a model runs with: the shape it was created with, the       *)
(* threshold, and the rest as given.                                       *)
Reported(arg, s, given) ==
    /\ \A f \in ShapeFields : arg[f] = s[f]
    /\ \A f \in (InferFields \cap DOMAIN given) \ (ShapeFields \cup {"threshold"}) : arg[f] = given[f]

(* They are the ones an inference reports.                                 *)
LEMMA RunsWith ==
    ASSUME NEW s, DOMAIN s = ShapeFields, NEW given, NEW t
    PROVE  Reported([f \in {"threshold"} |-> t] ++ s ++ given, s, given)
<1> PICK arg : arg = [f \in {"threshold"} |-> t] ++ s ++ given  OBVIOUS
<1>1. PICK u, v : u = [f \in {"threshold"} |-> t] /\ v = u ++ s  OBVIOUS
<1>2. DOMAIN u = {"threshold"} /\ "threshold" \notin ShapeFields  BY <1>1 DEF ShapeFields
<1>3. DOMAIN v = {"threshold"} \cup ShapeFields /\ \A f \in ShapeFields : v[f] = s[f]
  BY <1>1, <1>2 DEF ++
<1>4. arg = v ++ given  BY <1>1
<1>5. Reported(arg, s, given)  BY <1>3, <1>4 DEF ++, Reported
<1>6. QED  BY <1>5

(* What an inference runs with is what its wrapper completed.              *)
AsCompleted(arg, cfg, cmd, m) ==
    /\ \A f \in InferFields \ (ShapeFields \cup {"threshold"}) : arg[f] = cfg[f]
    /\ \A f \in ShapeFields : cfg[f] # 0 => arg[f] = cfg[f]
    /\ cmd.backend = "c" => \A f \in ShapeFields : arg[f] = m.opt[f]

(* An inference with the completed configuration is one as trained.        *)
LEMMA InferredIs ==
    ASSUME NEW cmd \in Inferences, NEW L, L = Layered(cmd, InferConfig), NEW m, Deep(m.opt),
           NEW cfg, Completes(cfg, L, cmd, m), NEW arg, AsCompleted(arg, cfg, cmd, m),
           saved' = m, resolved' = resolved, last'.cmd = cmd, last'.arg = arg,
           NEW d0, last'.d0_mode = d0, arg.method \in BlockMethods => d0 = "learned"
    PROVE  InferredAsTrained'
<1>1. PICK opt, u, unsaid, said :
        /\ opt = m.opt /\ u = Uses(cmd) /\ unsaid = u \ Says(cmd)
        /\ said = {f \in (Says(cmd) \cap u) \ {"threshold"} : f \in ShapeFields => L[f] # 0}
  OBVIOUS
<1>2. /\ \A f \in InferFields \ (ShapeFields \cup {"threshold"}) : arg[f] = cfg[f]
      /\ \A f \in ShapeFields : cfg[f] # 0 => arg[f] = cfg[f]
      /\ cmd.backend = "c" => \A f \in ShapeFields : arg[f] = m.opt[f]
  BY DEF AsCompleted
<1>3. u \subseteq InferFields  BY <1>1, FieldsAre DEF Uses
<1>4. /\ \A f \in InferFields : f \in Says(cmd) => cfg[f] = L[f]
      /\ cmd.beside /\ resolved = m.config =>
            /\ \A f \in ShapeFields \cup {"cross_attn", "block_size"} : f \notin Says(cmd) => cfg[f] = opt[f]
            /\ "fixed_patches" \notin Says(cmd) /\ "entropy_lm" \notin Says(cmd) =>
                /\ cfg.fixed_patches = ~opt.entropy_patches
                /\ opt.entropy_patches => cfg.entropy_lm = opt.entropy_lm
  BY <1>1 DEF Completes
<1>5. {"cross_attn", "block_size", "fixed_patches", "entropy_lm"}
        \subseteq InferFields \ (ShapeFields \cup {"threshold"})
  BY DEF InferFields, ShapeFields
<1>6. \A f \in ShapeFields : opt[f] # 0  BY <1>1 DEF Deep
<1>7. ASSUME NEW f \in said  PROVE arg[f] = L[f]
  <2>1. f \in InferFields /\ f \in Says(cmd) /\ f # "threshold"  BY <1>1, <1>3, <1>7
  <2>2. cfg[f] = L[f]  BY <1>4, <2>1
  <2>3. CASE f \in ShapeFields
    <3>1. L[f] # 0  BY <1>1, <1>7, <2>3
    <3>2. QED  BY <1>2, <2>2, <2>3, <3>1
  <2>4. CASE f \notin ShapeFields  BY <1>2, <2>1, <2>2, <2>4
  <2>5. QED  BY <2>3, <2>4
<1>8. ASSUME cmd.beside, resolved = m.config
      PROVE  /\ \A f \in unsaid \cap (ShapeFields \cup {"cross_attn", "block_size"}) : arg[f] = opt[f]
             /\ {"fixed_patches", "entropy_lm"} \subseteq unsaid =>
                    /\ arg.fixed_patches = ~opt.entropy_patches
                    /\ opt.entropy_patches => arg.entropy_lm = opt.entropy_lm
  <2>1. ASSUME NEW f \in unsaid \cap (ShapeFields \cup {"cross_attn", "block_size"})
        PROVE  arg[f] = opt[f]
    <3>1. f \notin Says(cmd)  BY <1>1, <2>1
    <3>2. cfg[f] = opt[f]  BY <1>4, <1>8, <2>1, <3>1
    <3>3. CASE f \in ShapeFields  BY <1>6, <1>2, <3>2, <3>3
    <3>4. CASE f \in {"cross_attn", "block_size"}  BY <1>5, <1>2, <3>2, <3>4
    <3>5. QED  BY <2>1, <3>3, <3>4
  <2>2. ASSUME {"fixed_patches", "entropy_lm"} \subseteq unsaid
        PROVE  /\ arg.fixed_patches = ~opt.entropy_patches
               /\ opt.entropy_patches => arg.entropy_lm = opt.entropy_lm
    <3>1. "fixed_patches" \notin Says(cmd) /\ "entropy_lm" \notin Says(cmd)  BY <1>1, <2>2
    <3>2. /\ cfg.fixed_patches = ~opt.entropy_patches
          /\ opt.entropy_patches => cfg.entropy_lm = opt.entropy_lm
      BY <1>4, <1>8, <3>1
    <3>3. arg["fixed_patches"] = cfg["fixed_patches"] /\ arg["entropy_lm"] = cfg["entropy_lm"]  BY <1>5, <1>2
    <3>4. QED  BY <3>2, <3>3
  <2>3. QED  BY <2>1, <2>2
<1>9. cmd.backend = "c" => Shape(arg) = Shape(opt)  BY <1>1, <1>2 DEF Shape
<1>10. InferredAsTrained' =
        (last'.ran =>
            /\ \A f \in said : arg[f] = L[f]
            /\ cmd.beside /\ resolved' = m.config =>
                /\ \A f \in unsaid \cap (ShapeFields \cup {"cross_attn", "block_size"}) : arg[f] = opt[f]
                /\ {"fixed_patches", "entropy_lm"} \subseteq unsaid =>
                    /\ arg.fixed_patches = ~opt.entropy_patches
                    /\ opt.entropy_patches => arg.entropy_lm = opt.entropy_lm
            /\ cmd.backend = "c" => Shape(arg) = Shape(opt)
            /\ arg.method \in BlockMethods => (d0 = opt.d0_mode <=> opt.d0_mode = "learned"))
  BY <1>1, Zenon DEF InferredAsTrained
<1>11. arg.method \in BlockMethods => (d0 = opt.d0_mode <=> opt.d0_mode = "learned")  OBVIOUS
<1>12. QED  BY <1>7, <1>8, <1>9, <1>10, <1>11

(* Blocks are drafted from the learned table.                              *)
LEMMA BlocksAreLearned ==
    ASSUME NEW backend, NEW method \in BlockMethods
    PROVE  D0Mode(backend, method) = "learned"
BY DEF D0Mode, BlockMethods

(* What is loaded is what was saved.                                       *)
LEMMA LoadedIsRight ==
    ASSUME NEW m, NEW s, NEW cmd, NEW torch, torch = (cmd.backend = "torch"),
           Brings(last'.params, s, m, torch), DOMAIN m.params = Parameters(m.opt),
           saved' = m, last'.cmd = cmd
    PROVE  LoadedRight'
<1>1. PICK params : params = last'.params  OBVIOUS
<1>2. DOMAIN params = Parameters(s) /\ \A n \in Parameters(s) :
        n \in Parameters(m.opt) /\ params[n] = Lying(m.params[n], torch /\ n[3] \in Linear)
  BY <1>1 DEF Brings
<1>3. \A n \in DOMAIN params :
        /\ n \in DOMAIN m.params
        /\ params[n] = Lying(m.params[n], cmd.backend = "torch" /\ n[3] \in Linear)
  BY <1>2
<1>4. QED  BY <1>1, <1>3, Zenon DEF LoadedRight, Same, Lying

(* Inferences change nothing but what they report.                         *)
LEMMA InferencesKeep ==
    ASSUME CheckpointInv, proc = Idle, LastIs',
           UNCHANGED <<resolved, file, optim, lmfile, proc, runs, saved>>
    PROVE  CheckpointInv'
<1>1. RunsAre' /\ ResolvedIs' /\ LmIs' /\ Latest' = Latest
  BY DEF CheckpointInv, RunsAre, ResolvedIs, LmIs, Latest
<1>2. ProcIs'  BY DEF ProcIs
<1>3. SavedIs' /\ FileIs' /\ OptimIs'
  BY <1>1, Zenon DEF CheckpointInv, SavedIs, FileIs, OptimIs, FileHolds, IsSaved
<1>4. QED  BY <1>1, <1>2, <1>3 DEF CheckpointInv

(* A file with a header is the saved model's.                              *)
LEMMA HeadedIs ==
    ASSUME CheckpointInv, file.header
    PROVE  IsSaved(saved, Latest) /\ FileHolds(file, saved)
<1>1. ~NoHeader.header  BY DEF NoHeader
<1>2. QED  BY <1>1 DEF CheckpointInv, FileIs

(* An inference of the C program runs the saved model as trained.          *)
LEMMA InferKeeps ==
    ASSUME CheckpointInv, NEW cmd \in Inferences, Infer(cmd)
    PROVE  CheckpointInv'
<1>1. PICK cfg, argv, arg, s :
        cfg = Completed(cmd) /\ argv = InferArgv(cfg) /\ arg = ParseInference(argv) /\ s = ShapeOf(arg)
  OBVIOUS
<1>2. /\ proc = Idle /\ cmd.backend = "c"
      /\ UNCHANGED <<resolved, file, optim, lmfile, proc, runs, saved>>
      /\ last' = IF Refuses(argv, arg) THEN [ran |-> FALSE, cmd |-> cmd]
                 ELSE Ran(cmd, arg, s, Loaded(file, TensorAt(s)))
  BY <1>1, Zenon DEF Infer
<1>3. CASE Refuses(argv, arg)
  <2>1. ~last'.ran  BY <1>2, <1>3
  <2>2. LastIs'  BY <2>1 DEF LastIs
  <2>3. QED  BY <1>2, <2>2, InferencesKeep
<1>4. CASE ~Refuses(argv, arg)
  <2>1. file.header /\ Accepts(file, TensorAt(s), s.embed) /\ \A f \in ShapeFields : s[f] # 0
    BY <1>1, <1>4, Zenon DEF Refuses, ModelAccepts
  <2>2. PICK m, upto : m = saved /\ upto = Latest  OBVIOUS
  <2>3. IsSaved(m, upto) /\ FileHolds(file, m)  BY <2>1, <2>2, HeadedIs
  <2>4. Deep(m.opt) /\ DOMAIN m.params = Parameters(m.opt)  BY <2>3, SavedIsDeep
  <2>5. PICK L : L = Layered(cmd, InferConfig)  OBVIOUS
  <2>6. ResolvedIs  BY DEF CheckpointInv
  <2>7. Completes(cfg, L, cmd, m)  BY <1>1, <2>3, <2>5, <2>6, CompletedIs
  <2>8. DOMAIN cfg = InferFields /\ \A f \in ShapeFields : cfg[f] \in Nat  BY <2>7 DEF Completes
  <2>9. DOMAIN arg = InferFields /\ \A f \in InferFields \ {"threshold"} : arg[f] = cfg[f]
    BY <1>1, <2>8, ArgvKeepsInference
  <2>10. ShapeFields \subseteq InferFields /\ "threshold" \notin ShapeFields /\ "embed" \in ShapeFields
    BY DEF ShapeFields, InferFields
  <2>11. \A f \in ShapeFields \cap DOMAIN ReadMeta : ReadMeta[f] = m.opt[f]  BY <2>3, ReadMetaIs
  <2>12. s = [f \in ShapeFields |-> IF arg[f] = 0 /\ f \in DOMAIN ReadMeta THEN ReadMeta[f] ELSE arg[f]]
    BY <1>1 DEF ShapeOf
  <2>13. DOMAIN s = ShapeFields /\ \A f \in ShapeFields : cfg[f] # 0 => s[f] = cfg[f]
    BY <2>9, <2>10, <2>12
  <2>14. Deep(s)
    <3>1. \A f \in ShapeFields : s[f] \in Nat
      BY <2>4, <2>8, <2>9, <2>10, <2>11, <2>12 DEF Deep
    <3>2. QED  BY <2>1, <3>1 DEF Deep
  <2>15. PICK torch, params : torch = FALSE /\ params = Loaded(file, TensorAt(s))  OBVIOUS
  <2>16. (\A f \in ShapeFields : s[f] = m.opt[f]) /\ Brings(params, s, m, torch)
    <3>1. torch = FALSE  BY <2>15
    <3>2. Brings(Loaded(file, TensorAt(s)), s, m, torch)  BY <2>1, <2>3, <2>14, <3>1, LoadedIs
    <3>3. Alike(s, m.opt)  BY <2>1, <2>3, <2>14, <3>1, LoadedIs
    <3>4. QED  BY <2>15, <3>2, <3>3, Zenon DEF Alike
  <2>17. PICK t, with : t = Threshold(arg) /\ with = [f \in {"threshold"} |-> t] ++ s ++ arg  OBVIOUS
  <2>18. PICK d0 : /\ d0 = D0Mode(cmd.backend, arg.method)
                   /\ last' = [ran |-> TRUE, cmd |-> cmd, params |-> params, d0_mode |-> d0,
                               arg |-> with]
    BY <1>2, <1>4, <2>15, <2>17, Zenon DEF Ran
  <2>19. last'.cmd = cmd /\ last'.params = params /\ last'.arg = with /\ last'.d0_mode = d0  BY <2>18
  <2>20. /\ \A f \in ShapeFields : with[f] = s[f]
         /\ \A f \in (InferFields \cap DOMAIN arg) \ (ShapeFields \cup {"threshold"}) : with[f] = arg[f]
    <3>1. Reported([f \in {"threshold"} |-> t] ++ s ++ arg, s, arg)  BY <2>13, RunsWith
    <3>2. Reported(with, s, arg)  BY <2>17, <3>1, Zenon
    <3>3. QED  BY <3>2, Zenon DEF Reported
  <2>21. \A f \in InferFields \ (ShapeFields \cup {"threshold"}) : with[f] = cfg[f]  BY <2>9, <2>20
  <2>22. \A f \in ShapeFields : (cfg[f] # 0 => with[f] = cfg[f]) /\ with[f] = m.opt[f]
    BY <2>13, <2>16, <2>20
  <2>23. InferredAsTrained'
    <3>1. AsCompleted(with, cfg, cmd, m)  BY <2>21, <2>22 DEF AsCompleted
    <3>2. saved' = m /\ resolved' = resolved  BY <1>2, <2>2
    <3>3. with.method = arg.method
      <4>1. "method" \in (InferFields \cap DOMAIN arg) \ (ShapeFields \cup {"threshold"})
        BY <2>9 DEF InferFields, ShapeFields
      <4>2. QED  BY <2>20, <4>1
    <3>4. with.method \in BlockMethods => d0 = "learned"  BY <2>18, <3>3, BlocksAreLearned
    <3>5. QED  BY <2>4, <2>5, <2>7, <2>19, <3>1, <3>2, <3>4, InferredIs
  <2>24. LoadedRight'
    <3>1. torch = (cmd.backend = "torch")  BY <1>2, <2>15
    <3>2. QED  BY <1>2, <2>2, <2>4, <2>16, <2>19, <3>1, LoadedIsRight
  <2>25. LastIs'  BY <1>2, <2>23, <2>24 DEF LastIs
  <2>26. QED  BY <1>2, <2>25, InferencesKeep
<1>5. QED  BY <1>3, <1>4

(* And so does one of the PyTorch package.                                 *)
LEMMA TorchInferKeeps ==
    ASSUME CheckpointInv, NEW cmd \in Inferences, TorchInfer(cmd)
    PROVE  CheckpointInv'
<1>1. PICK cfg, s :
        /\ cfg = Completed(cmd)
        /\ s = [f \in ShapeFields |-> IF cfg[f] # 0 THEN cfg[f] ELSE IF f = "embed" THEN 64 ELSE 2]
  OBVIOUS
<1>2. /\ proc = Idle /\ cmd.backend = "torch"
      /\ UNCHANGED <<resolved, file, optim, lmfile, proc, runs, saved>>
      /\ last' = IF ~TorchAccepts(file, s) THEN [ran |-> FALSE, cmd |-> cmd]
                 ELSE Ran(cmd, cfg, s, TorchLoaded(file, s))
  BY <1>1, Zenon DEF TorchInfer
<1>3. CASE ~TorchAccepts(file, s)
  <2>1. ~last'.ran  BY <1>2, <1>3
  <2>2. LastIs'  BY <2>1 DEF LastIs
  <2>3. QED  BY <1>2, <2>2, InferencesKeep
<1>4. CASE TorchAccepts(file, s)
  <2>1. file.header  BY <1>4 DEF TorchAccepts
  <2>2. PICK m, upto : m = saved /\ upto = Latest  OBVIOUS
  <2>3. IsSaved(m, upto) /\ FileHolds(file, m)  BY <2>1, <2>2, HeadedIs
  <2>4. Deep(m.opt) /\ DOMAIN m.params = Parameters(m.opt)  BY <2>3, SavedIsDeep
  <2>5. PICK L : L = Layered(cmd, InferConfig)  OBVIOUS
  <2>6. ResolvedIs  BY DEF CheckpointInv
  <2>7. Completes(cfg, L, cmd, m)  BY <1>1, <2>3, <2>5, <2>6, CompletedIs
  <2>8. DOMAIN cfg = InferFields  BY <2>7 DEF Completes
  <2>9. DOMAIN s = ShapeFields /\ \A f \in ShapeFields : cfg[f] # 0 => s[f] = cfg[f]  BY <1>1
  <2>10. PICK torch, params : torch = TRUE /\ params = TorchLoaded(file, s)  OBVIOUS
  <2>11. Brings(params, s, m, torch)  BY <1>4, <2>3, <2>10, TorchLoadedIs
  <2>12. PICK t, with : t = Threshold(cfg) /\ with = [f \in {"threshold"} |-> t] ++ s ++ cfg  OBVIOUS
  <2>13. PICK d0 : /\ d0 = D0Mode(cmd.backend, cfg.method)
                   /\ last' = [ran |-> TRUE, cmd |-> cmd, params |-> params, d0_mode |-> d0,
                               arg |-> with]
    BY <1>2, <1>4, <2>10, <2>12, Zenon DEF Ran
  <2>14. last'.cmd = cmd /\ last'.params = params /\ last'.arg = with /\ last'.d0_mode = d0  BY <2>13
  <2>15. /\ \A f \in ShapeFields : with[f] = s[f]
         /\ \A f \in (InferFields \cap DOMAIN cfg) \ (ShapeFields \cup {"threshold"}) : with[f] = cfg[f]
    <3>1. Reported([f \in {"threshold"} |-> t] ++ s ++ cfg, s, cfg)  BY <2>9, RunsWith
    <3>2. Reported(with, s, cfg)  BY <2>12, <3>1, Zenon
    <3>3. QED  BY <3>2, Zenon DEF Reported
  <2>16. /\ \A f \in InferFields \ (ShapeFields \cup {"threshold"}) : with[f] = cfg[f]
         /\ \A f \in ShapeFields : cfg[f] # 0 => with[f] = cfg[f]
         /\ cmd.backend # "c"
    BY <1>2, <2>8, <2>9, <2>15
  <2>17. InferredAsTrained'
    <3>1. AsCompleted(with, cfg, cmd, m)  BY <2>16 DEF AsCompleted
    <3>2. saved' = m /\ resolved' = resolved  BY <1>2, <2>2
    <3>3. with.method = cfg.method
      <4>1. "method" \in (InferFields \cap DOMAIN cfg) \ (ShapeFields \cup {"threshold"})
        BY <2>8 DEF InferFields, ShapeFields
      <4>2. QED  BY <2>15, <4>1
    <3>4. with.method \in BlockMethods => d0 = "learned"  BY <2>13, <3>3, BlocksAreLearned
    <3>5. QED  BY <2>4, <2>5, <2>7, <2>14, <3>1, <3>2, <3>4, InferredIs
  <2>18. LoadedRight'
    <3>1. torch = (cmd.backend = "torch")  BY <1>2, <2>10
    <3>2. QED  BY <1>2, <2>2, <2>4, <2>11, <2>14, <3>1, LoadedIsRight
  <2>19. LastIs'  BY <1>2, <2>17, <2>18 DEF LastIs
  <2>20. QED  BY <1>2, <2>19, InferencesKeep
<1>5. QED  BY <1>3, <1>4

(* At the start there is nothing.                                          *)
LEMMA FilesInitHolds == FilesInit => CheckpointInv
<1> SUFFICES ASSUME FilesInit  PROVE CheckpointInv  OBVIOUS
<1>1. RunsAre /\ ResolvedIs /\ ProcIs /\ SavedIs /\ FileIs /\ OptimIs
  BY CommandsAssumption DEF FilesInit, RunsAre, ResolvedIs, ProcIs, SavedIs, FileIs, OptimIs
<1>2. LmIs  BY DEF FilesInit, LmIs, NoHeader
<1>3. LastIs  BY DEF FilesInit, LastIs, NotRun
<1>4. QED  BY <1>1, <1>2, <1>3 DEF CheckpointInv

(* A step that changes nothing keeps it too.                               *)
LEMMA FilesStutterKeeps ==
    ASSUME CheckpointInv, UNCHANGED filesVars
    PROVE  CheckpointInv'
<1>1. /\ resolved' = resolved /\ file' = file /\ optim' = optim /\ lmfile' = lmfile /\ proc' = proc
      /\ runs' = runs /\ saved' = saved /\ last' = last
  BY DEF filesVars
<1>2. RunsAre' /\ ResolvedIs' /\ LmIs' /\ Latest' = Latest
  BY <1>1 DEF CheckpointInv, RunsAre, ResolvedIs, LmIs, Latest
<1>3. ProcIs'
  BY <1>1, Zenon DEF CheckpointInv, ProcIs, ToLoad, InTraining, Commanded, Trained
<1>4. SavedIs' /\ FileIs' /\ OptimIs'
  BY <1>1, <1>2, Zenon DEF CheckpointInv, SavedIs, FileIs, OptimIs, FileHolds, IsSaved
<1>5. LastIs'
  BY <1>1, Zenon DEF CheckpointInv, LastIs, LoadedRight, InferredAsTrained
<1>6. QED  BY <1>2, <1>3, <1>4, <1>5 DEF CheckpointInv

(* Over every history of trainings, saves, kills, resumptions and          *)
(* inferences the checkpoint holds a model some command trained.           *)
LEMMA CheckpointInvHolds == FilesSpec => []CheckpointInv
<1>1. ASSUME CheckpointInv, [FilesNext]_filesVars  PROVE CheckpointInv'
  <2>1. ASSUME NEW cmd \in Trainings, Configure(cmd)  PROVE CheckpointInv'  BY <1>1, <2>1, ConfigureKeeps
  <2>2. CASE Start  BY <1>1, <2>2, StartKeeps
  <2>3. CASE Step  BY <1>1, <2>3, StepKeeps
  <2>4. CASE Save \/ SaveBest \/ SaveKilled \/ MomentsKilled  BY <1>1, <2>4, AllSavesKeep
  <2>5. CASE End  BY <1>1, <2>5, EndKeeps, Zenon DEF End
  <2>6. CASE TrainLm  BY <1>1, <2>6, TrainLmKeeps
  <2>7. ASSUME NEW cmd \in Inferences, Infer(cmd)  PROVE CheckpointInv'  BY <1>1, <2>7, InferKeeps
  <2>8. ASSUME NEW cmd \in Inferences, TorchInfer(cmd)  PROVE CheckpointInv'  BY <1>1, <2>8, TorchInferKeeps
  <2>9. CASE UNCHANGED filesVars  BY <1>1, <2>9, FilesStutterKeeps
  <2>10. QED
    BY <1>1, <2>1, <2>2, <2>3, <2>4, <2>5, <2>6, <2>7, <2>8, <2>9, Zenon DEF FilesNext
<1>2. QED  BY <1>1, FilesInitHolds, PTL DEF FilesSpec

(* Whatever loads, in either program, loads the values that were saved,    *)
(* whole and lying its own way: no history of killed saves, resumptions    *)
(* with other shapes and files left behind brings another parameter's.     *)
THEOREM LoadsWhatWasSaved == FilesSpec => []LoadedIsSaved
<1>1. ASSUME CheckpointInv  PROVE LoadedIsSaved
  <2>1. runs \in 0..MaxRuns  BY <1>1 DEF CheckpointInv, RunsAre
  <2>2. /\ proc.phase \in {"idle", "load", "train"}
        /\ proc.phase = "train" => DOMAIN proc.params = Parameters(proc.opt)
    <3>1. CASE proc = Idle  BY <3>1 DEF Idle
    <3>2. CASE ToLoad(proc)  BY <3>2 DEF ToLoad
    <3>3. CASE InTraining(proc)
      <4>1. proc.phase = "train"  BY <3>3 DEF InTraining
      <4>2. DOMAIN proc.params = Parameters(proc.opt)  BY <3>3 DEF InTraining, Trained, ParamsAre
      <4>3. QED  BY <4>1, <4>2
    <3>4. QED  BY <1>1, <3>1, <3>2, <3>3 DEF CheckpointInv, ProcIs
  <2>3. Len(NoHeader.entries) <= NoHeader.num  BY DEF NoHeader
  <2>4. Len(file.entries) <= file.num
    <3>1. CASE file = NoHeader  BY <2>3, <3>1
    <3>2. CASE file # NoHeader
      <4>1. PICK m, upto : IsSaved(m, upto) /\ FileHolds(file, m)  BY <1>1, <3>2 DEF CheckpointInv, FileIs
      <4>2. PICK len : len = Len(W(m.opt))  OBVIOUS
      <4>3. len \in Nat  BY <4>1, <4>2, SavedIsDeep, WalkIsSequence
      <4>4. /\ file = [header |-> TRUE, meta |-> file.meta, num |-> len, entries |-> file.entries]
            /\ Len(file.entries) \in 0..len
        BY <4>1, <4>2, Zenon DEF FileHolds
      <4>5. file.num = len  BY <4>4
      <4>6. QED  BY <4>3, <4>4, <4>5
    <3>3. QED  BY <3>1, <3>2
  <2>5. Len(optim.entries) <= optim.num
    <3>1. CASE optim = NoHeader  BY <2>3, <3>1
    <3>2. CASE optim # NoHeader
      <4>1. PICK opt : \E cmd \in Trainings :
              /\ opt = WithLayers(Layered(cmd, TrainConfig))
              /\ optim.num = Len(W(opt)) /\ Len(optim.entries) \in 0..Len(W(opt))
        BY <1>1, <3>2 DEF CheckpointInv, OptimIs, OptimHolds
      <4>2. Deep(opt)  BY <4>1, OptionsAre, Zenon DEF Deep
      <4>3. Len(W(opt)) \in Nat  BY <4>2, WalkIsSequence
      <4>4. QED  BY <4>1, <4>3
    <3>3. QED  BY <3>1, <3>2
  <2>6. Len(lmfile.entries) <= lmfile.num  BY <1>1 DEF CheckpointInv, LmIs
  <2>7. FilesTypeOK  BY <2>1, <2>2, <2>4, <2>5, <2>6 DEF FilesTypeOK
  <2>8. last.ran => LoadedRight  BY <1>1 DEF CheckpointInv, LastIs
  <2>9. QED  BY <2>7, <2>8, Zenon DEF LoadedIsSaved, LoadedRight
<1>2. QED  BY <1>1, CheckpointInvHolds, PTL

(* A parameter is only ever moved by its own gradients and moments, also   *)
(* with another run's optimizer file beside another run's checkpoint, and  *)
(* the C trainer never decays a norm.                                      *)
THEOREM MomentsAreItsOwn == FilesSpec => []MomentsBelong
<1>1. ASSUME CheckpointInv  PROVE MomentsBelong
  <2>1. SUFFICES ASSUME proc.phase = "train"  PROVE
            /\ \A n \in DOMAIN proc.params :
                /\ proc.params[n].from = {n}
                /\ proc.params[n].run = runs /\ proc.cmd.backend = "c" =>
                    (proc.params[n].decayed => n[3] \notin {"norm1", "norm2", "cross_norm"})
            /\ \A i \in DOMAIN proc.moments : proc.moments[i] \subseteq {TensorAt(proc.opt)[i].tensor}
    BY DEF MomentsBelong
  <2>2. Commanded(proc) /\ Trained(proc)  BY <1>1, <2>1, TrainingPhase DEF CheckpointInv, InTraining
  <2>3. PICK opt, params, torch : opt = proc.opt /\ params = proc.params /\ torch = (proc.cmd.backend = "torch")
    OBVIOUS
  <2>4. ParamsAre(params, opt, torch, runs) /\ MomentsAre(proc.moments, opt)  BY <2>2, <2>3 DEF Trained
  <2>5. ASSUME NEW n \in Parameters(opt)  PROVE params[n].from = {n}
    <3>1. IsValue(params[n], n, torch /\ n[3] \in Linear, runs)  BY <2>4, <2>5 DEF ParamsAre
    <3>2. QED  BY <3>1 DEF IsValue
  <2>6. DOMAIN params = Parameters(opt)  BY <2>4 DEF ParamsAre
  <2>7. ASSUME NEW i \in DOMAIN proc.moments
        PROVE  proc.moments[i] \subseteq {TensorAt(opt)[i].tensor}
    <3>1. Deep(opt)  BY <2>2, <2>3, OptionsAre, Zenon DEF Commanded, Deep
    <3>2. DOMAIN W(opt) = 1..Len(W(opt))  BY <3>1, WalkIsSequence
    <3>3. i \in DOMAIN W(opt) /\ proc.moments[i] \subseteq {W(opt)[i]}  BY <2>4, <2>7, <3>2 DEF MomentsAre
    <3>4. TensorAt(opt) = [j \in DOMAIN W(opt) |-> [name |-> W(opt)[j], tensor |-> W(opt)[j]]]
      BY WalksAgree, Zenon
    <3>5. TensorAt(opt)[i].tensor = W(opt)[i]  BY <3>3, <3>4
    <3>6. QED  BY <3>3, <3>5
  <2>8. QED  BY <2>2, <2>3, <2>5, <2>6, <2>7 DEF Trained
<1>2. QED  BY <1>1, CheckpointInvHolds, PTL

(* An inference beside its run's resolved configuration uses the shape,    *)
(* cross-attention, block size, patching and entropy model of the          *)
(* training, save where the command itself says otherwise, whatever the    *)
(* layers of options say, through either wrapper; the D_0 policy it does   *)
(* not use, so that blocks are drafted as trained exactly when the model   *)
(* was trained with the learned table.                                     *)
THEOREM InfersAsTrained == FilesSpec => []InferredAsTrained
<1>1. CheckpointInv => InferredAsTrained  BY DEF CheckpointInv, LastIs, InferredAsTrained
<1>2. QED  BY <1>1, CheckpointInvHolds, PTL
=============================================================================
