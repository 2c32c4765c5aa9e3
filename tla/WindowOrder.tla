----------------------------- MODULE WindowOrder -----------------------------
(***************************************************************************)
(* The order in which training visits the windows of the corpus            *)
(* (train_window_index).  Epoch e visits window (a * j + b) mod n at its   *)
(* j-th data step, a and b drawn from a hash of the seed and the epoch,    *)
(* which is here any pair of numbers below n.                              *)
(***************************************************************************)
EXTENDS Integers

CONSTANT MaxTries    \* 64: how far the search for a coprime multiplier goes

ASSUME WindowOrderAssumption == MaxTries \in Nat

(* Euclid's algorithm (train_gcd): the pair after k rounds of the loop,    *)
(* which stops at a zero and has done so after y rounds.                   *)
EuclidRound(p) == IF p[2] = 0 THEN p ELSE <<p[2], p[1] % p[2]>>
Gcd(x, y) ==
    LET after[k \in 0..y] == IF k = 0 THEN <<x, y>> ELSE EuclidRound(after[k - 1])
    IN  after[y][1]
Coprime(a, n) == Gcd(a, n) = 1

(* From the drawn multiplier down, wrapping at 1, to one coprime with n;   *)
(* the multiplier 1 when the search gives up.                              *)
StepDown(a, n) == IF a <= 1 THEN n - 1 ELSE a - 1
Search(a0, n) ==
    LET search[k \in 0..MaxTries] ==
            LET a == IF k = 0 THEN a0 ELSE search[k - 1]
            IN  IF k = 0 \/ Coprime(a, n) THEN a ELSE StepDown(a, n)
    IN  search[MaxTries]
RawMultiplier(a0, n) == Search(IF a0 = 0 THEN 1 ELSE a0, n)
Multiplier(a0, n) ==
    LET a == Search(IF a0 = 0 THEN 1 ELSE a0, n)
    IN  IF Coprime(a, n) THEN a ELSE 1

(* mix[e]: the draw of epoch e.                                            *)
WindowIndex(d, n, mix) ==
    IF n <= 1 THEN 0
    ELSE LET draw == mix[d \div n]
         IN  (Multiplier(draw.a, n) * (d % n) + draw.b) % n
=============================================================================
