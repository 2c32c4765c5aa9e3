----------------------------- MODULE HashNgram -----------------------------
(***************************************************************************)
(* The rolling hash that picks the n-gram bucket of a position.  Bytes are *)
(* unknowns: a hash is the linear form of the bytes read so far that it    *)
(* computes, one coefficient per position, in the arithmetic of the code   *)
(* modulo the size of the table.                                           *)
(***************************************************************************)
EXTENDS Integers

CONSTANTS HashPrime, HashModulus    \* hash_prime, per_ngram_vocab

ASSUME HashAssumption == HashPrime \in Nat \ {0} /\ HashModulus \in Nat \ {0, 1}

NoByte == -1                \* the zero a new window is filled with
NoHash == <<>>              \* UINT64_MAX: the window is not full

PowerOf(n) == LET pow[k \in 0..n] == IF k = 0 THEN 1 % HashModulus ELSE (pow[k - 1] * HashPrime) % HashModulus
              IN  pow[n]

(* positions is the set of bytes the forms range over.                     *)
RollingHashInit(n, positions) ==
    [n |-> n, primePowN |-> PowerOf(n), window |-> [k \in 0..(n - 1) |-> NoByte],
     windowStart |-> 0, seen |-> 0, hash |-> [a \in positions |-> 0]]

(* hash * prime + byte, without and with the byte that leaves the window.  *)
Shifted(hash, byte) ==
    [a \in DOMAIN hash |-> (hash[a] * HashPrime + IF a = byte THEN 1 ELSE 0) % HashModulus]
Without(s, outgoing, hash) ==
    LET contribution == s.primePowN % HashModulus
    IN  [a \in DOMAIN hash |->
            IF a = outgoing THEN ((hash[a] + HashModulus) - contribution) % HashModulus ELSE hash[a]]

RollingHashUpdate(s, new) ==
    LET outgoing == s.window[s.windowStart]
        window == [s.window EXCEPT ![s.windowStart] = new]
        start == (s.windowStart + 1) % s.n
        direct[k \in 0..s.n] ==
            IF k = 0 THEN [a \in DOMAIN s.hash |-> 0]
            ELSE Shifted(direct[k - 1], window[(start + k - 1) % s.n])
    IN  [s EXCEPT !.window = window, !.windowStart = start, !.seen = @ + 1,
                  !.hash = CASE s.seen + 1 < s.n -> @
                             [] s.seen + 1 = s.n -> direct[s.n]
                             [] s.seen + 1 > s.n -> Without(s, outgoing, Shifted(@, new))]

(* The bucket of each position of a sequence: a linear form, or none.      *)
Buckets(n, length) ==
    LET run[k \in 0..length] ==
            IF k = 0 THEN RollingHashInit(n, 0..(length - 1)) ELSE RollingHashUpdate(run[k - 1], k - 1)
    IN  [i \in 0..(length - 1) |-> IF run[i + 1].seen < n THEN NoHash ELSE run[i + 1].hash]

BytesHashed(bucket) ==
    IF bucket = NoHash THEN {} ELSE {a \in DOMAIN bucket : bucket[a] # 0}

(* Equal n-grams share a bucket wherever they stand: the form of each      *)
(* position is that of the first, moved along.                             *)
SameFormEverywhere(n, length) ==
    LET bucket == Buckets(n, length)
    IN  \A i \in (n - 1)..(length - 1), a \in 0..(length - 1) :
            bucket[i][a] = IF a \in (i - n + 1)..i THEN bucket[n - 1][a - (i - n + 1)] ELSE 0
=============================================================================
