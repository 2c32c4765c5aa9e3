--------------------------- MODULE DecodingProofs ---------------------------
(***************************************************************************)
(* Facts about segmentations, forward passes and verification, for every   *)
(* boundary rule and every network.  The result the generation loops rest  *)
(* on is FullViewStable: once the first patch has closed, the rows a       *)
(* forward pass computes for a prefix do not change when bytes are         *)
(* appended.                                                               *)
(***************************************************************************)
EXTENDS Verification, NumberProofs, SequenceTheorems, FiniteSetTheorems

(* The set of starts of a nonempty sequence of n bytes.                    *)
Segmented(S, n) == n \in Nat \ {0} /\ 0 \in S /\ \A t \in S : t \in Nat /\ t < n

(* What NextStart and PatchStart return.                                   *)
LEMMA NextStartIs ==
    ASSUME NEW n, NEW S, Segmented(S, n), NEW q \in 0..(n - 1)
    PROVE  /\ NextStart(S, n, q) \in S \cup {n}
           /\ NextStart(S, n, q) \in (q + 1)..n
           /\ \A t \in S \cup {n} : t > q => NextStart(S, n, q) <= t
<1> DEFINE T == {t \in S \cup {n} : t > q}
<1>1. T \in SUBSET Nat /\ n \in T  BY DEF Segmented
<1>2. Min(T) \in T /\ \A t \in T : Min(T) <= t
  <2> HIDE DEF T
  <2> QED  BY <1>1, MinIsLeast
<1>3. NextStart(S, n, q) = Min(T)  BY DEF NextStart
<1>4. QED  BY <1>1, <1>2, <1>3 DEF Segmented

(* A byte's patch starts at the last start not after it.                   *)
LEMMA PatchStartIs ==
    ASSUME NEW n, NEW S, Segmented(S, n), NEW q \in 0..(n - 1)
    PROVE  /\ PatchStart(S, q) \in S /\ PatchStart(S, q) <= q
           /\ \A t \in S : t <= q => t <= PatchStart(S, q)
<1> DEFINE T == {t \in S : t <= q}
<1>1. 0 \in T /\ \A t \in T : t \in Nat /\ t <= q  BY DEF Segmented
<1>2. Max(T) \in T /\ \A t \in T : t <= Max(T)
  <2> HIDE DEF T
  <2> QED  BY <1>1, MaxIsGreatest
<1>3. PatchStart(S, q) = Max(T)  BY DEF PatchStart
<1>4. QED  BY <1>2, <1>3 DEF Segmented

(* Every start but 0, and the end, is where some patch ends.               *)
LEMMA EndsAreNextStarts ==
    ASSUME NEW n, NEW S, Segmented(S, n), NEW t \in S \cup {n}, t # 0
    PROVE  \E s \in S : NextStart(S, n, s) = t
<1>0. n \in Nat \ {0} /\ \A u \in S : u \in Nat /\ u < n  BY DEF Segmented
<1>1. t \in 1..n /\ t - 1 \in 0..(n - 1)  BY <1>0
<1>2. PICK s \in S : s <= t - 1 /\ \A u \in S : u <= t - 1 => u <= s
  BY <1>1, PatchStartIs
<1>3. s \in 0..(n - 1)  BY <1>0
<1>4. PICK e \in S \cup {n} : /\ e = NextStart(S, n, s) /\ e \in (s + 1)..n
                              /\ \A u \in S \cup {n} : u > s => e <= u
  BY <1>3, NextStartIs
<1>5. t > s  BY <1>1, <1>2, <1>3
<1>6. e <= t  BY <1>4, <1>5
<1>7. t <= e
  <2>1. CASE e = n  BY <1>1, <2>1
  <2>2. CASE e \in S /\ e <= t - 1  BY <1>2, <1>3, <1>4, <2>2
  <2>3. CASE ~(e <= t - 1)  BY <1>1, <1>3, <1>4, <2>3
  <2>4. QED  BY <1>4, <2>1, <2>2, <2>3
<1>8. e = t  BY <1>1, <1>3, <1>4, <1>6, <1>7
<1>9. QED  BY <1>4, <1>8

(* The latent of a row ends where some patch ends.                         *)
LEMMA LatentEndIs ==
    ASSUME NEW n, NEW S, Segmented(S, n), NEW c \in BOOLEAN, NEW q \in Nat
    PROVE  /\ LatentEnd(S, n, c, q) \in 1..n
           /\ \E s \in S : NextStart(S, n, s) = LatentEnd(S, n, c, q)
<1>0. n \in Nat \ {0} /\ \A t \in S : t \in Nat /\ t < n  BY DEF Segmented
<1>1. SUFFICES LatentEnd(S, n, c, q) \in (S \cup {n}) \ {0}
  BY <1>0, EndsAreNextStarts
<1>2. CASE q >= n \/ (c /\ q = n - 1)  BY <1>0, <1>2 DEF LatentEnd
<1>3. CASE ~(q >= n \/ (c /\ q = n - 1))
  <2>1. q \in 0..(n - 1)  BY <1>0, <1>3
  <2>2. PatchStart(S, q) \in S  BY <2>1, PatchStartIs
  <2>3. NextStart(S, n, q) \in S \cup {n} /\ NextStart(S, n, q) # 0  BY <2>1, NextStartIs
  <2>4. QED  BY <1>3, <2>2, <2>3 DEF LatentEnd
<1>4. QED  BY <1>2, <1>3
-----------------------------------------------------------------------------
(* Starts is a segmentation, and that of a prefix is its restriction.      *)
LEMMA StartsSegmented ==
    ASSUME NEW e, NEW x \in Seq(Byte), Len(x) >= 1
    PROVE  Segmented(Starts(e, x), Len(x))
<1>1. Len(x) \in Nat \ {0}  BY LenProperties
<1>2. QED  BY <1>1 DEF Segmented, Starts

(* The starts of a prefix are the starts of the whole that lie inside it:  *)
(* no boundary reads ahead.                                                *)
LEMMA StartsOfPrefix ==
    ASSUME NEW e, NEW x \in Seq(Byte), NEW k \in 1..Len(x)
    PROVE  /\ SubSeq(x, 1, k) \in Seq(Byte) /\ Len(SubSeq(x, 1, k)) = k
           /\ \A j \in 0..k : SubSeq(SubSeq(x, 1, k), 1, j) = SubSeq(x, 1, j)
           /\ \A t : t \in Starts(e, SubSeq(x, 1, k)) <=> t \in Starts(e, x) /\ t < k
<1> DEFINE y == SubSeq(x, 1, k)
<1>1. Len(x) \in Nat  BY LenProperties
<1>2. y \in Seq(Byte) /\ Len(y) = k  BY <1>1, SubSeqProperties
<1>3. \A j \in 0..k : SubSeq(y, 1, j) = SubSeq(x, 1, j)
  <2> TAKE j \in 0..k
  <2>1. CASE j = 0  BY <1>1, <1>2, <2>1, SubSeqEmpty
  <2>2. CASE j # 0  BY <1>1, <2>2, SubSeqOfSubSeq
  <2>3. QED  BY <2>1, <2>2
<1>4. \A t : t \in Starts(e, y) <=> t \in Starts(e, x) /\ t < k
  <2> HIDE DEF y
  <2> TAKE t
  <2>1. CASE t \in 1..(k - 1)
    <3>1. SubSeq(y, 1, t) = SubSeq(x, 1, t)  BY <1>3, <2>1
    <3>2. t \in 1..(Len(y) - 1) /\ t \in 1..(Len(x) - 1) /\ t < k  BY <1>1, <1>2, <2>1
    <3>3. QED  BY <3>1, <3>2 DEF Starts
  <2>2. CASE t = 0  BY <2>2 DEF Starts
  <2>3. CASE ~(t \in 1..(k - 1)) /\ t # 0
    <3>1. t \notin Starts(e, y)  BY <1>2, <2>3 DEF Starts
    <3>2. t \in Starts(e, x) => t \in 1..(Len(x) - 1)  BY <2>3 DEF Starts
    <3>3. QED  BY <1>1, <2>3, <3>1, <3>2
  <2>4. QED  BY <2>1, <2>2, <2>3
<1>5. QED  BY <1>2, <1>3, <1>4
-----------------------------------------------------------------------------
(* Extending a sequence whose first patch has closed leaves the latent of  *)
(* every row alone.  T segments the first k bytes of what S segments, and  *)
(* a boundary fires at k exactly when d.                                   *)
LEMMA LatentEndStable ==
    ASSUME NEW n, NEW S, Segmented(S, n), NEW k, NEW T, Segmented(T, k), k < n,
           \A t : t \in T <=> t \in S /\ t < k,
           NEW c \in BOOLEAN, NEW d \in BOOLEAN, d <=> k \in S,
           NEW i \in 1..k, i \in S,
           NEW q \in 0..(k - 1)
    PROVE  LatentEnd(T, k, d, q) = LatentEnd(S, n, c, q)
<1>0. /\ n \in Nat \ {0} /\ k \in Nat \ {0} /\ q \in 0..(n - 1) /\ q < n - 1
      /\ \A t \in S : t \in Nat
  BY DEF Segmented
<1>1. PICK s \in S : /\ s = PatchStart(S, q) /\ s <= q
                     /\ \A t \in S : t <= q => t <= s
  BY <1>0, PatchStartIs
<1>2. PatchStart(T, q) = s
  <2>1. PICK u \in T : /\ u = PatchStart(T, q) /\ u <= q
                       /\ \A t \in T : t <= q => t <= u
    BY PatchStartIs
  <2>2. s <= u  BY <1>0, <1>1, <2>1
  <2>3. u <= s  BY <1>1, <2>1
  <2>4. QED  BY <1>0, <1>1, <2>1, <2>2, <2>3
<1>3. PICK e \in S \cup {n} : /\ e = NextStart(S, n, q) /\ e \in (q + 1)..n
                              /\ \A t \in S \cup {n} : t > q => e <= t
  BY <1>0, NextStartIs, SMTT(30)
<1>4. PICK f \in T \cup {k} : /\ f = NextStart(T, k, q) /\ f \in (q + 1)..k
                              /\ \A t \in T \cup {k} : t > q => f <= t
  BY NextStartIs
<1>5. LatentEnd(S, n, c, q) = IF (q + 1 = e /\ e < n) \/ s = 0 THEN e ELSE s
  BY <1>0, <1>1, <1>3 DEF LatentEnd
<1>6. CASE d /\ q = k - 1
  <2>1. LatentEnd(T, k, d, q) = k  BY <1>6 DEF LatentEnd
  <2>2. k \in S /\ k > q  BY <1>0, <1>6
  <2>3. e = k  BY <1>0, <1>3, <1>6, <2>2
  <2>4. q + 1 = e /\ e < n  BY <1>0, <1>6, <2>3
  <2>5. LatentEnd(S, n, c, q) = e  BY <1>5, <2>4
  <2>6. QED  BY <2>1, <2>3, <2>5
<1>7. CASE ~(d /\ q = k - 1)
  <2>1. LatentEnd(T, k, d, q) = IF (q + 1 = f /\ f < k) \/ s = 0 THEN f ELSE s
    BY <1>0, <1>2, <1>4, <1>7 DEF LatentEnd
  <2>2. CASE f < k
    <3>1. f \in S /\ f > q  BY <1>0, <1>4, <2>2
    <3>2. e <= f  BY <1>3, <3>1
    <3>3. e \in T /\ e > q  BY <1>0, <1>3, <2>2, <3>1, <3>2
    <3>4. f <= e  BY <1>4, <3>3
    <3>5. e = f  BY <1>0, <1>3, <3>1, <3>2, <3>4
    <3>6. QED  BY <1>0, <1>5, <2>1, <2>2, <3>5
  <2>3. CASE f = k
    <3>1. \A t \in S : t > q => t >= k
      <4> TAKE t \in S
      <4>1. CASE t < k  BY <1>0, <1>4, <2>3, <4>1
      <4>2. CASE ~(t < k)  BY <1>0, <4>2
      <4>3. QED  BY <4>1, <4>2
    <3>2. e >= k  BY <1>0, <1>3, <3>1
    <3>3. CASE s = 0
      <4>1. i > q  BY <1>0, <1>1, <3>3
      <4>2. i = k  BY <1>0, <3>1, <4>1
      <4>3. e <= k  BY <1>0, <1>3, <4>1, <4>2
      <4>4. e = k  BY <1>0, <1>3, <3>2, <4>3
      <4>5. QED  BY <1>5, <2>1, <2>3, <3>3, <4>4
    <3>4. CASE s # 0
      <4>1. LatentEnd(T, k, d, q) = s  BY <1>0, <2>1, <2>3, <3>4
      <4>2. ~(q + 1 = e /\ e < n)
        <5>1. SUFFICES ASSUME q + 1 = e, e < n  PROVE FALSE  OBVIOUS
        <5>2. e = k /\ q = k - 1  BY <1>0, <3>2, <5>1
        <5>3. k \in S  BY <1>0, <1>3, <5>1, <5>2
        <5>4. QED  BY <1>7, <5>2, <5>3
      <4>3. QED  BY <1>5, <3>4, <4>1, <4>2
    <3>5. QED  BY <3>3, <3>4
  <2>4. QED  BY <1>0, <1>4, <2>2, <2>3
<1>8. QED  BY <1>6, <1>7

(* The rows a full pass computes for a prefix of x whose first patch is    *)
(* closed are the first rows it computes for x.                            *)
LEMMA LatentEndOfPrefix ==
    ASSUME NEW e, NEW x \in Seq(Byte), NEW k \in 1..Len(x),
           FirstClosed(e, SubSeq(x, 1, k)), NEW q \in 0..(k - 1)
    PROVE  LatentEnd(Starts(e, SubSeq(x, 1, k)), k, Closed(e, SubSeq(x, 1, k)), q)
             = LatentEnd(Starts(e, x), Len(x), Closed(e, x), q)
<1>1. Len(x) \in Nat /\ Len(x) >= 1  BY LenProperties
<1>2. CASE k = Len(x)  BY <1>2, SubSeqFull
<1>3. CASE k < Len(x)
  <2> DEFINE y == SubSeq(x, 1, k)
             S == Starts(e, x)
             T == Starts(e, y)
             d == Closed(e, y)
             c == Closed(e, x)
  <2>1. /\ y \in Seq(Byte) /\ Len(y) = k
        /\ \A j \in 0..k : SubSeq(y, 1, j) = SubSeq(x, 1, j)
        /\ \A t : t \in T <=> t \in S /\ t < k
    BY StartsOfPrefix
  <2>2. Segmented(S, Len(x))  BY <1>1, StartsSegmented
  <2>3. Segmented(T, k)
    <3> HIDE DEF y
    <3>1. y \in Seq(Byte) /\ Len(y) = k /\ Len(y) >= 1  BY <2>1
    <3>2. Segmented(Starts(e, y), Len(y))  BY <3>1, StartsSegmented
    <3>3. QED  BY <3>1, <3>2
  <2>4. d \in BOOLEAN /\ c \in BOOLEAN  BY DEF Closed
  <2>5. d <=> k \in S
    <3>1. k \in 1..(Len(x) - 1)  BY <1>1, <1>3
    <3>2. QED  BY <3>1 DEF Starts
  <2>6. PICK i \in 1..k : i \in S
    <3>1. PICK i \in 1..k : Closed(e, SubSeq(x, 1, i))
      <4>1. FirstClosed(e, y)  OBVIOUS
      <4> HIDE DEF y
      <4>2. PICK i \in 1..Len(y) : Closed(e, SubSeq(y, 1, i))  BY <4>1 DEF FirstClosed
      <4>3. i \in 1..k /\ SubSeq(y, 1, i) = SubSeq(x, 1, i)  BY <2>1, <4>2
      <4>4. QED  BY <4>2, <4>3
    <3>2. i \in 1..(Len(x) - 1)  BY <1>1, <1>3
    <3>3. QED  BY <3>1, <3>2 DEF Starts
  <2> HIDE DEF y, S, T, d, c
  <2>7. LatentEnd(T, k, d, q) = LatentEnd(S, Len(x), c, q)
    BY <1>3, <2>1, <2>2, <2>3, <2>4, <2>5, <2>6, LatentEndStable
  <2>8. QED  BY <2>7 DEF y, S, T, d, c
<1>4. QED  BY <1>1, <1>2, <1>3

(* Once the first patch has closed, the rows a full pass computes for a    *)
(* prefix are the first rows it computes for any extension.                *)
LEMMA FullViewStable ==
    ASSUME NEW e, NEW x \in Seq(Byte), NEW k \in 1..Len(x), FirstClosed(e, SubSeq(x, 1, k))
    PROVE  FullView(e, SubSeq(x, 1, k), k - 1) = FullView(e, x, k - 1)
<1> DEFINE y == SubSeq(x, 1, k)
<1>1. /\ y \in Seq(Byte) /\ Len(y) = k
      /\ \A j \in 0..k : SubSeq(y, 1, j) = SubSeq(x, 1, j)
  BY StartsOfPrefix
<1>2. ASSUME NEW j \in 1..k
      PROVE  /\ SubSeq(y, 1, j) = SubSeq(x, 1, j)
             /\ SubSeq(y, 1, LatentEnd(Starts(e, y), Len(y), Closed(e, y), j - 1))
                  = SubSeq(x, 1, LatentEnd(Starts(e, x), Len(x), Closed(e, x), j - 1))
  <2>1. j - 1 \in 0..(k - 1)  OBVIOUS
  <2>2. LatentEnd(Starts(e, y), k, Closed(e, y), j - 1)
          = LatentEnd(Starts(e, x), Len(x), Closed(e, x), j - 1)
    BY <2>1, LatentEndOfPrefix
  <2>3. LatentEnd(Starts(e, y), k, Closed(e, y), j - 1) \in 1..k
    <3> HIDE DEF y
    <3>1. y \in Seq(Byte) /\ Len(y) = k /\ Len(y) >= 1  BY <1>1
    <3>2. Segmented(Starts(e, y), k)  BY <3>1, StartsSegmented
    <3>3. Closed(e, y) \in BOOLEAN  BY DEF Closed
    <3>4. QED  BY <2>1, <3>2, <3>3, LatentEndIs
  <2> HIDE DEF y
  <2>4. PICK m \in 1..k : /\ m = LatentEnd(Starts(e, y), Len(y), Closed(e, y), j - 1)
                          /\ m = LatentEnd(Starts(e, x), Len(x), Closed(e, x), j - 1)
    BY <1>1, <2>2, <2>3
  <2>5. SubSeq(y, 1, m) = SubSeq(x, 1, m) /\ SubSeq(y, 1, j) = SubSeq(x, 1, j)
    BY <1>1
  <2>6. QED  BY <2>4, <2>5
<1>3. 1..((k - 1) + 1) = 1..k  OBVIOUS
<1> HIDE DEF y
<1>4. FullView(e, y, k - 1) = FullView(e, x, k - 1)  BY <1>2, <1>3 DEF FullView, View
<1>5. QED  BY <1>4 DEF y
-----------------------------------------------------------------------------
(* Argmax is a byte; a pass over x has one row per byte, and its first     *)
(* rows do not depend on how many are asked for.                           *)
LEMMA ArgmaxIsByte == \A m, vs : Argmax(m, vs) \in Byte
<1>1. PICK b \in Byte : TRUE  BY ByteAssumption
<1>2. TAKE m, vs
<1>3. CASE Predict(m, vs) \in Byte  BY <1>3 DEF Argmax
<1>4. CASE Predict(m, vs) \notin Byte
  <2>1. b \in Byte /\ (Predict(m, vs) \in Byte => b = Predict(m, vs))  BY <1>1, <1>4
  <2>2. QED  BY <2>1 DEF Argmax
<1>5. QED  BY <1>3, <1>4

(* A full view row by row: the bytes read and the bytes its latent         *)
(* summarises.                                                             *)
LEMMA FullViewIs ==
    ASSUME NEW e, NEW x \in Seq(Byte), NEW p \in 0..(Len(x) - 1)
    PROVE  /\ FullView(e, x, p) \in Seq([h : Seq(Byte), o : Seq(Byte)])
           /\ Len(FullView(e, x, p)) = p + 1
           /\ DOMAIN FullView(e, x, p) = 1..(p + 1)
           /\ \A k \in 1..(p + 1) :
                 FullView(e, x, p)[k] =
                    [h |-> SubSeq(x, 1, k),
                     o |-> SubSeq(x, 1, LatentEnd(Starts(e, x), Len(x), Closed(e, x), k - 1))]
<1>1. Len(x) \in Nat /\ Len(x) >= 1  BY LenProperties
<1>2. Segmented(Starts(e, x), Len(x)) /\ Closed(e, x) \in BOOLEAN
  BY <1>1, StartsSegmented DEF Closed
<1>3. ASSUME NEW k \in 1..(p + 1)
      PROVE  [h |-> SubSeq(x, 1, k),
              o |-> SubSeq(x, 1, LatentEnd(Starts(e, x), Len(x), Closed(e, x), k - 1))]
                \in [h : Seq(Byte), o : Seq(Byte)]
  <2>1. PICK n \in 1..Len(x) : n = LatentEnd(Starts(e, x), Len(x), Closed(e, x), k - 1)
    BY <1>2, LatentEndIs
  <2>2. SubSeq(x, 1, k) \in Seq(Byte) /\ SubSeq(x, 1, n) \in Seq(Byte)
    BY <1>1, <1>3, StartsOfPrefix
  <2>3. QED  BY <2>1, <2>2
<1> DEFINE R == [h : Seq(Byte), o : Seq(Byte)]
           row(k) == [h |-> SubSeq(x, 1, k),
                      o |-> SubSeq(x, 1, LatentEnd(Starts(e, x), Len(x), Closed(e, x), k - 1))]
<1>4. FullView(e, x, p) = [k \in 1..(p + 1) |-> row(k)]  BY DEF FullView, View
<1>5. \A k \in 1..(p + 1) : row(k) \in R  BY <1>3
<1>6. p + 1 \in Nat  BY <1>1
<1>7. /\ FullView(e, x, p) \in Seq(R) /\ Len(FullView(e, x, p)) = p + 1
      /\ DOMAIN FullView(e, x, p) = 1..(p + 1)
      /\ \A k \in 1..(p + 1) : FullView(e, x, p)[k] = row(k)
  <2> HIDE DEF R, row
  <2> QED  BY <1>4, <1>5, <1>6
<1>8. QED  BY <1>7

(* There are at most as many patches as bytes.                             *)
LEMMA StartsCardinality ==
    ASSUME NEW e, NEW x \in Seq(Byte), Len(x) >= 1
    PROVE  IsFiniteSet(Starts(e, x)) /\ Cardinality(Starts(e, x)) \in Nat
           /\ Cardinality(Starts(e, x)) <= Len(x)
<1>1. Len(x) \in Nat  BY LenProperties
<1>2. IsFiniteSet(0..(Len(x) - 1)) /\ Cardinality(0..(Len(x) - 1)) = Len(x)
  BY <1>1, FS_Interval
<1>3. Starts(e, x) \in SUBSET (0..(Len(x) - 1))  BY <1>1 DEF Starts
<1>4. QED  BY <1>2, <1>3, FS_Subset, FS_CardinalityType

(* When the first patch of x ends before x does, a boundary has fired there. *)
LEMMA FirstPatchClosed ==
    ASSUME NEW e, NEW x \in Seq(Byte), NEW n \in 1..(Len(x) - 1),
           NextStart(Starts(e, x), Len(x), 0) <= n
    PROVE  FirstClosed(e, SubSeq(x, 1, n))
<1>1. Len(x) \in Nat /\ Len(x) >= 1 /\ n \in 1..Len(x)  BY LenProperties
<1>2. Segmented(Starts(e, x), Len(x))  BY <1>1, StartsSegmented
<1>3. PICK i : /\ i = NextStart(Starts(e, x), Len(x), 0)
               /\ i \in Starts(e, x) \cup {Len(x)} /\ i \in 1..Len(x)
  BY <1>1, <1>2, NextStartIs
<1>4. i \in Starts(e, x) /\ i \in 1..n  BY <1>1, <1>3
<1>5. Closed(e, SubSeq(x, 1, i))  BY <1>4 DEF Starts
<1> DEFINE y == SubSeq(x, 1, n)
<1>6. Len(y) = n /\ \A j \in 0..n : SubSeq(y, 1, j) = SubSeq(x, 1, j)
  BY <1>1, StartsOfPrefix
<1>7. FirstClosed(e, y)
  <2> HIDE DEF y
  <2>1. i \in 1..Len(y) /\ SubSeq(y, 1, i) = SubSeq(x, 1, i)  BY <1>4, <1>6
  <2>2. QED  BY <1>5, <2>1 DEF FirstClosed
<1>8. QED  BY <1>7

(* The rows of two views of the same bytes agree where both have them.     *)
LEMMA FullViewRow ==
    ASSUME NEW e, NEW x \in Seq(Byte), NEW p \in 0..(Len(x) - 1), NEW q \in 0..(Len(x) - 1),
           NEW k \in 1..(p + 1), k <= q + 1
    PROVE  FullView(e, x, p)[k] = FullView(e, x, q)[k]
<1> DEFINE row == [h |-> SubSeq(x, 1, k),
                   o |-> SubSeq(x, 1, LatentEnd(Starts(e, x), Len(x), Closed(e, x), k - 1))]
<1>1. k \in 1..(q + 1)  OBVIOUS
<1>2. FullView(e, x, p)[k] = row  BY FullViewIs
<1>3. FullView(e, x, q)[k] = row  BY <1>1, FullViewIs
<1>4. QED  BY <1>2, <1>3
-----------------------------------------------------------------------------
(***************************************************************************)
(* What verifying a draft commits, for every network, candidate and length *)
(* of the committed prefix (Verification).                                 *)
(***************************************************************************)
(* A prediction of the full pass is greedy where the first patch is closed. *)
LEMMA PredIs ==
    ASSUME NEW e, NEW m, NEW x \in Seq(Byte), NEW q \in 1..Len(x),
           FirstClosed(e, SubSeq(x, 1, q))
    PROVE  Pred(e, m, x, q) = NextByte(e, m, SubSeq(x, 1, q))
<1>1. Len(SubSeq(x, 1, q)) = q  BY StartsOfPrefix
<1>2. FullView(e, SubSeq(x, 1, q), q - 1) = FullView(e, x, q - 1)  BY FullViewStable
<1>3. QED  BY <1>1, <1>2 DEF Pred, NextByte

(* The matching prefix ends at the first mismatch, or with the candidate.  *)
LEMMA MatchedIs ==
    ASSUME NEW e, NEW m, NEW x \in Seq(Byte), NEW l \in 1..Len(x)
    PROVE  /\ Matched(e, m, x, l) \in l..Len(x)
           /\ \A q \in l..(Matched(e, m, x, l) - 1) : x[q + 1] = Pred(e, m, x, q)
           /\ Matched(e, m, x, l) < Len(x)
                => x[Matched(e, m, x, l) + 1] # Pred(e, m, x, Matched(e, m, x, l))
<1> DEFINE S == Mismatches(e, m, x, l) \cup {Len(x)}
<1>1. Len(x) \in Nat /\ l \in Nat  BY LenProperties
<1>2. S \in SUBSET Nat /\ S # {}  BY <1>1 DEF Mismatches
<1>3. S \subseteq l..Len(x)  BY <1>1 DEF Mismatches
<1>4. PICK p \in S : p = Min(S) /\ \A q \in S : p <= q
  <2> HIDE DEF S
  <2> QED  BY <1>2, MinIsLeast
<1>5. p = Matched(e, m, x, l)  BY <1>4 DEF Matched
<1>6. p \in l..Len(x)  BY <1>3
<1>7. ASSUME NEW q \in l..(p - 1)  PROVE x[q + 1] = Pred(e, m, x, q)
  <2>1. q \notin S
    <3>1. q < p /\ q \in Int /\ p \in Int  BY <1>1, <1>6
    <3> HIDE DEF S
    <3>2. QED  BY <1>4, <3>1
  <2>2. q \in l..(Len(x) - 1)  BY <1>1, <1>6
  <2>3. q \notin Mismatches(e, m, x, l)  BY <2>1
  <2>4. QED  BY <2>2, <2>3 DEF Mismatches
<1>8. ASSUME p < Len(x)  PROVE x[p + 1] # Pred(e, m, x, p)
  <2>1. p \in Mismatches(e, m, x, l)  BY <1>1, <1>4, <1>6, <1>8
  <2>2. QED  BY <2>1 DEF Mismatches
<1> HIDE DEF S
<1>9. QED  BY <1>5, <1>6, <1>7, <1>8

(* A corrected draft is its prefix and the verifier's byte.                *)
LEMMA CorrectedIs ==
    ASSUME NEW e, NEW m, NEW x \in Seq(Byte), NEW p \in 1..Len(x)
    PROVE  /\ Corrected(e, m, x, p) \in Seq(Byte) /\ Len(Corrected(e, m, x, p)) = p + 1
           /\ Corrected(e, m, x, p)[p + 1] = Pred(e, m, x, p)
           /\ \A i \in 1..p : Corrected(e, m, x, p)[i] = x[i]
<1> DEFINE y == SubSeq(x, 1, p)
           b == Pred(e, m, x, p)
<1>0. Len(x) \in Nat /\ p \in Nat  BY LenProperties
<1>1. y \in Seq(Byte) /\ Len(y) = p  BY StartsOfPrefix
<1>2. b \in Byte  BY ArgmaxIsByte DEF Pred
<1>3. \A i \in 1..p : y[i] = x[i]
  <2>1. \A i \in 1..p : x[i] \in Byte  BY <1>0, LenProperties
  <2>2. \A i \in 1..(p - 1 + 1) : SubSeq(x, 1, p)[i] = x[1 + i - 1]
    BY <1>0, <2>1, SubSeqProperties
  <2>3. QED  BY <1>0, <2>2
<1>4. Corrected(e, m, x, p) = Append(y, b)  BY DEF Corrected
<1> HIDE DEF y, b
<1>5. /\ Append(y, b) \in Seq(Byte) /\ Len(Append(y, b)) = p + 1
      /\ \A i \in 1..p : Append(y, b)[i] = y[i]
      /\ Append(y, b)[p + 1] = b
  BY <1>1, <1>2, AppendProperties
<1>6. QED  BY <1>3, <1>4, <1>5 DEF b

(* Correcting a draft leaves the bytes before the correction.              *)
LEMMA CorrectedKeeps ==
    ASSUME NEW e, NEW m, NEW x \in Seq(Byte), NEW p \in 1..Len(x), NEW j \in 1..p
    PROVE  SubSeq(Corrected(e, m, x, p), 1, j) = SubSeq(x, 1, j)
<1> DEFINE y == SubSeq(x, 1, p)
           b == Pred(e, m, x, p)
<1>1. /\ y \in Seq(Byte) /\ Len(y) = p /\ j \in 0..p
      /\ SubSeq(y, 1, j) = SubSeq(x, 1, j)
  <2>1. j \in 0..p  OBVIOUS
  <2>2. QED  BY <2>1, StartsOfPrefix
<1>2. b \in Byte  BY ArgmaxIsByte DEF Pred
<1>3. Corrected(e, m, x, p) = Append(y, b)  BY DEF Corrected
<1> HIDE DEF y, b
<1>4. Append(y, b) = y \o <<b>> /\ <<b>> \in Seq(Byte)  BY <1>1, <1>2, AppendIsConcat
<1>5. 1 \in 1..Len(y) /\ j \in 1..Len(y)  BY <1>1
<1>6. SubSeq(y \o <<b>>, 1, j) = SubSeq(y, 1, j)  BY <1>1, <1>4, <1>5, SubSeqOfConcat1
<1>7. QED  BY <1>1, <1>3, <1>4, <1>6

(* What agrees with the pass and follows a closed patch is greedy: for any *)
(* prefix y of the candidate's matching bytes, or that prefix corrected.   *)
LEMMA MatchingIsGreedy ==
    ASSUME NEW e, NEW m, NEW x \in Seq(Byte), NEW l \in 1..Len(x), NEW q \in l..Len(x),
           q < Matched(e, m, x, l), FirstClosed(e, SubSeq(x, 1, q))
    PROVE  x[q + 1] = NextByte(e, m, SubSeq(x, 1, q))
<1>1. Len(x) \in Nat /\ l \in Nat /\ q \in 1..Len(x)  BY LenProperties
<1>2. Matched(e, m, x, l) \in l..Len(x)  BY MatchedIs
<1>3. q \in l..(Matched(e, m, x, l) - 1)  BY <1>1, <1>2
<1>4. x[q + 1] = Pred(e, m, x, q)  BY <1>3, MatchedIs
<1>5. QED  BY <1>1, <1>4, PredIs

(* What blt_verify_draft commits of a candidate.                           *)
LEMMA VerifiedIs ==
    ASSUME NEW e, NEW m, NEW x \in Seq(Byte), NEW l \in 1..Len(x),
           NEW target \in Nat, Len(x) <= target
    PROVE  /\ Verified(e, m, x, l, target) \in Seq(Byte)
           /\ Len(Verified(e, m, x, l, target)) \in l..target
           /\ SubSeq(Verified(e, m, x, l, target), 1, l) = SubSeq(x, 1, l)
           /\ Len(x) < target
                => Len(Verified(e, m, x, l, target)) = Matched(e, m, x, l) + 1
           /\ l < Len(x) => Len(Verified(e, m, x, l, target)) > l
<1>1. Len(x) \in Nat /\ l \in Nat /\ l >= 1  BY LenProperties
<1>2. PICK p \in 1..Len(x) : p = Matched(e, m, x, l) /\ p \in l..Len(x)  BY <1>1, MatchedIs
<1>3. CASE p < Len(x) \/ Len(x) < target
  <2>1. Verified(e, m, x, l, target) = Corrected(e, m, x, p)  BY <1>2, <1>3 DEF Verified
  <2>2. Corrected(e, m, x, p) \in Seq(Byte) /\ Len(Corrected(e, m, x, p)) = p + 1
    BY CorrectedIs
  <2>3. l \in 1..p  BY <1>1, <1>2
  <2>4. SubSeq(Corrected(e, m, x, p), 1, l) = SubSeq(x, 1, l)  BY <2>3, CorrectedKeeps
  <2>5. p + 1 \in l..target /\ p + 1 > l  BY <1>1, <1>2, <1>3
  <2>6. QED  BY <1>2, <2>1, <2>2, <2>4, <2>5
<1>4. CASE ~(p < Len(x) \/ Len(x) < target)
  <2>1. Verified(e, m, x, l, target) = x  BY <1>2, <1>4 DEF Verified
  <2>2. Len(x) = target /\ Len(x) \in l..target  BY <1>1, <1>2, <1>4
  <2>3. QED  BY <1>1, <2>1, <2>2
<1>5. QED  BY <1>3, <1>4

(* Whatever it commits beyond a closed patch is the greedy byte.           *)
LEMMA VerifiedIsGreedy ==
    ASSUME NEW e, NEW m, NEW x \in Seq(Byte), NEW l \in 1..Len(x),
           NEW target \in Nat, Len(x) <= target,
           NEW y, y = Verified(e, m, x, l, target), NEW i \in (l + 1)..Len(y),
           FirstClosed(e, SubSeq(y, 1, i - 1))
    PROVE  y[i] = NextByte(e, m, SubSeq(y, 1, i - 1))
<1>1. Len(x) \in Nat /\ l \in Nat /\ l >= 1  BY LenProperties
<1>2. PICK p \in 1..Len(x) : p = Matched(e, m, x, l) /\ p \in l..Len(x)  BY <1>1, MatchedIs
<1>3. CASE p < Len(x) \/ Len(x) < target
  <2>1. y = Corrected(e, m, x, p)  BY <1>2, <1>3 DEF Verified
  <2>2. Len(Corrected(e, m, x, p)) = p + 1  BY CorrectedIs
  <2>3. PICK q \in l..p : i = q + 1 /\ i - 1 = q  BY <1>1, <1>2, <2>1, <2>2
  <2>4. q \in 1..p /\ q \in 1..Len(x) /\ q \in l..Len(x)  BY <1>1, <1>2
  <2>5. SubSeq(y, 1, i - 1) = SubSeq(x, 1, q)
    <3>1. SubSeq(Corrected(e, m, x, p), 1, q) = SubSeq(x, 1, q)  BY <2>4, CorrectedKeeps
    <3>2. QED  BY <2>1, <2>3, <3>1
  <2>6. FirstClosed(e, SubSeq(x, 1, q))  BY <2>5
  <2>7. CASE q = p
    <3>1. Pred(e, m, x, q) = NextByte(e, m, SubSeq(x, 1, q))  BY <2>4, <2>6, PredIs
    <3>2. Corrected(e, m, x, p)[p + 1] = Pred(e, m, x, p)  BY CorrectedIs
    <3>3. QED  BY <2>1, <2>3, <2>5, <2>7, <3>1, <3>2
  <2>8. CASE q # p
    <3>1. q < p /\ q + 1 \in 1..p  BY <1>1, <1>2, <2>8
    <3>2. x[q + 1] = NextByte(e, m, SubSeq(x, 1, q))
      BY <1>2, <2>4, <2>6, <3>1, MatchingIsGreedy
    <3>3. \A j \in 1..p : Corrected(e, m, x, p)[j] = x[j]  BY CorrectedIs
    <3>4. QED  BY <2>1, <2>3, <2>5, <3>1, <3>2, <3>3
  <2>9. QED  BY <2>7, <2>8
<1>4. CASE ~(p < Len(x) \/ Len(x) < target)
  <2>1. y = x  BY <1>2, <1>4 DEF Verified
  <2>2. PICK q \in l..Len(x) : i = q + 1 /\ i - 1 = q /\ q < p
    BY <1>1, <1>2, <1>4, <2>1
  <2>3. FirstClosed(e, SubSeq(x, 1, q))  BY <2>1, <2>2
  <2>4. x[q + 1] = NextByte(e, m, SubSeq(x, 1, q))  BY <1>2, <2>2, <2>3, MatchingIsGreedy
  <2>5. QED  BY <2>1, <2>2, <2>4
<1>5. QED  BY <1>3, <1>4

(* How much it commits beyond the matching bytes: at most one more.        *)
LEMMA VerifiedLength ==
    ASSUME NEW e, NEW m, NEW x \in Seq(Byte), NEW l \in 1..Len(x),
           NEW target \in Nat, Len(x) <= target
    PROVE  /\ Matched(e, m, x, l) \in l..Len(x)
           /\ Len(Verified(e, m, x, l, target)) \in {Matched(e, m, x, l), Matched(e, m, x, l) + 1}
           /\ Matched(e, m, x, l) < Len(x)
                => Len(Verified(e, m, x, l, target)) = Matched(e, m, x, l) + 1
<1>1. Len(x) \in Nat /\ l \in Nat /\ l >= 1  BY LenProperties
<1>2. PICK p \in 1..Len(x) : p = Matched(e, m, x, l) /\ p \in l..Len(x)  BY <1>1, MatchedIs
<1>3. CASE p < Len(x) \/ Len(x) < target
  <2>1. Verified(e, m, x, l, target) = Corrected(e, m, x, p)  BY <1>2, <1>3 DEF Verified
  <2>2. Len(Corrected(e, m, x, p)) = p + 1  BY CorrectedIs
  <2>3. QED  BY <1>2, <2>1, <2>2
<1>4. CASE ~(p < Len(x) \/ Len(x) < target)
  <2>1. Verified(e, m, x, l, target) = x  BY <1>2, <1>4 DEF Verified
  <2>2. p = Len(x)  BY <1>1, <1>2, <1>4
  <2>3. QED  BY <1>2, <1>4, <2>1, <2>2
<1>5. QED  BY <1>3, <1>4

(* The aligned end, if there is one, is among the matching bytes.          *)
LEMMA AlignedEndIs ==
    ASSUME NEW e, NEW m, NEW x \in Seq(Byte), NEW l \in 1..Len(x)
    PROVE  /\ AlignedEnd(e, m, x, l) \in Nat
           /\ AlignedEnd(e, m, x, l) > l =>
                AlignedEnd(e, m, x, l) \in (l + 1)..Matched(e, m, x, l)
<1>1. Len(x) \in Nat /\ l \in Nat /\ l >= 1  BY LenProperties
<1>2. PICK p \in Nat : p = Matched(e, m, x, l) /\ p \in l..Len(x)  BY <1>1, MatchedIs
<1> DEFINE T == {0} \cup {b \in PatchEnds(e, x) : l < b /\ b <= p}
<1>3. \A t \in T : t \in Nat /\ t <= p
  <2>1. \A b \in PatchEnds(e, x) : b \in Nat  BY <1>1 DEF PatchEnds, Starts
  <2>2. QED  BY <1>1, <1>2, <2>1
<1>4. Max(T) \in T
  <2>1. T # {}  OBVIOUS
  <2> HIDE DEF T
  <2>2. QED  BY <1>2, <1>3, <2>1, MaxIsGreatest
<1>5. CommitSelect(e, x, l, p) = Max(T)  BY DEF CommitSelect
<1>6. AlignedEnd(e, m, x, l) \in T  BY <1>2, <1>4, <1>5 DEF AlignedEnd
<1>7. \A t \in T : t > l => t \in (l + 1)..p  BY <1>1, <1>2, <1>3
<1> HIDE DEF T
<1>8. QED  BY <1>2, <1>3, <1>6, <1>7

(* What blt_verify_draft_aligned commits, and how it counts it: at least   *)
(* one byte, never more than the draft accepted.                           *)
LEMMA VerifiedAlignedIs ==
    ASSUME NEW e, NEW m, NEW x \in Seq(Byte), NEW l \in 1..Len(x), l < Len(x),
           NEW target \in Nat, Len(x) <= target,
           NEW y, y = VerifiedAligned(e, m, x, l, target),
           NEW a, a = AcceptedAligned(e, m, x, l)
    PROVE  /\ y \in Seq(Byte) /\ Len(y) \in (l + 1)..target
           /\ SubSeq(y, 1, l) = SubSeq(x, 1, l)
           /\ a \in 1..(Len(x) - l) /\ a <= Len(y) - l
<1>1. Len(x) \in Nat /\ l \in Nat /\ l >= 1  BY LenProperties
<1>2. PICK p \in Nat : p = Matched(e, m, x, l) /\ p \in l..Len(x)  BY <1>1, MatchedIs
<1>3. PICK z \in Nat : z = AlignedEnd(e, m, x, l) /\ (z > l => z \in (l + 1)..p)
  BY <1>2, AlignedEndIs
<1>4. CASE z > l
  <2>1. y = SubSeq(x, 1, z) /\ a = z - l  BY <1>3, <1>4 DEF VerifiedAligned, AcceptedAligned
  <2>2. z \in 1..Len(x) /\ l \in 0..z /\ z \in (l + 1)..target  BY <1>1, <1>2, <1>3, <1>4
  <2>3. /\ y \in Seq(Byte) /\ Len(y) = z /\ SubSeq(y, 1, l) = SubSeq(x, 1, l)
    BY <2>1, <2>2, StartsOfPrefix
  <2>4. QED  BY <1>1, <2>1, <2>2, <2>3
<1>5. CASE ~(z > l)
  <2>1. /\ y = Verified(e, m, x, l, target)
        /\ a = IF p < Len(x) THEN 1 ELSE Len(x) - l
    BY <1>2, <1>3, <1>5 DEF VerifiedAligned, AcceptedAligned
  <2>2. y \in Seq(Byte) /\ Len(y) \in l..target /\ Len(y) > l
        /\ SubSeq(y, 1, l) = SubSeq(x, 1, l)
    BY <2>1, VerifiedIs
  <2>3. Len(y) \in {p, p + 1} /\ (p < Len(x) => Len(y) = p + 1)
    BY <1>2, <2>1, VerifiedLength
  <2>4. QED  BY <1>1, <1>2, <2>1, <2>2, <2>3
<1>6. QED  BY <1>4, <1>5

(* The aligned verifier's bytes are greedy too.                            *)
LEMMA VerifiedAlignedIsGreedy ==
    ASSUME NEW e, NEW m, NEW x \in Seq(Byte), NEW l \in 1..Len(x),
           NEW target \in Nat, Len(x) <= target,
           NEW y, y = VerifiedAligned(e, m, x, l, target), NEW i \in (l + 1)..Len(y),
           FirstClosed(e, SubSeq(y, 1, i - 1))
    PROVE  y[i] = NextByte(e, m, SubSeq(y, 1, i - 1))
<1>1. Len(x) \in Nat /\ l \in Nat /\ l >= 1  BY LenProperties
<1>2. PICK p \in Nat : p = Matched(e, m, x, l) /\ p \in l..Len(x)  BY <1>1, MatchedIs
<1>3. PICK z \in Nat : z = AlignedEnd(e, m, x, l) /\ (z > l => z \in (l + 1)..p)
  BY <1>2, AlignedEndIs
<1>4. CASE z > l
  <2>1. y = SubSeq(x, 1, z)  BY <1>3, <1>4 DEF VerifiedAligned
  <2>2. z \in 1..Len(x)  BY <1>1, <1>2, <1>3, <1>4
  <2>3. /\ Len(y) = z /\ \A j \in 0..z : SubSeq(y, 1, j) = SubSeq(x, 1, j)
        /\ \A j \in 1..z : y[j] = x[j]
    <3>1. Len(y) = z /\ \A j \in 0..z : SubSeq(y, 1, j) = SubSeq(x, 1, j)
      BY <2>1, <2>2, StartsOfPrefix
    <3>2. \A j \in 1..Len(x) : x[j] \in Byte  BY <1>1, LenProperties
    <3>3. \A j \in 1..(z - 1 + 1) : SubSeq(x, 1, z)[j] = x[1 + j - 1]
      BY <1>1, <2>2, <3>2, SubSeqProperties
    <3>4. QED  BY <2>1, <2>2, <3>1, <3>3
  <2>4. PICK q \in l..Len(x) : i = q + 1 /\ i - 1 = q /\ q < p /\ q \in 0..z
    BY <1>1, <1>2, <1>3, <1>4, <2>2, <2>3
  <2>5. SubSeq(y, 1, i - 1) = SubSeq(x, 1, q) /\ y[i] = x[q + 1]
    BY <1>1, <2>2, <2>3, <2>4
  <2>6. x[q + 1] = NextByte(e, m, SubSeq(x, 1, q))  BY <1>2, <2>4, <2>5, MatchingIsGreedy
  <2>7. QED  BY <2>5, <2>6
<1>5. CASE ~(z > l)
  <2>1. y = Verified(e, m, x, l, target)  BY <1>3, <1>5 DEF VerifiedAligned
  <2>2. QED  BY <2>1, VerifiedIsGreedy
<1>6. QED  BY <1>4, <1>5
=============================================================================
