----------------------------- MODULE PatchProofs -----------------------------
(***************************************************************************)
(* Proofs about patches: how the bytes are cut into them (Patcher, for     *)
(* every input, every entropy, every boundary rule and every capacity of   *)
(* the array), and what the rows of the network read through them          *)
(* (Dataflow, for every call of every model: any number of bytes, patches, *)
(* documents, blocks and layers, any weights and any n-gram hash).         *)
(***************************************************************************)
EXTENDS Patcher, Dataflow, NumberProofs, SequenceTheorems

(* What the scan's recurrence computes.                                    *)
Opens(v, c, nl, x, e) ==
    /\ v[0] = 0
    /\ \A u \in 1..Len(x) - 1 :
          v[u] = IF PatchBoundary(c, nl, x, e, u, v[u - 1]) THEN u ELSE v[u - 1]
    /\ \A u \in 0..Len(x) - 1 : v[u] \in 0..u

(* The recursive function that finds the open patch satisfies its equation *)
(* (the scan of blt_segment_patches).                                      *)
LEMMA OpenStartIs ==
    ASSUME NEW c, NEW nl, NEW x, Len(x) \in Nat \ {0}, NEW e
    PROVE  Opens(OpenStart(c, nl, x, e), c, nl, x, e)
<1> DEFINE last == Len(x) - 1
           next(u, before) == IF PatchBoundary(c, nl, x, e, u, before) THEN u ELSE before
           Body(f) == [u \in 0..last |-> IF u = 0 THEN 0 ELSE next(u, f[u - 1])]
           F == [u \in 1..last |-> [before \in Nat |-> next(u, before)]]
           g == CHOOSE f : f = Body(f)
           P == {u \in 0..last : g[u] \in 0..u}
<1>1. last \in Nat  OBVIOUS
<1>2. OpenStart(c, nl, x, e) = g  BY DEF OpenStart
<1>3. \E f : f = Body(f)
  <2>1. F \in [1..last -> [Nat -> Nat]]  BY <1>1
  <2>2. \A u \in 1..last, s \in Nat : F[u][s] = next(u, s)  OBVIOUS
  <2> HIDE DEF F, next
  <2>3. 0 \in Nat  OBVIOUS
  <2>4. PICK w : Recurses(w, last, Nat, 0, F)
    <3> HIDE DEF last, Body, g, P
    <3> QED  BY <1>1, <2>1, <2>3, RecursionExists, Zenon
  <2>5. w = Body(w)
    <3>1. w \in [0..last -> Nat] /\ w[0] = 0 /\ \A u \in 1..last : w[u] = F[u][w[u - 1]]
      BY <2>4 DEF Recurses
    <3>2. ASSUME NEW u \in 0..last  PROVE w[u] = Body(w)[u]
      <4>1. CASE u = 0  BY <3>1, <4>1
      <4>2. CASE u # 0
        <5>1. u \in 1..last /\ w[u - 1] \in Nat  BY <1>1, <3>1, <4>2, SMTT(30)
        <5>2. QED  BY <2>2, <3>1, <4>2, <5>1
      <4>3. QED  BY <4>1, <4>2
    <3>3. QED  BY <3>1, <3>2
  <2>6. QED  BY <2>5
<1>4. g = Body(g)
  <2> HIDE DEF Body
  <2> QED  BY <1>3
<1>5. g[0] = 0 /\ \A u \in 1..last : g[u] = next(u, g[u - 1])
  <2> HIDE DEF g, next
  <2>1. ASSUME NEW u \in 0..last  PROVE g[u] = IF u = 0 THEN 0 ELSE next(u, g[u - 1])
    BY <1>4, <2>1
  <2>2. QED  BY <1>1, <2>1
<1> HIDE DEF g
<1>6. \A u \in 0..last : u \in P
  <2>1. 0 \in P  BY <1>1, <1>5
  <2>2. ASSUME NEW u \in 1..last, u - 1 \in P  PROVE u \in P
    <3>1. g[u] = u \/ g[u] = g[u - 1]  BY <1>5
    <3>2. g[u - 1] \in 0..u - 1  BY <2>2
    <3>3. QED  BY <3>1, <3>2
  <2> HIDE DEF P
  <2>3. QED  BY <1>1, <2>1, <2>2, InductionUpTo
<1>7. QED  BY <1>2, <1>5, <1>6 DEF Opens

(* The rule reads nothing past the position it decides, so it decides the  *)
(* same from any prefix that reaches there ...                             *)
LEMMA BoundaryReadsPrefix ==
    ASSUME NEW c, NEW x \in Seq(Byte), NEW e \in Seq(Entropy), Len(e) = Len(x),
           NEW u \in 1..Len(x), NEW q \in 1..u, NEW s \in Nat
    PROVE  PatchBoundary(c, Newline, SubSeq(x, 1, u), SubSeq(e, 1, u), q, s)
             <=> PatchBoundary(c, Newline, x, e, q, s)
<1>1. SubSeq(x, 1, u)[q] = x[q] /\ SubSeq(e, 1, u)[q] = e[q]  OBVIOUS
<1>2. q >= s + 2 => SubSeq(e, 1, u)[q - 1] = e[q - 1]  OBVIOUS
<1>3. Above(c, SubSeq(e, 1, u), q) <=> Above(c, e, q)  BY <1>1 DEF Above
<1>4. Rising(c, SubSeq(e, 1, u), q, s) <=> Rising(c, e, q, s)  BY <1>1, <1>2 DEF Rising
<1>5. QED  BY <1>1, <1>3, <1>4 DEF PatchBoundary

(* ... and so does the recurrence.                                         *)
LEMMA OpenStartOfPrefix ==
    ASSUME NEW c, NEW x \in Seq(Byte), NEW e \in Seq(Entropy), Len(e) = Len(x),
           NEW u \in 1..Len(x)
    PROVE  \A q \in 0..u - 1 : OpenStart(c, Newline, SubSeq(x, 1, u), SubSeq(e, 1, u))[q]
                                 = OpenStart(c, Newline, x, e)[q]
<1> DEFINE y == SubSeq(x, 1, u)
           f == SubSeq(e, 1, u)
           v == OpenStart(c, Newline, x, e)
           r == OpenStart(c, Newline, y, f)
           P == {q \in 0..u - 1 : r[q] = v[q]}
<1>1. Len(y) = u /\ u - 1 \in Nat /\ u \in Nat \ {0} /\ Len(x) \in Nat \ {0}  BY LenProperties
<1>2. Opens(v, c, Newline, x, e)  BY <1>1, OpenStartIs
<1>3. Opens(r, c, Newline, y, f)
  <2> HIDE DEF y, f
  <2> QED  BY <1>1, OpenStartIs
<1>4. \A q \in 1..u, s \in Nat :
        PatchBoundary(c, Newline, y, f, q, s) <=> PatchBoundary(c, Newline, x, e, q, s)
  BY BoundaryReadsPrefix
<1> HIDE DEF y, f, v, r
<1>5. 0 \in P  BY <1>1, <1>2, <1>3 DEF Opens
<1>6. ASSUME NEW q \in 1..u - 1, q - 1 \in P  PROVE q \in P
  <2>1. q \in 1..u /\ q \in 1..Len(x) - 1 /\ q \in 1..Len(y) - 1 /\ q - 1 \in 0..Len(x) - 1
    BY <1>1
  <2>2. r[q - 1] = v[q - 1] /\ v[q - 1] \in Nat  BY <1>2, <1>6, <2>1 DEF Opens
  <2>3. v[q] = IF PatchBoundary(c, Newline, x, e, q, v[q - 1]) THEN q ELSE v[q - 1]
    BY <1>2, <2>1 DEF Opens
  <2>4. r[q] = IF PatchBoundary(c, Newline, y, f, q, r[q - 1]) THEN q ELSE r[q - 1]
    BY <1>3, <2>1 DEF Opens
  <2>5. r[q] = v[q]  BY <1>4, <2>1, <2>2, <2>3, <2>4
  <2>6. QED  BY <2>5
<1>7. \A q \in 0..u - 1 : q \in P
  <2> HIDE DEF P
  <2> QED  BY <1>1, <1>5, <1>6, InductionUpTo
<1>8. QED  BY <1>7 DEF y, f, v, r

(* The positions a patch starts at, after the first, and Len(x) when the   *)
(* whole input ends a patch.                                               *)
Cuts(c, x, e) ==
    {u \in 1..Len(x) : PatchBoundary(c, Newline, x, e, u, OpenStart(c, Newline, x, e)[u - 1])}

(* blt_next_starts_patch on a prefix finds what the rule finds in the      *)
(* whole input.                                                            *)
LEMMA NextStartsIsCut ==
    ASSUME NEW c, NEW x \in Seq(Byte), NEW e \in Seq(Entropy), Len(e) = Len(x),
           NEW u \in 1..Len(x)
    PROVE  NextStartsPatch(c, Newline, SubSeq(x, 1, u), SubSeq(e, 1, u)) <=> u \in Cuts(c, x, e)
<1> DEFINE v == OpenStart(c, Newline, x, e)
           r == OpenStart(c, Newline, SubSeq(x, 1, u), SubSeq(e, 1, u))
<1>1. /\ Len(SubSeq(x, 1, u)) = u /\ u \in Nat \ {0} /\ Len(x) \in Nat \ {0}
      /\ u \in 1..u /\ u - 1 \in 0..u - 1 /\ u - 1 \in 0..Len(x) - 1
  BY LenProperties
<1>2. r[u - 1] = v[u - 1]  BY <1>1, OpenStartOfPrefix
<1>3. v[u - 1] \in Nat
  <2>1. Opens(v, c, Newline, x, e)  BY <1>1, OpenStartIs
  <2> HIDE DEF v
  <2>2. QED  BY <1>1, <2>1 DEF Opens
<1>4. NextStartsPatch(c, Newline, SubSeq(x, 1, u), SubSeq(e, 1, u))
        <=> PatchBoundary(c, Newline, SubSeq(x, 1, u), SubSeq(e, 1, u), u, r[u - 1])
  BY <1>1 DEF NextStartsPatch
<1> HIDE DEF v, r
<1>5. QED  BY <1>1, <1>2, <1>3, <1>4, BoundaryReadsPrefix DEF Cuts, v
-----------------------------------------------------------------------------
(***************************************************************************)
(* The inductive invariant.  The open patch starts where the recurrence    *)
(* says; the patches emitted are in order, end to end, each of the shape   *)
(* the configuration asks for, and they end exactly at the cuts seen so    *)
(* far; and the scan stops early only when the array is full.              *)
(***************************************************************************)
TheCuts == Cuts(config, bytes, ent)
CutsSeen(k) == {u \in 1..k : u \in TheCuts}
Ends == {End(patches[k]) : k \in DOMAIN patches}

Shaped(c, x, s, e) ==       \* a patch that starts at s and ends before e
    /\ e - s <= c.maxLength
    /\ c.newline => \A u \in s..(e - 2) : x[u + 1] # Newline

OpenInv ==
    /\ start < i
    /\ start = OpenStart(config, Newline, bytes, ent)[i - 1]
    /\ Shaped(config, bytes, start, i)

ArrayInv ==
    /\ Len(patches) <= cap
    /\ \A k \in DOMAIN patches :
          /\ patches[k].start = IF k = 1 THEN 0 ELSE End(patches[k - 1])
          /\ End(patches[k]) <= Covered
          /\ Shaped(config, bytes, patches[k].start, End(patches[k]))
    /\ \A k, l \in DOMAIN patches : k < l => End(patches[k]) <= patches[l].start
    /\ \A u \in 1..(i - 1) : u \in Ends <=> u \in TheCuts

PhaseInv ==
    /\ pc # "done" => Covered = start /\ Len(patches) = Cardinality(CutsSeen(i - 1))
    /\ pc = "close" => i = n \/ Len(patches) = cap
    /\ pc = "done" =>
          \/ Covered = start /\ Len(patches) = cap /\ cap = Cardinality(CutsSeen(i - 1))
          \/ Covered = n /\ i = n /\ Cardinality(CutsSeen(n - 1)) < cap

IInv == TypeOK /\ OpenInv /\ ArrayInv /\ PhaseInv
(* The facts about the arguments that the steps use.                       *)
LEMMA Sizes ==
    ASSUME TypeOK
    PROVE  /\ n \in Nat \ {0} /\ cap \in Nat \ {0} /\ config.maxLength \in Nat \ {0}
           /\ i \in Nat \ {0} /\ start \in Nat /\ i <= n
BY LenProperties, PatcherAssumption DEF TypeOK, n

(* What the scan has seen, in terms of the cuts.                           *)
LEMMA Arguments ==
    ASSUME TypeOK
    PROVE  /\ n \in Nat \ {0} /\ bytes \in Seq(Byte) /\ ent \in Seq(Entropy) /\ Len(ent) = n
           /\ cap \in Nat \ {0} /\ config.maxLength \in Nat \ {0}
           /\ i \in Nat \ {0} /\ start \in Nat /\ i <= n
           /\ Opens(OpenStart(config, Newline, bytes, ent), config, Newline, bytes, ent)
           /\ \A u \in 1..n : ClosedAt(u) <=> u \in TheCuts
           /\ \A k \in Nat : IsFiniteSet(CutsSeen(k)) /\ Cardinality(CutsSeen(k)) \in Nat
<1>1. /\ n \in Nat \ {0} /\ bytes \in Seq(Byte) /\ ent \in Seq(Entropy) /\ Len(ent) = n
      /\ config \in Config /\ cap \in Capacity /\ i \in 1..n /\ start \in 0..n - 1
  BY LenProperties DEF TypeOK, n
<1>2. cap \in Nat \ {0} /\ config.maxLength \in Nat \ {0}  BY <1>1, PatcherAssumption
<1>3. Opens(OpenStart(config, Newline, bytes, ent), config, Newline, bytes, ent)
  BY <1>1, OpenStartIs DEF n
<1>4. \A u \in 1..n : ClosedAt(u) <=> u \in TheCuts
  BY <1>1, NextStartsIsCut DEF ClosedAt, TheCuts, n
<1>5. ASSUME NEW k \in Nat  PROVE IsFiniteSet(CutsSeen(k)) /\ Cardinality(CutsSeen(k)) \in Nat
  <2>1. IsFiniteSet(1..k)  BY FS_Interval
  <2>2. CutsSeen(k) \subseteq 1..k  BY DEF CutsSeen
  <2>3. QED  BY <2>1, <2>2, FS_Subset, FS_CardinalityType
<1>6. QED  BY <1>1, <1>2, <1>3, <1>4, <1>5

(* The scan decides as the recurrence does.                                *)
LEMMA BoundaryIsCut ==
    ASSUME IInv, i < n
    PROVE  /\ AtBoundary <=> i \in TheCuts
           /\ OpenStart(config, Newline, bytes, ent)[i] = IF AtBoundary THEN i ELSE start
<1>1. i \in 1..n - 1 /\ i \in 1..n  BY Sizes DEF IInv
<1>2. QED  BY <1>1, Arguments DEF IInv, OpenInv, Opens, AtBoundary, TheCuts, Cuts, n

(* The cuts seen once i is decided.                                        *)
LEMMA SeenNext ==
    ASSUME IInv
    PROVE  Cardinality(CutsSeen(i)) = Cardinality(CutsSeen(i - 1)) + (IF i \in TheCuts THEN 1 ELSE 0)
<1>1. i \in Nat \ {0} /\ i - 1 \in Nat  BY Sizes DEF IInv
<1>2. IsFiniteSet(CutsSeen(i - 1)) /\ Cardinality(CutsSeen(i - 1)) \in Nat  BY <1>1, Arguments DEF IInv
<1>3. i \notin CutsSeen(i - 1)  BY <1>1 DEF CutsSeen
<1>4. CASE i \in TheCuts
  <2>1. CutsSeen(i) = CutsSeen(i - 1) \cup {i}  BY <1>1, <1>4 DEF CutsSeen
  <2>2. QED  BY <1>2, <1>3, <1>4, <2>1, FS_AddElement
<1>5. CASE i \notin TheCuts
  <2>1. CutsSeen(i) = CutsSeen(i - 1)  BY <1>1, <1>5 DEF CutsSeen
  <2>2. QED  BY <1>2, <1>5, <2>1
<1>6. QED  BY <1>4, <1>5

(* Emitting the open patch keeps the array in shape and covers up to i.    *)
LEMMA Emitted ==
    ASSUME IInv, pc # "done", Emit, UNCHANGED args
    PROVE  /\ patches' \in Seq(PatchInfo)
           /\ Len(patches') = Len(patches) + 1 /\ Len(patches') <= cap
           /\ Covered' = i
           /\ \A k \in DOMAIN patches' :
                 /\ patches'[k].start = IF k = 1 THEN 0 ELSE End(patches'[k - 1])
                 /\ End(patches'[k]) <= i
                 /\ Shaped(config, bytes, patches'[k].start, End(patches'[k]))
           /\ \A k, l \in DOMAIN patches' : k < l => End(patches'[k]) <= patches'[l].start
           /\ Ends' = Ends \cup {i}
<1> DEFINE m == Len(patches)
<1>1. /\ patches \in Seq(PatchInfo) /\ m \in Nat /\ DOMAIN patches = 1..m
      /\ patches' = Append(patches, Current) /\ m < cap
  BY LenProperties DEF IInv, TypeOK, Emit
<1>2. i \in Nat \ {0} /\ start \in Nat /\ start < i /\ cap \in Nat
  BY Sizes DEF IInv, OpenInv
<1>3. Current \in PatchInfo /\ Current.start = start /\ End(Current) = i
  <2>1. i - start \in Nat \ {0} /\ start + (i - start) = i  BY <1>2
  <2>2. QED  BY <1>2, <2>1 DEF Current, PatchInfo, End
<1> HIDE DEF m
<1>4. /\ patches' \in Seq(PatchInfo) /\ Len(patches') = m + 1 /\ DOMAIN patches' = 1..m + 1
      /\ patches'[m + 1] = Current /\ \A k \in 1..m : patches'[k] = patches[k]
  BY <1>1, <1>3 DEF m
<1>5. Covered = start  BY DEF IInv, PhaseInv
<1>6. \A k \in 1..m : End(patches[k]) \in Nat /\ End(patches[k]) <= start
  <2>1. \A k \in 1..m : patches[k] \in PatchInfo /\ End(patches[k]) <= start
    BY <1>1, <1>5 DEF IInv, ArrayInv
  <2>2. QED  BY <2>1 DEF PatchInfo, End
<1>7. Covered' = i
  <2>1. patches' # <<>>  BY <1>1, <1>4
  <2>2. QED  BY <1>3, <1>4, <2>1 DEF Covered
<1>9. ASSUME NEW k \in 1..m + 1
      PROVE  /\ patches'[k].start = IF k = 1 THEN 0 ELSE End(patches'[k - 1])
             /\ End(patches'[k]) <= i
             /\ Shaped(config, bytes, patches'[k].start, End(patches'[k]))
  <2>1. CASE k \in 1..m
    <3>1. patches[k].start = IF k = 1 THEN 0 ELSE End(patches[k - 1])
      BY <1>1, <2>1 DEF IInv, ArrayInv
    <3>2. Shaped(config, bytes, patches[k].start, End(patches[k]))  BY <1>1, <2>1 DEF IInv, ArrayInv
    <3>3. k # 1 => k - 1 \in 1..m  BY <1>1, <2>1
    <3>4. End(patches[k]) <= i  BY <1>2, <1>6, <2>1
    <3>5. QED  BY <1>4, <2>1, <3>1, <3>2, <3>3, <3>4
  <2>2. CASE k = m + 1
    <3>1. patches'[k].start = start /\ End(patches'[k]) = i  BY <1>3, <1>4, <2>2
    <3>2. start = IF k = 1 THEN 0 ELSE End(patches'[k - 1])
      <4>1. CASE m = 0
        <5>1. patches = <<>>  BY <1>1, <4>1 DEF m
        <5>2. QED  BY <1>5, <2>2, <4>1, <5>1 DEF Covered
      <4>2. CASE m # 0
        <5>1. patches # <<>> /\ k # 1 /\ k - 1 = m /\ m \in 1..m  BY <1>1, <2>2, <4>2 DEF m
        <5>2. QED  BY <1>4, <1>5, <5>1 DEF Covered, m
      <4>3. QED  BY <4>1, <4>2
    <3>3. Shaped(config, bytes, start, i)  BY DEF IInv, OpenInv
    <3>4. QED  BY <1>2, <3>1, <3>2, <3>3
  <2>3. QED  BY <1>1, <2>1, <2>2
<1>10. ASSUME NEW k \in 1..m + 1, NEW l \in 1..m + 1, k < l
       PROVE  End(patches'[k]) <= patches'[l].start
  <2>1. k \in 1..m /\ patches'[k] = patches[k]  BY <1>1, <1>4, <1>10
  <2>2. CASE l \in 1..m
    <3>1. End(patches[k]) <= patches[l].start  BY <1>1, <1>10, <2>1, <2>2 DEF IInv, ArrayInv
    <3>2. QED  BY <1>4, <2>1, <2>2, <3>1
  <2>3. CASE l = m + 1  BY <1>3, <1>4, <1>6, <2>1, <2>3
  <2>4. QED  BY <1>1, <2>2, <2>3
<1>11. Ends' = Ends \cup {i}
  <2>1. ASSUME NEW u  PROVE u \in Ends' <=> u \in Ends \cup {i}
    <3>1. u \in Ends' <=> \E k \in 1..m + 1 : u = End(patches'[k])  BY <1>4 DEF Ends
    <3>2. u \in Ends <=> \E k \in 1..m : u = End(patches[k])  BY <1>1 DEF Ends
    <3>3. m + 1 \in 1..m + 1 /\ 1..m + 1 = 1..m \cup {m + 1}  BY <1>1
    <3>4. QED  BY <1>3, <1>4, <3>1, <3>2, <3>3
  <2>2. QED  BY <2>1
<1>12. m + 1 <= cap  BY <1>1, <1>2
<1>13. QED  BY <1>4, <1>7, <1>9, <1>10, <1>11, <1>12 DEF m
(* Nothing is emitted yet, and nothing is seen.                            *)
LEMMA InitIInv == Init => IInv
<1> SUFFICES ASSUME Init PROVE IInv  OBVIOUS
<1>1. /\ bytes \in Input(Byte) /\ ent \in Input(Entropy) /\ Len(ent) = Len(bytes)
      /\ config \in Config /\ cap \in Capacity /\ i = 1 /\ start = 0 /\ patches = <<>>
      /\ pc = "scan" /\ MaxLen \in Nat
  BY PatcherAssumption DEF Init
<1>2. /\ bytes \in Seq(Byte) /\ ent \in Seq(Entropy) /\ n \in Nat \ {0}
  <2>1. PICK k \in 1..MaxLen : bytes \in [1..k -> Byte]  BY <1>1 DEF Input
  <2>2. PICK l \in 1..MaxLen : ent \in [1..l -> Entropy]  BY <1>1 DEF Input
  <2>3. k \in Nat /\ k >= 1 /\ l \in Nat  BY <1>1, <2>1, <2>2
  <2>4. bytes \in Seq(Byte) /\ ent \in Seq(Entropy)  BY <2>1, <2>2, <2>3
  <2>5. Len(bytes) = k  BY <2>1, <2>3, <2>4
  <2>6. QED  BY <2>3, <2>4, <2>5 DEF n
<1>3. TypeOK
  <2>1. i \in 1..n /\ start \in 0..n - 1 /\ n >= 1 /\ Len(ent) = n  BY <1>1, <1>2 DEF n
  <2>2. patches \in Seq(PatchInfo)  BY <1>1
  <2>3. QED  BY <1>1, <1>2, <2>1, <2>2 DEF TypeOK
<1>4. Opens(OpenStart(config, Newline, bytes, ent), config, Newline, bytes, ent)
      /\ config.maxLength \in Nat \ {0} /\ cap \in Nat
  BY <1>3, Arguments
<1>5. OpenInv
  <2>1. start = OpenStart(config, Newline, bytes, ent)[i - 1]  BY <1>1, <1>4 DEF Opens
  <2>2. Shaped(config, bytes, start, i)  BY <1>1, <1>4 DEF Shaped
  <2>3. QED  BY <1>1, <2>1, <2>2 DEF OpenInv
<1>6. DOMAIN patches = {} /\ Len(patches) = 0  BY <1>1
<1>7. ArrayInv  BY <1>1, <1>4, <1>6 DEF ArrayInv
<1>8. PhaseInv
  <2>1. CutsSeen(i - 1) = {}  BY <1>1 DEF CutsSeen
  <2>2. Cardinality(CutsSeen(i - 1)) = 0  BY <2>1, FS_EmptySet
  <2>3. QED  BY <1>1, <1>6, <2>2 DEF PhaseInv, Covered
<1>9. QED  BY <1>3, <1>5, <1>7, <1>8 DEF IInv

(* A cut: what was open is emitted, and the patch that opens is one long.  *)
LEMMA CutStep == ASSUME IInv, Cut PROVE IInv'
<1>1. /\ pc = "scan" /\ i < n /\ AtBoundary /\ Emit /\ start' = i /\ i' = i + 1 /\ pc' = pc
      /\ UNCHANGED args
  BY DEF Cut
<1>2. /\ bytes' = bytes /\ ent' = ent /\ config' = config /\ cap' = cap /\ n' = n
      /\ TheCuts' = TheCuts
  BY <1>1 DEF args, n, TheCuts
<1>3. n \in Nat \ {0} /\ config.maxLength \in Nat \ {0} /\ i \in Nat \ {0} /\ i + 1 <= n
  BY <1>1, Sizes DEF IInv
<1>4. PICK j \in Nat : j = i' /\ j = i + 1 /\ j - 1 = i  BY <1>1, <1>3
<1>5. /\ patches' \in Seq(PatchInfo)
      /\ Len(patches') = Len(patches) + 1 /\ Len(patches') <= cap
      /\ Covered' = i
      /\ \A k \in DOMAIN patches' :
            /\ patches'[k].start = IF k = 1 THEN 0 ELSE End(patches'[k - 1])
            /\ End(patches'[k]) <= i
            /\ Shaped(config, bytes, patches'[k].start, End(patches'[k]))
      /\ \A k, l \in DOMAIN patches' : k < l => End(patches'[k]) <= patches'[l].start
      /\ Ends' = Ends \cup {i}
  BY <1>1, Emitted
<1>6. i \in TheCuts  BY <1>1, BoundaryIsCut
<1>7. TypeOK'
  <2>1. i' \in 1..n /\ start' \in 0..n - 1  BY <1>1, <1>3
  <2>2. QED  BY <1>1, <1>2, <1>5, <2>1 DEF IInv, TypeOK
<1>8. OpenInv'
  <2>1. start' = OpenStart(config, Newline, bytes, ent)[j - 1]  BY <1>1, <1>4, BoundaryIsCut
  <2>2. Shaped(config, bytes, i, j)  BY <1>3, <1>4 DEF Shaped
  <2>3. QED  BY <1>1, <1>2, <1>3, <1>4, <2>1, <2>2 DEF OpenInv
<1>9. ArrayInv'
  <2>1. \A u \in 1..j - 1 : u \in Ends' <=> u \in TheCuts
    <3> TAKE u \in 1..j - 1
    <3>1. CASE u = i  BY <1>5, <1>6, <3>1
    <3>2. CASE u # i
      <4>1. u \in 1..i - 1  BY <1>3, <1>4, <3>2
      <4>2. QED  BY <1>5, <3>2, <4>1 DEF IInv, ArrayInv
    <3>3. QED  BY <3>1, <3>2
  <2>2. QED  BY <1>2, <1>4, <1>5, <2>1 DEF ArrayInv
<1>10. PhaseInv'
  <2>1. CutsSeen(i) = CutsSeen(i - 1)'  BY <1>2, <1>4 DEF CutsSeen
  <2>2. Len(patches) = Cardinality(CutsSeen(i - 1)) /\ Len(patches) \in Nat
    BY <1>1, LenProperties DEF IInv, PhaseInv, TypeOK
  <2>3. Len(patches') = Cardinality(CutsSeen(i - 1)')  BY <1>5, <1>6, <2>1, <2>2, SeenNext
  <2>4. QED  BY <1>1, <1>5, <2>3 DEF PhaseInv
<1>11. QED  BY <1>7, <1>8, <1>9, <1>10 DEF IInv

(* No cut: the open patch grows by a byte, and may.                        *)
LEMMA ExtendStep == ASSUME IInv, Extend PROVE IInv'
<1>1. /\ pc = "scan" /\ i < n /\ ~AtBoundary /\ start' = start /\ i' = i + 1 /\ pc' = pc
      /\ UNCHANGED args /\ patches' = patches
  BY DEF Extend
<1>2. /\ bytes' = bytes /\ ent' = ent /\ config' = config /\ cap' = cap /\ n' = n
      /\ TheCuts' = TheCuts /\ Covered' = Covered /\ Ends' = Ends
  BY <1>1 DEF args, n, TheCuts, Covered, Ends
<1>3. /\ n \in Nat \ {0} /\ config.maxLength \in Nat \ {0} /\ i \in Nat \ {0} /\ i + 1 <= n
      /\ start \in Nat /\ start < i
  BY <1>1, Sizes DEF IInv, OpenInv
<1>4. PICK j \in Nat : j = i' /\ j = i + 1 /\ j - 1 = i  BY <1>1, <1>3
<1>5. i \notin TheCuts  BY <1>1, BoundaryIsCut
<1>6. TypeOK'
  <2>1. i' \in 1..n  BY <1>1, <1>3
  <2>2. QED  BY <1>1, <1>2, <2>1 DEF IInv, TypeOK
<1>7. OpenInv'
  <2>1. start = OpenStart(config, Newline, bytes, ent)[j - 1]  BY <1>1, <1>4, BoundaryIsCut
  <2>2. /\ config.newline => bytes[i] # Newline
        /\ ~(i - start >= config.maxLength)
    BY <1>1 DEF AtBoundary, PatchBoundary
  <2>3. Shaped(config, bytes, start, j)
    <3>1. j - start <= config.maxLength  BY <1>3, <1>4, <2>2
    <3>2. ASSUME config.newline, NEW u \in start..(j - 2)  PROVE bytes[u + 1] # Newline
      <4>1. CASE u + 1 = i  BY <2>2, <3>2, <4>1
      <4>2. CASE u + 1 # i
        <5>1. u \in start..(i - 2)  BY <1>3, <1>4, <4>2
        <5>2. QED  BY <3>2, <5>1 DEF IInv, OpenInv, Shaped
      <4>3. QED  BY <4>1, <4>2
    <3>3. QED  BY <3>1, <3>2 DEF Shaped
  <2>4. QED  BY <1>1, <1>2, <1>3, <1>4, <2>1, <2>3 DEF OpenInv
<1>8. ArrayInv'
  <2>1. \A u \in 1..j - 1 : u \in Ends <=> u \in TheCuts
    <3> TAKE u \in 1..j - 1
    <3>1. CASE u = i
      <4>1. \A k \in DOMAIN patches : End(patches[k]) <= start
        BY <1>1 DEF IInv, ArrayInv, PhaseInv
      <4>2. i \notin Ends  BY <1>3, <4>1 DEF Ends
      <4>3. QED  BY <1>5, <3>1, <4>2
    <3>2. CASE u # i
      <4>1. u \in 1..i - 1  BY <1>3, <1>4, <3>2
      <4>2. QED  BY <4>1 DEF IInv, ArrayInv
    <3>3. QED  BY <3>1, <3>2
  <2>2. QED  BY <1>1, <1>2, <1>4, <2>1 DEF IInv, ArrayInv
<1>9. PhaseInv'
  <2>1. CutsSeen(i) = CutsSeen(i - 1)'  BY <1>2, <1>4 DEF CutsSeen
  <2>2. Len(patches) = Cardinality(CutsSeen(i - 1)) /\ Covered = start
    BY <1>1 DEF IInv, PhaseInv
  <2>3. i - 1 \in Nat  BY <1>3
  <2>4. Cardinality(CutsSeen(i - 1)) \in Nat  BY <2>3, Arguments DEF IInv
  <2>5. Len(patches') = Cardinality(CutsSeen(i - 1)')  BY <1>1, <1>5, <2>1, <2>2, <2>4, SeenNext
  <2>6. QED  BY <1>1, <1>2, <2>2, <2>5 DEF PhaseInv
<1>10. QED  BY <1>6, <1>7, <1>8, <1>9 DEF IInv

(* The end of the input, or of the array: nothing moves but pc.            *)
LEMMA ScanEnds == ASSUME IInv, StopFull \/ EndOfInput PROVE IInv'
<1>1. /\ pc = "scan" /\ pc' = "close" /\ UNCHANGED <<args, i, start, patches>>
      /\ i = n \/ Len(patches) = cap
  BY DEF StopFull, EndOfInput
<1>2. /\ n' = n /\ TheCuts' = TheCuts /\ Covered' = Covered /\ Ends' = Ends
      /\ CutsSeen(i - 1)' = CutsSeen(i - 1)
  BY <1>1 DEF args, n, TheCuts, Covered, Ends, CutsSeen
<1>3. TypeOK' /\ OpenInv' /\ ArrayInv'
  BY <1>1, <1>2 DEF IInv, TypeOK, OpenInv, ArrayInv, args
<1>4. PhaseInv'  BY <1>1, <1>2 DEF IInv, PhaseInv, args
<1>5. QED  BY <1>3, <1>4 DEF IInv

(* The closing emit, and what becomes of it when the array is full.        *)
LEMMA CloseStep == ASSUME IInv, Close PROVE IInv'
<1>1. /\ pc = "close" /\ pc' = "done" /\ UNCHANGED args /\ i' = i /\ start' = start
      /\ Emit \/ (Len(patches) = cap /\ UNCHANGED patches)
  BY DEF Close
<1>2. /\ bytes' = bytes /\ ent' = ent /\ config' = config /\ cap' = cap /\ n' = n
      /\ TheCuts' = TheCuts /\ CutsSeen(i - 1)' = CutsSeen(i - 1) /\ CutsSeen(n - 1)' = CutsSeen(n - 1)
  BY <1>1 DEF args, n, TheCuts, CutsSeen
<1>3. /\ Covered = start /\ Len(patches) = Cardinality(CutsSeen(i - 1))
      /\ i = n \/ Len(patches) = cap
  BY <1>1 DEF IInv, PhaseInv
<1>4. n \in Nat \ {0} /\ cap \in Nat \ {0} /\ i \in Nat \ {0} /\ Len(patches) \in Nat
  BY Sizes, LenProperties DEF IInv, TypeOK
<1>5. OpenInv'  BY <1>1, <1>2 DEF IInv, OpenInv
<1>6. CASE Emit
  <2>1. /\ patches' \in Seq(PatchInfo)
        /\ Len(patches') = Len(patches) + 1 /\ Len(patches') <= cap
        /\ Covered' = i
        /\ \A k \in DOMAIN patches' :
              /\ patches'[k].start = IF k = 1 THEN 0 ELSE End(patches'[k - 1])
              /\ End(patches'[k]) <= i
              /\ Shaped(config, bytes, patches'[k].start, End(patches'[k]))
        /\ \A k, l \in DOMAIN patches' : k < l => End(patches'[k]) <= patches'[l].start
        /\ Ends' = Ends \cup {i}
    BY <1>1, <1>6, Emitted
  <2>2. TypeOK'  BY <1>1, <1>2, <2>1 DEF IInv, TypeOK
  <2>3. ArrayInv'
    <3>1. \A u \in 1..i - 1 : u \in Ends' <=> u \in TheCuts
      <4> TAKE u \in 1..i - 1
      <4>1. u # i  BY <1>4
      <4>2. QED  BY <2>1, <4>1 DEF IInv, ArrayInv
    <3>2. QED  BY <1>1, <1>2, <2>1, <3>1 DEF ArrayInv
  <2>4. i = n  BY <1>3, <1>4, <2>1
  <2>5. Cardinality(CutsSeen(n - 1)) < cap  BY <1>3, <1>4, <2>1, <2>4
  <2>6. PhaseInv'  BY <1>1, <1>2, <2>1, <2>4, <2>5 DEF PhaseInv
  <2>7. QED  BY <1>5, <2>2, <2>3, <2>6 DEF IInv
<1>7. CASE Len(patches) = cap /\ UNCHANGED patches
  <2>1. Covered' = Covered /\ Ends' = Ends  BY <1>7 DEF Covered, Ends
  <2>2. TypeOK' /\ ArrayInv'  BY <1>1, <1>2, <1>7, <2>1 DEF IInv, TypeOK, ArrayInv
  <2>3. PhaseInv'  BY <1>1, <1>2, <1>3, <1>7, <2>1 DEF PhaseInv
  <2>4. QED  BY <1>5, <2>2, <2>3 DEF IInv
<1>8. QED  BY <1>1, <1>6, <1>7

(* Every step of the scan keeps the invariant.                             *)
LEMMA Inductive == IInv /\ [Next]_vars => IInv'
<1> SUFFICES ASSUME IInv, [Next]_vars PROVE IInv'  OBVIOUS
<1>1. CASE Cut  BY <1>1, CutStep
<1>2. CASE Extend  BY <1>2, ExtendStep
<1>3. CASE StopFull \/ EndOfInput  BY <1>3, ScanEnds
<1>4. CASE Close  BY <1>4, CloseStep
<1>5. CASE Return \/ UNCHANGED vars
  <2>1. UNCHANGED vars  BY <1>5 DEF Return
  <2>2. /\ n' = n /\ TheCuts' = TheCuts /\ Covered' = Covered /\ Ends' = Ends
        /\ CutsSeen(i - 1)' = CutsSeen(i - 1) /\ CutsSeen(n - 1)' = CutsSeen(n - 1)
    BY <2>1 DEF vars, args, n, TheCuts, Covered, Ends, CutsSeen
  <2>3. QED  BY <2>1, <2>2 DEF IInv, TypeOK, OpenInv, ArrayInv, PhaseInv, vars, args
<1>6. QED  BY <1>1, <1>2, <1>3, <1>4, <1>5 DEF Next

(* The invariant holds throughout.                                         *)
LEMMA InvariantHolds == Spec => []IInv
<1>1. QED  BY InitIInv, Inductive, PTL DEF Spec
-----------------------------------------------------------------------------
(* What the scan hands to blt_patch_build_group_ids and to every caller    *)
(* that sizes its arrays by max_patches.                                   *)
THEOREM PatchesTile == Spec => []Tiling
<1>1. IInv => Tiling
  <2> SUFFICES ASSUME IInv PROVE Tiling  OBVIOUS
  <2>1. /\ n \in Nat \ {0} /\ cap \in Nat \ {0} /\ i \in Nat \ {0} /\ start \in Nat /\ i <= n
        /\ start < i /\ i - 1 \in Nat /\ n - 1 \in Nat
    BY Sizes DEF IInv, OpenInv
  <2>2. {u \in 1..(n - 1) : ClosedAt(u)} = CutsSeen(n - 1)
    BY <2>1, Arguments DEF IInv, CutsSeen
  <2>3. /\ IsFiniteSet(CutsSeen(n - 1)) /\ Cardinality(CutsSeen(n - 1)) \in Nat
        /\ Cardinality(CutsSeen(i - 1)) \in Nat
    BY <2>1, Arguments DEF IInv
  <2>4. Cardinality(CutsSeen(i - 1)) <= Cardinality(CutsSeen(n - 1))
    <3>1. CutsSeen(i - 1) \subseteq CutsSeen(n - 1)  BY <2>1 DEF CutsSeen
    <3>2. QED  BY <2>3, <3>1, FS_Subset
  <2>5. pc = "done" =>
          \/ Covered < n /\ Len(patches) = cap /\ Cardinality(CutsSeen(n - 1)) >= cap
          \/ Covered = n /\ Cardinality(CutsSeen(n - 1)) < cap
    BY <2>1, <2>3, <2>4 DEF IInv, PhaseInv
  <2>6. Contiguous  BY <2>1, <2>5 DEF IInv, ArrayInv, Contiguous
  <2>7. CapacityRespected
    <3>1. PICK c \in Nat : c = Cardinality(CutsSeen(n - 1))  BY <2>3
    <3>2. c = Cardinality({u \in 1..(n - 1) : ClosedAt(u)})  BY <2>2, <3>1
    <3>3. pc = "done" => (Covered < n <=> c >= cap)  BY <2>1, <2>5, <3>1
    <3>4. Len(patches) <= cap  BY DEF IInv, ArrayInv
    <3>5. QED  BY <3>2, <3>3, <3>4 DEF CapacityRespected
  <2>8. PatchShape
    <3> SUFFICES ASSUME NEW k \in DOMAIN patches
                 PROVE  /\ patches[k].len <= config.maxLength
                        /\ config.newline =>
                             \A u \in patches[k].start..(End(patches[k]) - 2) : bytes[u + 1] # Newline
      BY DEF PatchShape
    <3>1. patches[k] \in PatchInfo  BY DEF IInv, TypeOK
    <3>2. End(patches[k]) - patches[k].start = patches[k].len  BY <3>1 DEF PatchInfo, End
    <3>3. QED  BY <3>2 DEF IInv, ArrayInv, Shaped
  <2>9. QED  BY <2>6, <2>7, <2>8 DEF IInv, Tiling
<1>2. QED  BY <1>1, InvariantHolds, PTL

(* The scan cuts exactly where blt_next_starts_patch would, given the      *)
(* bytes before the cut only.                                              *)
THEOREM CutsAreDecidable == Spec => []PrefixDecidable
<1>1. IInv => PrefixDecidable
  <2> SUFFICES ASSUME IInv, NEW u \in 1..(i - 1)
               PROVE  (\E k \in DOMAIN patches : End(patches[k]) = u)
                        <=> ClosedAt(u) /\ (Len(patches) < cap \/ u <= Covered)
    BY DEF PrefixDecidable
  <2>1. n \in Nat \ {0} /\ i \in Nat \ {0} /\ i <= n  BY Sizes DEF IInv
  <2>2. u \in 1..n  BY <2>1
  <2>3. ClosedAt(u) <=> u \in TheCuts  BY <2>2, Arguments DEF IInv
  <2>4. u \in Ends <=> \E k \in DOMAIN patches : End(patches[k]) = u  BY DEF Ends
  <2>5. u \in Ends <=> u \in TheCuts  BY DEF IInv, ArrayInv
  <2>6. u \in Ends => u <= Covered  BY <2>4 DEF IInv, ArrayInv
  <2>7. QED  BY <2>3, <2>4, <2>5, <2>6
<1>2. QED  BY <1>1, InvariantHolds, PTL

(* Every position of a fully scanned input lies in one patch.              *)
LEMMA HolderIs ==
    ASSUME IInv, Whole, NEW u \in 0..(n - 1)
    PROVE  /\ Holder(u) \in DOMAIN patches
           /\ patches[Holder(u)].start <= u /\ u < End(patches[Holder(u)])
<1>1. /\ n \in Nat \ {0} /\ patches \in Seq(PatchInfo) /\ Len(patches) \in Nat
      /\ DOMAIN patches = 1..Len(patches)
  BY Sizes, LenProperties DEF IInv, TypeOK
<1> DEFINE T == {k \in DOMAIN patches : u < End(patches[k])}
<1>2. Covered = n /\ patches # <<>>  BY <1>1 DEF Whole, Covered
<1>3. Len(patches) \in T
  <2>1. Len(patches) \in DOMAIN patches  BY <1>1, <1>2
  <2>2. End(patches[Len(patches)]) = n  BY <1>2 DEF Covered
  <2>3. QED  BY <1>1, <2>1, <2>2
<1>4. Min(T) \in T /\ \A t \in T : Min(T) <= t
  <2>1. T \in SUBSET Nat  BY <1>1
  <2> HIDE DEF T
  <2>2. QED  BY <1>3, <2>1, MinIsLeast
<1>5. PICK k \in T : \A t \in T : k <= t  BY <1>4
<1>6. patches[k].start <= u
  <2>1. CASE k = 1  BY <2>1 DEF IInv, ArrayInv
  <2>2. CASE k # 1
    <3>1. k - 1 \in DOMAIN patches /\ ~(k <= k - 1)  BY <1>1, <2>2
    <3>2. ~(u < End(patches[k - 1]))  BY <1>5, <3>1
    <3>3. End(patches[k - 1]) \in Nat
      <4>1. patches[k - 1] \in PatchInfo  BY <1>1, <3>1
      <4>2. QED  BY <4>1 DEF PatchInfo, End
    <3>4. patches[k].start = End(patches[k - 1])  BY <2>2 DEF IInv, ArrayInv
    <3>5. QED  BY <3>2, <3>3, <3>4
  <2>3. QED  BY <2>1, <2>2
<1>7. QED  BY <1>5, <1>6 DEF Holder

(* The latent a row reads and the one it reads when the sequence stops at  *)
(* it are the same.                                                        *)
LEMMA RowLatentIs ==
    ASSUME IInv, Whole, NEW u \in (patches[1].len - 1)..(n - 1)
    PROVE  /\ RowLatent(u) <= u + 1
           /\ RowLatent(u) = LatentEnd({0} \cup {q \in 1..u : ClosedAt(q)}, u + 1, ClosedAt(u + 1), u)
<1>1. /\ n \in Nat \ {0} /\ patches \in Seq(PatchInfo) /\ Len(patches) \in Nat
      /\ DOMAIN patches = 1..Len(patches) /\ cap \in Nat
  BY Sizes, LenProperties DEF IInv, TypeOK
<1>2. Covered = n /\ patches # <<>> /\ pc = "done" /\ 1 \in DOMAIN patches
  BY <1>1 DEF Whole, Covered
<1>3. i = n
  <2>1. start < i /\ start \in Nat /\ i \in Nat /\ i <= n  BY Sizes DEF IInv, OpenInv
  <2>2. QED  BY <1>2, <2>1 DEF IInv, PhaseInv
<1>4. u \in 0..n - 1 /\ u \in Nat
  <2>1. patches[1] \in PatchInfo  BY <1>1, <1>2
  <2>2. QED  BY <1>1, <2>1 DEF PatchInfo
<1> DEFINE j == Holder(u)
           S == {0} \cup {q \in 1..u : ClosedAt(q)}
<1>5. j \in DOMAIN patches /\ patches[j].start <= u /\ u < End(patches[j])  BY <1>4, HolderIs
<1>6. \A k \in DOMAIN patches : /\ patches[k].start \in Nat /\ End(patches[k]) \in Nat
                                /\ patches[k].start < End(patches[k]) /\ End(patches[k]) <= n
  <2>1. \A k \in DOMAIN patches : patches[k] \in PatchInfo /\ End(patches[k]) <= n
    BY <1>1, <1>2 DEF IInv, ArrayInv
  <2>2. QED  BY <2>1 DEF PatchInfo, End
<1>7. \A q \in 1..n - 1 : ClosedAt(q) <=> \E k \in DOMAIN patches : End(patches[k]) = q
  <2> TAKE q \in 1..n - 1
  <2>1. q \in 1..n /\ q \in 1..i - 1  BY <1>1, <1>3
  <2>2. ClosedAt(q) <=> q \in TheCuts  BY <2>1, Arguments DEF IInv
  <2>3. q \in Ends <=> q \in TheCuts  BY <2>1 DEF IInv, ArrayInv
  <2>4. QED  BY <2>2, <2>3 DEF Ends
<1>8. ClosedAt(n) <=> NextStartsPatch(config, Newline, bytes, ent)
  <2>1. bytes = SubSeq(bytes, 1, n) /\ ent = SubSeq(ent, 1, n)
    BY <1>1, Arguments DEF IInv, n
  <2>2. QED  BY <2>1 DEF ClosedAt
<1> HIDE DEF j
<1>9. PatchStart(S, u) = patches[j].start
  <2> DEFINE U == {s \in S : s <= u}
             m == patches[j].start
  <2>1. m \in U
    <3>1. CASE j = 1  BY <1>4, <1>5, <3>1 DEF IInv, ArrayInv
    <3>2. CASE j # 1
      <4>1. j - 1 \in DOMAIN patches /\ m = End(patches[j - 1])
        BY <1>1, <1>5, <3>2 DEF IInv, ArrayInv
      <4>2. m \in 1..u /\ m \in 1..n - 1  BY <1>1, <1>4, <1>5, <1>6, <4>1
      <4>3. ClosedAt(m)  BY <1>7, <4>1, <4>2
      <4>4. QED  BY <4>2, <4>3
    <3>3. QED  BY <3>1, <3>2
  <2>2. ASSUME NEW s \in U  PROVE s <= m
    <3>1. CASE s = 0  BY <1>5, <1>6, <3>1
    <3>2. CASE s # 0
      <4>1. s \in 1..u /\ s \in 1..n - 1 /\ ClosedAt(s)  BY <1>1, <1>4, <3>2
      <4>2. PICK k \in DOMAIN patches : End(patches[k]) = s  BY <1>7, <4>1
      <4>3. k < j
        <5>1. k \in Nat /\ j \in Nat /\ s <= u /\ s < End(patches[j])  BY <1>1, <1>4, <1>5, <1>6, <4>1, <4>2
        <5>2. CASE k = j  BY <1>6, <4>2, <5>1, <5>2
        <5>3. CASE j < k
          <6>1. End(patches[j]) <= patches[k].start  BY <1>5, <5>3 DEF IInv, ArrayInv
          <6>2. QED  BY <1>5, <1>6, <4>1, <4>2, <5>1, <6>1
        <5>4. QED  BY <5>1, <5>2, <5>3
      <4>4. QED  BY <1>5, <4>2, <4>3 DEF IInv, ArrayInv
    <3>3. QED  BY <3>1, <3>2
  <2>3. PatchStart(S, u) = Max(U)  BY DEF PatchStart
  <2>4. \A t \in U : t \in Nat /\ t <= u  BY <1>4
  <2> HIDE DEF U, S
  <2>5. Max(U) \in U /\ \A t \in U : t <= Max(U)  BY <1>4, <2>1, <2>4, MaxIsGreatest
  <2>6. Max(U) <= m /\ m <= Max(U)  BY <2>1, <2>2, <2>5
  <2>7. QED  BY <2>1, <2>3, <2>4, <2>5, <2>6
<1>10. NextStart(S, u + 1, u) = u + 1
  <2> DEFINE U == {t \in S \cup {u + 1} : t > u}
  <2>1. U = {u + 1}  BY <1>4
  <2>2. NextStart(S, u + 1, u) = Min(U)  BY DEF NextStart
  <2>3. {u + 1} \in SUBSET Nat  BY <1>4
  <2>4. Min({u + 1}) \in {u + 1}  BY <2>3, MinIsLeast
  <2> HIDE DEF U
  <2>5. QED  BY <2>1, <2>2, <2>4
<1>11. LatentEnd(S, u + 1, ClosedAt(u + 1), u)
         = IF ClosedAt(u + 1) \/ patches[j].start = 0 THEN u + 1 ELSE patches[j].start
  <2>1. ~(u >= u + 1) /\ (u + 1) - 1 = u /\ ~(u + 1 < u + 1)  BY <1>4
  <2> HIDE DEF S
  <2>2. QED  BY <1>9, <1>10, <2>1 DEF LatentEnd
<1>12. (j = 1) <=> (patches[j].start = 0)
  <2>1. CASE j = 1  BY <1>5, <2>1 DEF IInv, ArrayInv
  <2>2. CASE j # 1
    <3>1. j - 1 \in DOMAIN patches /\ patches[j].start = End(patches[j - 1])
      BY <1>1, <1>5, <2>2 DEF IInv, ArrayInv
    <3>2. QED  BY <1>6, <2>2, <3>1
  <2>3. QED  BY <2>1, <2>2
<1>13. RowLatent(u) = IF ClosedAt(u + 1) \/ patches[j].start = 0 THEN u + 1 ELSE patches[j].start
  <2>1. j = 1 => End(patches[j]) = u + 1
    <3> SUFFICES ASSUME j = 1 PROVE End(patches[j]) = u + 1  OBVIOUS
    <3>1. patches[1] \in PatchInfo /\ patches[1].start = 0
      BY <1>1, <1>2 DEF IInv, ArrayInv
    <3>2. End(patches[1]) = patches[1].len /\ patches[1].len \in Nat
      BY <3>1 DEF PatchInfo, End
    <3>3. QED  BY <1>4, <1>5, <3>2
  <2>2. j # 1 => End(patches[j - 1]) = patches[j].start
    BY <1>5 DEF IInv, ArrayInv
  <2>3. CASE u = n - 1
    <3>1. u + 1 = n /\ End(patches[j]) = n  BY <1>1, <1>4, <1>5, <1>6, <2>3
    <3>2. j = Len(patches)
      <4>1. CASE j < Len(patches)
        <5>1. Len(patches) \in DOMAIN patches  BY <1>1, <1>2
        <5>2. End(patches[j]) <= patches[Len(patches)].start
          BY <1>5, <4>1, <5>1 DEF IInv, ArrayInv
        <5>3. QED  BY <1>1, <1>6, <3>1, <5>1, <5>2
      <4>2. QED  BY <1>1, <1>5, <4>1
    <3>3. CASE ClosedAt(u + 1)  BY <1>8, <2>3, <3>1, <3>3 DEF RowLatent
    <3>4. CASE ~ClosedAt(u + 1)
      <4>1. ~NextStartsPatch(config, Newline, bytes, ent)  BY <1>8, <3>1, <3>4
      <4>2. DecoderLatentAt(u) = IF j = 1 THEN j ELSE j - 1
        <5>1. ~(j < Len(patches))  BY <1>1, <3>2
        <5>2. QED  BY <5>1 DEF DecoderLatentAt, j
      <4>3. QED  BY <1>12, <2>1, <2>2, <3>4, <4>1, <4>2 DEF RowLatent
    <3>5. QED  BY <3>3, <3>4
  <2>4. CASE u # n - 1
    <3>1. u + 1 \in 1..n - 1 /\ u + 1 <= End(patches[j])  BY <1>1, <1>4, <1>5, <1>6, <2>4
    <3>2. ClosedAt(u + 1) <=> u + 1 = End(patches[j])
      <4>1. ASSUME ClosedAt(u + 1)  PROVE u + 1 = End(patches[j])
        <5>1. PICK k \in DOMAIN patches : End(patches[k]) = u + 1  BY <1>7, <3>1, <4>1
        <5>2. k \in Nat /\ j \in Nat  BY <1>1, <1>5
        <5>3. CASE k = j  BY <5>1, <5>3
        <5>4. CASE k < j
          <6>1. End(patches[k]) <= patches[j].start  BY <1>5, <5>4 DEF IInv, ArrayInv
          <6>2. QED  BY <1>4, <1>5, <1>6, <5>1, <6>1
        <5>5. CASE j < k
          <6>1. End(patches[j]) <= patches[k].start  BY <1>5, <5>5 DEF IInv, ArrayInv
          <6>2. QED  BY <1>4, <1>5, <1>6, <3>1, <5>1, <6>1
        <5>6. QED  BY <5>2, <5>3, <5>4, <5>5
      <4>2. QED  BY <1>5, <1>7, <3>1, <4>1
    <3>3. ClosedAt(u + 1) => j < Len(patches)
      <4>1. CASE j = Len(patches)
        <5>1. End(patches[j]) = n  BY <1>2, <4>1 DEF Covered
        <5>2. QED  BY <1>1, <3>1, <3>2, <5>1
      <4>2. QED  BY <1>1, <1>5, <4>1
    <3>4. DecoderLatentAt(u) = IF ClosedAt(u + 1) \/ j = 1 THEN j ELSE j - 1
      BY <3>2, <3>3 DEF DecoderLatentAt, j
    <3>5. QED  BY <1>12, <2>1, <2>2, <2>4, <3>2, <3>4 DEF RowLatent
  <2>5. QED  BY <2>3, <2>4
<1>14. QED
  <2> HIDE DEF S
  <2>1. RowLatent(u) <= u + 1  BY <1>4, <1>5, <1>6, <1>13
  <2>2. QED  BY <1>11, <1>13, <2>1 DEF S

(* Past the first patch no latent looks ahead of its row, and none changes *)
(* when bytes are appended.                                                *)
THEOREM LatentsAreCausal == Spec => []LatentCausal
<1>1. IInv => LatentCausal  BY RowLatentIs DEF LatentCausal
<1>2. QED  BY <1>1, InvariantHolds, PTL

-----------------------------------------------------------------------------
(* The rolling hash.  A residue is a number below the modulus.             *)
Residue == 0..(HashModulus - 1)

(* A remainder is a residue, and a residue is its own remainder.           *)
LEMMA ResidueIs ==
    ASSUME NEW k \in Nat
    PROVE  (k % HashModulus) \in Residue /\ (k \in Residue => k % HashModulus = k)
<1>1. HashModulus \in Nat \ {0}  BY HashAssumption
<1>2. (k % HashModulus) \in Residue  BY <1>1, DivisionIs DEF Residue
<1>3. ASSUME k \in Residue  PROVE k % HashModulus = k  BY <1>1, <1>3 DEF Residue
<1>4. QED  BY <1>2, <1>3

(* The powers of the prime.                                                *)
Powers(e, m) ==
    /\ e \in [0..m -> Residue] /\ e[0] = 1 % HashModulus
    /\ \A k \in 1..m : e[k] = (e[k - 1] * HashPrime) % HashModulus

(* Up to any exponent they are what PowerOf computes.                      *)
LEMMA PowersExist ==
    ASSUME NEW m \in Nat
    PROVE  \E e : Powers(e, m) /\ PowerOf(m) = e[m]
<1>1. HashPrime \in Nat /\ Residue \in SUBSET Nat  BY HashAssumption DEF Residue
<1> DEFINE f == [k \in 1..m |-> [u \in Residue |-> (u * HashPrime) % HashModulus]]
           Body(g) == [k \in 0..m |-> IF k = 0 THEN 1 % HashModulus
                                      ELSE (g[k - 1] * HashPrime) % HashModulus]
           pow == CHOOSE g : g = Body(g)
<1>2. \A u \in Residue : (u * HashPrime) % HashModulus \in Residue
  <2> TAKE u \in Residue
  <2>1. PICK c \in Nat : c = u * HashPrime  BY <1>1
  <2>2. QED  BY <2>1, ResidueIs
<1>3. PICK X, z : X = Residue /\ z = 1 % HashModulus /\ z \in X
  BY ResidueIs
<1>4. f \in [1..m -> [X -> X]]  BY <1>2, <1>3
<1>5. PICK g : Recurses(g, m, X, z, f)
  <2> HIDE DEF f
  <2>1. QED  BY <1>3, <1>4, RecursionExists, Zenon
<1>6. /\ g \in [0..m -> Residue] /\ g[0] = 1 % HashModulus
      /\ \A k \in 1..m : g[k] = (g[k - 1] * HashPrime) % HashModulus
  <2>1. g \in [0..m -> Residue] /\ g[0] = 1 % HashModulus /\ \A k \in 1..m : g[k] = f[k][g[k - 1]]
    BY <1>3, <1>5 DEF Recurses
  <2>2. ASSUME NEW k \in 1..m  PROVE f[k][g[k - 1]] = (g[k - 1] * HashPrime) % HashModulus
    <3>1. g[k - 1] \in Residue
      <4>1. k - 1 \in 0..m  OBVIOUS
      <4>2. QED  BY <2>1, <4>1
    <3>2. PICK u \in Residue : u = g[k - 1]  BY <3>1
    <3>3. f[k][u] = (u * HashPrime) % HashModulus  OBVIOUS
    <3>4. QED  BY <3>2, <3>3
  <2>3. QED  BY <2>1, <2>2
<1>7. g = Body(g)
  <2>1. \A k \in 0..m : g[k] = IF k = 0 THEN 1 % HashModulus ELSE (g[k - 1] * HashPrime) % HashModulus
    <3> TAKE k \in 0..m
    <3>1. k = 0 \/ k \in 1..m  OBVIOUS
    <3>2. QED  BY <1>6, <3>1
  <2>2. g = [k \in 0..m |-> g[k]]  BY <1>6
  <2>3. QED  BY <2>1, <2>2
<1>8. pow = Body(pow)
  <2> HIDE DEF Body
  <2>1. QED  BY <1>7
<1>9. PowerOf(m) = pow[m]  BY DEF PowerOf
<1>10. PICK e : e = pow /\ e = Body(e)
  <2> HIDE DEF Body, pow
  <2>1. QED  BY <1>8
<1> HIDE DEF pow
<1>11. /\ DOMAIN e = 0..m /\ e = [k \in 0..m |-> e[k]]
       /\ e[0] = 1 % HashModulus
       /\ \A k \in 1..m : e[k] = (e[k - 1] * HashPrime) % HashModulus
  <2>1. DOMAIN Body(e) = 0..m /\ Body(e) = [k \in 0..m |-> Body(e)[k]]  OBVIOUS
  <2>2. Body(e)[0] = 1 % HashModulus  OBVIOUS
  <2>3. \A k \in 1..m : Body(e)[k] = (e[k - 1] * HashPrime) % HashModulus  OBVIOUS
  <2> HIDE DEF Body
  <2>4. QED  BY <1>10, <2>1, <2>2, <2>3
<1>12. \A k \in 0..m : e[k] = g[k]
  <2> DEFINE P == {k \in 0..m : e[k] = g[k]}
  <2>1. 0 \in P  BY <1>6, <1>11
  <2>2. ASSUME NEW k \in 1..m, k - 1 \in P  PROVE k \in P
    <3>1. e[k - 1] = g[k - 1] /\ k \in 0..m  BY <2>2
    <3>2. e[k] = (e[k - 1] * HashPrime) % HashModulus  BY <1>11
    <3>3. g[k] = (g[k - 1] * HashPrime) % HashModulus  BY <1>6
    <3>4. QED  BY <3>1, <3>2, <3>3
  <2> HIDE DEF P
  <2>3. \A k \in 0..m : k \in P  BY <2>1, <2>2, InductionUpTo
  <2>4. QED  BY <2>3 DEF P
<1>13. Powers(e, m)
  <2>1. e \in [0..m -> Residue]  BY <1>6, <1>11, <1>12
  <2>2. QED  BY <1>11, <2>1 DEF Powers
<1>14. QED  BY <1>9, <1>10, <1>13

(* A power is a residue: 1 for no factor, and the prime times the last.    *)
LEMMA PowerIs ==
    /\ PowerOf(0) = 1 /\ 1 \in Residue /\ 0 \in Residue
    /\ \A k \in Nat : PowerOf(k) \in Residue /\ PowerOf(k + 1) = (PowerOf(k) * HashPrime) % HashModulus
<1>1. HashModulus \in Nat /\ HashModulus >= 2  BY HashAssumption
<1>2. 1 \in Residue /\ 0 \in Residue  BY <1>1 DEF Residue
<1>3. 1 % HashModulus = 1  BY <1>2, ResidueIs
<1>4. PowerOf(0) = 1
  <2>1. PICK e : Powers(e, 0) /\ PowerOf(0) = e[0]  BY PowersExist
  <2>2. QED  BY <1>3, <2>1 DEF Powers
<1>5. ASSUME NEW k \in Nat
      PROVE  PowerOf(k) \in Residue /\ PowerOf(k + 1) = (PowerOf(k) * HashPrime) % HashModulus
  <2>1. PICK e : Powers(e, k) /\ PowerOf(k) = e[k]  BY PowersExist
  <2>2. PICK m \in Nat : m = k + 1  OBVIOUS
  <2>3. PICK g : Powers(g, m) /\ PowerOf(m) = g[m]  BY PowersExist
  <2> DEFINE P == {j \in 0..k : e[j] = g[j]}
  <2>4. 0 \in P  BY <2>1, <2>3 DEF Powers
  <2>5. ASSUME NEW j \in 1..k, j - 1 \in P  PROVE j \in P
    <3>1. j \in 1..m  BY <2>2
    <3>2. QED  BY <2>1, <2>3, <2>5, <3>1 DEF Powers
  <2>6. \A j \in 0..k : j \in P
    <3> HIDE DEF P
    <3>1. QED  BY <2>4, <2>5, InductionUpTo
  <2>7. e[k] = g[k]
    <3>1. k \in 0..k  OBVIOUS
    <3>2. QED  BY <2>6, <3>1
  <2>8. g[m] = (g[k] * HashPrime) % HashModulus
    <3>1. m \in 1..m /\ m - 1 = k  BY <2>2
    <3>2. QED  BY <2>3, <3>1 DEF Powers
  <2>9. e[k] \in Residue
    <3>1. k \in 0..k  OBVIOUS
    <3>2. QED  BY <2>1, <3>1 DEF Powers
  <2>10. QED  BY <2>1, <2>2, <2>3, <2>7, <2>8, <2>9
<1>6. QED  BY <1>2, <1>4, <1>5

(* Two of the last w places lie in different slots of a ring of w.         *)
LEMMA SlotsDiffer ==
    ASSUME NEW w \in Nat \ {0}, NEW b \in Nat, NEW k \in Nat, b < k, k - b < w
    PROVE  b % w # k % w
<1>1. PICK q \in Nat, j \in 0..(w - 1) : b = w * q + j /\ b % w = j  BY DivisionIs
<1>2. PICK r \in Nat, m \in 0..(w - 1) : k = w * r + m /\ k % w = m  BY DivisionIs
<1>3. SUFFICES ASSUME j = m PROVE FALSE  BY <1>1, <1>2
<1>4. w * r > w * q /\ w * r < w * q + w  BY <1>1, <1>2, <1>3
<1>5. CASE r <= q
  <2>1. w * r <= w * q  BY <1>5
  <2>2. QED  BY <1>4, <2>1
<1>6. CASE r >= q + 1
  <2>1. w * r >= w * q + w  BY <1>6
  <2>2. QED  BY <1>4, <2>1
<1>7. QED  BY <1>5, <1>6

-----------------------------------------------------------------------------
(* The forms of a hash over the positions D, and what a shift makes of one.*)
Forms(D) == [D -> Residue]

(* A shift multiplies what is there by the prime; the new byte weighs 1.   *)
LEMMA ShiftedIs ==
    ASSUME NEW D, NEW u \in Forms(D), NEW b
    PROVE  /\ Shifted(u, b) \in Forms(D)
           /\ \A a \in D : /\ a = b /\ u[a] = 0 => Shifted(u, b)[a] = 1
                           /\ a # b => Shifted(u, b)[a] = (u[a] * HashPrime) % HashModulus
                           /\ a # b /\ u[a] = 0 => Shifted(u, b)[a] = 0
<1>1. HashPrime \in Nat /\ Residue \in SUBSET Nat /\ 0 \in Residue /\ 1 \in Residue
  BY HashAssumption, PowerIs DEF Residue
<1>2. \A a \in D : u[a] \in Residue  BY DEF Forms
<1>3. Shifted(u, b) = [a \in D |-> (u[a] * HashPrime + IF a = b THEN 1 ELSE 0) % HashModulus]
  BY DEF Shifted, Forms
<1>4. ASSUME NEW a \in D
      PROVE  /\ Shifted(u, b)[a] \in Residue
             /\ a = b /\ u[a] = 0 => Shifted(u, b)[a] = 1
             /\ a # b => Shifted(u, b)[a] = (u[a] * HashPrime) % HashModulus
             /\ a # b /\ u[a] = 0 => Shifted(u, b)[a] = 0
  <2>1. PICK c \in Nat : c = u[a]  BY <1>1, <1>2
  <2>2. PICK e \in Nat : e = c * HashPrime /\ (c = 0 => e = 0)  BY <1>1
  <2>3. Shifted(u, b)[a] = (e + IF a = b THEN 1 ELSE 0) % HashModulus  BY <1>3, <2>1, <2>2
  <2>4. CASE a = b
    <3>1. PICK k \in Nat : k = e + 1  OBVIOUS
    <3>2. Shifted(u, b)[a] = k % HashModulus  BY <2>3, <2>4, <3>1
    <3>3. c = 0 => k = 1  BY <2>2, <3>1
    <3>4. QED  BY <1>1, <2>1, <2>4, <3>2, <3>3, ResidueIs
  <2>5. CASE a # b
    <3>1. Shifted(u, b)[a] = e % HashModulus  BY <2>2, <2>3, <2>5
    <3>2. QED  BY <1>1, <2>1, <2>2, <2>5, <3>1, ResidueIs
  <2>6. QED  BY <2>4, <2>5
<1>5. QED  BY <1>3, <1>4 DEF Forms

(* The hash of a full window, computed from nothing.                       *)
Unrolled(D, w, window, from) ==
    LET direct[k \in 0..w] ==
            IF k = 0 THEN [a \in D |-> 0]
            ELSE Shifted(direct[k - 1], window[(from + k - 1) % w])
    IN  direct
UnrolledIs(g, D, w, window, from) ==
    /\ g \in [0..w -> Forms(D)] /\ g[0] = [a \in D |-> 0]
    /\ \A k \in 1..w : g[k] = Shifted(g[k - 1], window[(from + k - 1) % w])

(* It is unrolled from every ring.                                         *)
LEMMA UnrolledExists ==
    ASSUME NEW D, NEW w \in Nat, NEW window, NEW from
    PROVE  UnrolledIs(Unrolled(D, w, window, from), D, w, window, from)
<1> DEFINE X == Forms(D)
           z == [a \in D |-> 0]
           byte(k) == window[(from + k - 1) % w]
           f == [k \in 1..w |-> [u \in X |-> Shifted(u, byte(k))]]
           Body(g) == [k \in 0..w |-> IF k = 0 THEN z ELSE Shifted(g[k - 1], byte(k))]
           direct == CHOOSE g : g = Body(g)
<1>1. z \in X  BY PowerIs DEF Forms
<1>2. f \in [1..w -> [X -> X]]
  <2>1. \A k \in 1..w, u \in X : Shifted(u, byte(k)) \in X
    <3> HIDE DEF byte
    <3>1. QED  BY ShiftedIs
  <2> HIDE DEF X, byte
  <2>2. QED  BY <2>1
<1>3. \A k \in 1..w, u \in X : f[k][u] = Shifted(u, byte(k))
  <2> HIDE DEF X, byte
  <2>1. QED  OBVIOUS
<1> HIDE DEF X, z, f, byte
<1>4. PICK g : Recurses(g, w, X, z, f)
  <2>1. QED  BY <1>1, <1>2, RecursionExists, Zenon
<1>5. /\ g \in [0..w -> X] /\ g[0] = z
      /\ \A k \in 1..w : g[k] = Shifted(g[k - 1], byte(k))
  <2>1. g \in [0..w -> X] /\ g[0] = z /\ \A k \in 1..w : g[k] = f[k][g[k - 1]]  BY <1>4 DEF Recurses
  <2>2. ASSUME NEW k \in 1..w  PROVE f[k][g[k - 1]] = Shifted(g[k - 1], byte(k))
    <3>1. k - 1 \in 0..w  OBVIOUS
    <3>2. g[k - 1] \in X  BY <2>1, <3>1
    <3>3. QED  BY <1>3, <3>2
  <2>3. QED  BY <2>1, <2>2
<1>6. g = Body(g)
  <2>1. \A k \in 0..w : g[k] = IF k = 0 THEN z ELSE Shifted(g[k - 1], byte(k))
    <3> TAKE k \in 0..w
    <3>1. k = 0 \/ k \in 1..w  OBVIOUS
    <3>2. QED  BY <1>5, <3>1
  <2>2. g = [k \in 0..w |-> g[k]]  BY <1>5
  <2>3. QED  BY <2>1, <2>2
<1>7. direct = Body(direct)
  <2> HIDE DEF Body
  <2>1. QED  BY <1>6
<1>8. Unrolled(D, w, window, from) = direct  BY DEF Unrolled, z, byte
<1>9. PICK e : e = direct /\ e = Body(e)
  <2> HIDE DEF Body, direct
  <2>1. QED  BY <1>7
<1> HIDE DEF direct
<1>10. /\ DOMAIN e = 0..w /\ e[0] = z /\ e = [k \in 0..w |-> e[k]]
       /\ \A k \in 1..w : e[k] = Shifted(e[k - 1], byte(k))
  <2>1. DOMAIN Body(e) = 0..w /\ Body(e) = [k \in 0..w |-> Body(e)[k]]  OBVIOUS
  <2>2. Body(e)[0] = z  OBVIOUS
  <2>3. \A k \in 1..w : Body(e)[k] = Shifted(e[k - 1], byte(k))  OBVIOUS
  <2> HIDE DEF Body
  <2>4. QED  BY <1>9, <2>1, <2>2, <2>3
<1>11. \A k \in 0..w : e[k] = g[k]
  <2> DEFINE P == {k \in 0..w : e[k] = g[k]}
  <2>1. 0 \in P  BY <1>5, <1>10
  <2>2. ASSUME NEW k \in 1..w, k - 1 \in P  PROVE k \in P
    <3>1. e[k - 1] = g[k - 1] /\ k \in 0..w  BY <2>2
    <3>2. e[k] = Shifted(e[k - 1], byte(k)) /\ g[k] = Shifted(g[k - 1], byte(k))  BY <1>5, <1>10
    <3>3. QED  BY <3>1, <3>2
  <2> HIDE DEF P
  <2>3. \A k \in 0..w : k \in P  BY <2>1, <2>2, InductionUpTo
  <2>4. QED  BY <2>3 DEF P
<1>12. e = g  BY <1>5, <1>10, <1>11
<1>13. UnrolledIs(g, D, w, window, from)  BY <1>5 DEF UnrolledIs, X, z, byte
<1>14. QED  BY <1>8, <1>9, <1>12, <1>13

-----------------------------------------------------------------------------
(* The states of the rolling hash of windows of w bytes.                   *)
HashState(w, D) ==
    [n : {w}, primePowN : {PowerOf(w)}, window : [0..(w - 1) -> Int], windowStart : 0..(w - 1),
     seen : Nat, hash : Forms(D)]

(* An update, field by field.                                              *)
Updated(t, s, w, D, b) ==
    LET window == [s.window EXCEPT ![s.windowStart] = b]
        from == (s.windowStart + 1) % w
    IN  /\ t \in HashState(w, D)
        /\ t.window = window /\ t.windowStart = from /\ t.seen = s.seen + 1
        /\ s.seen + 1 < w => t.hash = s.hash
        /\ s.seen + 1 = w => t.hash = Unrolled(D, w, window, from)[w]
        /\ s.seen + 1 > w => t.hash = Without(s, s.window[s.windowStart], Shifted(s.hash, b))

(* Taking a byte out leaves the others alone, and nothing of that byte     *)
(* when it weighed the highest power.                                      *)
LEMMA WithoutIs ==
    ASSUME NEW w \in Nat \ {0}, NEW D, NEW s \in HashState(w, D), NEW out, NEW u \in Forms(D)
    PROVE  /\ Without(s, out, u) \in Forms(D)
           /\ \A a \in D : /\ a # out => Without(s, out, u)[a] = u[a]
                           /\ a = out /\ u[a] = PowerOf(w) => Without(s, out, u)[a] = 0
<1>1. s.primePowN = PowerOf(w) /\ PowerOf(w) \in Residue /\ 0 \in Residue
  BY PowerIs DEF HashState
<1>2. HashModulus \in Nat \ {0} /\ Residue = 0..(HashModulus - 1)  BY HashAssumption DEF Residue
<1>3. PICK c \in Residue : c = PowerOf(w) /\ s.primePowN % HashModulus = c
  <2>1. PICK c \in Residue : c = PowerOf(w)  BY <1>1
  <2>2. c \in Nat  BY <1>2
  <2>3. c % HashModulus = c  BY <2>2, ResidueIs
  <2>4. QED  BY <1>1, <2>1, <2>3
<1>4. Without(s, out, u) = [a \in D |-> IF a = out THEN ((u[a] + HashModulus) - c) % HashModulus ELSE u[a]]
  BY <1>3 DEF Without, Forms
<1>5. ASSUME NEW a \in D
      PROVE  /\ Without(s, out, u)[a] \in Residue
             /\ a # out => Without(s, out, u)[a] = u[a]
             /\ a = out /\ u[a] = PowerOf(w) => Without(s, out, u)[a] = 0
  <2>1. PICK v \in Residue : v = u[a]  BY DEF Forms
  <2>2. CASE a # out  BY <1>4, <2>1, <2>2
  <2>3. CASE a = out
    <3>1. PICK k \in Nat : k = (v + HashModulus) - c /\ (v = c => k = HashModulus)  BY <1>2
    <3>2. Without(s, out, u)[a] = k % HashModulus  BY <1>4, <2>1, <2>3, <3>1
    <3>3. HashModulus % HashModulus = 0
      <4>1. PICK x \in Nat, q \in Int, z \in 0..(HashModulus - 1) :
                x = HashModulus /\ q = 1 /\ z = 0 /\ x = HashModulus * q + z
        BY <1>2
      <4>2. x % HashModulus = z  BY <1>2, <4>1, RemainderIs, Zenon
      <4>3. QED  BY <4>1, <4>2
    <3>4. k % HashModulus \in Residue  BY ResidueIs
    <3>5. QED  BY <1>3, <2>1, <2>3, <3>1, <3>2, <3>3, <3>4
  <2>4. QED  BY <2>2, <2>3
<1>6. QED  BY <1>4, <1>5 DEF Forms

(* An update of a state is a state, and its fields are those named.        *)
LEMMA UpdateIs ==
    ASSUME NEW w \in Nat \ {0}, NEW D, NEW s \in HashState(w, D), NEW b \in Int
    PROVE  Updated(RollingHashUpdate(s, b), s, w, D, b)
<1> DEFINE window == [s.window EXCEPT ![s.windowStart] = b]
           from == (s.windowStart + 1) % w
           unrolled == Unrolled(D, w, window, from)
           out == s.window[s.windowStart]
           hash == CASE s.seen + 1 < w -> s.hash
                     [] s.seen + 1 = w -> unrolled[w]
                     [] s.seen + 1 > w -> Without(s, out, Shifted(s.hash, b))
<1>1. /\ s.n = w /\ s.windowStart \in 0..(w - 1) /\ s.seen \in Nat /\ s.hash \in Forms(D)
      /\ DOMAIN s.hash = D /\ s.window \in [0..(w - 1) -> Int]
      /\ s = [n |-> s.n, primePowN |-> s.primePowN, window |-> s.window,
              windowStart |-> s.windowStart, seen |-> s.seen, hash |-> s.hash]
      /\ s.primePowN = PowerOf(w)
  BY DEF HashState, Forms
<1>2. window \in [0..(w - 1) -> Int]  BY <1>1
<1>3. from \in 0..(w - 1)
  <2>1. PICK k \in Nat : k = s.windowStart + 1  BY <1>1
  <2>2. QED  BY <2>1, DivisionIs
<1>4. RollingHashUpdate(s, b)
        = [s EXCEPT !.window = window, !.windowStart = from, !.seen = @ + 1, !.hash = hash]
  BY <1>1 DEF RollingHashUpdate, Unrolled
<1> HIDE DEF window, from
<1>5. hash \in Forms(D)
  <2>1. unrolled[w] \in Forms(D)
    <3>1. UnrolledIs(unrolled, D, w, window, from)  BY UnrolledExists
    <3> HIDE DEF unrolled
    <3>2. w \in 0..w  OBVIOUS
    <3>3. QED  BY <3>1, <3>2 DEF UnrolledIs
  <2>2. Without(s, out, Shifted(s.hash, b)) \in Forms(D)
    <3>1. PICK u \in Forms(D) : u = Shifted(s.hash, b)  BY <1>1, ShiftedIs
    <3> HIDE DEF out
    <3>2. Without(s, out, u) \in Forms(D)  BY WithoutIs
    <3>3. QED  BY <3>1, <3>2
  <2> HIDE DEF unrolled, out
  <2>3. s.seen + 1 < w \/ s.seen + 1 = w \/ s.seen + 1 > w  BY <1>1
  <2>4. QED  BY <1>1, <2>1, <2>2, <2>3
<1>6. PICK t : t = RollingHashUpdate(s, b)  OBVIOUS
<1>7. /\ t.window = window /\ t.windowStart = from /\ t.seen = s.seen + 1 /\ t.hash = hash
      /\ t \in HashState(w, D)
  <2> HIDE DEF hash
  <2>1. t = [n |-> s.n, primePowN |-> s.primePowN, window |-> window,
             windowStart |-> from, seen |-> s.seen + 1, hash |-> hash]
    BY <1>1, <1>4, <1>6
  <2>2. s.seen + 1 \in Nat  BY <1>1
  <2>3. QED  BY <1>1, <1>2, <1>3, <1>5, <2>1, <2>2 DEF HashState
<1>8. /\ s.seen + 1 < w => hash = s.hash
      /\ s.seen + 1 = w => hash = unrolled[w]
      /\ s.seen + 1 > w => hash = Without(s, out, Shifted(s.hash, b))
  <2> HIDE DEF unrolled, out
  <2>1. QED  BY <1>1
<1>9. QED  BY <1>6, <1>7, <1>8 DEF Updated, window, from

-----------------------------------------------------------------------------
(* The hash of a sequence of len bytes, each named by its position.        *)
Hashes(run, w, len) ==
    /\ run \in [0..len -> HashState(w, 0..(len - 1))]
    /\ run[0] = RollingHashInit(w, 0..(len - 1))
    /\ \A k \in 1..len : run[k] = RollingHashUpdate(run[k - 1], k - 1)

(* There are such states, and the buckets are read off them.               *)
LEMMA HashesExist ==
    ASSUME NEW w \in Nat \ {0}, NEW len \in Nat
    PROVE  \E run : /\ Hashes(run, w, len)
                    /\ Buckets(w, len) = [j \in 0..(len - 1) |-> IF run[j + 1].seen < w THEN NoHash
                                                                 ELSE run[j + 1].hash]
<1> DEFINE X == HashState(w, 0..(len - 1))
           z == RollingHashInit(w, 0..(len - 1))
           f == [k \in 1..len |-> [s \in X |-> RollingHashUpdate(s, k - 1)]]
           Body(g) == [k \in 0..len |-> IF k = 0 THEN z ELSE RollingHashUpdate(g[k - 1], k - 1)]
           whole == CHOOSE g : g = Body(g)
<1>1. z \in X
  <2>1. [k \in 0..(w - 1) |-> NoByte] \in [0..(w - 1) -> Int]  BY DEF NoByte
  <2>2. [a \in 0..(len - 1) |-> 0] \in Forms(0..(len - 1))  BY PowerIs DEF Forms
  <2>3. 0 \in 0..(w - 1) /\ 0 \in Nat  OBVIOUS
  <2>4. QED  BY <2>1, <2>2, <2>3 DEF RollingHashInit, HashState
<1>2. \A k \in 1..len, s \in X : RollingHashUpdate(s, k - 1) \in X
  <2> TAKE k \in 1..len, s \in X
  <2>1. PICK b \in Int : b = k - 1  OBVIOUS
  <2>2. PICK D : D = 0..(len - 1)  OBVIOUS
  <2>3. s \in HashState(w, D)  BY <2>2
  <2>4. Updated(RollingHashUpdate(s, b), s, w, D, b)  BY <2>3, UpdateIs
  <2>5. RollingHashUpdate(s, b) \in HashState(w, D)  BY <2>4 DEF Updated
  <2>6. QED  BY <2>1, <2>2, <2>5
<1> HIDE DEF X, z
<1>3. f \in [1..len -> [X -> X]] /\ \A k \in 1..len, s \in X : f[k][s] = RollingHashUpdate(s, k - 1)
  BY <1>2
<1> HIDE DEF f
<1>4. PICK g : Recurses(g, len, X, z, f)
  <2>1. QED  BY <1>1, <1>3, RecursionExists, Zenon
<1>5. /\ g \in [0..len -> X] /\ g[0] = z
      /\ \A k \in 1..len : g[k] = RollingHashUpdate(g[k - 1], k - 1)
  <2>1. g \in [0..len -> X] /\ g[0] = z /\ \A k \in 1..len : g[k] = f[k][g[k - 1]]  BY <1>4 DEF Recurses
  <2>2. ASSUME NEW k \in 1..len  PROVE f[k][g[k - 1]] = RollingHashUpdate(g[k - 1], k - 1)
    <3>1. k - 1 \in 0..len  OBVIOUS
    <3>2. g[k - 1] \in X  BY <2>1, <3>1
    <3>3. QED  BY <1>3, <3>2
  <2>3. QED  BY <2>1, <2>2
<1>6. g = Body(g)
  <2>1. \A k \in 0..len : g[k] = IF k = 0 THEN z ELSE RollingHashUpdate(g[k - 1], k - 1)
    <3> TAKE k \in 0..len
    <3>1. k = 0 \/ k \in 1..len  OBVIOUS
    <3>2. QED  BY <1>5, <3>1
  <2>2. g = [k \in 0..len |-> g[k]]  BY <1>5
  <2>3. QED  BY <2>1, <2>2
<1>7. whole = Body(whole)
  <2> HIDE DEF Body
  <2>1. QED  BY <1>6
<1>8. Buckets(w, len) = [j \in 0..(len - 1) |-> IF whole[j + 1].seen < w THEN NoHash ELSE whole[j + 1].hash]
  BY DEF Buckets, z
<1>9. PICK e : e = whole /\ e = Body(e)
  <2> HIDE DEF Body, whole
  <2>1. QED  BY <1>7
<1> HIDE DEF whole
<1>10. /\ DOMAIN e = 0..len /\ e[0] = z /\ e = [k \in 0..len |-> e[k]]
       /\ \A k \in 1..len : e[k] = RollingHashUpdate(e[k - 1], k - 1)
  <2>1. DOMAIN Body(e) = 0..len /\ Body(e) = [k \in 0..len |-> Body(e)[k]]  OBVIOUS
  <2>2. Body(e)[0] = z  OBVIOUS
  <2>3. \A k \in 1..len : Body(e)[k] = RollingHashUpdate(e[k - 1], k - 1)  OBVIOUS
  <2> HIDE DEF Body
  <2>4. QED  BY <1>9, <2>1, <2>2, <2>3
<1>11. \A k \in 0..len : e[k] = g[k]
  <2> DEFINE P == {k \in 0..len : e[k] = g[k]}
  <2>1. 0 \in P  BY <1>5, <1>10
  <2>2. ASSUME NEW k \in 1..len, k - 1 \in P  PROVE k \in P
    <3>1. e[k - 1] = g[k - 1] /\ k \in 0..len  BY <2>2
    <3>2. /\ e[k] = RollingHashUpdate(e[k - 1], k - 1)
          /\ g[k] = RollingHashUpdate(g[k - 1], k - 1)
      BY <1>5, <1>10
    <3>3. QED  BY <3>1, <3>2
  <2> HIDE DEF P
  <2>3. \A k \in 0..len : k \in P  BY <2>1, <2>2, InductionUpTo
  <2>4. QED  BY <2>3 DEF P
<1>12. e = g  BY <1>5, <1>10, <1>11
<1>13. Hashes(e, w, len)  BY <1>5, <1>12 DEF Hashes, X, z
<1>14. QED  BY <1>8, <1>9, <1>13

(* After k bytes the ring holds the last of them, each in its slot, and    *)
(* once it is full the hash is the polynomial of the last w bytes.         *)
Weighs(u, k, w, len) ==
    \A a \in 0..(len - 1) : u[a] = IF k >= w /\ k - w <= a /\ a < k THEN PowerOf(k - 1 - a) ELSE 0
Holds(s, k, w, len) ==
    /\ s \in HashState(w, 0..(len - 1))
    /\ s.seen = k /\ s.windowStart = k % w
    /\ \A b \in 0..(k - 1) : k - b <= w => s.window[b % w] = b
    /\ Weighs(s.hash, k, w, len)

(* The place a byte w later takes is the byte's own.                       *)
LEMMA SlotAgain ==
    ASSUME NEW w \in Nat \ {0}, NEW b \in Nat
    PROVE  (b + w) % w = b % w
<1>1. PICK q \in Nat, j \in 0..(w - 1) : b = w * q + j /\ b % w = j  BY DivisionIs
<1>2. PICK k \in Nat, r \in Int : k = b + w /\ r = q + 1 /\ k = w * r + j  BY <1>1
<1>3. k % w = j  BY <1>2, RemainderIs, Zenon
<1>4. QED  BY <1>1, <1>2, <1>3

(* A hash computed from a ring that holds bytes 0 to w - 1 in order weighs *)
(* each by its power.                                                      *)
LEMMA FullWindowIs ==
    ASSUME NEW w \in Nat \ {0}, NEW len \in Nat, NEW window,
           \A k \in 0..(w - 1) : window[k] = k
    PROVE  Weighs(Unrolled(0..(len - 1), w, window, 0)[w], w, w, len)
<1> DEFINE D == 0..(len - 1)
<1>1. PICK g : g = Unrolled(D, w, window, 0) /\ UnrolledIs(g, D, w, window, 0)  BY UnrolledExists
<1> DEFINE P == {m \in 0..w : \A a \in D : g[m][a] = IF a < m THEN PowerOf(m - 1 - a) ELSE 0}
<1>2. 0 \in P
  <2>1. g[0] = [a \in D |-> 0]  BY <1>1 DEF UnrolledIs
  <2>2. QED  BY <2>1
<1>3. ASSUME NEW m \in 1..w, m - 1 \in P  PROVE m \in P
  <2>1. PICK k \in 0..(w - 1) : k = m - 1 /\ m = k + 1 /\ k \in P  BY <1>3
  <2>2. k % w = k  OBVIOUS
  <2>3. g[m] = Shifted(g[k], k)
    <3>1. g[m] = Shifted(g[m - 1], window[(0 + m - 1) % w])  BY <1>1 DEF UnrolledIs
    <3>2. 0 + m - 1 = k  BY <2>1
    <3>3. window[k % w] = k  BY <2>2
    <3>4. QED  BY <2>1, <3>1, <3>2, <3>3
  <2>4. PICK u \in Forms(D) : u = g[k]
    <3>1. k \in 0..w  OBVIOUS
    <3>2. QED  BY <1>1, <3>1 DEF UnrolledIs
  <2>5. ASSUME NEW a \in D  PROVE g[m][a] = IF a < m THEN PowerOf(m - 1 - a) ELSE 0
    <3>1. u[a] = IF a < k THEN PowerOf(k - 1 - a) ELSE 0  BY <2>1, <2>4
    <3>2. /\ a = k /\ u[a] = 0 => g[m][a] = 1
          /\ a # k => g[m][a] = (u[a] * HashPrime) % HashModulus
          /\ a # k /\ u[a] = 0 => g[m][a] = 0
      <4> HIDE DEF D
      <4>1. QED  BY <2>3, <2>4, ShiftedIs
    <3>3. CASE a < k
      <4>1. PICK e \in Nat : e = k - 1 - a /\ e + 1 = m - 1 - a  BY <2>1, <3>3
      <4>2. PowerOf(e + 1) = (PowerOf(e) * HashPrime) % HashModulus  BY PowerIs
      <4>3. u[a] = PowerOf(e)  BY <3>1, <3>3, <4>1
      <4>4. g[m][a] = (u[a] * HashPrime) % HashModulus  BY <3>2, <3>3
      <4>5. a < m  BY <2>1, <3>3
      <4>6. QED  BY <4>1, <4>2, <4>3, <4>4, <4>5
    <3>4. CASE a = k
      <4>1. u[a] = 0 /\ a < m /\ m - 1 - a = 0  BY <2>1, <3>1, <3>4
      <4>2. QED  BY <3>2, <3>4, <4>1, PowerIs
    <3>5. CASE a > k
      <4>1. u[a] = 0 /\ ~(a < m) /\ a # k  BY <2>1, <3>1, <3>5
      <4>2. QED  BY <3>2, <4>1
    <3>6. QED  BY <3>3, <3>4, <3>5
  <2>6. QED  BY <2>5
<1>4. w \in P
  <2> HIDE DEF P
  <2>1. \A m \in 0..w : m \in P  BY <1>2, <1>3, InductionUpTo
  <2>2. w \in 0..w  OBVIOUS
  <2>3. QED  BY <2>1, <2>2
<1>5. QED  BY <1>1, <1>4 DEF Weighs

-----------------------------------------------------------------------------
(* Before the first byte.                                                  *)
LEMMA HashBegins ==
    ASSUME NEW w \in Nat \ {0}, NEW len \in Nat,
           NEW s \in HashState(w, 0..(len - 1)), s = RollingHashInit(w, 0..(len - 1))
    PROVE  Holds(s, 0, w, len)
<1>1. s.seen = 0 /\ s.windowStart = 0 /\ s.hash = [a \in 0..(len - 1) |-> 0]  BY DEF RollingHashInit
<1>2. 0 % w = 0  OBVIOUS
<1>3. Weighs(s.hash, 0, w, len)  BY <1>1 DEF Weighs
<1>4. QED  BY <1>1, <1>2, <1>3 DEF Holds

(* A byte more: what entered w bytes ago leaves the hash exactly.          *)
LEMMA HashGoesOn ==
    ASSUME NEW w \in Nat \ {0}, NEW len \in Nat, NEW k \in 0..(len - 1), NEW s, Holds(s, k, w, len),
           NEW t, Updated(t, s, w, 0..(len - 1), k)
    PROVE  Holds(t, k + 1, w, len)
<1> DEFINE D == 0..(len - 1)
           window == [s.window EXCEPT ![s.windowStart] = k]
           from == (s.windowStart + 1) % w
<1>1. /\ t \in HashState(w, D) /\ s \in HashState(w, D)
      /\ t.window = window /\ t.windowStart = from /\ t.seen = k + 1
      /\ k + 1 < w => t.hash = s.hash
      /\ k + 1 = w => t.hash = Unrolled(D, w, window, from)[w]
      /\ k + 1 > w => t.hash = Without(s, s.window[s.windowStart], Shifted(s.hash, k))
      /\ s.windowStart = k % w /\ Weighs(s.hash, k, w, len)
      /\ \A b \in 0..(k - 1) : k - b <= w => s.window[b % w] = b
      /\ k \in Nat /\ s.window \in [0..(w - 1) -> Int] /\ s.hash \in Forms(D)
  BY DEF Updated, Holds, HashState
<1>2. t.windowStart = (k + 1) % w
  <2>1. from = (k + 1) % w  BY <1>1, NextSlot
  <2>2. QED  BY <1>1, <2>1
<1> HIDE DEF from
<1>3. ASSUME NEW b \in 0..k, k + 1 - b <= w  PROVE window[b % w] = b
  <2>1. (b % w) \in 0..(w - 1) /\ (k % w) \in 0..(w - 1)
    <3>1. b \in Nat /\ k \in Nat  OBVIOUS
    <3>2. QED  BY <3>1, DivisionIs
  <2>2. CASE b = k  BY <1>1, <2>1, <2>2
  <2>3. CASE b < k
    <3>1. b \in Nat /\ k - b < w /\ b \in 0..(k - 1) /\ k - b <= w  BY <1>1, <1>3, <2>3
    <3>2. b % w # k % w  BY <1>1, <2>3, <3>1, SlotsDiffer
    <3>3. s.window[b % w] = b  BY <1>1, <3>1
    <3>4. QED  BY <1>1, <2>1, <3>2, <3>3
  <2>4. QED  BY <1>1, <2>2, <2>3
<1> HIDE DEF window
<1>4. Weighs(t.hash, k + 1, w, len)
  <2>1. CASE k + 1 < w
    <3>1. ~(k >= w) /\ ~(k + 1 >= w)  BY <1>1, <2>1
    <3>2. QED  BY <1>1, <2>1, <3>1 DEF Weighs
  <2>2. CASE k + 1 = w
    <3>1. from = 0
      <4>1. 0 % w = 0 /\ (0 + w) % w = 0 % w  BY SlotAgain
      <4>2. 0 + w = k + 1  BY <1>1, <2>2
      <4>3. from = (0 + w) % w  BY <1>1, <1>2, <4>2
      <4>4. QED  BY <4>1, <4>3
    <3>2. ASSUME NEW m \in 0..(w - 1)  PROVE window[m] = m
      <4>1. m % w = m  OBVIOUS
      <4>10. m \in 0..k /\ k + 1 - m <= w  BY <2>2
      <4>2. window[m % w] = m  BY <1>3, <4>10
      <4>3. QED  BY <4>1, <4>2
    <3>3. PICK u : u = t.hash /\ u = Unrolled(0..(len - 1), w, window, 0)[w]  BY <1>1, <2>2, <3>1
    <3>4. Weighs(Unrolled(0..(len - 1), w, window, 0)[w], w, w, len)  BY <3>2, FullWindowIs
    <3>5. QED  BY <2>2, <3>3, <3>4
  <2>3. CASE k + 1 > w
    <3>1. PICK b \in 0..(k - 1) : b = k - w /\ b \in Nat /\ b + w = k /\ k - b <= w
      BY <1>1, <2>3
    <3>2. b % w = k % w  BY <3>1, SlotAgain
    <3>3. s.window[s.windowStart] = b  BY <1>1, <3>1, <3>2
    <3>4. PICK u \in Forms(D) : /\ u = Shifted(s.hash, k)
                                /\ \A a \in D : /\ a = k /\ s.hash[a] = 0 => u[a] = 1
                                                /\ a # k => u[a] = (s.hash[a] * HashPrime) % HashModulus
                                                /\ a # k /\ s.hash[a] = 0 => u[a] = 0
      <4>1. PICK v \in Forms(D) : v = s.hash  BY <1>1
      <4> HIDE DEF D
      <4>2. QED  BY <4>1, ShiftedIs
    <3>5. t.hash = Without(s, b, u)  BY <1>1, <2>3, <3>3, <3>4
    <3>6. \A a \in D : /\ a # b => t.hash[a] = u[a]
                       /\ a = b /\ u[a] = PowerOf(w) => t.hash[a] = 0
      <4>1. s \in HashState(w, D)  BY <1>1
      <4> HIDE DEF D
      <4>2. QED  BY <3>5, <4>1, WithoutIs
    <3>7. ASSUME NEW a \in D
          PROVE  t.hash[a] = IF k + 1 >= w /\ k + 1 - w <= a /\ a < k + 1 THEN PowerOf(k + 1 - 1 - a) ELSE 0
      <4>1. s.hash[a] = IF b <= a /\ a < k THEN PowerOf(k - 1 - a) ELSE 0
        <5>1. s.hash[a] = IF k >= w /\ k - w <= a /\ a < k THEN PowerOf(k - 1 - a) ELSE 0
          BY <1>1 DEF Weighs
        <5>2. k >= w /\ k - w = b  BY <3>1
        <5>3. QED  BY <5>1, <5>2
      <4>2. /\ a \in Nat /\ b < k
            /\ k + 1 >= w /\ (k + 1 - w <= a <=> b < a) /\ (a < k + 1 <=> a <= k)
            /\ k + 1 - 1 - a = k - a
        BY <3>1
      <4> HIDE DEF D
      <4>3. t.hash[a] = IF b < a /\ a <= k THEN PowerOf(k - a) ELSE 0
        <5>1. CASE a < b
          <6>1. ~(b <= a) /\ ~(b < a) /\ a # k /\ a # b  BY <4>2, <5>1
          <6>2. s.hash[a] = 0  BY <4>1, <6>1
          <6>3. t.hash[a] = 0  BY <3>4, <3>6, <6>1, <6>2
          <6>4. QED  BY <6>1, <6>3
        <5>2. CASE a = b
          <6>1. PICK e \in Nat : e = k - 1 - a /\ e + 1 = w  BY <3>1, <4>2, <5>2
          <6>2. b <= a /\ a < k /\ a # k /\ ~(b < a)  BY <4>2, <5>2
          <6>3. s.hash[a] = PowerOf(e)  BY <4>1, <6>1, <6>2
          <6>4. PowerOf(e + 1) = (PowerOf(e) * HashPrime) % HashModulus  BY PowerIs
          <6>5. u[a] = (PowerOf(e) * HashPrime) % HashModulus  BY <3>4, <6>2, <6>3
          <6>6. u[a] = PowerOf(w)  BY <6>1, <6>4, <6>5
          <6>7. t.hash[a] = 0  BY <3>6, <5>2, <6>6
          <6>8. QED  BY <6>2, <6>7
        <5>3. CASE b < a /\ a < k
          <6>1. PICK e \in Nat : e = k - 1 - a /\ e + 1 = k - a  BY <4>2, <5>3
          <6>2. b <= a /\ a # k /\ a # b /\ a <= k  BY <4>2, <5>3
          <6>3. s.hash[a] = PowerOf(e)  BY <4>1, <5>3, <6>1, <6>2
          <6>4. PowerOf(e + 1) = (PowerOf(e) * HashPrime) % HashModulus  BY PowerIs
          <6>5. u[a] = (PowerOf(e) * HashPrime) % HashModulus  BY <3>4, <6>2, <6>3
          <6>6. t.hash[a] = u[a]  BY <3>6, <6>2
          <6>7. t.hash[a] = PowerOf(k - a)  BY <6>1, <6>4, <6>5, <6>6
          <6>8. QED  BY <5>3, <6>2, <6>7
        <5>4. CASE a = k
          <6>1. ~(a < k) /\ a # b /\ b < a /\ a <= k /\ k - a = 0  BY <4>2, <5>4
          <6>2. s.hash[a] = 0  BY <4>1, <6>1
          <6>3. u[a] = 1  BY <3>4, <5>4, <6>2
          <6>4. t.hash[a] = PowerOf(0)  BY <3>6, <6>1, <6>3, PowerIs
          <6>5. QED  BY <6>1, <6>4
        <5>5. CASE a > k
          <6>1. ~(a < k) /\ a # k /\ a # b /\ ~(a <= k)  BY <4>2, <5>5
          <6>2. s.hash[a] = 0  BY <4>1, <6>1
          <6>3. t.hash[a] = 0  BY <3>4, <3>6, <6>1, <6>2
          <6>4. QED  BY <6>1, <6>3
        <5>6. QED  BY <4>2, <5>1, <5>2, <5>3, <5>4, <5>5
      <4>4. QED  BY <4>2, <4>3
    <3>8. QED  BY <3>7 DEF Weighs
  <2>4. QED  BY <1>1, <2>1, <2>2, <2>3
<1>5. k + 1 - 1 = k  BY <1>1
<1>6. \A b \in 0..(k + 1 - 1) : k + 1 - b <= w => t.window[b % w] = b  BY <1>1, <1>3, <1>5
<1>7. QED  BY <1>1, <1>2, <1>4, <1>6 DEF Holds

(* The bucket of a position is the polynomial of the w bytes up to it.     *)
LEMMA BucketIs ==
    ASSUME NEW w \in Nat \ {0}, NEW len \in Nat, NEW j \in 0..(len - 1)
    PROVE  /\ j + 1 < w => Buckets(w, len)[j] = NoHash
           /\ j + 1 >= w => /\ Buckets(w, len)[j] \in Forms(0..(len - 1))
                            /\ Weighs(Buckets(w, len)[j], j + 1, w, len)
<1>1. PICK run : /\ Hashes(run, w, len)
                 /\ Buckets(w, len) = [m \in 0..(len - 1) |-> IF run[m + 1].seen < w THEN NoHash
                                                              ELSE run[m + 1].hash]
  BY HashesExist
<1> DEFINE P == {k \in 0..len : Holds(run[k], k, w, len)}
<1>2. 0 \in P
  <2>1. PICK s : s = run[0] /\ s \in HashState(w, 0..(len - 1)) /\ s = RollingHashInit(w, 0..(len - 1))
    BY <1>1 DEF Hashes
  <2>2. Holds(s, 0, w, len)  BY <2>1, HashBegins
  <2>3. Holds(run[0], 0, w, len)  BY <2>1, <2>2
  <2>4. 0 \in 0..len  OBVIOUS
  <2>5. QED  BY <2>3, <2>4
<1>3. ASSUME NEW k \in 1..len, k - 1 \in P  PROVE k \in P
  <2>1. PICK m \in 0..(len - 1) : m = k - 1 /\ k = m + 1 /\ m \in Int  OBVIOUS
  <2>2. PICK s : s = run[m] /\ Holds(s, m, w, len)  BY <1>3, <2>1
  <2>3. PICK t : t = run[k] /\ t = RollingHashUpdate(s, m)  BY <1>1, <2>1, <2>2 DEF Hashes
  <2>4. PICK D : D = 0..(len - 1)  OBVIOUS
  <2>5. s \in HashState(w, D)  BY <2>2, <2>4 DEF Holds
  <2>6. Updated(t, s, w, D, m)  BY <2>1, <2>3, <2>5, UpdateIs
  <2>7. Holds(t, m + 1, w, len)  BY <2>2, <2>4, <2>6, HashGoesOn
  <2>8. Holds(run[k], k, w, len)
    <3>1. m + 1 = k  BY <2>1
    <3>2. QED  BY <2>3, <2>7, <3>1
  <2>9. k \in 0..len  OBVIOUS
  <2>10. QED  BY <2>8, <2>9
<1>4. \A k \in 0..len : k \in P
  <2> HIDE DEF P
  <2>1. QED  BY <1>2, <1>3, InductionUpTo
<1>5. PICK k \in 0..len : k = j + 1 /\ k \in Nat  OBVIOUS
<1>6. /\ run[k].seen = k /\ Weighs(run[k].hash, k, w, len) /\ run[k].hash \in Forms(0..(len - 1))
  <2>1. Holds(run[k], k, w, len)  BY <1>4
  <2>2. QED  BY <2>1 DEF Holds, HashState
<1>7. Buckets(w, len)[j] = IF k < w THEN NoHash ELSE run[k].hash  BY <1>1, <1>5, <1>6
<1>8. QED  BY <1>5, <1>6, <1>7

(* A bucket depends on no byte after the position it is for.               *)
LEMMA HashedBytesAre ==
    ASSUME NEW w \in Nat \ {0}, NEW len \in Nat, NEW j \in 0..(len - 1)
    PROVE  BytesHashed(Buckets(w, len)[j]) \subseteq 0..j
<1>1. PICK u : u = Buckets(w, len)[j]  OBVIOUS
<1>2. CASE j + 1 < w
  <2>1. u = NoHash  BY <1>1, <1>2, BucketIs
  <2>2. QED  BY <1>1, <2>1 DEF BytesHashed
<1>3. CASE j + 1 >= w
  <2>1. DOMAIN u = 0..(len - 1) /\ Weighs(u, j + 1, w, len)  BY <1>1, <1>3, BucketIs DEF Forms
  <2>2. ASSUME NEW a \in 0..(len - 1), u[a] # 0  PROVE a \in 0..j
    <3>1. a < j + 1  BY <2>1, <2>2 DEF Weighs
    <3>2. QED  BY <3>1
  <2>3. QED  BY <1>1, <2>1, <2>2 DEF BytesHashed
<1>4. QED  BY <1>2, <1>3

(* Equal windows of bytes fall in one bucket, wherever they stand.         *)
LEMMA HashedAlike ==
    ASSUME NEW w \in Nat \ {0}, NEW len \in Nat, w <= len
    PROVE  SameFormEverywhere(w, len)
<1>1. PICK bucket : bucket = Buckets(w, len)  OBVIOUS
<1>2. ASSUME NEW j \in (w - 1)..(len - 1), NEW a \in 0..(len - 1)
      PROVE  bucket[j][a] = IF a \in (j - w + 1)..j THEN bucket[w - 1][a - (j - w + 1)] ELSE 0
  <2>1. j \in 0..(len - 1) /\ j + 1 >= w  OBVIOUS
  <2>2. Weighs(bucket[j], j + 1, w, len)  BY <1>1, <2>1, BucketIs
  <2>3. bucket[j][a] = IF j + 1 >= w /\ j + 1 - w <= a /\ a < j + 1 THEN PowerOf(j + 1 - 1 - a) ELSE 0
    BY <2>2 DEF Weighs
  <2>4. CASE a \in (j - w + 1)..j
    <3>1. PICK first \in 0..(len - 1) : first = w - 1 /\ first + 1 >= w /\ first + 1 = w  OBVIOUS
    <3>2. Weighs(bucket[first], w, w, len)
      <4>1. PICK m \in 0..(len - 1) : m = first  OBVIOUS
      <4>2. Weighs(Buckets(w, len)[m], m + 1, w, len)  BY <3>1, <4>1, BucketIs
      <4>3. QED  BY <1>1, <3>1, <4>1, <4>2
    <3>3. PICK c \in 0..(len - 1) : c = a - (j - w + 1) /\ c < w /\ w - 1 - c = j + 1 - 1 - a
      BY <2>4
    <3>4. bucket[first][c] = PowerOf(w - 1 - c)  BY <3>2, <3>3 DEF Weighs
    <3>5. j + 1 - w <= a /\ a < j + 1  BY <2>4
    <3>6. QED  BY <2>1, <2>3, <2>4, <3>1, <3>3, <3>4, <3>5
  <2>5. CASE a \notin (j - w + 1)..j
    <3>1. ~(j + 1 - w <= a /\ a < j + 1)  BY <2>5
    <3>2. QED  BY <2>3, <2>5, <3>1
  <2>6. QED  BY <2>4, <2>5
<1>3. QED  BY <1>1, <1>2 DEF SameFormEverywhere

-----------------------------------------------------------------------------
(***************************************************************************)
(* What a row reads: the inputs its numbers depend on.  Every operation of *)
(* a layer keeps, of its operands, what they read.                         *)
(***************************************************************************)
Seen(u) == {a \in DOMAIN u : u[a] > 0}

(* A number is kept below the modulus and is 0 only when it was.           *)
LEMMA ReduceIs ==
    ASSUME NEW k \in Nat
    PROVE  Reduce(k) \in Nat /\ (Reduce(k) > 0 <=> k > 0)
<1>1. Modulus \in Nat \ {0}  BY ModulusAssumption
<1>2. CASE k = 0  BY <1>2 DEF Reduce
<1>3. CASE k # 0
  <2>1. k - 1 \in Nat  BY <1>3
  <2>2. ((k - 1) % Modulus) \in 0..(Modulus - 1)  BY <1>1, <2>1, DivisionIs
  <2>3. Reduce(k) = 1 + ((k - 1) % Modulus)  BY <1>3 DEF Reduce
  <2>4. QED  BY <1>1, <1>3, <2>2, <2>3
<1>4. QED  BY <1>2, <1>3

(* A multiple of a row reads what the row reads.                           *)
LEMMA TimesIs ==
    ASSUME NEW c \in Nat, NEW R, NEW u \in [R -> Nat]
    PROVE  /\ Times(c, u) \in [R -> Nat] /\ Seen(Times(c, u)) \subseteq Seen(u)
           /\ c > 0 => Seen(Times(c, u)) = Seen(u)
<1>1. ASSUME NEW a \in R
      PROVE  /\ Times(c, u)[a] = Reduce(c * u[a]) /\ Reduce(c * u[a]) \in Nat
             /\ Reduce(c * u[a]) > 0 => u[a] > 0
             /\ c > 0 /\ u[a] > 0 => Reduce(c * u[a]) > 0
  <2>1. u[a] \in Nat  OBVIOUS
  <2>2. PICK m \in Nat : m = u[a]  BY <2>1
  <2>3. c * m \in Nat /\ (c * m > 0 => m > 0) /\ (c > 0 /\ m > 0 => c * m > 0)  OBVIOUS
  <2>4. Reduce(c * m) \in Nat /\ (Reduce(c * m) > 0 <=> c * m > 0)  BY <2>3, ReduceIs
  <2>5. Times(c, u)[a] = Reduce(c * u[a])  BY DEF Times
  <2>6. QED  BY <2>2, <2>3, <2>4, <2>5
<1>2. Times(c, u) = [a \in R |-> Reduce(c * u[a])]  BY DEF Times
<1>3. Times(c, u) \in [R -> Nat]  BY <1>1, <1>2
<1>4. DOMAIN Times(c, u) = R /\ DOMAIN u = R  BY <1>2
<1>5. QED  BY <1>1, <1>3, <1>4 DEF Seen

(* A sum of two rows reads what either reads.                              *)
LEMMA PlusIs ==
    ASSUME NEW R, NEW u \in [R -> Nat], NEW v \in [R -> Nat]
    PROVE  Plus(u, v) \in [R -> Nat] /\ Seen(Plus(u, v)) = Seen(u) \cup Seen(v)
<1>1. ASSUME NEW a \in R
      PROVE  /\ Plus(u, v)[a] = Reduce(u[a] + v[a]) /\ Reduce(u[a] + v[a]) \in Nat
             /\ Reduce(u[a] + v[a]) > 0 <=> u[a] > 0 \/ v[a] > 0
  <2>1. PICK m \in Nat, k \in Nat : m = u[a] /\ k = v[a]  OBVIOUS
  <2>2. m + k \in Nat /\ (m + k > 0 <=> m > 0 \/ k > 0)  OBVIOUS
  <2>3. Reduce(m + k) \in Nat /\ (Reduce(m + k) > 0 <=> m + k > 0)  BY <2>2, ReduceIs
  <2>4. Plus(u, v)[a] = Reduce(u[a] + v[a])  BY DEF Plus
  <2>5. QED  BY <2>1, <2>2, <2>3, <2>4
<1>2. Plus(u, v) = [a \in R |-> Reduce(u[a] + v[a])]  BY DEF Plus
<1>3. Plus(u, v) \in [R -> Nat]  BY <1>1, <1>2
<1>4. DOMAIN Plus(u, v) = R /\ DOMAIN u = R /\ DOMAIN v = R  BY <1>2
<1>5. QED  BY <1>1, <1>3, <1>4 DEF Seen

(* Rows of numbers for the inputs R, and the rows a mask lets each attend. *)
Rowed(x, D, R) == x \in [D -> [R -> Nat]]
Keyed(keys, D, E) == keys \in [D -> SUBSET E]
Positive(w) == w \in Nat \ {0}
Some(E) == E # {} /\ IsFiniteSet(E)
Placed(where, D) == \A r \in D : where[r] \in Nat
SeenOf(x, K) == UNION {Seen(x[j]) : j \in K}
Sees(x, S, R) == Sum(x, S) \in [R -> Nat] /\ Seen(Sum(x, S)) = SeenOf(x, S)

(* The sum of a set of rows reads what any of them reads.                  *)
LEMMA SumIs ==
    ASSUME NEW D, Some(D), NEW R, NEW x, Rowed(x, D, R), NEW S \in SUBSET D
    PROVE  Sees(x, S, R)
<1> USE DEF Rowed
<1>0. IsFiniteSet(S) /\ D # {}  BY FS_Subset DEF Some
<1> DEFINE X == [R -> Nat]
           none == [a \in DOMAIN x[CHOOSE r \in DOMAIN x : TRUE] |-> 0]
           F == [r \in S |-> [u \in X |-> Plus(x[r], u)]]
           pick(T) == CHOOSE r \in T : TRUE
           Body(g) == [T \in SUBSET S |-> IF T = {} THEN none ELSE Plus(x[pick(T)], g[T \ {pick(T)}])]
           fold == CHOOSE g : g = Body(g)
<1>1. Sum(x, S) = fold[S]  BY DEF Sum, MapThenFoldSet
<1>2. none = [a \in R |-> 0] /\ none \in X
  <2>1. (CHOOSE r \in DOMAIN x : TRUE) \in D  BY <1>0
  <2>2. DOMAIN x[CHOOSE r \in DOMAIN x : TRUE] = R  BY <2>1
  <2>3. QED  BY <2>2
<1>3. F \in [S -> [X -> X]]
  <2>1. ASSUME NEW r \in S, NEW u \in X  PROVE Plus(x[r], u) \in X
    <3>1. x[r] \in [R -> Nat]  OBVIOUS
    <3>2. QED  BY <3>1, PlusIs
  <2> HIDE DEF X
  <2>2. QED  BY <2>1
<1>4. PICK g : Folds(g, F, none, S, X)
  <2> HIDE DEF F, X, none
  <2>1. QED  BY <1>0, <1>2, <1>3, FoldExists, Zenon
<1>5. g \in [SUBSET S -> X] /\ g = FoldBody(F, none, S, g)  BY <1>4 DEF Folds
<1>6. FoldBody(F, none, S, g) = Body(g)
  <2>1. ASSUME NEW T \in SUBSET S, T # {}
        PROVE  F[pick(T)][g[T \ {pick(T)}]] = Plus(x[pick(T)], g[T \ {pick(T)}])
    <3>1. pick(T) \in S  BY <2>1
    <3>2. g[T \ {pick(T)}] \in X  BY <1>5
    <3> HIDE DEF X, pick
    <3>3. QED  BY <3>1, <3>2
  <2> HIDE DEF F, none, X
  <2>2. QED  BY <2>1 DEF FoldBody
<1>7. fold = Body(fold)
  <2>1. g = Body(g)  BY <1>5, <1>6
  <2> HIDE DEF Body
  <2>2. QED  BY <2>1
<1>8. PICK f : f = fold /\ f = Body(f)
  <2> HIDE DEF Body, fold
  <2>1. QED  BY <1>7
<1>9. \A T \in SUBSET S : f[T] = IF T = {} THEN none ELSE Plus(x[pick(T)], f[T \ {pick(T)}])
  <2> TAKE T \in SUBSET S
  <2>1. Body(f)[T] = IF T = {} THEN none ELSE Plus(x[pick(T)], f[T \ {pick(T)}])  OBVIOUS
  <2>2. QED  BY <1>8, <2>1
<1> DEFINE Good(T) == f[T] \in X /\ Seen(f[T]) = UNION {Seen(x[r]) : r \in T}
           Bad == {T \in SUBSET S : ~Good(T)}
<1> HIDE DEF Body, fold, F
<1>10. Bad = {}
  <2>1. SUFFICES ASSUME Bad # {} PROVE FALSE  OBVIOUS
  <2>2. PICK T \in Bad : \A U \in Bad : U \subseteq T => U = T
    <3>1. \A T \in Bad : T \subseteq S  OBVIOUS
    <3> HIDE DEF Bad
    <3>2. QED  BY <1>0, <2>1, <3>1, SmallestSet
  <2>3. CASE T = {}
    <3>1. f[T] = none  BY <1>9, <2>3
    <3>2. Seen(none) = {}  BY <1>2 DEF Seen
    <3>3. QED  BY <1>2, <2>3, <3>1, <3>2
  <2>4. CASE T # {}
    <3>1. pick(T) \in T /\ pick(T) \in D  BY <2>4
    <3>2. PICK c \in D : c = pick(T) /\ c \in T  BY <3>1
    <3>3. f[T] = Plus(x[c], f[T \ {c}])  BY <1>9, <2>4, <3>2
    <3>4. T \ {c} \in SUBSET S /\ T \ {c} \subseteq T /\ T \ {c} # T  BY <3>2
    <3>5. T \ {c} \notin Bad  BY <2>2, <3>4
    <3>6. f[T \ {c}] \in X /\ Seen(f[T \ {c}]) = UNION {Seen(x[r]) : r \in T \ {c}}  BY <3>4, <3>5
    <3>7. x[c] \in [R -> Nat]  OBVIOUS
    <3>8. f[T] \in X /\ Seen(f[T]) = Seen(x[c]) \cup Seen(f[T \ {c}])
      <4>1. PICK v \in [R -> Nat] : v = f[T \ {c}]  BY <3>6
      <4>2. Plus(x[c], v) \in [R -> Nat] /\ Seen(Plus(x[c], v)) = Seen(x[c]) \cup Seen(v)
        BY <3>7, PlusIs
      <4>3. QED  BY <3>3, <4>1, <4>2
    <3>9. UNION {Seen(x[r]) : r \in T} = Seen(x[c]) \cup UNION {Seen(x[r]) : r \in T \ {c}}  BY <3>2
    <3>10. Good(T)  BY <3>6, <3>8, <3>9
    <3>11. QED  BY <3>10
  <2>5. QED  BY <2>3, <2>4
<1>11. S \in SUBSET S  OBVIOUS
<1>12. QED  BY <1>1, <1>8, <1>10, <1>11 DEF Sees, SeenOf

-----------------------------------------------------------------------------
(* The operations of a layer, row by row.                                  *)
LEMMA AddIs ==
    ASSUME NEW D, NEW R, NEW x, Rowed(x, D, R), NEW y, Rowed(y, D, R)
    PROVE  /\ Rowed(Add(x, y), D, R)
           /\ \A r \in D : Seen(Add(x, y)[r]) = Seen(x[r]) \cup Seen(y[r])
<1>1. ASSUME NEW r \in D
      PROVE  /\ Plus(x[r], y[r]) \in [R -> Nat]
             /\ Seen(Plus(x[r], y[r])) = Seen(x[r]) \cup Seen(y[r])
  <2>1. x[r] \in [R -> Nat] /\ y[r] \in [R -> Nat]  BY DEF Rowed
  <2>2. QED  BY <2>1, PlusIs
<1>2. Add(x, y) = [r \in D |-> Plus(x[r], y[r])]  BY DEF Add, Rowed
<1>3. QED  BY <1>1, <1>2 DEF Rowed

(* A product with a positive weight reads what the row reads.              *)
LEMMA MatmulIs ==
    ASSUME NEW D, NEW R, NEW x, Rowed(x, D, R), NEW w, Positive(w)
    PROVE  /\ Rowed(Matmul(x, w), D, R)
           /\ \A r \in D : Seen(Matmul(x, w)[r]) = Seen(x[r])
<1>1. ASSUME NEW r \in D
      PROVE  Times(w, x[r]) \in [R -> Nat] /\ Seen(Times(w, x[r])) = Seen(x[r])
  <2>1. x[r] \in [R -> Nat] /\ w \in Nat /\ w > 0  BY DEF Rowed, Positive
  <2>2. QED  BY <2>1, TimesIs
<1>2. Matmul(x, w) = [r \in D |-> Times(w, x[r])]  BY DEF Matmul, Rowed
<1>3. QED  BY <1>1, <1>2 DEF Rowed

(* So does a row normalised.                                               *)
LEMMA RmsnormIs ==
    ASSUME NEW D, NEW R, NEW x, Rowed(x, D, R), NEW w, Positive(w)
    PROVE  /\ Rowed(RmsnormForward(x, w), D, R)
           /\ \A r \in D : Seen(RmsnormForward(x, w)[r]) = Seen(x[r])
<1>1. RmsnormForward(x, w) = Matmul(x, w)  BY DEF RmsnormForward, Matmul
<1>2. QED  BY <1>1, MatmulIs

(* And a row turned by its position.                                       *)
LEMMA RopeIs ==
    ASSUME NEW D, NEW R, NEW x, Rowed(x, D, R), NEW where, Placed(where, D)
    PROVE  /\ Rowed(RopeApply(x, where), D, R)
           /\ \A r \in D : Seen(RopeApply(x, where)[r]) = Seen(x[r])
<1>1. ASSUME NEW r \in D
      PROVE  /\ Times(where[r] + 1, x[r]) \in [R -> Nat]
             /\ Seen(Times(where[r] + 1, x[r])) = Seen(x[r])
  <2>1. PICK c \in Nat : c = where[r] + 1 /\ c > 0  BY DEF Placed
  <2>2. x[r] \in [R -> Nat]  BY DEF Rowed
  <2>3. Times(c, x[r]) \in [R -> Nat] /\ Seen(Times(c, x[r])) = Seen(x[r])  BY <2>1, <2>2, TimesIs
  <2>4. QED  BY <2>1, <2>3
<1>2. RopeApply(x, where) = [r \in D |-> Times(where[r] + 1, x[r])]  BY DEF RopeApply, Rowed
<1>3. QED  BY <1>1, <1>2 DEF Rowed

(* A head reads what the row's query reads and what the keys and values of *)
(* the rows it attends read; the latter in any case.                       *)
LEMMA HeadIs ==
    ASSUME NEW D, NEW E, Some(E), NEW R, NEW keys, Keyed(keys, D, E),
           NEW q, Rowed(q, D, R), NEW k, Rowed(k, E, R), NEW v, Rowed(v, E, R)
    PROVE  /\ Rowed(HeadCore(q, k, v, keys), D, R)
           /\ \A r \in D :
                LET all == SeenOf(k, keys[r]) \cup SeenOf(v, keys[r])
                IN  /\ all \subseteq Seen(HeadCore(q, k, v, keys)[r])
                    /\ Seen(HeadCore(q, k, v, keys)[r]) \subseteq Seen(q[r]) \cup all
<1> DEFINE kv == Add(k, v)
<1>1. Rowed(kv, E, R) /\ \A j \in E : Seen(kv[j]) = Seen(k[j]) \cup Seen(v[j])
  BY AddIs
<1>2. HeadCore(q, k, v, keys)
        = [r \in D |-> Plus(Times(Cardinality(keys[r]), q[r]), Sum(kv, keys[r]))]
  BY DEF HeadCore, Rowed
<1> HIDE DEF kv
<1>3. ASSUME NEW r \in D
      PROVE  LET all == SeenOf(k, keys[r]) \cup SeenOf(v, keys[r])
                 row == Plus(Times(Cardinality(keys[r]), q[r]), Sum(kv, keys[r]))
             IN  row \in [R -> Nat] /\ all \subseteq Seen(row) /\ Seen(row) \subseteq Seen(q[r]) \cup all
  <2>1. keys[r] \in SUBSET E /\ IsFiniteSet(keys[r]) /\ q[r] \in [R -> Nat]
    <3>1. keys[r] \in SUBSET E /\ q[r] \in [R -> Nat]  BY DEF Keyed, Rowed
    <3>2. QED  BY <3>1, FS_Subset DEF Some
  <2>2. PICK c \in Nat : c = Cardinality(keys[r])  BY <2>1, FS_CardinalityType
  <2>3. PICK t \in [R -> Nat] : t = Times(c, q[r]) /\ Seen(t) \subseteq Seen(q[r])  BY <2>1, TimesIs
  <2>4. Sees(kv, keys[r], R)  BY <1>1, <2>1, SumIs
  <2>5. PICK s \in [R -> Nat] : s = Sum(kv, keys[r]) /\ Seen(s) = SeenOf(kv, keys[r])
    BY <2>4 DEF Sees
  <2>6. Plus(t, s) \in [R -> Nat] /\ Seen(Plus(t, s)) = Seen(t) \cup Seen(s)  BY PlusIs
  <2>7. SeenOf(kv, keys[r]) = SeenOf(k, keys[r]) \cup SeenOf(v, keys[r])
    BY <1>1, <2>1 DEF SeenOf
  <2>8. QED  BY <2>2, <2>3, <2>5, <2>6, <2>7
<1>4. QED  BY <1>2, <1>3 DEF Rowed

-----------------------------------------------------------------------------
(* What a layer's output reads, and a cross-attention's.                   *)
LayerSees(y, x, keys, D) ==
    \A r \in D : Seen(y[r]) = Seen(x[r]) \cup SeenOf(x, keys[r])
CrossSees(y, x, kv, keys, D) ==
    \A r \in D : Seen(y[r]) = Seen(x[r]) \cup SeenOf(kv, keys[r])

(* Self-attention reads the rows attended, and perhaps the row's own.      *)
LEMMA AttentionIs ==
    ASSUME NEW D, Some(D), NEW R, NEW x, Rowed(x, D, R), NEW w \in [Parameters -> Nat \ {0}],
           NEW keys, Keyed(keys, D, D), NEW where, Placed(where, D)
    PROVE  /\ Rowed(MultiheadAttention(x, w, keys, where), D, R)
           /\ \A r \in D :
                LET y == MultiheadAttention(x, w, keys, where)
                IN  /\ SeenOf(x, keys[r]) \subseteq Seen(y[r])
                    /\ Seen(y[r]) \subseteq Seen(x[r]) \cup SeenOf(x, keys[r])
<1>1. Positive(w.q) /\ Positive(w.k) /\ Positive(w.v) /\ Positive(w.proj)
  BY DEF Parameters, Positive
<1> DEFINE q == RopeApply(Matmul(x, w.q), where)
           k == RopeApply(Matmul(x, w.k), where)
           v == Matmul(x, w.v)
           head == HeadCore(q, k, v, keys)
<1>2. Rowed(q, D, R) /\ \A r \in D : Seen(q[r]) = Seen(x[r])
  <2>1. Rowed(Matmul(x, w.q), D, R) /\ \A r \in D : Seen(Matmul(x, w.q)[r]) = Seen(x[r])
    BY <1>1, MatmulIs
  <2>2. Rowed(q, D, R) /\ \A r \in D : Seen(q[r]) = Seen(Matmul(x, w.q)[r])  BY <2>1, RopeIs
  <2>3. QED  BY <2>1, <2>2
<1>3. Rowed(k, D, R) /\ \A r \in D : Seen(k[r]) = Seen(x[r])
  <2>1. Rowed(Matmul(x, w.k), D, R) /\ \A r \in D : Seen(Matmul(x, w.k)[r]) = Seen(x[r])
    BY <1>1, MatmulIs
  <2>2. Rowed(k, D, R) /\ \A r \in D : Seen(k[r]) = Seen(Matmul(x, w.k)[r])  BY <2>1, RopeIs
  <2>3. QED  BY <2>1, <2>2
<1>4. Rowed(v, D, R) /\ \A r \in D : Seen(v[r]) = Seen(x[r])  BY <1>1, MatmulIs
<1>5. MultiheadAttention(x, w, keys, where) = Matmul(head, w.proj)  BY DEF MultiheadAttention
<1> HIDE DEF q, k, v
<1>6. /\ Rowed(head, D, R)
      /\ \A r \in D :
            LET all == SeenOf(k, keys[r]) \cup SeenOf(v, keys[r])
            IN  all \subseteq Seen(head[r]) /\ Seen(head[r]) \subseteq Seen(q[r]) \cup all
  BY <1>2, <1>3, <1>4, HeadIs
<1>7. \A r \in D : keys[r] \subseteq D  BY DEF Keyed
<1>8. \A r \in D : SeenOf(k, keys[r]) = SeenOf(x, keys[r]) /\ SeenOf(v, keys[r]) = SeenOf(x, keys[r])
  BY <1>3, <1>4, <1>7 DEF SeenOf
<1> HIDE DEF head
<1>9. Rowed(Matmul(head, w.proj), D, R) /\ \A r \in D : Seen(Matmul(head, w.proj)[r]) = Seen(head[r])
  BY <1>1, <1>6, MatmulIs
<1>10. QED  BY <1>2, <1>5, <1>6, <1>8, <1>9

(* A transformer layer reads the row and the rows it attends.              *)
LEMMA LayerIs ==
    ASSUME NEW D, Some(D), NEW R, NEW x, Rowed(x, D, R), NEW w \in [Parameters -> Nat \ {0}],
           NEW keys, Keyed(keys, D, D), NEW where, Placed(where, D)
    PROVE  /\ Rowed(TransformerForward(x, w, keys, where), D, R)
           /\ LayerSees(TransformerForward(x, w, keys, where), x, keys, D)
<1>1. /\ Positive(w.norm1) /\ Positive(w.norm2)
      /\ Positive(w.gate) /\ Positive(w.up) /\ Positive(w.down)
  BY DEF Parameters, Positive
<1> DEFINE normed1 == RmsnormForward(x, w.norm1)
           attended == MultiheadAttention(normed1, w, keys, where)
           residual == Add(x, attended)
           normed2 == RmsnormForward(residual, w.norm2)
           gate == Matmul(normed2, w.gate)
           up == Matmul(normed2, w.up)
           act == SwigluForward(gate, up)
           ffn == Matmul(act, w.down)
<1>2. TransformerForward(x, w, keys, where) = Add(residual, ffn)
  BY DEF TransformerForward, ApplyFfn
<1>3. Rowed(normed1, D, R) /\ \A r \in D : Seen(normed1[r]) = Seen(x[r])  BY <1>1, RmsnormIs
<1> HIDE DEF normed1
<1>4. /\ Rowed(attended, D, R)
      /\ \A r \in D : /\ SeenOf(normed1, keys[r]) \subseteq Seen(attended[r])
                      /\ Seen(attended[r]) \subseteq Seen(normed1[r]) \cup SeenOf(normed1, keys[r])
  BY <1>3, AttentionIs
<1> HIDE DEF attended
<1>5. \A r \in D : SeenOf(normed1, keys[r]) = SeenOf(x, keys[r])  BY <1>3 DEF SeenOf, Keyed
<1>6. Rowed(residual, D, R) /\ \A r \in D : Seen(residual[r]) = Seen(x[r]) \cup Seen(attended[r])
  BY <1>4, AddIs
<1>7. \A r \in D : Seen(residual[r]) = Seen(x[r]) \cup SeenOf(x, keys[r])
  BY <1>3, <1>4, <1>5, <1>6
<1> HIDE DEF residual
<1>8. Rowed(normed2, D, R) /\ \A r \in D : Seen(normed2[r]) = Seen(residual[r])
  BY <1>1, <1>6, RmsnormIs
<1> HIDE DEF normed2
<1>9. Rowed(gate, D, R) /\ \A r \in D : Seen(gate[r]) = Seen(normed2[r])  BY <1>1, <1>8, MatmulIs
<1>10. Rowed(up, D, R) /\ \A r \in D : Seen(up[r]) = Seen(normed2[r])  BY <1>1, <1>8, MatmulIs
<1> HIDE DEF gate, up
<1>11. Rowed(act, D, R) /\ \A r \in D : Seen(act[r]) = Seen(gate[r]) \cup Seen(up[r])
  <2>1. act = Add(gate, up)  BY DEF SwigluForward
  <2>2. QED  BY <1>9, <1>10, <2>1, AddIs
<1> HIDE DEF act
<1>12. Rowed(ffn, D, R) /\ \A r \in D : Seen(ffn[r]) = Seen(act[r])  BY <1>1, <1>11, MatmulIs
<1> HIDE DEF ffn
<1>13. /\ Rowed(Add(residual, ffn), D, R)
       /\ \A r \in D : Seen(Add(residual, ffn)[r]) = Seen(residual[r]) \cup Seen(ffn[r])
  BY <1>6, <1>12, AddIs
<1>14. \A r \in D : Seen(Add(residual, ffn)[r]) = Seen(x[r]) \cup SeenOf(x, keys[r])
  BY <1>7, <1>8, <1>9, <1>10, <1>11, <1>12, <1>13
<1>15. QED  BY <1>2, <1>13, <1>14 DEF LayerSees

(* Cross-attention added to what queries it reads the keys it is given.    *)
LEMMA CrossIs ==
    ASSUME NEW D, NEW E, Some(E), NEW R, NEW x, Rowed(x, D, R), NEW kv, Rowed(kv, E, R),
           NEW w \in [Parameters -> Nat \ {0}], NEW keys, Keyed(keys, D, E)
    PROVE  LET y == Add(x, CrossAttention(RmsnormForward(x, w.crossNorm), kv, w, keys))
           IN  Rowed(y, D, R) /\ CrossSees(y, x, kv, keys, D)
<1>1. /\ Positive(w.crossQ) /\ Positive(w.crossK) /\ Positive(w.crossV)
      /\ Positive(w.crossProj) /\ Positive(w.crossNorm)
  BY DEF Parameters, Positive
<1> DEFINE normed == RmsnormForward(x, w.crossNorm)
           q == Matmul(normed, w.crossQ)
           k == Matmul(kv, w.crossK)
           v == Matmul(kv, w.crossV)
           head == HeadCore(q, k, v, keys)
           cross == CrossAttention(normed, kv, w, keys)
<1>2. Rowed(normed, D, R) /\ \A r \in D : Seen(normed[r]) = Seen(x[r])  BY <1>1, RmsnormIs
<1> HIDE DEF normed
<1>3. Rowed(q, D, R) /\ \A r \in D : Seen(q[r]) = Seen(normed[r])  BY <1>1, <1>2, MatmulIs
<1>4. Rowed(k, E, R) /\ \A j \in E : Seen(k[j]) = Seen(kv[j])  BY <1>1, MatmulIs
<1>5. Rowed(v, E, R) /\ \A j \in E : Seen(v[j]) = Seen(kv[j])  BY <1>1, MatmulIs
<1>6. cross = Matmul(head, w.crossProj)  BY DEF CrossAttention
<1> HIDE DEF q, k, v
<1>7. /\ Rowed(head, D, R)
      /\ \A r \in D :
            LET all == SeenOf(k, keys[r]) \cup SeenOf(v, keys[r])
            IN  all \subseteq Seen(head[r]) /\ Seen(head[r]) \subseteq Seen(q[r]) \cup all
  BY <1>3, <1>4, <1>5, HeadIs
<1>8. \A r \in D : keys[r] \subseteq E  BY DEF Keyed
<1>9. \A r \in D : SeenOf(k, keys[r]) = SeenOf(kv, keys[r]) /\ SeenOf(v, keys[r]) = SeenOf(kv, keys[r])
  BY <1>4, <1>5, <1>8 DEF SeenOf
<1> HIDE DEF head, cross
<1>10. Rowed(cross, D, R) /\ \A r \in D : Seen(cross[r]) = Seen(head[r])
  <2> DEFINE out == Matmul(head, w.crossProj)
  <2>1. Rowed(out, D, R) /\ \A r \in D : Seen(out[r]) = Seen(head[r])  BY <1>1, <1>7, MatmulIs
  <2>2. QED  BY <1>6, <2>1
<1>11. Rowed(Add(x, cross), D, R) /\ \A r \in D : Seen(Add(x, cross)[r]) = Seen(x[r]) \cup Seen(cross[r])
  BY <1>10, AddIs
<1>12. \A r \in D : Seen(Add(x, cross)[r]) = Seen(x[r]) \cup SeenOf(kv, keys[r])
  BY <1>2, <1>3, <1>7, <1>9, <1>10, <1>11
<1>13. Rowed(Add(x, cross), D, R) /\ CrossSees(Add(x, cross), x, kv, keys, D)
  BY <1>11, <1>12 DEF CrossSees
<1>14. QED  BY <1>13 DEF cross, normed

-----------------------------------------------------------------------------
(* How many of S come before s.                                            *)
Rank(S, s) == Cardinality({t \in S : t < s})

(* q lists S in order.                                                     *)
Ascends(q, S) ==
    /\ DOMAIN q = 1..Cardinality(S) /\ Cardinality(S) \in Nat
    /\ q = [k \in 1..Cardinality(S) |-> q[k]]
    /\ \A k \in DOMAIN q : q[k] \in S /\ Rank(S, q[k]) = k - 1
    /\ \A k, l \in DOMAIN q : k < l => q[k] < q[l]
    /\ \A s \in S : \E k \in DOMAIN q : q[k] = s

(* Numbers rank in their order, from 0 up.                                 *)
LEMMA RankIs ==
    ASSUME NEW S \in SUBSET Nat, IsFiniteSet(S)
    PROVE  /\ \A s \in S : Rank(S, s) \in 0..(Cardinality(S) - 1)
           /\ \A s, t \in S : s < t <=> Rank(S, s) < Rank(S, t)
           /\ \A k \in 0..(Cardinality(S) - 1) : \E s \in S : Rank(S, s) = k
<1> DEFINE Under(s) == {t \in S : t < s}
<1>1. Cardinality(S) \in Nat  BY FS_CardinalityType
<1>2. ASSUME NEW s \in S
      PROVE  /\ IsFiniteSet(Under(s)) /\ Cardinality(Under(s)) \in Nat
             /\ IsFiniteSet(Under(s) \cup {s})
             /\ Cardinality(Under(s) \cup {s}) = Cardinality(Under(s)) + 1
  <2>1. Under(s) \in SUBSET S /\ s \notin Under(s)  OBVIOUS
  <2> HIDE DEF Under
  <2>2. IsFiniteSet(Under(s)) /\ Cardinality(Under(s)) \in Nat  BY <2>1, FS_Subset, FS_CardinalityType
  <2>3. QED  BY <2>1, <2>2, FS_AddElement
<1>3. ASSUME NEW s \in S  PROVE Rank(S, s) \in 0..(Cardinality(S) - 1)
  <2>1. Under(s) \cup {s} \in SUBSET S  OBVIOUS
  <2>2. Cardinality(Under(s) \cup {s}) <= Cardinality(S)  BY <2>1, FS_Subset
  <2>3. QED  BY <1>1, <1>2, <2>2 DEF Rank
<1>4. ASSUME NEW s \in S, NEW t \in S, s < t  PROVE Rank(S, s) < Rank(S, t)
  <2>1. Under(s) \cup {s} \in SUBSET Under(t)
    <3>1. s \in Nat /\ t \in Nat  OBVIOUS
    <3>2. \A u \in S : u < s => u \in Nat /\ u < t  BY <1>4, <3>1
    <3>3. QED  BY <1>4, <3>2
  <2>2. Rank(S, s) = Cardinality(Under(s)) /\ Rank(S, t) = Cardinality(Under(t))  BY DEF Rank
  <2> HIDE DEF Under
  <2>3. Cardinality(Under(s) \cup {s}) <= Cardinality(Under(t))  BY <1>2, <2>1, FS_Subset
  <2>4. PICK a \in Nat, b \in Nat : a = Cardinality(Under(s)) /\ b = Cardinality(Under(t))  BY <1>2
  <2>5. a + 1 <= b  BY <1>2, <2>3, <2>4
  <2>6. QED  BY <2>2, <2>4, <2>5
<1>5. ASSUME NEW s \in S, NEW t \in S  PROVE s < t <=> Rank(S, s) < Rank(S, t)
  <2>1. s < t \/ s = t \/ t < s  OBVIOUS
  <2>2. Rank(S, s) \in Nat /\ Rank(S, t) \in Nat  BY <1>3
  <2>3. QED  BY <1>4, <2>1, <2>2
<1>6. ASSUME NEW k \in 0..(Cardinality(S) - 1)  PROVE \E s \in S : Rank(S, s) = k
  <2> DEFINE T == 0..(Cardinality(S) - 1)
             f == [s \in S |-> Rank(S, s)]
  <2>1. f \in [S -> T]  BY <1>3
  <2>2. \A s, t \in S : f[s] = f[t] => s = t
    <3>1. ASSUME NEW s \in S, NEW t \in S, f[s] = f[t]  PROVE s = t
      <4>1. f[s] = Rank(S, s) /\ f[t] = Rank(S, t)  OBVIOUS
      <4>2. Rank(S, s) \in Nat /\ Rank(S, t) \in Nat  BY <1>3
      <4>3. ~(s < t) /\ ~(t < s)  BY <1>5, <3>1, <4>1, <4>2
      <4>4. s \in Nat /\ t \in Nat  OBVIOUS
      <4>5. QED  BY <4>3, <4>4
    <3>2. QED  BY <3>1
  <2>3. f \in Injection(S, T)
    <3> HIDE DEF f, T
    <3>1. QED  BY <2>1, <2>2 DEF Injection, IsInjective
  <2>4. IsFiniteSet(T) /\ Cardinality(T) = Cardinality(S)
    <3>1. 0 \in Int /\ Cardinality(S) - 1 \in Int  BY <1>1
    <3>2. IsFiniteSet(T) /\ Cardinality(T) = IF 0 > Cardinality(S) - 1 THEN 0 ELSE Cardinality(S) - 1 - 0 + 1
      BY <3>1, FS_Interval
    <3>3. QED  BY <1>1, <3>2
  <2>5. f \in Surjection(S, T)
    <3> HIDE DEF f, T
    <3>1. QED  BY <2>3, <2>4, FS_Injection
  <2>6. k \in T  OBVIOUS
  <2>7. PICK s \in S : f[s] = k
    <3> HIDE DEF f, T
    <3>1. QED  BY <2>5, <2>6 DEF Surjection
  <2>8. QED  BY <2>7
<1>7. QED  BY <1>3, <1>5, <1>6

(* A finite set of numbers in order.                                       *)
LEMMA AscendingIs ==
    ASSUME NEW S \in SUBSET Nat, IsFiniteSet(S)
    PROVE  Ascends(Ascending(S), S)
<1>1. Cardinality(S) \in Nat  BY FS_CardinalityType
<1> DEFINE q == Ascending(S)
<1>2. q = [k \in 1..Cardinality(S) |-> CHOOSE s \in S : Rank(S, s) = k - 1]
  BY DEF Ascending, Rank
<1>3. DOMAIN q = 1..Cardinality(S) /\ q = [k \in 1..Cardinality(S) |-> q[k]]  BY <1>2
<1>4. ASSUME NEW k \in DOMAIN q  PROVE q[k] \in S /\ Rank(S, q[k]) = k - 1
  <2>1. k - 1 \in 0..(Cardinality(S) - 1)  BY <1>1, <1>3
  <2>2. \E s \in S : Rank(S, s) = k - 1  BY <2>1, RankIs
  <2>3. q[k] = CHOOSE s \in S : Rank(S, s) = k - 1  BY <1>2, <1>3
  <2>4. QED  BY <2>2, <2>3
<1> HIDE DEF q
<1>5. ASSUME NEW k \in DOMAIN q, NEW l \in DOMAIN q, k < l  PROVE q[k] < q[l]
  <2>1. Rank(S, q[k]) < Rank(S, q[l])  BY <1>3, <1>4, <1>5
  <2>2. QED  BY <1>4, <2>1, RankIs
<1>6. ASSUME NEW s \in S  PROVE \E k \in DOMAIN q : q[k] = s
  <2>1. Rank(S, s) \in 0..(Cardinality(S) - 1)  BY RankIs
  <2>2. PICK k \in DOMAIN q : k = Rank(S, s) + 1  BY <1>1, <1>3, <2>1
  <2>3. q[k] \in S /\ Rank(S, q[k]) = Rank(S, s)  BY <1>4, <2>1, <2>2
  <2>4. ~(q[k] < s) /\ ~(s < q[k])
    <3>1. Rank(S, s) \in Nat /\ ~(Rank(S, s) < Rank(S, q[k])) /\ ~(Rank(S, q[k]) < Rank(S, s))
      BY <2>1, <2>3
    <3>2. QED  BY <2>3, <3>1, RankIs
  <2>5. q[k] \in Nat /\ s \in Nat  BY <2>3
  <2>6. QED  BY <2>4, <2>5
<1>7. QED  BY <1>1, <1>3, <1>4, <1>5, <1>6 DEF Ascends, q

-----------------------------------------------------------------------------
(* A mask of m rows of w cells, as the set of the cells it blocks.         *)
CellsOfMask(cells, m, w) == cells \in SUBSET (0..(m * w - 1))

(* The cells of row r, one thread per cell.                                *)
LEMMA CellsOf ==
    ASSUME NEW w \in Nat \ {0}, NEW m \in Nat, NEW cells, CellsOfMask(cells, m, w),
           NEW r \in 0..(m - 1)
    PROVE  {a % w : a \in {b \in cells : b \div w = r}} = {j \in 0..(w - 1) : w * r + j \in cells}
<1>1. ASSUME NEW b \in cells, b \div w = r
      PROVE  b % w \in 0..(w - 1) /\ w * r + (b % w) \in cells
  <2>1. m * w \in Nat /\ b \in Nat  BY DEF CellsOfMask
  <2>2. (b % w) \in 0..(w - 1) /\ b = w * (b \div w) + (b % w)  BY <2>1, DivisionIs
  <2>3. QED  BY <1>1, <2>2
<1>2. ASSUME NEW j \in 0..(w - 1), w * r + j \in cells
      PROVE  \E b \in cells : b \div w = r /\ b % w = j
  <2>1. PICK b \in Nat : b = w * r + j /\ b \in cells  BY <1>2
  <2>2. r \in Int  OBVIOUS
  <2>3. b % w = j /\ (b \div w) = r  BY <2>1, <2>2, RemainderIs
  <2>4. QED  BY <2>1, <2>3
<1>3. QED  BY <1>1, <1>2

(* A cell's row and column.                                                *)
LEMMA CellIs ==
    ASSUME NEW w \in Nat \ {0}, NEW m \in Nat, NEW r \in 0..(m - 1), NEW j \in 0..(w - 1)
    PROVE  /\ w * r + j \in 0..(m * w - 1)
           /\ (w * r + j) % w = j /\ ((w * r + j) \div w) = r
<1>1. PICK b \in Nat : b = w * r + j  OBVIOUS
<1>2. r \in Int  OBVIOUS
<1>3. b % w = j /\ (b \div w) = r  BY <1>1, <1>2, RemainderIs
<1>4. b < m * w
  <2>1. w * r + w = w * (r + 1)  OBVIOUS
  <2>2. PICK t \in Nat : m = r + 1 + t
    <3>1. m - (r + 1) \in Nat /\ m = r + 1 + (m - (r + 1))  OBVIOUS
    <3>2. QED  BY <3>1
  <2>3. m * w = w * (r + 1) + t * w /\ t * w >= 0  BY <2>2
  <2>4. QED  BY <1>1, <2>1, <2>3
<1>5. m * w \in Nat  OBVIOUS
<1>6. QED  BY <1>1, <1>3, <1>4, <1>5

-----------------------------------------------------------------------------
(* The document at place r, by the boundaries before it.                   *)
Numbers(id, s, r) ==
    /\ id \in 0..Len(s)
    /\ \A a \in 1..id : r >= s[a]
    /\ id = Len(s) \/ r < s[id + 1]

(* A number that is right for the place is the one found.                  *)
LEMMA DocumentAtIs ==
    ASSUME NEW s \in Seq(Nat), NEW r \in Nat, NEW id, Numbers(id, s, r)
    PROVE  DocumentAt(s, r) = id
<1>0. PICK m \in Nat : m = Len(s) /\ DOMAIN s = 1..m /\ \A k \in 1..m : s[k] \in Nat  OBVIOUS
<1>1. {b \in DOMAIN s : \A a \in 1..b : r >= s[a]} = 1..id
  <2>1. id \in 0..m /\ (\A a \in 1..id : r >= s[a]) /\ (id = m \/ r < s[id + 1])  BY <1>0 DEF Numbers
  <2>2. ASSUME NEW b \in 1..id  PROVE b \in 1..m /\ \A a \in 1..b : r >= s[a]
    BY <2>1
  <2>3. ASSUME NEW b \in 1..m, \A a \in 1..b : r >= s[a]  PROVE b \in 1..id
    <3>1. CASE b > id
      <4>1. id + 1 \in 1..b /\ id # m /\ id + 1 \in 1..m  BY <2>1, <3>1
      <4>2. r >= s[id + 1] /\ r < s[id + 1] /\ s[id + 1] \in Nat  BY <1>0, <2>1, <2>3, <4>1
      <4>3. QED  BY <4>2
    <3>2. CASE b <= id  BY <3>2
    <3>3. b \in Int /\ id \in Int  BY <2>1
    <3>4. QED  BY <3>1, <3>2, <3>3
  <2>4. QED  BY <1>0, <2>2, <2>3
<1>2. id \in Nat  BY DEF Numbers
<1>3. Cardinality(1..id) = id
  <2>1. 1 \in Int /\ id \in Int  BY <1>2
  <2>2. Cardinality(1..id) = IF 1 > id THEN 0 ELSE id - 1 + 1  BY <2>1, FS_Interval
  <2>3. QED  BY <1>2, <2>2
<1>4. QED  BY <1>1, <1>3 DEF DocumentAt

(* There is one.                                                           *)
LEMMA DocumentAtNumbers ==
    ASSUME NEW s \in Seq(Nat), NEW r \in Nat
    PROVE  Numbers(DocumentAt(s, r), s, r)
<1> DEFINE T == {k \in 0..Len(s) : k = Len(s) \/ r < s[k + 1]}
<1>1. Len(s) \in Nat /\ Len(s) \in T  OBVIOUS
<1>2. T \in SUBSET Nat /\ T # {}  BY <1>1
<1>3. Min(T) \in T /\ \A t \in T : Min(T) <= t
  <2> HIDE DEF T
  <2>1. QED  BY <1>2, MinIsLeast
<1>4. PICK id \in T : \A t \in T : id <= t  BY <1>3
<1>5. \A a \in 1..id : r >= s[a]
  <2> TAKE a \in 1..id
  <2>1. a - 1 \in 0..Len(s) /\ a - 1 < id /\ a \in 1..Len(s)  BY <1>1, <1>4
  <2>2. a - 1 \notin T
    <3>1. PICK b \in Nat : b = a - 1 /\ b < id /\ id \in Nat  BY <1>1, <2>1
    <3> HIDE DEF T
    <3>2. b \notin T  BY <1>4, <3>1
    <3>3. QED  BY <3>1, <3>2
  <2>3. ~(r < s[a])  BY <2>1, <2>2
  <2>4. s[a] \in Nat  BY <2>1
  <2>5. QED  BY <2>3, <2>4
<1>6. Numbers(id, s, r)  BY <1>4, <1>5 DEF Numbers
<1>7. QED  BY <1>6, DocumentAtIs

(* The host's numbers, along the row, are the device's.                    *)
LEMMA DocIdsAre ==
    ASSUME NEW c, c.docs \in Nat \ {0}, NEW len \in Nat \ {0},
           c.bounds \in Seq(Nat), c.docs - 1 <= Len(c.bounds)
    PROVE  PrecomputeDocIds(c, len)
             = [r \in 0..(len - 1) |-> DocumentAt(SubSeq(c.bounds, 1, c.docs - 1), r)]
<1> DEFINE m == c.docs - 1
           s == SubSeq(c.bounds, 1, m)
           id == [r \in 0..(len - 1) |-> DocumentAt(s, r)]
           T(last, r) == {k \in last..c.docs : k + 1 >= c.docs \/ r < c.bounds[k + 1]}
           Body(f) == [r \in 0..(len - 1) |-> Min(T(IF r = 0 THEN 0 ELSE f[r - 1], r))]
<1>1. s \in Seq(Nat) /\ Len(s) = m /\ m \in Nat /\ \A k \in 1..m : s[k] = c.bounds[k]
  OBVIOUS
<1> HIDE DEF s
<1>2. PrecomputeDocIds(c, len) = CHOOSE f : f = Body(f)  BY DEF PrecomputeDocIds
<1>3. ASSUME NEW r \in 0..(len - 1), NEW last \in 0..m, \A a \in 1..last : r >= s[a]
      PROVE  Min(T(last, r)) = DocumentAt(s, r)
  <2>1. m \in T(last, r)  BY <1>1
  <2>2. T(last, r) \in SUBSET Nat /\ T(last, r) # {}  BY <2>1
  <2>3. Min(T(last, r)) \in T(last, r) /\ \A t \in T(last, r) : Min(T(last, r)) <= t
    <3> HIDE DEF T
    <3>1. QED  BY <2>2, MinIsLeast
  <2>4. PICK k \in T(last, r) : k = Min(T(last, r)) /\ \A t \in T(last, r) : k <= t  BY <2>3
  <2>5. k \in last..m /\ k \in 0..m  BY <1>1, <2>1, <2>4
  <2>6. \A a \in 1..k : r >= s[a]
    <3> TAKE a \in 1..k
    <3>1. CASE a <= last  BY <1>3, <3>1
    <3>2. CASE a > last
      <4>1. a - 1 \in last..c.docs /\ a - 1 < k /\ a \in 1..m  BY <1>1, <2>5, <3>2
      <4>2. a - 1 \notin T(last, r)
        <5>1. PICK b \in Nat : b = a - 1 /\ b < k /\ k \in Nat  BY <2>5, <4>1
        <5> HIDE DEF T
        <5>2. b \notin T(last, r)  BY <2>4, <5>1
        <5>3. QED  BY <5>1, <5>2
      <4>3. ~(r < c.bounds[a])  BY <4>1, <4>2
      <4>4. s[a] = c.bounds[a] /\ s[a] \in Nat
        <5>1. a \in 1..Len(s) /\ s[a] = c.bounds[a]  BY <1>1, <4>1
        <5>2. QED  BY <1>1, <5>1
      <4>5. QED  BY <4>3, <4>4
    <3>3. QED  BY <3>1, <3>2
  <2>7. k = m \/ r < s[k + 1]
    <3>1. CASE k # m
      <4>1. k + 1 \in 1..m /\ ~(k + 1 >= c.docs)  BY <1>1, <2>5, <3>1
      <4>2. r < c.bounds[k + 1]  BY <2>4, <4>1
      <4>3. QED  BY <1>1, <4>1, <4>2
    <3>2. QED  BY <3>1
  <2>8. Numbers(k, s, r)  BY <1>1, <2>5, <2>6, <2>7 DEF Numbers
  <2>9. r \in Nat  OBVIOUS
  <2>10. DocumentAt(s, r) = k  BY <1>1, <2>8, <2>9, DocumentAtIs
  <2>11. QED  BY <2>4, <2>10
<1> HIDE DEF T
<1>4. \A r \in 0..(len - 1) : Numbers(DocumentAt(s, r), s, r)
  BY <1>1, DocumentAtNumbers
<1>5. id = Body(id)
  <2>1. ASSUME NEW r \in 0..(len - 1)
        PROVE  DocumentAt(s, r) = Min(T(IF r = 0 THEN 0 ELSE id[r - 1], r))
    <3>1. CASE r = 0
      <4>1. 0 \in 0..m /\ \A a \in 1..0 : r >= s[a]  BY <1>1
      <4>2. Min(T(0, r)) = DocumentAt(s, r)  BY <1>3, <4>1
      <4>3. (IF r = 0 THEN 0 ELSE id[r - 1]) = 0  BY <3>1
      <4>4. QED  BY <4>2, <4>3
    <3>2. CASE r # 0
      <4>1. r - 1 \in 0..(len - 1)  BY <3>2
      <4>2. PICK last : last = DocumentAt(s, r - 1) /\ last = id[r - 1]  BY <4>1
      <4>3. last \in 0..m /\ \A a \in 1..last : r - 1 >= s[a]  BY <1>1, <1>4, <4>1, <4>2 DEF Numbers
      <4>4. \A a \in 1..last : s[a] \in Nat  BY <1>1, <4>3
      <4>5. \A a \in 1..last : r >= s[a]  BY <4>3, <4>4
      <4>6. QED  BY <1>3, <3>2, <4>2, <4>3, <4>5
    <3>3. QED  BY <3>1, <3>2
  <2> HIDE DEF T
  <2>2. id = [r \in 0..(len - 1) |-> Min(T(IF r = 0 THEN 0 ELSE id[r - 1], r))]  BY <2>1
  <2>3. QED  BY <2>2
<1>6. ASSUME NEW f, f = Body(f)  PROVE f = id
  <2>1. f = [r \in 0..(len - 1) |-> Min(T(IF r = 0 THEN 0 ELSE f[r - 1], r))]  BY <1>6
  <2>2. \A r \in 0..(len - 1) : f[r] = Min(T(IF r = 0 THEN 0 ELSE f[r - 1], r))  BY <2>1
  <2>3. \A r \in 0..(len - 1) : id[r] = Min(T(IF r = 0 THEN 0 ELSE id[r - 1], r))
    <3>1. id = [r \in 0..(len - 1) |-> Min(T(IF r = 0 THEN 0 ELSE id[r - 1], r))]  BY <1>5
    <3> HIDE DEF id
    <3>2. QED  BY <3>1
  <2> DEFINE P == {r \in 0..(len - 1) : f[r] = id[r]}
  <2> HIDE DEF id
  <2>4. 0 \in P  BY <2>2, <2>3
  <2>5. ASSUME NEW r \in 1..(len - 1), r - 1 \in P  PROVE r \in P
    <3>1. f[r - 1] = id[r - 1]  BY <2>5
    <3>2. r \in 0..(len - 1) /\ r # 0  OBVIOUS
    <3>3. QED  BY <2>2, <2>3, <3>1, <3>2
  <2>6. len - 1 \in Nat  OBVIOUS
  <2>7. \A r \in 0..(len - 1) : r \in P
    <3> HIDE DEF P
    <3>1. QED  BY <2>4, <2>5, <2>6, InductionUpTo
  <2>8. \A r \in 0..(len - 1) : f[r] = id[r]  BY <2>7
  <2>9. DOMAIN id = 0..(len - 1) /\ id = [r \in 0..(len - 1) |-> id[r]]  BY DEF id
  <2>10. QED  BY <2>1, <2>8, <2>9
<1>7. (CHOOSE f : f = Body(f)) = id
  <2> HIDE DEF Body, id
  <2>1. \E f : f = Body(f)  BY <1>5
  <2>2. PICK g : g = (CHOOSE f : f = Body(f)) /\ g = Body(g)  BY <2>1
  <2>3. QED  BY <1>6, <2>2
<1>8. QED  BY <1>2, <1>7 DEF s

-----------------------------------------------------------------------------
(* A configuration the callers give: lengths, and as many boundaries as    *)
(* there are documents after the first.                                    *)
Configured(c) ==
    /\ c.q \in Nat \ {0} /\ c.kv \in Nat \ {0}
    /\ c.docs \in Nat /\ c.bounds \in Seq(Nat)
    /\ HasDocs(c) => c.docs - 1 <= Len(c.bounds)

Boundaries(c) == IF HasDocs(c) THEN SubSeq(c.bounds, 1, c.docs - 1) ELSE <<>>
MayAttend(c, r, j) ==
    /\ Causal(c, r, j) /\ InWindow(c, r, j) /\ SameGroup(c, r, j)
    /\ DocumentAt(Boundaries(c), r) = DocumentAt(Boundaries(c), j)
Allowed(c) == [r \in 0..(c.q - 1) |-> {j \in 0..(c.kv - 1) : MayAttend(c, r, j)}]

(* Without boundaries every place is in document 0.                        *)
LEMMA NoBoundaries ==
    ASSUME NEW r
    PROVE  DocumentAt(<<>>, r) = 0
<1>1. {b \in DOMAIN <<>> : \A a \in 1..b : r >= <<>>[a]} = {}  OBVIOUS
<1>2. QED  BY <1>1, FS_EmptySet DEF DocumentAt

(* The host's mask and the device's are the same.                          *)
LEMMA MasksAgree ==
    ASSUME NEW c, Configured(c)
    PROVE  AttentionMask(c) = Allowed(c) /\ AttentionMaskCuda(c) = Allowed(c)
<1>1. c.q \in Nat \ {0} /\ c.kv \in Nat \ {0}  BY DEF Configured
<1>2. AttentionMask(c) = Allowed(c)
  <2>1. CASE HasDocs(c)
    <3>1. c.docs \in Nat \ {0} /\ c.bounds \in Seq(Nat) /\ c.docs - 1 <= Len(c.bounds)
      BY <2>1 DEF Configured, HasDocs
    <3>2. /\ PrecomputeDocIds(c, c.q) = [r \in 0..(c.q - 1) |-> DocumentAt(Boundaries(c), r)]
          /\ PrecomputeDocIds(c, c.kv) = [r \in 0..(c.kv - 1) |-> DocumentAt(Boundaries(c), r)]
      <4>1. Boundaries(c) = SubSeq(c.bounds, 1, c.docs - 1)  BY <2>1 DEF Boundaries
      <4>2. ASSUME NEW len \in Nat \ {0}
            PROVE PrecomputeDocIds(c, len) = [r \in 0..(len - 1) |-> DocumentAt(Boundaries(c), r)]
        BY <3>1, <4>1, DocIdsAre
      <4>3. QED  BY <1>1, <4>2
    <3>3. AttentionMask(c)
            = [r \in 0..(c.q - 1) |-> {j \in 0..(c.kv - 1) :
                 /\ Causal(c, r, j) /\ InWindow(c, r, j) /\ SameGroup(c, r, j)
                 /\ PrecomputeDocIds(c, c.q)[r] = PrecomputeDocIds(c, c.kv)[j]}]
      BY <2>1 DEF AttentionMask
    <3>4. QED  BY <3>2, <3>3 DEF Allowed, MayAttend
  <2>2. CASE ~HasDocs(c)
    <3>1. \A r, j : DocumentAt(Boundaries(c), r) = DocumentAt(Boundaries(c), j)
      BY <2>2, NoBoundaries DEF Boundaries
    <3>2. QED  BY <2>2, <3>1 DEF AttentionMask, Allowed, MayAttend
  <2>3. QED  BY <2>1, <2>2
<1>3. AttentionMaskCuda(c) = Allowed(c)
  <2> DEFINE last == c.q * c.kv - 1
             cells == {a \in 0..last : AttentionMaskKernel(c, Boundaries(c), a)}
  <2>1. AttentionMaskCuda(c)
          = [r \in 0..(c.q - 1) |-> {a % c.kv : a \in {b \in cells : b \div c.kv = r}}]
    BY DEF AttentionMaskCuda, Boundaries
  <2>2. ASSUME NEW r \in 0..(c.q - 1), NEW j \in 0..(c.kv - 1)
        PROVE  c.kv * r + j \in cells <=> MayAttend(c, r, j)
    <3>1. PICK a \in 0..last : a = c.kv * r + j /\ a % c.kv = j /\ (a \div c.kv) = r
      <4>1. PICK w \in Nat \ {0}, m \in Nat : w = c.kv /\ m = c.q  BY <1>1
      <4>2. r \in 0..(m - 1) /\ j \in 0..(w - 1)  BY <4>1
      <4>3. w * r + j \in 0..(m * w - 1) /\ (w * r + j) % w = j /\ ((w * r + j) \div w) = r
        BY <4>2, CellIs
      <4>4. QED  BY <4>1, <4>3
    <3>2. AttentionMaskKernel(c, Boundaries(c), a) <=>
            /\ Causal(c, r, j) /\ InWindow(c, r, j) /\ SameGroup(c, r, j)
            /\ Boundaries(c) # <<>> => DocumentAt(Boundaries(c), r) = DocumentAt(Boundaries(c), j)
      BY <3>1 DEF AttentionMaskKernel
    <3>3. Boundaries(c) = <<>> => DocumentAt(Boundaries(c), r) = DocumentAt(Boundaries(c), j)
      BY NoBoundaries
    <3>4. QED  BY <3>1, <3>2, <3>3 DEF MayAttend
  <2>3. ASSUME NEW r \in 0..(c.q - 1)
        PROVE  {a % c.kv : a \in {b \in cells : b \div c.kv = r}}
                 = {j \in 0..(c.kv - 1) : MayAttend(c, r, j)}
    <3>1. cells \in SUBSET (0..(c.q * c.kv - 1))  OBVIOUS
    <3> HIDE DEF cells
    <3>2. {a % c.kv : a \in {b \in cells : b \div c.kv = r}} = {j \in 0..(c.kv - 1) : c.kv * r + j \in cells}
      <4>1. PICK w \in Nat \ {0}, m \in Nat : w = c.kv /\ m = c.q  BY <1>1
      <4>2. r \in 0..(m - 1) /\ CellsOfMask(cells, m, w)  BY <3>1, <4>1 DEF CellsOfMask
      <4>3. {a % w : a \in {b \in cells : b \div w = r}} = {j \in 0..(w - 1) : w * r + j \in cells}
        BY <4>2, CellsOf
      <4>4. QED  BY <4>1, <4>3
    <3>3. QED  BY <2>2, <3>2
  <2> HIDE DEF cells
  <2>4. QED  BY <2>1, <2>3 DEF Allowed
<1>4. QED  BY <1>2, <1>3

-----------------------------------------------------------------------------
(* Two places have the same documents before them.                         *)
SameDocument(S, r, j) == \A b \in S : b <= r <=> b <= j

(* Boundaries in order tell documents apart.                               *)
LEMMA DocumentsApart ==
    ASSUME NEW s \in Seq(Nat), \A k, l \in DOMAIN s : k < l => s[k] < s[l],
           NEW r \in Nat, NEW j \in Nat, DocumentAt(s, r) = DocumentAt(s, j), NEW a \in DOMAIN s
    PROVE  s[a] <= r <=> s[a] <= j
<1>1. PICK m \in Nat : m = Len(s) /\ DOMAIN s = 1..m /\ \A k \in 1..m : s[k] \in Nat  OBVIOUS
<1>2. PICK id : id = DocumentAt(s, r) /\ Numbers(id, s, r) /\ Numbers(id, s, j)
  BY DocumentAtNumbers
<1>3. ASSUME NEW t \in Nat, Numbers(id, s, t)  PROVE s[a] <= t <=> a <= id
  <2>1. id \in 0..m /\ (\A b \in 1..id : t >= s[b]) /\ (id = m \/ t < s[id + 1])
    BY <1>1, <1>3 DEF Numbers
  <2>2. CASE a <= id
    <3>1. a \in 1..id /\ s[a] \in Nat  BY <1>1, <2>1, <2>2
    <3>2. QED  BY <2>1, <2>2, <3>1
  <2>3. CASE a = id + 1
    <3>1. s[a] \in Nat /\ t < s[a] /\ ~(a <= id)  BY <1>1, <2>1, <2>3
    <3>2. QED  BY <3>1
  <2>4. CASE a > id + 1
    <3>1. id + 1 \in 1..m /\ a \in 1..m /\ id + 1 < a /\ ~(a <= id)  BY <1>1, <2>1, <2>4
    <3>2. PICK u \in 1..m : u = id + 1 /\ u < a /\ u \in DOMAIN s  BY <1>1, <3>1
    <3>3. s[u] < s[a] /\ s[u] \in Nat /\ s[a] \in Nat  BY <1>1, <3>1, <3>2
    <3>4. t < s[u]  BY <2>1, <3>2
    <3>5. QED  BY <3>1, <3>3, <3>4
  <2>5. a \in Int /\ id \in Int  BY <1>1, <2>1
  <2>6. QED  BY <2>2, <2>3, <2>4, <2>5
<1>4. QED  BY <1>2, <1>3

-----------------------------------------------------------------------------
(* What a call is, and the sets its rows come from.                        *)
LEMMA CallIs ==
    ASSUME pass \in Passes
    PROVE  /\ N \in Nat \ {0} /\ B \in Nat \ {0}
           /\ EncLayers \in Nat \ {0} /\ GlobalLayers \in Nat \ {0} /\ DecLayers \in Nat \ {0}
           /\ pass.starts \in SUBSET Bytes /\ pass.docs \in SUBSET pass.starts
           /\ 0 \in pass.starts /\ (pass.docs # {} => 0 \in pass.docs)
           /\ pass.mode \in {"model", "predict", "train", "infer"}
           /\ pass.encWindow \in Nat /\ pass.decWindow \in Nat /\ pass.ngram \in Nat
           /\ pass.closed \in BOOLEAN /\ pass.learned \in BOOLEAN
<1>1. pass \in Pass /\ 0 \in pass.starts /\ pass.docs \subseteq pass.starts
      /\ (pass.docs # {} => 0 \in pass.docs)
      /\ {N, B, EncLayers, GlobalLayers, DecLayers} \subseteq Nat \ {0}
  BY SizesAssumption
<1>2. /\ pass.starts \in SUBSET Bytes
      /\ pass.mode \in {"model", "predict", "train", "infer"}
      /\ pass.encWindow \in Nat /\ pass.decWindow \in Nat /\ pass.ngram \in Nat
      /\ pass.closed \in BOOLEAN /\ pass.learned \in BOOLEAN
  BY <1>1 DEF Pass
<1>3. QED  BY <1>1, <1>2

(* The bytes of a call: numbers, finitely many, from 0.                    *)
LEMMA BytesIs == Bytes \in SUBSET Nat /\ IsFiniteSet(Bytes) /\ 0 \in Bytes
<1>1. N \in Nat \ {0}  BY SizesAssumption
<1>2. 0 \in Int /\ N - 1 \in Int  BY <1>1
<1>3. IsFiniteSet(0..(N - 1))  BY <1>2, FS_Interval
<1>4. QED  BY <1>1, <1>3 DEF Bytes

(* The patches are numbered in the order of their starts.                  *)
LEMMA StartsAre ==
    ASSUME pass \in Passes
    PROVE  /\ pass.starts \in SUBSET Nat /\ IsFiniteSet(pass.starts) /\ Some(pass.starts)
           /\ pass.docs \in SUBSET Nat /\ IsFiniteSet(pass.docs)
           /\ NumPatches \in Nat \ {0}
           /\ DOMAIN PatchAt = pass.starts
           /\ \A s \in pass.starts : PatchAt[s] = Rank(pass.starts, s) /\ PatchAt[s] \in 0..(NumPatches - 1)
           /\ \A s, t \in pass.starts : s < t <=> PatchAt[s] < PatchAt[t]
           /\ \A s, t \in pass.starts : PatchAt[s] = PatchAt[t] => s = t
           /\ \A k \in 0..(NumPatches - 1) : \E s \in pass.starts : PatchAt[s] = k
<1>1. pass.starts \in SUBSET Bytes /\ pass.docs \in SUBSET pass.starts /\ 0 \in pass.starts  BY CallIs
<1>2. pass.starts \in SUBSET Nat /\ pass.docs \in SUBSET Nat  BY <1>1, BytesIs
<1>3. IsFiniteSet(pass.starts) /\ IsFiniteSet(pass.docs)  BY <1>1, BytesIs, FS_Subset
<1>4. NumPatches \in Nat \ {0}
  <2>1. NumPatches \in Nat  BY <1>3, FS_CardinalityType DEF NumPatches
  <2>2. NumPatches # 0  BY <1>1, <1>3, FS_EmptySet DEF NumPatches
  <2>3. QED  BY <2>1, <2>2
<1>5. DOMAIN PatchAt = pass.starts /\ \A s \in pass.starts : PatchAt[s] = Rank(pass.starts, s)
  BY DEF PatchAt, Rank
<1>6. \A s \in pass.starts : PatchAt[s] \in 0..(NumPatches - 1)
  BY <1>2, <1>3, <1>5, RankIs DEF NumPatches
<1>7. \A s, t \in pass.starts : s < t <=> PatchAt[s] < PatchAt[t]
  BY <1>2, <1>3, <1>5, RankIs
<1>8. \A k \in 0..(NumPatches - 1) : \E s \in pass.starts : PatchAt[s] = k
  BY <1>2, <1>3, <1>5, RankIs DEF NumPatches
<1>9. ASSUME NEW s \in pass.starts, NEW t \in pass.starts, PatchAt[s] = PatchAt[t]  PROVE s = t
  <2>1. s \in Nat /\ t \in Nat  BY <1>2
  <2>2. PatchAt[s] \in Nat /\ PatchAt[t] \in Nat  BY <1>4, <1>6
  <2>3. CASE s < t
    <3>1. PatchAt[s] < PatchAt[t]  BY <1>7, <2>3
    <3>2. QED  BY <1>9, <2>2, <3>1
  <2>4. CASE t < s
    <3>1. PatchAt[t] < PatchAt[s]  BY <1>7, <2>4
    <3>2. QED  BY <1>9, <2>2, <3>1
  <2>5. QED  BY <2>1, <2>3, <2>4
<1>10. QED  BY <1>1, <1>2, <1>3, <1>4, <1>5, <1>6, <1>7, <1>8, <1>9 DEF Some

-----------------------------------------------------------------------------
(* The patch a place is in, and where it ends.                             *)
LEMMA PatchOfIs ==
    ASSUME pass \in Passes, NEW q \in Nat
    PROVE  /\ PatchOf(q) \in pass.starts /\ PatchOf(q) \in Nat /\ PatchOf(q) <= q
           /\ \A s \in pass.starts : s <= q => s <= PatchOf(q)
           /\ q \in pass.starts => PatchOf(q) = q
<1> DEFINE T == {s \in pass.starts : s <= q}
<1>1. pass.starts \in SUBSET Nat /\ 0 \in pass.starts  BY StartsAre, CallIs
<1>2. T # {} /\ \A t \in T : t \in Nat /\ t <= q
  <2>1. 0 \in T  BY <1>1
  <2>2. QED  BY <1>1, <2>1
<1>3. PatchOf(q) = Max(T)  BY DEF PatchOf, PatchStart
<1>4. Max(T) \in T /\ \A t \in T : t <= Max(T)
  <2> HIDE DEF T
  <2>1. QED  BY <1>2, MaxIsGreatest
<1>5. PICK m \in Nat : m = PatchOf(q) /\ m \in T /\ \A t \in T : t <= m  BY <1>2, <1>3, <1>4
<1>6. ASSUME q \in pass.starts  PROVE m = q
  <2>1. q \in T  BY <1>6
  <2>2. q <= m /\ m <= q  BY <1>2, <1>5, <2>1
  <2>3. QED  BY <2>2
<1>7. QED  BY <1>5, <1>6

(* Where the patch that starts at q ends.                                  *)
EndOf(q) == NextStart(pass.starts, N, q)

(* After q, and no start lies between.                                     *)
LEMMA NextStartIs ==
    ASSUME pass \in Passes, NEW q \in Bytes
    PROVE  /\ EndOf(q) \in pass.starts \cup {N} /\ EndOf(q) \in Nat /\ EndOf(q) <= N
           /\ q < EndOf(q)
           /\ \A t \in pass.starts \cup {N} : q < t => EndOf(q) <= t
<1> DEFINE T == {t \in pass.starts \cup {N} : t > q}
<1>1. pass.starts \in SUBSET Bytes /\ N \in Nat /\ q \in Nat /\ q < N  BY CallIs, BytesIs DEF Bytes
<1>2. T \in SUBSET Nat /\ T # {} /\ \A t \in T : t <= N
  <2>1. N \in T  BY <1>1
  <2>2. QED  BY <1>1, <2>1 DEF Bytes
<1>3. EndOf(q) = Min(T)  BY DEF EndOf, NextStart
<1>4. Min(T) \in T /\ \A t \in T : Min(T) <= t
  <2> HIDE DEF T
  <2>1. QED  BY <1>2, MinIsLeast
<1>5. PICK m \in Nat : m = EndOf(q) /\ m \in T /\ m <= N /\ \A t \in T : m <= t  BY <1>2, <1>3, <1>4
<1>6. \A t \in pass.starts \cup {N} : q < t => t \in T  BY <1>1 DEF Bytes
<1>7. QED  BY <1>1, <1>5, <1>6

(* A byte's patch ends after it, before the next patch starts.             *)
LEMMA EndOfPatch ==
    ASSUME pass \in Passes, NEW q \in Bytes
    PROVE  /\ q < EndOf(PatchOf(q))
           /\ \A t \in pass.starts \cup {N} : q < t => EndOf(PatchOf(q)) <= t
           /\ \A j \in Bytes : PatchOf(j) = PatchOf(q) <=> PatchOf(q) <= j /\ j < EndOf(PatchOf(q))
<1>1. pass.starts \in SUBSET Bytes /\ N \in Nat /\ q \in Nat /\ q < N /\ Bytes \in SUBSET Nat
  BY CallIs, BytesIs DEF Bytes
<1>2. PICK s \in pass.starts : s = PatchOf(q) /\ s \in Nat /\ s <= q
                               /\ \A t \in pass.starts : t <= q => t <= s
  BY <1>1, PatchOfIs
<1>3. s \in Bytes  BY <1>1, <1>2
<1>4. PICK e \in Nat : /\ e = EndOf(s) /\ e \in pass.starts \cup {N} /\ s < e /\ e <= N
                       /\ \A t \in pass.starts \cup {N} : s < t => e <= t
  BY <1>3, NextStartIs
<1>5. q < e
  <2>1. CASE e <= q
    <3>1. e \in pass.starts  BY <1>1, <1>4, <2>1
    <3>2. e <= s  BY <1>2, <2>1, <3>1
    <3>3. QED  BY <1>2, <1>4, <3>2
  <2>2. QED  BY <1>1, <1>4, <2>1
<1>6. \A t \in pass.starts \cup {N} : q < t => e <= t
  <2> TAKE t \in pass.starts \cup {N}
  <2>1. HAVE q < t
  <2>2. t \in Nat  BY <1>1
  <2>3. s < t  BY <1>1, <1>2, <2>1, <2>2
  <2>4. QED  BY <1>4, <2>3
<1>7. ASSUME NEW j \in Bytes  PROVE PatchOf(j) = s <=> s <= j /\ j < e
  <2>1. j \in Nat  BY <1>1
  <2>2. PICK t \in pass.starts : t = PatchOf(j) /\ t \in Nat /\ t <= j
                                 /\ \A u \in pass.starts : u <= j => u <= t
    BY <2>1, PatchOfIs
  <2>3. ASSUME t = s  PROVE s <= j /\ j < e
    <3>1. CASE e <= j
      <4>1. j < N  BY <1>1 DEF Bytes
      <4>2. e \in pass.starts  BY <1>1, <1>4, <2>1, <3>1, <4>1
      <4>3. e <= t  BY <2>2, <3>1, <4>2
      <4>4. QED  BY <1>2, <1>4, <2>3, <4>3
    <3>2. QED  BY <1>4, <2>1, <2>2, <2>3, <3>1
  <2>4. ASSUME s <= j, j < e  PROVE t = s
    <3>1. s <= t  BY <2>2, <2>4
    <3>2. CASE s < t
      <4>1. e <= t  BY <1>4, <3>2
      <4>2. QED  BY <1>4, <2>1, <2>2, <2>4, <4>1
    <3>3. QED  BY <1>2, <2>2, <3>1, <3>2
  <2>5. QED  BY <2>2, <2>3, <2>4
<1>8. QED  BY <1>2, <1>4, <1>5, <1>6, <1>7

-----------------------------------------------------------------------------
(* Rows of blocks: the block a cell is in, and its place there.            *)
CellOf(r) == (r - N) % B

LEMMA BlocksAre ==
    ASSUME pass \in Passes
    PROVE  /\ BlockStarts \in SUBSET (1..N) /\ IsFiniteSet(BlockStarts)
           /\ pass.mode = "infer" => BlockStarts = {N}
           /\ pass.mode = "train" => BlockStarts = pass.starts \ {0}
           /\ ~Diffusion => BlockStarts = {}
<1>1. pass.starts \in SUBSET Bytes /\ pass.mode \in {"model", "predict", "train", "infer"} /\ N \in Nat \ {0}
  BY CallIs
<1>2. BlockStarts \in SUBSET (1..N)  BY <1>1 DEF BlockStarts, Bytes
<1>3. 1 \in Int /\ N \in Int  BY <1>1
<1>4. IsFiniteSet(BlockStarts)  BY <1>2, <1>3, FS_Interval, FS_Subset
<1>5. QED  BY <1>1, <1>2, <1>4 DEF BlockStarts, Diffusion

(* The row of a cell has that block and that place.                        *)
LEMMA CellRowIs ==
    ASSUME NEW s \in Nat, NEW k \in 0..(B - 1)
    PROVE  /\ CellRow(s, k) \in Nat /\ CellRow(s, k) >= N
           /\ BlockOf(CellRow(s, k)) = s /\ CellOf(CellRow(s, k)) = k
<1>1. N \in Nat /\ B \in Nat \ {0}  BY SizesAssumption
<1>2. PICK m \in Nat : m = B * s + k /\ m = s * B + k  BY <1>1
<1>3. CellRow(s, k) = N + m /\ N + m - N = m  BY <1>1, <1>2 DEF CellRow
<1>4. s \in Int  OBVIOUS
<1>5. m % B = k /\ (m \div B) = s  BY <1>1, <1>2, <1>4, RemainderIs
<1>6. QED  BY <1>1, <1>2, <1>3, <1>5 DEF BlockOf, CellOf

(* Every row past the bytes is a cell of one block.                        *)
LEMMA BlockRowsAre ==
    ASSUME pass \in Passes
    PROVE  /\ \A r \in BlockRows : /\ r \in Nat /\ r >= N
                                   /\ BlockOf(r) \in BlockStarts /\ BlockOf(r) \in 1..N
                                   /\ CellOf(r) \in 0..(B - 1) /\ CellRow(BlockOf(r), CellOf(r)) = r
           /\ \A s \in BlockStarts, k \in 0..(B - 1) : CellRow(s, k) \in BlockRows
           /\ Rows \in SUBSET Nat
           /\ \A r \in Rows : r \in Bytes <=> r < N
           /\ \A r \in Rows : r \in BlockRows <=> ~(r < N)
<1>1. N \in Nat \ {0} /\ B \in Nat \ {0} /\ BlockStarts \in SUBSET (1..N) /\ Bytes = 0..(N - 1)
  BY CallIs, BlocksAre DEF Bytes
<1>2. ASSUME NEW r \in BlockRows
      PROVE  /\ r \in Nat /\ r >= N
             /\ BlockOf(r) \in BlockStarts /\ BlockOf(r) \in 1..N
             /\ CellOf(r) \in 0..(B - 1) /\ CellRow(BlockOf(r), CellOf(r)) = r
  <2>1. PICK s \in BlockStarts, k \in 0..(B - 1) : r = CellRow(s, k)  BY DEF BlockRows
  <2>2. s \in 1..N /\ s \in Nat  BY <1>1
  <2>3. QED  BY <2>1, <2>2, CellRowIs
<1>3. \A s \in BlockStarts, k \in 0..(B - 1) : CellRow(s, k) \in BlockRows  BY DEF BlockRows
<1>4. QED  BY <1>1, <1>2, <1>3 DEF Rows

-----------------------------------------------------------------------------
(* The rows of a mask are numbered without a gap, and no row twice.        *)
LEMMA RowIndexIs ==
    ASSUME pass \in Passes
    PROVE  /\ IsFiniteSet(Rows) /\ Some(Rows)
           /\ Cardinality(BlockStarts) \in Nat
           /\ Cardinality(Rows) = N + Cardinality(BlockStarts) * B
           /\ \A r \in Bytes : RowIndex(r) = r
           /\ \A r \in BlockRows : /\ RowIndex(r) = N + Rank(BlockStarts, BlockOf(r)) * B + CellOf(r)
                                   /\ RowIndex(r) \in Nat /\ RowIndex(r) >= N
                                   /\ (RowIndex(r) - N) \div B = Rank(BlockStarts, BlockOf(r))
           /\ \A r \in Rows : RowIndex(r) \in 0..(Cardinality(Rows) - 1)
           /\ \A r, c \in Rows : RowIndex(r) = RowIndex(c) => r = c
           /\ \A k \in 0..(Cardinality(Rows) - 1) : \E r \in Rows : RowIndex(r) = k
<1> DEFINE m == Cardinality(BlockStarts)
           T == 0..(N + m * B - 1)
<1>1. N \in Nat \ {0} /\ B \in Nat \ {0} /\ BlockStarts \in SUBSET (1..N) /\ Bytes = 0..(N - 1)
      /\ IsFiniteSet(BlockStarts) /\ m \in Nat /\ BlockStarts \in SUBSET Nat
  <2>1. BlockStarts \in SUBSET (1..N) /\ IsFiniteSet(BlockStarts) /\ N \in Nat \ {0} /\ B \in Nat \ {0}
    BY CallIs, BlocksAre
  <2>2. QED  BY <2>1, FS_CardinalityType DEF Bytes
<1>2. /\ \A s \in BlockStarts : Rank(BlockStarts, s) \in 0..(m - 1)
      /\ \A s, t \in BlockStarts : s < t <=> Rank(BlockStarts, s) < Rank(BlockStarts, t)
      /\ \A k \in 0..(m - 1) : \E s \in BlockStarts : Rank(BlockStarts, s) = k
  BY <1>1, RankIs
<1> HIDE DEF m
<1>3. \A r \in Bytes : RowIndex(r) = r /\ r < N  BY <1>1 DEF RowIndex
<1>4. ASSUME NEW r \in BlockRows
      PROVE  /\ RowIndex(r) = N + Rank(BlockStarts, BlockOf(r)) * B + CellOf(r)
             /\ RowIndex(r) \in Nat /\ RowIndex(r) >= N /\ RowIndex(r) \in T
             /\ (RowIndex(r) - N) \div B = Rank(BlockStarts, BlockOf(r))
             /\ (RowIndex(r) - N) % B = CellOf(r)
  <2>1. r \in Nat /\ r >= N /\ BlockOf(r) \in BlockStarts /\ CellOf(r) \in 0..(B - 1)  BY BlockRowsAre
  <2>2. RowIndex(r) = N + Rank(BlockStarts, BlockOf(r)) * B + CellOf(r)
    BY <1>1, <2>1 DEF RowIndex, Rank, CellOf
  <2>3. PICK a \in 0..(m - 1), k \in 0..(B - 1) : a = Rank(BlockStarts, BlockOf(r)) /\ k = CellOf(r)
    BY <1>2, <2>1
  <2>4. B * a + k \in 0..(m * B - 1) /\ (B * a + k) % B = k /\ ((B * a + k) \div B) = a
    BY <1>1, CellIs
  <2>5. PICK b \in Nat : b = B * a + k /\ b = a * B + k  BY <1>1
  <2>6. m * B \in Nat  BY <1>1
  <2>7. RowIndex(r) = N + b /\ b <= m * B - 1  BY <1>1, <2>2, <2>3, <2>4, <2>5, <2>6
  <2>8. RowIndex(r) - N = b /\ RowIndex(r) \in T  BY <1>1, <2>6, <2>7
  <2>9. QED  BY <1>1, <2>2, <2>3, <2>4, <2>5, <2>7, <2>8
<1>5. ASSUME NEW r \in Rows, NEW c \in Rows, RowIndex(r) = RowIndex(c)  PROVE r = c
  <2>1. CASE r \in Bytes /\ c \in Bytes  BY <1>3, <1>5, <2>1
  <2>2. CASE r \in BlockRows /\ c \in BlockRows
    <3>1. /\ BlockOf(r) \in BlockStarts /\ CellRow(BlockOf(r), CellOf(r)) = r
          /\ BlockOf(c) \in BlockStarts /\ CellRow(BlockOf(c), CellOf(c)) = c
      BY <2>2, BlockRowsAre
    <3>2. CellOf(r) = CellOf(c) /\ Rank(BlockStarts, BlockOf(r)) = Rank(BlockStarts, BlockOf(c))
      BY <1>4, <1>5, <2>2
    <3>3. PICK s \in Nat, t \in Nat : s = BlockOf(r) /\ t = BlockOf(c) /\ s \in BlockStarts /\ t \in BlockStarts
      BY <1>1, <3>1
    <3>4. PICK k \in Nat : k = Rank(BlockStarts, s) /\ k = Rank(BlockStarts, t)  BY <1>1, <1>2, <3>2, <3>3
    <3>5. CASE s < t
      <4>1. Rank(BlockStarts, s) < Rank(BlockStarts, t)  BY <1>2, <3>3, <3>5
      <4>2. QED  BY <3>4, <4>1
    <3>6. CASE t < s
      <4>1. Rank(BlockStarts, t) < Rank(BlockStarts, s)  BY <1>2, <3>3, <3>6
      <4>2. QED  BY <3>4, <4>1
    <3>7. s = t  BY <3>3, <3>5, <3>6
    <3>8. QED  BY <3>1, <3>2, <3>3, <3>7
  <2>3. CASE r \in Bytes /\ c \in BlockRows
    <3>1. RowIndex(r) < N /\ RowIndex(c) \in Nat /\ RowIndex(c) >= N  BY <1>3, <1>4, <2>3
    <3>2. QED  BY <1>1, <1>5, <3>1
  <2>4. CASE r \in BlockRows /\ c \in Bytes
    <3>1. RowIndex(c) < N /\ RowIndex(r) \in Nat /\ RowIndex(r) >= N  BY <1>3, <1>4, <2>4
    <3>2. QED  BY <1>1, <1>5, <3>1
  <2>5. QED  BY <2>1, <2>2, <2>3, <2>4 DEF Rows
<1>6. \A r \in Rows : RowIndex(r) \in T
  <2>1. ASSUME NEW r \in Bytes  PROVE RowIndex(r) \in T
    <3>1. m * B \in Nat  BY <1>1
    <3>2. QED  BY <1>1, <1>3, <3>1
  <2>2. QED  BY <1>4, <2>1 DEF Rows
<1>7. ASSUME NEW k \in T  PROVE \E r \in Rows : RowIndex(r) = k
  <2>1. CASE k < N
    <3>1. k \in Bytes  BY <1>1, <2>1
    <3>2. QED  BY <1>3, <3>1 DEF Rows
  <2>2. CASE k >= N
    <3>1. m * B \in Nat  BY <1>1
    <3>2. PICK b \in Nat : k = N + b /\ b <= m * B - 1
      <4>1. k - N \in Nat /\ k = N + (k - N) /\ k - N <= m * B - 1  BY <1>1, <2>2, <3>1
      <4>2. QED  BY <4>1
    <3>3. PICK a \in Nat, j \in 0..(B - 1) : a = (b \div B) /\ j = b % B /\ b = B * a + j
      BY <1>1, DivisionIs
    <3>4. a < m
      <4>1. CASE a >= m
        <5>1. PICK t \in Nat : a = m + t
          <6>1. a - m \in Nat /\ a = m + (a - m)  BY <1>1, <4>1
          <6>2. QED  BY <6>1
        <5>2. B * a = m * B + t * B /\ t * B >= 0  BY <1>1, <5>1
        <5>3. QED  BY <1>1, <3>1, <3>2, <3>3, <5>2
      <4>2. QED  BY <1>1, <4>1
    <3>5. PICK s \in BlockStarts : Rank(BlockStarts, s) = a  BY <1>1, <1>2, <3>4
    <3>6. PICK r \in BlockRows : r = CellRow(s, j)  BY BlockRowsAre
    <3>7. BlockOf(r) = s /\ CellOf(r) = j  BY <1>1, <3>6, CellRowIs
    <3>8. RowIndex(r) = N + a * B + j  BY <1>4, <3>5, <3>7
    <3>9. N + a * B + j = k  BY <1>1, <3>2, <3>3
    <3>10. QED  BY <3>8, <3>9 DEF Rows
  <2>3. QED  BY <1>1, <2>1, <2>2
<1>8. IsFiniteSet(Rows) /\ Cardinality(Rows) = N + m * B
  <2> DEFINE f == [r \in Rows |-> RowIndex(r)]
  <2>1. f \in [Rows -> T] /\ (\A r, c \in Rows : f[r] = f[c] => r = c) /\ \A k \in T : \E r \in Rows : f[r] = k
    <3>1. f \in [Rows -> T]  BY <1>6
    <3>2. \A r, c \in Rows : f[r] = f[c] => r = c  BY <1>5
    <3>3. \A k \in T : \E r \in Rows : f[r] = k  BY <1>7
    <3>4. QED  BY <3>1, <3>2, <3>3
  <2>2. IsFiniteSet(T) /\ Cardinality(T) = N + m * B
    <3>1. m * B \in Nat  BY <1>1
    <3>2. PICK e \in Int : e = N + m * B - 1 /\ e >= 0  BY <1>1, <3>1
    <3>3. 0 \in Int  OBVIOUS
    <3>4. IsFiniteSet(0..e) /\ Cardinality(0..e) = IF 0 > e THEN 0 ELSE e - 0 + 1  BY <3>2, <3>3, FS_Interval
    <3>5. QED  BY <1>1, <3>1, <3>2, <3>4
  <2> HIDE DEF f, T
  <2>3. f \in Injection(Rows, T) /\ f \in Surjection(Rows, T)
    BY <2>1 DEF Injection, IsInjective, Surjection
  <2>4. QED  BY <2>2, <2>3, FS_Injection
<1>9. Some(Rows)
  <2>1. 0 \in Rows  BY BytesIs DEF Rows
  <2>2. QED  BY <1>8, <2>1 DEF Some
<1>10. T = 0..(Cardinality(Rows) - 1)
  <2>1. PICK b \in Int : b = m * B  BY <1>1
  <2>2. T = 0..(N + b - 1)  BY <2>1
  <2>3. Cardinality(Rows) = N + b  BY <1>8, <2>1
  <2>4. PICK e \in Int : e = N + b - 1 /\ e = Cardinality(Rows) - 1  BY <1>1, <2>3
  <2> HIDE DEF T
  <2>5. QED  BY <2>2, <2>4
<1>11. m = Cardinality(BlockStarts)  BY DEF m
<1> HIDE DEF T
<1>12. QED  BY <1>1, <1>3, <1>4, <1>5, <1>6, <1>7, <1>8, <1>9, <1>10, <1>11

-----------------------------------------------------------------------------
(* The first places of a call's documents, in order.                       *)
Firsts(q) ==
    /\ q \in Seq(Nat) /\ (q # <<>> => q[1] = 0)
    /\ \A k, l \in DOMAIN q : k < l => q[k] < q[l]
(* The same of them come before two places.                                *)
SameSide(q, r, j) == \A a \in DOMAIN q : q[a] <= r <=> q[a] <= j

(* Places that a causal mask numbers alike have the same boundaries before *)
(* them.                                                                   *)
LEMMA CausalBoundaries ==
    ASSUME NEW len \in Nat \ {0}, NEW window \in Nat, NEW q, Firsts(q)
    PROVE  LET c == CausalMask(len, window, q)
           IN  /\ Configured(c)
               /\ \A r, j \in Nat : DocumentAt(Boundaries(c), r) = DocumentAt(Boundaries(c), j)
                                      => SameSide(q, r, j)
<1> DEFINE c == CausalMask(len, window, q)
<1>1. PICK m \in Nat : /\ m = Len(q) /\ DOMAIN q = 1..m /\ q \in Seq(Nat)
                       /\ (m = 0 <=> q = <<>>) /\ \A k \in 1..m : q[k] \in Nat
  <2>1. q \in Seq(Nat)  BY DEF Firsts
  <2>2. QED  BY <2>1
<1>2. /\ c.q = len /\ c.kv = len /\ c.docs = m /\ c.bounds = MaskDocBoundaries(q)
  BY <1>1 DEF CausalMask
<1> HIDE DEF c
<1>3. CASE m > 1
  <2>1. /\ Tail(q) \in Seq(Nat) /\ Len(Tail(q)) = m - 1 /\ DOMAIN Tail(q) = 1..(m - 1)
        /\ \A k \in 1..(m - 1) : Tail(q)[k] = q[k + 1]
    <3>1. q # <<>>  BY <1>1, <1>3
    <3>2. Tail(q) \in Seq(Nat) /\ Len(Tail(q)) = Len(q) - 1 /\ \A k \in 1..Len(Tail(q)) : Tail(q)[k] = q[k + 1]
      BY <1>1, <3>1, HeadTailProperties
    <3>3. QED  BY <1>1, <3>2
  <2>2. PICK s \in Seq(Nat) : s = Tail(q) /\ Len(s) = m - 1 /\ DOMAIN s = 1..(m - 1)
                              /\ \A k \in 1..(m - 1) : s[k] = q[k + 1]
    BY <2>1
  <2>3. c.bounds = s  BY <1>1, <1>2, <1>3, <2>2 DEF MaskDocBoundaries
  <2>4. s # <<>>
    <3>1. Len(s) # 0  BY <1>3, <2>2
    <3>2. QED  BY <3>1
  <2>5. Configured(c)  BY <1>1, <1>2, <2>2, <2>3 DEF Configured
  <2>6. Boundaries(c) = s
    <3>1. HasDocs(c)  BY <1>2, <1>3, <2>3, <2>4 DEF HasDocs
    <3>2. SubSeq(s, 1, Len(s)) = s  OBVIOUS
    <3>3. QED  BY <1>2, <2>2, <2>3, <3>1, <3>2 DEF Boundaries
  <2>7. \A k, l \in DOMAIN s : k < l => s[k] < s[l]
    <3> TAKE k, l \in DOMAIN s
    <3>1. HAVE k < l
    <3>2. k + 1 \in DOMAIN q /\ l + 1 \in DOMAIN q /\ k + 1 < l + 1  BY <1>1, <2>2, <3>1
    <3>3. q[k + 1] < q[l + 1]
      <4>1. PICK a, b \in DOMAIN q : a = k + 1 /\ b = l + 1 /\ a < b  BY <3>2
      <4>2. QED  BY <4>1 DEF Firsts
    <3>4. QED  BY <2>2, <3>3
  <2>8. ASSUME NEW r \in Nat, NEW j \in Nat, DocumentAt(s, r) = DocumentAt(s, j), NEW a \in DOMAIN q
        PROVE  q[a] <= r <=> q[a] <= j
    <3>1. CASE a = 1
      <4>1. q[a] = 0  BY <1>1, <1>3, <3>1 DEF Firsts
      <4>2. QED  BY <4>1
    <3>2. CASE a # 1
      <4>1. PICK k \in DOMAIN s : k = a - 1 /\ s[k] = q[a]
        <5>1. a - 1 \in 1..(m - 1) /\ a - 1 + 1 = a  BY <1>1, <3>2
        <5>2. PICK k \in 1..(m - 1) : k = a - 1 /\ k + 1 = a  BY <5>1
        <5>3. QED  BY <2>2, <5>2
      <4>2. s[k] <= r <=> s[k] <= j  BY <2>7, <2>8, DocumentsApart
      <4>3. QED  BY <4>1, <4>2
    <3>3. QED  BY <3>1, <3>2
  <2>9. QED  BY <2>5, <2>6, <2>8 DEF SameSide, c
<1>4. CASE m <= 1
  <2>1. c.bounds = q  BY <1>1, <1>2, <1>4 DEF MaskDocBoundaries
  <2>2. Configured(c)  BY <1>1, <1>2, <1>4, <2>1 DEF Configured
  <2>3. ASSUME NEW r \in Nat, NEW j \in Nat  PROVE SameSide(q, r, j)
    <3>1. ASSUME NEW a \in DOMAIN q  PROVE q[a] = 0
      <4>1. a = 1 /\ q # <<>>  BY <1>1, <1>4
      <4>2. QED  BY <4>1 DEF Firsts
    <3>2. QED  BY <3>1 DEF SameSide
  <2>4. QED  BY <2>2, <2>3 DEF c
<1>5. QED  BY <1>1, <1>3, <1>4

(* A causal mask is the same on the device; a row attends itself, and no   *)
(* row after it or in another document.                                    *)
LEMMA CausalMaskIs ==
    ASSUME NEW len \in Nat \ {0}, NEW window \in Nat, NEW q, Firsts(q)
    PROVE  LET c == CausalMask(len, window, q)
           IN  /\ HostIsDevice(c)
               /\ DOMAIN AttentionMask(c) = 0..(len - 1)
               /\ \A r \in 0..(len - 1) :
                    AttentionMask(c)[r] \subseteq {j \in 0..(len - 1) : j <= r /\ SameSide(q, r, j)}
<1> DEFINE c == CausalMask(len, window, q)
<1>1. /\ Configured(c)
      /\ \A r, j \in Nat : DocumentAt(Boundaries(c), r) = DocumentAt(Boundaries(c), j) => SameSide(q, r, j)
  BY CausalBoundaries
<1>2. /\ c.q = len /\ c.kv = len /\ c.causal /\ c.window = window /\ c.queryGroups = <<>>
  BY DEF CausalMask
<1> HIDE DEF c
<1>3. AttentionMask(c) = Allowed(c) /\ AttentionMaskCuda(c) = Allowed(c)  BY <1>1, MasksAgree
<1>4. Allowed(c) = [r \in 0..(len - 1) |-> {j \in 0..(len - 1) : MayAttend(c, r, j)}]
  BY <1>2 DEF Allowed
<1>5. ASSUME NEW r \in 0..(len - 1)  PROVE MayAttend(c, r, r)
  <2>1. r \in Nat  OBVIOUS
  <2>2. Distance(r, r) = 0  BY <2>1 DEF Distance
  <2>3. InWindow(c, r, r)  BY <1>2, <2>2 DEF InWindow
  <2>4. QED  BY <1>2, <2>1, <2>3 DEF MayAttend, Causal, SameGroup
<1>6. ASSUME NEW r \in 0..(len - 1), NEW j \in 0..(len - 1), MayAttend(c, r, j)
      PROVE  j <= r /\ SameSide(q, r, j)
  <2>1. r \in Nat /\ j \in Nat  OBVIOUS
  <2>2. QED  BY <1>1, <1>2, <1>6, <2>1 DEF MayAttend, Causal
<1>7. RowCheck(AttentionMask(c))
  <2>1. ASSUME NEW r \in 0..(len - 1)  PROVE r \in AttentionMask(c)[r]  BY <1>3, <1>4, <1>5
  <2>2. QED  BY <1>3, <1>4, <2>1 DEF RowCheck
<1>8. QED  BY <1>3, <1>4, <1>6, <1>7 DEF HostIsDevice, c

(* Every query's group has a key.                                          *)
Grouped(queries, keys, a, b) ==
    /\ DOMAIN queries = 0..(a - 1) /\ DOMAIN keys = 0..(b - 1)
    /\ \A r \in 0..(a - 1) : \E j \in 0..(b - 1) : queries[r] = keys[j]

(* So is a mask by groups, and it leaves no row without a key when no      *)
(* query is in a group of its own.                                         *)
LEMMA GroupMaskIs ==
    ASSUME NEW a \in Nat \ {0}, NEW b \in Nat \ {0}, NEW queries, NEW keys, Grouped(queries, keys, a, b)
    PROVE  LET c == GroupMask(queries, keys)
           IN  /\ HostIsDevice(c)
               /\ AttentionMask(c) = [r \in 0..(a - 1) |-> {j \in 0..(b - 1) : queries[r] = keys[j]}]
<1> DEFINE c == GroupMask(queries, keys)
<1>1. ASSUME NEW k \in Nat \ {0}  PROVE Cardinality(0..(k - 1)) = k
  <2>1. PICK e \in Int : e = k - 1 /\ ~(0 > e)  OBVIOUS
  <2>2. 0 \in Int  OBVIOUS
  <2>3. Cardinality(0..e) = IF 0 > e THEN 0 ELSE e - 0 + 1  BY <2>1, <2>2, FS_Interval
  <2>4. QED  BY <2>1, <2>3
<1>2. /\ c.q = a /\ c.kv = b /\ ~c.causal /\ c.window = 0 /\ c.bounds = <<>> /\ c.docs = 0
      /\ c.queryGroups = queries /\ c.kvGroups = keys
  BY <1>1 DEF GroupMask, Grouped
<1>3. queries # <<>> /\ keys # <<>>
  <2>1. DOMAIN <<>> = {}  OBVIOUS
  <2>2. 0 \in DOMAIN queries /\ 0 \in DOMAIN keys  BY DEF Grouped
  <2>3. QED  BY <2>1, <2>2
<1> HIDE DEF c
<1>4. ~HasDocs(c)  BY <1>2 DEF HasDocs
<1>5. Configured(c)  BY <1>2, <1>4 DEF Configured
<1>6. AttentionMask(c) = Allowed(c) /\ AttentionMaskCuda(c) = Allowed(c)  BY <1>5, MasksAgree
<1>7. \A r, j : MayAttend(c, r, j) <=> queries[r] = keys[j]
  <2>1. \A r, j : DocumentAt(Boundaries(c), r) = DocumentAt(Boundaries(c), j)
    BY <1>4, NoBoundaries DEF Boundaries
  <2>2. QED  BY <1>2, <1>3, <2>1 DEF MayAttend, Causal, InWindow, SameGroup
<1>8. Allowed(c) = [r \in 0..(a - 1) |-> {j \in 0..(b - 1) : queries[r] = keys[j]}]
  BY <1>2, <1>7 DEF Allowed
<1>9. RowCheck(AttentionMask(c))  BY <1>6, <1>8 DEF RowCheck, Grouped
<1>10. QED  BY <1>6, <1>8, <1>9 DEF HostIsDevice, c

-----------------------------------------------------------------------------
(* The masks of a call, by the names of the rows.                          *)
LEMMA DocStartsAre ==
    ASSUME pass \in Passes
    PROVE  /\ Firsts(DocStarts) /\ Firsts(PatchBoundaries(DocStarts))
           /\ \A r, j : SameSide(DocStarts, r, j) => SameDocument(pass.docs, r, j)
           /\ \A s, t \in pass.starts :
                SameSide(PatchBoundaries(DocStarts), PatchAt[s], PatchAt[t]) => SameDocument(pass.docs, s, t)
<1>1. pass.docs \in SUBSET Nat /\ IsFiniteSet(pass.docs) /\ pass.docs \in SUBSET pass.starts
  BY StartsAre, CallIs
<1>2. PICK m \in Nat : m = Cardinality(pass.docs)  BY <1>1, FS_CardinalityType
<1> DEFINE q == DocStarts
<1>20. /\ DOMAIN q = 1..m /\ q = [k \in 1..m |-> q[k]]
       /\ \A k \in 1..m : q[k] \in pass.docs
       /\ \A k, l \in 1..m : k < l => q[k] < q[l]
       /\ \A b \in pass.docs : \E k \in 1..m : q[k] = b
  <2>1. Ascends(DocStarts, pass.docs)  BY <1>1, AscendingIs DEF DocStarts
  <2>2. QED  BY <1>2, <2>1 DEF Ascends
<1>3. q = [k \in 1..m |-> q[k]] /\ q \in Seq(Nat)
  <2>1. q = [k \in 1..m |-> q[k]]  BY <1>20
  <2>2. \A k \in 1..m : q[k] \in Nat  BY <1>1, <1>20
  <2>3. [k \in 1..m |-> q[k]] \in Seq(Nat)  BY <2>2
  <2>4. QED  BY <2>1, <2>3
<1> HIDE DEF q
<1>4. m # 0 => q[1] = 0
  <2>1. SUFFICES ASSUME m # 0 PROVE q[1] = 0  OBVIOUS
  <2>2. 1 \in 1..m /\ q[1] \in pass.docs  BY <1>20, <2>1
  <2>3. 0 \in pass.docs  BY <2>2, CallIs
  <2>4. PICK k \in 1..m : q[k] = 0  BY <1>20, <2>3
  <2>5. CASE k = 1  BY <2>4, <2>5
  <2>6. CASE 1 < k
    <3>1. q[1] < 0 /\ q[1] \in Nat  BY <1>1, <1>20, <2>2, <2>4, <2>6
    <3>2. QED  BY <3>1
  <2>7. QED  BY <2>5, <2>6
<1>5. Firsts(q)
  <2>1. q # <<>> => m # 0  BY <1>20, <1>3
  <2>2. QED  BY <1>20, <1>3, <1>4, <2>1 DEF Firsts
<1>6. /\ \A s \in pass.starts : PatchAt[s] \in Nat
      /\ \A s, t \in pass.starts : s < t <=> PatchAt[s] < PatchAt[t]
      /\ pass.starts \in SUBSET Nat
  BY StartsAre
<1>7. \A k \in 1..m : q[k] \in pass.starts  BY <1>1, <1>20
<1> DEFINE v == PatchBoundaries(q)
<1>8. /\ v = [k \in 1..m |-> PatchAt[q[k]]] /\ DOMAIN v = 1..m
      /\ \A k \in 1..m : v[k] = PatchAt[q[k]]
  BY <1>20 DEF PatchBoundaries
<1> HIDE DEF v
<1>9. v \in Seq(Nat)
  <2>1. \A k \in 1..m : PatchAt[q[k]] \in Nat  BY <1>6, <1>7
  <2>2. [k \in 1..m |-> PatchAt[q[k]]] \in Seq(Nat)  BY <2>1
  <2>3. QED  BY <1>8, <2>2
<1>10. Firsts(v)
  <2>1. ASSUME v # <<>>  PROVE v[1] = 0
    <3>1. m # 0  BY <1>8, <1>9, <2>1
    <3>2. q[1] = 0 /\ 1 \in 1..m  BY <1>4, <3>1
    <3>3. v[1] = Rank(pass.starts, 0)  BY <1>7, <1>8, <3>2, StartsAre
    <3>4. {t \in pass.starts : t < 0} = {}
      <4>1. \A t \in pass.starts : ~(t < 0)
        <5> TAKE t \in pass.starts
        <5>1. t \in Nat  BY <1>6
        <5>2. QED  BY <5>1
      <4>2. QED  BY <4>1
    <3>5. QED  BY <3>3, <3>4, FS_EmptySet DEF Rank
  <2>2. ASSUME NEW k \in 1..m, NEW l \in 1..m, k < l  PROVE v[k] < v[l]
    <3>1. q[k] < q[l]  BY <1>20, <2>2
    <3>2. QED  BY <1>6, <1>7, <1>8, <3>1
  <2>3. QED  BY <1>8, <1>9, <2>1, <2>2 DEF Firsts
<1>11. ASSUME NEW r, NEW j, SameSide(q, r, j)  PROVE SameDocument(pass.docs, r, j)
  <2>1. ASSUME NEW b \in pass.docs  PROVE b <= r <=> b <= j
    <3>1. PICK k \in 1..m : q[k] = b  BY <1>20
    <3>2. q[k] <= r <=> q[k] <= j  BY <1>20, <1>11 DEF SameSide
    <3>3. QED  BY <3>1, <3>2
  <2>2. QED  BY <2>1 DEF SameDocument
<1>12. ASSUME NEW s \in pass.starts, NEW t \in pass.starts, SameSide(v, PatchAt[s], PatchAt[t])
       PROVE  SameDocument(pass.docs, s, t)
  <2>1. ASSUME NEW b \in pass.docs  PROVE b <= s <=> b <= t
    <3>1. PICK k \in 1..m : q[k] = b  BY <1>20
    <3>2. v[k] <= PatchAt[s] <=> v[k] <= PatchAt[t]  BY <1>8, <1>12 DEF SameSide
    <3>3. v[k] = PatchAt[b] /\ b \in pass.starts  BY <1>1, <1>8, <3>1
    <3>4. \A u \in pass.starts : PatchAt[b] <= PatchAt[u] <=> b <= u
      <4> TAKE u \in pass.starts
      <4>1. b \in Nat /\ u \in Nat /\ PatchAt[b] \in Nat /\ PatchAt[u] \in Nat  BY <1>6, <3>3
      <4>2. u < b <=> PatchAt[u] < PatchAt[b]  BY <1>6, <3>3
      <4>3. QED  BY <4>1, <4>2
    <3>5. QED  BY <3>2, <3>3, <3>4
  <2>2. QED  BY <2>1 DEF SameDocument
<1>13. QED  BY <1>5, <1>10, <1>11, <1>12 DEF q, v

-----------------------------------------------------------------------------
(* What each mask lets a row attend.                                       *)
EncoderRight(keys) ==
    /\ Keyed(keys, Bytes, Bytes)
    /\ \A r \in Bytes : keys[r] \subseteq {j \in Bytes : j <= r /\ SameDocument(pass.docs, r, j)}
GlobalRight(keys) ==
    /\ Keyed(keys, pass.starts, pass.starts)
    /\ \A s \in pass.starts :
          keys[s] \subseteq {t \in pass.starts : t <= s /\ SameDocument(pass.docs, s, t)}
PoolRight(keys) == keys = [s \in pass.starts |-> Extent(s)]
LatentRight(keys) == keys = [r \in Rows |-> {LatentOf(r)}]
BlockKeys(r) == {c \in Rows : IF c < N THEN c < BlockOf(r) ELSE BlockOf(c) = BlockOf(r)}
DecoderRight(keys) ==
    /\ Keyed(keys, Rows, Rows)
    /\ \A r \in Bytes : keys[r] \subseteq {j \in Bytes : j <= r}
    /\ ~Diffusion => \A r \in Bytes : keys[r] \subseteq {j \in Bytes : SameDocument(pass.docs, r, j)}
    /\ \A r \in BlockRows : keys[r] = BlockKeys(r)

(* The encoder's mask is right, and the device's is the host's.            *)
LEMMA EncoderKeysAre ==
    ASSUME pass \in Passes
    PROVE  EncoderRight(EncoderKeys) /\ HostIsDevice(EncoderMask)
<1>1. PICK len \in Nat \ {0}, w \in Nat : len = N /\ w = pass.encWindow /\ Bytes = 0..(len - 1)
  BY CallIs DEF Bytes
<1>2. EncoderMask = CausalMask(len, w, DocStarts)  BY <1>1 DEF EncoderMask
<1>3. Firsts(DocStarts)  BY DocStartsAre
<1>4. /\ HostIsDevice(EncoderMask) /\ DOMAIN AttentionMask(EncoderMask) = 0..(len - 1)
      /\ \A r \in 0..(len - 1) :
            AttentionMask(EncoderMask)[r] \subseteq {j \in 0..(len - 1) : j <= r /\ SameSide(DocStarts, r, j)}
  BY <1>2, <1>3, CausalMaskIs
<1>5. \A r \in Bytes : EncoderKeys[r] \subseteq {j \in Bytes : j <= r /\ SameDocument(pass.docs, r, j)}
  BY <1>1, <1>4, DocStartsAre DEF EncoderKeys
<1>6. Keyed(EncoderKeys, Bytes, Bytes)
  <2>1. EncoderKeys = [r \in Bytes |-> EncoderKeys[r]]
    BY <1>1, <1>2 DEF EncoderKeys, AttentionMask, CausalMask
  <2>2. \A r \in Bytes : EncoderKeys[r] \in SUBSET Bytes  BY <1>5
  <2>3. QED  BY <2>1, <2>2 DEF Keyed
<1>7. QED  BY <1>4, <1>5, <1>6 DEF EncoderRight

(* So is the global transformer's.                                         *)
LEMMA PatchKeysAre ==
    ASSUME pass \in Passes
    PROVE  GlobalRight(PatchKeys) /\ HostIsDevice(GlobalMask)
<1>1. PICK len \in Nat \ {0}, w \in Nat : len = NumPatches /\ w = 0  BY StartsAre
<1>2. PICK q : q = PatchBoundaries(DocStarts) /\ Firsts(q)  BY DocStartsAre
<1>3. GlobalMask = CausalMask(len, w, q)  BY <1>1, <1>2 DEF GlobalMask
<1>4. /\ HostIsDevice(GlobalMask)
      /\ \A r \in 0..(len - 1) :
            AttentionMask(GlobalMask)[r] \subseteq {j \in 0..(len - 1) : j <= r /\ SameSide(q, r, j)}
  BY <1>2, <1>3, CausalMaskIs
<1>5. PatchKeys = [s \in pass.starts |-> {t \in pass.starts : PatchAt[t] \in AttentionMask(GlobalMask)[PatchAt[s]]}]
  BY DEF PatchKeys
<1>6. ASSUME NEW s \in pass.starts, NEW t \in PatchKeys[s]
      PROVE  t \in pass.starts /\ t <= s /\ SameDocument(pass.docs, s, t)
  <2>1. t \in pass.starts /\ PatchAt[t] \in AttentionMask(GlobalMask)[PatchAt[s]]  BY <1>5
  <2>2. PatchAt[s] \in 0..(len - 1)  BY <1>1, StartsAre
  <2>3. PatchAt[t] <= PatchAt[s] /\ SameSide(q, PatchAt[s], PatchAt[t])  BY <1>4, <2>1, <2>2
  <2>4. SameDocument(pass.docs, s, t)  BY <1>2, <2>1, <2>3, DocStartsAre
  <2>5. t <= s
    <3>1. s \in Nat /\ t \in Nat /\ PatchAt[s] \in Nat /\ PatchAt[t] \in Nat  BY <1>1, <2>1, StartsAre
    <3>2. s < t <=> PatchAt[s] < PatchAt[t]  BY <2>1, StartsAre
    <3>3. QED  BY <2>3, <3>1, <3>2
  <2>6. QED  BY <2>1, <2>4, <2>5
<1>7. Keyed(PatchKeys, pass.starts, pass.starts)  BY <1>5 DEF Keyed
<1>8. QED  BY <1>4, <1>6, <1>7 DEF GlobalRight

(* So is the one by which a patch pools its bytes.                         *)
LEMMA PatchBytesAre ==
    ASSUME pass \in Passes
    PROVE  PoolRight(PatchBytes) /\ HostIsDevice(PoolMask)
<1>1. PICK a \in Nat \ {0}, b \in Nat \ {0} : a = NumPatches /\ b = N /\ Bytes = 0..(b - 1)
  BY StartsAre, CallIs DEF Bytes
<1> DEFINE queries == PatchIds
           keys == [r \in Bytes |-> PatchAt[PatchOf(r)]]
<1>2. /\ DOMAIN queries = 0..(a - 1) /\ DOMAIN keys = 0..(b - 1)
      /\ \A m \in 0..(a - 1) : queries[m] = m
      /\ \A r \in 0..(b - 1) : keys[r] = PatchAt[PatchOf(r)]
  BY <1>1 DEF PatchIds
<1>3. PoolMask = GroupMask(queries, keys)  BY DEF PoolMask
<1> HIDE DEF queries, keys
<1>4. \A m \in 0..(a - 1) : \E j \in 0..(b - 1) : queries[m] = keys[j]
  <2> TAKE m \in 0..(a - 1)
  <2>1. PICK s \in pass.starts : PatchAt[s] = m  BY <1>1, StartsAre
  <2>2. s \in 0..(b - 1) /\ s \in Nat  BY <1>1, CallIs
  <2>3. PatchOf(s) = s  BY <2>2, PatchOfIs
  <2>4. QED  BY <1>2, <2>1, <2>2, <2>3
<1>5. /\ HostIsDevice(PoolMask)
      /\ AttentionMask(PoolMask) = [r \in 0..(a - 1) |-> {j \in 0..(b - 1) : queries[r] = keys[j]}]
  <2>1. Grouped(queries, keys, a, b)  BY <1>2, <1>4 DEF Grouped
  <2>2. QED  BY <1>3, <2>1, GroupMaskIs
<1>6. ASSUME NEW s \in pass.starts  PROVE AttentionMask(PoolMask)[PatchAt[s]] = Extent(s)
  <2>1. PatchAt[s] \in 0..(a - 1)  BY <1>1, StartsAre
  <2>2. AttentionMask(PoolMask)[PatchAt[s]] = {j \in Bytes : PatchAt[s] = PatchAt[PatchOf(j)]}
    BY <1>1, <1>2, <1>5, <2>1
  <2>3. \A j \in Bytes : PatchAt[s] = PatchAt[PatchOf(j)] <=> PatchOf(j) = s
    <3> TAKE j \in Bytes
    <3>1. j \in Nat  BY BytesIs
    <3>2. PatchOf(j) \in pass.starts  BY <3>1, PatchOfIs
    <3>3. QED  BY <3>2, StartsAre
  <2>4. QED  BY <2>2, <2>3 DEF Extent
<1>7. QED  BY <1>5, <1>6 DEF PoolRight, PatchBytes

-----------------------------------------------------------------------------
(* The latent a row reads ends by the row's own byte or with the first     *)
(* patch; a block's ends where the block starts.                           *)
LEMMA LatentOfIs ==
    ASSUME pass \in Passes
    PROVE  /\ \A r \in Rows : LatentOf(r) \in pass.starts
           /\ \A r \in Bytes : EndOf(LatentOf(r)) <= r + 1 \/ LatentOf(r) = 0
           /\ \A r \in BlockRows : EndOf(LatentOf(r)) = BlockOf(r)
<1>1. N \in Nat \ {0} /\ Bytes = 0..(N - 1) /\ pass.starts \in SUBSET Bytes
  BY CallIs DEF Bytes
<1>2. ASSUME NEW r \in Bytes
      PROVE  LatentOf(r) \in pass.starts /\ (EndOf(LatentOf(r)) <= r + 1 \/ LatentOf(r) = 0)
  <2>1. r \in Nat /\ r < N /\ ~(r >= N)  BY <1>1
  <2>2. PICK s \in pass.starts : s = PatchOf(r) /\ s \in Nat /\ s <= r  BY <2>1, PatchOfIs
  <2>3. \A t \in pass.starts \cup {N} : r < t => EndOf(s) <= t  BY <2>2, EndOfPatch
  <2>4. EndOf(s) \in Nat  BY <1>1, <2>2, NextStartIs
  <2>5. CASE r + 1 \in pass.starts \/ (pass.closed /\ r = N - 1)
    <3>1. LatentOf(r) = s  BY <2>1, <2>2, <2>5 DEF LatentOf
    <3>2. r + 1 \in pass.starts \cup {N} /\ r < r + 1  BY <1>1, <2>1, <2>5
    <3>3. EndOf(s) <= r + 1  BY <2>3, <3>2
    <3>4. QED  BY <3>1, <3>3
  <2>6. CASE ~(r + 1 \in pass.starts \/ (pass.closed /\ r = N - 1)) /\ s = 0
    <3>1. LatentOf(r) = s  BY <2>1, <2>2, <2>6 DEF LatentOf
    <3>2. QED  BY <2>6, <3>1
  <2>7. CASE ~(r + 1 \in pass.starts \/ (pass.closed /\ r = N - 1)) /\ s # 0
    <3>1. LatentOf(r) = PatchOf(s - 1)  BY <2>1, <2>2, <2>7 DEF LatentOf
    <3>2. PICK q \in Bytes : q = s - 1 /\ q \in Nat /\ q < s  BY <1>1, <2>1, <2>2, <2>7
    <3>3. PatchOf(q) \in pass.starts  BY <3>2, PatchOfIs
    <3>4. EndOf(PatchOf(q)) <= s  BY <3>2, EndOfPatch
    <3>5. EndOf(PatchOf(q)) \in Nat  BY <1>1, <3>3, NextStartIs
    <3>6. EndOf(PatchOf(q)) <= r + 1  BY <2>1, <2>2, <3>4, <3>5
    <3>7. QED  BY <3>1, <3>2, <3>3, <3>6
  <2>8. QED  BY <2>5, <2>6, <2>7
<1>3. ASSUME NEW r \in BlockRows
      PROVE  LatentOf(r) \in pass.starts /\ EndOf(LatentOf(r)) = BlockOf(r)
  <2>1. r \in Nat /\ r >= N /\ ~(r < N) /\ BlockOf(r) \in BlockStarts /\ BlockOf(r) \in 1..N
    BY <1>1, BlockRowsAre
  <2>2. PICK q \in Bytes : q = BlockOf(r) - 1 /\ q \in Nat /\ q < BlockOf(r)  BY <1>1, <2>1
  <2>3. LatentOf(r) = PatchOf(q)  BY <2>1, <2>2 DEF LatentOf
  <2>4. PatchOf(q) \in pass.starts  BY <2>2, PatchOfIs
  <2>5. BlockOf(r) \in pass.starts \cup {N}
    <3>1. pass.mode \in {"model", "predict", "train", "infer"}  BY CallIs
    <3>2. QED  BY <2>1, <3>1 DEF BlockStarts
  <2>6. q < EndOf(PatchOf(q)) /\ EndOf(PatchOf(q)) <= BlockOf(r)  BY <2>2, <2>5, EndOfPatch
  <2>7. EndOf(PatchOf(q)) \in Nat  BY <1>1, <2>4, NextStartIs
  <2>8. EndOf(PatchOf(q)) = BlockOf(r)
    <3>1. PICK e \in Nat, s \in Nat : e = EndOf(PatchOf(q)) /\ s = BlockOf(r)  BY <2>1, <2>7
    <3>2. q = s - 1 /\ q < e /\ e <= s  BY <2>2, <2>6, <3>1
    <3>3. QED  BY <2>2, <3>1, <3>2
  <2>9. QED  BY <2>3, <2>4, <2>8
<1>4. QED  BY <1>2, <1>3 DEF Rows

(* So is the one by which a row cross-attends its latent.                  *)
LEMMA LatentKeysAre ==
    ASSUME pass \in Passes
    PROVE  LatentRight(LatentKeys) /\ HostIsDevice(LatentMask)
<1>1. PICK a \in Nat \ {0}, b \in Nat \ {0} : a = Cardinality(Rows) /\ b = NumPatches
  <2>1. Cardinality(Rows) \in Nat \ {0}  BY RowIndexIs, FS_CardinalityType, FS_EmptySet DEF Some
  <2>2. QED  BY <2>1, StartsAre
<1>2. /\ \A r \in Rows : RowIndex(r) \in 0..(a - 1)
      /\ \A r, c \in Rows : RowIndex(r) = RowIndex(c) => r = c
      /\ \A k \in 0..(a - 1) : \E r \in Rows : RowIndex(r) = k
  BY <1>1, RowIndexIs
<1> DEFINE row(k) == CHOOSE r \in Rows : RowIndex(r) = k
           queries == [k \in 0..(a - 1) |-> PatchAt[LatentOf(row(k))]]
           keys == PatchIds
<1>3. LatentMask = GroupMask(queries, keys)  BY <1>1 DEF LatentMask
<1>4. /\ DOMAIN queries = 0..(a - 1) /\ DOMAIN keys = 0..(b - 1) /\ \A m \in 0..(b - 1) : keys[m] = m
  BY <1>1 DEF PatchIds
<1>5. \A k \in 0..(a - 1) : queries[k] = PatchAt[LatentOf(row(k))] /\ row(k) \in Rows /\ RowIndex(row(k)) = k
  BY <1>2
<1>6. \A r \in Rows : row(RowIndex(r)) = r  BY <1>2
<1> HIDE DEF queries, keys, row
<1>7. \A k \in 0..(a - 1) : \E j \in 0..(b - 1) : queries[k] = keys[j]
  <2> TAKE k \in 0..(a - 1)
  <2>1. LatentOf(row(k)) \in pass.starts  BY <1>5, LatentOfIs
  <2>2. PatchAt[LatentOf(row(k))] \in 0..(b - 1)  BY <1>1, <2>1, StartsAre
  <2>3. QED  BY <1>4, <1>5, <2>2
<1>8. /\ HostIsDevice(LatentMask)
      /\ AttentionMask(LatentMask) = [r \in 0..(a - 1) |-> {j \in 0..(b - 1) : queries[r] = keys[j]}]
  <2>1. Grouped(queries, keys, a, b)  BY <1>4, <1>7 DEF Grouped
  <2>2. PICK x, y : x = queries /\ y = keys  OBVIOUS
  <2>3. Grouped(x, y, a, b)  BY <2>1, <2>2
  <2>4. HostIsDevice(GroupMask(x, y)) /\ AttentionMask(GroupMask(x, y)) = [r \in 0..(a - 1) |-> {j \in 0..(b - 1) : x[r] = y[j]}]
    BY <2>3, GroupMaskIs
  <2>5. QED  BY <1>3, <2>2, <2>4
<1>9. LatentKeys = [r \in Rows |-> {s \in pass.starts : PatchAt[s] \in AttentionMask(LatentMask)[RowIndex(r)]}]
  BY DEF LatentKeys
<1>10. ASSUME NEW r \in Rows
       PROVE  {s \in pass.starts : PatchAt[s] \in AttentionMask(LatentMask)[RowIndex(r)]} = {LatentOf(r)}
  <2>1. RowIndex(r) \in 0..(a - 1) /\ queries[RowIndex(r)] = PatchAt[LatentOf(r)]  BY <1>2, <1>5, <1>6
  <2>2. AttentionMask(LatentMask)[RowIndex(r)] = {j \in 0..(b - 1) : PatchAt[LatentOf(r)] = j}
    BY <1>4, <1>8, <2>1
  <2>3. LatentOf(r) \in pass.starts  BY LatentOfIs
  <2>4. \A s \in pass.starts : PatchAt[s] \in 0..(b - 1)  BY <1>1, StartsAre
  <2>5. \A s \in pass.starts : PatchAt[s] = PatchAt[LatentOf(r)] => s = LatentOf(r)  BY <2>3, StartsAre
  <2>6. QED  BY <2>2, <2>3, <2>4, <2>5
<1>11. QED  BY <1>8, <1>9, <1>10 DEF LatentRight

-----------------------------------------------------------------------------
(* The host's block-diffusion mask is the device's.                        *)
(* Who may attend whom in a block-diffusion mask.                          *)
BlockMayAttend(c, r, j) ==
    \/ r < c.clean /\ j <= r
    \/ ~(r < c.clean) /\ c.infer
    \/ ~(r < c.clean) /\ j < c.starts[((r - c.clean) \div c.block) + 1]
    \/ ~(r < c.clean) /\ j >= c.clean /\ (j - c.clean) \div c.block = (r - c.clean) \div c.block
BlockAllowed(c) == [r \in 0..(c.rows - 1) |-> {j \in 0..(c.rows - 1) : BlockMayAttend(c, r, j)}]

(* The host's mask and the device's are both that one.                     *)
LEMMA BlockMasksAgree ==
    ASSUME NEW c, c.rows \in Nat \ {0}, c.clean \in 1..c.rows, c.infer \in BOOLEAN
    PROVE  BlockDiffusionMask(c) = BlockAllowed(c) /\ BlockDiffusionMaskCuda(c) = BlockAllowed(c)
<1>1. PICK w \in Nat \ {0} : w = c.rows  OBVIOUS
<1>2. PICK e \in Nat : e = c.clean /\ e <= w  BY <1>1
<1> DEFINE block(r) == (r - c.clean) \div c.block
<1>3. BlockDiffusionMask(c) = BlockAllowed(c)
  <2> DEFINE Keys(r) ==
                 CASE r < c.clean -> 0..r
                   [] r >= c.clean /\ c.infer -> 0..(c.rows - 1)
                   [] r >= c.clean /\ ~c.infer ->
                         {j \in 0..(c.rows - 1) : \/ j < c.starts[block(r) + 1]
                                                  \/ j >= c.clean /\ block(j) = block(r)}
  <2>1. BlockDiffusionMask(c) = [r \in 0..(c.rows - 1) |-> Keys(r)]  BY DEF BlockDiffusionMask
  <2>2. ASSUME NEW r \in 0..(w - 1)
        PROVE  Keys(r) = {j \in 0..(w - 1) : BlockMayAttend(c, r, j)}
    <3>1. CASE r < e
      <4>1. Keys(r) = 0..r  BY <1>2, <3>1
      <4>2. \A j \in 0..(w - 1) : BlockMayAttend(c, r, j) <=> j <= r
        BY <1>2, <3>1 DEF BlockMayAttend
      <4>3. 0..r = {j \in 0..(w - 1) : j <= r}  OBVIOUS
      <4> HIDE DEF Keys
      <4>4. QED  BY <4>1, <4>2, <4>3
    <3>2. CASE ~(r < e) /\ c.infer
      <4>1. r >= c.clean /\ ~(r < c.clean)  BY <1>2, <3>2
      <4>2. Keys(r) = 0..(w - 1)  BY <1>1, <3>2, <4>1
      <4>3. \A j : BlockMayAttend(c, r, j)  BY <3>2, <4>1 DEF BlockMayAttend
      <4>4. QED  BY <4>2, <4>3
    <3>3. CASE ~(r < e) /\ ~c.infer
      <4>1. r >= c.clean /\ ~(r < c.clean)  BY <1>2, <3>3
      <4>2. Keys(r) = {j \in 0..(w - 1) : \/ j < c.starts[block(r) + 1]
                                          \/ j >= c.clean /\ block(j) = block(r)}
        BY <1>1, <3>3, <4>1
      <4>3. \A j : BlockMayAttend(c, r, j) <=> \/ j < c.starts[block(r) + 1]
                                               \/ j >= c.clean /\ block(j) = block(r)
        BY <3>3, <4>1 DEF BlockMayAttend
      <4> HIDE DEF Keys, block
      <4>4. QED  BY <4>2, <4>3
    <3>4. QED  BY <3>1, <3>2, <3>3
  <2> HIDE DEF Keys
  <2>3. QED  BY <1>1, <2>1, <2>2 DEF BlockAllowed
<1>4. BlockDiffusionMaskCuda(c) = BlockAllowed(c)
  <2> DEFINE cells == {a \in 0..(w * w - 1) : BlockDiffusionMaskKernel(c, a)}
  <2>1. BlockDiffusionMaskCuda(c)
          = [r \in 0..(w - 1) |-> {a % w : a \in {b \in cells : b \div w = r}}]
    BY <1>1 DEF BlockDiffusionMaskCuda
  <2>2. ASSUME NEW r \in 0..(w - 1), NEW j \in 0..(w - 1)
        PROVE  w * r + j \in cells <=> BlockMayAttend(c, r, j)
    <3>1. /\ w * r + j \in 0..(w * w - 1)
          /\ (w * r + j) % w = j /\ ((w * r + j) \div w) = r
      BY CellIs
    <3>2. PICK a \in 0..(w * w - 1) : a = w * r + j /\ a % w = j /\ (a \div w) = r  BY <3>1
    <3>3. BlockDiffusionMaskKernel(c, a) <=>
            IF r < c.clean THEN j < c.clean /\ j <= r
            ELSE \/ c.infer
                 \/ j < c.starts[block(r) + 1]
                 \/ j >= c.clean /\ block(j) = block(r)
      BY <1>1, <3>2 DEF BlockDiffusionMaskKernel
    <3>4. r < c.clean /\ j <= r => j < c.clean  BY <1>2
    <3>5. a \in cells <=> BlockDiffusionMaskKernel(c, a)  BY <3>2
    <3>6. QED  BY <3>2, <3>3, <3>4, <3>5 DEF BlockMayAttend
  <2>3. ASSUME NEW r \in 0..(w - 1)
        PROVE  {a % w : a \in {b \in cells : b \div w = r}} = {j \in 0..(w - 1) : BlockMayAttend(c, r, j)}
    <3>1. CellsOfMask(cells, w, w)  BY DEF CellsOfMask
    <3> HIDE DEF cells
    <3>2. {a % w : a \in {b \in cells : b \div w = r}} = {j \in 0..(w - 1) : w * r + j \in cells}
      BY <3>1, CellsOf
    <3>3. QED  BY <2>2, <3>2
  <2> HIDE DEF cells
  <2>4. QED  BY <1>1, <2>1, <2>3 DEF BlockAllowed
<1>5. QED  BY <1>3, <1>4

-----------------------------------------------------------------------------
(* The configuration a pass gives it.                                      *)
LEMMA DiffusionMaskIs ==
    ASSUME pass \in Passes, Diffusion
    PROVE  LET c == DiffusionMask
           IN  /\ c.rows = Cardinality(Rows) /\ c.rows \in Nat \ {0} /\ c.clean = N /\ c.block = B
               /\ c.clean \in 1..c.rows /\ c.infer \in BOOLEAN /\ c.infer = (pass.mode = "infer")
               /\ ~c.infer => Ascends(c.starts, BlockStarts)
               /\ BlockDiffusionAccepts(c)
<1> DEFINE c == DiffusionMask
<1>1. N \in Nat \ {0} /\ B \in Nat \ {0} /\ pass.mode \in {"model", "predict", "train", "infer"}
  BY CallIs
<1>2. PICK m \in Nat, b \in Nat : /\ m = Cardinality(BlockStarts) /\ b = m * B /\ b = B * m + 0
                                  /\ Cardinality(Rows) = N + b
  <2>1. PICK m \in Nat : m = Cardinality(BlockStarts) /\ Cardinality(Rows) = N + m * B  BY RowIndexIs
  <2>2. PICK b \in Nat : b = m * B /\ b = B * m + 0  BY <1>1
  <2>3. QED  BY <2>1, <2>2
<1>3. /\ c.rows = N + b /\ c.clean = N /\ c.block = B /\ c.infer = (pass.mode = "infer")
      /\ c.rows = Cardinality(Rows)
      /\ ~c.infer => c.starts = Ascending(BlockStarts)
  BY <1>2 DEF DiffusionMask
<1>4. ~c.infer => Ascends(c.starts, BlockStarts)
  <2>1. BlockStarts \in SUBSET Nat /\ IsFiniteSet(BlockStarts)  BY <1>1, BlocksAre
  <2>2. QED  BY <1>3, <2>1, AscendingIs
<1>5. BlockDiffusionAccepts(c)
  <2>1. c.clean \in 1..c.rows  BY <1>1, <1>2, <1>3
  <2>2. b % B = 0 /\ (b \div B) = m
    <3>1. 0 \in 0..(B - 1) /\ m \in Int  BY <1>1
    <3>2. QED  BY <1>1, <1>2, <3>1, RemainderIs
  <2>3. c.rows - c.clean = b  BY <1>1, <1>3
  <2>4. ASSUME ~c.infer
        PROVE  /\ Len(c.starts) = m
               /\ \A k \in DOMAIN c.starts : c.starts[k] < c.clean
    <3>1. PICK q : q = c.starts /\ DOMAIN q = 1..m /\ q = [k \in 1..m |-> q[k]] /\ \A k \in 1..m : q[k] \in BlockStarts
      BY <1>2, <1>4, <2>4 DEF Ascends
    <3>2. pass.mode = "train"  BY <1>1, <1>3, <2>4 DEF Diffusion
    <3>3. BlockStarts \subseteq Bytes  BY <3>2, BlocksAre, CallIs
    <3>4. Len([k \in 1..m |-> q[k]]) = m  BY <3>1
    <3> HIDE DEF c
    <3>5. \A k \in 1..m : q[k] < N
      <4>1. \A x \in Bytes : x < N  BY <1>1 DEF Bytes
      <4>2. \A k \in 1..m : q[k] \in Bytes  BY <3>1, <3>3
      <4>3. QED  BY <4>1, <4>2
    <3>6. QED  BY <1>3, <3>1, <3>4, <3>5
  <2> HIDE DEF c
  <2>5. QED  BY <1>3, <2>1, <2>2, <2>3, <2>4 DEF BlockDiffusionAccepts
<1>6. c.rows \in Nat \ {0} /\ c.clean \in 1..c.rows /\ c.infer \in BOOLEAN  BY <1>1, <1>2, <1>3
<1>7. QED  BY <1>3, <1>4, <1>5, <1>6

(* So is the decoder's, causal or block-diffusion.                         *)
LEMMA DecoderKeysAre ==
    ASSUME pass \in Passes
    PROVE  /\ DecoderRight(DecoderKeys) /\ HostIsDevice(DecoderMask)
           /\ Diffusion => /\ BlockDiffusionAccepts(DiffusionMask)
                           /\ BlockDiffusionMaskCuda(DiffusionMask) = BlockDiffusionMask(DiffusionMask)
<1>1. PICK len \in Nat \ {0}, w \in Nat : len = N /\ w = pass.decWindow /\ Bytes = 0..(len - 1)
  BY CallIs DEF Bytes
<1>2. DecoderMask = CausalMask(len, w, DocStarts)  BY <1>1 DEF DecoderMask
<1>3. /\ HostIsDevice(DecoderMask)
      /\ \A r \in 0..(len - 1) :
            AttentionMask(DecoderMask)[r] \subseteq {j \in 0..(len - 1) : j <= r /\ SameSide(DocStarts, r, j)}
  BY <1>2, DocStartsAre, CausalMaskIs
<1>4. CASE ~Diffusion
  <2>1. DecoderKeys = [r \in Rows |-> {c \in Rows : RowIndex(c) \in AttentionMask(DecoderMask)[RowIndex(r)]}]
    BY <1>4 DEF DecoderKeys
  <2>2. BlockRows = {} /\ Rows = Bytes  BY <1>4, BlocksAre DEF BlockRows, Rows
  <2>3. \A r \in Bytes : RowIndex(r) = r  BY RowIndexIs
  <2>4. \A r \in Bytes : DecoderKeys[r] \subseteq {j \in Bytes : j <= r /\ SameDocument(pass.docs, r, j)}
    BY <1>1, <1>3, <2>1, <2>2, <2>3, DocStartsAre
  <2>5. Keyed(DecoderKeys, Rows, Rows)  BY <2>1 DEF Keyed
  <2>6. QED  BY <1>3, <1>4, <2>2, <2>4, <2>5 DEF DecoderRight
<1>5. CASE Diffusion
  <2> DEFINE c == DiffusionMask
  <2>1. /\ c.rows = Cardinality(Rows) /\ c.rows \in Nat \ {0} /\ c.clean = N /\ c.block = B
        /\ c.clean \in 1..c.rows /\ c.infer \in BOOLEAN /\ c.infer = (pass.mode = "infer")
        /\ ~c.infer => Ascends(c.starts, BlockStarts)
        /\ BlockDiffusionAccepts(c)
    BY <1>5, DiffusionMaskIs
  <2>2. DecoderKeys = [r \in Rows |-> {e \in Rows : RowIndex(e) \in BlockDiffusionMask(c)[RowIndex(r)]}]
    BY <1>5 DEF DecoderKeys
  <2> HIDE DEF c
  <2>3. BlockDiffusionMask(c) = BlockAllowed(c) /\ BlockDiffusionMaskCuda(c) = BlockAllowed(c)
    BY <2>1, BlockMasksAgree
  <2>4. ASSUME NEW r \in Rows, NEW e \in Rows
        PROVE  e \in DecoderKeys[r] <=> BlockMayAttend(c, RowIndex(r), RowIndex(e))
    <3>1. RowIndex(r) \in 0..(c.rows - 1) /\ RowIndex(e) \in 0..(c.rows - 1)  BY <2>1, RowIndexIs
    <3>2. QED  BY <2>2, <2>3, <3>1 DEF BlockAllowed
  <2>5. N \in Nat \ {0} /\ Bytes \in SUBSET Nat /\ \A r \in Bytes : r < N /\ RowIndex(r) = r /\ r \in Rows
    BY CallIs, BytesIs, RowIndexIs DEF Bytes, Rows
  <2>6. ASSUME NEW r \in BlockRows
        PROVE  /\ RowIndex(r) \in Nat /\ RowIndex(r) >= N /\ ~(r < N) /\ r \in Rows
               /\ ~(RowIndex(r) < N)
               /\ ((RowIndex(r) - c.clean) \div c.block) = Rank(BlockStarts, BlockOf(r))
    <3>1. /\ RowIndex(r) \in Nat /\ RowIndex(r) >= N
          /\ (RowIndex(r) - N) \div B = Rank(BlockStarts, BlockOf(r))
      BY RowIndexIs
    <3>2. r \in Rows /\ ~(r < N)  BY BlockRowsAre DEF Rows
    <3>3. QED  BY <2>1, <2>5, <3>1, <3>2
  <2>7. ASSUME NEW r \in Bytes, NEW e \in DecoderKeys[r]  PROVE e \in Bytes /\ e <= r
    <3>1. e \in Rows /\ r \in Rows  BY <2>2, <2>5
    <3>2. BlockMayAttend(c, r, RowIndex(e))  BY <2>4, <2>5, <3>1
    <3>3. RowIndex(e) <= r  BY <2>1, <2>5, <3>2 DEF BlockMayAttend
    <3>4. CASE e \in Bytes  BY <2>5, <3>3, <3>4
    <3>5. CASE e \in BlockRows
      <4>1. RowIndex(e) \in Nat /\ RowIndex(e) >= N /\ r < N /\ r \in Nat  BY <2>5, <2>6, <3>5
      <4>2. QED  BY <2>5, <3>3, <4>1
    <3>6. QED  BY <3>1, <3>4, <3>5 DEF Rows
  <2>8. ASSUME NEW r \in BlockRows  PROVE DecoderKeys[r] = BlockKeys(r)
    <3>1. r \in Rows /\ ~(RowIndex(r) < c.clean) /\ BlockOf(r) \in BlockStarts /\ BlockOf(r) \in 1..N
      BY <2>1, <2>6, BlockRowsAre
    <3>2. ASSUME NEW e \in Rows
          PROVE  BlockMayAttend(c, RowIndex(r), RowIndex(e)) <=>
                   IF e < N THEN e < BlockOf(r) ELSE BlockOf(e) = BlockOf(r)
      <4>1. CASE c.infer
        <5>1. BlockStarts = {N}  BY <2>1, <4>1, BlocksAre
        <5>2. BlockOf(r) = N  BY <3>1, <5>1
        <5>3. ~(e < N) => BlockOf(e) = N  BY <5>1, BlockRowsAre
        <5>4. QED  BY <3>1, <4>1, <5>2, <5>3 DEF BlockMayAttend
      <4>2. CASE ~c.infer
        <5>1. PICK k \in Nat : k = Rank(BlockStarts, BlockOf(r)) /\ c.starts[k + 1] = BlockOf(r)
          <6>1. /\ DOMAIN c.starts = 1..Cardinality(BlockStarts) /\ Cardinality(BlockStarts) \in Nat
                /\ \A j \in DOMAIN c.starts : c.starts[j] \in BlockStarts /\ Rank(BlockStarts, c.starts[j]) = j - 1
                /\ \A s \in BlockStarts : \E j \in DOMAIN c.starts : c.starts[j] = s
            BY <2>1, <4>2 DEF Ascends
          <6>2. PICK j \in DOMAIN c.starts : c.starts[j] = BlockOf(r)  BY <3>1, <6>1
          <6>3. j \in 1..Cardinality(BlockStarts) /\ Rank(BlockStarts, BlockOf(r)) = j - 1  BY <6>1, <6>2
          <6>4. j - 1 \in Nat /\ (j - 1) + 1 = j  BY <6>1, <6>3
          <6>5. QED  BY <6>2, <6>3, <6>4
        <5>2. BlockMayAttend(c, RowIndex(r), RowIndex(e)) <=>
                 \/ RowIndex(e) < BlockOf(r)
                 \/ RowIndex(e) >= N /\ ((RowIndex(e) - c.clean) \div c.block) = k
          BY <2>1, <2>6, <3>1, <4>2, <5>1 DEF BlockMayAttend
        <5>3. CASE e < N
          <6>1. e \in Bytes /\ RowIndex(e) = e /\ e \in Nat  BY <2>5, <5>3, BlockRowsAre
          <6>2. ~(e >= N)  BY <2>5, <5>3, <6>1
          <6>3. QED  BY <5>2, <5>3, <6>1, <6>2
        <5>4. CASE ~(e < N)
          <6>1. e \in BlockRows  BY <5>4, BlockRowsAre
          <6>2. /\ RowIndex(e) \in Nat /\ RowIndex(e) >= N
                /\ ((RowIndex(e) - c.clean) \div c.block) = Rank(BlockStarts, BlockOf(e))
                /\ BlockOf(e) \in BlockStarts
            BY <2>6, <6>1, BlockRowsAre
          <6>3. ~(RowIndex(e) < BlockOf(r))  BY <2>5, <3>1, <6>2
          <6>4. Rank(BlockStarts, BlockOf(e)) = Rank(BlockStarts, BlockOf(r)) <=> BlockOf(e) = BlockOf(r)
            <7>1. BlockStarts \in SUBSET Nat /\ IsFiniteSet(BlockStarts)  BY <2>5, BlocksAre
            <7>2. PICK s \in BlockStarts, t \in BlockStarts : s = BlockOf(e) /\ t = BlockOf(r)  BY <3>1, <6>2
            <7>3. s \in Nat /\ t \in Nat  BY <7>1
            <7>4. (s < t <=> Rank(BlockStarts, s) < Rank(BlockStarts, t))
                  /\ (t < s <=> Rank(BlockStarts, t) < Rank(BlockStarts, s))
                  /\ Rank(BlockStarts, s) \in Int /\ Rank(BlockStarts, t) \in Int
              BY <7>1, RankIs
            <7>5. QED  BY <7>2, <7>3, <7>4
          <6>5. QED  BY <5>1, <5>2, <5>4, <6>2, <6>3, <6>4
        <5>5. QED  BY <5>3, <5>4
      <4>3. QED  BY <4>1, <4>2
    <3>3. QED  BY <2>2, <2>4, <3>1, <3>2 DEF BlockKeys
  <2>9. Keyed(DecoderKeys, Rows, Rows)  BY <2>2 DEF Keyed
  <2>10. QED  BY <1>3, <1>5, <2>1, <2>3, <2>7, <2>8, <2>9 DEF DecoderRight, c
<1>6. QED  BY <1>4, <1>5

-----------------------------------------------------------------------------
(***************************************************************************)
(* What each row may read.  A byte state: the bytes of its document up to  *)
(* itself.  A patch: the bytes of its document up to its own end.  A clean *)
(* row of the decoder: the bytes up to itself or to the end of the first   *)
(* patch.  A cell: the bytes before its block, and the cells of its block. *)
(***************************************************************************)
History == [r \in Bytes |-> {j \in Bytes : j <= r /\ SameDocument(pass.docs, r, j)}]
PatchHistory == [s \in pass.starts |-> {j \in Bytes : j < EndOf(s) /\ SameDocument(pass.docs, s, j)}]
CellContext(r) ==
    {a \in Rows : IF a < N THEN a < BlockOf(r) ELSE pass.learned /\ BlockOf(a) = BlockOf(r)}
Context ==
    [r \in Rows |-> IF r < N THEN {j \in Bytes : j <= r \/ j < EndOf(0)} ELSE CellContext(r)]
Document == [r \in Bytes |-> {j \in Bytes : SameDocument(pass.docs, r, j)}]

(* No row reads what the rows it attends may read and it may not.          *)
Within(x, D, ctx) == \A r \in D : Seen(x[r]) \subseteq ctx[r]
Transitive(keys, D, ctx) == \A r \in D : \A c \in keys[r] : ctx[c] \subseteq ctx[r]
OwnSeen(x, D) == \A r \in D : r \in Seen(x[r])

-----------------------------------------------------------------------------
(* The invariant.                                                          *)
MasksRight ==
    /\ EncoderRight(attends.encoder) /\ PoolRight(attends.pool) /\ GlobalRight(attends.global)
    /\ DecoderRight(attends.decoder) /\ LatentRight(attends.latent)
Layers ==
    /\ loop \in {"embed", "d0"} => layer = 0
    /\ loop = "encode" => layer \in 0..(EncLayers - 1)
    /\ loop = "global" => layer \in 0..(GlobalLayers - 1)
    /\ loop = "decode" => layer \in 0..(DecLayers - 1)
ByteReads == Rowed(h, Bytes, Rows) /\ OwnSeen(h, Bytes) /\ Within(h, Bytes, History)
PatchReads(x) == Rowed(x, pass.starts, Rows) /\ Within(x, pass.starts, PatchHistory)
DecoderReads(x) ==
    /\ Rowed(x, Rows, Rows) /\ Within(x, Rows, Context) /\ OwnSeen(x, Bytes)
    /\ pass.learned => OwnSeen(x, BlockRows)
    /\ pass.decCross = "NONE" /\ ~Diffusion => Within(x, Bytes, Document)
BlocksFull(x) == \A r \in BlockRows : Seen(x[r]) = CellContext(r)
PassInv ==
    /\ pass \in Passes /\ Layers /\ PatchReads(o)
    /\ loop # "embed" => MasksRight /\ ByteReads /\ PatchReads(p)
    /\ loop \notin {"embed", "encode", "global", "d0"} => DecoderReads(d)
    /\ loop \notin {"embed", "encode", "global", "d0"} /\ (loop = "decode" => layer > 0) => BlocksFull(d)

-----------------------------------------------------------------------------
(* A layer keeps what its rows may read, when its mask is transitive.      *)
LEMMA LayerKeeps ==
    ASSUME NEW D, NEW x, NEW y, NEW keys, Keyed(keys, D, D), NEW ctx, LayerSees(y, x, keys, D),
           Within(x, D, ctx), Transitive(keys, D, ctx)
    PROVE  Within(y, D, ctx)
<1>1. ASSUME NEW r \in D  PROVE Seen(y[r]) \subseteq ctx[r]
  <2>1. Seen(y[r]) = Seen(x[r]) \cup SeenOf(x, keys[r])  BY DEF LayerSees
  <2>2. Seen(x[r]) \subseteq ctx[r]  BY DEF Within
  <2>3. ASSUME NEW c \in keys[r]  PROVE Seen(x[c]) \subseteq ctx[r]
    <3>1. c \in D  BY DEF Keyed
    <3>2. Seen(x[c]) \subseteq ctx[c] /\ ctx[c] \subseteq ctx[r]  BY <3>1 DEF Within, Transitive
    <3>3. QED  BY <3>2
  <2>4. SeenOf(x, keys[r]) \subseteq ctx[r]  BY <2>3 DEF SeenOf
  <2>5. QED  BY <2>1, <2>2, <2>4
<1>2. QED  BY <1>1 DEF Within

(* A row goes on reading its own input.                                    *)
LEMMA LayerKeepsOwn ==
    ASSUME NEW D, NEW E \in SUBSET D, NEW x, NEW y, NEW keys, LayerSees(y, x, keys, D), OwnSeen(x, E)
    PROVE  OwnSeen(y, E)
BY DEF LayerSees, OwnSeen

(* Being in one document is transitive.                                    *)
LEMMA SameDocumentIsTransitive ==
    ASSUME NEW S, NEW r, NEW c, NEW j, SameDocument(S, r, c), SameDocument(S, c, j)
    PROVE  SameDocument(S, r, j)
BY DEF SameDocument

(* The encoder's mask is transitive, and so is the global transformer's.   *)
LEMMA EncoderTransitive ==
    ASSUME pass \in Passes, NEW keys, EncoderRight(keys)
    PROVE  Transitive(keys, Bytes, History)
<1>1. ASSUME NEW r \in Bytes, NEW c \in keys[r], NEW j \in History[c]  PROVE j \in History[r]
  <2>1. c \in Bytes /\ c <= r /\ SameDocument(pass.docs, r, c)  BY DEF EncoderRight
  <2>2. j \in Bytes /\ j <= c /\ SameDocument(pass.docs, c, j)  BY <2>1 DEF History
  <2>3. r \in Nat /\ c \in Nat /\ j \in Nat  BY <2>1, <2>2, BytesIs
  <2>4. j <= r /\ SameDocument(pass.docs, r, j)  BY <2>1, <2>2, <2>3, SameDocumentIsTransitive
  <2>5. QED  BY <2>2, <2>4 DEF History
<1>2. QED  BY <1>1 DEF Transitive

LEMMA GlobalTransitive ==
    ASSUME pass \in Passes, NEW keys, GlobalRight(keys)
    PROVE  Transitive(keys, pass.starts, PatchHistory)
<1>1. ASSUME NEW s \in pass.starts, NEW t \in keys[s], NEW j \in PatchHistory[t]
      PROVE  j \in PatchHistory[s]
  <2>1. t \in pass.starts /\ t <= s /\ SameDocument(pass.docs, s, t)  BY DEF GlobalRight
  <2>2. j \in Bytes /\ j < EndOf(t) /\ SameDocument(pass.docs, t, j)  BY <2>1 DEF PatchHistory
  <2>3. s \in Bytes /\ t \in Bytes /\ s \in Nat /\ t \in Nat /\ j \in Nat  BY <2>1, <2>2, CallIs, BytesIs
  <2>4. EndOf(s) \in pass.starts \cup {N} /\ EndOf(s) \in Nat /\ s < EndOf(s)  BY <2>3, NextStartIs
  <2>5. t < EndOf(s)  BY <2>1, <2>3, <2>4
  <2>6. EndOf(t) <= EndOf(s) /\ EndOf(t) \in Nat  BY <2>3, <2>4, <2>5, NextStartIs
  <2>7. j < EndOf(s)  BY <2>2, <2>3, <2>4, <2>6
  <2>8. SameDocument(pass.docs, s, j)  BY <2>1, <2>2, SameDocumentIsTransitive
  <2>9. QED  BY <2>2, <2>7, <2>8 DEF PatchHistory
<1>2. QED  BY <1>1 DEF Transitive

(* A patch may read what its bytes may.                                    *)
LEMMA ExtentHistory ==
    ASSUME pass \in Passes, NEW s \in pass.starts, NEW c \in Extent(s)
    PROVE  c \in Bytes /\ History[c] \subseteq PatchHistory[s]
<1>1. c \in Bytes /\ PatchOf(c) = s /\ c \in Nat  BY BytesIs DEF Extent
<1>2. s <= c /\ c < EndOf(s)
  <2>1. s <= c  BY <1>1, PatchOfIs
  <2>2. QED  BY <1>1, <2>1, EndOfPatch
<1>3. s \in Nat /\ s \in Bytes /\ EndOf(s) \in Nat  BY CallIs, BytesIs, NextStartIs
<1>4. SameDocument(pass.docs, s, c)
  <2>1. ASSUME NEW b \in pass.docs  PROVE b <= s <=> b <= c
    <3>1. b \in pass.starts /\ b \in Nat  BY CallIs, StartsAre
    <3>2. b <= c => b <= s  BY <1>1, <3>1, PatchOfIs
    <3>3. b <= s => b <= c  BY <1>1, <1>2, <1>3, <3>1
    <3>4. QED  BY <3>2, <3>3
  <2>2. QED  BY <2>1 DEF SameDocument
<1>5. ASSUME NEW j \in History[c]  PROVE j \in PatchHistory[s]
  <2>1. j \in Bytes /\ j \in Nat /\ j <= c /\ SameDocument(pass.docs, c, j)  BY <1>1, BytesIs DEF History
  <2>2. j < EndOf(s)  BY <1>1, <1>2, <1>3, <2>1
  <2>3. SameDocument(pass.docs, s, j)  BY <1>4, <2>1, SameDocumentIsTransitive
  <2>4. QED  BY <2>1, <2>2, <2>3 DEF PatchHistory
<1>6. QED  BY <1>1, <1>5

-----------------------------------------------------------------------------
(* The decoder's rows.                                                     *)
LEMMA BlockStartIs ==
    ASSUME pass \in Passes, NEW r \in BlockRows
    PROVE  /\ BlockOf(r) \in Nat /\ BlockOf(r) <= N /\ ~(r < N) /\ r \in Rows /\ EndOf(0) <= BlockOf(r)
           /\ EndOf(0) \in Nat
<1>1. N \in Nat \ {0} /\ BlockOf(r) \in 1..N /\ BlockOf(r) \in BlockStarts /\ ~(r < N) /\ r \in Rows
  BY CallIs, BlockRowsAre DEF Rows
<1>2. BlockOf(r) \in pass.starts \cup {N}
  <2>1. pass.mode \in {"model", "predict", "train", "infer"}  BY CallIs
  <2>2. QED  BY <1>1, <2>1 DEF BlockStarts
<1>3. 0 < BlockOf(r) /\ BlockOf(r) \in Nat /\ BlockOf(r) <= N  BY <1>1
<1>4. EndOf(0) <= BlockOf(r) /\ EndOf(0) \in Nat  BY <1>2, <1>3, BytesIs, NextStartIs
<1>5. QED  BY <1>1, <1>3, <1>4

(* The decoder's mask is transitive: clean rows, and cells of a block.     *)
LEMMA DecoderTransitive ==
    ASSUME pass \in Passes, NEW keys, DecoderRight(keys)
    PROVE  Transitive(keys, Rows, Context)
<1>1. N \in Nat \ {0} /\ Bytes \in SUBSET Nat /\ (\A r \in Bytes : r < N) /\ Rows \in SUBSET Nat
      /\ EndOf(0) \in Nat
  <2>1. N \in Nat \ {0} /\ Bytes \in SUBSET Nat /\ Rows \in SUBSET Nat  BY CallIs, BytesIs, BlockRowsAre
  <2>2. \A r \in Bytes : r < N  BY <2>1 DEF Bytes
  <2>3. EndOf(0) \in Nat  BY BytesIs, NextStartIs
  <2>4. QED  BY <2>1, <2>2, <2>3
<1>2. ASSUME NEW r \in Bytes, NEW c \in keys[r], NEW j \in Context[c]  PROVE j \in Context[r]
  <2>1. c \in Bytes /\ c <= r /\ c \in Rows /\ r \in Rows  BY DEF DecoderRight, Rows
  <2>2. j \in Bytes /\ (j <= c \/ j < EndOf(0))  BY <1>1, <2>1 DEF Context
  <2>3. c \in Nat /\ r \in Nat /\ j \in Nat  BY <1>1, <2>1, <2>2
  <2>4. j <= r \/ j < EndOf(0)  BY <2>1, <2>2, <2>3
  <2>5. QED  BY <1>1, <2>1, <2>2, <2>4 DEF Context
<1>3. ASSUME NEW r \in BlockRows, NEW c \in keys[r], NEW j \in Context[c]  PROVE j \in Context[r]
  <2>1. /\ BlockOf(r) \in Nat /\ ~(r < N) /\ r \in Rows /\ EndOf(0) <= BlockOf(r) /\ BlockOf(r) <= N
        /\ c \in Rows /\ c \in Nat
        /\ IF c < N THEN c < BlockOf(r) ELSE BlockOf(c) = BlockOf(r)
    <3>1. keys[r] = BlockKeys(r)  BY DEF DecoderRight
    <3>2. c \in Rows /\ IF c < N THEN c < BlockOf(r) ELSE BlockOf(c) = BlockOf(r)
      BY <3>1 DEF BlockKeys
    <3>3. QED  BY <1>1, <3>2, BlockStartIs
  <2>2. CASE c < N
    <3>1. c < BlockOf(r)  BY <2>1, <2>2
    <3>2. j \in Bytes /\ (j <= c \/ j < EndOf(0)) /\ j \in Nat /\ j < N /\ j \in Rows
      BY <1>1, <2>1, <2>2 DEF Context, Rows
    <3>3. j < BlockOf(r)  BY <1>1, <2>1, <3>1, <3>2
    <3>4. QED  BY <2>1, <3>2, <3>3 DEF Context, CellContext
  <2>3. CASE ~(c < N)
    <3>1. BlockOf(c) = BlockOf(r)  BY <2>1, <2>3
    <3>2. Context[c] = CellContext(c) /\ Context[r] = CellContext(r)  BY <2>1, <2>3 DEF Context
    <3>3. CellContext(c) = CellContext(r)  BY <3>1 DEF CellContext
    <3>4. QED  BY <3>2, <3>3
  <2>4. QED  BY <2>2, <2>3
<1>4. QED  BY <1>2, <1>3 DEF Transitive, Rows

(* Outside the block-diffusion pass it does not cross documents either.    *)
LEMMA DocumentTransitive ==
    ASSUME pass \in Passes, ~Diffusion, NEW keys, DecoderRight(keys)
    PROVE  Rows = Bytes /\ Transitive(keys, Bytes, Document)
<1>1. Rows = Bytes  BY BlocksAre DEF Rows, BlockRows
<1>2. ASSUME NEW r \in Bytes, NEW c \in keys[r], NEW j \in Document[c]  PROVE j \in Document[r]
  <2>1. c \in Bytes /\ SameDocument(pass.docs, r, c)  BY DEF DecoderRight
  <2>2. j \in Bytes /\ SameDocument(pass.docs, c, j)  BY <2>1 DEF Document
  <2>3. QED  BY <2>1, <2>2, SameDocumentIsTransitive DEF Document
<1>3. QED  BY <1>1, <1>2 DEF Transitive

(* A row may read what its latent may.                                     *)
LEMMA LatentWithin ==
    ASSUME pass \in Passes, NEW r \in Rows
    PROVE  LatentOf(r) \in pass.starts /\ PatchHistory[LatentOf(r)] \subseteq Context[r]
<1>1. N \in Nat \ {0} /\ Bytes \in SUBSET Nat /\ (\A j \in Bytes : j < N /\ j \in Rows)
      /\ EndOf(0) \in Nat
  <2>1. N \in Nat \ {0} /\ Bytes \in SUBSET Nat  BY CallIs, BytesIs
  <2>2. \A j \in Bytes : j < N /\ j \in Rows  BY <2>1 DEF Bytes, Rows
  <2>3. EndOf(0) \in Nat  BY BytesIs, NextStartIs
  <2>4. QED  BY <2>1, <2>2, <2>3
<1>2. PICK s \in pass.starts : s = LatentOf(r)  BY LatentOfIs
<1>3. s \in Bytes /\ EndOf(s) \in Nat  BY CallIs, NextStartIs
<1>4. ASSUME NEW j \in PatchHistory[s]  PROVE j \in Context[r]
  <2>1. j \in Bytes /\ j < EndOf(s) /\ j \in Nat /\ j < N /\ j \in Rows  BY <1>1 DEF PatchHistory
  <2>2. CASE r \in Bytes
    <3>1. r < N /\ r \in Nat  BY <1>1, <2>2
    <3>2. EndOf(s) <= r + 1 \/ s = 0  BY <1>2, <2>2, LatentOfIs
    <3>3. j <= r \/ j < EndOf(0)  BY <1>3, <2>1, <3>1, <3>2
    <3>4. QED  BY <2>1, <3>1, <3>3 DEF Context
  <2>3. CASE r \in BlockRows
    <3>1. EndOf(s) = BlockOf(r) /\ ~(r < N)  BY <1>2, <2>3, LatentOfIs, BlockStartIs
    <3>2. QED  BY <2>1, <3>1 DEF Context, CellContext
  <2>4. QED  BY <2>2, <2>3 DEF Rows
<1>5. QED  BY <1>2, <1>4

-----------------------------------------------------------------------------
(* The masks of a call are right.                                          *)
LEMMA RowsArePlaced ==
    ASSUME pass \in Passes
    PROVE  Placed(RowAt, Bytes) /\ Placed(RowAt, Rows) /\ Placed(PatchAt, pass.starts)
<1>1. N \in Nat \ {0} /\ B \in Nat \ {0} /\ Rows \in SUBSET Nat  BY CallIs, BlockRowsAre
<1>2. ASSUME NEW r \in Rows  PROVE RowAt[r] \in Nat
  <2>1. CASE r < N  BY <1>1, <2>1 DEF RowAt
  <2>2. CASE ~(r < N)
    <3>1. r \in BlockRows  BY <2>2, BlockRowsAre
    <3>2. BlockOf(r) \in Nat /\ CellOf(r) \in Nat  BY <1>1, <3>1, BlockRowsAre
    <3>3. Position(r) = BlockOf(r) + CellOf(r)  BY DEF Position, CellOf
    <3>4. Position(r) \in Nat  BY <3>2, <3>3
    <3>5. RowAt[r] = IF Valid(r) THEN Position(r) ELSE N - 1  BY <2>2 DEF RowAt
    <3>6. N - 1 \in Nat  BY <1>1
    <3>7. QED  BY <3>4, <3>5, <3>6
  <2>3. QED  BY <2>1, <2>2
<1>3. \A s \in pass.starts : PatchAt[s] \in Nat  BY StartsAre
<1>4. QED  BY <1>2, <1>3 DEF Placed, Rows

(* A row of zeros reads nothing, a row's own input is all it reads.        *)
LEMMA UnitIs ==
    ASSUME NEW r \in Rows
    PROVE  /\ Zero \in [Rows -> Nat] /\ Seen(Zero) = {}
           /\ Unit(r) \in [Rows -> Nat] /\ Seen(Unit(r)) = {r}
<1>1. Zero \in [Rows -> Nat] /\ \A a \in Rows : Zero[a] = 0  BY DEF Zero
<1>2. Unit(r) \in [Rows -> Nat] /\ \A a \in Rows : Unit(r)[a] = IF a = r THEN 1 ELSE 0
  BY <1>1 DEF Unit
<1>3. Seen(Zero) = {}  BY <1>1 DEF Seen
<1>4. Seen(Unit(r)) = {r}
  <2>1. \A a \in Rows : Unit(r)[a] > 0 <=> a = r  BY <1>2
  <2>2. DOMAIN Unit(r) = Rows  BY <1>2
  <2>3. QED  BY <2>1, <2>2 DEF Seen
<1>5. QED  BY <1>1, <1>2, <1>3, <1>4

(* Rows not yet computed read nothing.                                     *)
LEMMA NothingReadsNothing ==
    ASSUME pass \in Passes
    PROVE  PatchReads(Nothing(pass.starts))
<1>1. Zero \in [Rows -> Nat] /\ Seen(Zero) = {}
  <2>1. 0 \in Rows  BY BytesIs DEF Rows
  <2>2. QED  BY <2>1, UnitIs
<1>2. QED  BY <1>1 DEF PatchReads, Nothing, Rowed, Within

-----------------------------------------------------------------------------
(* The invariant holds before a pass.                                      *)
LEMMA InitPassInv == PassInit => PassInv
<1> SUFFICES ASSUME PassInit PROVE PassInv  OBVIOUS
<1>1. pass \in Passes /\ loop = "embed" /\ layer = 0 /\ o = Nothing(pass.starts)  BY DEF PassInit
<1>2. Layers  BY <1>1 DEF Layers
<1>3. PatchReads(o)  BY <1>1, NothingReadsNothing
<1>4. QED  BY <1>1, <1>2, <1>3 DEF PassInv

(* e_0 and the pooled patches.                                             *)
LEMMA EmbeddedReads ==
    ASSUME pass \in Passes
    PROVE  Rowed(Embedded, Bytes, Rows) /\ OwnSeen(Embedded, Bytes) /\ Within(Embedded, Bytes, History)
<1>1. ASSUME NEW r \in Bytes
      PROVE  Embedded[r] \in [Rows -> Nat] /\ Seen(Embedded[r]) = {r} /\ r \in History[r]
  <2>1. r \in Rows /\ r \in Nat  BY BytesIs DEF Rows
  <2>2. NgramScale \in Nat /\ NgramScale > 0  BY DEF NgramScale
  <2>3. Times(NgramScale, Unit(r)) \in [Rows -> Nat] /\ Seen(Times(NgramScale, Unit(r))) = {r}
    <3>1. PICK v \in [Rows -> Nat] : v = Unit(r) /\ Seen(v) = {r}  BY <2>1, UnitIs
    <3>2. PICK c \in Nat : c = NgramScale /\ c > 0  BY <2>2
    <3>3. Times(c, v) \in [Rows -> Nat] /\ Seen(Times(c, v)) = Seen(v)  BY <3>2, TimesIs
    <3>4. QED  BY <3>1, <3>2, <3>3
  <2>4. SameDocument(pass.docs, r, r)  BY DEF SameDocument
  <2>5. r \in History[r]  BY <2>1, <2>4 DEF History
  <2>6. QED  BY <2>3, <2>5 DEF Embedded
<1>2. Embedded = [r \in Bytes |-> Embedded[r]]  BY DEF Embedded
<1>3. QED  BY <1>1, <1>2 DEF Rowed, OwnSeen, Within

LEMMA PooledReads ==
    ASSUME pass \in Passes, NEW x, Rowed(x, Bytes, Rows), Within(x, Bytes, History)
    PROVE  PatchReads(Pooled(x))
<1>1. ASSUME NEW s \in pass.starts
      PROVE  Pooled(x)[s] \in [Rows -> Nat] /\ Seen(Pooled(x)[s]) \subseteq PatchHistory[s]
  <2>1. Extent(s) \in SUBSET Bytes /\ IsFiniteSet(Extent(s))
    <3>1. Extent(s) \in SUBSET Bytes  BY DEF Extent
    <3>2. QED  BY <3>1, BytesIs, FS_Subset
  <2>2. PICK k \in Nat : k = Cardinality(Extent(s))  BY <2>1, FS_CardinalityType
  <2>3. Some(Bytes)  BY BytesIs DEF Some
  <2>4. Sees(x, Extent(s), Rows)  BY <2>1, <2>3, SumIs
  <2>5. PICK v \in [Rows -> Nat] : v = Sum(x, Extent(s)) /\ Seen(v) = SeenOf(x, Extent(s))
    BY <2>4 DEF Sees
  <2>6. Times(k, v) \in [Rows -> Nat] /\ Seen(Times(k, v)) \subseteq Seen(v)  BY TimesIs
  <2>7. SeenOf(x, Extent(s)) \subseteq PatchHistory[s]
    <3>1. ASSUME NEW c \in Extent(s)  PROVE Seen(x[c]) \subseteq PatchHistory[s]
      <4>1. c \in Bytes /\ History[c] \subseteq PatchHistory[s]  BY ExtentHistory
      <4>2. Seen(x[c]) \subseteq History[c]  BY <4>1 DEF Within
      <4>3. QED  BY <4>1, <4>2
    <3>2. QED  BY <3>1 DEF SeenOf
  <2>8. Pooled(x)[s] = Times(k, v)  BY <2>2, <2>5 DEF Pooled
  <2>9. QED  BY <2>5, <2>6, <2>7, <2>8
<1>2. Pooled(x) = [s \in pass.starts |-> Pooled(x)[s]]  BY DEF Pooled
<1>3. QED  BY <1>1, <1>2 DEF PatchReads, Rowed, Within

(* Nothing but the call says what rows there are and what they may read.   *)
LEMMA SameCall ==
    ASSUME pass' = pass
    PROVE  /\ Rows' = Rows /\ BlockRows' = BlockRows /\ (Diffusion' <=> Diffusion)
           /\ History' = History /\ PatchHistory' = PatchHistory
           /\ Context' = Context /\ Document' = Document
           /\ \A r : CellContext(r)' = CellContext(r)
           /\ \A r : LatentOf(r)' = LatentOf(r)
           /\ \A s : Extent(s)' = Extent(s)
           /\ \A r : BlockKeys(r)' = BlockKeys(r)
<1>1. BlockStarts' = BlockStarts /\ (Diffusion' <=> Diffusion)  BY DEF BlockStarts, Diffusion
<1>2. BlockRows' = BlockRows  BY <1>1 DEF BlockRows
<1>3. Rows' = Rows  BY <1>2 DEF Rows
<1>4. \A q : PatchOf(q)' = PatchOf(q)  BY DEF PatchOf
<1>5. \A q : EndOf(q)' = EndOf(q)  BY DEF EndOf
<1>6. History' = History /\ Document' = Document  BY DEF History, Document
<1>7. PatchHistory' = PatchHistory  BY <1>5 DEF PatchHistory
<1>8. \A r : CellContext(r)' = CellContext(r)  BY <1>3 DEF CellContext
<1>9. Context' = Context  BY <1>3, <1>5, <1>8 DEF Context
<1>10. \A r : LatentOf(r)' = LatentOf(r)  BY <1>4 DEF LatentOf
<1>11. \A s : Extent(s)' = Extent(s)  BY <1>4 DEF Extent
<1>12. \A r : BlockKeys(r)' = BlockKeys(r)  BY <1>3 DEF BlockKeys
<1>13. QED  BY <1>1, <1>2, <1>3, <1>6, <1>7, <1>8, <1>9, <1>10, <1>11, <1>12

(* The masks are built once.                                               *)
LEMMA MasksStay == ASSUME pass' = pass, attends' = attends, MasksRight PROVE MasksRight'
<1>1. EncoderRight(attends.encoder)'  BY DEF MasksRight, EncoderRight
<1>2. PoolRight(attends.pool)'  BY SameCall DEF MasksRight, PoolRight
<1>3. GlobalRight(attends.global)'  BY DEF MasksRight, GlobalRight
<1>4. DecoderRight(attends.decoder)'  BY SameCall DEF MasksRight, DecoderRight
<1>5. LatentRight(attends.latent)'  BY SameCall DEF MasksRight, LatentRight
<1>6. QED  BY <1>1, <1>2, <1>3, <1>4, <1>5 DEF MasksRight

(* The n-gram embedding and the pooling.                                   *)
LEMMA EmbedStep == ASSUME PassInv, Embed PROVE PassInv'
<1>1. /\ pass \in Passes /\ layer = 0 /\ pass' = pass /\ layer' = layer /\ loop' = "encode" /\ o' = o
      /\ PatchReads(o)
      /\ attends' = [encoder |-> EncoderKeys, pool |-> PatchBytes, global |-> PatchKeys,
                     decoder |-> DecoderKeys, latent |-> LatentKeys]
      /\ h' = Embedded /\ p' = Pooled(Embedded)
  BY DEF PassInv, Embed, Layers
<1>2. MasksRight'
  <2>1. /\ EncoderRight(EncoderKeys) /\ PoolRight(PatchBytes) /\ GlobalRight(PatchKeys)
        /\ DecoderRight(DecoderKeys) /\ LatentRight(LatentKeys)
    BY <1>1, EncoderKeysAre, PatchBytesAre, PatchKeysAre, DecoderKeysAre, LatentKeysAre
  <2>2. /\ attends'.encoder = EncoderKeys /\ attends'.pool = PatchBytes /\ attends'.global = PatchKeys
        /\ attends'.decoder = DecoderKeys /\ attends'.latent = LatentKeys
    BY <1>1
  <2>3. EncoderRight(attends.encoder)'  BY <1>1, <2>1, <2>2 DEF EncoderRight
  <2>4. PoolRight(attends.pool)'  BY <1>1, <2>1, <2>2, SameCall DEF PoolRight
  <2>5. GlobalRight(attends.global)'  BY <1>1, <2>1, <2>2 DEF GlobalRight
  <2>6. DecoderRight(attends.decoder)'  BY <1>1, <2>1, <2>2, SameCall DEF DecoderRight
  <2>7. LatentRight(attends.latent)'  BY <1>1, <2>1, <2>2, SameCall DEF LatentRight
  <2>8. QED  BY <2>3, <2>4, <2>5, <2>6, <2>7 DEF MasksRight
<1>3. ByteReads'
  <2>1. Rowed(Embedded, Bytes, Rows) /\ OwnSeen(Embedded, Bytes) /\ Within(Embedded, Bytes, History)
    BY <1>1, EmbeddedReads
  <2>2. Rows' = Rows /\ History' = History  BY <1>1, SameCall
  <2>3. QED  BY <1>1, <2>1, <2>2 DEF ByteReads
<1>4. PatchReads(p)'
  <2>1. PatchReads(Pooled(Embedded))  BY <1>1, EmbeddedReads, PooledReads
  <2>2. Rows' = Rows /\ PatchHistory' = PatchHistory  BY <1>1, SameCall
  <2>3. QED  BY <1>1, <2>1, <2>2 DEF PatchReads
<1>5. PatchReads(o)'
  <2>1. Rows' = Rows /\ PatchHistory' = PatchHistory  BY <1>1, SameCall
  <2>2. QED  BY <1>1, <2>1 DEF PatchReads
<1>6. Layers'
  <2>1. 0 \in 0..(EncLayers - 1)  BY <1>1, CallIs
  <2>2. QED  BY <1>1, <2>1 DEF Layers
<1>7. QED  BY <1>1, <1>2, <1>3, <1>4, <1>5, <1>6 DEF PassInv

-----------------------------------------------------------------------------
(* One layer of the encoder.                                               *)
WeightsOf(w) == w \in [Parameters -> Nat \ {0}]

(* Every layer of a stack has its weights.                                 *)
LEMMA StackIs ==
    ASSUME pass \in Passes
    PROVE  /\ \A l \in 0..(EncLayers - 1) : WeightsOf(Weights.encoder[l])
           /\ \A l \in 0..(GlobalLayers - 1) : WeightsOf(Weights.global[l])
           /\ \A l \in 0..(DecLayers - 1) : WeightsOf(Weights.decoder[l])
           /\ Some(Bytes) /\ Some(pass.starts) /\ Some(Rows)
BY WeightsAssumption, BytesIs, StartsAre, RowIndexIs DEF WeightsOf, Some

(* Cross-attention keeps what its queries may read.                        *)
LEMMA CrossKeeps ==
    ASSUME NEW D, NEW E, Some(E), NEW R, NEW x, Rowed(x, D, R), NEW kv, Rowed(kv, E, R),
           NEW w, WeightsOf(w), NEW keys, Keyed(keys, D, E),
           NEW ctx, Within(x, D, ctx), \A r \in D : SeenOf(kv, keys[r]) \subseteq ctx[r]
    PROVE  LET y == Add(x, CrossAttention(RmsnormForward(x, w.crossNorm), kv, w, keys))
           IN  Rowed(y, D, R) /\ Within(y, D, ctx) /\ \A r \in D : Seen(x[r]) \subseteq Seen(y[r])
<1> DEFINE y == Add(x, CrossAttention(RmsnormForward(x, w.crossNorm), kv, w, keys))
<1>1. w \in [Parameters -> Nat \ {0}]  BY DEF WeightsOf
<1>2. Rowed(y, D, R) /\ CrossSees(y, x, kv, keys, D)  BY <1>1, CrossIs
<1> HIDE DEF y
<1>3. ASSUME NEW r \in D  PROVE Seen(y[r]) \subseteq ctx[r] /\ Seen(x[r]) \subseteq Seen(y[r])
  BY <1>2 DEF CrossSees, Within
<1>4. QED  BY <1>2, <1>3 DEF Within, y

LEMMA EncoderStep == ASSUME PassInv, EncoderLayer PROVE PassInv'
<1>1. /\ pass \in Passes /\ pass' = pass /\ attends' = attends /\ o' = o /\ loop = "encode"
      /\ layer \in 0..(EncLayers - 1) /\ PatchReads(o) /\ MasksRight /\ ByteReads /\ PatchReads(p)
      /\ h' = TransformerForward(h, Weights.encoder[layer], attends.encoder, RowAt)
      /\ p' = EncoderCross(h', p, layer)
  BY DEF PassInv, EncoderLayer, Layers, call
<1>2. \/ loop' = "encode" /\ layer' \in 0..(EncLayers - 1)
      \/ loop' = "global" /\ layer' = 0
  BY <1>1, CallIs DEF EncoderLayer, Up
<1>3. Layers'
  <2>1. 0 \in 0..(GlobalLayers - 1)  BY <1>1, CallIs
  <2>2. QED  BY <1>2, <2>1 DEF Layers
<1>4. Rows' = Rows /\ History' = History /\ PatchHistory' = PatchHistory  BY <1>1, SameCall
<1>5. PICK y, w, keys : /\ y = h' /\ w = Weights.encoder[layer] /\ keys = attends.encoder
                        /\ y = TransformerForward(h, w, keys, RowAt)
  BY <1>1
<1>6. WeightsOf(w) /\ Some(Bytes) /\ Some(pass.starts) /\ EncoderRight(keys)
  BY <1>1, <1>5, StackIs DEF MasksRight
<1>7. Rowed(y, Bytes, Rows) /\ LayerSees(y, h, keys, Bytes)
  <2>1. w \in [Parameters -> Nat \ {0}] /\ Keyed(keys, Bytes, Bytes) /\ Rowed(h, Bytes, Rows)
    BY <1>1, <1>6 DEF WeightsOf, EncoderRight, ByteReads
  <2>2. Placed(RowAt, Bytes)  BY <1>1, RowsArePlaced
  <2>3. QED  BY <1>5, <1>6, <2>1, <2>2, LayerIs
<1>8. OwnSeen(y, Bytes) /\ Within(y, Bytes, History)
  <2>1. Transitive(keys, Bytes, History) /\ Keyed(keys, Bytes, Bytes)
    BY <1>1, <1>6, EncoderTransitive DEF EncoderRight
  <2>2. Within(h, Bytes, History) /\ OwnSeen(h, Bytes)  BY <1>1 DEF ByteReads
  <2>3. QED  BY <1>7, <2>1, <2>2, LayerKeeps, LayerKeepsOwn
<1>9. PatchReads(EncoderCross(y, p, layer))
  <2>1. CASE ~Fires(pass.encCross, EncLayers, layer)  BY <1>1, <2>1 DEF EncoderCross
  <2>2. CASE Fires(pass.encCross, EncLayers, layer)
    <3>1. PICK k : k = attends.pool /\ k = [s \in pass.starts |-> Extent(s)]
      BY <1>1 DEF MasksRight, PoolRight
    <3>2. EncoderCross(y, p, layer) = Add(p, CrossAttention(RmsnormForward(p, w.crossNorm), y, w, k))
      BY <1>5, <2>2, <3>1 DEF EncoderCross
    <3>3. Keyed(k, pass.starts, Bytes)
      <4>1. \A s \in pass.starts : Extent(s) \in SUBSET Bytes  BY DEF Extent
      <4>2. QED  BY <3>1, <4>1 DEF Keyed
    <3>4. \A s \in pass.starts : SeenOf(y, k[s]) \subseteq PatchHistory[s]
      <4> TAKE s \in pass.starts
      <4>1. ASSUME NEW c \in k[s]  PROVE Seen(y[c]) \subseteq PatchHistory[s]
        <5>1. c \in Extent(s)  BY <3>1
        <5>2. c \in Bytes /\ History[c] \subseteq PatchHistory[s]  BY <1>1, <5>1, ExtentHistory
        <5>3. QED  BY <1>8, <5>2 DEF Within
      <4>2. QED  BY <4>1 DEF SeenOf
    <3>5. Rowed(p, pass.starts, Rows) /\ Within(p, pass.starts, PatchHistory)  BY <1>1 DEF PatchReads
    <3>6. PICK z : z = EncoderCross(y, p, layer) /\ Rowed(z, pass.starts, Rows) /\ Within(z, pass.starts, PatchHistory)
      BY <1>6, <1>7, <3>2, <3>3, <3>4, <3>5, CrossKeeps
    <3>7. QED  BY <3>6 DEF PatchReads
  <2>3. QED  BY <2>1, <2>2
<1>10. ByteReads'  BY <1>1, <1>4, <1>5, <1>7, <1>8 DEF ByteReads
<1>11. PatchReads(p)' /\ PatchReads(o)'
  <2>1. p' = EncoderCross(y, p, layer)  BY <1>1, <1>5
  <2>2. QED  BY <1>1, <1>4, <1>9, <2>1 DEF PatchReads
<1>12. MasksRight'  BY <1>1, MasksStay
<1>13. QED  BY <1>1, <1>2, <1>3, <1>10, <1>11, <1>12 DEF PassInv

-----------------------------------------------------------------------------
(* One layer of the global transformer, and D_0.                           *)
LEMMA GlobalStep == ASSUME PassInv, GlobalLayer PROVE PassInv'
<1>1. /\ pass \in Passes /\ pass' = pass /\ attends' = attends /\ p' = p /\ h' = h /\ loop = "global"
      /\ layer \in 0..(GlobalLayers - 1) /\ PatchReads(o) /\ MasksRight /\ ByteReads /\ PatchReads(p)
      /\ o' = TransformerForward(IF layer = 0 THEN p ELSE o, Weights.global[layer], attends.global, PatchAt)
  BY DEF PassInv, GlobalLayer, Layers, call
<1>2. \/ loop' = "global" /\ layer' \in 0..(GlobalLayers - 1)
      \/ loop' = "d0" /\ layer' = 0
  BY <1>1, CallIs DEF GlobalLayer, Up
<1>3. Layers'  BY <1>2 DEF Layers
<1>4. Rows' = Rows /\ History' = History /\ PatchHistory' = PatchHistory  BY <1>1, SameCall
<1>5. PICK x, y, w, keys : /\ x = (IF layer = 0 THEN p ELSE o) /\ y = o'
                           /\ w = Weights.global[layer] /\ keys = attends.global
                           /\ y = TransformerForward(x, w, keys, PatchAt)
  BY <1>1
<1>6. WeightsOf(w) /\ Some(pass.starts) /\ GlobalRight(keys)
  BY <1>1, <1>5, StackIs DEF MasksRight
<1>7. Rowed(x, pass.starts, Rows) /\ Within(x, pass.starts, PatchHistory)
  BY <1>1, <1>5 DEF PatchReads
<1>8. Keyed(keys, pass.starts, pass.starts) /\ Transitive(keys, pass.starts, PatchHistory)
  BY <1>1, <1>6, GlobalTransitive DEF GlobalRight
<1>9. Rowed(y, pass.starts, Rows) /\ LayerSees(y, x, keys, pass.starts)
  <2>1. w \in [Parameters -> Nat \ {0}]  BY <1>6 DEF WeightsOf
  <2>2. Placed(PatchAt, pass.starts)  BY <1>1, RowsArePlaced
  <2>3. PICK where : where = PatchAt /\ Placed(where, pass.starts)  BY <2>2
  <2>4. y = TransformerForward(x, w, keys, where)  BY <1>5, <2>3
  <2>5. QED  BY <1>6, <1>7, <1>8, <2>1, <2>3, <2>4, LayerIs
<1>10. Within(y, pass.starts, PatchHistory)  BY <1>7, <1>8, <1>9, LayerKeeps
<1>11. PatchReads(o)' /\ PatchReads(p)' /\ ByteReads'
  BY <1>1, <1>4, <1>5, <1>9, <1>10 DEF PatchReads, ByteReads
<1>12. MasksRight'  BY <1>1, MasksStay
<1>13. QED  BY <1>1, <1>2, <1>3, <1>11, <1>12 DEF PassInv

(* A row of D_0 reads its own token, or the byte state it is copied from.  *)
LEMMA D0Reads ==
    ASSUME pass \in Passes, ByteReads
    PROVE  DecoderReads(D0)
<1>1. N \in Nat \ {0} /\ Bytes \in SUBSET Rows /\ BlockRows \in SUBSET Rows
      /\ (\A r \in Rows : r \in Bytes <=> r < N) /\ (\A r \in Rows : r \in BlockRows <=> ~(r < N))
      /\ Bytes \in SUBSET Nat
  BY CallIs, BlockRowsAre, BytesIs DEF Rows
<1>2. ASSUME NEW r \in Bytes
      PROVE  /\ D0[r] \in [Rows -> Nat] /\ r \in Seen(D0[r])
             /\ Seen(D0[r]) \subseteq Context[r] /\ Seen(D0[r]) \subseteq Document[r]
  <2>1. r \in Rows /\ r < N  BY <1>1
  <2>2. D0[r] = h[r]  BY <2>1 DEF D0
  <2>3. h[r] \in [Rows -> Nat] /\ r \in Seen(h[r]) /\ Seen(h[r]) \subseteq History[r]
    BY DEF ByteReads, Rowed, OwnSeen, Within
  <2>4. History[r] \subseteq Context[r] /\ History[r] \subseteq Document[r]
    BY <2>1 DEF History, Context, Document
  <2>5. QED  BY <2>2, <2>3, <2>4
<1>3. ASSUME NEW r \in BlockRows
      PROVE  /\ D0[r] \in [Rows -> Nat] /\ Seen(D0[r]) \subseteq Context[r]
             /\ pass.learned => r \in Seen(D0[r])
  <2>1. r \in Rows /\ ~(r < N)  BY <1>1
  <2>2. D0[r] = IF pass.learned THEN Unit(r) ELSE Zero  BY <2>1 DEF D0
  <2>3. pass.learned => r \in Context[r]  BY <2>1 DEF Context, CellContext
  <2>4. QED  BY <2>1, <2>2, <2>3, UnitIs
<1>4. Rowed(D0, Rows, Rows)
  <2>1. ASSUME NEW r \in Rows  PROVE D0[r] \in [Rows -> Nat]  BY <1>2, <1>3 DEF Rows
  <2>2. D0 = [r \in Rows |-> D0[r]]  BY DEF D0
  <2>3. QED  BY <2>1, <2>2 DEF Rowed
<1>5. Within(D0, Rows, Context)  BY <1>2, <1>3 DEF Within, Rows
<1>6. OwnSeen(D0, Bytes) /\ (pass.learned => OwnSeen(D0, BlockRows)) /\ Within(D0, Bytes, Document)
  BY <1>2, <1>3 DEF OwnSeen, Within
<1>7. QED  BY <1>4, <1>5, <1>6 DEF DecoderReads

LEMMA D0Step == ASSUME PassInv, BuildD0 PROVE PassInv'
<1>1. /\ pass \in Passes /\ pass' = pass /\ attends' = attends /\ p' = p /\ h' = h /\ o' = o
      /\ loop = "d0" /\ layer = 0 /\ layer' = layer /\ loop' = "decode" /\ d' = D0
      /\ PatchReads(o) /\ MasksRight /\ ByteReads /\ PatchReads(p)
  BY DEF PassInv, BuildD0, Layers, call
<1>2. Layers'
  <2>1. 0 \in 0..(DecLayers - 1)  BY <1>1, CallIs
  <2>2. QED  BY <1>1, <2>1 DEF Layers
<1>3. /\ Rows' = Rows /\ BlockRows' = BlockRows /\ History' = History /\ PatchHistory' = PatchHistory
      /\ Context' = Context /\ Document' = Document /\ (Diffusion' <=> Diffusion)
  BY <1>1, SameCall
<1>4. PatchReads(o)' /\ PatchReads(p)' /\ ByteReads'  BY <1>1, <1>3 DEF PatchReads, ByteReads
<1>5. DecoderReads(d)'
  <2>1. PICK x : x = D0 /\ x = d' /\ DecoderReads(x)  BY <1>1, D0Reads
  <2>2. QED  BY <1>1, <1>3, <2>1 DEF DecoderReads
<1>6. MasksRight'  BY <1>1, MasksStay
<1>7. QED  BY <1>1, <1>2, <1>4, <1>5, <1>6 DEF PassInv

-----------------------------------------------------------------------------
(* One layer of the decoder: the cross-attention, then the layer, which is *)
(* the same one in the diffusion decoder.                                  *)
LEMMA CrossedReads ==
    ASSUME pass \in Passes, MasksRight, PatchReads(o), NEW l \in 0..(DecLayers - 1),
           NEW x, DecoderReads(x)
    PROVE  DecoderReads(DecoderCross(x, l))
<1>1. CASE ~Fires(pass.decCross, DecLayers, l)  BY <1>1 DEF DecoderCross
<1>2. CASE Fires(pass.decCross, DecLayers, l)
  <2>1. PICK w, keys, y : /\ w = Weights.decoder[l] /\ keys = attends.latent
                          /\ y = DecoderCross(x, l)
                          /\ y = Add(x, CrossAttention(RmsnormForward(x, w.crossNorm), o, w, keys))
    BY <1>2 DEF DecoderCross
  <2>2. WeightsOf(w) /\ Some(pass.starts) /\ keys = [r \in Rows |-> {LatentOf(r)}]
    BY <2>1, StackIs DEF MasksRight, LatentRight
  <2>3. Keyed(keys, Rows, pass.starts)
    <3>1. \A r \in Rows : {LatentOf(r)} \in SUBSET pass.starts  BY LatentWithin
    <3>2. QED  BY <2>2, <3>1 DEF Keyed
  <2>4. ASSUME NEW r \in Rows  PROVE SeenOf(o, keys[r]) \subseteq Context[r]
    <3>1. PICK s \in pass.starts : s = LatentOf(r) /\ PatchHistory[s] \subseteq Context[r]
      BY LatentWithin
    <3>2. keys[r] = {s}  BY <2>2, <3>1
    <3>3. Seen(o[s]) \subseteq PatchHistory[s]  BY DEF PatchReads, Within
    <3>4. QED  BY <3>1, <3>2, <3>3 DEF SeenOf
  <2>5. Rowed(x, Rows, Rows) /\ Within(x, Rows, Context) /\ Rowed(o, pass.starts, Rows)
    BY DEF DecoderReads, PatchReads
  <2>6. Rowed(y, Rows, Rows) /\ Within(y, Rows, Context) /\ \A r \in Rows : Seen(x[r]) \subseteq Seen(y[r])
    <3>1. PICK ctx : ctx = Context  OBVIOUS
    <3>2. Within(x, Rows, ctx) /\ \A r \in Rows : SeenOf(o, keys[r]) \subseteq ctx[r]  BY <2>4, <2>5, <3>1
    <3>3. PICK kv : kv = o  OBVIOUS
    <3>4. /\ Rowed(kv, pass.starts, Rows) /\ \A r \in Rows : SeenOf(kv, keys[r]) \subseteq ctx[r]
          /\ y = Add(x, CrossAttention(RmsnormForward(x, w.crossNorm), kv, w, keys))
      BY <2>1, <2>5, <3>2, <3>3
    <3>5. Some(pass.starts) /\ WeightsOf(w) /\ Rowed(x, Rows, Rows)  BY <2>2, <2>5
    <3>6. Rowed(y, Rows, Rows) /\ Within(y, Rows, ctx) /\ \A r \in Rows : Seen(x[r]) \subseteq Seen(y[r])
      BY <2>3, <3>2, <3>4, <3>5, CrossKeeps
    <3>7. QED  BY <3>1, <3>6
  <2>7. Bytes \subseteq Rows /\ BlockRows \subseteq Rows  BY DEF Rows
  <2>8. OwnSeen(y, Bytes) /\ (pass.learned => OwnSeen(y, BlockRows))
    BY <2>6, <2>7 DEF DecoderReads, OwnSeen
  <2>9. pass.decCross # "NONE"  BY <1>2 DEF Fires
  <2>10. QED  BY <2>1, <2>6, <2>8, <2>9 DEF DecoderReads
<1>3. QED  BY <1>1, <1>2

(* The layer after it fills the blocks.                                    *)
LEMMA LayeredReads ==
    ASSUME pass \in Passes, NEW keys, DecoderRight(keys), NEW x, DecoderReads(x), NEW y,
           Rowed(y, Rows, Rows), LayerSees(y, x, keys, Rows)
    PROVE  DecoderReads(y) /\ BlocksFull(y)
<1>1. /\ Rowed(x, Rows, Rows) /\ Within(x, Rows, Context) /\ OwnSeen(x, Bytes)
      /\ pass.learned => OwnSeen(x, BlockRows)
      /\ pass.decCross = "NONE" /\ ~Diffusion => Within(x, Bytes, Document)
      /\ Keyed(keys, Rows, Rows) /\ Bytes \in SUBSET Rows /\ BlockRows \in SUBSET Rows
  BY DEF DecoderReads, DecoderRight, Rows
<1>2. Within(y, Rows, Context)
  <2>1. Transitive(keys, Rows, Context)  BY DecoderTransitive
  <2>2. QED  BY <1>1, <2>1, LayerKeeps
<1>3. OwnSeen(y, Bytes) /\ (pass.learned => OwnSeen(y, BlockRows))  BY <1>1, LayerKeepsOwn
<1>4. ASSUME pass.decCross = "NONE", ~Diffusion  PROVE Within(y, Bytes, Document)
  <2>1. Rows = Bytes /\ Transitive(keys, Bytes, Document)  BY <1>4, DocumentTransitive
  <2>2. Keyed(keys, Bytes, Bytes) /\ LayerSees(y, x, keys, Bytes) /\ Within(x, Bytes, Document)
    BY <1>1, <1>4, <2>1
  <2>3. QED  BY <2>1, <2>2, LayerKeeps
<1>5. DecoderReads(y)  BY <1>2, <1>3, <1>4 DEF DecoderReads
<1>6. ASSUME NEW r \in BlockRows  PROVE Seen(y[r]) = CellContext(r)
  <2>1. r \in Rows /\ ~(r < N)  BY BlockRowsAre DEF Rows
  <2>2. Seen(y[r]) \subseteq CellContext(r)
    <3>1. Context[r] = CellContext(r)  BY <2>1 DEF Context
    <3>2. QED  BY <1>2, <2>1, <3>1 DEF Within
  <2>3. ASSUME NEW a \in CellContext(r)  PROVE a \in Seen(y[r])
    <3>1. a \in Rows /\ IF a < N THEN a < BlockOf(r) ELSE pass.learned /\ BlockOf(a) = BlockOf(r)
      BY DEF CellContext
    <3>2. a \in keys[r]
      <4>1. a \in BlockKeys(r)  BY <3>1 DEF BlockKeys
      <4>2. QED  BY <4>1 DEF DecoderRight
    <3>3. a \in Seen(x[a])
      <4>1. CASE a < N
        <5>1. a \in Bytes  BY <3>1, <4>1, BlockRowsAre
        <5>2. QED  BY <1>1, <5>1 DEF OwnSeen
      <4>2. CASE ~(a < N)
        <5>1. a \in BlockRows /\ pass.learned  BY <3>1, <4>2, BlockRowsAre
        <5>2. QED  BY <1>1, <5>1 DEF OwnSeen
      <4>3. QED  BY <4>1, <4>2
    <3>4. QED  BY <2>1, <3>2, <3>3 DEF LayerSees, SeenOf
  <2>4. QED  BY <2>2, <2>3
<1>7. QED  BY <1>5, <1>6 DEF BlocksFull

(* The diffusion decoder's own code is the layer of the others.            *)
LEMMA DiffusionLayerIs ==
    ASSUME NEW x, NEW l
    PROVE  DiffusionLayer(x, l)
             = TransformerForward(DecoderCross(x, l), Weights.decoder[l], attends.decoder, RowAt)
BY DEF DiffusionLayer, DiffusionSelfAttention, TransformerForward, MultiheadAttention, ApplyFfn

LEMMA DecoderStep == ASSUME PassInv, DecoderLayer PROVE PassInv'
<1>1. /\ pass \in Passes /\ pass' = pass /\ attends' = attends /\ p' = p /\ h' = h /\ o' = o
      /\ loop = "decode" /\ layer \in 0..(DecLayers - 1)
      /\ PatchReads(o) /\ MasksRight /\ ByteReads /\ PatchReads(p) /\ DecoderReads(d)
      /\ d' = IF Diffusion THEN DiffusionLayer(d, layer)
              ELSE TransformerForward(DecoderCross(d, layer), Weights.decoder[layer], attends.decoder, RowAt)
  BY DEF PassInv, DecoderLayer, Layers, call
<1>2. Layers' /\ loop' \notin {"embed", "encode", "global", "d0"}
  <2>1. \/ loop' = "decode" /\ layer' \in 0..(DecLayers - 1)
        \/ loop' \in {"loss", "done"}
    BY <1>1, CallIs DEF DecoderLayer, Up
  <2>2. QED  BY <2>1 DEF Layers
<1>3. PICK x : x = DecoderCross(d, layer) /\ DecoderReads(x)  BY <1>1, CrossedReads
<1>4. PICK y, w, keys, where :
          /\ y = d' /\ w = Weights.decoder[layer] /\ keys = attends.decoder /\ where = RowAt
          /\ y = TransformerForward(x, w, keys, where)
  BY <1>1, <1>3, DiffusionLayerIs
<1>5. Rowed(y, Rows, Rows) /\ LayerSees(y, x, keys, Rows) /\ DecoderRight(keys)
  <2>1. Some(Rows) /\ w \in [Parameters -> Nat \ {0}] /\ Placed(where, Rows)
    BY <1>1, <1>4, StackIs, RowsArePlaced DEF WeightsOf
  <2>2. DecoderRight(keys) /\ Keyed(keys, Rows, Rows) /\ Rowed(x, Rows, Rows)
    BY <1>1, <1>3, <1>4 DEF MasksRight, DecoderRight, DecoderReads
  <2>3. QED  BY <1>4, <2>1, <2>2, LayerIs
<1>6. DecoderReads(y) /\ BlocksFull(y)  BY <1>1, <1>3, <1>5, LayeredReads
<1>7. /\ Rows' = Rows /\ BlockRows' = BlockRows /\ History' = History /\ PatchHistory' = PatchHistory
      /\ Context' = Context /\ Document' = Document /\ (Diffusion' <=> Diffusion)
      /\ \A r : CellContext(r)' = CellContext(r)
  BY <1>1, SameCall
<1>8. PatchReads(o)' /\ PatchReads(p)' /\ ByteReads'  BY <1>1, <1>7 DEF PatchReads, ByteReads
<1>9. DecoderReads(d)'  BY <1>1, <1>4, <1>6, <1>7 DEF DecoderReads
<1>10. BlocksFull(d)'  BY <1>4, <1>6, <1>7 DEF BlocksFull
<1>11. MasksRight'  BY <1>1, MasksStay
<1>12. QED  BY <1>1, <1>2, <1>8, <1>9, <1>10, <1>11 DEF PassInv

-----------------------------------------------------------------------------
(* The backward pass leaves the forward pass's rows alone.                 *)
LEMMA ForwardStays ==
    ASSUME PassInv, pass' = pass, attends' = attends, UNCHANGED forward,
           loop \notin {"embed", "encode", "global", "d0", "decode"},
           loop' \notin {"embed", "encode", "global", "d0", "decode"}
    PROVE  PassInv'
<1>1. /\ pass \in Passes /\ h' = h /\ p' = p /\ o' = o /\ d' = d
      /\ MasksRight /\ ByteReads /\ PatchReads(p) /\ PatchReads(o) /\ DecoderReads(d) /\ BlocksFull(d)
  BY DEF PassInv, forward
<1>2. /\ Rows' = Rows /\ BlockRows' = BlockRows /\ History' = History /\ PatchHistory' = PatchHistory
      /\ Context' = Context /\ Document' = Document /\ (Diffusion' <=> Diffusion)
      /\ \A r : CellContext(r)' = CellContext(r)
  BY SameCall
<1>3. PatchReads(o)' /\ PatchReads(p)' /\ ByteReads'  BY <1>1, <1>2 DEF PatchReads, ByteReads
<1>4. DecoderReads(d)' /\ BlocksFull(d)'  BY <1>1, <1>2 DEF DecoderReads, BlocksFull
<1>5. MasksRight'  BY <1>1, MasksStay
<1>6. Layers'  BY DEF Layers
<1>7. QED  BY <1>1, <1>3, <1>4, <1>5, <1>6 DEF PassInv

(* A step that changes nothing keeps the invariant.                        *)
LEMMA PassStutters == ASSUME PassInv, UNCHANGED passVars PROVE PassInv'
BY DEF PassInv, passVars, call, forward, Layers, MasksRight, ByteReads, PatchReads, DecoderReads, BlocksFull,
       EncoderRight, PoolRight, GlobalRight, DecoderRight, LatentRight, BlockKeys, History, PatchHistory,
       Context, CellContext, Document, Rows, BlockRows, BlockStarts, Diffusion, EndOf, LatentOf, Extent, PatchOf

(* The invariant is inductive.                                             *)
LEMMA PassInductive == PassInv /\ [PassNext]_passVars => PassInv'
<1> SUFFICES ASSUME PassInv, [PassNext]_passVars PROVE PassInv'  OBVIOUS
<1>1. CASE Embed  BY <1>1, EmbedStep
<1>2. CASE EncoderLayer  BY <1>2, EncoderStep
<1>3. CASE GlobalLayer  BY <1>3, GlobalStep
<1>4. CASE BuildD0  BY <1>4, D0Step
<1>5. CASE DecoderLayer  BY <1>5, DecoderStep
<1>6. CASE Loss  BY <1>6, ForwardStays DEF Loss, call
<1>7. CASE DecoderBack  BY <1>7, ForwardStays DEF DecoderBack, Down, call
<1>8. CASE ScatterD0  BY <1>8, ForwardStays DEF ScatterD0, call
<1>9. CASE GlobalBack  BY <1>9, ForwardStays DEF GlobalBack, Down, call
<1>10. CASE EncoderBack  BY <1>10, ForwardStays DEF EncoderBack, Down, call
<1>11. CASE PoolBack  BY <1>11, ForwardStays DEF PoolBack, call
<1>12. CASE ReturnPass \/ UNCHANGED passVars  BY <1>12, PassStutters DEF ReturnPass
<1>13. QED
  BY <1>1, <1>2, <1>3, <1>4, <1>5, <1>6, <1>7, <1>8, <1>9, <1>10, <1>11, <1>12 DEF PassNext

(* In every reachable state of a forward and backward pass the masks are   *)
(* what they should be and every row computed so far reads what it may.    *)
THEOREM PassInvHolds == PassSpec => []PassInv
BY InitPassInv, PassInductive, PTL DEF PassSpec

-----------------------------------------------------------------------------
(* What a computed row reads is what its numbers show.                     *)
LEMMA ReadsIs ==
    ASSUME NEW D, NEW x, Rowed(x, D, Rows), NEW r \in D
    PROVE  Reads(x[r]) = Seen(x[r])
BY DEF Rowed, Reads, Seen

(* Every mask of a call is the same built on the host and on the device.   *)
LEMMA MasksAgreeEverywhere ==
    ASSUME pass \in Passes
    PROVE  /\ HostIsDevice(EncoderMask) /\ HostIsDevice(PoolMask) /\ HostIsDevice(GlobalMask)
           /\ HostIsDevice(DecoderMask) /\ HostIsDevice(LatentMask)
BY EncoderKeysAre, PatchBytesAre, PatchKeysAre, DecoderKeysAre, LatentKeysAre

(* What the invariant says of documents.                                   *)
LEMMA IsolatedInv == PassInv => DocumentsIsolated
<1> SUFFICES ASSUME PassInv PROVE DocumentsIsolated  OBVIOUS
<1>1. pass \in Passes  BY DEF PassInv
<1>2. ASSUME Decoded  PROVE PatchReads(o) /\ DecoderReads(d)  BY <1>2 DEF PassInv, Decoded
<1>3. ASSUME Decoded, NEW s \in pass.starts
      PROVE  Reads(o[s]) \subseteq {j \in Bytes : \A b \in pass.docs : b <= j <=> b <= s}
  <2>1. Reads(o[s]) = Seen(o[s]) /\ Seen(o[s]) \subseteq PatchHistory[s]
    BY <1>2, <1>3, ReadsIs DEF PatchReads, Within
  <2>2. PatchHistory[s] \subseteq {j \in Bytes : \A b \in pass.docs : b <= j <=> b <= s}
    BY DEF PatchHistory, SameDocument
  <2>3. QED  BY <2>1, <2>2
<1>4. ASSUME Decoded, pass.decCross = "NONE", pass.mode \in {"model", "predict"}, NEW r \in Bytes
      PROVE  Reads(d[r]) \subseteq {j \in Bytes : \A b \in pass.docs : b <= j <=> b <= r}
  <2>1. ~Diffusion  BY <1>4 DEF Diffusion
  <2>2. Rowed(d, Rows, Rows) /\ Within(d, Bytes, Document)  BY <1>2, <1>4, <2>1 DEF DecoderReads
  <2>3. Reads(d[r]) = Seen(d[r]) /\ r \in Rows  BY <2>2, ReadsIs DEF Rows
  <2>4. Document[r] \subseteq {j \in Bytes : \A b \in pass.docs : b <= j <=> b <= r}
    BY DEF Document, SameDocument
  <2>5. QED  BY <2>2, <2>3, <2>4 DEF Within
<1>5. QED  BY <1>1, <1>3, <1>4, MasksAgreeEverywhere DEF DocumentsIsolated

(* DocumentsIsolated holds in every forward and backward pass: no latent   *)
(* of a patch depends on a byte of another document, nor does a row of a   *)
(* decoder that does not cross-attend, and every mask comes out the same   *)
(* on the host and on the device and leaves no row without a key.          *)
THEOREM DocumentsStayApart == PassSpec => []DocumentsIsolated
BY PassInvHolds, IsolatedInv, PTL

-----------------------------------------------------------------------------
(* An input of the bytes stands for itself and for bytes before it.        *)
LEMMA SpanIs ==
    ASSUME pass \in Passes, NEW j \in Bytes
    PROVE  j \in Span(j) /\ Span(j) \subseteq 0..j
<1>1. N \in Nat \ {0} /\ j \in Nat /\ Bytes = 0..(N - 1)  BY CallIs, BytesIs DEF Bytes
<1>2. CASE pass.ngram \in 1..N
  <2>1. PICK w \in 1..N : w = pass.ngram  BY <1>2
  <2>2. NgramBytes[w][j] = BytesHashed(Buckets(w, N)[j])  BY DEF NgramBytes
  <2>3. PICK len \in Nat : len = N  BY <1>1
  <2>4. w \in Nat \ {0} /\ j \in 0..(len - 1)  BY <1>1, <2>3
  <2>5. BytesHashed(Buckets(w, len)[j]) \subseteq 0..j  BY <2>4, HashedBytesAre
  <2>6. Span(j) = {j} \cup BytesHashed(Buckets(w, len)[j])  BY <1>2, <2>1, <2>2, <2>3 DEF Span
  <2>7. j \in 0..j  BY <1>1
  <2>8. QED  BY <2>5, <2>6, <2>7
<1>3. CASE pass.ngram \notin 1..N
  <2>1. Span(j) = {j}  BY <1>3 DEF Span
  <2>2. j \in 0..j  BY <1>1
  <2>3. QED  BY <2>1, <2>2
<1>4. QED  BY <1>2, <1>3

-----------------------------------------------------------------------------
(* What it says of the order of bytes.                                     *)
LEMMA CausalInv == PassInv => CleanCausal
<1> SUFFICES ASSUME PassInv PROVE CleanCausal  OBVIOUS
<1>1. pass \in Passes /\ N \in Nat \ {0} /\ EndOf(0) \in Nat /\ EndOf(0) = NextStart(pass.starts, N, 0)
  <2>1. pass \in Passes  BY DEF PassInv
  <2>2. QED  BY <2>1, CallIs, BytesIs, NextStartIs DEF EndOf
<1>2. ASSUME Called, pass.ngram \in 1..N  PROVE SameFormEverywhere(pass.ngram, N)
  <2>1. PICK w \in Nat \ {0}, len \in Nat : w = pass.ngram /\ len = N /\ w <= len  BY <1>1, <1>2
  <2>2. SameFormEverywhere(w, len)  BY <2>1, HashedAlike
  <2>3. QED  BY <2>1, <2>2
<1>3. ASSUME Decoded, NEW r \in Bytes
      PROVE  BytesRead(d[r]) \subseteq 0..Max({r, NextStart(pass.starts, N, 0) - 1})
  <2>1. r \in Nat /\ r < N /\ r \in Rows /\ \A j \in Bytes : j \in Nat /\ j < N
    BY <1>1, BytesIs DEF Bytes, Rows
  <2>2. Seen(d[r]) = Reads(d[r]) /\ Seen(d[r]) \subseteq Context[r]
    <3>1. Rowed(d, Rows, Rows) /\ Within(d, Rows, Context)
      BY <1>3 DEF PassInv, Decoded, DecoderReads
    <3>2. QED  BY <2>1, <3>1, ReadsIs DEF Within
  <2>3. \A j \in Reads(d[r]) : j \in Bytes /\ (j <= r \/ j < EndOf(0))
    BY <2>1, <2>2 DEF Context
  <2>4. 0 < EndOf(0)  BY <1>1, BytesIs, NextStartIs
  <2>5. PICK last \in Nat : last = EndOf(0) - 1  BY <1>1, <2>4
  <2>6. Max({r, last}) \in Nat /\ r <= Max({r, last}) /\ last <= Max({r, last})
    <3> DEFINE T == {r, last}
    <3>1. PICK q \in Nat : r <= q /\ last <= q
      <4>1. r + last \in Nat /\ r <= r + last /\ last <= r + last  BY <2>1
      <4>2. QED  BY <4>1
    <3>2. T # {} /\ \A t \in T : t \in Nat /\ t <= q  BY <2>1, <3>1
    <3>3. r \in T /\ last \in T  OBVIOUS
    <3> HIDE DEF T
    <3>4. Max(T) \in T /\ \A t \in T : t <= Max(T)  BY <3>2, MaxIsGreatest
    <3>5. Max(T) \in Nat /\ r <= Max(T) /\ last <= Max(T)  BY <3>2, <3>3, <3>4
    <3>6. QED  BY <3>5 DEF T
  <2>7. PICK top \in Nat : top = Max({r, last}) /\ r <= top /\ last <= top  BY <2>6
  <2>8. \A j \in Reads(d[r]) : j \in Bytes /\ j \in Nat /\ j <= top
    <3> TAKE j \in Reads(d[r])
    <3>1. j \in Bytes /\ j \in Nat /\ (j <= r \/ j < EndOf(0))  BY <2>1, <2>3
    <3>2. QED  BY <1>1, <2>1, <2>5, <2>7, <3>1
  <2>9. ASSUME NEW j \in Reads(d[r]) \cap Bytes  PROVE Span(j) \subseteq 0..top
    <3>1. Span(j) \subseteq 0..j /\ j \in Nat /\ j <= top  BY <1>1, <2>8, SpanIs
    <3>2. 0..j \subseteq 0..top  BY <3>1
    <3>3. QED  BY <3>1, <3>2
  <2>10. Reads(d[r]) \cap BlockRows = {}
    <3>1. \A c \in BlockRows : c \notin Bytes
      <4> TAKE c \in BlockRows
      <4>1. c \in Rows /\ ~(c < N)  BY <1>1, BlockStartIs
      <4>2. QED  BY <2>1, <4>1
    <3>2. QED  BY <2>8, <3>1
  <2>11. BytesRead(d[r]) = UNION {Span(j) : j \in Reads(d[r]) \cap Bytes}  BY <2>10 DEF BytesRead
  <2>12. BytesRead(d[r]) \subseteq 0..top  BY <2>9, <2>11
  <2>13. QED  BY <1>1, <2>5, <2>7, <2>12
<1>4. QED  BY <1>2, <1>3 DEF CleanCausal

(* CleanCausal holds in every pass: no clean row of the decoder depends on *)
(* a byte after its own, but for the bytes of the first patch, and equal   *)
(* n-grams embed alike wherever they stand.                                *)
THEOREM CleanRowsAreCausal == PassSpec => []CleanCausal
BY PassInvHolds, CausalInv, PTL

-----------------------------------------------------------------------------
(* What it says of blocks.                                                 *)
LEMMA PrefixInv == PassInv => BlockReadsItsPrefix
<1> SUFFICES ASSUME PassInv PROVE BlockReadsItsPrefix  OBVIOUS
<1>1. pass \in Passes /\ N \in Nat \ {0} /\ Bytes = 0..(N - 1)
  <2>1. pass \in Passes  BY DEF PassInv
  <2>2. QED  BY <2>1, CallIs DEF Bytes
<1>2. ASSUME Called, Diffusion
      PROVE  /\ BlockDiffusionAccepts(DiffusionMask)
             /\ BlockDiffusionMaskCuda(DiffusionMask) = BlockDiffusionMask(DiffusionMask)
  BY <1>1, <1>2, DecoderKeysAre
<1>3. ASSUME Decoded, NEW r \in BlockRows
      PROVE  BytesRead(d[r]) = 0..(BlockOf(r) - 1) \cup
                 {Position(c) : c \in {e \in OwnBlock(r) : pass.learned /\ Valid(e) /\ e \notin masked}}
  <2>1. r \in Rows /\ BlockOf(r) \in Nat /\ BlockOf(r) <= N  BY <1>1, BlockStartIs
  <2>2. Reads(d[r]) = CellContext(r)
    <3>1. Rowed(d, Rows, Rows) /\ BlocksFull(d)
      BY <1>3 DEF PassInv, Decoded, DecoderReads
    <3>2. Seen(d[r]) = CellContext(r)  BY <3>1 DEF BlocksFull
    <3>3. QED  BY <2>1, <3>1, <3>2, ReadsIs
  <2>3. Reads(d[r]) \cap Bytes = 0..(BlockOf(r) - 1)
    <3>1. \A a \in Bytes : a \in Rows /\ a \in Nat /\ a < N  BY <1>1, BytesIs DEF Rows
    <3>2. PICK s \in Nat : s = BlockOf(r) /\ s <= N  BY <2>1
    <3>3. Reads(d[r]) \cap Bytes = {a \in Bytes : a < s}  BY <2>2, <3>1, <3>2 DEF CellContext
    <3>4. \A a : a \in Bytes /\ a < s <=> a \in 0..(s - 1)
      <4>1. \A a : a \in 0..(N - 1) /\ a < s <=> a \in 0..(s - 1)  BY <1>1, <3>2
      <4>2. QED  BY <1>1, <4>1
    <3>5. QED  BY <3>2, <3>3, <3>4
  <2>4. Reads(d[r]) \cap BlockRows = {c \in OwnBlock(r) : pass.learned}
    <3>1. \A c \in BlockRows : c \in Rows /\ ~(c < N)  BY <1>1, BlockStartIs
    <3>2. QED  BY <2>2, <3>1 DEF CellContext, OwnBlock
  <2>5. UNION {Span(j) : j \in 0..(BlockOf(r) - 1)} = 0..(BlockOf(r) - 1)
    <3>1. PICK s \in Nat : s = BlockOf(r)  BY <2>1
    <3>2. ASSUME NEW j \in 0..(s - 1)  PROVE j \in Span(j) /\ Span(j) \subseteq 0..(s - 1)
      <4>1. j \in Bytes /\ j \in Nat  BY <2>3, <3>1
      <4>2. j \in Span(j) /\ Span(j) \subseteq 0..j  BY <1>1, <4>1, SpanIs
      <4>3. 0..j \subseteq 0..(s - 1)  BY <4>1
      <4>4. QED  BY <4>2, <4>3
    <3>3. UNION {Span(j) : j \in 0..(s - 1)} = 0..(s - 1)  BY <3>2
    <3>4. QED  BY <3>1, <3>3
  <2>6. {e \in Reads(d[r]) \cap BlockRows : Valid(e) /\ e \notin masked}
          = {e \in OwnBlock(r) : pass.learned /\ Valid(e) /\ e \notin masked}
    BY <2>4
  <2>7. QED  BY <2>3, <2>5, <2>6 DEF BytesRead
<1>4. QED  BY <1>2, <1>3 DEF BlockReadsItsPrefix

(* BlockReadsItsPrefix holds in every pass: in training and in inference   *)
(* alike a row of a block depends on every byte before the block and,      *)
(* beyond those, on exactly the tokens of the block that it is not asked   *)
(* to predict.                                                             *)
THEOREM BlocksReadTheirPrefix == PassSpec => []BlockReadsItsPrefix
BY PassInvHolds, PrefixInv, PTL
=============================================================================
