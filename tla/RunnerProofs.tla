---------------------------- MODULE RunnerProofs ----------------------------
(***************************************************************************)
(* Proofs about what runs leave behind: the sweep trainer (Sweep), for     *)
(* every manifest in order, every window length, every patching rule and   *)
(* any number of invocations; the wrapper of a training run (Metrics), for *)
(* any number of events, wherever its reads fall in their lines; and the   *)
(* kernels a run launches (Kernels), for every size of block and grid.     *)
(***************************************************************************)
EXTENDS Sweep, Metrics, Kernels, NumberProofs, SequenceTheorems, FunctionTheorems

(* The sequences that flattening a sequence of sequences goes through.     *)
Flattens(f, seqs, X) ==
    /\ f[1] = seqs[1]
    /\ \A k \in 2..Len(seqs) : f[k] = f[k - 1] \o seqs[k]
    /\ \A k \in 1..Len(seqs) : f[k] \in Seq(X)

(* Flattening a sequence of sequences, unrolled: a function of the number  *)
(* of parts already appended.                                              *)
LEMMA FlattenIs ==
    ASSUME NEW X, NEW seqs \in Seq(Seq(X)), Len(seqs) >= 1
    PROVE  \E f : Flattens(f, seqs, X) /\ FlattenSeq(seqs) = f[Len(seqs)]
<1> DEFINE m == Len(seqs)
           Unroll(f) == [k \in 1..m |-> IF k = 1 THEN seqs[k] ELSE f[k - 1] \o seqs[k]]
           F == [k \in 1..m - 1 |-> [s \in Seq(X) |-> s \o seqs[k + 1]]]
           g == CHOOSE f : f = Unroll(f)
           P == {k \in 0..m - 1 : g[k + 1] \in Seq(X)}
<1>1. m \in Nat \ {0} /\ m - 1 \in Nat /\ \A k \in 1..m : seqs[k] \in Seq(X)
  BY LenProperties
<1>2. FlattenSeq(seqs) = g[m]  BY <1>1 DEF FlattenSeq
<1>3. \E f : f = Unroll(f)
  <2>1. F \in [1..m - 1 -> [Seq(X) -> Seq(X)]]
    <3>1. ASSUME NEW k \in 1..m - 1, NEW s \in Seq(X)  PROVE s \o seqs[k + 1] \in Seq(X)
      BY <1>1, ConcatProperties
    <3>2. QED  BY <3>1
  <2>2. \A k \in 1..m - 1, s \in Seq(X) : F[k][s] = s \o seqs[k + 1]  OBVIOUS
  <2>3. seqs[1] \in Seq(X)  BY <1>1
  <2> HIDE DEF F
  <2>4. PICK h : Recurses(h, m - 1, Seq(X), seqs[1], F)
    <3>1. PICK p \in Nat, x \in Seq(X) : p = m - 1 /\ x = seqs[1]  BY <1>1, <2>3
    <3>2. F \in [1..p -> [Seq(X) -> Seq(X)]]  BY <2>1, <3>1
    <3>3. \E h : Recurses(h, p, Seq(X), x, F)
      <4> HIDE DEF m, Unroll, g, P
      <4> QED  BY <3>2, RecursionExists, Zenon
    <3>4. QED  BY <3>1, <3>3
  <2>5. /\ h \in [0..m - 1 -> Seq(X)] /\ h[0] = seqs[1]
        /\ \A k \in 1..m - 1 : h[k] = F[k][h[k - 1]]
    BY <2>4 DEF Recurses
  <2> DEFINE f == [k \in 1..m |-> h[k - 1]]
  <2>6. f = Unroll(f)
    <3>1. ASSUME NEW k \in 1..m  PROVE f[k] = Unroll(f)[k]
      <4>1. CASE k = 1  BY <2>5, <4>1
      <4>2. CASE k # 1
        <5>1. k - 1 \in 1..m - 1 /\ k - 1 \in 1..m /\ (k - 1) - 1 \in 0..m - 1 /\ (k - 1) + 1 = k
          BY <1>1, <4>2
        <5>2. h[k - 1] = h[(k - 1) - 1] \o seqs[k]  BY <2>2, <2>5, <5>1
        <5>3. QED  BY <4>2, <5>1, <5>2
      <4>3. QED  BY <4>1, <4>2
    <3>2. QED  BY <3>1
  <2>7. QED  BY <2>6
<1>4. g = Unroll(g)
  <2> HIDE DEF Unroll
  <2> QED  BY <1>3
<1>5. g[1] = seqs[1] /\ \A k \in 2..m : g[k] = g[k - 1] \o seqs[k]
  <2> HIDE DEF g
  <2>1. ASSUME NEW k \in 1..m  PROVE g[k] = IF k = 1 THEN seqs[k] ELSE g[k - 1] \o seqs[k]
    BY <1>4, <2>1
  <2>2. g[1] = seqs[1]
    <3>1. 1 \in 1..m  BY <1>1
    <3>2. QED  BY <2>1, <3>1
  <2>3. ASSUME NEW k \in 2..m  PROVE g[k] = g[k - 1] \o seqs[k]
    <3>1. k \in 1..m /\ k # 1  BY <1>1
    <3>2. QED  BY <2>1, <3>1
  <2>4. QED  BY <2>2, <2>3
<1> HIDE DEF g
<1>6. \A k \in 0..m - 1 : k \in P
  <2>1. 0 \in P  BY <1>1, <1>5
  <2>2. ASSUME NEW k \in 1..m - 1, k - 1 \in P  PROVE k \in P
    <3>1. k + 1 \in 2..m /\ k + 1 \in 1..m /\ (k - 1) + 1 = (k + 1) - 1  BY <1>1
    <3>2. g[(k + 1) - 1] \in Seq(X)  BY <2>2, <3>1
    <3>3. g[(k + 1) - 1] \o seqs[k + 1] \in Seq(X)  BY <1>1, <3>1, <3>2, ConcatProperties
    <3>4. g[k + 1] = g[(k + 1) - 1] \o seqs[k + 1]  BY <1>5, <3>1
    <3>5. k \in 0..m - 1  BY <1>1
    <3>6. QED  BY <3>3, <3>4, <3>5
  <2> HIDE DEF P
  <2>3. QED  BY <1>1, <2>1, <2>2, InductionUpTo
<1>7. \A k \in 1..m : g[k] \in Seq(X)
  <2> TAKE k \in 1..m
  <2>1. k - 1 \in 0..m - 1 /\ (k - 1) + 1 = k  BY <1>1
  <2>2. QED  BY <1>6, <2>1
<1>8. Flattens(g, seqs, X)  BY <1>5, <1>7 DEF Flattens
<1>9. QED  BY <1>2, <1>8
-----------------------------------------------------------------------------
(***************************************************************************)
(* Carving.  Windows of length w, each inside one of the first m entries,  *)
(* in order and apart.                                                     *)
(***************************************************************************)
Inside(x, w, e) == e.offset >= 0 /\ x >= e.offset /\ x + w <= e.offset + e.length
Apart(ws, w) == \A k \in 1..(Len(ws) - 1) : ws[k] + w <= ws[k + 1]
CarvedFrom(ws, w, entries, m) ==
    /\ ws \in Seq(Int) /\ Apart(ws, w)
    /\ \A k \in 1..Len(ws) : \E j \in 1..m : Inside(ws[k], w, entries[j])

(* Windows one after another from an offset.                               *)
Spaced(o, w, q) == [k \in 1..q |-> o + (k - 1) * w]

(* The windows carved from one document lie inside it, in order and apart  *)
(* (the loop of build_windows).                                            *)
LEMMA SpacedWindows ==
    ASSUME NEW o \in Nat, NEW l \in Nat, NEW w \in Nat \ {0}, NEW q \in Nat, q * w <= l
    PROVE  LET ws == Spaced(o, w, q)
           IN  /\ ws \in Seq(Int) /\ Len(ws) = q /\ Apart(ws, w)
               /\ \A k \in 1..q : ws[k] >= o /\ ws[k] + w <= o + l
               /\ \A j, k \in 1..q : j < k => ws[j] < ws[k]
<1> DEFINE ws == Spaced(o, w, q)
<1>0. ws = [k \in 1..q |-> o + (k - 1) * w]  BY DEF Spaced
<1> HIDE DEF ws
<1>1. ws \in Seq(Int) /\ Len(ws) = q
  <2>1. \A k \in 1..q : o + (k - 1) * w \in Int  OBVIOUS
  <2>2. ws \in [1..q -> Int]  BY <1>0, <2>1
  <2>3. QED  BY <2>2
<1>2. Apart(ws, w)
  <2>1. ASSUME NEW k \in 1..q - 1  PROVE ws[k] + w <= ws[k + 1]
    <3>1. k \in 1..q /\ k + 1 \in 1..q /\ k \in Nat  OBVIOUS
    <3>2. (k - 1) * w + w = k * w /\ (k + 1) - 1 = k  BY <3>1
    <3>3. (k - 1) * w \in Int /\ k * w \in Int  BY <3>1
    <3>4. ws[k] = o + (k - 1) * w /\ ws[k + 1] = o + k * w  BY <1>0, <3>1, <3>2
    <3>5. QED  BY <3>2, <3>3, <3>4
  <2>2. QED  BY <1>1, <2>1 DEF Apart
<1>3. ASSUME NEW k \in 1..q  PROVE ws[k] >= o /\ ws[k] + w <= o + l
  <2>1. PICK r \in Nat, z \in Nat : q = z + 1 + r /\ k = z + 1
    <3>1. k - 1 \in Nat /\ q - k \in Nat  OBVIOUS
    <3>2. QED  BY <3>1
  <2>2. z * w \in Nat /\ r * w \in Nat /\ q * w = z * w + w + r * w  BY <2>1
  <2>3. ws[k] = o + z * w  BY <1>0, <2>1
  <2>4. QED  BY <2>2, <2>3
<1>4. ASSUME NEW j \in 1..q, NEW k \in 1..q, j < k  PROVE ws[j] < ws[k]
  <2>1. PICK r \in Nat, z \in Nat : j = z + 1 /\ k = z + 1 + r + 1
    <3>1. j - 1 \in Nat /\ (k - j) - 1 \in Nat  BY <1>4
    <3>2. QED  BY <3>1
  <2>2. z * w \in Nat /\ r * w \in Nat /\ (z + r + 1) * w = z * w + w + r * w  BY <2>1
  <2>3. ws[j] = o + z * w /\ ws[k] = o + (z + r + 1) * w  BY <1>0, <2>1
  <2>4. QED  BY <2>2, <2>3
<1>5. QED  BY <1>1, <1>2, <1>3, <1>4 DEF ws

(* The windows of one entry.                                               *)
LEMMA WindowsOfEntry ==
    ASSUME NEW e \in Entry, NEW w \in Nat \ {0}
    PROVE  /\ WindowsOf(e, w) \in Seq(Int) /\ Apart(WindowsOf(e, w), w)
           /\ \A k \in 1..Len(WindowsOf(e, w)) : Inside(WindowsOf(e, w)[k], w, e)
           /\ e.offset >= 0 => e.length < Len(WindowsOf(e, w)) * w + w
           /\ \A j, k \in 1..Len(WindowsOf(e, w)) :
                  j < k => WindowsOf(e, w)[j] < WindowsOf(e, w)[k]
<1> DEFINE ws == WindowsOf(e, w)
<1>1. e.offset \in Int /\ e.length \in Int  BY DEF Entry
<1>2. CASE e.offset < 0 \/ e.length < w
  <2>1. ws = <<>>  BY <1>2 DEF WindowsOf
  <2>2. ws \in Seq(Int) /\ Len(ws) = 0  BY <2>1
  <2>3. e.offset >= 0 => e.length < Len(ws) * w + w  BY <1>1, <1>2, <2>2
  <2> HIDE DEF ws
  <2>4. QED  BY <2>2, <2>3 DEF ws, Apart
<1>3. CASE ~(e.offset < 0 \/ e.length < w)
  <2>1. PICK l \in Nat, o \in Nat : l = e.length /\ o = e.offset  BY <1>1, <1>3
  <2>2. PICK q \in Nat : q = l \div w /\ l = w * q + (l % w) /\ l % w \in 0..w - 1
    BY DivisionIs
  <2>3. ws = Spaced(o, w, q)  BY <1>3, <2>1, <2>2 DEF WindowsOf, PerEntry, Spaced
  <2>4. q * w <= l /\ l < q * w + w  BY <2>2
  <2> HIDE DEF ws
  <2>5. /\ ws \in Seq(Int) /\ Len(ws) = q /\ Apart(ws, w)
        /\ \A k \in 1..q : ws[k] >= o /\ ws[k] + w <= o + l
        /\ \A j, k \in 1..q : j < k => ws[j] < ws[k]
    <3>1. /\ Spaced(o, w, q) \in Seq(Int) /\ Len(Spaced(o, w, q)) = q /\ Apart(Spaced(o, w, q), w)
          /\ \A k \in 1..q : Spaced(o, w, q)[k] >= o /\ Spaced(o, w, q)[k] + w <= o + l
          /\ \A j, k \in 1..q : j < k => Spaced(o, w, q)[j] < Spaced(o, w, q)[k]
      BY <2>4, SpacedWindows, Zenon
    <3>2. QED  BY <2>3, <3>1
  <2>6. \A k \in 1..q : Inside(ws[k], w, e)  BY <2>1, <2>5 DEF Inside
  <2>7. e.length < Len(ws) * w + w  BY <2>1, <2>4, <2>5
  <2>8. QED  BY <2>5, <2>6, <2>7 DEF ws
<1>4. QED  BY <1>2, <1>3

(* The windows of the next entry come after those of the entries before.   *)
LEMMA NextEntry ==
    ASSUME NEW entries \in Seq(Entry), InOrder(entries), NEW w \in Nat \ {0},
           NEW m \in 1..Len(entries), NEW ws, CarvedFrom(ws, w, entries, m - 1)
    PROVE  CarvedFrom(ws \o WindowsOf(entries[m], w), w, entries, m)
<1> DEFINE vs == WindowsOf(entries[m], w)
           all == ws \o vs
<1>1. m \in Nat \ {0} /\ entries[m] \in Entry /\ DOMAIN entries = 1..Len(entries) /\
      Len(entries) \in Nat
  BY LenProperties
<1>2. /\ vs \in Seq(Int) /\ Apart(vs, w)
      /\ \A k \in 1..Len(vs) : Inside(vs[k], w, entries[m])
  BY <1>1, WindowsOfEntry
<1> HIDE DEF vs
<1>3. /\ ws \in Seq(Int) /\ Apart(ws, w)
      /\ \A k \in 1..Len(ws) : \E j \in 1..m - 1 : Inside(ws[k], w, entries[j])
  BY DEF CarvedFrom
<1>4. /\ all \in Seq(Int) /\ Len(all) = Len(ws) + Len(vs) /\ Len(ws) \in Nat /\ Len(vs) \in Nat
      /\ \A k \in 1..Len(all) : all[k] = IF k <= Len(ws) THEN ws[k] ELSE vs[k - Len(ws)]
  BY <1>2, <1>3, ConcatProperties, LenProperties
<1> HIDE DEF all
<1>5. ASSUME NEW k \in 1..Len(all) - 1  PROVE all[k] + w <= all[k + 1]
  <2>1. k \in 1..Len(all) /\ k + 1 \in 1..Len(all)  BY <1>4
  <2>2. CASE k + 1 <= Len(ws)
    <3>1. k \in 1..Len(ws) - 1 /\ k <= Len(ws)  BY <1>4, <2>2
    <3>2. ws[k] + w <= ws[k + 1]  BY <1>3, <3>1 DEF Apart
    <3>3. QED  BY <1>4, <2>1, <2>2, <3>1, <3>2
  <2>3. CASE k = Len(ws)
    <3>1. 1 \in 1..Len(vs) /\ k \in 1..Len(ws) /\ ~(k + 1 <= Len(ws)) /\ (k + 1) - Len(ws) = 1
      BY <1>4, <2>1, <2>3
    <3>2. all[k] = ws[k] /\ all[k + 1] = vs[1]  BY <1>4, <2>1, <2>3, <3>1
    <3>3. PICK j \in 1..m - 1 : Inside(ws[k], w, entries[j])  BY <1>3, <3>1
    <3>4. j \in 1..Len(entries) /\ j < m /\ entries[j] \in Entry  BY <1>1
    <3>5. Inside(vs[1], w, entries[m])  BY <1>2, <3>1
    <3>6. entries[j].offset + entries[j].length <= entries[m].offset
      BY <1>1, <3>3, <3>4, <3>5 DEF InOrder, Inside
    <3>7. ws[k] \in Int /\ vs[1] \in Int  BY <1>2, <1>3, <3>1
    <3>8. /\ entries[j].offset \in Int /\ entries[j].length \in Int
          /\ entries[m].offset \in Int
      BY <1>1, <3>4 DEF Entry
    <3>9. QED  BY <3>2, <3>3, <3>5, <3>6, <3>7, <3>8, SMTT(30) DEF Inside
  <2>4. CASE k > Len(ws)
    <3>1. PICK l \in Nat : l = k - Len(ws) /\ l \in 1..Len(vs) - 1 /\ (k + 1) - Len(ws) = l + 1
      <4>1. PICK a \in Nat, b \in Nat : a = Len(ws) /\ b = Len(vs) /\ Len(all) = a + b
        BY <1>4
      <4>2. k \in 1..(a + b) - 1 /\ k > a  BY <2>4, <4>1
      <4>3. k - a \in Nat /\ k - a \in 1..b - 1 /\ (k + 1) - a = (k - a) + 1  BY <4>2
      <4>4. QED  BY <4>1, <4>3
    <3>2. vs[l] + w <= vs[l + 1]  BY <1>2, <3>1 DEF Apart
    <3>3. ~(k <= Len(ws)) /\ ~(k + 1 <= Len(ws))  BY <1>4, <2>4
    <3>4. all[k] = vs[l] /\ all[k + 1] = vs[l + 1]  BY <1>4, <2>1, <3>1, <3>3
    <3>5. QED  BY <3>2, <3>4
  <2>5. QED  BY <1>4, <2>2, <2>3, <2>4
<1>6. ASSUME NEW k \in 1..Len(all)  PROVE \E j \in 1..m : Inside(all[k], w, entries[j])
  <2>1. CASE k <= Len(ws)
    <3>1. k \in 1..Len(ws) /\ all[k] = ws[k]  BY <1>4, <2>1
    <3>2. PICK j \in 1..m - 1 : Inside(ws[k], w, entries[j])  BY <1>3, <3>1
    <3>3. j \in 1..m  BY <1>1
    <3>4. QED  BY <3>1, <3>2, <3>3
  <2>2. CASE ~(k <= Len(ws))
    <3>1. k - Len(ws) \in 1..Len(vs) /\ all[k] = vs[k - Len(ws)]  BY <1>4, <2>2
    <3>2. m \in 1..m  BY <1>1
    <3>3. QED  BY <1>2, <3>1, <3>2
  <2>3. QED  BY <2>1, <2>2
<1>7. CarvedFrom(all, w, entries, m)  BY <1>4, <1>5, <1>6 DEF CarvedFrom, Apart
<1>8. QED  BY <1>7 DEF all, vs

(* All entries together, with the cap.                                     *)
LEMMA CappedCarved ==
    ASSUME NEW ws, NEW w \in Nat, NEW entries, NEW m, CarvedFrom(ws, w, entries, m),
           NEW limit \in Nat, limit <= Len(ws)
    PROVE  CarvedFrom(SubSeq(ws, 1, limit), w, entries, m) /\ Len(SubSeq(ws, 1, limit)) = limit
<1> DEFINE s == SubSeq(ws, 1, limit)
<1>1. /\ ws \in Seq(Int) /\ Len(ws) \in Nat /\ Apart(ws, w)
      /\ \A k \in 1..Len(ws) : \E j \in 1..m : Inside(ws[k], w, entries[j])
  BY LenProperties DEF CarvedFrom
<1>2. s \in Seq(Int) /\ Len(s) = limit /\ \A k \in 1..limit : s[k] = ws[k]
  BY <1>1, SubSeqProperties
<1> HIDE DEF s
<1>3. \A k \in 1..limit - 1 : k \in 1..limit /\ k + 1 \in 1..limit /\ k \in 1..Len(ws) - 1
  BY <1>1
<1>4. Apart(s, w)  BY <1>1, <1>2, <1>3 DEF Apart
<1>5. \A k \in 1..limit : k \in 1..Len(ws)  BY <1>1
<1>6. \A k \in 1..Len(s) : \E j \in 1..m : Inside(s[k], w, entries[j])  BY <1>1, <1>2, <1>5
<1>7. CarvedFrom(s, w, entries, m) /\ Len(s) = limit  BY <1>2, <1>4, <1>6 DEF CarvedFrom
<1>8. QED  BY <1>7 DEF s

(* windows_from_manifest.                                                  *)
LEMMA ManifestIs ==
    ASSUME NEW entries \in Seq(Entry), InOrder(entries), NEW w \in Nat \ {0}, NEW limit \in Nat
    PROVE  /\ CarvedFrom(WindowsFromManifest(entries, w, limit), w, entries, Len(entries))
           /\ limit > 0 => Len(WindowsFromManifest(entries, w, limit)) <= limit
           /\ limit = 0 =>
                \A j \in 1..Len(entries) :
                    Range(WindowsOf(entries[j], w)) \subseteq Range(WindowsFromManifest(entries, w, limit))
<1> DEFINE m == Len(entries)
           seqs == [k \in DOMAIN entries |-> WindowsOf(entries[k], w)]
           all == FlattenSeq(seqs)
           Has(ws, k) == \A j \in 1..k : Range(WindowsOf(entries[j], w)) \subseteq Range(ws)
<1>1. m \in Nat /\ DOMAIN entries = 1..m /\ \A k \in 1..m : entries[k] \in Entry
  BY LenProperties
<1>2. \A k \in 1..m : WindowsOf(entries[k], w) \in Seq(Int)  BY <1>1, WindowsOfEntry
<1>3. seqs \in Seq(Seq(Int)) /\ Len(seqs) = m /\ \A k \in 1..m : seqs[k] = WindowsOf(entries[k], w)
  <2>1. seqs \in [1..m -> Seq(Int)]  BY <1>1, <1>2
  <2>2. QED  BY <1>1, <2>1
<1>4. CarvedFrom(<<>>, w, entries, 0)
  <2>1. <<>> \in Seq(Int) /\ Len(<<>>) = 0  OBVIOUS
  <2>2. QED  BY <2>1 DEF CarvedFrom, Apart
<1> HIDE DEF seqs
<1>5. CarvedFrom(all, w, entries, m) /\ Has(all, m)
  <2>1. CASE m = 0
    <3>1. all = seqs  BY <1>3, <2>1 DEF FlattenSeq
    <3>2. seqs = <<>>  BY <1>3, <2>1
    <3>3. CarvedFrom(all, w, entries, m)  BY <1>4, <2>1, <3>1, <3>2
    <3>4. QED  BY <2>1, <3>3
  <2>2. CASE m # 0
    <3>1. PICK f : Flattens(f, seqs, Int) /\ all = f[m]
      <4>1. Len(seqs) >= 1  BY <1>1, <1>3, <2>2
      <4> HIDE DEF m
      <4>2. QED  BY <1>3, <4>1, FlattenIs
    <3> HIDE DEF all
    <3> DEFINE P == {k \in 0..m - 1 : CarvedFrom(f[k + 1], w, entries, k + 1) /\ Has(f[k + 1], k + 1)}
    <3>2. m - 1 \in Nat  BY <1>1, <2>2
    <3>3. 0 \in P
      <4>1. 1 \in 1..m /\ f[1] = WindowsOf(entries[1], w)  BY <1>1, <1>3, <2>2, <3>1 DEF Flattens
      <4>2. CarvedFrom(<<>> \o WindowsOf(entries[1], w), w, entries, 1)
        <5>1. PICK z \in 1..Len(entries) : z = 1 /\ CarvedFrom(<<>>, w, entries, z - 1)
          BY <1>4, <4>1
        <5>2. CarvedFrom(<<>> \o WindowsOf(entries[z], w), w, entries, z)
          BY <5>1, NextEntry
        <5>3. QED  BY <5>1, <5>2
      <4>3. <<>> \o WindowsOf(entries[1], w) = WindowsOf(entries[1], w)  BY <1>2, <4>1
      <4>4. Has(f[1], 1)  BY <4>1
      <4>5. QED  BY <3>2, <4>1, <4>2, <4>3, <4>4
    <3>4. ASSUME NEW k \in 1..m - 1, k - 1 \in P  PROVE k \in P
      <4>1. k + 1 \in 1..m /\ k + 1 \in 2..m /\ k \in 1..m /\ (k + 1) - 1 = k /\ (k - 1) + 1 = k
        BY <1>1
      <4>2. CarvedFrom(f[k], w, entries, k) /\ Has(f[k], k)  BY <3>4, <4>1
      <4>3. f[k + 1] = f[k] \o WindowsOf(entries[k + 1], w) /\ f[k] \in Seq(Int)
        BY <1>3, <3>1, <4>1 DEF Flattens
      <4>4. CarvedFrom(f[k + 1], w, entries, k + 1)  BY <4>1, <4>2, <4>3, NextEntry
      <4>5. /\ Range(f[k]) \subseteq Range(f[k + 1])
            /\ Range(WindowsOf(entries[k + 1], w)) \subseteq Range(f[k + 1])
        <5> DEFINE c == f[k + 1]
        <5>1. PICK a \in Seq(Int), b \in Seq(Int) :
                a = f[k] /\ b = WindowsOf(entries[k + 1], w) /\ c = a \o b
          BY <1>2, <4>1, <4>3
        <5>2. /\ Len(a) \in Nat /\ Len(b) \in Nat /\ DOMAIN c = 1..Len(a) + Len(b)
              /\ DOMAIN a = 1..Len(a) /\ DOMAIN b = 1..Len(b)
              /\ \A x \in 1..Len(a) : c[x] = a[x]
              /\ \A x \in 1..Len(b) : c[Len(a) + x] = b[x]
          <6>1. Len(a) \in Nat /\ Len(b) \in Nat /\ DOMAIN a = 1..Len(a) /\ DOMAIN b = 1..Len(b)
            BY <5>1, LenProperties
          <6>2. c \in Seq(Int) /\ Len(c) = Len(a) + Len(b)
            BY <5>1, ConcatProperties
          <6>3. DOMAIN c = 1..Len(a) + Len(b)  BY <6>2, LenProperties
          <6>4. \A x \in 1..Len(a) + Len(b) : c[x] = IF x <= Len(a) THEN a[x] ELSE b[x - Len(a)]
            BY <5>1, <6>2, ConcatProperties
          <6>5. ASSUME NEW x \in 1..Len(a)  PROVE c[x] = a[x]
            <7>1. x \in 1..Len(a) + Len(b) /\ x <= Len(a)  BY <6>1
            <7>2. QED  BY <6>4, <7>1
          <6>6. ASSUME NEW x \in 1..Len(b)  PROVE c[Len(a) + x] = b[x]
            <7>1. /\ Len(a) + x \in 1..Len(a) + Len(b) /\ ~(Len(a) + x <= Len(a))
                  /\ (Len(a) + x) - Len(a) = x
              BY <6>1
            <7>2. QED  BY <6>4, <7>1
          <6>7. QED  BY <6>1, <6>3, <6>5, <6>6
        <5> HIDE DEF c
        <5>3. Range(a) \subseteq Range(c)  BY <5>2 DEF Range
        <5>4. Range(b) \subseteq Range(c)
          <6>1. ASSUME NEW x \in 1..Len(b)  PROVE b[x] \in Range(c)
            <7>1. Len(a) + x \in DOMAIN c  BY <5>2
            <7>2. QED  BY <5>2, <7>1 DEF Range
          <6>2. QED  BY <5>2, <6>1 DEF Range
        <5>5. QED  BY <5>1, <5>3, <5>4 DEF c
      <4>6. Has(f[k + 1], k + 1)
        <5> SUFFICES ASSUME NEW j \in 1..k + 1
                     PROVE  Range(WindowsOf(entries[j], w)) \subseteq Range(f[k + 1])
          OBVIOUS
        <5>1. CASE j = k + 1  BY <4>5, <5>1
        <5>2. CASE j # k + 1
          <6>1. j \in 1..k  BY <4>1, <5>2
          <6>2. QED  BY <4>2, <4>5, <6>1
        <5>3. QED  BY <5>1, <5>2
      <4>7. QED  BY <1>1, <4>4, <4>6
    <3>5. m - 1 \in P
      <4> HIDE DEF P
      <4>1. \A k \in 0..m - 1 : k \in P  BY <3>2, <3>3, <3>4, InductionUpTo
      <4>2. QED  BY <3>2, <4>1
    <3>6. (m - 1) + 1 = m  BY <1>1
    <3>7. QED  BY <3>1, <3>5, <3>6
  <2>3. QED  BY <2>1, <2>2
<1>6. WindowsFromManifest(entries, w, limit)
        = IF limit > 0 /\ Len(all) > limit THEN SubSeq(all, 1, limit) ELSE all
  BY DEF WindowsFromManifest, seqs
<1> HIDE DEF all
<1>7. Len(all) \in Nat  BY <1>5, LenProperties DEF CarvedFrom
<1>8. CASE limit > 0 /\ Len(all) > limit  BY <1>5, <1>6, <1>7, <1>8, CappedCarved
<1>9. CASE ~(limit > 0 /\ Len(all) > limit)  BY <1>5, <1>6, <1>7, <1>9
<1>10. QED  BY <1>8, <1>9

(* windows_from_stream carves the stream like a manifest of one entry.     *)
LEMMA StreamIs ==
    ASSUME NEW len \in Nat, NEW w \in Nat \ {0}, NEW limit \in Nat
    PROVE  LET ws == WindowsFromStream(len, w, limit)
           IN  /\ CarvedFrom(ws, w, <<[offset |-> 0, length |-> len]>>, 1)
               /\ limit > 0 => Len(ws) <= limit
<1> DEFINE ws == WindowsFromStream(len, w, limit)
           es == <<[offset |-> 0, length |-> len]>>
<1>1. PICK n \in Nat : n = len \div w /\ len = w * n + (len % w) /\ len % w \in 0..w - 1
  BY DivisionIs
<1>2. PICK q \in Nat : q = IF limit > 0 /\ n > limit THEN limit ELSE n  OBVIOUS
<1>3. q <= n /\ (limit > 0 => q <= limit)  BY <1>2
<1>4. q * w <= len
  <2>1. PICK r \in Nat : n = q + r
    <3>1. n - q \in Nat /\ n = q + (n - q)  BY <1>3
    <3>2. QED  BY <3>1
  <2>2. q * w \in Nat /\ r * w \in Nat /\ w * n = q * w + r * w  BY <2>1
  <2>3. QED  BY <1>1, <2>2
<1>5. PICK z \in Nat : z = 0  OBVIOUS
<1>6. ws = Spaced(z, w, q)
  <2>1. ws = [k \in 1..q |-> (k - 1) * w]  BY <1>1, <1>2 DEF WindowsFromStream
  <2>2. \A k \in 1..q : (k - 1) * w = z + (k - 1) * w
    <3>1. \A k \in 1..q : (k - 1) * w \in Int  OBVIOUS
    <3>2. QED  BY <1>5, <3>1
  <2> HIDE DEF ws
  <2>3. QED  BY <2>1, <2>2 DEF Spaced
<1> HIDE DEF ws
<1>7. /\ ws \in Seq(Int) /\ Len(ws) = q /\ Apart(ws, w)
      /\ \A k \in 1..q : ws[k] >= z /\ ws[k] + w <= z + len
  <2>1. /\ Spaced(z, w, q) \in Seq(Int) /\ Len(Spaced(z, w, q)) = q /\ Apart(Spaced(z, w, q), w)
        /\ \A k \in 1..q : Spaced(z, w, q)[k] >= z /\ Spaced(z, w, q)[k] + w <= z + len
        /\ \A j, k \in 1..q : j < k => Spaced(z, w, q)[j] < Spaced(z, w, q)[k]
    BY <1>4, SpacedWindows, Zenon
  <2>2. QED  BY <1>6, <2>1
<1>8. es[1].offset = 0 /\ es[1].length = len  OBVIOUS
<1>9. \A k \in 1..Len(ws) : \E j \in 1..1 : Inside(ws[k], w, es[j])
  BY <1>5, <1>7, <1>8 DEF Inside
<1>10. CarvedFrom(ws, w, es, 1)  BY <1>7, <1>9 DEF CarvedFrom
<1>11. QED  BY <1>3, <1>7, <1>10 DEF ws

(* A sequence of increasing numbers has as many values as places.          *)
LEMMA IncreasingFills ==
    ASSUME NEW ws \in Seq(Int), NEW S, IsFiniteSet(S), Range(ws) \subseteq S,
           \A j, k \in 1..Len(ws) : j < k => ws[j] < ws[k]
    PROVE  Cardinality(S) \in Nat /\ Len(ws) <= Cardinality(S)
<1>1. /\ Len(ws) \in Nat /\ DOMAIN ws = 1..Len(ws) /\ ws \in [1..Len(ws) -> Int]
      /\ \A k \in 1..Len(ws) : ws[k] \in Int
  BY LenProperties
<1>2. ws \in [1..Len(ws) -> S]  BY <1>1 DEF Range
<1>3. IsInjective(ws)
  <2>1. ASSUME NEW j \in 1..Len(ws), NEW k \in 1..Len(ws), ws[j] = ws[k]  PROVE j = k
    <3>1. ~(j < k) /\ ~(k < j)  BY <1>1, <2>1
    <3>2. QED  BY <1>1, <3>1
  <2>2. QED  BY <1>1, <2>1 DEF IsInjective
<1>4. ws \in Injection(1..Len(ws), S)  BY <1>2, <1>3 DEF Injection
<1>5. Cardinality(1..Len(ws)) <= Cardinality(S)  BY <1>4, FS_Injection
<1>6. PICK n \in Nat : n = Len(ws)  BY <1>1
<1>7. Cardinality(1..n) = n
  <2>1. 1 \in Int /\ n \in Int  OBVIOUS
  <2>2. Cardinality(1..n) = IF 1 > n THEN 0 ELSE n - 1 + 1  BY <2>1, FS_Interval
  <2>3. QED  BY <2>2
<1>8. Cardinality(S) \in Nat  BY FS_CardinalityType
<1>9. QED  BY <1>5, <1>6, <1>7, <1>8

(* The range of a sequence is finite.                                      *)
LEMMA RangeFinite ==
    ASSUME NEW ws \in Seq(Int)
    PROVE  IsFiniteSet(Range(ws))
<1>1. PICK n \in Nat : n = Len(ws) /\ DOMAIN ws = 1..n /\ ws \in [1..n -> Int]
  BY LenProperties
<1>2. ws \in Surjection(1..n, Range(ws))  BY <1>1 DEF Surjection, Range
<1>3. IsFiniteSet(1..n)
  <2>1. 1 \in Int /\ n \in Int  OBVIOUS
  <2>2. QED  BY <2>1, FS_Interval
<1>4. QED  BY <1>2, <1>3, FS_Surjection
-----------------------------------------------------------------------------
(***************************************************************************)
(* Patching.  From every position of a window, patches that meet up to its *)
(* end, of the lengths the rule gives at their starts.                     *)
(***************************************************************************)
Patch == [start : Nat, length : Nat]
PatchAt(s, lens) == [start |-> s, length |-> lens[s]]

Jumps(f, L, lens) ==
    f = [s \in 0..L |-> IF s >= L THEN <<>> ELSE <<PatchAt(s, lens)>> \o f[s + lens[s]]]

TilesFrom(ps, s, L, lens) ==
    /\ ps \in Seq(Patch)
    /\ s < L => Len(ps) >= 1 /\ ps[1].start = s
    /\ s = L => ps = <<>>
    /\ \A j \in 1..Len(ps) :
        /\ ps[j].start \in 0..L - 1 /\ ps[j].length = lens[ps[j].start]
        /\ ps[j].start + ps[j].length = IF j = Len(ps) THEN L ELSE ps[j + 1].start

Fits(L, lens) == L \in Nat /\ \A s \in 0..L - 1 : lens[s] \in 1..L - s

(* The recursion over the starts has a solution.                           *)
LEMMA JumpsExist ==
    ASSUME NEW L, NEW lens, Fits(L, lens)
    PROVE  \E f : Jumps(f, L, lens)
<1> DEFINE Val(t, s) == IF s >= L THEN <<>> ELSE <<PatchAt(s, lens)>> \o t[s + lens[s]]
           Solves(t, k) == \A s \in L - k..L : t[s] = Val(t, s)
           P == {k \in 0..L : \E t \in [0..L -> Seq(Patch)] : Solves(t, k)}
<1>1. L \in Nat /\ \A s \in 0..L - 1 : lens[s] \in Nat /\ s + lens[s] \in s + 1..L
  <2>1. L \in Nat /\ \A s \in 0..L - 1 : lens[s] \in 1..L - s  BY DEF Fits
  <2>2. ASSUME NEW s \in 0..L - 1  PROVE lens[s] \in Nat /\ s + lens[s] \in s + 1..L
    <3>1. PICK n \in Nat : n = lens[s] /\ n \in 1..L - s  BY <2>1
    <3>2. s + n \in s + 1..L  BY <2>1, <3>1
    <3>3. QED  BY <3>1, <3>2
  <2>3. QED  BY <2>1, <2>2
<1>2. 0 \in P
  <2> DEFINE t == [s \in 0..L |-> <<>>]
  <2>1. <<>> \in Seq(Patch)  OBVIOUS
  <2>2. t \in [0..L -> Seq(Patch)]  BY <2>1
  <2>3. \A s \in L - 0..L : s >= L /\ s \in 0..L  BY <1>1
  <2>4. Solves(t, 0)  BY <2>3
  <2>5. 0 \in 0..L  BY <1>1
  <2> HIDE DEF t, Solves
  <2>6. QED  BY <2>2, <2>4, <2>5
<1>3. ASSUME NEW k \in 1..L, k - 1 \in P  PROVE k \in P
  <2>1. PICK t \in [0..L -> Seq(Patch)] : Solves(t, k - 1)  BY <1>3
  <2>2. PICK z \in Nat : z = L - k /\ z \in 0..L - 1 /\ z < L
    <3>1. L - k \in Nat /\ L - k \in 0..L - 1 /\ L - k < L  BY <1>1
    <3>2. QED  BY <3>1
  <2>3. PICK n \in Nat : n = z + lens[z] /\ n \in z + 1..L
    <3>1. z + lens[z] \in z + 1..L /\ lens[z] \in Nat  BY <1>1, <2>2
    <3>2. z + lens[z] \in Nat  BY <3>1
    <3>3. QED  BY <3>1, <3>2
  <2> DEFINE x == <<PatchAt(z, lens)>> \o t[n]
             u == [t EXCEPT ![z] = x]
  <2>4. x \in Seq(Patch)
    <3>1. PatchAt(z, lens) \in Patch  BY <1>1, <2>2 DEF PatchAt, Patch
    <3>2. <<PatchAt(z, lens)>> \in Seq(Patch)  BY <3>1
    <3>3. n \in 0..L  BY <1>1, <2>3
    <3>4. t[n] \in Seq(Patch)  BY <3>3
    <3> HIDE DEF x
    <3>5. QED  BY <3>2, <3>4, ConcatProperties DEF x
  <2> HIDE DEF x
  <2>5. u \in [0..L -> Seq(Patch)]  BY <2>4
  <2>6. z \in 0..L  BY <1>1, <2>2
  <2>7. u[z] = x /\ \A s \in 0..L : s # z => u[s] = t[s]  BY <2>6
  <2> HIDE DEF u
  <2>8. ASSUME NEW s \in L - k..L  PROVE u[s] = Val(u, s)
    <3>1. s \in 0..L /\ s >= z  BY <1>1, <2>2
    <3>2. CASE s = z
      <4>1. n # z /\ n \in 0..L  BY <1>1, <2>2, <2>3
      <4>2. u[n] = t[n]  BY <2>7, <4>1
      <4>3. ~(s >= L)  BY <1>1, <2>2, <3>2
      <4>4. QED  BY <2>3, <2>7, <3>2, <4>2, <4>3 DEF x
    <3>3. CASE s # z
      <4>1. s \in L - (k - 1)..L  BY <1>1, <2>2, <3>1, <3>3
      <4>2. u[s] = t[s] /\ t[s] = Val(t, s)  BY <2>1, <2>7, <3>1, <3>3, <4>1
      <4>3. CASE s >= L  BY <4>2, <4>3
      <4>4. CASE ~(s >= L)
        <5>1. s \in 0..L - 1  BY <1>1, <3>1, <4>4
        <5>2. PICK q \in Nat : q = s + lens[s] /\ q \in s + 1..L
          <6>1. s + lens[s] \in s + 1..L /\ lens[s] \in Nat  BY <1>1, <5>1
          <6>2. s + lens[s] \in Nat  BY <5>1, <6>1
          <6>3. QED  BY <6>1, <6>2
        <5>3. q \in 0..L /\ q # z  BY <1>1, <2>2, <3>1, <5>2
        <5>4. QED  BY <2>7, <4>2, <4>4, <5>2, <5>3
      <4>5. QED  BY <4>3, <4>4
    <3>4. QED  BY <3>2, <3>3
  <2>9. Solves(u, k)  BY <2>8
  <2>10. k \in 0..L  BY <1>1
  <2> HIDE DEF Solves
  <2>11. QED  BY <2>5, <2>9, <2>10
<1>4. PICK t \in [0..L -> Seq(Patch)] : Solves(t, L)
  <2> HIDE DEF P
  <2>1. \A k \in 0..L : k \in P  BY <1>1, <1>2, <1>3, InductionUpTo
  <2>2. L \in 0..L  BY <1>1
  <2>3. L \in P  BY <2>1, <2>2
  <2>4. QED  BY <2>3 DEF P
<1>5. \A s \in 0..L : t[s] = Val(t, s)
  <2>1. \A s \in 0..L : s \in L - L..L  BY <1>1
  <2>2. QED  BY <1>4, <2>1
<1>6. Jumps(t, L, lens)  BY <1>5 DEF Jumps
<1>7. QED  BY <1>6

(* One patch before patches that tile the rest.                            *)
LEMMA OneMorePatch ==
    ASSUME NEW L, NEW lens, Fits(L, lens), NEW s \in 0..L - 1,
           NEW rest, TilesFrom(rest, s + lens[s], L, lens)
    PROVE  TilesFrom(<<PatchAt(s, lens)>> \o rest, s, L, lens)
<1> DEFINE ps == <<PatchAt(s, lens)>> \o rest
<1>1. PICK n \in Nat : n = s + lens[s] /\ n \in s + 1..L /\ L \in Nat /\ s \in Nat /\ lens[s] \in Nat
  <2>1. L \in Nat /\ lens[s] \in 1..L - s  BY DEF Fits
  <2>2. PICK d \in Nat : d = lens[s] /\ d \in 1..L - s  BY <2>1
  <2>3. s + d \in Nat /\ s + d \in s + 1..L /\ s \in Nat  BY <2>1, <2>2
  <2>4. QED  BY <2>1, <2>2, <2>3
<1>2. TilesFrom(rest, n, L, lens)  BY <1>1
<1>3. PICK r \in Nat : r = Len(rest) /\ rest \in Seq(Patch)  BY <1>2, LenProperties DEF TilesFrom
<1>4. <<PatchAt(s, lens)>> \in Seq(Patch) /\ Len(<<PatchAt(s, lens)>>) = 1
      /\ <<PatchAt(s, lens)>>[1] = PatchAt(s, lens)
  <2>1. PatchAt(s, lens) \in Patch  BY <1>1 DEF PatchAt, Patch
  <2>2. QED  BY <2>1
<1>5. /\ ps \in Seq(Patch) /\ Len(ps) = 1 + r
      /\ \A i \in 1..1 + r : ps[i] = IF i <= 1 THEN <<PatchAt(s, lens)>>[i] ELSE rest[i - 1]
  BY <1>3, <1>4, ConcatProperties
<1> HIDE DEF ps
<1>6. ps[1] = PatchAt(s, lens)
  <2>1. 1 \in 1..1 + r /\ 1 <= 1  BY <1>3
  <2>2. QED  BY <1>4, <1>5, <2>1
<1>7. \A i \in 1..r : ps[i + 1] = rest[i]
  <2> TAKE i \in 1..r
  <2>1. i + 1 \in 1..1 + r /\ ~(i + 1 <= 1) /\ (i + 1) - 1 = i  BY <1>3
  <2>2. QED  BY <1>5, <2>1
<1>8. ps[1].start = s /\ ps[1].length = lens[s]  BY <1>6 DEF PatchAt
<1>9. ASSUME NEW j \in 1..1 + r
      PROVE  /\ ps[j].start \in 0..L - 1 /\ ps[j].length = lens[ps[j].start]
             /\ ps[j].start + ps[j].length = IF j = 1 + r THEN L ELSE ps[j + 1].start
  <2>1. CASE j = 1
    <3>1. CASE n = L
      <4>1. r = 0
        <5>1. rest = <<>>  BY <1>2, <3>1 DEF TilesFrom
        <5>2. QED  BY <1>3, <5>1
      <4>2. QED  BY <1>1, <1>8, <2>1, <3>1, <4>1
    <3>2. CASE n # L
      <4>1. n < L  BY <1>1, <3>2
      <4>2. r >= 1 /\ rest[1].start = n  BY <1>2, <1>3, <4>1 DEF TilesFrom
      <4>3. 1 \in 1..r /\ j # 1 + r  BY <2>1, <4>2
      <4>4. ps[j + 1] = rest[1]  BY <1>7, <2>1, <4>3
      <4>5. QED  BY <1>1, <1>8, <2>1, <4>2, <4>3, <4>4
    <3>3. QED  BY <3>1, <3>2
  <2>2. CASE j # 1
    <3>1. PICK i \in 1..r : j = i + 1
      <4>1. j - 1 \in 1..r /\ j = (j - 1) + 1  BY <1>3, <2>2
      <4>2. QED  BY <4>1
    <3>2. ps[j] = rest[i]  BY <1>7, <3>1
    <3>3. /\ rest[i].start \in 0..L - 1 /\ rest[i].length = lens[rest[i].start]
          /\ rest[i].start + rest[i].length = IF i = r THEN L ELSE rest[i + 1].start
      BY <1>2, <1>3 DEF TilesFrom
    <3>4. (j = 1 + r) <=> (i = r)  BY <1>3, <3>1
    <3>5. i # r => rest[i + 1] = ps[j + 1]
      <4>1. ASSUME i # r  PROVE rest[i + 1] = ps[j + 1]
        <5>1. i + 1 \in 1..r /\ j + 1 = (i + 1) + 1  BY <1>3, <3>1, <4>1
        <5>2. QED  BY <1>7, <5>1
      <4>2. QED  BY <4>1
    <3>6. QED  BY <3>2, <3>3, <3>4, <3>5
  <2>3. QED  BY <2>1, <2>2
<1>10. s < L /\ ~(s = L) /\ 1 + r >= 1  BY <1>1, <1>3
<1>11. TilesFrom(ps, s, L, lens)  BY <1>5, <1>8, <1>9, <1>10 DEF TilesFrom
<1>12. QED  BY <1>11 DEF ps

(* Whatever solves it tiles the window from every start.                   *)
LEMMA JumpsTile ==
    ASSUME NEW L, NEW lens, Fits(L, lens), NEW f, Jumps(f, L, lens)
    PROVE  TilesFrom(f[0], 0, L, lens)
<1> DEFINE P == {k \in 0..L : \A s \in L - k..L : TilesFrom(f[s], s, L, lens)}
<1>1. L \in Nat /\ \A s \in 0..L - 1 : lens[s] \in 1..L - s  BY DEF Fits
<1>2. \A s \in 0..L : f[s] = IF s >= L THEN <<>> ELSE <<PatchAt(s, lens)>> \o f[s + lens[s]]
  BY DEF Jumps
<1>3. 0 \in P
  <2>1. ASSUME NEW s \in L - 0..L  PROVE TilesFrom(f[s], s, L, lens)
    <3>1. s = L /\ s \in 0..L /\ s >= L /\ ~(s < L)  BY <1>1
    <3>2. f[s] = <<>>  BY <1>2, <3>1
    <3>3. <<>> \in Seq(Patch) /\ Len(<<>>) = 0  OBVIOUS
    <3>4. QED  BY <3>1, <3>2, <3>3 DEF TilesFrom
  <2>2. 0 \in 0..L  BY <1>1
  <2>3. QED  BY <2>1, <2>2
<1>4. ASSUME NEW k \in 1..L, k - 1 \in P  PROVE k \in P
  <2>1. \A s \in L - (k - 1)..L : TilesFrom(f[s], s, L, lens)  BY <1>4
  <2>2. ASSUME NEW s \in L - k..L  PROVE TilesFrom(f[s], s, L, lens)
    <3>1. CASE s = L - k
      <4>1. s \in 0..L /\ s \in 0..L - 1 /\ ~(s >= L)  BY <1>1, <3>1
      <4>2. s + lens[s] \in L - (k - 1)..L
        <5>1. PICK d \in Nat : d = lens[s] /\ d \in 1..L - s  BY <1>1, <4>1
        <5>2. s + d \in L - (k - 1)..L  BY <1>1, <3>1, <4>1, <5>1
        <5>3. QED  BY <5>1, <5>2
      <4>3. TilesFrom(f[s + lens[s]], s + lens[s], L, lens)  BY <2>1, <4>2
      <4>4. f[s] = <<PatchAt(s, lens)>> \o f[s + lens[s]]  BY <1>2, <4>1
      <4>5. QED  BY <4>1, <4>3, <4>4, OneMorePatch
    <3>2. CASE s # L - k
      <4>1. s \in L - (k - 1)..L  BY <1>1, <3>2
      <4>2. QED  BY <2>1, <4>1
    <3>3. QED  BY <3>1, <3>2
  <2>3. k \in 0..L  BY <1>1
  <2>4. QED  BY <2>2, <2>3
<1>5. L \in P
  <2> HIDE DEF P
  <2>1. \A k \in 0..L : k \in P  BY <1>1, <1>3, <1>4, InductionUpTo
  <2>2. L \in 0..L  BY <1>1
  <2>3. QED  BY <2>1, <2>2
<1>6. 0 \in L - L..L  BY <1>1
<1>7. QED  BY <1>5, <1>6

(* The rules' lengths: at least one byte, inside the window, within the    *)
(* limit.                                                                  *)
Limit(c) == IF c.patcher = "fixed" THEN c.stride ELSE MaxPatchLength(c)

(* A patch of the sweep ends inside its window and within the limit.       *)
LEMMA LengthFits ==
    ASSUME NEW c \in Config, NEW s \in 0..c.seqLen - 1, NEW breaks
    PROVE  /\ PatchLength(c, s, breaks) \in 1..c.seqLen - s
           /\ PatchLength(c, s, breaks) \in 1..Limit(c)
<1>1. PICK L \in Nat \ {0}, d \in Nat \ {0}, x \in Nat : L = c.seqLen /\ d = c.stride /\ x = c.maxPatch
  BY DEF Config
<1>2. s \in 0..L - 1 /\ s \in Nat /\ L - s \in Nat \ {0}  BY <1>1
<1>3. CASE c.patcher = "fixed"
  <2>1. PatchLength(c, s, breaks) = IF s + d <= L THEN d ELSE L - s
    BY <1>1, <1>3 DEF PatchLength, FixedLength
  <2>2. Limit(c) = d  BY <1>1, <1>3 DEF Limit
  <2>3. QED  BY <1>1, <1>2, <2>1, <2>2
<1>4. CASE c.patcher # "fixed"
  <2>1. PICK m \in 1..L : m = MaxPatchLength(c)
    <3>1. L \in 1..L  BY <1>1
    <3>2. MaxPatchLength(c) \in 1..L  BY <1>1, <3>1 DEF MaxPatchLength
    <3>3. QED  BY <3>2
  <2>2. Limit(c) = m  BY <1>4, <2>1 DEF Limit
  <2> DEFINE S == {m, L - s}
             b == Min(S)
             Picks == {1} \cup {n \in 1..b : \A i \in 1..(n - 1) : s + i - 1 \notin breaks}
  <2>3. PatchLength(c, s, breaks) = Max(Picks)
    BY <1>1, <1>4, <2>1 DEF PatchLength, WhitespaceLength
  <2>4. b \in {m, L - s} /\ b <= m /\ b <= L - s
    <3>1. S \in SUBSET Nat /\ S # {} /\ m \in S /\ L - s \in S  BY <1>2
    <3> HIDE DEF S
    <3>2. b \in S /\ \A t \in S : b <= t  BY <3>1, MinIsLeast
    <3>3. QED  BY <3>1, <3>2 DEF S
  <2> HIDE DEF b
  <2>5. b \in Nat /\ b >= 1  BY <1>2, <2>1, <2>4
  <2>6. Picks # {} /\ \A t \in Picks : t \in Nat /\ t >= 1 /\ t <= b  BY <2>5
  <2> HIDE DEF Picks
  <2>7. Max(Picks) \in Picks  BY <2>5, <2>6, MaxIsGreatest
  <2>8. PICK n \in Nat : n = Max(Picks) /\ n >= 1 /\ n <= b  BY <2>6, <2>7
  <2>9. n \in 1..L - s /\ n \in 1..m  BY <1>2, <2>1, <2>4, <2>5, <2>8
  <2>10. QED  BY <1>1, <2>2, <2>3, <2>8, <2>9
<1>5. QED  BY <1>3, <1>4

(* build_fixed_patches and build_whitespace_patches tile the window.       *)
LEMMA PatchesTile ==
    ASSUME cfg \in Config, NEW breaks
    PROVE  Tiled(BuildPatches(cfg, breaks))
<1>1. PICK L \in Nat \ {0} : L = cfg.seqLen  BY DEF Config
<1> DEFINE lens == [s \in 0..L - 1 |-> PatchLength(cfg, s, breaks)]
           Unroll(f) == [start \in 0..cfg.seqLen |->
                         IF start >= cfg.seqLen THEN <<>>
                         ELSE LET len == PatchLength(cfg, start, breaks)
                              IN  <<[start |-> start, length |-> len]>> \o f[start + len]]
           g == CHOOSE f : f = Unroll(f)
           ps == g[0]
<1>2. BuildPatches(cfg, breaks) = ps  BY DEF BuildPatches
<1>3. \A s \in 0..L - 1 : /\ lens[s] = PatchLength(cfg, s, breaks)
                           /\ lens[s] \in 1..L - s /\ lens[s] \in 1..Limit(cfg)
  BY <1>1, LengthFits
<1>4. Fits(L, lens)  BY <1>3 DEF Fits
<1>5. ASSUME NEW f  PROVE f = Unroll(f) <=> Jumps(f, L, lens)
  <2> DEFINE New(s) == IF s >= L THEN <<>> ELSE <<PatchAt(s, lens)>> \o f[s + lens[s]]
  <2>1. ASSUME NEW s \in 0..L  PROVE Unroll(f)[s] = New(s)
    <3>1. CASE s >= L  BY <1>1, <3>1
    <3>2. CASE ~(s >= L)
      <4>1. s \in 0..L - 1  BY <3>2
      <4>2. lens[s] = PatchLength(cfg, s, breaks)  BY <1>3, <4>1
      <4> HIDE DEF lens
      <4>3. QED  BY <1>1, <3>2, <4>2 DEF PatchAt
    <3>3. QED  BY <3>1, <3>2
  <2>2. Unroll(f) = [s \in 0..L |-> New(s)]
    <3>1. Unroll(f) = [s \in 0..L |-> Unroll(f)[s]]  BY <1>1
    <3> HIDE DEF Unroll, New
    <3>2. QED  BY <2>1, <3>1
  <2> HIDE DEF Unroll, lens
  <2>3. QED  BY <2>2 DEF Jumps
<1> HIDE DEF Unroll, lens
<1>6. g = Unroll(g)
  <2>1. \E f : f = Unroll(f)  BY <1>4, <1>5, JumpsExist
  <2>2. QED  BY <2>1
<1> HIDE DEF g
<1>7. TilesFrom(ps, 0, L, lens)
  <2>1. Jumps(g, L, lens)  BY <1>5, <1>6
  <2>2. QED  BY <1>4, <2>1, JumpsTile
<1> HIDE DEF ps
<1>8. ps \in Seq(Patch) /\ DOMAIN ps = 1..Len(ps)  BY <1>7, LenProperties DEF TilesFrom
<1>9. ps[1].start = 0  BY <1>1, <1>7 DEF TilesFrom
<1>10. \A j \in 1..Len(ps) :
        /\ ps[j].length \in 1..Limit(cfg)
        /\ ps[j].start + ps[j].length = IF j = Len(ps) THEN L ELSE ps[j + 1].start
  BY <1>3, <1>7 DEF TilesFrom
<1>11. Tiled(ps)  BY <1>1, <1>8, <1>9, <1>10 DEF Tiled, Limit
<1>12. QED  BY <1>2, <1>11

(* What CarvedFrom says of the windows of the configuration.               *)
LEMMA CarvedMeans ==
    ASSUME NEW ws, NEW entries \in Seq(Entry), CarvedFrom(ws, cfg.seqLen, entries, Len(entries))
    PROVE  CarvedInside(ws, entries)
<1>1. /\ ws \in Seq(Int) /\ DOMAIN ws = 1..Len(ws) /\ Apart(ws, cfg.seqLen)
      /\ \A k \in 1..Len(ws) : \E j \in 1..Len(entries) : Inside(ws[k], cfg.seqLen, entries[j])
  BY LenProperties DEF CarvedFrom
<1>2. \A j \in 1..Len(entries) : entries[j] \in Range(entries)  BY LenProperties DEF Range
<1>3. \A k \in DOMAIN ws : \E e \in Range(entries) : Inside(ws[k], cfg.seqLen, e)
  BY <1>1, <1>2
<1>4. QED  BY <1>1, <1>3 DEF CarvedInside, Apart, Inside

(* No window that would fit in an entry is left out.                       *)
LEMMA NothingLeftOut ==
    ASSUME cfg \in Config, InOrder(cfg.train)
    PROVE  NoneLeftOut
<1>1. PICK w \in Nat \ {0} : w = cfg.seqLen  BY DEF Config
<1>2. cfg.train \in Seq(Entry) /\ DOMAIN cfg.train = 1..Len(cfg.train)
  BY LenProperties DEF Config
<1>3. /\ Windows \in Seq(Int)
      /\ \A j \in 1..Len(cfg.train) : Range(WindowsOf(cfg.train[j], w)) \subseteq Range(Windows)
  <2>1. PICK z \in Nat : z = 0  OBVIOUS
  <2>2. /\ CarvedFrom(WindowsFromManifest(cfg.train, w, z), w, cfg.train, Len(cfg.train))
        /\ z = 0 => \A j \in 1..Len(cfg.train) :
              Range(WindowsOf(cfg.train[j], w)) \subseteq Range(WindowsFromManifest(cfg.train, w, z))
    BY <1>2, ManifestIs
  <2>3. QED  BY <1>1, <2>1, <2>2 DEF Windows, CarvedFrom
<1> SUFFICES ASSUME NEW k \in 1..Len(cfg.train), cfg.train[k].offset >= 0
             PROVE  LET e == cfg.train[k]
                        inside == {x \in Range(Windows) : x >= e.offset /\ x < e.offset + e.length}
                    IN  e.length - Cardinality(inside) * cfg.seqLen < cfg.seqLen
  BY <1>2 DEF NoneLeftOut
<1> DEFINE e == cfg.train[k]
           inside == {x \in Range(Windows) : x >= e.offset /\ x < e.offset + e.length}
           vs == WindowsOf(e, w)
<1>4. e \in Entry  BY <1>2
<1> HIDE DEF e
<1>5. e.offset \in Int /\ e.length \in Int  BY <1>4 DEF Entry
<1>6. /\ vs \in Seq(Int) /\ \A j \in 1..Len(vs) : Inside(vs[j], w, e)
      /\ e.offset >= 0 => e.length < Len(vs) * w + w
      /\ \A i, j \in 1..Len(vs) : i < j => vs[i] < vs[j]
  BY <1>4, WindowsOfEntry
<1>7. Range(vs) \subseteq Range(Windows)  BY <1>3 DEF e
<1> HIDE DEF vs
<1>8. Range(vs) \subseteq inside
  <2>1. ASSUME NEW j \in 1..Len(vs)  PROVE vs[j] \in inside
    <3>1. vs[j] \in Range(Windows)  BY <1>6, <1>7, LenProperties DEF Range
    <3>2. vs[j] \in Int  BY <1>6
    <3>3. vs[j] >= e.offset /\ vs[j] + w <= e.offset + e.length  BY <1>6 DEF Inside
    <3>4. vs[j] < e.offset + e.length  BY <1>5, <3>2, <3>3
    <3>5. QED  BY <3>1, <3>3, <3>4
  <2> HIDE DEF inside
  <2>2. QED  BY <1>6, <2>1, LenProperties DEF Range
<1>9. IsFiniteSet(inside)
  <2>1. IsFiniteSet(Range(Windows))  BY <1>3, RangeFinite
  <2>2. inside \in SUBSET Range(Windows)  OBVIOUS
  <2> HIDE DEF inside
  <2>3. QED  BY <2>1, <2>2, FS_Subset
<1> HIDE DEF inside
<1>10. Cardinality(inside) \in Nat /\ Len(vs) <= Cardinality(inside)
  BY <1>6, <1>8, <1>9, IncreasingFills
<1>11. PICK n \in Nat, q \in Nat, r \in Nat : n = Cardinality(inside) /\ q = Len(vs) /\ n = q + r
  <2>1. PICK n \in Nat, q \in Nat : n = Cardinality(inside) /\ q = Len(vs) /\ q <= n
    BY <1>6, <1>10, LenProperties
  <2>2. n - q \in Nat /\ n = q + (n - q)  BY <2>1
  <2>3. QED  BY <2>1, <2>2
<1>12. n * w = q * w + r * w /\ r * w \in Nat /\ q * w \in Nat  BY <1>11
<1>13. e.length < q * w + w  BY <1>6, <1>11 DEF e
<1>14. e.length - n * w < w
  <2>1. PICK x \in Int, a \in Nat, b \in Nat : x = e.length /\ a = q * w /\ b = r * w /\ n * w = a + b
    BY <1>5, <1>12
  <2>2. x < a + w  BY <1>13, <2>1
  <2>3. x - (a + b) < w  BY <2>2
  <2>4. QED  BY <2>1, <2>3
<1>15. QED  BY <1>1, <1>11, <1>14 DEF e, inside

(* For every manifest in order, every window length, cap and patching rule *)
(* and every placement of the breaks: training and held-out windows lie    *)
(* inside the entries, apart and in order, none that fits is left out, the *)
(* cap is kept, and the patches of a window tile it within their limit     *)
(* (windows_from_manifest, windows_from_stream, build_fixed_patches,       *)
(* build_whitespace_patches).                                              *)
THEOREM WindowsAreCarved == Spec => []Carved
<1> DEFINE Chosen == cfg \in Configs
<1>1. Init => Chosen  BY DEF Init
<1>2. Chosen /\ [Next]_vars => Chosen'
  BY DEF Next, vars, Start, Signal, Kill, WarmupStep, WarmupStopped, WarmupDone, TrainStopped,
         WallClockGuard, TrainStep, Evaluate, TrainDone, FinalEvaluation, AppendLine,
         WriteFails, Return, Fail
<1>3. Chosen => Carved
  <2> SUFFICES ASSUME Chosen  PROVE Carved  OBVIOUS
  <2>1. cfg \in Config /\ InOrder(cfg.train) /\ InOrder(cfg.heldout)  BY SweepAssumption
  <2>2. PICK w \in Nat \ {0}, cap \in Nat, len \in Nat :
            w = cfg.seqLen /\ cap = cfg.cap /\ len = cfg.streamLen
    BY <2>1 DEF Config
  <2>3. cfg.train \in Seq(Entry) /\ cfg.heldout \in Seq(Entry)  BY <2>1 DEF Config
  <2>4. CarvedInside(Windows, cfg.train)
    <3>1. PICK z \in Nat : z = 0  OBVIOUS
    <3>2. CarvedFrom(WindowsFromManifest(cfg.train, w, z), w, cfg.train, Len(cfg.train))
      BY <2>1, <2>3, ManifestIs
    <3>3. CarvedFrom(Windows, cfg.seqLen, cfg.train, Len(cfg.train))
      BY <2>2, <3>1, <3>2 DEF Windows
    <3>4. QED  BY <2>3, <3>3, CarvedMeans
  <2>5. CarvedInside(Heldout, cfg.heldout) /\ (cap > 0 => Len(Heldout) <= cap)
    <3>1. /\ CarvedFrom(WindowsFromManifest(cfg.heldout, w, cap), w, cfg.heldout, Len(cfg.heldout))
          /\ cap > 0 => Len(WindowsFromManifest(cfg.heldout, w, cap)) <= cap
      BY <2>1, <2>3, ManifestIs
    <3>2. Heldout = WindowsFromManifest(cfg.heldout, w, cap)  BY <2>2 DEF Heldout
    <3>3. CarvedFrom(Heldout, cfg.seqLen, cfg.heldout, Len(cfg.heldout))  BY <2>2, <3>1, <3>2
    <3>4. CarvedInside(Heldout, cfg.heldout)  BY <2>3, <3>3, CarvedMeans
    <3>5. QED  BY <3>1, <3>2, <3>4
  <2>6. /\ CarvedInside(Domain, <<[offset |-> 0, length |-> cfg.streamLen]>>)
        /\ cap > 0 => Len(Domain) <= cap
    <3> DEFINE es == <<[offset |-> 0, length |-> len]>>
    <3>1. CarvedFrom(WindowsFromStream(len, w, cap), w, es, 1)
          /\ (cap > 0 => Len(WindowsFromStream(len, w, cap)) <= cap)
      BY StreamIs
    <3>2. Domain = WindowsFromStream(len, w, cap)  BY <2>2 DEF Domain
    <3>3. es \in Seq(Entry) /\ Len(es) = 1
      <4>1. [offset |-> 0, length |-> len] \in Entry  BY DEF Entry
      <4>2. QED  BY <4>1
    <3> HIDE DEF es
    <3>4. CarvedFrom(Domain, cfg.seqLen, es, Len(es))  BY <2>2, <3>1, <3>2, <3>3
    <3>5. CarvedInside(Domain, es)  BY <3>3, <3>4, CarvedMeans
    <3>6. QED  BY <2>2, <3>1, <3>2, <3>5 DEF es
  <2>7. NoneLeftOut  BY <2>1, NothingLeftOut
  <2>8. \A breaks : Tiled(BuildPatches(cfg, breaks))  BY <2>1, PatchesTile
  <2>9. QED  BY <2>2, <2>4, <2>5, <2>6, <2>7, <2>8 DEF Carved
<1>4. QED  BY <1>1, <1>2, <1>3, PTL DEF Spec
-----------------------------------------------------------------------------
(***************************************************************************)
(* The loops.  What the models were stepped on, by phase, and which line   *)
(* of the results file belongs to which invocation.                        *)
(***************************************************************************)
Cycle(d, w, n) == [k \in 1..d |-> (w + k - 1) % n]

Run == [code : Nat, cfg : Configs, model : Seq(Nat)]
RunLine == [run : Nat, latencies : Nat, whole : BOOLEAN]

TypeInv ==
    /\ cfg \in Configs
    /\ phase \in {"idle", "warmup", "train", "eval", "final", "write", "return", "failed"}
    /\ step \in Nat /\ stop \in BOOLEAN
    /\ lm \in Seq(Nat) /\ model \in Seq(Nat)
    /\ exits \in Seq(Run)
    /\ results \in Seq(RunLine)

OrderInv ==
    /\ model = Cycle(Len(model), cfg.warmup, Len(Windows))
    /\ lm = Cycle(Len(lm), 0, Len(Windows))
    /\ phase # "idle" \/ lm # <<>> \/ model # <<>> => Windows # <<>>

Total(c) == IF c.steps > c.warmup THEN c.steps - c.warmup ELSE 0

PhaseInv ==
    /\ phase # "idle" /\ UsesEntropyPatcher => Len(lm) = step
    /\ phase = "warmup" => UsesEntropyPatcher /\ model = <<>> /\ step <= cfg.warmup
    /\ phase \in {"train", "eval", "final", "write", "return", "failed"} =>
        /\ step = cfg.warmup + Len(model)
        /\ model = <<>> \/ step <= cfg.steps
    /\ phase \in {"final", "write", "return", "failed"} => step >= cfg.steps

AllMade(run, latencies) == Len(run.model) = Total(run.cfg) /\ latencies = Len(run.model)

(* The runs that ended, and the run that has written but not yet exited.   *)
LinesInv ==
    /\ \A k \in 1..Len(results) :
        /\ results[k].run \in 1..Len(exits) + 1
        /\ results[k].run # Len(exits) + 1 =>
            /\ AllMade(exits[results[k].run], results[k].latencies)
            /\ exits[results[k].run].code \notin {124, 130}
    /\ \A j, k \in 1..Len(results) : results[j].run = results[k].run => j = k
    /\ \A n \in 1..Len(exits) :
        exits[n].code = 0 => \E k \in 1..Len(results) : results[k].run = n /\ results[k].whole

WrittenInv ==
    /\ \A k \in 1..Len(results) :
        results[k].run = Len(exits) + 1 =>
            phase \in {"return", "failed"} /\ results[k].latencies = Len(model)
    /\ phase = "return" =>
        \E k \in 1..Len(results) : results[k].run = Len(exits) + 1 /\ results[k].whole

IInv == TypeInv /\ OrderInv /\ PhaseInv /\ LinesInv /\ WrittenInv

(* The windows of a configuration are a sequence of offsets.               *)
LEMMA WindowsTyped ==
    ASSUME cfg \in Configs
    PROVE  Windows \in Seq(Int) /\ Len(Windows) \in Nat /\ (Windows # <<>> => Len(Windows) # 0)
<1>1. cfg \in Config /\ InOrder(cfg.train)  BY SweepAssumption
<1>2. cfg.train \in Seq(Entry) /\ cfg.seqLen \in Nat \ {0}  BY <1>1 DEF Config
<1>3. PICK z \in Nat : z = 0  OBVIOUS
<1>4. CarvedFrom(WindowsFromManifest(cfg.train, cfg.seqLen, z), cfg.seqLen, cfg.train, Len(cfg.train))
  BY <1>1, <1>2, ManifestIs
<1>5. Windows \in Seq(Int)  BY <1>3, <1>4 DEF Windows, CarvedFrom
<1>6. QED  BY <1>5, LenProperties, EmptySeq

(* The window after d of them.                                             *)
LEMMA CycleNext ==
    ASSUME NEW m \in Seq(Nat), NEW w \in Nat, NEW n \in Nat \ {0}, m = Cycle(Len(m), w, n)
    PROVE  LET next == Append(m, (w + Len(m)) % n)
           IN  /\ next \in Seq(Nat) /\ Len(next) = Len(m) + 1 /\ next # <<>>
               /\ next = Cycle(Len(next), w, n)
<1>1. PICK d \in Nat : d = Len(m)  BY LenProperties
<1>2. PICK x \in Nat : x = (w + d) % n  BY <1>1, DivisionIs
<1> DEFINE next == Append(m, x)
<1>3. /\ next \in Seq(Nat) /\ Len(next) = d + 1 /\ next[d + 1] = x
      /\ \A k \in 1..d : next[k] = m[k]
  BY <1>1, AppendProperties
<1> HIDE DEF next
<1>4. \A k \in 1..d : m[k] = (w + k - 1) % n  BY <1>1 DEF Cycle
<1>5. (w + (d + 1) - 1) = w + d  BY <1>1
<1>6. \A k \in 1..d + 1 : next[k] = (w + k - 1) % n
  <2> TAKE k \in 1..d + 1
  <2>1. CASE k = d + 1  BY <1>2, <1>3, <1>5, <2>1
  <2>2. CASE k # d + 1
    <3>1. k \in 1..d  BY <1>1, <2>2
    <3>2. QED  BY <1>3, <1>4, <3>1
  <2>3. QED  BY <2>1, <2>2
<1>7. next = [k \in 1..d + 1 |-> next[k]]  BY <1>3
<1>8. next = Cycle(d + 1, w, n)  BY <1>6, <1>7 DEF Cycle
<1>9. next # <<>>  BY <1>3
<1>10. QED  BY <1>1, <1>2, <1>3, <1>8, <1>9 DEF next

(* Nothing was stepped on yet.                                             *)
LEMMA CycleEmpty ==
    ASSUME NEW w, NEW n
    PROVE  <<>> = Cycle(Len(<<>>), w, n) /\ Len(<<>>) = 0 /\ <<>> \in Seq(Nat)
<1>1. Cycle(0, w, n) = <<>>
  <2>1. 1..0 = {}  OBVIOUS
  <2>2. QED  BY <2>1 DEF Cycle
<1>2. QED  BY <1>1

(* Nothing is written, and no run ends.                                    *)
LEMMA LinesKept ==
    ASSUME LinesInv, WrittenInv, exits' = exits, results' = results,
           \/ phase' = phase /\ model' = model
           \/ phase \notin {"return", "failed"} /\ phase' # "return"
    PROVE  LinesInv' /\ WrittenInv'
<1>1. LinesInv'  BY DEF LinesInv
<1>2. CASE phase' = phase /\ model' = model  BY <1>1, <1>2 DEF WrittenInv
<1>3. CASE phase \notin {"return", "failed"} /\ phase' # "return"
  <2>1. \A k \in 1..Len(results) : results[k].run # Len(exits) + 1  BY <1>3 DEF WrittenInv
  <2>2. QED  BY <1>1, <1>3, <2>1 DEF WrittenInv
<1>4. QED  BY <1>2, <1>3

(* A run that ends: what it wrote is what a run of its kind may leave.     *)
LEMMA ExitKeepsLines ==
    ASSUME TypeInv, LinesInv, NEW run \in Run, exits' = Append(exits, run),
           results' = results, phase' = "idle",
           \A k \in 1..Len(results) : results[k].run = Len(exits) + 1 =>
                AllMade(run, results[k].latencies) /\ run.code \notin {124, 130},
           run.code = 0 =>
                \E k \in 1..Len(results) : results[k].run = Len(exits) + 1 /\ results[k].whole
    PROVE  LinesInv' /\ WrittenInv' /\ exits' \in Seq(Run)
<1>1. PICK n \in Nat, r \in Nat : n = Len(exits) /\ r = Len(results)
  BY LenProperties DEF TypeInv
<1>2. exits \in Seq(Run)  BY DEF TypeInv
<1>3. /\ exits' \in Seq(Run) /\ Len(exits') = n + 1
      /\ exits'[n + 1] = run /\ \A k \in 1..n : exits'[k] = exits[k]
  BY <1>1, <1>2, AppendProperties
<1>4. /\ \A k \in 1..n + 1 : k \in 1..(n + 1) + 1 /\ k # (n + 1) + 1
      /\ \A k \in 1..n + 1 : k # n + 1 <=> k \in 1..n
  BY <1>1
<1>5. /\ \A k \in 1..r :
          /\ results[k].run \in 1..n + 1
          /\ results[k].run # n + 1 =>
              /\ AllMade(exits[results[k].run], results[k].latencies)
              /\ exits[results[k].run].code \notin {124, 130}
      /\ \A j, k \in 1..r : results[j].run = results[k].run => j = k
      /\ \A m \in 1..n : exits[m].code = 0 =>
          \E k \in 1..r : results[k].run = m /\ results[k].whole
  BY <1>1 DEF LinesInv
<1>6. /\ \A k \in 1..r : results[k].run = n + 1 =>
              AllMade(run, results[k].latencies) /\ run.code \notin {124, 130}
      /\ run.code = 0 => \E k \in 1..r : results[k].run = n + 1 /\ results[k].whole
  BY <1>1
<1>7. ASSUME NEW k \in 1..r
      PROVE  /\ results[k].run \in 1..(n + 1) + 1 /\ results[k].run # (n + 1) + 1
             /\ AllMade(exits'[results[k].run], results[k].latencies)
             /\ exits'[results[k].run].code \notin {124, 130}
  <2>1. results[k].run \in 1..(n + 1) + 1 /\ results[k].run # (n + 1) + 1  BY <1>4, <1>5
  <2>2. CASE results[k].run = n + 1
    <3>1. exits'[results[k].run] = run  BY <1>3, <2>2
    <3>2. QED  BY <1>6, <2>1, <2>2, <3>1
  <2>3. CASE results[k].run # n + 1
    <3>1. exits'[results[k].run] = exits[results[k].run]  BY <1>3, <1>4, <1>5, <2>3
    <3>2. QED  BY <1>5, <2>1, <2>3, <3>1
  <2>4. QED  BY <2>2, <2>3
<1>8. ASSUME NEW m \in 1..n + 1, exits'[m].code = 0
      PROVE  \E k \in 1..r : results[k].run = m /\ results[k].whole
  <2>1. CASE m = n + 1  BY <1>3, <1>6, <1>8, <2>1
  <2>2. CASE m # n + 1
    <3>1. m \in 1..n /\ exits[m].code = 0  BY <1>3, <1>4, <1>8, <2>2
    <3>2. QED  BY <1>5, <3>1
  <2>3. QED  BY <2>1, <2>2
<1>9. Len(exits') = n + 1 /\ Len(results') = r  BY <1>1, <1>3
<1>10. LinesInv'  BY <1>5, <1>7, <1>8, <1>9 DEF LinesInv
<1>11. WrittenInv'  BY <1>7, <1>9 DEF WrittenInv
<1>12. QED  BY <1>3, <1>10, <1>11

(* A run that writes, its line or the start of it.                         *)
LEMMA LineAppended ==
    ASSUME TypeInv, LinesInv, WrittenInv, phase \notin {"return", "failed"},
           NEW w \in BOOLEAN, results' = Append(results, ResultLine(w)), exits' = exits,
           model' = model, phase' \in {"return", "failed"}, phase' = "return" => w
    PROVE  LinesInv' /\ WrittenInv' /\ results' \in Seq(RunLine)
<1>1. PICK n \in Nat, r \in Nat, d \in Nat : n = Len(exits) /\ r = Len(results) /\ d = Len(model)
  BY LenProperties DEF TypeInv
<1>2. PICK l : l = ResultLine(w)  OBVIOUS
<1>3. l \in RunLine /\ l.run = n + 1 /\ l.latencies = d /\ l.whole = w
  BY <1>1, <1>2 DEF ResultLine, RunLine
<1>4. results \in Seq(RunLine)  BY DEF TypeInv
<1>5. /\ results' \in Seq(RunLine) /\ Len(results') = r + 1
      /\ results'[r + 1] = l /\ \A k \in 1..r : results'[k] = results[k]
  BY <1>1, <1>2, <1>3, <1>4, AppendProperties
<1>6. /\ \A k \in 1..r : k \in 1..r + 1
      /\ \A k \in 1..r + 1 : k \notin 1..r <=> k = r + 1
      /\ n + 1 \in 1..n + 1 /\ r + 1 \in 1..r + 1
  BY <1>1
<1>7. /\ \A k \in 1..r :
          /\ results[k].run \in 1..n + 1 /\ results[k].run # n + 1
          /\ AllMade(exits[results[k].run], results[k].latencies)
          /\ exits[results[k].run].code \notin {124, 130}
      /\ \A j, k \in 1..r : results[j].run = results[k].run => j = k
      /\ \A m \in 1..n : exits[m].code = 0 =>
          \E k \in 1..r : results[k].run = m /\ results[k].whole
  BY <1>1 DEF LinesInv, WrittenInv
<1>8. ASSUME NEW k \in 1..r + 1
      PROVE  /\ results'[k].run \in 1..n + 1
             /\ results'[k].run # n + 1 =>
                 /\ AllMade(exits[results'[k].run], results'[k].latencies)
                 /\ exits[results'[k].run].code \notin {124, 130}
             /\ results'[k].run = n + 1 => k = r + 1 /\ results'[k].latencies = d
  <2>1. CASE k \in 1..r  BY <1>5, <1>7, <2>1
  <2>2. CASE k = r + 1  BY <1>3, <1>5, <1>6, <2>2
  <2>3. QED  BY <1>6, <2>1, <2>2
<1>9. ASSUME NEW j \in 1..r + 1, NEW k \in 1..r + 1, results'[j].run = results'[k].run
      PROVE  j = k
  <2>1. results'[r + 1].run = n + 1  BY <1>3, <1>5
  <2>2. CASE j \in 1..r /\ k \in 1..r  BY <1>5, <1>7, <1>9, <2>2
  <2>3. CASE j = r + 1 \/ k = r + 1  BY <1>8, <1>9, <2>1, <2>3
  <2>4. QED  BY <1>6, <2>2, <2>3
<1>10. ASSUME NEW m \in 1..n, exits[m].code = 0
       PROVE  \E k \in 1..r + 1 : results'[k].run = m /\ results'[k].whole
  <2>1. PICK k \in 1..r : results[k].run = m /\ results[k].whole  BY <1>7, <1>10
  <2>2. QED  BY <1>5, <1>6, <2>1
<1>11. Len(exits') = n /\ Len(results') = r + 1 /\ Len(model') = d  BY <1>1, <1>5
<1>12. LinesInv'  BY <1>8, <1>9, <1>10, <1>11 DEF LinesInv
<1>13. results'[r + 1].run = n + 1 /\ results'[r + 1].whole = w  BY <1>3, <1>5
<1>14. WrittenInv'  BY <1>6, <1>8, <1>11, <1>13 DEF WrittenInv
<1>15. QED  BY <1>5, <1>12, <1>14

(* The inductive invariant holds before the first run.                     *)
LEMMA InitIInv == Init => IInv
<1> SUFFICES ASSUME Init  PROVE IInv  OBVIOUS
<1>1. /\ Len(<<>>) = 0 /\ <<>> \in Seq(Nat) /\ <<>> \in Seq(RunLine) /\ <<>> \in Seq(Run)
  BY EmptySeq
<1>2. TypeInv
  <2>1. step \in Nat /\ stop \in BOOLEAN  BY DEF Init
  <2>2. QED  BY <1>1, <2>1 DEF Init, TypeInv
<1>3. OrderInv  BY CycleEmpty DEF Init, OrderInv
<1>4. PhaseInv  BY DEF Init, PhaseInv
<1>5. LinesInv /\ WrittenInv  BY <1>1 DEF Init, LinesInv, WrittenInv
<1>6. QED  BY <1>2, <1>3, <1>4, <1>5 DEF IInv

(* Steps that leave the models alone keep their order.                     *)
LEMMA OrderKept ==
    ASSUME OrderInv, cfg' = cfg, lm' = lm, model' = model, phase # "idle" \/ phase' = phase
    PROVE  OrderInv' /\ Windows' = Windows
<1>1. Windows' = Windows  BY DEF Windows
<1>2. QED  BY <1>1 DEF OrderInv

(* By the end of the loops the model made every step.                      *)
LEMMA AllStepsMade ==
    ASSUME IInv, phase \in {"write", "return", "failed"}
    PROVE  Len(model) = Total(cfg)
<1>1. TypeInv /\ PhaseInv  BY DEF IInv
<1>2. PICK w \in Nat, n \in Nat, s \in Nat, d \in Nat :
          w = cfg.warmup /\ n = cfg.steps /\ s = step /\ d = Len(model)
  <2>1. cfg \in Config  BY <1>1, SweepAssumption DEF TypeInv
  <2>2. cfg.warmup \in Nat /\ cfg.steps \in Nat  BY <2>1 DEF Config
  <2>3. QED  BY <1>1, <2>2, LenProperties DEF TypeInv
<1>3. s = w + d /\ s >= n /\ (model = <<>> \/ s <= n)  BY <1>1, <1>2 DEF PhaseInv
<1>4. model = <<>> => d = 0  BY <1>2
<1>5. d = IF n > w THEN n - w ELSE 0  BY <1>3, <1>4
<1>6. QED  BY <1>2, <1>5 DEF Total

(* How a run may end once it started.                                      *)
LEMMA ExitStep ==
    ASSUME IInv, NEW code \in Nat, phase # "idle", Exit(code),
           UNCHANGED <<cfg, step, stop, lm, model, results>>,
           code = 0 => phase = "return",
           code \in {124, 130} => phase \notin {"return", "failed"}
    PROVE  IInv'
<1>1. TypeInv /\ OrderInv /\ LinesInv /\ WrittenInv  BY DEF IInv
<1>2. PICK run : run = [code |-> code, cfg |-> cfg, model |-> model]  OBVIOUS
<1>3. run \in Run /\ run.code = code /\ run.cfg = cfg /\ run.model = model
  BY <1>1, <1>2 DEF TypeInv, Run
<1>4. exits' = Append(exits, run) /\ phase' = "idle"  BY <1>2 DEF Exit
<1>5. ASSUME NEW k \in 1..Len(results), results[k].run = Len(exits) + 1
      PROVE  AllMade(run, results[k].latencies) /\ run.code \notin {124, 130}
  <2>1. phase \in {"return", "failed"} /\ results[k].latencies = Len(model)
    BY <1>1, <1>5 DEF WrittenInv
  <2>2. Len(model) = Total(cfg)  BY <2>1, AllStepsMade
  <2>3. QED  BY <1>3, <2>1, <2>2 DEF AllMade
<1>6. run.code = 0 =>
          \E k \in 1..Len(results) : results[k].run = Len(exits) + 1 /\ results[k].whole
  BY <1>1, <1>3 DEF WrittenInv
<1>7. LinesInv' /\ WrittenInv' /\ exits' \in Seq(Run)
  BY <1>1, <1>3, <1>4, <1>5, <1>6, ExitKeepsLines
<1>8. TypeInv'  BY <1>1, <1>4, <1>7 DEF TypeInv
<1>9. OrderInv'  BY <1>1, OrderKept
<1>10. PhaseInv'  BY <1>4 DEF PhaseInv
<1>11. QED  BY <1>7, <1>8, <1>9, <1>10 DEF IInv

(* Starting a run, or failing to, keeps the invariant.                     *)
LEMMA StartStep == IInv /\ Start => IInv'
<1> SUFFICES ASSUME IInv, Start  PROVE IInv'  OBVIOUS
<1>1. TypeInv /\ LinesInv /\ WrittenInv  BY DEF IInv
<1>2. /\ phase = "idle" /\ cfg' \in Configs /\ lm' = <<>> /\ model' = <<>> /\ stop' = FALSE /\ results' = results
      /\ Windows' = WindowsFromManifest(cfg'.train, cfg'.seqLen, 0)
  BY DEF Start, Windows
<1>3. cfg' \in Config /\ cfg'.warmup \in Nat  BY <1>2, SweepAssumption DEF Config
<1>4. CASE Windows' = <<>>
  <2>1. PICK run : run = [code |-> 1, cfg |-> cfg', model |-> <<>>]  OBVIOUS
  <2>2. exits' = Append(exits, run) /\ phase' = "idle" /\ step' = step
    BY <1>2, <1>4, <2>1 DEF Start
  <2>3. run \in Run /\ run.code # 0  BY <1>2, <2>1, CycleEmpty DEF Run
  <2>4. \A k \in 1..Len(results) : results[k].run # Len(exits) + 1
    BY <1>1, <1>2 DEF WrittenInv
  <2>5. LinesInv' /\ WrittenInv' /\ exits' \in Seq(Run)
    BY <1>1, <1>2, <2>2, <2>3, <2>4, ExitKeepsLines
  <2>6. TypeInv'  BY <1>1, <1>2, <2>2, <2>5, CycleEmpty DEF TypeInv
  <2>7. OrderInv'  BY <1>2, <1>4, <2>2, CycleEmpty DEF OrderInv
  <2>8. PhaseInv'  BY <2>2 DEF PhaseInv
  <2>9. QED  BY <2>5, <2>6, <2>7, <2>8 DEF IInv
<1>5. CASE Windows' # <<>>
  <2>1. /\ exits' = exits
        /\ \/ /\ cfg'.patcher = "entropy" /\ cfg'.warmup > 0 /\ phase' = "warmup" /\ step' = 0
           \/ /\ ~(cfg'.patcher = "entropy" /\ cfg'.warmup > 0)
              /\ phase' = "train" /\ step' = cfg'.warmup
    BY <1>2, <1>5 DEF Start
  <2>2. PICK w \in Nat : w = cfg'.warmup  BY <1>3
  <2>3. LinesInv' /\ WrittenInv'  BY <1>1, <1>2, <2>1, LinesKept
  <2>4. TypeInv'
    <3>1. step' \in Nat
      <4>1. step' = 0 \/ step' = w  BY <2>1, <2>2
      <4>2. QED  BY <4>1
    <3>2. lm' \in Seq(Nat) /\ model' \in Seq(Nat)  BY <1>2, CycleEmpty
    <3>3. phase' \in {"warmup", "train"}  BY <2>1
    <3>4. stop' \in BOOLEAN  BY <1>2
    <3>5. QED  BY <1>1, <1>2, <2>1, <3>1, <3>2, <3>3, <3>4 DEF TypeInv
  <2>5. OrderInv'  BY <1>2, <1>5, CycleEmpty DEF OrderInv
  <2>6. PhaseInv'
    <3>1. Len(lm') = 0 /\ Len(model') = 0 /\ model' = <<>>  BY <1>2
    <3>2. UsesEntropyPatcher' <=> cfg'.patcher = "entropy"  BY DEF UsesEntropyPatcher
    <3>3. CASE phase' = "warmup" /\ step' = 0 /\ cfg'.patcher = "entropy"
      <4>1. 0 <= w  BY <2>2
      <4>2. QED  BY <2>2, <3>1, <3>2, <3>3, <4>1 DEF PhaseInv
    <3>4. CASE phase' = "train" /\ step' = w /\ (cfg'.patcher = "entropy" => ~(w > 0))
      <4>1. cfg'.patcher = "entropy" => w = 0  BY <2>2, <3>4
      <4>2. step' = w + 0  BY <2>2, <3>4
      <4>3. QED  BY <2>2, <3>1, <3>2, <3>4, <4>1, <4>2 DEF PhaseInv
    <3>5. QED  BY <2>1, <2>2, <3>3, <3>4
  <2>7. QED  BY <2>3, <2>4, <2>5, <2>6 DEF IInv
<1>6. QED  BY <1>4, <1>5

(* A warmup step keeps the invariant.                                      *)
LEMMA WarmupNext == IInv /\ WarmupStep => IInv'
<1> SUFFICES ASSUME IInv, WarmupStep  PROVE IInv'  OBVIOUS
<1>1. TypeInv /\ OrderInv /\ PhaseInv /\ LinesInv /\ WrittenInv  BY DEF IInv
<1>2. /\ phase = "warmup" /\ lm' = Append(lm, step % Len(Windows)) /\ step' = step + 1
      /\ step < cfg.warmup
      /\ cfg' = cfg /\ phase' = phase /\ stop' = stop /\ model' = model
      /\ exits' = exits /\ results' = results
  BY DEF WarmupStep
<1>3. cfg \in Config /\ cfg.warmup \in Nat  BY <1>1, SweepAssumption DEF TypeInv, Config
<1>4. PICK n \in Nat \ {0} : n = Len(Windows)  BY <1>1, <1>2, WindowsTyped DEF OrderInv, TypeInv
<1>5. PICK s \in Nat, z \in Nat : s = step /\ z = 0  BY <1>1 DEF TypeInv
<1>6. UsesEntropyPatcher /\ Len(lm) = s /\ model = <<>>  BY <1>1, <1>2, <1>5 DEF PhaseInv
<1>7. lm \in Seq(Nat) /\ lm = Cycle(Len(lm), z, n)  BY <1>1, <1>4, <1>5 DEF OrderInv, TypeInv
<1>8. lm' = Append(lm, (z + Len(lm)) % n)
  <2>1. s = z + s  BY <1>5
  <2>2. QED  BY <1>2, <1>4, <1>5, <1>6, <2>1
<1>9. lm' \in Seq(Nat) /\ Len(lm') = s + 1 /\ lm' = Cycle(Len(lm'), z, n)
  BY <1>6, <1>7, <1>8, CycleNext
<1>10. Windows' = Windows /\ (UsesEntropyPatcher' <=> UsesEntropyPatcher)
  BY <1>2 DEF Windows, UsesEntropyPatcher
<1>11. s + 1 <= cfg.warmup /\ s + 1 \in Nat  BY <1>2, <1>3, <1>5
<1>12. TypeInv'  BY <1>1, <1>2, <1>5, <1>9, <1>11 DEF TypeInv
<1>13. OrderInv'  BY <1>1, <1>2, <1>4, <1>5, <1>9, <1>10 DEF OrderInv
<1>14. PhaseInv'  BY <1>2, <1>5, <1>6, <1>9, <1>10, <1>11 DEF PhaseInv
<1>15. LinesInv' /\ WrittenInv'  BY <1>1, <1>2, LinesKept
<1>16. QED  BY <1>12, <1>13, <1>14, <1>15 DEF IInv

(* A training step and the evaluation after it keep the invariant.         *)
LEMMA TrainNext == IInv /\ TrainStep => IInv'
<1> SUFFICES ASSUME IInv, TrainStep  PROVE IInv'  OBVIOUS
<1>1. TypeInv /\ OrderInv /\ PhaseInv /\ LinesInv /\ WrittenInv  BY DEF IInv
<1>2. /\ phase = "train" /\ step < cfg.steps
      /\ model' = Append(model, step % Len(Windows))
      /\ lm' = IF UsesEntropyPatcher THEN Append(lm, step % Len(Windows)) ELSE lm
      /\ phase' \in {"train", "eval"} /\ step' = step + 1
      /\ cfg' = cfg /\ stop' = stop /\ exits' = exits /\ results' = results
  BY DEF TrainStep
<1>3. cfg \in Config /\ cfg.warmup \in Nat /\ cfg.steps \in Nat
  BY <1>1, SweepAssumption DEF TypeInv, Config
<1>4. PICK n \in Nat \ {0} : n = Len(Windows)  BY <1>1, <1>2, WindowsTyped DEF OrderInv, TypeInv
<1>5. PICK s \in Nat, z \in Nat, w \in Nat, d \in Nat :
          s = step /\ z = 0 /\ w = cfg.warmup /\ d = Len(model)
  BY <1>1, <1>3, LenProperties DEF TypeInv
<1>6. s = w + d /\ (UsesEntropyPatcher => Len(lm) = s)  BY <1>1, <1>2, <1>5 DEF PhaseInv
<1>7. /\ lm \in Seq(Nat) /\ lm = Cycle(Len(lm), z, n)
      /\ model \in Seq(Nat) /\ model = Cycle(Len(model), w, n)
  BY <1>1, <1>4, <1>5 DEF OrderInv, TypeInv
<1>8. model' = Append(model, (w + Len(model)) % n)  BY <1>2, <1>4, <1>5, <1>6
<1>9. model' \in Seq(Nat) /\ Len(model') = d + 1 /\ model' = Cycle(Len(model'), w, n)
  BY <1>5, <1>7, <1>8, CycleNext
<1>10. /\ lm' \in Seq(Nat) /\ lm' = Cycle(Len(lm'), z, n)
       /\ UsesEntropyPatcher => Len(lm') = s + 1
  <2>1. CASE UsesEntropyPatcher
    <3>1. s = z + s  BY <1>5
    <3>2. lm' = Append(lm, (z + Len(lm)) % n)  BY <1>2, <1>4, <1>5, <1>6, <2>1, <3>1
    <3>3. lm' \in Seq(Nat) /\ Len(lm') = Len(lm) + 1 /\ lm' = Cycle(Len(lm'), z, n)
      BY <1>7, <3>2, CycleNext
    <3>4. QED  BY <1>6, <2>1, <3>3
  <2>2. CASE ~UsesEntropyPatcher  BY <1>2, <1>7, <2>2
  <2>3. QED  BY <2>1, <2>2
<1>11. Windows' = Windows /\ (UsesEntropyPatcher' <=> UsesEntropyPatcher)
  BY <1>2 DEF Windows, UsesEntropyPatcher
<1>12. s + 1 <= cfg.steps /\ s + 1 \in Nat /\ s + 1 = w + (d + 1)
  <2>1. PICK x \in Nat : x = cfg.steps  BY <1>3
  <2>2. s < x  BY <1>2, <1>5, <2>1
  <2>3. s + 1 <= x /\ s + 1 \in Nat /\ s + 1 = w + (d + 1)  BY <1>6, <2>2
  <2>4. QED  BY <2>1, <2>3
<1>13. TypeInv'  BY <1>1, <1>2, <1>5, <1>9, <1>10, <1>12 DEF TypeInv
<1>14. OrderInv'  BY <1>1, <1>2, <1>4, <1>5, <1>9, <1>10, <1>11 DEF OrderInv
<1>15. PhaseInv'  BY <1>2, <1>5, <1>9, <1>10, <1>11, <1>12 DEF PhaseInv
<1>16. LinesInv' /\ WrittenInv'  BY <1>1, <1>2, LinesKept
<1>17. QED  BY <1>13, <1>14, <1>15, <1>16 DEF IInv

(* The steps between phases.                                               *)
LEMMA PhaseStep ==
    ASSUME IInv, WarmupDone \/ Evaluate \/ TrainDone \/ FinalEvaluation \/ Signal
    PROVE  IInv'
<1>1. TypeInv /\ OrderInv /\ PhaseInv /\ LinesInv /\ WrittenInv  BY DEF IInv
<1>2. /\ cfg' = cfg /\ lm' = lm /\ model' = model /\ exits' = exits /\ results' = results
      /\ phase # "idle"
      /\ phase' = phase \/ (phase \notin {"return", "failed"} /\ phase' # "return")
  BY DEF WarmupDone, Evaluate, TrainDone, FinalEvaluation, Signal
<1>3. PICK w \in Nat, n \in Nat, s \in Nat, d \in Nat :
          w = cfg.warmup /\ n = cfg.steps /\ s = step /\ d = Len(model)
  <2>1. cfg \in Config  BY <1>1, SweepAssumption DEF TypeInv
  <2>2. cfg.warmup \in Nat /\ cfg.steps \in Nat  BY <2>1 DEF Config
  <2>3. QED  BY <1>1, <2>2, LenProperties DEF TypeInv
<1>4. /\ stop' \in BOOLEAN /\ step' \in Nat
      /\ phase' \in {"warmup", "train", "eval", "final", "write", "return", "failed"}
  BY <1>1, <1>3 DEF TypeInv, WarmupDone, MainLoopStart, Evaluate, TrainDone, FinalEvaluation, Signal
<1>5. TypeInv'  BY <1>1, <1>2, <1>4 DEF TypeInv
<1>6. OrderInv' /\ LinesInv' /\ WrittenInv'  BY <1>1, <1>2, OrderKept, LinesKept
<1>7. UsesEntropyPatcher' <=> UsesEntropyPatcher  BY <1>2 DEF UsesEntropyPatcher
<1>8. PhaseInv'
  <2>1. CASE WarmupDone
    <3>1. phase = "warmup" /\ s >= w /\ phase' = "train" /\ step' = w
      BY <1>3, <2>1 DEF WarmupDone, MainLoopStart
    <3>2. UsesEntropyPatcher /\ model = <<>> /\ s <= w /\ Len(lm) = s
      BY <1>1, <1>2, <1>3, <3>1 DEF PhaseInv
    <3>3. s = w /\ d = 0 /\ w = w + d  BY <1>3, <3>1, <3>2
    <3>4. QED  BY <1>2, <1>3, <1>7, <3>1, <3>2, <3>3 DEF PhaseInv
  <2>2. CASE Evaluate \/ Signal
    <3>1. step' = step /\ (phase' = phase \/ (phase = "eval" /\ phase' = "train"))
      BY <2>2 DEF Evaluate, Signal
    <3>2. QED  BY <1>1, <1>2, <1>7, <3>1 DEF PhaseInv
  <2>3. CASE TrainDone
    <3>1. step' = step /\ phase = "train" /\ phase' = "final" /\ step >= cfg.steps
      BY <2>3 DEF TrainDone
    <3>2. QED  BY <1>1, <1>2, <1>7, <3>1 DEF PhaseInv
  <2>4. CASE FinalEvaluation
    <3>1. step' = step /\ phase = "final" /\ phase' = "write"  BY <2>4 DEF FinalEvaluation
    <3>2. QED  BY <1>1, <1>2, <1>7, <3>1 DEF PhaseInv
  <2>5. QED  BY <2>1, <2>2, <2>3, <2>4
<1>9. QED  BY <1>5, <1>6, <1>8 DEF IInv

(* Writing, or failing to, after all steps keeps the invariant.            *)
LEMMA WriteStep == IInv /\ (AppendLine \/ WriteFails) => IInv'
<1> SUFFICES ASSUME IInv, AppendLine \/ WriteFails  PROVE IInv'  OBVIOUS
<1>1. TypeInv /\ OrderInv /\ PhaseInv /\ LinesInv /\ WrittenInv  BY DEF IInv
<1>2. /\ phase = "write" /\ phase' \in {"return", "failed"}
      /\ cfg' = cfg /\ step' = step /\ stop' = stop /\ lm' = lm /\ model' = model /\ exits' = exits
  BY DEF AppendLine, WriteFails
<1>3. \/ results' = results /\ phase' = "failed"
      \/ \E w \in BOOLEAN : results' = Append(results, ResultLine(w)) /\ (phase' = "return" => w)
  BY DEF AppendLine, WriteFails
<1>4. LinesInv' /\ WrittenInv' /\ results' \in Seq(RunLine)
  <2>1. CASE results' = results /\ phase' = "failed"
    BY <1>1, <1>2, <2>1, LinesKept DEF TypeInv
  <2>2. ASSUME NEW w \in BOOLEAN, results' = Append(results, ResultLine(w)), phase' = "return" => w
        PROVE  LinesInv' /\ WrittenInv' /\ results' \in Seq(RunLine)
    BY <1>1, <1>2, <2>2, LineAppended
  <2>3. QED  BY <1>3, <2>1, <2>2
<1>5. TypeInv'  BY <1>1, <1>2, <1>4 DEF TypeInv
<1>6. OrderInv'  BY <1>1, <1>2, OrderKept
<1>7. UsesEntropyPatcher' <=> UsesEntropyPatcher  BY <1>2 DEF UsesEntropyPatcher
<1>8. PhaseInv'  BY <1>1, <1>2, <1>7 DEF PhaseInv
<1>9. QED  BY <1>4, <1>5, <1>6, <1>8 DEF IInv

(* Every step keeps the inductive invariant.                               *)
LEMMA Inductive == IInv /\ [Next]_vars => IInv'
<1> SUFFICES ASSUME IInv, [Next]_vars  PROVE IInv'  OBVIOUS
<1>1. stop \in BOOLEAN  BY DEF IInv, TypeInv
<1>2. CASE Start  BY <1>2, StartStep
<1>3. CASE WarmupDone \/ Evaluate \/ TrainDone \/ FinalEvaluation \/ Signal  BY <1>3, PhaseStep
<1>4. CASE WarmupStep  BY <1>4, WarmupNext
<1>5. CASE TrainStep  BY <1>5, TrainNext
<1>6. CASE AppendLine \/ WriteFails  BY <1>6, WriteStep
<1>7. CASE Kill \/ Return \/ Fail
  <2>1. PICK code \in {0, 1, 137} :
            /\ phase # "idle" /\ Exit(code) /\ (code = 0 => phase = "return")
            /\ UNCHANGED <<cfg, step, stop, lm, model, results>>
    BY <1>7 DEF Kill, Return, Fail
  <2>2. code \in Nat /\ code \notin {124, 130}  OBVIOUS
  <2>3. QED  BY <2>1, <2>2, ExitStep
<1>8. CASE WarmupStopped \/ TrainStopped \/ WallClockGuard
  <2>1. PICK code \in {124, 130} :
            /\ phase \in {"warmup", "train"} /\ Exit(code)
            /\ UNCHANGED <<cfg, step, stop, lm, model, results>>
    BY <1>8 DEF WarmupStopped, TrainStopped, WallClockGuard
  <2>2. code \in Nat /\ code # 0  OBVIOUS
  <2>3. QED  BY <2>1, <2>2, ExitStep
<1>9. CASE UNCHANGED vars
  <2>1. /\ cfg' = cfg /\ phase' = phase /\ step' = step /\ stop' = stop /\ lm' = lm
        /\ model' = model /\ exits' = exits /\ results' = results
    BY <1>9 DEF vars
  <2>2. Windows' = Windows /\ (UsesEntropyPatcher' <=> UsesEntropyPatcher)
    BY <2>1 DEF Windows, UsesEntropyPatcher
  <2>3. TypeInv' /\ LinesInv' /\ WrittenInv'  BY <2>1, LinesKept DEF IInv, TypeInv
  <2>4. OrderInv' /\ PhaseInv'  BY <2>1, <2>2 DEF IInv, OrderInv, PhaseInv
  <2>5. QED  BY <2>3, <2>4 DEF IInv
<1>10. QED
  BY <1>2, <1>3, <1>4, <1>5, <1>6, <1>7, <1>8, <1>9 DEF Next

(* The inductive invariant holds in every reachable state.                 *)
LEMMA InvariantHolds == Spec => []IInv
<1>1. QED  BY InitIInv, Inductive, PTL DEF Spec

(* The entropy model and the model see the windows in the order of the     *)
(* file, the model from the warmup's end on, for every configuration and   *)
(* however invocations are interrupted (train_sweep.c's two loops).        *)
THEOREM SameOrderForAll == Spec => []SameDataOrder
<1>1. IInv => SameDataOrder
  <2> SUFFICES ASSUME IInv, phase # "idle"  PROVE SameDataOrder  BY DEF SameDataOrder
  <2>1. TypeInv /\ OrderInv /\ PhaseInv  BY DEF IInv
  <2>2. model = [k \in 1..Len(model) |-> (cfg.warmup + k - 1) % Len(Windows)]
    BY <2>1 DEF OrderInv, Cycle
  <2>3. lm = [k \in 1..Len(lm) |-> (k - 1) % Len(Windows)]
    <3>1. lm = [k \in 1..Len(lm) |-> (0 + k - 1) % Len(Windows)]  BY <2>1 DEF OrderInv, Cycle
    <3>2. \A k \in 1..Len(lm) : 0 + k - 1 = k - 1  BY <2>1, LenProperties DEF TypeInv
    <3>3. QED  BY <3>1, <3>2
  <2>4. UsesEntropyPatcher => Len(lm) = step  BY <2>1 DEF PhaseInv
  <2>5. QED  BY <2>2, <2>3, <2>4 DEF SameDataOrder
<1>2. QED  BY <1>1, InvariantHolds, PTL

(* Every window index in use is one of the configuration's.                *)
LEMMA CycleInside ==
    ASSUME NEW m \in Seq(Nat), NEW w \in Nat, NEW n \in Nat \ {0}, m = Cycle(Len(m), w, n)
    PROVE  Range(m) \subseteq 0..n - 1
<1>1. PICK d \in Nat : d = Len(m) /\ DOMAIN m = 1..d  BY LenProperties
<1>2. ASSUME NEW k \in 1..d  PROVE m[k] \in 0..n - 1
  <2>1. m[k] = (w + k - 1) % n  BY <1>1 DEF Cycle
  <2>2. PICK x \in Nat : x = w + k - 1  OBVIOUS
  <2>3. x % n \in 0..n - 1  BY DivisionIs
  <2>4. QED  BY <2>1, <2>2, <2>3
<1>3. QED  BY <1>1, <1>2 DEF Range

(* Whatever the results file holds was written by an invocation that made  *)
(* every step of its training loop, none wrote twice, one that exited 0    *)
(* has its whole line, one stopped by a signal or the wall clock none, for *)
(* every configuration and number of invocations, wherever they are killed *)
(* and whatever part of a line a failed write leaves (bench_write_json and *)
(* main of train_sweep.c).                                                 *)
THEOREM OneLinePerRun == Spec => []OnlyWholeRuns
<1>1. IInv => OnlyWholeRuns
  <2> SUFFICES ASSUME IInv  PROVE OnlyWholeRuns  OBVIOUS
  <2>1. TypeInv /\ OrderInv /\ LinesInv /\ WrittenInv  BY DEF IInv
  <2>2. PICK w \in Nat, n \in Nat, z \in Nat :
            w = cfg.warmup /\ n = Len(Windows) /\ z = 0 /\ (Windows # <<>> => n # 0)
    <3>1. cfg \in Config  BY <2>1, SweepAssumption DEF TypeInv
    <3>2. cfg.warmup \in Nat  BY <3>1 DEF Config
    <3>3. QED  BY <2>1, <3>2, WindowsTyped DEF TypeInv
  <2>3. TypeOK
    <3>1. Range(model) \subseteq 0..n - 1
      <4>1. CASE model = <<>>
        <5>1. Range(model) = {}  BY <4>1 DEF Range
        <5>2. QED  BY <5>1
      <4>2. CASE model # <<>>
        <5>1. n \in Nat \ {0} /\ model \in Seq(Nat) /\ model = Cycle(Len(model), w, n)
          BY <2>1, <2>2, <4>2 DEF OrderInv, TypeInv
        <5>2. QED  BY <5>1, CycleInside
      <4>3. QED  BY <4>1, <4>2
    <3>2. Range(lm) \subseteq 0..n - 1
      <4>1. CASE lm = <<>>
        <5>1. Range(lm) = {}  BY <4>1 DEF Range
        <5>2. QED  BY <5>1
      <4>2. CASE lm # <<>>
        <5>1. n \in Nat \ {0} /\ lm \in Seq(Nat) /\ lm = Cycle(Len(lm), z, n)
          BY <2>1, <2>2, <4>2 DEF OrderInv, TypeInv
        <5>2. QED  BY <5>1, CycleInside
      <4>3. QED  BY <4>1, <4>2
    <3>3. QED  BY <2>1, <2>2, <3>1, <3>2 DEF TypeOK, TypeInv
  <2>4. /\ DOMAIN results = 1..Len(results) /\ DOMAIN exits = 1..Len(exits)
        /\ exits \in Seq(Run) /\ results \in Seq(RunLine)
    BY <2>1, LenProperties DEF TypeInv
  <2>5. ASSUME NEW k \in DOMAIN results
        PROVE  LET run == Invocation(results[k].run)
               IN  /\ Len(run.model) = Max({0, run.cfg.steps - run.cfg.warmup})
                   /\ results[k].latencies = Len(run.model)
    <3>1. PICK run : run = Invocation(results[k].run)  OBVIOUS
    <3>2. run.cfg \in Configs /\ AllMade(run, results[k].latencies)
      <4>1. PICK e \in Nat : e = Len(exits)  BY <2>4, LenProperties
      <4>2. results[k].run \in 1..e + 1  BY <2>1, <2>4, <4>1 DEF LinesInv
      <4>3. CASE results[k].run = e + 1
        <5>1. results[k].run \notin DOMAIN exits  BY <2>4, <4>1, <4>3
        <5>2. run.cfg = cfg /\ run.model = model  BY <3>1, <5>1 DEF Invocation
        <5>3. phase \in {"return", "failed"} /\ results[k].latencies = Len(model)
          BY <2>1, <2>4, <4>1, <4>3 DEF WrittenInv
        <5>4. Len(model) = Total(cfg)  BY <5>3, AllStepsMade
        <5>5. QED  BY <2>1, <5>2, <5>3, <5>4 DEF AllMade, TypeInv
      <4>4. CASE results[k].run # e + 1
        <5>1. results[k].run \in DOMAIN exits  BY <2>4, <4>1, <4>2, <4>4
        <5>2. run = exits[results[k].run]  BY <3>1, <5>1 DEF Invocation
        <5>3. run \in Run  BY <2>4, <5>1, <5>2
        <5>4. AllMade(run, results[k].latencies)  BY <2>1, <2>4, <4>1, <4>4, <5>2 DEF LinesInv
        <5>5. QED  BY <5>3, <5>4 DEF Run
      <4>5. QED  BY <4>3, <4>4
    <3>3. run.cfg \in Config  BY <3>2, SweepAssumption
    <3>4. PICK a \in Int : a = run.cfg.steps - run.cfg.warmup /\ Total(run.cfg) = IF a > 0 THEN a ELSE 0
      <4>1. PICK x \in Nat, y \in Nat : x = run.cfg.steps /\ y = run.cfg.warmup
        BY <3>3 DEF Config
      <4>2. x - y \in Int /\ (x > y <=> x - y > 0)  BY <4>1
      <4>3. QED  BY <4>1, <4>2 DEF Total
    <3>5. Max({0, a}) = IF a > 0 THEN a ELSE 0
      <4>1. PICK m \in {0, a} : \A y \in {0, a} : m >= y
        <5>1. CASE a > 0  BY <5>1
        <5>2. CASE ~(a > 0)  BY <5>2
        <5>3. QED  BY <5>1, <5>2
      <4>2. Max({0, a}) \in {0, a} /\ \A y \in {0, a} : Max({0, a}) >= y  BY <4>1 DEF Max
      <4>3. PICK v \in Int : v = Max({0, a})  BY <4>2
      <4>4. v \in {0, a} /\ v >= 0 /\ v >= a  BY <4>2, <4>3
      <4>5. v = IF a > 0 THEN a ELSE 0  BY <4>4
      <4>6. QED  BY <4>3, <4>5
    <3>6. QED  BY <3>1, <3>2, <3>4, <3>5 DEF AllMade
  <2>6. \A j, k \in DOMAIN results : results[j].run = results[k].run => j = k
    BY <2>1, <2>4 DEF LinesInv
  <2>7. ASSUME NEW r \in DOMAIN exits
        PROVE  LET written == {k \in DOMAIN results : results[k].run = r}
               IN  /\ exits[r].code = 0 => \E k \in written : results[k].whole
                   /\ exits[r].code \in {124, 130} => written = {}
    <3>1. exits[r].code = 0 => \E k \in DOMAIN results : results[k].run = r /\ results[k].whole
      BY <2>1, <2>4 DEF LinesInv
    <3>2. PICK e \in Nat : e = Len(exits)  BY <2>4, LenProperties
    <3>3. r # e + 1  BY <2>4, <3>2
    <3>4. ASSUME exits[r].code \in {124, 130}, NEW k \in DOMAIN results
          PROVE  results[k].run # r
      BY <2>1, <2>4, <3>2, <3>3, <3>4 DEF LinesInv
    <3>5. QED  BY <3>1, <3>4
  <2>8. QED  BY <2>3, <2>5, <2>6, <2>7 DEF OnlyWholeRuns
<1>2. QED  BY <1>1, InvariantHolds, PTL
-----------------------------------------------------------------------------
(***************************************************************************)
(* The metrics file and tail_jsonl.                                        *)
(***************************************************************************)
(* The i-th character the trainer writes: an event is its body and its     *)
(* newline, and events are numbered from 1.                                *)
Char(i) == IF i % 2 = 1 THEN Body((i + 1) \div 2) ELSE Newline(i \div 2)
Chars == [line : 1..Events, newline : BOOLEAN]

FileIs ==
    /\ file \in Seq(Chars) /\ Len(file) <= 2 * Events
    /\ ~opened => file = <<>>
    /\ \A i \in 1..Len(file) : file[i] = Char(i)

(* The tail is in step when its lines and its partial line are what lies   *)
(* between the events logged and its position; or it is stuck before a     *)
(* line that does not parse, which stays in front of all it still reads.   *)
Count == Len(logged)
InStep ==
    /\ pos = 2 * Count + Len(lines) + Len(buf)
    /\ Len(lines) % 2 = 0 /\ Len(buf) <= 1
    /\ \A i \in 1..Len(lines) : lines[i] = Char(2 * Count + i)
    /\ \A i \in 1..Len(buf) : buf[i] = Char(2 * Count + Len(lines) + i)
BadFirst(text) ==
    /\ Count + 1 \in Unparsable /\ Len(text) >= 2
    /\ text[1] = Body(Count + 1) /\ text[2] = Newline(Count + 1)
Stuck == /\ Len(file) >= 2
         /\ IF tail = "parse" THEN pos >= 2 /\ BadFirst(lines) ELSE BadFirst(buf)

TailIs ==
    /\ pos \in 0..Len(file) /\ 2 * Count <= Len(file)
    /\ lines \in Seq(Chars) /\ buf \in Seq(Chars)
    /\ tail # "parse" => lines = <<>>
    /\ logged \in Seq(1..Events) /\ \A k \in 1..Count : logged[k] = k
    /\ InStep \/ Stuck

ThreadsAre ==
    /\ pipe \in [Streams -> 0..PipeSize]
    /\ tail \in {"poll", "parse", "ended"} /\ main \in {"streaming", "joining", "finished"}

WrapperInv == FileIs /\ TailIs /\ ThreadsAre
-----------------------------------------------------------------------------
(* Every number is even or odd.                                            *)
LEMMA Halves ==
    ASSUME NEW i \in Nat
    PROVE  \E m \in Nat, r \in 0..1 : i = 2 * m + r
<1>1. (i \div 2) \in Nat /\ (i % 2) \in 0..1 /\ i = 2 * (i \div 2) + (i % 2)  OBVIOUS
<1>2. PICK m \in Nat, r \in 0..1 : m = (i \div 2) /\ r = (i % 2)  BY <1>1
<1>3. QED  BY <1>1, <1>2

(* Odd characters are bodies, even ones newlines.                          *)
LEMMA CharIs ==
    ASSUME NEW k \in Nat
    PROVE  Char(2 * k + 1) = Body(k + 1) /\ Char(2 * k + 2) = Newline(k + 1)
<1>1. (2 * k + 1) % 2 = 1 /\ (2 * k + 2) % 2 = 0  OBVIOUS
<1>2. (2 * k + 1 + 1) \div 2 = k + 1
  <2>1. PICK n \in Nat : n = 2 * k + 2  OBVIOUS
  <2>2. n = 2 * (k + 1) + 0 /\ k + 1 \in Int /\ 0 \in 0..(2 - 1)  BY <2>1
  <2>3. PICK w \in Nat \ {0} : w = 2  OBVIOUS
  <2>4. n = w * (k + 1) + 0 /\ 0 \in 0..(w - 1)  BY <2>2, <2>3
  <2>5. (n \div w) = k + 1
    <3>1. \A q \in Int, i \in 0..(w - 1) : n = w * q + i => (n \div w) = q  BY RemainderIs
    <3>2. QED  BY <2>2, <2>4, <3>1
  <2>6. 2 * k + 1 + 1 = n  BY <2>1
  <2>7. QED  BY <2>3, <2>5, <2>6
<1>3. (2 * k + 2) \div 2 = k + 1
  <2>1. 2 * k + 1 + 1 = 2 * k + 2  OBVIOUS
  <2>2. QED  BY <1>2, <2>1
<1>4. QED  BY <1>1, <1>2, <1>3 DEF Char

(* A character is the body or the newline of some event.                   *)
LEMMA CharOf ==
    ASSUME NEW i \in Nat \ {0}
    PROVE  \E k \in Nat : \/ i = 2 * k + 1 /\ Char(i) = Body(k + 1)
                          \/ i = 2 * k + 2 /\ Char(i) = Newline(k + 1)
<1>1. PICK q \in Nat, r \in 0..1 : i = 2 * q + r  BY Halves
<1>2. CASE r = 1  BY <1>1, <1>2, CharIs
<1>3. CASE r = 0
  <2>1. q - 1 \in Nat /\ i = 2 * (q - 1) + 2  BY <1>1, <1>3
  <2>2. Char(2 * (q - 1) + 2) = Newline(q - 1 + 1)  BY <2>1, CharIs
  <2>3. QED  BY <2>1, <2>2
<1>4. QED  BY <1>2, <1>3

(* The even characters are the newlines.                                   *)
LEMMA EvenEnds ==
    ASSUME NEW i \in Nat
    PROVE  Char(i).newline <=> i % 2 = 0
<1>1. i % 2 \in 0..1  OBVIOUS
<1>2. QED  BY <1>1 DEF Char, Body, Newline

(* The last newline of a text lies in it, or is 0.                         *)
LEMMA LastEndIs ==
    ASSUME NEW text \in Seq(Chars)
    PROVE  /\ LastEnd(text) \in 0..Len(text)
           /\ \A i \in 1..Len(text) : text[i].newline => i <= LastEnd(text)
           /\ LastEnd(text) # 0 => text[LastEnd(text)].newline
<1> DEFINE Stops == {0} \cup Ends(text)
<1>1. Stops # {} /\ \A t \in Stops : t \in Nat /\ t <= Len(text)  BY DEF Ends
<1>2. Max(Stops) \in Stops /\ \A t \in Stops : t <= Max(Stops)
  <2> HIDE DEF Stops
  <2> QED  BY <1>1, MaxIsGreatest
<1>3. QED  BY <1>1, <1>2 DEF LastEnd, Ends

(* The first line of a text that starts with a body and its newline.       *)
LEMMA FirstEndIs ==
    ASSUME NEW text \in Seq(Chars), Len(text) >= 2, ~text[1].newline, text[2].newline
    PROVE  Min(Ends(text)) = 2
<1>1. Ends(text) \in SUBSET Nat /\ 2 \in Ends(text) /\ 1 \notin Ends(text) /\ 0 \notin Ends(text)
  BY DEF Ends
<1>2. Min(Ends(text)) \in Ends(text) /\ Min(Ends(text)) <= 2  BY <1>1, MinIsLeast
<1>3. QED  BY <1>1, <1>2

(* A stretch of the file that starts after a newline: its last newline is  *)
(* its last character or the one before.                                   *)
LEMMA StretchEnds ==
    ASSUME NEW text \in Seq(Chars), NEW m \in Nat,
           \A i \in 1..Len(text) : text[i] = Char(2 * m + i)
    PROVE  LastEnd(text) % 2 = 0 /\ Len(text) - LastEnd(text) \in 0..1
<1>1. \A i \in 1..Len(text) : text[i].newline <=> i % 2 = 0
  <2>1. ASSUME NEW i \in 1..Len(text)  PROVE text[i].newline <=> i % 2 = 0
    <3>1. 2 * m + i \in Nat /\ (2 * m + i) % 2 = i % 2  OBVIOUS
    <3>2. Char(2 * m + i).newline <=> (2 * m + i) % 2 = 0  BY <3>1, EvenEnds
    <3>3. QED  BY <3>1, <3>2
  <2>2. QED  BY <2>1
<1>2. PICK e \in 0..Len(text) : e = LastEnd(text)  BY LastEndIs
<1>3. e % 2 = 0
  <2>1. CASE e = 0  BY <2>1
  <2>2. CASE e # 0
    <3>1. e \in 1..Len(text) /\ text[e].newline  BY <1>2, <2>2, LastEndIs
    <3>2. QED  BY <1>1, <3>1
  <2>3. QED  BY <2>1, <2>2
<1>4. ASSUME e + 2 <= Len(text)  PROVE FALSE
  <2>1. e + 2 \in 1..Len(text) /\ (e + 2) % 2 = 0  BY <1>3, <1>4
  <2>2. e + 2 <= e  BY <1>1, <1>2, <2>1, LastEndIs
  <2>3. QED  BY <2>2
<1>5. Len(text) - e \in 0..1  BY <1>4
<1>6. QED  BY <1>2, <1>3, <1>5

(* The trainer has written as many newlines as there are whole lines, and  *)
(* the body of the next line or not.                                       *)
LEMMA WrittenIs ==
    ASSUME FileIs, NEW m \in Nat, Len(file) = 2 * m \/ Len(file) = 2 * m + 1
    PROVE  /\ Written = m
           /\ Cardinality({k \in 1..Events : Body(k) \in Range(file)}) = Len(file) - m
<1> DEFINE N == {k \in 1..Events : Newline(k) \in Range(file)}
           D == {k \in 1..Events : Body(k) \in Range(file)}
           q == Len(file) - m
<1>1. file \in Seq(Chars) /\ Len(file) \in Nat /\ Len(file) <= 2 * Events /\ Events \in Nat
      /\ \A i \in 1..Len(file) : file[i] = Char(i)
  BY MetricsAssumption DEF FileIs
<1>2. q \in Nat /\ q <= Events /\ m <= Events /\ Events \in Nat  BY <1>1
<1>3. N = 1..m
  <2>1. ASSUME NEW k \in N  PROVE k <= m
    <3>1. PICK i \in 1..Len(file) : Newline(k) = Char(i)  BY <1>1 DEF Range
    <3>2. i \in Nat \ {0}  BY <1>1
    <3>3. PICK j \in Nat : \/ i = 2 * j + 1 /\ Char(i) = Body(j + 1)
                           \/ i = 2 * j + 2 /\ Char(i) = Newline(j + 1)
      BY <3>2, CharOf
    <3>4. i = 2 * j + 2 /\ k = j + 1  BY <3>1, <3>3 DEF Body, Newline
    <3>5. QED  BY <1>1, <3>4
  <2>2. ASSUME NEW k \in 1..m  PROVE k \in N
    <3>1. PICK j \in Nat : k = j + 1 /\ j + 1 <= m
      <4>1. k - 1 \in Nat /\ k = (k - 1) + 1 /\ (k - 1) + 1 <= m  OBVIOUS
      <4>2. QED  BY <4>1
    <3>2. 2 * j + 2 \in 1..Len(file)  BY <1>1, <3>1
    <3>3. file[2 * j + 2] = Newline(k)  BY <1>1, <3>1, <3>2, CharIs
    <3>4. k \in Nat /\ k \in 1..Events  BY <1>2, <3>1
    <3>5. DOMAIN file = 1..Len(file)  BY <1>1
    <3>6. Newline(k) \in Range(file)  BY <3>2, <3>3, <3>5 DEF Range
    <3>7. QED  BY <3>4, <3>6
  <2>3. QED  BY <2>1, <2>2
<1>4. D = 1..q
  <2>1. ASSUME NEW k \in D  PROVE k <= q
    <3>1. PICK i \in 1..Len(file) : Body(k) = Char(i)  BY <1>1 DEF Range
    <3>2. i \in Nat \ {0}  BY <1>1
    <3>3. PICK j \in Nat : \/ i = 2 * j + 1 /\ Char(i) = Body(j + 1)
                           \/ i = 2 * j + 2 /\ Char(i) = Newline(j + 1)
      BY <3>2, CharOf
    <3>4. i = 2 * j + 1 /\ k = j + 1  BY <3>1, <3>3 DEF Body, Newline
    <3>5. QED  BY <1>1, <3>4
  <2>2. ASSUME NEW k \in 1..q  PROVE k \in D
    <3>1. PICK j \in Nat : k = j + 1 /\ j + 1 <= q
      <4>1. k - 1 \in Nat /\ k = (k - 1) + 1 /\ (k - 1) + 1 <= q  BY <1>2
      <4>2. QED  BY <4>1
    <3>2. 2 * j + 1 \in 1..Len(file)  BY <1>1, <3>1
    <3>3. file[2 * j + 1] = Body(k)  BY <1>1, <3>1, <3>2, CharIs
    <3>4. k \in Nat /\ k \in 1..Events  BY <1>2, <3>1
    <3>5. DOMAIN file = 1..Len(file)  BY <1>1
    <3>6. Body(k) \in Range(file)  BY <3>2, <3>3, <3>5 DEF Range
    <3>7. QED  BY <3>4, <3>6
  <2>3. QED  BY <1>2, <2>1, <2>2
<1>5. Cardinality(1..m) = m /\ Cardinality(1..q) = q
  <2>1. \A b \in Nat : Cardinality(1..b) = b
    <3>1. ASSUME NEW b \in Nat  PROVE Cardinality(1..b) = b
      <4>1. Cardinality(1..b) = IF 1 > b THEN 0 ELSE b - 1 + 1  BY FS_Interval
      <4>2. QED  BY <4>1
    <3>2. QED  BY <3>1
  <2> HIDE DEF q
  <2>2. QED  BY <1>2, <2>1
<1>6. QED  BY <1>3, <1>4, <1>5 DEF Written

(* The trainer appends the next character, and only while events are left. *)
LEMMA EmitIs ==
    ASSUME FileIs, Emit
    PROVE  /\ file' = Append(file, Char(Len(file) + 1)) /\ Len(file) + 1 <= 2 * Events
           /\ Char(Len(file) + 1) \in Chars
<1>1. Len(file) \in Nat /\ Events \in Nat /\ Len(file) <= 2 * Events
  BY MetricsAssumption DEF FileIs
<1>2. PICK m \in Nat, r \in 0..1 : Len(file) = 2 * m + r  BY <1>1, Halves
<1> DEFINE begun == Cardinality({k \in 1..Events : Body(k) \in Range(file)})
<1>3. Written = m /\ begun = m + r
  <2>1. Len(file) = 2 * m \/ Len(file) = 2 * m + 1  BY <1>2
  <2>2. Written = m /\ begun = Len(file) - m  BY <2>1, WrittenIs
  <2>3. QED  BY <1>1, <1>2, <2>2
<1>4. \/ begun > Written /\ file' = Append(file, Newline(begun))
      \/ begun = Written /\ begun < Events /\ file' = Append(file, Body(begun + 1))
  BY DEF Emit
<1>5. CASE r = 1
  <2>1. file' = Append(file, Newline(m + 1))  BY <1>3, <1>4, <1>5
  <2>2. Len(file) + 1 = 2 * m + 2  BY <1>1, <1>2, <1>5
  <2>3. Char(2 * m + 2) = Newline(m + 1)  BY CharIs
  <2>4. m + 1 \in 1..Events  BY <1>1, <1>2, <1>5
  <2>5. Newline(m + 1) \in Chars  BY <2>4 DEF Chars, Newline
  <2>6. QED  BY <1>1, <2>1, <2>2, <2>3, <2>4, <2>5
<1>6. CASE r = 0
  <2>1. file' = Append(file, Body(m + 1)) /\ m < Events  BY <1>3, <1>4, <1>6
  <2>2. Len(file) + 1 = 2 * m + 1  BY <1>1, <1>2, <1>6
  <2>3. Char(2 * m + 1) = Body(m + 1)  BY CharIs
  <2>4. m + 1 \in 1..Events  BY <1>1, <2>1
  <2>5. Body(m + 1) \in Chars  BY <2>4 DEF Chars, Body
  <2>6. QED  BY <1>1, <2>1, <2>2, <2>3, <2>4, <2>5
<1>7. QED  BY <1>5, <1>6

(* Steps that leave the tail alone may let the file grow.                  *)
LEMMA TailUndisturbed ==
    ASSUME FileIs, TailIs, UNCHANGED tailVars, Len(file') \in Nat, Len(file) <= Len(file')
    PROVE  TailIs'
<1>1. /\ tail' = tail /\ pos' = pos /\ buf' = buf /\ lines' = lines /\ logged' = logged
  BY DEF tailVars
<1>2. Count' = Count /\ (InStep => InStep') /\ (Stuck => Stuck')
  <2>1. Len(file) >= 2 => Len(file') >= 2
    <3>1. Len(file) \in Nat  BY DEF FileIs
    <3>2. QED  BY <3>1
  <2>2. QED  BY <1>1, <2>1 DEF Count, InStep, Stuck, BadFirst
<1>3. pos' \in 0..Len(file') /\ 2 * Count' <= Len(file')
  <2>1. Len(file) \in Nat /\ logged \in Seq(1..Events)  BY DEF FileIs, TailIs
  <2>2. Count \in Nat  BY <2>1 DEF Count
  <2>3. pos \in 0..Len(file) /\ 2 * Count <= Len(file)  BY DEF TailIs
  <2>4. QED  BY <1>1, <1>2, <2>1, <2>2, <2>3
<1>4. QED  BY <1>1, <1>2, <1>3 DEF TailIs

(* What a slice of a sequence holds.                                       *)
LEMMA SliceIs ==
    ASSUME NEW S, NEW s \in Seq(S), NEW a \in Nat, NEW e \in a..Len(s)
    PROVE  /\ SubSeq(s, a + 1, e) \in Seq(S) /\ Len(SubSeq(s, a + 1, e)) = e - a
           /\ \A i \in 1..(e - a) : SubSeq(s, a + 1, e)[i] = s[a + i]
<1>1. a + 1 \in 1..(Len(s) + 1) /\ e \in (a + 1 - 1)..Len(s)  OBVIOUS
<1>2. Len(SubSeq(s, a + 1, e)) = e - a  BY <1>1
<1>3. \A i \in 1..(e - a) : SubSeq(s, a + 1, e)[i] = s[a + i]  BY <1>1
<1>4. SubSeq(s, a + 1, e) \in Seq(S)  BY <1>1
<1>5. QED  BY <1>2, <1>3, <1>4

(* The line the tail turns to is that of the next event.                   *)
LEMMA LineIs ==
    ASSUME FileIs, TailIs, tail = "parse", lines # <<>>
    PROVE  /\ Len(lines) >= 2 /\ Min(Ends(lines)) = 2
           /\ Line \in Seq(Chars) /\ Len(Line) = 2
           /\ Line[1] = Body(Count + 1) /\ Line[2] = Newline(Count + 1)
           /\ Line = <<Body(Count + 1), Newline(Count + 1)>>
<1>1. /\ lines \in Seq(Chars) /\ Len(lines) \in Nat /\ Len(lines) # 0
      /\ logged \in Seq(1..Events) /\ Count \in Nat
  BY DEF TailIs, Count
<1>2. /\ Len(lines) >= 2
      /\ lines[1] = Body(Count + 1) /\ lines[2] = Newline(Count + 1)
  <2>1. CASE InStep
    <3>1. Len(lines) % 2 = 0 /\ \A i \in 1..Len(lines) : lines[i] = Char(2 * Count + i)
      BY <2>1 DEF InStep
    <3>2. Len(lines) >= 2  BY <1>1, <3>1
    <3>3. lines[1] = Char(2 * Count + 1) /\ lines[2] = Char(2 * Count + 2)
      BY <1>1, <3>1, <3>2
    <3>4. QED  BY <1>1, <3>2, <3>3, CharIs
  <2>2. CASE Stuck  BY <2>2 DEF Stuck, BadFirst
  <2>3. QED  BY <2>1, <2>2 DEF TailIs
<1>3. Min(Ends(lines)) = 2
  <2>1. ~lines[1].newline /\ lines[2].newline  BY <1>2 DEF Body, Newline
  <2>2. QED  BY <1>1, <1>2, <2>1, FirstEndIs
<1>4. Line = SubSeq(lines, 0 + 1, 2)  BY <1>3 DEF Line
<1>5. 0 \in Nat /\ 2 \in 0..Len(lines)  BY <1>1, <1>2
<1>6. /\ Line \in Seq(Chars) /\ Len(Line) = 2
      /\ \A i \in 1..2 : Line[i] = lines[i]
  <2>1. /\ Line \in Seq(Chars) /\ Len(Line) = 2 - 0
        /\ \A i \in 1..(2 - 0) : Line[i] = lines[0 + i]
    BY <1>1, <1>4, <1>5, SliceIs
  <2>2. QED  BY <2>1
<1>7. Line[1] = Body(Count + 1) /\ Line[2] = Newline(Count + 1)  BY <1>2, <1>6
<1>8. QED  BY <1>2, <1>3, <1>6, <1>7

(* A read keeps the tail in step, or stuck, wherever it ends in a line.    *)
LEMMA ReadKeeps ==
    ASSUME FileIs, TailIs, TailRead
    PROVE  TailIs'
<1> DEFINE chunk == SubSeq(file, pos + 1, Len(file))
           text == buf \o chunk
           e == LastEnd(text)
           b == Len(buf)
<1>1. /\ file \in Seq(Chars) /\ Len(file) \in Nat /\ pos \in 0..Len(file) /\ buf \in Seq(Chars)
      /\ logged \in Seq(1..Events) /\ Count \in Nat /\ b \in Nat /\ 2 * Count <= Len(file)
      /\ \A k \in 1..Count : logged[k] = k
  BY DEF FileIs, TailIs, Count
<1>2. /\ tail = "poll" /\ tail' = "parse" /\ lines = <<>> /\ pos' = Len(file)
      /\ lines' = SubSeq(text, 1, e) /\ buf' = SubSeq(text, e + 1, Len(text))
      /\ logged' = logged /\ file' = file
  BY DEF TailRead, TailIs, Whole, Partial, KeptBack, ReadTo, trainerVars
<1>3. /\ chunk \in Seq(Chars) /\ Len(chunk) = Len(file) - pos
      /\ \A i \in 1..(Len(file) - pos) : chunk[i] = file[pos + i]
  <2>1. pos \in Nat /\ Len(file) \in pos..Len(file)  BY <1>1
  <2>2. QED  BY <1>1, <2>1, SliceIs
<1>4. /\ text \in Seq(Chars) /\ Len(text) = b + (Len(file) - pos)
      /\ \A i \in 1..b : text[i] = buf[i]
      /\ \A i \in (b + 1)..(b + (Len(file) - pos)) : text[i] = chunk[i - b]
  <2>1. PICK c \in Seq(Chars) : c = chunk  BY <1>3
  <2>2. text = buf \o c  BY <2>1
  <2> HIDE DEF chunk, text
  <2>3. /\ text \in Seq(Chars) /\ Len(text) = b + Len(c)
        /\ \A i \in 1..b : text[i] = buf[i]
        /\ \A i \in (b + 1)..(b + Len(c)) : text[i] = c[i - b]
    BY <1>1, <2>2
  <2>4. QED  BY <1>3, <2>1, <2>3
<1> HIDE DEF chunk, text
<1>5. e \in 0..Len(text)  BY <1>4, LastEndIs
<1> HIDE DEF e
<1>6. /\ lines' \in Seq(Chars) /\ Len(lines') = e /\ \A i \in 1..e : lines'[i] = text[i]
  <2>1. 0 \in Nat /\ e \in 0..Len(text) /\ lines' = SubSeq(text, 0 + 1, e)  BY <1>2, <1>5
  <2>2. /\ lines' \in Seq(Chars) /\ Len(lines') = e - 0
        /\ \A i \in 1..(e - 0) : lines'[i] = text[0 + i]
    BY <1>4, <2>1, SliceIs
  <2>3. QED  BY <1>5, <2>2
<1>7. /\ buf' \in Seq(Chars) /\ Len(buf') = Len(text) - e
      /\ \A i \in 1..(Len(text) - e) : buf'[i] = text[e + i]
  <2>1. e \in Nat /\ Len(text) \in e..Len(text)  BY <1>4, <1>5
  <2>2. QED  BY <1>2, <1>4, <2>1, SliceIs
<1>8. Count' = Count /\ (Stuck' <=> Len(file) >= 2 /\ Len(file) >= 2 /\ BadFirst(lines'))
  BY <1>2 DEF Count, Stuck, BadFirst
<1>9. InStep' \/ Stuck'
  <2>1. CASE InStep
    <3>1. /\ pos = 2 * Count + b /\ b <= 1
          /\ \A i \in 1..b : buf[i] = Char(2 * Count + i)
      <4>1. Len(lines) = 0  BY <1>2
      <4>2. QED  BY <1>1, <2>1, <4>1 DEF InStep
    <3>2. \A i \in 1..Len(text) : text[i] = Char(2 * Count + i)
      <4>1. ASSUME NEW i \in 1..Len(text)  PROVE text[i] = Char(2 * Count + i)
        <5>1. CASE i <= b
          <6>1. i \in 1..b  BY <1>1, <5>1
          <6>2. QED  BY <1>4, <3>1, <6>1
        <5>2. CASE ~(i <= b)
          <6>1. i \in (b + 1)..(b + (Len(file) - pos)) /\ i - b \in 1..(Len(file) - pos)
            BY <1>1, <1>4, <5>2
          <6>2. text[i] = file[pos + (i - b)]  BY <1>3, <1>4, <6>1
          <6>3. pos + (i - b) = 2 * Count + i /\ pos + (i - b) \in 1..Len(file)
            BY <1>1, <3>1, <6>1
          <6>4. QED  BY <6>2, <6>3 DEF FileIs
        <5>3. QED  BY <5>1, <5>2
      <4>2. QED  BY <4>1
    <3>3. e % 2 = 0 /\ Len(text) - e \in 0..1  BY <1>1, <1>4, <3>2, StretchEnds DEF e
    <3>4. Len(text) = Len(file) - 2 * Count  BY <1>1, <1>4, <3>1
    <3>5. pos' = 2 * Count + e + (Len(text) - e)  BY <1>1, <1>2, <1>5, <3>4
    <3>6. \A i \in 1..e : lines'[i] = Char(2 * Count + i)  BY <1>4, <1>5, <1>6, <3>2
    <3>7. \A i \in 1..(Len(text) - e) : buf'[i] = Char(2 * Count + e + i)
      <4>1. ASSUME NEW i \in 1..(Len(text) - e)  PROVE buf'[i] = Char(2 * Count + e + i)
        <5>1. e + i \in 1..Len(text) /\ 2 * Count + (e + i) = 2 * Count + e + i
          BY <1>1, <1>4, <1>5
        <5>2. QED  BY <1>7, <3>2, <5>1
      <4>2. QED  BY <4>1
    <3>8. Len(lines') % 2 = 0 /\ Len(buf') <= 1  BY <1>6, <1>7, <3>3
    <3>9. InStep'  BY <1>6, <1>7, <1>8, <3>5, <3>6, <3>7, <3>8 DEF InStep
    <3>10. QED  BY <3>9
  <2>2. CASE Stuck
    <3>1. /\ Len(file) >= 2 /\ Count + 1 \in Unparsable /\ b >= 2
          /\ buf[1] = Body(Count + 1) /\ buf[2] = Newline(Count + 1)
      BY <1>2, <2>2 DEF Stuck, BadFirst
    <3>2. /\ Len(text) >= 2 /\ text[1] = Body(Count + 1) /\ text[2] = Newline(Count + 1)
      BY <1>1, <1>4, <3>1
    <3>3. e >= 2
      <4>1. text[2].newline /\ 2 \in 1..Len(text)  BY <1>4, <3>2 DEF Newline
      <4>2. 2 <= e  BY <1>4, <4>1, LastEndIs DEF e
      <4>3. QED  BY <1>5, <4>2
    <3>4. 1 \in 1..e /\ 2 \in 1..e  BY <1>5, <3>3
    <3>5. BadFirst(lines')  BY <1>6, <3>1, <3>2, <3>3, <3>4 DEF BadFirst
    <3>6. QED  BY <1>8, <3>1, <3>5
  <2>3. QED  BY <2>1, <2>2 DEF TailIs
<1>10. pos' \in 0..Len(file') /\ 2 * Count' <= Len(file')  BY <1>1, <1>2, <1>8
<1>11. QED  BY <1>1, <1>2, <1>6, <1>7, <1>8, <1>9, <1>10 DEF TailIs

(* Logging a line moves the tail on by one event.                          *)
LEMMA LogKeeps ==
    ASSUME FileIs, TailIs, TailLog
    PROVE  TailIs'
<1> DEFINE n == Count
           w == Len(lines)
<1>1. /\ Len(file) \in Nat /\ Len(file) <= 2 * Events /\ Events \in Nat
      /\ pos \in 0..Len(file) /\ buf \in Seq(Chars) /\ lines \in Seq(Chars)
      /\ logged \in Seq(1..Events) /\ n \in Nat /\ w \in Nat /\ 2 * n <= Len(file)
      /\ \A k \in 1..n : logged[k] = k
  BY MetricsAssumption DEF FileIs, TailIs, Count
<1>2. /\ tail = "parse" /\ tail' = tail /\ lines # <<>> /\ Parses(Line)
      /\ logged' = Append(logged, Line[1].line) /\ lines' = AfterLine
      /\ file' = file /\ pos' = pos /\ buf' = buf
  BY DEF TailLog, trainerVars
<1>3. /\ w >= 2 /\ Min(Ends(lines)) = 2 /\ Len(Line) = 2
      /\ Line[1] = Body(n + 1) /\ Line[2] = Newline(n + 1)
  BY <1>2, LineIs
<1>4. n + 1 \notin Unparsable  BY <1>2, <1>3 DEF Parses, Newline
<1>5. logged' = Append(logged, n + 1)  BY <1>2, <1>3 DEF Body
<1>6. InStep  BY <1>2, <1>4 DEF TailIs, Stuck, BadFirst
<1>7. /\ pos = 2 * n + w + Len(buf) /\ w % 2 = 0 /\ Len(buf) <= 1
      /\ \A i \in 1..w : lines[i] = Char(2 * n + i)
      /\ \A i \in 1..Len(buf) : buf[i] = Char(2 * n + w + i)
  BY <1>6 DEF InStep
<1>8. 2 * (n + 1) <= Len(file) /\ n + 1 \in 1..Events /\ Len(buf) \in Nat
  <2>1. Len(buf) \in Nat  BY <1>1
  <2>2. QED  BY <1>1, <1>3, <1>7, <2>1
<1>9. /\ logged' \in Seq(1..Events) /\ Len(logged') = n + 1
      /\ \A k \in 1..(n + 1) : logged'[k] = k
  BY <1>1, <1>5, <1>8 DEF Count
<1>10. /\ lines' \in Seq(Chars) /\ Len(lines') = w - 2
       /\ \A i \in 1..(w - 2) : lines'[i] = lines[2 + i]
  <2>1. lines' = SubSeq(lines, 2 + 1, w) /\ w \in 2..w /\ 2 \in Nat
    BY <1>1, <1>2, <1>3 DEF AfterLine
  <2> HIDE DEF w
  <2>2. w = Len(lines)  BY DEF w
  <2>3. QED  BY <1>1, <2>1, <2>2, SliceIs
<1>11. Count' = n + 1  BY <1>9 DEF Count
<1> HIDE DEF n, w
<1>12. InStep'
  <2>1. pos' = 2 * (n + 1) + (w - 2) + Len(buf')  BY <1>1, <1>2, <1>7, <1>8
  <2>2. (w - 2) % 2 = 0  BY <1>1, <1>3, <1>7
  <2>3. \A i \in 1..(w - 2) : lines'[i] = Char(2 * (n + 1) + i)
    <3>1. ASSUME NEW i \in 1..(w - 2)  PROVE lines'[i] = Char(2 * (n + 1) + i)
      <4>1. 2 + i \in 1..w /\ 2 * n + (2 + i) = 2 * (n + 1) + i  BY <1>1, <1>3
      <4>2. QED  BY <1>7, <1>10, <4>1
    <3>2. QED  BY <3>1
  <2>4. \A i \in 1..Len(buf') : buf'[i] = Char(2 * (n + 1) + (w - 2) + i)
    <3>1. ASSUME NEW i \in 1..Len(buf)  PROVE 2 * (n + 1) + (w - 2) + i = 2 * n + w + i
      BY <1>1, <1>8
    <3>2. QED  BY <1>2, <1>7, <3>1
  <2>5. Len(buf') <= 1  BY <1>2, <1>7
  <2>6. QED  BY <1>10, <1>11, <2>1, <2>2, <2>3, <2>4, <2>5 DEF InStep
<1>13. QED  BY <1>1, <1>2, <1>8, <1>9, <1>10, <1>11, <1>12 DEF TailIs

(* A line put back leaves the tail stuck before it for good.               *)
LEMMA PutBackKeeps ==
    ASSUME FileIs, TailIs, TailPutBack
    PROVE  TailIs'
<1>1. /\ Len(file) \in Nat /\ pos \in 0..Len(file) /\ buf \in Seq(Chars)
      /\ lines \in Seq(Chars) /\ logged \in Seq(1..Events) /\ Count \in Nat
      /\ 2 * Count <= Len(file)
      /\ \A k \in 1..Count : logged[k] = k
  BY DEF FileIs, TailIs, Count
<1>2. /\ tail = "parse" /\ tail' = "poll" /\ lines # <<>> /\ lines' = <<>> /\ ~Parses(Line)
      /\ buf' = Line \o buf /\ pos' = pos - Len(Line)
      /\ file' = file /\ logged' = logged
  BY DEF TailPutBack, trainerVars
<1>3. /\ Len(lines) >= 2 /\ Line \in Seq(Chars) /\ Len(Line) = 2
      /\ Line[1] = Body(Count + 1) /\ Line[2] = Newline(Count + 1)
      /\ Line = <<Body(Count + 1), Newline(Count + 1)>>
  BY <1>2, LineIs
<1>4. Count + 1 \in Unparsable  BY <1>2, <1>3 DEF Parses, Newline
<1>5. pos >= 2
  <2>1. CASE InStep
    <3>1. pos = 2 * Count + Len(lines) + Len(buf)  BY <2>1 DEF InStep
    <3>2. Len(lines) \in Nat /\ Len(buf) \in Nat  BY <1>1
    <3>3. QED  BY <1>1, <1>3, <3>1, <3>2
  <2>2. CASE Stuck  BY <1>2, <2>2 DEF Stuck
  <2>3. QED  BY <2>1, <2>2 DEF TailIs
<1>6. /\ buf' \in Seq(Chars) /\ Len(buf') >= 2
      /\ buf'[1] = Body(Count + 1) /\ buf'[2] = Newline(Count + 1)
  BY <1>1, <1>2, <1>3
<1>7. Count' = Count /\ pos' \in 0..Len(file') /\ Len(file') >= 2
  BY <1>1, <1>2, <1>3, <1>5 DEF Count
<1>8. Stuck'  BY <1>2, <1>4, <1>6, <1>7 DEF Stuck, BadFirst
<1>9. lines' \in Seq(Chars)  BY <1>2
<1>10. QED  BY <1>1, <1>2, <1>6, <1>7, <1>8, <1>9 DEF TailIs

(* The pipes hold counts, the threads are where the code can be.           *)
LEMMA ThreadsKeep ==
    ASSUME ThreadsAre, [WrapperNext]_wrapperVars
    PROVE  ThreadsAre'
<1>1. /\ pipe \in [Streams -> 0..PipeSize] /\ PipeSize \in Nat
      /\ tail \in {"poll", "parse", "ended"} /\ main \in {"streaming", "joining", "finished"}
  BY MetricsAssumption DEF ThreadsAre
<1>2. tail' \in {"poll", "parse", "ended"} /\ main' \in {"streaming", "joining", "finished"}
  BY <1>1 DEF WrapperNext, Trainer, Open, Emit, ChildExits, Output, Abort, Main, RunBinaryReturns,
       Finish, TailThread, TailRead, TailLog, TailPutBack, TailNext, TailEnd, Drain, EndOfStream,
       tailVars, mainVars, wrapperVars
<1>3. pipe' \in [Streams -> 0..PipeSize]
  <2>1. CASE pipe' = pipe  BY <1>1, <2>1
  <2>2. CASE \E s \in Streams : pipe[s] < PipeSize /\ pipe' = [pipe EXCEPT ![s] = @ + 1]
    BY <1>1, <2>2
  <2>3. CASE \E s \in Streams : pipe[s] > 0 /\ pipe' = [pipe EXCEPT ![s] = @ - 1]
    BY <1>1, <2>3
  <2>4. QED
    BY <2>1, <2>2, <2>3 DEF WrapperNext, Trainer, Open, Emit, ChildExits, Output, Abort, Main,
       RunBinaryReturns, Finish, TailThread, TailRead, TailLog, TailPutBack, TailNext, TailEnd,
       Drain, EndOfStream, wrapperVars
<1>4. QED  BY <1>2, <1>3 DEF ThreadsAre

(* In a fresh run directory the invariant holds at the start.              *)
LEMMA WrapperInitInv == Old = 0 /\ WrapperInit => WrapperInv
<1> SUFFICES ASSUME Old = 0, WrapperInit PROVE WrapperInv  OBVIOUS
<1>1. file = <<>>
  <2>1. 2 * Old = 0  OBVIOUS
  <2>2. DOMAIN file = 1..0  BY <2>1 DEF WrapperInit
  <2>3. file = [i \in 1..0 |-> file[i]]  BY <2>1 DEF WrapperInit
  <2>4. QED  BY <2>2, <2>3
<1>2. /\ pos = 0 /\ buf = <<>> /\ lines = <<>> /\ logged = <<>> /\ tail = "poll"
      /\ opened = FALSE /\ main = "streaming" /\ pipe = [s \in Streams |-> 0]
      /\ PipeSize \in Nat /\ Events \in Nat
  BY MetricsAssumption DEF WrapperInit
<1>3. FileIs
  <2>1. file \in Seq(Chars) /\ Len(file) = 0  BY <1>1
  <2>2. QED  BY <1>1, <1>2, <2>1 DEF FileIs
<1>4. Count = 0 /\ logged \in Seq(1..Events) /\ lines \in Seq(Chars) /\ buf \in Seq(Chars)
      /\ Len(lines) = 0 /\ Len(buf) = 0 /\ Len(file) = 0
  BY <1>1, <1>2 DEF Count
<1>5. InStep  BY <1>2, <1>4 DEF InStep
<1>6. TailIs  BY <1>2, <1>4, <1>5 DEF TailIs
<1>7. ThreadsAre  BY <1>2 DEF ThreadsAre
<1>8. QED  BY <1>3, <1>6, <1>7 DEF WrapperInv

(* Every step of the child, the readers, the tail and the main thread      *)
(* keeps the invariant.                                                    *)
LEMMA WrapperInductive == WrapperInv /\ [WrapperNext]_wrapperVars => WrapperInv'
<1> SUFFICES ASSUME WrapperInv, [WrapperNext]_wrapperVars PROVE WrapperInv'  OBVIOUS
<1>1. FileIs /\ TailIs  BY DEF WrapperInv
<1>2. /\ file \in Seq(Chars) /\ Len(file) \in Nat /\ Len(file) <= 2 * Events
      /\ ~opened => file = <<>>
      /\ \A i \in 1..Len(file) : file[i] = Char(i)
  BY <1>1 DEF FileIs
<1>3. ThreadsAre'  BY ThreadsKeep DEF WrapperInv
<1>4. CASE Open
  <2>1. file' = file /\ opened' = TRUE /\ UNCHANGED tailVars  BY <1>2, <1>4 DEF Open
  <2>2. FileIs'  BY <1>2, <2>1 DEF FileIs
  <2>3. TailIs'  BY <1>1, <1>2, <2>1, TailUndisturbed
  <2>4. QED  BY <1>3, <2>2, <2>3 DEF WrapperInv
<1>5. CASE Emit
  <2> DEFINE c == Char(Len(file) + 1)
  <2>1. file' = Append(file, c) /\ Len(file) + 1 <= 2 * Events /\ c \in Chars
    BY <1>1, <1>5, EmitIs
  <2>2. opened /\ opened' = opened /\ UNCHANGED tailVars  BY <1>5 DEF Emit
  <2>3. /\ file' \in Seq(Chars) /\ Len(file') = Len(file) + 1 /\ file'[Len(file) + 1] = c
        /\ \A i \in 1..Len(file) : file'[i] = file[i]
    <3> HIDE DEF c
    <3> QED  BY <1>2, <2>1
  <2>4. \A i \in 1..Len(file') : file'[i] = Char(i)
    <3>1. ASSUME NEW i \in 1..Len(file')  PROVE i \in 1..Len(file) \/ i = Len(file) + 1
      BY <1>2, <2>3
    <3>2. QED  BY <1>2, <2>3, <3>1
  <2>5. FileIs'  BY <2>1, <2>2, <2>3, <2>4 DEF FileIs
  <2>6. Len(file') \in Nat /\ Len(file) <= Len(file')  BY <1>2, <2>3
  <2>7. TailIs'  BY <1>1, <2>2, <2>6, TailUndisturbed
  <2>8. QED  BY <1>3, <2>5, <2>7 DEF WrapperInv
<1>6. CASE UNCHANGED <<file, opened>> /\ UNCHANGED tailVars
  <2>1. FileIs'  BY <1>2, <1>6 DEF FileIs
  <2>2. TailIs'  BY <1>1, <1>2, <1>6, TailUndisturbed
  <2>3. QED  BY <1>3, <2>1, <2>2 DEF WrapperInv
<1>7. CASE TailThread
  <2>1. UNCHANGED <<file, opened>>
    BY <1>7 DEF TailThread, TailRead, TailLog, TailPutBack, TailNext, TailEnd, trainerVars
  <2>2. FileIs'  BY <1>2, <2>1 DEF FileIs
  <2>3. TailIs'
    <3>1. CASE TailRead  BY <1>1, <3>1, ReadKeeps
    <3>2. CASE TailLog  BY <1>1, <3>2, LogKeeps
    <3>3. CASE TailPutBack  BY <1>1, <3>3, PutBackKeeps
    <3>4. CASE TailNext \/ TailEnd
      <4>1. /\ pos' = pos /\ buf' = buf /\ lines' = lines /\ logged' = logged /\ file' = file
            /\ lines = <<>> /\ tail' # "parse"
        BY <1>1, <3>4 DEF TailNext, TailEnd, TailIs, trainerVars
      <4>2. Count' = Count /\ (InStep => InStep')  BY <4>1 DEF Count, InStep
      <4>3. Stuck => Stuck'
        <5>1. ~BadFirst(lines)
          <6>1. Len(lines) = 0  BY <4>1
          <6>2. QED  BY <6>1 DEF BadFirst
        <5>2. Stuck => Len(file) >= 2 /\ BadFirst(buf)  BY <5>1 DEF Stuck
        <5>3. BadFirst(buf) => BadFirst(buf)'  BY <4>1, <4>2 DEF BadFirst
        <5>4. QED  BY <4>1, <5>2, <5>3 DEF Stuck
      <4>4. QED  BY <1>1, <4>1, <4>2, <4>3 DEF TailIs
    <3>5. QED  BY <1>7, <3>1, <3>2, <3>3, <3>4 DEF TailThread
  <2>4. QED  BY <1>3, <2>2, <2>3 DEF WrapperInv
<1>8. QED
  <2>1. Open \/ Emit \/ TailThread \/ (UNCHANGED <<file, opened>> /\ UNCHANGED tailVars)
    BY DEF WrapperNext, Trainer, ChildExits, Output, Abort, Main, RunBinaryReturns, Finish,
           Drain, EndOfStream, wrapperVars, trainerVars, tailVars
  <2>2. QED  BY <1>4, <1>5, <1>6, <1>7, <2>1

(* The invariant holds in every reachable state.                           *)
LEMMA WrapperInvariantHolds == Old = 0 => (WrapperSpec => []WrapperInv)
<1>1. SUFFICES ASSUME Old = 0 PROVE WrapperSpec => []WrapperInv  OBVIOUS
<1>2. WrapperInit => WrapperInv  BY <1>1, WrapperInitInv
<1>3. QED  BY <1>2, WrapperInductive, PTL DEF WrapperSpec

(* In a fresh run directory tail_jsonl gives run.log the trainer's events, *)
(* each once and in order, for every number of events, set of unparsable   *)
(* lines and interleaving of reads, writes and the end of the trainer.     *)
THEOREM EventsLoggedInOrder == Old = 0 => (WrapperSpec => []LoggedInOrder)
<1>1. WrapperInv => LoggedInOrder
  <2> SUFFICES ASSUME WrapperInv PROVE LoggedInOrder  OBVIOUS
  <2>1. /\ Len(file) <= 2 * Events /\ Len(file) \in Nat /\ pos \in 0..Len(file)
        /\ logged \in Seq(1..Events) /\ \A k \in 1..Len(logged) : logged[k] = k
    BY DEF WrapperInv, FileIs, TailIs, Count
  <2>2. Events \in Nat /\ Old \in Nat  BY MetricsAssumption
  <2>3. pos \in 0..(2 * (Events + Old))  BY <2>1, <2>2
  <2>4. Range(logged) \subseteq -Old..Events
    <3>1. ASSUME NEW i \in 1..Len(logged)  PROVE logged[i] \in -Old..Events
      <4>1. logged[i] \in 1..Events  BY <2>1, ElementOfSeq
      <4>2. QED  BY <2>2, <4>1
    <3>2. DOMAIN logged = 1..Len(logged)  BY <2>1
    <3>3. QED  BY <3>1, <3>2 DEF Range
  <2>5. logged = [k \in 1..Len(logged) |-> k]  BY <2>1
  <2>6. QED  BY <2>3, <2>4, <2>5 DEF WrapperInv, ThreadsAre, LoggedInOrder, WrapperTypeOK
<1>2. QED  BY <1>1, WrapperInvariantHolds, PTL

(* And no event falls between two reads: whenever the tail polls, all that *)
(* lies behind its position is logged, up to the first line that does not  *)
(* parse.                                                                  *)
THEOREM NothingReadIsLost == Old = 0 => (WrapperSpec => []ReadIsLogged)
<1>1. WrapperInv => ReadIsLogged
  <2> SUFFICES ASSUME WrapperInv, tail = "poll", NEW k \in 1..Events,
                      Newline(k) \in Range(SubSeq(file, 1, pos)),
                      \A u \in Unparsable : k < u
               PROVE  k \in Range(logged)
    BY DEF ReadIsLogged
  <2>1. /\ file \in Seq(Chars) /\ Len(file) \in Nat /\ pos \in 0..Len(file)
        /\ \A i \in 1..Len(file) : file[i] = Char(i)
        /\ logged \in Seq(1..Events) /\ Count \in Nat /\ Len(buf) \in Nat
        /\ \A i \in 1..Count : logged[i] = i
        /\ lines = <<>>
    BY DEF WrapperInv, FileIs, TailIs, Count
  <2>2. k <= Count
    <3>1. CASE InStep
      <4>1. pos <= 2 * Count + 1
        <5>1. Len(lines) = 0  BY <2>1
        <5>2. pos = 2 * Count + Len(lines) + Len(buf) /\ Len(buf) <= 1  BY <3>1 DEF InStep
        <5>3. QED  BY <2>1, <5>1, <5>2
      <4>2. PICK i \in 1..pos : Newline(k) = file[i]
        <5>1. /\ SubSeq(file, 0 + 1, pos) \in Seq(Chars)
              /\ Len(SubSeq(file, 0 + 1, pos)) = pos - 0
              /\ \A i \in 1..(pos - 0) : SubSeq(file, 0 + 1, pos)[i] = file[0 + i]
          <6>1. 0 \in Nat /\ pos \in 0..Len(file)  BY <2>1
          <6>2. QED  BY <2>1, <6>1, SliceIs
        <5>2. \A i \in 1..pos : SubSeq(file, 1, pos)[i] = file[i]  BY <2>1, <5>1
        <5>3. DOMAIN SubSeq(file, 1, pos) = 1..pos  BY <2>1, <5>1
        <5>4. QED  BY <5>2, <5>3 DEF Range
      <4>3. i \in Nat \ {0} /\ Newline(k) = Char(i)  BY <2>1, <4>2
      <4>4. PICK j \in Nat : \/ i = 2 * j + 1 /\ Char(i) = Body(j + 1)
                             \/ i = 2 * j + 2 /\ Char(i) = Newline(j + 1)
        BY <4>3, CharOf
      <4>5. i = 2 * j + 2 /\ k = j + 1  BY <4>3, <4>4 DEF Body, Newline
      <4>6. QED  BY <2>1, <4>1, <4>2, <4>5
    <3>2. CASE Stuck
      <4>1. Count + 1 \in Unparsable  BY <3>2 DEF Stuck, BadFirst
      <4>2. QED  BY <2>1, <4>1
    <3>3. QED  BY <3>1, <3>2 DEF WrapperInv, TailIs
  <2>3. k \in 1..Len(logged) /\ logged[k] = k  BY <2>1, <2>2 DEF Count
  <2>4. QED  BY <2>1, <2>3 DEF Range
<1>2. QED  BY <1>1, WrapperInvariantHolds, PTL
-----------------------------------------------------------------------------
(***************************************************************************)
(* Kernels.  Between two barriers a thread keeps to a footprint: the cells *)
(* it may write and those it may read, which its barrier count gives.      *)
(* Every action is shown to keep to the footprint of its threads, and the  *)
(* footprints of two threads are shown to be apart.                        *)
(***************************************************************************)
(* The stride of the tree at each barrier of a reduction: half the last.   *)
Strides(s) ==
    /\ s \in [0..T -> Nat] /\ s[0] = T
    /\ \A k \in 1..T : s[k] = s[k - 1] \div 2
Stride == CHOOSE s : Strides(s)

(* Halving reaches 0 within T barriers.                                    *)
LEMMA StrideIs == Strides(Stride) /\ \A k \in 0..T : Stride[k] <= T - k
<1>1. T \in Nat \ {0}  BY BlockAssumption
<1>2. \E s : Strides(s)
  <2> DEFINE f == [k \in 1..T |-> [v \in Nat |-> v \div 2]]
  <2>1. f \in [1..T -> [Nat -> Nat]]
    <3>1. \A v \in Nat : v \div 2 \in Nat  OBVIOUS
    <3>2. QED  BY <3>1
  <2>2. T \in Nat  BY <1>1
  <2> HIDE DEF f
  <2>3. PICK s : Recurses(s, T, Nat, T, f)  BY <2>1, <2>2, RecursionExists
  <2>4. s \in [0..T -> Nat] /\ s[0] = T /\ \A k \in 1..T : s[k] = f[k][s[k - 1]]
    BY <2>3 DEF Recurses
  <2>5. ASSUME NEW k \in 1..T  PROVE s[k] = s[k - 1] \div 2
    <3>1. k - 1 \in 0..T /\ s[k - 1] \in Nat  BY <1>1, <2>4
    <3>2. s[k] = f[k][s[k - 1]]  BY <2>4
    <3>3. QED  BY <3>1, <3>2 DEF f
  <2>6. QED  BY <2>4, <2>5 DEF Strides
<1>3. Strides(Stride)  BY <1>2 DEF Stride
<1> DEFINE P == {k \in 0..T : Stride[k] <= T - k}
<1>4. 0 \in P  BY <1>1, <1>3 DEF Strides
<1>5. ASSUME NEW k \in 1..T, k - 1 \in P  PROVE k \in P
  <2>1. Stride[k] = Stride[k - 1] \div 2 /\ Stride[k - 1] <= T - (k - 1)
    BY <1>3, <1>5 DEF Strides
  <2>2. Stride[k - 1] \in Nat /\ Stride[k] \in Nat /\ k \in Nat /\ T \in Nat
    <3>1. k - 1 \in 0..T /\ k \in 0..T  BY <1>1
    <3>2. QED  BY <1>1, <1>3, <3>1 DEF Strides
  <2>3. ASSUME NEW a \in Nat, NEW b \in Nat, b = a \div 2, a <= T - (k - 1)
        PROVE b <= T - k
    <3>1. T - k \in Nat  BY <1>1
    <3>2. QED  BY <2>3, <3>1, <2>2
  <2>4. Stride[k] <= T - k  BY <2>1, <2>2, <2>3
  <2>5. QED  BY <1>1, <2>4
<1>6. \A k \in 0..T : k \in P
  <2> HIDE DEF P
  <2>1. T \in Nat  BY <1>1
  <2>2. QED  BY <1>4, <1>5, <2>1, InductionUpTo
<1>7. QED  BY <1>3, <1>6
-----------------------------------------------------------------------------
Cells(name, S) == {Cell(name, i) : i \in S}

ReduceWrites(i, t) ==
    CASE i \in 0..T /\ t < Stride[i] -> Cells("partial", {t})
      [] i \in 0..T /\ Stride[i] = 0 -> Cells("out", {0} \cap {t})
      [] OTHER -> {}
ReduceReads(i, t) ==
    CASE i \in 1..T /\ t < Stride[i] -> Cells("partial", {t, t + Stride[i]})
      [] i \in 1..T /\ Stride[i] = 0 -> Cells("partial", {0} \cap {t})
      [] OTHER -> {}

AttnWrites(i, t) ==
    CASE i = 0 -> Cells("sc", Column(t, launch.nk, T))
      [] i = 1 /\ t < W -> Cells("sc", Column(t, launch.nk, W))
      [] i = 2 -> Cells("out", Column(t, launch.hd, T))
      [] OTHER -> {}
AttnReads(i, t) ==
    CASE i = 1 /\ t < W -> Cells("sc", Column(t, launch.nk, W))
      [] i = 2 -> Cells("sc", 0..(launch.nk - 1))
      [] OTHER -> {}

(* Interval 4 * k + c is step c of tile k; after the last, the output.     *)
FlashStepWrites(k, c, t) ==
    CASE c = 0 /\ k <= LastTile -> Cells("tile", Slots(k) \cap {t})
      [] c = 0 /\ ~(k <= LastTile) -> Cells("out", Column(t, launch.hd, T)) \cup Cells("lse", {0} \cap {t})
      [] c = 1 -> Cells("shared_max", {w \in Warps : w * W = t})
      [] c = 2 -> Cells("m_tile", {0} \cap {t})
      [] OTHER -> {}
FlashStepReads(k, c, t) ==
    CASE c = 1 -> Cells("tile", {u \in Slots(k) : u % T = t})
      [] c = 2 -> Cells("shared_max", {t} \cap Warps)
      [] c = 3 -> Cells("tile", Slots(k)) \cup Cells("m_tile", {0})
      [] OTHER -> {}
FlashWrites(i, t) == FlashStepWrites(i \div 4, i % 4, t)
FlashReads(i, t) == FlashStepReads(i \div 4, i % 4, t)

RowWrites(i, t) ==
    CASE i = 0 -> Cells("partial", {t})
      [] i = 1 -> Cells("partial", {0} \cap {t})
      [] i = 2 -> Cells("gs", Column(t, launch.nk, T))
      [] i = 3 -> Cells("out", Column(t, launch.hd, T))
      [] OTHER -> {}
RowReads(i, t) ==
    CASE i = 1 /\ t = 0 -> Cells("partial", Threads)
      [] i = 2 -> Cells("partial", {0})
      [] i = 3 -> Cells("gs", 0..(launch.nk - 1))
      [] OTHER -> {}

Lane(t) == {t + c * NumLanes : c \in 0..(NumChunks - 1)} \cap Threads
KvWrites(i, t) ==
    CASE i = 0 -> Cells("shared_acc", {t})
      [] i = 1 /\ t < NumLanes -> Cells("shared_acc", {t}) \cup Cells("out", {t})
      [] OTHER -> {}
KvReads(i, t) == IF i = 1 /\ t < NumLanes THEN Cells("shared_acc", Lane(t)) ELSE {}

RmsWrites(i, t) ==
    CASE i = 0 -> Cells("inv_rms", Column(t, launch.rows, BlockDim))
      [] i = 1 -> Cells("gx", Column(t, launch.rows, BlockDim))
      [] i = 2 -> Cells("out", Column(t, launch.cols, BlockDim))
      [] OTHER -> {}
RmsReads(i, t) ==
    CASE i = 1 -> Cells("inv_rms", Column(t, launch.rows, BlockDim))
      [] i = 2 -> Cells("inv_rms", 0..(launch.rows - 1))
      [] OTHER -> {}

GridWrites(i, t) ==
    CASE i = 0 -> Cells(IF launch.op = "loss" THEN "row_loss" ELSE "out", Column(t, launch.rows, BlockDim))
      [] i = 1 /\ t = 0 -> Cells("out", {0})
      [] OTHER -> {}
GridReads(i, t) == IF i = 1 /\ t = 0 THEN Cells("row_loss", 0..(launch.rows - 1)) ELSE {}

ElementCells(i, t) ==
    CASE launch.kernel = "update" /\ i = 0 -> Cells("out", Taken(t))
      [] launch.kernel = "rotate" -> Cells("out", TurnedBy(t, i))
      [] OTHER -> {}

(* What thread t writes and reads between its i-th barrier and the next.   *)
WriteCells(i, t) ==
    CASE launch.kernel \in {"dot", "argmax"} -> ReduceWrites(i, t)
      [] launch.kernel = "attn" -> AttnWrites(i, t)
      [] launch.kernel = "flash" -> FlashWrites(i, t)
      [] launch.kernel = "bwd_row" -> RowWrites(i, t)
      [] launch.kernel = "bwd_kv" -> KvWrites(i, t)
      [] launch.kernel = "rmsnorm" -> RmsWrites(i, t)
      [] launch.kernel = "rows" -> GridWrites(i, t)
      [] launch.kernel = "copy" /\ i = 0 -> Cells("out", {CopyTarget(off) : off \in CopiedBy(t)})
      [] launch.kernel \in {"update", "rotate"} -> ElementCells(i, t)
      [] OTHER -> {}
ReadCells(i, t) ==
    CASE launch.kernel \in {"dot", "argmax"} -> ReduceReads(i, t)
      [] launch.kernel = "attn" -> AttnReads(i, t)
      [] launch.kernel = "flash" -> FlashReads(i, t)
      [] launch.kernel = "bwd_row" -> RowReads(i, t)
      [] launch.kernel = "bwd_kv" -> KvReads(i, t)
      [] launch.kernel = "rmsnorm" -> RmsReads(i, t)
      [] launch.kernel = "rows" -> GridReads(i, t)
      [] launch.kernel \in {"update", "rotate"} -> ElementCells(i, t)
      [] OTHER -> {}

Flashing(p, n, c) == launch.kernel = "flash" /\ p[2] \in 0..LastTile /\ n = 4 * p[2] + c
(* Where a thread may be after n barriers.                                 *)
Stands(t, p, n) ==
    /\ p[1] \in {"scan", "tree", "scores", "softmax", "max", "exp", "sum", "divide", "values",
                 "tile", "slots", "warp", "block", "rescale", "normalise", "partial", "dot",
                 "gs", "gq", "chunk", "reduce", "table", "gradx", "gradw", "count", "scatter",
                 "rows", "mean", "update", "copy", "rotate", "done"}
    /\ p[1] = "scan" => launch.kernel \in {"dot", "argmax"} /\ n = 0
    /\ p[1] = "tree" => launch.kernel \in {"dot", "argmax"} /\ n \in 1..T /\ p[2] = Stride[n]
    /\ p[1] = "scores" => launch.kernel = "attn" /\ n = 0
    /\ p[1] = "softmax" => launch.kernel = "attn" /\ n = 1
    /\ p[1] \in {"max", "exp", "sum", "divide"} => launch.kernel = "attn" /\ n = 1 /\ t < W
    /\ p[1] = "values" => launch.kernel = "attn" /\ n = 2
    /\ p[1] = "tile" => Flashing(p, n, 0)
    /\ p[1] \in {"slots", "warp"} => Flashing(p, n, 1)
    /\ p[1] = "block" => Flashing(p, n, 2)
    /\ p[1] = "rescale" => Flashing(p, n, 3)
    /\ p[1] = "normalise" => launch.kernel = "flash" /\ n = 4 * (LastTile + 1)
    /\ p[1] = "partial" => launch.kernel = "bwd_row" /\ n = 0
    /\ p[1] = "dot" => launch.kernel = "bwd_row" /\ n = 1
    /\ p[1] = "gs" => launch.kernel = "bwd_row" /\ n = 2
    /\ p[1] = "gq" => launch.kernel = "bwd_row" /\ n = 3
    /\ p[1] = "chunk" => launch.kernel = "bwd_kv" /\ n = 0
    /\ p[1] = "reduce" => launch.kernel = "bwd_kv" /\ n = 1
    /\ p[1] = "table" => launch.kernel = "rmsnorm" /\ n = 0
    /\ p[1] = "gradx" => launch.kernel = "rmsnorm" /\ n = 1
    /\ p[1] = "gradw" => launch.kernel = "rmsnorm" /\ n = 2
    /\ p[1] \in {"count", "scatter"} => launch.kernel = "scatter" /\ p[2] \in 0..(Rows + BlockDim - 1)
    /\ p[1] = "rows" => launch.kernel = "rows" /\ n = 0
    /\ p[1] = "mean" => launch.kernel = "rows" /\ launch.op = "loss" /\ n = 1 /\ t = 0
    /\ p[1] = "update" => launch.kernel = "update" /\ n = 0
    /\ p[1] = "copy" => launch.kernel = "copy" /\ n = 0
    /\ p[1] = "rotate" => launch.kernel = "rotate" /\ p[2] = n

Logged(a) ==
    /\ a.by \in Threads /\ a.cell \in DOMAIN mem
    /\ a.cell \in IF a.write THEN WriteCells(log.interval, a.by) ELSE ReadCells(log.interval, a.by)
KernelInv ==
    /\ launch \in Launches /\ log.interval \in Nat
    /\ DOMAIN at = Threads /\ DOMAIN sync = Threads /\ DOMAIN reg = Threads
    /\ \A t \in Threads : sync[t] \in Nat /\ Stands(t, at[t], sync[t])
    /\ \A t \in Threads : \A i \in 0..(sync[t] - 1) : WriteCells(i, t) \subseteq DOMAIN mem
    /\ \A a \in log.access : Logged(a)
-----------------------------------------------------------------------------
(* The shape of a launch, one kernel at a time.                            *)
LEMMA ShapeIs == launch \in Launches => Shaped(launch)
BY LaunchesAssumption

(* A block has a thread 0, and its threads are numbers.                    *)
LEMMA BlockIs == ASSUME launch \in Launches
                 PROVE  BlockDim \in Nat \ {0} /\ 0 \in Threads /\ Threads \subseteq Nat
<1>1. Shaped(launch)  BY ShapeIs
<1>2. T \in Nat \ {0} /\ GRID \in Nat \ {0}  BY BlockAssumption
<1>3. ASSUME NEW n \in Nat  PROVE GridThreads(n) \in Nat \ {0}
  <2>1. PICK d \in Nat : d = (n + T - 1) \div T
    <3>1. n + T - 1 \in Nat  BY <1>2
    <3>2. QED  BY <1>2, <3>1, DivisionIs
  <2>2. PICK m \in Nat \ {0} : m = Max({1, d})
    <3>1. Max({1, d}) \in {1, d} /\ \A x \in {1, d} : x <= Max({1, d})
      <4>1. \A x \in {1, d} : x \in Nat /\ x <= d + 1  OBVIOUS
      <4>2. d + 1 \in Nat /\ {1, d} # {}  OBVIOUS
      <4>3. QED  BY <4>1, <4>2, MaxIsGreatest
    <3>2. QED  BY <3>1
  <2>3. PICK g \in Nat \ {0} : g = Min({GRID, m})
    <3>1. {GRID, m} \in SUBSET Nat /\ {GRID, m} # {}  BY <1>2
    <3>2. Min({GRID, m}) \in {GRID, m}  BY <3>1, MinIsLeast
    <3>3. QED  BY <1>2, <3>2
  <2>4. GridThreads(n) = T * g  BY <2>1, <2>2, <2>3 DEF GridThreads
  <2>5. T * g \in Nat \ {0}  BY <1>2, <2>3
  <2>6. QED  BY <2>4, <2>5
<1>4. BlockDim \in Nat \ {0}
  <2>1. CASE launch.kernel = "rmsnorm"
    <3>1. launch.rows \in Nat \ {0} /\ launch.cols \in Nat \ {0}  BY <1>1, <2>1 DEF Shaped
    <3>2. PICK r \in Nat \ {0}, c \in Nat \ {0} : r = launch.rows /\ c = launch.cols
      BY <3>1
    <3>3. PICK m \in Nat \ {0} : m = Max({r, c})
      <4>1. \A x \in {r, c} : x \in Nat /\ x <= r + c  OBVIOUS
      <4>2. r + c \in Nat /\ {r, c} # {}  OBVIOUS
      <4>3. Max({r, c}) \in {r, c}  BY <4>1, <4>2, MaxIsGreatest
      <4>4. QED  BY <4>3
    <3>4. {T, m} \in SUBSET Nat /\ {T, m} # {}  BY <1>2
    <3>5. Min({T, m}) \in {T, m}  BY <3>4, MinIsLeast
    <3>6. BlockDim = Min({T, m})  BY <2>1, <3>2, <3>3 DEF BlockDim
    <3>7. QED  BY <1>2, <3>5, <3>6
  <2>2. CASE launch.kernel = "scatter"  BY <1>2, <2>2 DEF BlockDim
  <2>3. CASE launch.kernel = "rows"
    <3>1. launch.rows \in Nat  BY <1>1, <2>3 DEF Shaped
    <3>2. QED  BY <1>3, <2>3, <3>1 DEF BlockDim
  <2>4. CASE launch.kernel = "update"
    <3>1. launch.n \in Nat  BY <1>1, <2>4 DEF Shaped
    <3>2. QED  BY <1>3, <2>4, <3>1 DEF BlockDim
  <2>5. CASE launch.kernel = "copy"
    <3>1. launch.rows \in Nat /\ launch.cols \in Nat  BY <1>1, <2>5 DEF Shaped
    <3>2. launch.rows * launch.cols \in Nat  BY <3>1
    <3>3. QED  BY <1>3, <2>5, <3>2 DEF BlockDim
  <2>6. CASE launch.kernel = "rotate"
    <3>1. launch.seq \in Nat /\ launch.half \in Nat  BY <1>1, <2>6 DEF Shaped
    <3>2. launch.seq * launch.half \in Nat  BY <3>1
    <3>3. QED  BY <1>3, <2>6, <3>2 DEF BlockDim
  <2>7. CASE launch.kernel \in {"dot", "argmax", "attn", "flash", "bwd_row", "bwd_kv"}
    BY <1>2, <2>7 DEF BlockDim
  <2>8. QED  BY <1>1, <2>1, <2>2, <2>3, <2>4, <2>5, <2>6, <2>7 DEF Shaped
<1>5. QED  BY <1>4 DEF Threads

(* The reductions and the attention kernels are launched with T threads.   *)
LEMMA BlockIsT == ASSUME launch.kernel \in {"dot", "argmax", "attn", "flash", "bwd_row", "bwd_kv"}
                  PROVE  BlockDim = T /\ Threads = 0..(T - 1)
BY DEF BlockDim, Threads
-----------------------------------------------------------------------------
(* Nothing a footprint is made of changes while a launch runs.             *)
Same ==
    /\ Threads' = Threads
    /\ \A i, t : (WriteCells(i, t))' = WriteCells(i, t) /\ (ReadCells(i, t))' = ReadCells(i, t)
    /\ \A t, p, n : (Stands(t, p, n))' = Stands(t, p, n)

(* As long as the launch is the same, so are its footprints.               *)
LEMMA SameLaunch == ASSUME launch' = launch  PROVE Same
<1>1. BlockDim' = BlockDim /\ Threads' = Threads  BY DEF BlockDim, Threads
<1>2. LastTile' = LastTile  BY DEF LastTile
<1>3. Rows' = Rows  BY DEF Rows
<1>4. \A k : (Slots(k))' = Slots(k)  BY DEF Slots, TileKeys
<1>5. NumLanes' = NumLanes /\ NumChunks' = NumChunks  BY DEF NumLanes, NumChunks
<1>6. \A i, t : (ReduceWrites(i, t))' = ReduceWrites(i, t) /\ (ReduceReads(i, t))' = ReduceReads(i, t)
  BY DEF ReduceWrites, ReduceReads
<1>7. \A i, t : (AttnWrites(i, t))' = AttnWrites(i, t) /\ (AttnReads(i, t))' = AttnReads(i, t)
  BY DEF AttnWrites, AttnReads
<1>8. \A i, t : (FlashWrites(i, t))' = FlashWrites(i, t) /\ (FlashReads(i, t))' = FlashReads(i, t)
  BY <1>2, <1>4 DEF FlashWrites, FlashReads, FlashStepWrites, FlashStepReads
<1>9. \A i, t : (RowWrites(i, t))' = RowWrites(i, t) /\ (RowReads(i, t))' = RowReads(i, t)
  BY <1>1 DEF RowWrites, RowReads
<1>10. \A i, t : (KvWrites(i, t))' = KvWrites(i, t) /\ (KvReads(i, t))' = KvReads(i, t)
  BY <1>1, <1>5 DEF KvWrites, KvReads, Lane
<1>11. \A i, t : (RmsWrites(i, t))' = RmsWrites(i, t) /\ (RmsReads(i, t))' = RmsReads(i, t)
  BY <1>1 DEF RmsWrites, RmsReads
<1>12. \A i, t : (GridWrites(i, t))' = GridWrites(i, t) /\ (GridReads(i, t))' = GridReads(i, t)
  BY <1>1 DEF GridWrites, GridReads
<1>13. \A i, t : (ElementCells(i, t))' = ElementCells(i, t)
  <2>1. HeadPairs' = HeadPairs  BY DEF HeadPairs
  <2>2. \A i : (HeadOffset(i))' = HeadOffset(i)  BY <2>1 DEF HeadOffset
  <2>3. \A i, p : (PairCell(i, p))' = PairCell(i, p)  BY <2>1, <2>2 DEF PairCell
  <2>4. \A i, t : (TurnedBy(t, i))' = TurnedBy(t, i)  BY <2>3 DEF TurnedBy
  <2>5. \A t : (Taken(t))' = Taken(t)  BY <1>1 DEF Taken
  <2>6. QED  BY <2>4, <2>5 DEF ElementCells
<1>14. \A t : ({CopyTarget(off) : off \in CopiedBy(t)})' = {CopyTarget(off) : off \in CopiedBy(t)}
  BY <1>1 DEF CopyTarget, CopiedBy, Unit
<1>15. \A i, t : (WriteCells(i, t))' = WriteCells(i, t) /\ (ReadCells(i, t))' = ReadCells(i, t)
  BY <1>6, <1>7, <1>8, <1>9, <1>10, <1>11, <1>12, <1>13, <1>14 DEF WriteCells, ReadCells
<1>16. \A t, p, n : (Stands(t, p, n))' = Stands(t, p, n)
  BY <1>1, <1>2, <1>3 DEF Stands, Flashing
<1>17. QED  BY <1>1, <1>15, <1>16 DEF Same

(***************************************************************************)
(* What a move leaves behind, whatever it computes: the threads S were let *)
(* through the barrier, the accesses in reads and writes were logged, the  *)
(* cells written exist, and S is at `to`, bars barriers on.                *)
(***************************************************************************)
CellsIn(accesses) == {x[2] : x \in accesses}
Footprint(S, reads, writes, to, bars) ==
    /\ \A t \in S : Passed(t)
    /\ DOMAIN reg' = DOMAIN reg
    /\ DOMAIN mem' = CellsIn(writes) \cup DOMAIN mem
    /\ at' = [t \in DOMAIN at |-> IF t \in S THEN to ELSE at[t]]
    /\ sync' = [t \in DOMAIN sync |-> IF t \in S THEN sync[t] + bars ELSE sync[t]]
    /\ log'.interval = Max({sync[t] : t \in S})
    /\ \A a \in log'.access :
        \/ log.interval = log'.interval /\ a \in log.access
        \/ \E x \in reads : a = [by |-> x[1], cell |-> x[2], write |-> FALSE]
        \/ \E x \in writes : a = [by |-> x[1], cell |-> x[2], write |-> TRUE]
    /\ launch' = launch

(* Every move leaves a footprint of the cells it was given.                *)
LEMMA MoveLeaves ==
    ASSUME NEW S, NEW reads, NEW writes, NEW D, DOMAIN writes = D, NEW regs, NEW to, NEW bars,
           Move(S, reads, writes, regs, to, bars)
    PROVE  Footprint(S, reads, D, to, bars)
<1>1. DOMAIN mem' = CellsIn(D) \cup DOMAIN mem  BY DEF Move, CellsIn
<1>2. log'.interval = Max({sync[t] : t \in S})  BY DEF Move
<1>3. ASSUME NEW a \in log'.access
      PROVE  \/ log.interval = log'.interval /\ a \in log.access
             \/ \E x \in reads : a = [by |-> x[1], cell |-> x[2], write |-> FALSE]
             \/ \E x \in D : a = [by |-> x[1], cell |-> x[2], write |-> TRUE]
  BY <1>3 DEF Move
<1>4. QED  BY <1>1, <1>2, <1>3 DEF Move, Footprint

(* The cells written in the intervals before the i-th.                     *)
Earlier(i) == UNION {WriteCells(j, u) : j \in 0..(i - 1), u \in Threads}

(* A move that keeps to the footprints of its threads.                     *)
Legal(S, i, reads, writes, to, bars) ==
    /\ S \subseteq Threads /\ S # {} /\ i \in Nat /\ bars \in {0, 1}
    /\ \A t \in S : sync[t] = i /\ Stands(t, to, i + bars)
    /\ \A x \in reads : /\ x[1] \in Threads /\ x[2] \in ReadCells(i, x[1])
                        /\ x[2] \in Earlier(i) \cup CellsIn(writes)
    /\ \A x \in writes : x[1] \in Threads /\ x[2] \in WriteCells(i, x[1])
    /\ bars = 1 => \A t \in S : WriteCells(i, t) \subseteq CellsIn(writes)

(* A move within its threads' footprints keeps the invariant: what it reads was *)
(* written before the barrier its threads have passed, or is written by itself. *)
LEMMA LegalKeeps ==
    ASSUME KernelInv, NEW S, NEW i, NEW reads, NEW writes, NEW to, NEW bars,
           Footprint(S, reads, writes, to, bars), Legal(S, i, reads, writes, to, bars)
    PROVE  KernelInv'
<1>1. Same /\ launch' = launch
  <2>1. launch' = launch  BY DEF Footprint
  <2>2. QED  BY <2>1, SameLaunch
<1>2. log'.interval = i /\ i \in Nat
  <2>1. i \in Nat /\ S # {} /\ \A t \in S : sync[t] = i  BY DEF Legal
  <2>2. {sync[t] : t \in S} = {i}  BY <2>1
  <2>3. Max({i}) \in {i}
    <3>1. \A x \in {i} : x \in Nat /\ x <= i  BY <2>1
    <3>2. {i} # {}  OBVIOUS
    <3>3. QED  BY <2>1, <3>1, <3>2, MaxIsGreatest
  <2>4. log'.interval = Max({sync[t] : t \in S})  BY DEF Footprint
  <2>5. QED  BY <2>1, <2>2, <2>3, <2>4
<1>3. Threads' = Threads /\ DOMAIN at = Threads /\ DOMAIN sync = Threads /\ DOMAIN reg = Threads
  BY <1>1 DEF Same, KernelInv
<1>4. DOMAIN at' = Threads' /\ DOMAIN sync' = Threads' /\ DOMAIN reg' = Threads'
  BY <1>3 DEF Footprint
<1>5. S \subseteq Threads /\ bars \in {0, 1}  BY DEF Legal
<1>6. ASSUME NEW t \in Threads
      PROVE  /\ t \in S => sync'[t] = i + bars /\ at'[t] = to /\ sync[t] = i
             /\ t \notin S => sync'[t] = sync[t] /\ at'[t] = at[t]
  BY <1>3, <1>5 DEF Footprint, Legal
<1>7. ASSUME NEW t \in Threads  PROVE sync'[t] \in Nat /\ Stands(t, at'[t], sync'[t])
  <2>1. CASE t \in S
    <3>1. Stands(t, to, i + bars)  BY <2>1 DEF Legal
    <3>2. QED  BY <1>2, <1>5, <1>6, <2>1, <3>1
  <2>2. CASE t \notin S  BY <1>6, <2>2 DEF KernelInv
  <2>3. QED  BY <2>1, <2>2
<1>8. DOMAIN mem' = CellsIn(writes) \cup DOMAIN mem  BY DEF Footprint
<1>9. ASSUME NEW t \in Threads, NEW j \in 0..(sync'[t] - 1)
      PROVE WriteCells(j, t) \subseteq DOMAIN mem'
  <2>1. sync[t] \in Nat /\ \A k \in 0..(sync[t] - 1) : WriteCells(k, t) \subseteq DOMAIN mem
    BY DEF KernelInv
  <2>2. CASE t \notin S \/ j # i
    <3>1. j \in 0..(sync[t] - 1)  BY <1>2, <1>5, <1>6, <2>1, <2>2
    <3>2. QED  BY <1>8, <2>1, <3>1
  <2>3. CASE t \in S /\ j = i
    <3>1. bars = 1  BY <1>2, <1>5, <1>6, <2>3
    <3>2. WriteCells(i, t) \subseteq CellsIn(writes)  BY <2>3, <3>1 DEF Legal
    <3>3. QED  BY <1>8, <2>3, <3>2
  <2>4. QED  BY <2>2, <2>3
<1>10. Earlier(i) \subseteq DOMAIN mem
  <2>1. PICK s \in S : TRUE  BY DEF Legal
  <2>2. Passed(s) /\ sync[s] = i  BY <2>1 DEF Footprint, Legal
  <2>3. ASSUME NEW j \in 0..(i - 1), NEW u \in Threads
        PROVE WriteCells(j, u) \subseteq DOMAIN mem
    <3>1. sync[u] \in Nat /\ sync[u] >= i  BY <2>2 DEF Passed, KernelInv
    <3>2. j \in 0..(sync[u] - 1)  BY <1>2, <3>1
    <3>3. QED  BY <3>2 DEF KernelInv
  <2>4. QED  BY <2>3 DEF Earlier
<1>11. ASSUME NEW a \in log'.access
       PROVE  /\ a.by \in Threads /\ a.cell \in DOMAIN mem'
              /\ a.cell \in IF a.write THEN WriteCells(i, a.by) ELSE ReadCells(i, a.by)
  <2>1. CASE log.interval = log'.interval /\ a \in log.access
    <3>1. Logged(a)  BY <2>1 DEF KernelInv
    <3>2. QED  BY <1>2, <1>8, <2>1, <3>1 DEF Logged
  <2>2. ASSUME NEW x \in reads, a = [by |-> x[1], cell |-> x[2], write |-> FALSE]
        PROVE  /\ a.by \in Threads /\ a.cell \in DOMAIN mem'
               /\ a.cell \in IF a.write THEN WriteCells(i, a.by) ELSE ReadCells(i, a.by)
    <3>1. x[1] \in Threads /\ x[2] \in ReadCells(i, x[1]) /\ x[2] \in Earlier(i) \cup CellsIn(writes)
      BY DEF Legal
    <3>2. a.by = x[1] /\ a.cell = x[2] /\ a.write = FALSE  BY <2>2
    <3>3. QED  BY <1>8, <1>10, <3>1, <3>2
  <2>3. ASSUME NEW x \in writes, a = [by |-> x[1], cell |-> x[2], write |-> TRUE]
        PROVE  /\ a.by \in Threads /\ a.cell \in DOMAIN mem'
               /\ a.cell \in IF a.write THEN WriteCells(i, a.by) ELSE ReadCells(i, a.by)
    <3>1. x[1] \in Threads /\ x[2] \in WriteCells(i, x[1])  BY DEF Legal
    <3>2. a.by = x[1] /\ a.cell = x[2] /\ a.write = TRUE  BY <2>3
    <3>3. x[2] \in CellsIn(writes)  BY DEF CellsIn
    <3>4. QED  BY <1>8, <3>1, <3>2, <3>3
  <2>4. QED  BY <2>1, <2>2, <2>3 DEF Footprint
<1>12. launch' \in Launches  BY <1>1 DEF KernelInv
<1>13. \A t \in Threads' : sync'[t] \in Nat /\ (Stands(t, at[t], sync[t]))'
  BY <1>1, <1>7 DEF Same
<1>14. \A t \in Threads' : \A j \in 0..(sync'[t] - 1) : (WriteCells(j, t))' \subseteq DOMAIN mem'
  BY <1>1, <1>9 DEF Same
<1>15. \A a \in log'.access : (Logged(a))'  BY <1>1, <1>2, <1>11 DEF Same, Logged
<1>16. QED  BY <1>2, <1>4, <1>12, <1>13, <1>14, <1>15 DEF KernelInv

(* One thread alone, with the cells C it writes and R it reads.            *)
Touches(t, C) == {<<t, c>> : c \in C}
Keeps(t, i, R, C, to, bars) ==
    /\ sync[t] = i /\ bars \in {0, 1} /\ Stands(t, to, i + bars)
    /\ R \subseteq ReadCells(i, t) /\ R \subseteq Earlier(i) \cup C
    /\ C \subseteq WriteCells(i, t)
    /\ bars = 1 => WriteCells(i, t) \subseteq C

Moves(t, R, C, to, bars) ==
    \E reads, writes, regs : /\ reads = Touches(t, R) /\ DOMAIN writes = Touches(t, C)
                             /\ Move({t}, reads, writes, regs, to, bars)

(* The same for one thread alone.                                          *)
LEMMA AloneKeeps ==
    ASSUME KernelInv, NEW t \in Threads, NEW i, NEW R, NEW C, NEW to, NEW bars,
           Moves(t, R, C, to, bars), Keeps(t, i, R, C, to, bars)
    PROVE  KernelInv'
<1> PICK reads, writes, regs : /\ reads = Touches(t, R) /\ DOMAIN writes = Touches(t, C)
                               /\ Move({t}, reads, writes, regs, to, bars)
  BY DEF Moves
<1>1. PICK S : S = {t}  OBVIOUS
<1>2. PICK D : D = Touches(t, C)  OBVIOUS
<1>3. Footprint(S, reads, D, to, bars)  BY <1>1, <1>2, MoveLeaves
<1>4. CellsIn(D) = C
  <2>1. \A x \in D : x[2] \in C  BY <1>2 DEF Touches
  <2>2. ASSUME NEW c \in C  PROVE \E x \in D : x[2] = c
    <3>1. <<t, c>> \in D  BY <1>2 DEF Touches
    <3>2. QED  BY <3>1
  <2>3. QED  BY <2>1, <2>2 DEF CellsIn
<1>5. Legal(S, i, reads, D, to, bars)
  <2>1. S \subseteq Threads /\ S # {} /\ i \in Nat /\ bars \in {0, 1}
    BY <1>1 DEF Keeps, KernelInv
  <2>2. \A u \in S : sync[u] = i /\ Stands(u, to, i + bars)  BY <1>1 DEF Keeps
  <2>3. \A x \in reads : x[1] \in Threads /\ x[2] \in ReadCells(i, x[1]) /\
        x[2] \in Earlier(i) \cup CellsIn(D)
    BY <1>4 DEF Keeps, Touches
  <2>4. \A x \in D : x[1] \in Threads /\ x[2] \in WriteCells(i, x[1])
    BY <1>2 DEF Keeps, Touches
  <2>5. bars = 1 => \A u \in S : WriteCells(i, u) \subseteq CellsIn(D)
    BY <1>1, <1>4 DEF Keeps
  <2>6. QED  BY <2>1, <2>2, <2>3, <2>4, <2>5 DEF Legal
<1>6. QED  BY <1>3, <1>5, LegalKeeps

(* Reads and writes of one array as accesses of one thread.                *)
LEMMA TouchesCells == \A t, name, S : /\ Touches(t, Cells(name, S)) = {<<t, Cell(name, i)>> : i \in S}
                                      /\ Reads(t, name, S) = Touches(t, Cells(name, S))
BY DEF Touches, Cells, Reads

(* Writes to two arrays.                                                   *)
LEMMA TouchesBoth ==
    /\ \A t, A, B : Touches(t, A \cup B) = Touches(t, A) \cup Touches(t, B)
    /\ \A f, g : DOMAIN Merge(f, g) = DOMAIN f \cup DOMAIN g
BY DEF Touches, Merge

(* A thread that touches nothing.                                          *)
LEMMA TouchesNone == \A t : Touches(t, {}) = {} /\ DOMAIN Nothing = {}
BY DEF Touches, Nothing

(* What the invariant says of one thread.                                  *)
LEMMA Standing == ASSUME KernelInv, NEW t \in Threads
                  PROVE  /\ launch \in Launches /\ sync[t] \in Nat /\ Stands(t, at[t], sync[t])
                         /\ t \in Nat /\ 0 \in Threads
BY BlockIs DEF KernelInv

(* The footprints of a launch are those of its kernel.                     *)
LEMMA CellsOf ==
    /\ launch.kernel \in {"dot", "argmax"} =>
            \A i, t : WriteCells(i, t) = ReduceWrites(i, t) /\ ReadCells(i, t) = ReduceReads(i, t)
    /\ launch.kernel = "attn" => \A i, t : WriteCells(i, t) = AttnWrites(i, t) /\
       ReadCells(i, t) = AttnReads(i, t)
    /\ launch.kernel = "flash" => \A i, t : WriteCells(i, t) = FlashWrites(i, t) /\
       ReadCells(i, t) = FlashReads(i, t)
    /\ launch.kernel = "bwd_row" => \A i, t : WriteCells(i, t) = RowWrites(i, t) /\
       ReadCells(i, t) = RowReads(i, t)
    /\ launch.kernel = "bwd_kv" => \A i, t : WriteCells(i, t) = KvWrites(i, t) /\
       ReadCells(i, t) = KvReads(i, t)
    /\ launch.kernel = "rmsnorm" => \A i, t : WriteCells(i, t) = RmsWrites(i, t) /\
       ReadCells(i, t) = RmsReads(i, t)
    /\ launch.kernel = "rows" => \A i, t : WriteCells(i, t) = GridWrites(i, t) /\
       ReadCells(i, t) = GridReads(i, t)
    /\ launch.kernel \in {"update", "rotate"} =>
            \A i, t : WriteCells(i, t) = ElementCells(i, t) /\ ReadCells(i, t) = ElementCells(i, t)
    /\ launch.kernel = "copy" =>
            \A t : WriteCells(0, t) = Cells("out", {CopyTarget(off) : off \in CopiedBy(t)}) /\
              ReadCells(0, t) = {}
    /\ launch.kernel = "scatter" => \A i, t : WriteCells(i, t) = {} /\ ReadCells(i, t) = {}
<1>1. launch.kernel \in {"dot", "argmax"} =>
            \A i, t : WriteCells(i, t) = ReduceWrites(i, t) /\ ReadCells(i, t) = ReduceReads(i, t)
  BY DEF WriteCells, ReadCells
<1>2. launch.kernel = "attn" => \A i, t : WriteCells(i, t) = AttnWrites(i, t) /\
      ReadCells(i, t) = AttnReads(i, t)
  BY DEF WriteCells, ReadCells
<1>3. launch.kernel = "flash" => \A i, t : WriteCells(i, t) = FlashWrites(i, t) /\
      ReadCells(i, t) = FlashReads(i, t)
  BY DEF WriteCells, ReadCells
<1>4. launch.kernel = "bwd_row" => \A i, t : WriteCells(i, t) = RowWrites(i, t) /\
      ReadCells(i, t) = RowReads(i, t)
  BY DEF WriteCells, ReadCells
<1>5. launch.kernel = "bwd_kv" => \A i, t : WriteCells(i, t) = KvWrites(i, t) /\
      ReadCells(i, t) = KvReads(i, t)
  BY DEF WriteCells, ReadCells
<1>6. launch.kernel = "rmsnorm" => \A i, t : WriteCells(i, t) = RmsWrites(i, t) /\
      ReadCells(i, t) = RmsReads(i, t)
  BY DEF WriteCells, ReadCells
<1>7. launch.kernel = "rows" => \A i, t : WriteCells(i, t) = GridWrites(i, t) /\
      ReadCells(i, t) = GridReads(i, t)
  BY DEF WriteCells, ReadCells
<1>8. launch.kernel \in {"update", "rotate"} =>
            \A i, t : WriteCells(i, t) = ElementCells(i, t) /\ ReadCells(i, t) = ElementCells(i, t)
  BY DEF WriteCells, ReadCells
<1>9. launch.kernel = "copy" =>
            \A t : WriteCells(0, t) = Cells("out", {CopyTarget(off) : off \in CopiedBy(t)}) /\
              ReadCells(0, t) = {}
  BY DEF WriteCells, ReadCells
<1>10. launch.kernel = "scatter" => \A i, t : WriteCells(i, t) = {} /\ ReadCells(i, t) = {}
  BY DEF WriteCells, ReadCells
<1>11. QED  BY <1>1, <1>2, <1>3, <1>4, <1>5, <1>6, <1>7, <1>8, <1>9, <1>10

(* A cell of an interval before the i-th.                                  *)
LEMMA CellsBefore ==
    ASSUME NEW i, NEW j \in 0..(i - 1), NEW u \in Threads
    PROVE  WriteCells(j, u) \subseteq Earlier(i)
BY DEF Earlier

(* The stride of the tree starts at T and is halved at each barrier.       *)
LEMMA BlockStarts == T \in Nat \ {0} /\ Stride \in [0..T -> Nat] /\ Stride[0] = T
                     /\ \A k \in 1..T : Stride[k] = Stride[k - 1] \div 2 /\ Stride[k] <= T - k
<1>1. T \in Nat \ {0}  BY BlockAssumption
<1>2. Strides(Stride) /\ \A k \in 0..T : Stride[k] <= T - k  BY StrideIs
<1>3. \A k \in 1..T : k \in 0..T  BY <1>1
<1>4. QED  BY <1>1, <1>2, <1>3 DEF Strides

(* The elements a stride apart are shared out: element j is thread j % span's. *)
LEMMA SharedOut ==
    ASSUME NEW n \in Nat, NEW span \in Nat \ {0}, NEW j \in 0..(n - 1)
    PROVE  j % span \in 0..(span - 1) /\ j \in Column(j % span, n, span)
<1>1. j \in Nat  OBVIOUS
<1>2. j % span \in 0..(span - 1)  BY <1>1, RemainderIs
<1>3. QED  BY <1>2 DEF Column

(* A cell of an array is there for its index.                              *)
LEMMA CellIn == \A name, S, i : (Cell(name, i) \in Cells(name, S)) <=> i \in S
BY DEF Cells, Cell

LEMMA CellIs == ASSUME NEW name, NEW S, NEW c \in Cells(name, S)  PROVE \E i \in S : c = Cell(name, i)
BY DEF Cells

(* The actions, kernel by kernel: each keeps to the footprints of its threads. *)
(* A thread's partial result is its own cell.                              *)
LEMMA ReduceScanKeeps ==
    ASSUME KernelInv, NEW t \in Threads, ReduceScan(t)  PROVE KernelInv'
<1>1. PICK i : i = sync[t]  OBVIOUS
<1>2. PICK R, C, to : /\ R = {}
                      /\ C = Cells("partial", {t})
                      /\ to = <<"tree", T \div 2>>
  OBVIOUS
<1>3. launch.kernel \in {"dot", "argmax"} /\ i = 0 /\ t \in Nat /\ launch \in Launches /\ 0 \in Threads
  <2>1. at[t] = <<"scan", 0>>  BY DEF ReduceScan
  <2>2. QED  BY <1>1, <2>1, Standing DEF Stands
<1>4. Moves(t, R, C, to, 1)
  <2> DEFINE r == {}
  <2> DEFINE w == Writes(t, "partial", {t}, LAMBDA k : Scan(t))
  <2> DEFINE g == Nothing
  <2>1. Move({t}, r, w, g, to, 1)  BY <1>2, <1>3 DEF ReduceScan, Alone
  <2>2. DOMAIN w = Touches(t, C)  BY <1>2, TouchesCells DEF Writes
  <2>3. r = Touches(t, R)  BY <1>2, TouchesCells, TouchesNone
  <2> HIDE DEF r, w, g
  <2>4. QED  BY <2>1, <2>2, <2>3 DEF Moves
<1>5. Keeps(t, i, R, C, to, 1)
  <2>1. WriteCells(0, t) = C
    <3>1. t \in 0..(T - 1)  BY <1>3, BlockIsT
    <3>2. 0 \in 0..T /\ t < Stride[0]  BY <3>1, BlockStarts
    <3>3. ReduceWrites(0, t) = C  BY <1>2, <3>1, <3>2, BlockStarts DEF ReduceWrites
    <3>4. QED  BY <1>3, <3>3, CellsOf
  <2>2. Stands(t, to, i + 1)
    <3>1. 1 \in 1..T /\ Stride[1] = T \div 2 /\ i + 1 = 1  BY <1>3, BlockStarts
    <3>2. QED  BY <1>2, <1>3, <3>1 DEF Stands
  <2>3. QED  BY <1>1, <1>2, <1>3, <2>1, <2>2 DEF Keeps
<1>6. QED  BY <1>4, <1>5, AloneKeeps

(* The lower half of the tree reads the upper half, which was written a barrier ago. *)
LEMMA ReduceTreeKeeps ==
    ASSUME KernelInv, NEW t \in Threads, ReduceTree(t)  PROVE KernelInv'
<1>1. PICK i : i = sync[t]  OBVIOUS
<1>2. PICK R, C, to : /\ R = Cells("partial", {t, t + Stride[i]})
                      /\ C = Cells("partial", {t})
                      /\ to = <<"tree", Stride[i] \div 2>>
  OBVIOUS
<1>3. launch.kernel \in {"dot", "argmax"} /\ i \in 1..T /\ at[t][2] = Stride[i] /\ t \in Nat /\
      launch \in Launches /\ 0 \in Threads
  <2>1. at[t][1] = "tree"  BY DEF ReduceTree
  <2>2. QED  BY <1>1, <2>1, Standing DEF Stands
<1>4. Moves(t, R, C, to, 1)
  <2> DEFINE r == Reads(t, "partial", {t, t + Stride[i]})
  <2> DEFINE w == Writes(t, "partial", {t}, LAMBDA k : Combine(mem[Cell("partial", t)],
                                                        mem[Cell("partial", t + Stride[i])]))
  <2> DEFINE g == Nothing
  <2>1. Move({t}, r, w, g, to, 1)  BY <1>2, <1>3 DEF ReduceTree, Alone
  <2>2. DOMAIN w = Touches(t, C)  BY <1>2, TouchesCells DEF Writes
  <2>3. r = Touches(t, R)  BY <1>2, TouchesCells, TouchesNone
  <2> HIDE DEF r, w, g
  <2>4. QED  BY <2>1, <2>2, <2>3 DEF Moves
<1>5. Keeps(t, i, R, C, to, 1)
  <2>1. PICK s \in Nat : s = Stride[i] /\ s <= T - i  BY <1>3, BlockStarts
  <2>2. t < s /\ t \in Nat  BY <1>3, <2>1 DEF ReduceTree
  <2>3. WriteCells(i, t) = C /\ ReadCells(i, t) = R
    <3>1. i \in 0..T /\ i \in 1..T  BY <1>3
    <3>2. ReduceWrites(i, t) = C /\ ReduceReads(i, t) = R
      BY <1>2, <2>1, <2>2, <3>1 DEF ReduceWrites, ReduceReads
    <3>3. QED  BY <1>3, <3>2, CellsOf
  <2>4. R \subseteq Earlier(i)
    <3>1. i - 1 \in 0..(i - 1) /\ i - 1 \in 0..T  BY <1>3, BlockStarts
    <3>2. PICK p \in Nat : p = Stride[i - 1]  BY <3>1, BlockStarts
    <3>3. s = p \div 2  BY <1>3, <2>1, <3>2, BlockStarts
    <3>4. t + s < p  BY <2>2, <3>3
    <3>5. i - 1 = 0 \/ i - 1 \in 1..T  BY <1>3, BlockStarts
    <3>6. p <= T
      <4>1. CASE i - 1 = 0  BY <3>2, <4>1, BlockStarts
      <4>2. CASE i - 1 \in 1..T  BY <3>2, <4>2, BlockStarts
      <4>3. QED  BY <3>5, <4>1, <4>2
    <3>7. ASSUME NEW u \in {t, t + s}
          PROVE u \in Threads /\ Cell("partial", u) \in WriteCells(i - 1, u)
      <4>1. u \in Nat /\ u < p  BY <2>2, <3>4
      <4>2. u \in Threads  BY <1>3, <3>6, <4>1, BlockIsT, BlockStarts
      <4>3. ReduceWrites(i - 1, u) = Cells("partial", {u})
        BY <3>1, <3>2, <4>1 DEF ReduceWrites
      <4>4. QED  BY <1>3, <4>2, <4>3, CellsOf, CellIn
    <3>8. ASSUME NEW c \in R  PROVE c \in Earlier(i)
      <4>1. PICK u \in {t, t + s} : c = Cell("partial", u)  BY <1>2, <2>1 DEF Cells
      <4>2. QED  BY <3>1, <3>7, <4>1, CellsBefore
    <3>9. QED  BY <3>8
  <2>5. Stands(t, to, i + 1)
    <3>1. i + 1 \in 1..T  BY <1>3, <2>1, <2>2, BlockStarts
    <3>2. Stride[i + 1] = Stride[(i + 1) - 1] \div 2  BY <3>1, BlockStarts
    <3>3. (i + 1) - 1 = i  BY <1>3
    <3>4. QED  BY <1>2, <1>3, <3>1, <3>2, <3>3 DEF Stands
  <2>6. QED  BY <1>1, <2>3, <2>4, <2>5 DEF Keeps
<1>6. QED  BY <1>4, <1>5, AloneKeeps

(* The upper half only meets the barrier.                                  *)
LEMMA ReduceIdleKeeps ==
    ASSUME KernelInv, NEW t \in Threads, ReduceIdle(t)  PROVE KernelInv'
<1>1. PICK i : i = sync[t]  OBVIOUS
<1>2. PICK R, C, to : R = {} /\ C = {} /\ to = <<"tree", Stride[i] \div 2>>  OBVIOUS
<1>3. launch.kernel \in {"dot", "argmax"} /\ i \in 1..T /\ at[t][2] = Stride[i] /\ t \in Nat /\
      launch \in Launches /\ 0 \in Threads
  <2>1. at[t][1] = "tree"  BY DEF ReduceIdle
  <2>2. QED  BY <1>1, <2>1, Standing DEF Stands
<1>4. Moves(t, R, C, to, 1)
  <2> DEFINE r == {}
  <2> DEFINE w == Nothing
  <2> DEFINE g == Nothing
  <2>1. Move({t}, r, w, g, to, 1)  BY <1>2, <1>3 DEF ReduceIdle, Alone
  <2>2. DOMAIN w = Touches(t, C)  BY <1>2, TouchesNone
  <2>3. r = Touches(t, R)  BY <1>2, TouchesCells, TouchesNone
  <2> HIDE DEF r, w, g
  <2>4. QED  BY <2>1, <2>2, <2>3 DEF Moves
<1>5. Keeps(t, i, R, C, to, 1)
  <2>1. PICK s \in Nat : s = Stride[i] /\ s <= T - i  BY <1>3, BlockStarts
  <2>2. s \in 1..t /\ t \in Nat  BY <1>3, <2>1 DEF ReduceIdle
  <2>3. WriteCells(i, t) = {}
    <3>1. ~(t < Stride[i]) /\ Stride[i] # 0  BY <2>1, <2>2
    <3>2. ReduceWrites(i, t) = {}  BY <3>1 DEF ReduceWrites
    <3>3. QED  BY <1>3, <3>2, CellsOf
  <2>4. Stands(t, to, i + 1)
    <3>1. i + 1 \in 1..T  BY <1>3, <2>1, <2>2, BlockStarts
    <3>2. Stride[i + 1] = Stride[(i + 1) - 1] \div 2  BY <3>1, BlockStarts
    <3>3. (i + 1) - 1 = i  BY <1>3
    <3>4. QED  BY <1>2, <1>3, <3>1, <3>2, <3>3 DEF Stands
  <2>5. QED  BY <1>1, <1>2, <2>3, <2>4 DEF Keeps
<1>6. QED  BY <1>4, <1>5, AloneKeeps

(* Thread 0 writes the result of the block.                                *)
LEMMA ReduceOutKeeps ==
    ASSUME KernelInv, NEW t \in Threads, ReduceOut(t)  PROVE KernelInv'
<1>1. PICK i : i = sync[t]  OBVIOUS
<1>2. PICK R, C, to : /\ R = Cells("partial", {0} \cap {t})
                      /\ C = Cells("out", {0} \cap {t})
                      /\ to = Done
  OBVIOUS
<1>3. launch.kernel \in {"dot", "argmax"} /\ i \in 1..T /\ Stride[i] = 0 /\ t \in Nat /\
      launch \in Launches /\ 0 \in Threads
  <2>1. at[t] = <<"tree", 0>>  BY DEF ReduceOut
  <2>2. QED  BY <1>1, <2>1, Standing DEF Stands
<1>4. Moves(t, R, C, to, 0)
  <2> DEFINE r == Reads(t, "partial", {0} \cap {t})
  <2> DEFINE w == Writes(t, "out", {0} \cap {t}, LAMBDA k : mem[Cell("partial", 0)])
  <2> DEFINE g == Nothing
  <2>1. Move({t}, r, w, g, to, 0)  BY <1>2, <1>3 DEF ReduceOut, Alone
  <2>2. DOMAIN w = Touches(t, C)  BY <1>2, TouchesCells DEF Writes
  <2>3. r = Touches(t, R)  BY <1>2, TouchesCells, TouchesNone
  <2> HIDE DEF r, w, g
  <2>4. QED  BY <2>1, <2>2, <2>3 DEF Moves
<1>5. Keeps(t, i, R, C, to, 0)
  <2>1. t \in Nat /\ 0 \in Threads  BY <1>3
  <2>2. WriteCells(i, t) = C /\ ReadCells(i, t) = R
    <3>1. i \in 0..T /\ i \in 1..T /\ ~(t < Stride[i])  BY <1>3, <2>1
    <3>2. ReduceWrites(i, t) = C /\ ReduceReads(i, t) = R
      BY <1>2, <1>3, <3>1 DEF ReduceWrites, ReduceReads
    <3>3. QED  BY <1>3, <3>2, CellsOf
  <2>3. R \subseteq Earlier(i)
    <3>1. 0 \in 0..(i - 1) /\ 0 \in 0..T /\ 0 < Stride[0]  BY <1>3, BlockStarts
    <3>2. ReduceWrites(0, 0) = Cells("partial", {0})  BY <3>1 DEF ReduceWrites
    <3>3. Cell("partial", 0) \in WriteCells(0, 0)  BY <1>3, <3>2, CellsOf, CellIn
    <3>4. Cell("partial", 0) \in Earlier(i)  BY <2>1, <3>1, <3>3, CellsBefore
    <3>5. QED  BY <1>2, <3>4 DEF Cells
  <2>4. Stands(t, to, i + 0)  BY <1>2 DEF Stands, Done
  <2>5. QED  BY <1>1, <2>2, <2>3, <2>4 DEF Keeps
<1>6. QED  BY <1>4, <1>5, AloneKeeps

(* A thread writes the scores of its own columns.                          *)
LEMMA AttnScoresKeeps ==
    ASSUME KernelInv, NEW t \in Threads, AttnScores(t)  PROVE KernelInv'
<1>1. PICK i : i = sync[t]  OBVIOUS
<1>2. PICK R, C, to : /\ R = {}
                      /\ C = Cells("sc", Column(t, launch.nk, T))
                      /\ to = <<"softmax", 0>>
  OBVIOUS
<1>3. launch.kernel = "attn" /\ i = 0 /\ t \in Nat /\ launch \in Launches /\ 0 \in Threads
  <2>1. at[t] = <<"scores", 0>>  BY DEF AttnScores
  <2>2. QED  BY <1>1, <2>1, Standing DEF Stands
<1>4. Moves(t, R, C, to, 1)
  <2> DEFINE r == {}
  <2> DEFINE w == Writes(t, "sc", Column(t, launch.nk, T),
            LAMBDA j : [score |-> launch.score[j], weight |-> <<>>])
  <2> DEFINE g == Nothing
  <2>1. Move({t}, r, w, g, to, 1)  BY <1>2, <1>3 DEF AttnScores, Alone
  <2>2. DOMAIN w = Touches(t, C)  BY <1>2, TouchesCells DEF Writes
  <2>3. r = Touches(t, R)  BY <1>2, TouchesCells, TouchesNone
  <2> HIDE DEF r, w, g
  <2>4. QED  BY <2>1, <2>2, <2>3 DEF Moves
<1>5. Keeps(t, i, R, C, to, 1)
  <2>1. WriteCells(i, t) = C /\ R \subseteq ReadCells(i, t)
    <3>1. AttnWrites(i, t) = C /\ R \subseteq AttnReads(i, t)
      BY <1>2, <1>3 DEF AttnWrites, AttnReads
    <3>2. QED  BY <1>3, <3>1, CellsOf
  <2>2. R \subseteq Earlier(i) \cup C  BY <1>2
  <2>3. Stands(t, to, i + 1)  BY <1>2, <1>3 DEF Stands
  <2>4. QED  BY <1>1, <2>1, <2>2, <2>3 DEF Keeps
<1>6. QED  BY <1>4, <1>5, AloneKeeps

(* The other warps wait for the softmax of warp 0.                         *)
LEMMA AttnWaitKeeps ==
    ASSUME KernelInv, NEW t \in Threads, AttnWait(t)  PROVE KernelInv'
<1>1. PICK i : i = sync[t]  OBVIOUS
<1>2. PICK R, C, to : R = {} /\ C = {} /\ to = <<"values", 0>>  OBVIOUS
<1>3. launch.kernel = "attn" /\ i = 1 /\ t >= W /\ t \in Nat /\ launch \in Launches /\ 0 \in Threads
  <2>1. at[t] = <<"softmax", 0>> /\ t >= W  BY DEF AttnWait
  <2>2. QED  BY <1>1, <2>1, Standing DEF Stands
<1>4. Moves(t, R, C, to, 1)
  <2> DEFINE r == {}
  <2> DEFINE w == Nothing
  <2> DEFINE g == Nothing
  <2>1. Move({t}, r, w, g, to, 1)  BY <1>2, <1>3 DEF AttnWait, Alone
  <2>2. DOMAIN w = Touches(t, C)  BY <1>2, TouchesNone
  <2>3. r = Touches(t, R)  BY <1>2, TouchesCells, TouchesNone
  <2> HIDE DEF r, w, g
  <2>4. QED  BY <2>1, <2>2, <2>3 DEF Moves
<1>5. Keeps(t, i, R, C, to, 1)
  <2>1. WriteCells(i, t) = {}
    <3>1. W \in Nat  BY BlockAssumption
    <3>2. ~(t < W)  BY <1>3, <3>1
    <3>3. AttnWrites(i, t) = {}  BY <1>3, <3>2 DEF AttnWrites
    <3>4. QED  BY <1>3, <3>3, CellsOf
  <2>2. Stands(t, to, i + 1)  BY <1>2, <1>3 DEF Stands
  <2>3. QED  BY <1>1, <1>2, <2>1, <2>2 DEF Keeps
<1>6. QED  BY <1>4, <1>5, AloneKeeps

(* A lane masks the columns it owns.                                       *)
LEMMA AttnMaskKeeps ==
    ASSUME KernelInv, NEW t \in Threads, AttnMask(t)  PROVE KernelInv'
<1>1. PICK i : i = sync[t]  OBVIOUS
<1>2. PICK R, C, to : /\ R = Cells("sc", Column(t, launch.nk, W))
                      /\ C = Cells("sc", Column(t, launch.nk, W))
                      /\ to = <<"max", 0>>
  OBVIOUS
<1>3. launch.kernel = "attn" /\ i = 1 /\ t < W /\ t \in Nat /\ launch \in Launches /\ 0 \in Threads
  <2>1. at[t] = <<"softmax", 0>> /\ t < W  BY DEF AttnMask
  <2>2. QED  BY <1>1, <2>1, Standing DEF Stands
<1>4. Moves(t, R, C, to, 0)
  <2> DEFINE r == Reads(t, "sc", Column(t, launch.nk, W))
  <2> DEFINE w == Writes(t, "sc", Column(t, launch.nk, W),
                       LAMBDA j : IF j \in launch.hidden THEN [mem[Cell("sc", j)] EXCEPT !.score = NegInf]
                                  ELSE mem[Cell("sc", j)])
  <2> DEFINE g == [u \in {t} |-> [reg[t] EXCEPT !.max = Max({NegInf} \cup
                    {(IF j \in launch.hidden THEN [mem[Cell("sc", j)] EXCEPT !.score = NegInf]
                      ELSE mem[Cell("sc", j)]).score : j \in Column(t, launch.nk, W)})]]
  <2>1. Move({t}, r, w, g, to, 0)  BY <1>2, <1>3 DEF AttnMask, Alone
  <2>2. DOMAIN w = Touches(t, C)  BY <1>2, TouchesCells DEF Writes
  <2>3. r = Touches(t, R)  BY <1>2, TouchesCells, TouchesNone
  <2> HIDE DEF r, w, g
  <2>4. QED  BY <2>1, <2>2, <2>3 DEF Moves
<1>5. Keeps(t, i, R, C, to, 0)
  <2>1. WriteCells(i, t) = C /\ ReadCells(i, t) = R
    <3>1. AttnWrites(i, t) = C /\ AttnReads(i, t) = R
      BY <1>2, <1>3 DEF AttnWrites, AttnReads
    <3>2. QED  BY <1>3, <3>1, CellsOf
  <2>2. Stands(t, to, i + 0)  BY <1>2, <1>3 DEF Stands
  <2>3. QED  BY <1>1, <1>2, <2>1, <2>2 DEF Keeps
<1>6. QED  BY <1>4, <1>5, AloneKeeps

(* A lane exponentiates the columns it owns.                               *)
LEMMA AttnExpKeeps ==
    ASSUME KernelInv, NEW t \in Threads, AttnExp(t)  PROVE KernelInv'
<1>1. PICK i : i = sync[t]  OBVIOUS
<1>2. PICK R, C, to : /\ R = Cells("sc", Column(t, launch.nk, W))
                      /\ C = Cells("sc", Column(t, launch.nk, W))
                      /\ to = <<"sum", 0>>
  OBVIOUS
<1>3. launch.kernel = "attn" /\ i = 1 /\ t < W /\ t \in Nat /\ launch \in Launches /\ 0 \in Threads
  <2>1. at[t] = <<"exp", 0>>  BY DEF AttnExp
  <2>2. QED  BY <1>1, <2>1, Standing DEF Stands
<1>4. Moves(t, R, C, to, 0)
  <2> DEFINE r == Reads(t, "sc", Column(t, launch.nk, W))
  <2> DEFINE exp(j) == LET s == mem[Cell("sc", j)].score
                       IN  [score |-> s, weight |->
                            IF s = NegInf THEN <<>> ELSE <<Weight(Term(j, s), reg[t].max, <<>>)>>]
  <2> DEFINE term(j) == [k \in DOMAIN exp(j).weight |-> exp(j).weight[k].term]
  <2> DEFINE w == Writes(t, "sc", Column(t, launch.nk, W), exp)
  <2> DEFINE g == [u \in {t} |-> [reg[t] EXCEPT !.acc = Gather(Column(t, launch.nk, W), term)]]
  <2>1. Move({t}, r, w, g, to, 0)  BY <1>2, <1>3 DEF AttnExp, Alone
  <2>2. DOMAIN w = Touches(t, C)  BY <1>2, TouchesCells DEF Writes
  <2>3. r = Touches(t, R)  BY <1>2, TouchesCells, TouchesNone
  <2> HIDE DEF r, w, g
  <2>4. QED  BY <2>1, <2>2, <2>3 DEF Moves
<1>5. Keeps(t, i, R, C, to, 0)
  <2>1. WriteCells(i, t) = C /\ ReadCells(i, t) = R
    <3>1. AttnWrites(i, t) = C /\ AttnReads(i, t) = R
      BY <1>2, <1>3 DEF AttnWrites, AttnReads
    <3>2. QED  BY <1>3, <3>1, CellsOf
  <2>2. Stands(t, to, i + 0)  BY <1>2, <1>3 DEF Stands
  <2>3. QED  BY <1>1, <1>2, <2>1, <2>2 DEF Keeps
<1>6. QED  BY <1>4, <1>5, AloneKeeps

(* A lane divides the columns it owns.                                     *)
LEMMA AttnDivideKeeps ==
    ASSUME KernelInv, NEW t \in Threads, AttnDivide(t)  PROVE KernelInv'
<1>1. PICK i : i = sync[t]  OBVIOUS
<1>2. PICK R, C, to : /\ R = Cells("sc", Column(t, launch.nk, W))
                      /\ C = Cells("sc", Column(t, launch.nk, W))
                      /\ to = <<"values", 0>>
  OBVIOUS
<1>3. launch.kernel = "attn" /\ i = 1 /\ t < W /\ t \in Nat /\ launch \in Launches /\ 0 \in Threads
  <2>1. at[t] = <<"divide", 0>>  BY DEF AttnDivide
  <2>2. QED  BY <1>1, <2>1, Standing DEF Stands
<1>4. Moves(t, R, C, to, 1)
  <2> DEFINE r == Reads(t, "sc", Column(t, launch.nk, W))
  <2> DEFINE w == Writes(t, "sc", Column(t, launch.nk, W),
                       LAMBDA j : [mem[Cell("sc", j)] EXCEPT !.weight =
                                    [k \in DOMAIN @ |-> [@[k] EXCEPT !.over = reg[t].acc]]])
  <2> DEFINE g == Nothing
  <2>1. Move({t}, r, w, g, to, 1)  BY <1>2, <1>3 DEF AttnDivide, Alone
  <2>2. DOMAIN w = Touches(t, C)  BY <1>2, TouchesCells DEF Writes
  <2>3. r = Touches(t, R)  BY <1>2, TouchesCells, TouchesNone
  <2> HIDE DEF r, w, g
  <2>4. QED  BY <2>1, <2>2, <2>3 DEF Moves
<1>5. Keeps(t, i, R, C, to, 1)
  <2>1. WriteCells(i, t) = C /\ ReadCells(i, t) = R
    <3>1. AttnWrites(i, t) = C /\ AttnReads(i, t) = R
      BY <1>2, <1>3 DEF AttnWrites, AttnReads
    <3>2. QED  BY <1>3, <3>1, CellsOf
  <2>2. Stands(t, to, i + 1)  BY <1>2, <1>3 DEF Stands
  <2>3. QED  BY <1>1, <1>2, <2>1, <2>2 DEF Keeps
<1>6. QED  BY <1>4, <1>5, AloneKeeps

(* Every thread reads every weight, all written before the barrier of the softmax. *)
LEMMA AttnValuesKeeps ==
    ASSUME KernelInv, NEW t \in Threads, AttnValues(t)  PROVE KernelInv'
<1>1. PICK i : i = sync[t]  OBVIOUS
<1>2. PICK R, C, to : /\ R = Cells("sc", 0..(launch.nk - 1))
                      /\ C = Cells("out", Column(t, launch.hd, T))
                      /\ to = Done
  OBVIOUS
<1>3. launch.kernel = "attn" /\ i = 2 /\ t \in Nat /\ launch \in Launches /\ 0 \in Threads
  <2>1. at[t] = <<"values", 0>>  BY DEF AttnValues
  <2>2. QED  BY <1>1, <2>1, Standing DEF Stands
<1>4. Moves(t, R, C, to, 0)
  <2> DEFINE r == Reads(t, "sc", 0..(launch.nk - 1))
  <2> DEFINE w == Writes(t, "out", Column(t, launch.hd, T),
                       LAMBDA d : Gather(0..(launch.nk - 1), LAMBDA j : mem[Cell("sc", j)].weight))
  <2> DEFINE g == Nothing
  <2>1. Move({t}, r, w, g, to, 0)  BY <1>2, <1>3 DEF AttnValues, Alone
  <2>2. DOMAIN w = Touches(t, C)  BY <1>2, TouchesCells DEF Writes
  <2>3. r = Touches(t, R)  BY <1>2, TouchesCells, TouchesNone
  <2> HIDE DEF r, w, g
  <2>4. QED  BY <2>1, <2>2, <2>3 DEF Moves
<1>5. Keeps(t, i, R, C, to, 0)
  <2>1. WriteCells(i, t) = C /\ R \subseteq ReadCells(i, t)
    <3>1. AttnWrites(i, t) = C /\ R \subseteq AttnReads(i, t)
      BY <1>2, <1>3 DEF AttnWrites, AttnReads
    <3>2. QED  BY <1>3, <3>1, CellsOf
  <2>2. R \subseteq Earlier(i) \cup C
    <3>1. launch.nk \in Nat /\ T \in Nat \ {0} /\ Threads = 0..(T - 1)
      BY <1>3, ShapeIs, BlockIsT, BlockStarts DEF Shaped
    <3>2. ASSUME NEW j \in 0..(launch.nk - 1)  PROVE Cell("sc", j) \in Earlier(i)
      <4>1. PICK u \in Threads : u = j % T /\ j \in Column(u, launch.nk, T)
        BY <3>1, SharedOut
      <4>2. AttnWrites(0, u) = Cells("sc", Column(u, launch.nk, T))  BY DEF AttnWrites
      <4>3. Cell("sc", j) \in WriteCells(0, u)  BY <1>3, <4>1, <4>2, CellsOf, CellIn
      <4>4. 0 \in 0..(i - 1)  BY <1>3
      <4>5. QED  BY <4>3, <4>4, CellsBefore
    <3>3. QED  BY <1>2, <3>2 DEF Cells
  <2>3. Stands(t, to, i + 0)  BY <1>2, <1>3 DEF Stands, Done
  <2>4. QED  BY <1>1, <2>1, <2>2, <2>3 DEF Keeps
<1>6. QED  BY <1>4, <1>5, AloneKeeps

(* Lanes stay within the block, and no lane is in two warps.               *)
LEMMA LanesIn ==
    ASSUME NEW w \in Warps
    PROVE  /\ w * W \in Lanes(w) /\ Lanes(w) \subseteq 0..(T - 1)
           /\ \A v \in Warps : v * W \in Lanes(w) => v = w
<1>1. T \in Nat \ {0} /\ W \in Nat \ {0}  BY BlockAssumption
<1>2. PICK q \in Nat : q = T \div W /\ T >= W * q
  <2>1. T \div W \in Nat /\ (T % W) \in 0..(W - 1) /\ T = W * (T \div W) + (T % W)
    BY <1>1, DivisionIs
  <2>2. QED  BY <1>1, <2>1
<1>3. w \in 0..(q - 1) /\ Warps = 0..(q - 1)  BY <1>2 DEF Warps
<1>4. w * W \in Nat /\ w * W + W <= T
  <2>1. w + 1 <= q  BY <1>2, <1>3
  <2>2. (w + 1) * W <= q * W  BY <1>1, <1>2, <1>3, <2>1
  <2>3. (w + 1) * W = w * W + W /\ q * W = W * q /\ w * W \in Nat  BY <1>1, <1>2, <1>3
  <2>4. QED  BY <1>1, <1>2, <2>2, <2>3
<1>5. ASSUME NEW v \in Warps, v * W \in Lanes(w)  PROVE v = w
  <2>1. v \in Nat /\ w \in Nat /\ w * W <= v * W /\ v * W <= w * W + W - 1
    BY <1>2, <1>3, <1>4, <1>5 DEF Lanes
  <2>2. CASE v < w
    <3>1. (v + 1) * W <= w * W  BY <1>1, <2>1, <2>2
    <3>2. QED  BY <1>1, <2>1, <3>1
  <2>3. CASE w < v
    <3>1. (w + 1) * W <= v * W  BY <1>1, <2>1, <2>3
    <3>2. QED  BY <1>1, <2>1, <3>1
  <2>4. QED  BY <2>1, <2>2, <2>3
<1>6. QED  BY <1>1, <1>4, <1>5 DEF Lanes

(* Warp 0 is there, with thread 0 in it.                                   *)
LEMMA WarpZero == 0 \in Warps /\ 0 \in Lanes(0) /\ Lanes(0) \subseteq 0..(T - 1) /\
  Lanes(0) = 0..(W - 1)
<1>1. T \div W \in Nat /\ T \div W >= 1 /\ W \in Nat \ {0}  BY BlockAssumption
<1>2. 0 \in Warps  BY <1>1 DEF Warps
<1>3. Lanes(0) = 0..(W - 1)  BY <1>1 DEF Lanes
<1>4. QED  BY <1>1, <1>2, <1>3, LanesIn

(* The shuffle of the maximum touches no memory.                           *)
LEMMA AttnMaxKeeps ==
    ASSUME KernelInv, AttnMax  PROVE KernelInv'
<1>1. PICK S, to, D : S = Lanes(0) /\ to = <<"exp", 0>> /\ D = {}  OBVIOUS
<1>2. launch.kernel = "attn" /\ launch \in Launches  BY DEF AttnMax, KernelInv
<1>3. S \subseteq Threads /\ S # {}  BY <1>1, <1>2, WarpZero, BlockIsT
<1>4. \A t \in S : sync[t] = 1 /\ t < W
  <2>1. ASSUME NEW t \in S  PROVE sync[t] = 1 /\ t < W
    <3>1. at[t] = <<"max", 0>>  BY <1>1 DEF AttnMax
    <3>2. t \in Threads  BY <1>3
    <3>3. QED  BY <3>1, <3>2, Standing DEF Stands
  <2>2. QED  BY <2>1
<1>5. Footprint(S, D, D, to, 0)
  <2> DEFINE g == [t \in Lanes(0) |-> [reg[t] EXCEPT !.max = Shuffled(0, Largest).max]]
  <2>1. Move(Lanes(0), {}, Nothing, g, to, 0)  BY <1>1 DEF AttnMax
  <2> HIDE DEF g
  <2>2. Move(S, D, Nothing, g, to, 0)  BY <1>1, <2>1
  <2>3. DOMAIN Nothing = D  BY <1>1, TouchesNone
  <2>4. QED  BY <2>2, <2>3, MoveLeaves
<1>6. Legal(S, 1, D, D, to, 0)
  <2>1. ASSUME NEW t \in S  PROVE Stands(t, to, 1 + 0)  BY <1>1, <1>2, <1>4 DEF Stands
  <2>2. QED  BY <1>1, <1>3, <1>4, <2>1 DEF Legal
<1>7. QED  BY <1>5, <1>6, LegalKeeps

(* The shuffle of the sum touches no memory.                               *)
LEMMA AttnSumKeeps ==
    ASSUME KernelInv, AttnSum  PROVE KernelInv'
<1>1. PICK S, to, D : S = Lanes(0) /\ to = <<"divide", 0>> /\ D = {}  OBVIOUS
<1>2. launch.kernel = "attn" /\ launch \in Launches  BY DEF AttnSum, KernelInv
<1>3. S \subseteq Threads /\ S # {}  BY <1>1, <1>2, WarpZero, BlockIsT
<1>4. \A t \in S : sync[t] = 1 /\ t < W
  <2>1. ASSUME NEW t \in S  PROVE sync[t] = 1 /\ t < W
    <3>1. at[t] = <<"sum", 0>>  BY <1>1 DEF AttnSum
    <3>2. t \in Threads  BY <1>3
    <3>3. QED  BY <3>1, <3>2, Standing DEF Stands
  <2>2. QED  BY <2>1
<1>5. Footprint(S, D, D, to, 0)
  <2> DEFINE g == [t \in Lanes(0) |-> [reg[t] EXCEPT !.acc = Shuffled(0, Joined).acc]]
  <2>1. Move(Lanes(0), {}, Nothing, g, to, 0)  BY <1>1 DEF AttnSum
  <2> HIDE DEF g
  <2>2. Move(S, D, Nothing, g, to, 0)  BY <1>1, <2>1
  <2>3. DOMAIN Nothing = D  BY <1>1, TouchesNone
  <2>4. QED  BY <2>2, <2>3, MoveLeaves
<1>6. Legal(S, 1, D, D, to, 0)
  <2>1. ASSUME NEW t \in S  PROVE Stands(t, to, 1 + 0)  BY <1>1, <1>2, <1>4 DEF Stands
  <2>2. QED  BY <1>1, <1>3, <1>4, <2>1 DEF Legal
<1>7. QED  BY <1>5, <1>6, LegalKeeps

(* The keys of a tile are TILE in a row, so its slots are threads.         *)
LEMMA SlotsIn ==
    ASSUME NEW k \in Nat, launch.nk \in Nat
    PROVE  Slots(k) \subseteq 0..(TILE - 1)
<1>1. TILE \in Nat \ {0}  BY BlockAssumption
<1>2. PICK a \in Nat : a = k * TILE  BY <1>1
<1>3. TileKeys(k) \subseteq a..(a + TILE - 1)
  <2>1. ASSUME NEW j \in TileKeys(k)  PROVE j \in a..(a + TILE - 1)
    <3>1. j \in Nat /\ j \div TILE = k  BY DEF TileKeys
    <3>2. (j % TILE) \in 0..(TILE - 1) /\ j = TILE * (j \div TILE) + (j % TILE)
      BY <1>1, <3>1, DivisionIs
    <3>3. TILE * k = a  BY <1>1, <1>2
    <3>4. PICK m \in 0..(TILE - 1) : j = a + m  BY <3>1, <3>2, <3>3
    <3>5. QED  BY <1>1, <3>1, <3>4
  <2>2. QED  BY <2>1
<1>4. PICK b \in Nat : b = a + TILE - 1  BY <1>1
<1>5. IsFiniteSet(a..b) /\ Cardinality(a..b) = TILE
  <2>1. a \in Int /\ b \in Int /\ ~(a > b) /\ b - a + 1 = TILE  BY <1>1, <1>4
  <2>2. QED  BY <2>1, FS_Interval
<1>6. IsFiniteSet(TileKeys(k)) /\ Cardinality(TileKeys(k)) <= TILE
  <2>1. TileKeys(k) \subseteq a..b  BY <1>3, <1>4
  <2>2. QED  BY <1>5, <2>1, FS_Subset
<1>7. Cardinality(TileKeys(k)) \in Nat  BY <1>6, FS_CardinalityType
<1>8. QED  BY <1>1, <1>6, <1>7 DEF Slots

(* An interval of the flash kernel is one of four steps of a tile.         *)
LEMMA FlashStepIs ==
    ASSUME NEW k \in Nat, NEW c \in 0..3, NEW i, i = 4 * k + c
    PROVE  /\ i \in Nat /\ \A t : FlashWrites(i, t) = FlashStepWrites(k, c, t) /\
              FlashReads(i, t) = FlashStepReads(k, c, t)
<1>1. i \in Nat  OBVIOUS
<1>2. i % 4 = c /\ i \div 4 = k
  <2>1. 4 \in Nat \ {0} /\ k \in Int /\ c \in 0..(4 - 1)  OBVIOUS
  <2>2. QED  BY <1>1, <2>1, RemainderIs
<1>3. QED  BY <1>1, <1>2 DEF FlashWrites, FlashReads

AtStep(i, k, c) == /\ i \in Nat
                   /\ \A t : FlashWrites(i, t) = FlashStepWrites(k, c, t) /\
                      FlashReads(i, t) = FlashStepReads(k, c, t)
(* The footprints of the four steps of tile k.                             *)
LEMMA FlashStep ==
    ASSUME NEW k \in Nat, NEW i
    PROVE  /\ i = 4 * k + 0 => AtStep(i, k, 0)
           /\ i = 4 * k + 1 => AtStep(i, k, 1)
           /\ i = 4 * k + 2 => AtStep(i, k, 2)
           /\ i = 4 * k + 3 => AtStep(i, k, 3)
<1>1. ASSUME NEW c \in 0..3, i = 4 * k + c  PROVE AtStep(i, k, c)
  BY <1>1, FlashStepIs DEF AtStep
<1>2. 0 \in 0..3 /\ 1 \in 0..3 /\ 2 \in 0..3 /\ 3 \in 0..3  OBVIOUS
<1>3. QED  BY <1>1, <1>2

(* The flash kernel has T threads, and a thread for every slot of a tile.  *)
LEMMA FlashBlock ==
    ASSUME launch \in Launches, launch.kernel = "flash"
    PROVE  /\ launch.nk \in Nat /\ LastTile \in Nat /\ Threads = 0..(T - 1) /\ T \in Nat \ {0}
           /\ \A k \in Nat : Slots(k) \subseteq Threads
<1>1. launch.nk \in Nat \ {0}  BY ShapeIs DEF Shaped
<1>2. T \in Nat \ {0} /\ TILE \in Nat \ {0} /\ TILE <= T  BY BlockAssumption
<1>3. LastTile \in Nat
  <2>1. launch.nk - 1 \in Nat  BY <1>1
  <2>2. QED  BY <1>2, <2>1, DivisionIs DEF LastTile
<1>4. Threads = 0..(T - 1)  BY BlockIsT
<1>5. QED  BY <1>1, <1>2, <1>3, <1>4, SlotsIn

(* A tile is written in the first interval of the four.                    *)
LEMMA TileBefore ==
    ASSUME launch \in Launches, launch.kernel = "flash", NEW k \in Nat, k <= LastTile,
             NEW i \in Nat, 4 * k < i, NEW u \in Slots(k)
    PROVE  Cell("tile", u) \in Earlier(i)
<1>1. u \in Threads  BY FlashBlock
<1>2. PICK j : j = 4 * k + 0  OBVIOUS
<1>3. j \in 0..(i - 1)  BY <1>2
<1>4. FlashWrites(j, u) = Cells("tile", Slots(k) \cap {u})
  <2>1. FlashWrites(j, u) = FlashStepWrites(k, 0, u)  BY <1>2, FlashStep DEF AtStep
  <2>2. QED  BY <2>1 DEF FlashStepWrites
<1>5. Cell("tile", u) \in WriteCells(j, u)
  <2>1. u \in Slots(k) \cap {u}  OBVIOUS
  <2>2. QED  BY <1>4, <2>1, CellsOf, CellIn
<1>6. QED  BY <1>1, <1>3, <1>5, CellsBefore

(* A thread fills its own slot of the tile.                                *)
LEMMA FlashScoreKeeps ==
    ASSUME KernelInv, NEW t \in Threads, FlashScore(t)  PROVE KernelInv'
<1>1. PICK i : i = sync[t]  OBVIOUS
<1>2. PICK R, C, to : /\ R = {}
                      /\ C = Cells("tile", Slots(at[t][2]) \cap {t})
                      /\ to = <<"slots", at[t][2]>>
  OBVIOUS
<1>3. launch.kernel = "flash" /\ at[t][2] \in 0..LastTile /\ i = 4 * at[t][2] + 0 /\ t \in Nat /\
      launch \in Launches /\ 0 \in Threads
  <2>1. at[t][1] = "tile"  BY DEF FlashScore
  <2>2. QED  BY <1>1, <2>1, Standing DEF Stands, Flashing
<1>4. Moves(t, R, C, to, 1)
  <2> DEFINE r == {}
  <2> DEFINE w == Writes(t, "tile", Slots(at[t][2]) \cap {t},
            LAMBDA u : Score(at[t][2] * TILE + u))
  <2> DEFINE g == Nothing
  <2>1. Move({t}, r, w, g, to, 1)  BY <1>2, <1>3 DEF FlashScore, Alone
  <2>2. DOMAIN w = Touches(t, C)  BY <1>2, TouchesCells DEF Writes
  <2>3. r = Touches(t, R)  BY <1>2, TouchesCells, TouchesNone
  <2> HIDE DEF r, w, g
  <2>4. QED  BY <2>1, <2>2, <2>3 DEF Moves
<1>5. Keeps(t, i, R, C, to, 1)
  <2>1. PICK k \in Nat : k = at[t][2] /\ k <= LastTile /\ i = 4 * k + 0  BY <1>3, FlashBlock
  <2>2. FlashWrites(i, t) = FlashStepWrites(k, 0, t) /\ FlashReads(i, t) = FlashStepReads(k, 0, t)
    <3>1. i = 4 * k + 0  BY <2>1
    <3>2. AtStep(i, k, 0)  BY <3>1, FlashStep
    <3>3. QED  BY <3>2 DEF AtStep
  <2>3. WriteCells(i, t) = C
    <3>1. FlashStepWrites(k, 0, t) = C  BY <1>2, <2>1 DEF FlashStepWrites
    <3>2. QED  BY <1>3, <2>2, <3>1, CellsOf
  <2>4. Stands(t, to, i + 1)
    <3>1. Flashing(to, i + 1, 1)  BY <1>2, <1>3, <2>1 DEF Flashing
    <3>2. QED  BY <1>2, <3>1 DEF Stands
  <2>5. QED  BY <1>1, <1>2, <2>3, <2>4 DEF Keeps
<1>6. QED  BY <1>4, <1>5, AloneKeeps

(* A thread reads the slots it owns.                                       *)
LEMMA FlashLocalMaxKeeps ==
    ASSUME KernelInv, NEW t \in Threads, FlashLocalMax(t)  PROVE KernelInv'
<1>1. PICK i : i = sync[t]  OBVIOUS
<1>2. PICK R, C, to : /\ R = Cells("tile", {u \in Slots(at[t][2]) : u % T = t})
                      /\ C = {}
                      /\ to = <<"warp", at[t][2]>>
  OBVIOUS
<1>3. launch.kernel = "flash" /\ at[t][2] \in 0..LastTile /\ i = 4 * at[t][2] + 1 /\ t \in Nat /\
      launch \in Launches /\ 0 \in Threads
  <2>1. at[t][1] = "slots"  BY DEF FlashLocalMax
  <2>2. QED  BY <1>1, <2>1, Standing DEF Stands, Flashing
<1>4. Moves(t, R, C, to, 0)
  <2> DEFINE r == Reads(t, "tile", {u \in Slots(at[t][2]) : u % T = t})
  <2> DEFINE w == Nothing
  <2> DEFINE g == [x \in {t} |-> [reg[t] EXCEPT !.max = Max({NegInf} \cup {mem[Cell("tile", v)] : v \in {u \in Slots(at[t][2]) : u % T = t}})]]
  <2>1. Move({t}, r, w, g, to, 0)  BY <1>2, <1>3 DEF FlashLocalMax, Alone
  <2>2. DOMAIN w = Touches(t, C)  BY <1>2, TouchesNone
  <2>3. r = Touches(t, R)  BY <1>2, TouchesCells, TouchesNone
  <2> HIDE DEF r, w, g
  <2>4. QED  BY <2>1, <2>2, <2>3 DEF Moves
<1>5. Keeps(t, i, R, C, to, 0)
  <2>1. PICK k \in Nat : k = at[t][2] /\ k <= LastTile /\ i = 4 * k + 1  BY <1>3, FlashBlock
  <2>2. FlashWrites(i, t) = FlashStepWrites(k, 1, t) /\ FlashReads(i, t) = FlashStepReads(k, 1, t)
    <3>1. i = 4 * k + 1  BY <2>1
    <3>2. AtStep(i, k, 1)  BY <3>1, FlashStep
    <3>3. QED  BY <3>2 DEF AtStep
  <2>3. ReadCells(i, t) = R
    <3>1. FlashStepReads(k, 1, t) = R  BY <1>2, <2>1 DEF FlashStepReads
    <3>2. QED  BY <1>3, <2>2, <3>1, CellsOf
  <2>4. R \subseteq Earlier(i)
    <3>1. \A u \in Slots(k) : Cell("tile", u) \in Earlier(i)  BY <1>3, <2>1, TileBefore
    <3>2. QED  BY <1>2, <2>1, <3>1 DEF Cells
  <2>5. Stands(t, to, i + 0)
    <3>1. Flashing(to, i + 0, 1)  BY <1>2, <1>3, <2>1 DEF Flashing
    <3>2. QED  BY <1>2, <3>1 DEF Stands
  <2>6. QED  BY <1>1, <1>2, <2>3, <2>4, <2>5 DEF Keeps
<1>6. QED  BY <1>4, <1>5, AloneKeeps

(* The other warps wait for the maximum of the tile.                       *)
LEMMA FlashOtherWarpKeeps ==
    ASSUME KernelInv, NEW t \in Threads, FlashOtherWarp(t)  PROVE KernelInv'
<1>1. PICK i : i = sync[t]  OBVIOUS
<1>2. PICK R, C, to : R = {} /\ C = {} /\ to = <<"rescale", at[t][2]>>  OBVIOUS
<1>3. launch.kernel = "flash" /\ at[t][2] \in 0..LastTile /\ i = 4 * at[t][2] + 2 /\ t \in Nat /\
      launch \in Launches /\ 0 \in Threads
  <2>1. at[t][1] = "block"  BY DEF FlashOtherWarp
  <2>2. QED  BY <1>1, <2>1, Standing DEF Stands, Flashing
<1>4. Moves(t, R, C, to, 1)
  <2> DEFINE r == {}
  <2> DEFINE w == Nothing
  <2> DEFINE g == Nothing
  <2>1. Move({t}, r, w, g, to, 1)  BY <1>2, <1>3 DEF FlashOtherWarp, Alone
  <2>2. DOMAIN w = Touches(t, C)  BY <1>2, TouchesNone
  <2>3. r = Touches(t, R)  BY <1>2, TouchesCells, TouchesNone
  <2> HIDE DEF r, w, g
  <2>4. QED  BY <2>1, <2>2, <2>3 DEF Moves
<1>5. Keeps(t, i, R, C, to, 1)
  <2>1. PICK k \in Nat : k = at[t][2] /\ k <= LastTile /\ i = 4 * k + 2  BY <1>3, FlashBlock
  <2>2. FlashWrites(i, t) = FlashStepWrites(k, 2, t) /\ FlashReads(i, t) = FlashStepReads(k, 2, t)
    <3>1. i = 4 * k + 2  BY <2>1
    <3>2. AtStep(i, k, 2)  BY <3>1, FlashStep
    <3>3. QED  BY <3>2 DEF AtStep
  <2>3. WriteCells(i, t) = {}
    <3>1. t # 0  BY WarpZero DEF FlashOtherWarp
    <3>2. Cells("m_tile", {0} \cap {t}) = {}  BY <3>1 DEF Cells
    <3>3. FlashStepWrites(k, 2, t) = {}  BY <3>2 DEF FlashStepWrites
    <3>4. QED  BY <1>3, <2>2, <3>3, CellsOf
  <2>4. Stands(t, to, i + 1)
    <3>1. Flashing(to, i + 1, 3)  BY <1>2, <1>3, <2>1 DEF Flashing
    <3>2. QED  BY <1>2, <3>1 DEF Stands
  <2>5. QED  BY <1>1, <1>2, <2>3, <2>4 DEF Keeps
<1>6. QED  BY <1>4, <1>5, AloneKeeps

(* Every thread reads the tile and its maximum, and then meets the barrier that *)
(* the next tile is written behind.                                        *)
LEMMA FlashAccumulateKeeps ==
    ASSUME KernelInv, NEW t \in Threads, FlashAccumulate(t)  PROVE KernelInv'
<1>1. PICK i : i = sync[t]  OBVIOUS
<1>2. PICK R, C, to : /\ R = Cells("tile", Slots(at[t][2])) \cup Cells("m_tile", {0})
                      /\ C = {}
                      /\ to = FlashTileEnd(at[t][2])
  OBVIOUS
<1>3. launch.kernel = "flash" /\ at[t][2] \in 0..LastTile /\ i = 4 * at[t][2] + 3 /\ t \in Nat /\
      launch \in Launches /\ 0 \in Threads
  <2>1. at[t][1] = "rescale"  BY DEF FlashAccumulate
  <2>2. QED  BY <1>1, <2>1, Standing DEF Stands, Flashing
<1>4. Moves(t, R, C, to, TileBarrier)
  <2> DEFINE r == Reads(t, "tile", Slots(at[t][2])) \cup Reads(t, "m_tile", {0})
  <2> DEFINE w == Nothing
  <2> DEFINE m == Max({reg[t].m, mem[Cell("m_tile", 0)]})
  <2> DEFINE seen(u) == LET s == mem[Cell("tile", u)]
                        IN  IF s = NegInf THEN <<>> ELSE <<Term(at[t][2] * TILE + u, s)>>
  <2> DEFINE kept == IF reg[t].m = NegInf THEN <<>> ELSE reg[t].acc
  <2> DEFINE g == [u \in {t} |-> [m |-> m, max |-> reg[t].max, acc |-> kept \o Gather(Slots(at[t][2]), seen)]]
  <2>1. Move({t}, r, w, g, to, TileBarrier)  BY <1>2, <1>3 DEF FlashAccumulate, Alone
  <2>2. DOMAIN w = Touches(t, C)  BY <1>2, TouchesNone
  <2>3. r = Touches(t, R)  BY <1>2, TouchesCells DEF Touches
  <2> HIDE DEF r, w, g
  <2>4. QED  BY <2>1, <2>2, <2>3 DEF Moves
<1>5. Keeps(t, i, R, C, to, TileBarrier)
  <2>1. PICK k \in Nat : k = at[t][2] /\ k <= LastTile /\ i = 4 * k + 3  BY <1>3, FlashBlock
  <2>2. FlashWrites(i, t) = FlashStepWrites(k, 3, t) /\ FlashReads(i, t) = FlashStepReads(k, 3, t)
    <3>1. i = 4 * k + 3  BY <2>1
    <3>2. AtStep(i, k, 3)  BY <3>1, FlashStep
    <3>3. QED  BY <3>2 DEF AtStep
  <2>3. ReadCells(i, t) = R /\ WriteCells(i, t) = {}
    <3>1. FlashStepReads(k, 3, t) = R /\ FlashStepWrites(k, 3, t) = {}
      BY <1>2, <2>1 DEF FlashStepReads, FlashStepWrites
    <3>2. QED  BY <1>3, <2>2, <3>1, CellsOf
  <2>4. R \subseteq Earlier(i)
    <3>1. \A u \in Slots(k) : Cell("tile", u) \in Earlier(i)  BY <1>3, <2>1, TileBefore
    <3>2. Cell("m_tile", 0) \in Earlier(i)
      <4>1. PICK j : j = 4 * k + 2  OBVIOUS
      <4>2. j \in 0..(i - 1)  BY <2>1, <4>1
      <4>3. FlashWrites(j, 0) = Cells("m_tile", {0})
        <5>1. FlashWrites(j, 0) = FlashStepWrites(k, 2, 0) /\ {0} \cap {0} = {0}
          BY <4>1, FlashStep DEF AtStep
        <5>2. QED  BY <5>1 DEF FlashStepWrites
      <4>4. Cell("m_tile", 0) \in WriteCells(j, 0)  BY <1>3, <4>3, CellsOf, CellIn
      <4>5. QED  BY <1>3, <4>2, <4>4, CellsBefore
    <3>3. QED  BY <1>2, <2>1, <3>1, <3>2 DEF Cells
  <2>5. Stands(t, to, i + 1)
    <3>1. CASE k = LastTile
      <4>1. to = <<"normalise", 0>>  BY <1>2, <2>1, <3>1 DEF FlashTileEnd
      <4>2. i + 1 = 4 * (LastTile + 1)  BY <2>1, <3>1
      <4>3. QED  BY <1>3, <4>1, <4>2 DEF Stands
    <3>2. CASE k # LastTile
      <4>1. to = <<"tile", k + 1>>  BY <1>2, <2>1, <3>2 DEF FlashTileEnd
      <4>2. i + 1 = 4 * (k + 1) + 0 /\ k + 1 \in 0..LastTile
        <5>1. PICK m \in Nat : m = LastTile  BY <1>3, FlashBlock
        <5>2. k <= m /\ k # m /\ i = 4 * k + 3  BY <2>1, <3>2, <5>1
        <5>3. i + 1 = 4 * (k + 1) + 0 /\ k + 1 \in 0..m  BY <5>2
        <5>4. QED  BY <5>1, <5>3
      <4>3. Flashing(to, i + 1, 0)  BY <1>3, <4>1, <4>2 DEF Flashing
      <4>4. QED  BY <4>1, <4>3 DEF Stands
    <3>3. QED  BY <3>1, <3>2
  <2>6. QED  BY <1>1, <1>2, <2>3, <2>4, <2>5 DEF Keeps, TileBarrier
<1>6. QED  BY <1>4, <1>5, AloneKeeps

(* Thread 0 also saves the maximum and the sum of the row.                 *)
LEMMA FlashOutKeeps ==
    ASSUME KernelInv, NEW t \in Threads, FlashOut(t)  PROVE KernelInv'
<1>1. PICK i : i = sync[t]  OBVIOUS
<1>2. PICK R, C, to : /\ R = {}
                      /\ C = Cells("out", Column(t, launch.hd, T)) \cup Cells("lse", {0} \cap {t})
                      /\ to = Done
  OBVIOUS
<1>3. launch.kernel = "flash" /\ i = 4 * (LastTile + 1) /\ t \in Nat /\ launch \in Launches /\
      0 \in Threads
  <2>1. at[t] = <<"normalise", 0>>  BY DEF FlashOut
  <2>2. QED  BY <1>1, <2>1, Standing DEF Stands
<1>4. Moves(t, R, C, to, 0)
  <2> DEFINE r == {}
  <2> DEFINE l == reg[t].acc
  <2> DEFINE out == [k \in DOMAIN l |-> Weight(l[k], reg[t].m, l)]
  <2> DEFINE wo == Writes(t, "out", Column(t, launch.hd, T), LAMBDA d : out)
  <2> DEFINE wl == Writes(t, "lse", {0} \cap {t}, LAMBDA k : [m |-> reg[t].m, l |-> l])
  <2> DEFINE w == Merge(wo, wl)
  <2> DEFINE g == Nothing
  <2>1. Move({t}, r, w, g, to, 0)  BY <1>2, <1>3 DEF FlashOut, Alone
  <2>2. DOMAIN w = Touches(t, C)
    <3>1. PICK A, B : A = Cells("out", Column(t, launch.hd, T)) /\
               B = Cells("lse", {0} \cap {t})  OBVIOUS
    <3>2. DOMAIN wo = Touches(t, A)  BY <3>1, TouchesCells DEF Writes
    <3>3. DOMAIN wl = Touches(t, B)  BY <3>1, TouchesCells DEF Writes
    <3>4. C = A \cup B  BY <1>2, <3>1
    <3> HIDE DEF wo, wl
    <3>5. DOMAIN w = DOMAIN wo \cup DOMAIN wl  BY TouchesBoth
    <3>6. Touches(t, C) = Touches(t, A) \cup Touches(t, B)  BY <3>4, TouchesBoth
    <3>7. QED  BY <3>2, <3>3, <3>5, <3>6
  <2>3. r = Touches(t, R)  BY <1>2, TouchesCells, TouchesNone
  <2> HIDE DEF r, w, g
  <2>4. QED  BY <2>1, <2>2, <2>3 DEF Moves
<1>5. Keeps(t, i, R, C, to, 0)
  <2>1. PICK k \in Nat : k = LastTile  BY <1>3, FlashBlock
  <2>2. PICK n \in Nat : n = k + 1 /\ ~(n <= LastTile) /\ i = 4 * n + 0  BY <1>3, <2>1
  <2>3. AtStep(i, n, 0)  BY <2>2, FlashStep
  <2>4. WriteCells(i, t) = C
    <3>1. FlashStepWrites(n, 0, t) = C  BY <1>2, <2>2 DEF FlashStepWrites
    <3>2. QED  BY <1>3, <2>3, <3>1, CellsOf DEF AtStep
  <2>5. Stands(t, to, i + 0)  BY <1>2 DEF Stands, Done
  <2>6. QED  BY <1>1, <1>2, <2>4, <2>5 DEF Keeps
<1>6. QED  BY <1>4, <1>5, AloneKeeps

(* The first lane of a warp writes the maximum of the warp.                *)
LEMMA FlashWarpMaxKeeps ==
    ASSUME KernelInv, NEW w \in Warps, FlashWarpMax(w)  PROVE KernelInv'
<1>1. launch.kernel = "flash" /\ launch \in Launches  BY DEF FlashWarpMax, KernelInv
<1>2. PICK k : k = at[w * W][2]  OBVIOUS
<1>3. PICK S : S = Lanes(w)  OBVIOUS
<1>4. PICK a : a = w * W /\ a \in S  BY <1>3, LanesIn
<1>5. S \subseteq Threads  BY <1>1, <1>3, FlashBlock, LanesIn
<1>6. \A t \in S : at[t] = <<"warp", k>>  BY <1>2, <1>3 DEF FlashWarpMax
<1>7. PICK i : k \in 0..LastTile /\ i = 4 * k + 1 /\ \A t \in S : sync[t] = i
  <2>1. ASSUME NEW t \in S  PROVE Flashing(at[t], sync[t], 1)
    <3>1. t \in Threads /\ at[t][1] = "warp"  BY <1>5, <1>6
    <3>2. QED  BY <3>1, Standing DEF Stands
  <2>2. ASSUME NEW t \in S  PROVE k \in 0..LastTile /\ sync[t] = 4 * k + 1
    BY <1>6, <2>1 DEF Flashing
  <2>3. QED  BY <1>4, <2>2
<1>8. PICK n \in Nat : n = k /\ n <= LastTile /\ i = 4 * n + 1  BY <1>1, <1>7, FlashBlock
<1>9. AtStep(i, n, 1) /\ i \in Nat  BY <1>8, FlashStep
<1>10. PICK to, D, none : to = <<"block", k>> /\ D = {<<a, Cell("shared_max", w)>>} /\
            none = {}  OBVIOUS
<1>11. Footprint(S, none, D, to, 1)
  <2> DEFINE max == Shuffled(w, Largest).max
  <2> DEFINE v == Writes(w * W, "shared_max", {w}, LAMBDA j : max)
  <2> DEFINE g == [t \in Lanes(w) |-> [reg[t] EXCEPT !.max = max]]
  <2>1. Move(Lanes(w), {}, v, g, <<"block", at[w * W][2]>>, 1)  BY DEF FlashWarpMax
  <2>2. DOMAIN v = D  BY <1>4, <1>10 DEF Writes
  <2> HIDE DEF v, g
  <2>3. Move(S, none, v, g, to, 1)  BY <1>2, <1>3, <1>10, <2>1
  <2>4. QED  BY <2>2, <2>3, MoveLeaves
<1>12. CellsIn(D) = {Cell("shared_max", w)}  BY <1>10 DEF CellsIn
<1>13. \A t \in S : WriteCells(i, t) = Cells("shared_max", {v \in Warps : v * W = t})
  <2>1. \A t \in S : FlashWrites(i, t) = Cells("shared_max", {v \in Warps : v * W = t})
    BY <1>9 DEF AtStep, FlashStepWrites
  <2>2. QED  BY <1>1, <2>1, CellsOf
<1>14. Legal(S, i, none, D, to, 1)
  <2>1. ASSUME NEW t \in S  PROVE Stands(t, to, i + 1)
    <3>1. Flashing(to, i + 1, 2)  BY <1>1, <1>7, <1>8, <1>10 DEF Flashing
    <3>2. QED  BY <1>10, <3>1 DEF Stands
  <2>2. ASSUME NEW x \in D  PROVE x[1] \in Threads /\ x[2] \in WriteCells(i, x[1])
    <3>1. x[1] = a /\ x[2] = Cell("shared_max", w)  BY <1>10
    <3>2. w \in {v \in Warps : v * W = a}  BY <1>4
    <3>3. Cell("shared_max", w) \in WriteCells(i, a)  BY <1>4, <1>13, <3>2, CellIn
    <3>4. QED  BY <1>4, <1>5, <3>1, <3>3
  <2>3. ASSUME NEW t \in S  PROVE WriteCells(i, t) \subseteq CellsIn(D)
    <3>1. \A v \in Warps : v * W = t => v = w  BY <1>3, LanesIn
    <3>2. {v \in Warps : v * W = t} \subseteq {w}  BY <3>1
    <3>3. QED  BY <1>12, <1>13, <3>2 DEF Cells
  <2>4. S # {}  BY <1>4
  <2>5. QED  BY <1>5, <1>7, <1>9, <1>10, <2>1, <2>2, <2>3, <2>4 DEF Legal
<1>15. QED  BY <1>11, <1>14, LegalKeeps

(* Warp 0 reads the maximum of every warp, and thread 0 writes that of the tile. *)
LEMMA FlashBlockMaxKeeps ==
    ASSUME KernelInv, FlashBlockMax  PROVE KernelInv'
<1>1. launch.kernel = "flash" /\ launch \in Launches  BY DEF FlashBlockMax, KernelInv
<1>2. PICK k : k = at[0][2]  OBVIOUS
<1>3. PICK S : S = Lanes(0) /\ 0 \in S  BY WarpZero
<1>4. S \subseteq Threads  BY <1>1, <1>3, FlashBlock, WarpZero
<1>5. \A t \in S : at[t] = <<"block", k>>  BY <1>2, <1>3 DEF FlashBlockMax
<1>6. PICK i : k \in 0..LastTile /\ i = 4 * k + 2 /\ \A t \in S : sync[t] = i
  <2>1. ASSUME NEW t \in S  PROVE Flashing(at[t], sync[t], 2)
    <3>1. t \in Threads /\ at[t][1] = "block"  BY <1>4, <1>5
    <3>2. QED  BY <3>1, Standing DEF Stands
  <2>2. ASSUME NEW t \in S  PROVE k \in 0..LastTile /\ sync[t] = 4 * k + 2
    BY <1>5, <2>1 DEF Flashing
  <2>3. QED  BY <1>3, <2>2
<1>7. PICK n \in Nat : n = k /\ n <= LastTile /\ i = 4 * n + 2  BY <1>1, <1>6, FlashBlock
<1>8. AtStep(i, n, 2) /\ i \in Nat  BY <1>7, FlashStep
<1>9. PICK to, D, R : /\ to = <<"rescale", k>> /\ D = {<<0, Cell("m_tile", 0)>>}
                      /\ R = {<<v, Cell("shared_max", v)>> : v \in Warps}
  OBVIOUS
<1>10. Footprint(S, R, D, to, 1)
  <2> DEFINE max == Max({mem[Cell("shared_max", v)] : v \in Warps})
  <2> DEFINE w == Writes(0, "m_tile", {0}, LAMBDA j : max)
  <2> DEFINE g == [t \in Lanes(0) |-> [reg[t] EXCEPT !.max = max]]
  <2>1. Move(Lanes(0), {<<v, Cell("shared_max", v)>> : v \in Warps}, w, g, <<"rescale", at[0][2]>>, 1)
    BY DEF FlashBlockMax
  <2>2. DOMAIN w = D  BY <1>9 DEF Writes
  <2> HIDE DEF w, g
  <2>3. Move(S, R, w, g, to, 1)  BY <1>2, <1>3, <1>9, <2>1
  <2>4. QED  BY <2>2, <2>3, MoveLeaves
<1>11. CellsIn(D) = {Cell("m_tile", 0)}  BY <1>9 DEF CellsIn
<1>12. \A t \in S : WriteCells(i, t) = Cells("m_tile", {0} \cap {t})
  <2>1. \A t \in S : FlashWrites(i, t) = Cells("m_tile", {0} \cap {t})
    BY <1>8 DEF AtStep, FlashStepWrites
  <2>2. QED  BY <1>1, <2>1, CellsOf
<1>13. ASSUME NEW v \in Warps
       PROVE v \in Threads /\ Cell("shared_max", v) \in ReadCells(i, v) /\
               Cell("shared_max", v) \in Earlier(i)
  <2>1. v * W \in Threads  BY <1>1, FlashBlock, LanesIn
  <2>2. v \in Threads
    <3>1. T \in Nat \ {0} /\ W \in Nat \ {0}  BY BlockAssumption
    <3>2. v \in Nat
      <4>1. T \div W \in Nat  BY <3>1, DivisionIs
      <4>2. QED  BY <4>1 DEF Warps
    <3>3. v <= v * W  BY <3>1, <3>2
    <3>4. v * W \in 0..(T - 1)  BY <1>1, <2>1, FlashBlock
    <3>5. QED  BY <1>1, <3>1, <3>2, <3>3, <3>4, FlashBlock
  <2>3. Cell("shared_max", v) \in ReadCells(i, v)
    <3>1. FlashReads(i, v) = Cells("shared_max", {v} \cap Warps)
      BY <1>8 DEF AtStep, FlashStepReads
    <3>2. v \in {v} \cap Warps  OBVIOUS
    <3>3. QED  BY <1>1, <3>1, <3>2, CellsOf, CellIn
  <2>4. Cell("shared_max", v) \in Earlier(i)
    <3>1. PICK j \in 0..(i - 1) : j = 4 * n + 1  BY <1>7
    <3>2. PICK u \in Threads : u = v * W  BY <2>1
    <3>3. FlashWrites(j, u) = Cells("shared_max", {x \in Warps : x * W = u})
      <4>1. FlashWrites(j, u) = FlashStepWrites(n, 1, u)  BY <3>1, FlashStep DEF AtStep
      <4>2. QED  BY <4>1 DEF FlashStepWrites
    <3>4. v \in {x \in Warps : x * W = u}  BY <3>2
    <3>5. Cell("shared_max", v) \in WriteCells(j, u)  BY <1>1, <3>3, <3>4, CellsOf, CellIn
    <3>6. QED  BY <3>5, CellsBefore
  <2>5. QED  BY <2>2, <2>3, <2>4
<1>14. Legal(S, i, R, D, to, 1)
  <2>1. ASSUME NEW t \in S  PROVE Stands(t, to, i + 1)
    <3>1. Flashing(to, i + 1, 3)  BY <1>1, <1>6, <1>7, <1>9 DEF Flashing
    <3>2. QED  BY <1>9, <3>1 DEF Stands
  <2>2. ASSUME NEW x \in D  PROVE x[1] \in Threads /\ x[2] \in WriteCells(i, x[1])
    <3>1. x[1] = 0 /\ x[2] = Cell("m_tile", 0)  BY <1>9
    <3>2. 0 \in {0} \cap {0}  OBVIOUS
    <3>3. Cell("m_tile", 0) \in WriteCells(i, 0)  BY <1>3, <1>12, <3>2, CellIn
    <3>4. QED  BY <1>3, <1>4, <3>1, <3>3
  <2>3. ASSUME NEW t \in S  PROVE WriteCells(i, t) \subseteq CellsIn(D)
    <3>1. {0} \cap {t} \subseteq {0}  OBVIOUS
    <3>2. QED  BY <1>11, <1>12, <3>1 DEF Cells
  <2>4. ASSUME NEW x \in R
        PROVE x[1] \in Threads /\ x[2] \in ReadCells(i, x[1]) /\ x[2] \in Earlier(i) \cup CellsIn(D)
    <3>1. PICK v \in Warps : x = <<v, Cell("shared_max", v)>>  BY <1>9
    <3>2. x[1] = v /\ x[2] = Cell("shared_max", v)  BY <3>1
    <3>3. QED  BY <1>13, <3>2
  <2>5. S # {}  BY <1>3
  <2>6. QED  BY <1>4, <1>6, <1>8, <2>1, <2>2, <2>3, <2>4, <2>5 DEF Legal
<1>15. QED  BY <1>10, <1>14, LegalKeeps

(* The lanes of a key row are at least one and at most T.                  *)
LEMMA LanesInt == ASSUME launch \in Launches, launch.kernel = "bwd_kv"
                  PROVE  NumLanes \in Nat \ {0} /\ NumLanes <= T
<1>1. launch.hd \in Nat \ {0} /\ T \in Nat \ {0}  BY ShapeIs, BlockAssumption DEF Shaped
<1>2. PICK h \in Nat \ {0} : h = launch.hd  BY <1>1
<1>3. {h, T} \in SUBSET Nat /\ {h, T} # {}  BY <1>1
<1>4. Min({h, T}) \in {h, T} /\ \A x \in {h, T} : Min({h, T}) <= x  BY <1>3, MinIsLeast
<1>5. NumLanes = Min({h, T})  BY <1>2 DEF NumLanes
<1>6. QED  BY <1>1, <1>4, <1>5

(* A thread's part of the dot product is its own cell.                     *)
LEMMA RowPartialKeeps ==
    ASSUME KernelInv, NEW t \in Threads, RowPartial(t)  PROVE KernelInv'
<1>1. PICK i : i = sync[t]  OBVIOUS
<1>2. PICK R, C, to : R = {} /\ C = Cells("partial", {t}) /\ to = <<"dot", 0>>  OBVIOUS
<1>3. launch.kernel = "bwd_row" /\ i = 0 /\ t \in Nat /\ launch \in Launches /\ 0 \in Threads
  <2>1. at[t] = <<"partial", 0>>  BY DEF RowPartial
  <2>2. QED  BY <1>1, <2>1, Standing DEF Stands
<1>4. Moves(t, R, C, to, 1)
  <2> DEFINE r == {}
  <2> DEFINE w == Writes(t, "partial", {t}, LAMBDA k : Own(t, launch.nk))
  <2> DEFINE g == Nothing
  <2>1. Move({t}, r, w, g, to, 1)  BY <1>2, <1>3 DEF RowPartial, Alone
  <2>2. DOMAIN w = Touches(t, C)  BY <1>2, TouchesCells DEF Writes
  <2>3. r = Touches(t, R)  BY <1>2, TouchesCells, TouchesNone
  <2> HIDE DEF r, w, g
  <2>4. QED  BY <2>1, <2>2, <2>3 DEF Moves
<1>5. Keeps(t, i, R, C, to, 1)
  <2>1. WriteCells(i, t) = C /\ R \subseteq ReadCells(i, t)
    <3>1. RowWrites(i, t) = C /\ R \subseteq RowReads(i, t)
      BY <1>2, <1>3 DEF RowWrites, RowReads
    <3>2. QED  BY <1>3, <3>1, CellsOf
  <2>2. R \subseteq Earlier(i) \cup C  BY <1>2
  <2>3. Stands(t, to, i + 1)  BY <1>2, <1>3 DEF Stands
  <2>4. QED  BY <1>1, <2>1, <2>2, <2>3 DEF Keeps
<1>6. QED  BY <1>4, <1>5, AloneKeeps

(* Thread 0 adds up the parts, written before the barrier.                 *)
LEMMA RowDotKeeps ==
    ASSUME KernelInv, NEW t \in Threads, RowDot(t)  PROVE KernelInv'
<1>1. PICK i : i = sync[t]  OBVIOUS
<1>2. PICK R, C, to : /\ R = Cells("partial", IF t = 0 THEN Threads ELSE {})
                      /\ C = Cells("partial", {0} \cap {t})
                      /\ to = <<"gs", 0>>
  OBVIOUS
<1>3. launch.kernel = "bwd_row" /\ i = 1 /\ t \in Nat /\ launch \in Launches /\ 0 \in Threads
  <2>1. at[t] = <<"dot", 0>>  BY DEF RowDot
  <2>2. QED  BY <1>1, <2>1, Standing DEF Stands
<1>4. Moves(t, R, C, to, 1)
  <2> DEFINE r == Reads(t, "partial", IF t = 0 THEN Threads ELSE {})
  <2> DEFINE w == Writes(t, "partial", {0} \cap {t},
            LAMBDA k : Gather(Threads, LAMBDA u : mem[Cell("partial", u)]))
  <2> DEFINE g == Nothing
  <2>1. Move({t}, r, w, g, to, 1)  BY <1>2, <1>3 DEF RowDot, Alone
  <2>2. DOMAIN w = Touches(t, C)  BY <1>2, TouchesCells DEF Writes
  <2>3. r = Touches(t, R)  BY <1>2, TouchesCells, TouchesNone
  <2> HIDE DEF r, w, g
  <2>4. QED  BY <2>1, <2>2, <2>3 DEF Moves
<1>5. Keeps(t, i, R, C, to, 1)
  <2>1. WriteCells(i, t) = C /\ R \subseteq ReadCells(i, t)
    <3>1. RowWrites(i, t) = C /\ R \subseteq RowReads(i, t)
      BY <1>2, <1>3 DEF RowWrites, RowReads, Cells
    <3>2. QED  BY <1>3, <3>1, CellsOf
  <2>2. R \subseteq Earlier(i) \cup C
    <3>1. ASSUME NEW u \in Threads  PROVE Cell("partial", u) \in Earlier(i)
      <4>1. RowWrites(0, u) = Cells("partial", {u}) /\ u \in {u}  BY DEF RowWrites
      <4>2. Cell("partial", u) \in WriteCells(0, u)  BY <1>3, <4>1, CellsOf, CellIn
      <4>3. 0 \in 0..(i - 1)  BY <1>3
      <4>4. QED  BY <4>2, <4>3, CellsBefore
    <3>2. QED  BY <1>2, <3>1 DEF Cells
  <2>3. Stands(t, to, i + 1)  BY <1>2, <1>3 DEF Stands
  <2>4. QED  BY <1>1, <2>1, <2>2, <2>3 DEF Keeps
<1>6. QED  BY <1>4, <1>5, AloneKeeps

(* A thread writes the coefficients of its own columns.                    *)
LEMMA RowGsKeeps ==
    ASSUME KernelInv, NEW t \in Threads, RowGs(t)  PROVE KernelInv'
<1>1. PICK i : i = sync[t]  OBVIOUS
<1>2. PICK R, C, to : /\ R = Cells("partial", {0})
                      /\ C = Cells("gs", Column(t, launch.nk, T))
                      /\ to = <<"gq", 0>>
  OBVIOUS
<1>3. launch.kernel = "bwd_row" /\ i = 2 /\ t \in Nat /\ launch \in Launches /\ 0 \in Threads
  <2>1. at[t] = <<"gs", 0>>  BY DEF RowGs
  <2>2. QED  BY <1>1, <2>1, Standing DEF Stands
<1>4. Moves(t, R, C, to, 1)
  <2> DEFINE r == Reads(t, "partial", {0})
  <2> DEFINE w == Writes(t, "gs", Column(t, launch.nk, T),
            LAMBDA j : Coefficient(j, mem[Cell("partial", 0)]))
  <2> DEFINE g == Nothing
  <2>1. Move({t}, r, w, g, to, 1)  BY <1>2, <1>3 DEF RowGs, Alone
  <2>2. DOMAIN w = Touches(t, C)  BY <1>2, TouchesCells DEF Writes
  <2>3. r = Touches(t, R)  BY <1>2, TouchesCells, TouchesNone
  <2> HIDE DEF r, w, g
  <2>4. QED  BY <2>1, <2>2, <2>3 DEF Moves
<1>5. Keeps(t, i, R, C, to, 1)
  <2>1. WriteCells(i, t) = C /\ R \subseteq ReadCells(i, t)
    <3>1. RowWrites(i, t) = C /\ R \subseteq RowReads(i, t)
      BY <1>2, <1>3 DEF RowWrites, RowReads
    <3>2. QED  BY <1>3, <3>1, CellsOf
  <2>2. R \subseteq Earlier(i) \cup C
    <3>1. RowWrites(0, 0) = Cells("partial", {0}) /\ 0 \in {0}  BY DEF RowWrites
    <3>2. Cell("partial", 0) \in WriteCells(0, 0)  BY <1>3, <3>1, CellsOf, CellIn
    <3>3. 0 \in 0..(i - 1)  BY <1>3
    <3>4. Cell("partial", 0) \in Earlier(i)  BY <1>3, <3>2, <3>3, CellsBefore
    <3>5. QED  BY <1>2, <3>4 DEF Cells
  <2>3. Stands(t, to, i + 1)  BY <1>2, <1>3 DEF Stands
  <2>4. QED  BY <1>1, <2>1, <2>2, <2>3 DEF Keeps
<1>6. QED  BY <1>4, <1>5, AloneKeeps

(* Every thread reads every coefficient, written before the barrier.       *)
LEMMA RowGradQKeeps ==
    ASSUME KernelInv, NEW t \in Threads, RowGradQ(t)  PROVE KernelInv'
<1>1. PICK i : i = sync[t]  OBVIOUS
<1>2. PICK R, C, to : /\ R = Cells("gs", 0..(launch.nk - 1))
                      /\ C = Cells("out", Column(t, launch.hd, T))
                      /\ to = Done
  OBVIOUS
<1>3. launch.kernel = "bwd_row" /\ i = 3 /\ t \in Nat /\ launch \in Launches /\ 0 \in Threads
  <2>1. at[t] = <<"gq", 0>>  BY DEF RowGradQ
  <2>2. QED  BY <1>1, <2>1, Standing DEF Stands
<1>4. Moves(t, R, C, to, 0)
  <2> DEFINE r == Reads(t, "gs", 0..(launch.nk - 1))
  <2> DEFINE w == Writes(t, "out", Column(t, launch.hd, T),
                       LAMBDA d : Gather(0..(launch.nk - 1), LAMBDA j : GradQTerm(mem[Cell("gs", j)], j)))
  <2> DEFINE g == Nothing
  <2>1. Move({t}, r, w, g, to, 0)  BY <1>2, <1>3 DEF RowGradQ, Alone
  <2>2. DOMAIN w = Touches(t, C)  BY <1>2, TouchesCells DEF Writes
  <2>3. r = Touches(t, R)  BY <1>2, TouchesCells, TouchesNone
  <2> HIDE DEF r, w, g
  <2>4. QED  BY <2>1, <2>2, <2>3 DEF Moves
<1>5. Keeps(t, i, R, C, to, 0)
  <2>1. WriteCells(i, t) = C /\ R \subseteq ReadCells(i, t)
    <3>1. RowWrites(i, t) = C /\ R \subseteq RowReads(i, t)
      BY <1>2, <1>3 DEF RowWrites, RowReads
    <3>2. QED  BY <1>3, <3>1, CellsOf
  <2>2. R \subseteq Earlier(i) \cup C
    <3>1. launch.nk \in Nat /\ T \in Nat \ {0} /\ Threads = 0..(T - 1)
      BY <1>3, ShapeIs, BlockIsT, BlockStarts DEF Shaped
    <3>2. ASSUME NEW j \in 0..(launch.nk - 1)  PROVE Cell("gs", j) \in Earlier(i)
      <4>1. PICK u \in Threads : u = j % T /\ j \in Column(u, launch.nk, T)
        BY <3>1, SharedOut
      <4>2. RowWrites(2, u) = Cells("gs", Column(u, launch.nk, T))  BY DEF RowWrites
      <4>3. Cell("gs", j) \in WriteCells(2, u)  BY <1>3, <4>1, <4>2, CellsOf, CellIn
      <4>4. 2 \in 0..(i - 1)  BY <1>3
      <4>5. QED  BY <4>3, <4>4, CellsBefore
    <3>3. QED  BY <1>2, <3>2 DEF Cells
  <2>3. Stands(t, to, i + 0)  BY <1>2, <1>3 DEF Stands, Done
  <2>4. QED  BY <1>1, <2>1, <2>2, <2>3 DEF Keeps
<1>6. QED  BY <1>4, <1>5, AloneKeeps

(* A thread's chunk of queries is its own cell.                            *)
LEMMA KvPartialKeeps ==
    ASSUME KernelInv, NEW t \in Threads, KvPartial(t)  PROVE KernelInv'
<1>1. PICK i : i = sync[t]  OBVIOUS
<1>2. PICK R, C, to : /\ R = {}
                      /\ C = Cells("shared_acc", {t})
                      /\ to = <<"reduce", 0>>
  OBVIOUS
<1>3. launch.kernel = "bwd_kv" /\ i = 0 /\ t \in Nat /\ launch \in Launches /\ 0 \in Threads
  <2>1. at[t] = <<"chunk", 0>>  BY DEF KvPartial
  <2>2. QED  BY <1>1, <2>1, Standing DEF Stands
<1>4. Moves(t, R, C, to, 1)
  <2> DEFINE r == {}
  <2> DEFINE w == Writes(t, "shared_acc", {t},
            LAMBDA k : Ascending(Chunk(t \div NumLanes) \ launch.hidden))
  <2> DEFINE g == Nothing
  <2>1. Move({t}, r, w, g, to, 1)  BY <1>2, <1>3 DEF KvPartial, Alone
  <2>2. DOMAIN w = Touches(t, C)  BY <1>2, TouchesCells DEF Writes
  <2>3. r = Touches(t, R)  BY <1>2, TouchesCells, TouchesNone
  <2> HIDE DEF r, w, g
  <2>4. QED  BY <2>1, <2>2, <2>3 DEF Moves
<1>5. Keeps(t, i, R, C, to, 1)
  <2>1. WriteCells(i, t) = C /\ R \subseteq ReadCells(i, t)
    <3>1. KvWrites(i, t) = C /\ R \subseteq KvReads(i, t)
      BY <1>2, <1>3 DEF KvWrites, KvReads
    <3>2. QED  BY <1>3, <3>1, CellsOf
  <2>2. R \subseteq Earlier(i) \cup C  BY <1>2
  <2>3. Stands(t, to, i + 1)  BY <1>2, <1>3 DEF Stands
  <2>4. QED  BY <1>1, <2>1, <2>2, <2>3 DEF Keeps
<1>6. QED  BY <1>4, <1>5, AloneKeeps

(* The thread of chunk 0 adds up the chunks of its lane.                   *)
LEMMA KvReduceFirstKeeps ==
    ASSUME KernelInv, NEW t \in Threads, KvReduce(t), t < NumLanes  PROVE KernelInv'
<1>1. PICK i : i = sync[t]  OBVIOUS
<1>2. PICK R, C, to : /\ R = Cells("shared_acc", Lane(t))
                      /\ C = Cells("shared_acc", {t}) \cup Cells("out", {t})
                      /\ to = Done
  OBVIOUS
<1>3. launch.kernel = "bwd_kv" /\ i = 1 /\ t \in Nat /\ launch \in Launches /\ 0 \in Threads
  <2>1. at[t] = <<"reduce", 0>>  BY DEF KvReduce
  <2>2. QED  BY <1>1, <2>1, Standing DEF Stands
<1>4. Moves(t, R, C, to, 0)
  <2> DEFINE r == Reads(t, "shared_acc", Lane(t))
  <2> DEFINE acc == Gather(Lane(t), LAMBDA u : mem[Cell("shared_acc", u)])
  <2> DEFINE wa == Writes(t, "shared_acc", {t}, LAMBDA k : acc)
  <2> DEFINE wo == Writes(t, "out", {t}, LAMBDA d : acc)
  <2> DEFINE w == Merge(wa, wo)
  <2> DEFINE g == Nothing
  <2>1. Move({t}, r, w, g, to, 0)  BY <1>2, <1>3, LanesInt DEF KvReduce, Alone, Lane
  <2>2. DOMAIN w = Touches(t, C)
    <3>1. PICK A, B : A = Cells("shared_acc", {t}) /\ B = Cells("out", {t})  OBVIOUS
    <3>2. DOMAIN wa = Touches(t, A)  BY <3>1, TouchesCells DEF Writes
    <3>3. DOMAIN wo = Touches(t, B)  BY <3>1, TouchesCells DEF Writes
    <3>4. C = A \cup B  BY <1>2, <3>1
    <3> HIDE DEF wa, wo
    <3>5. DOMAIN w = DOMAIN wa \cup DOMAIN wo  BY TouchesBoth
    <3>6. Touches(t, C) = Touches(t, A) \cup Touches(t, B)  BY <3>4, TouchesBoth
    <3>7. QED  BY <3>2, <3>3, <3>5, <3>6
  <2>3. r = Touches(t, R)  BY <1>2, TouchesCells, TouchesNone
  <2> HIDE DEF r, w, g
  <2>4. QED  BY <2>1, <2>2, <2>3 DEF Moves
<1>5. Keeps(t, i, R, C, to, 0)
  <2>1. WriteCells(i, t) = C /\ R \subseteq ReadCells(i, t)
    <3>1. KvWrites(i, t) = C /\ R \subseteq KvReads(i, t)
      BY <1>2, <1>3 DEF KvWrites, KvReads
    <3>2. QED  BY <1>3, <3>1, CellsOf
  <2>2. R \subseteq Earlier(i) \cup C
    <3>1. ASSUME NEW u \in Threads  PROVE Cell("shared_acc", u) \in Earlier(i)
      <4>1. KvWrites(0, u) = Cells("shared_acc", {u}) /\ u \in {u}  BY DEF KvWrites
      <4>2. Cell("shared_acc", u) \in WriteCells(0, u)  BY <1>3, <4>1, CellsOf, CellIn
      <4>3. 0 \in 0..(i - 1)  BY <1>3
      <4>4. QED  BY <4>2, <4>3, CellsBefore
    <3>2. QED  BY <1>2, <3>1 DEF Cells, Lane
  <2>3. Stands(t, to, i + 0)  BY <1>2, <1>3 DEF Stands, Done
  <2>4. QED  BY <1>1, <2>1, <2>2, <2>3 DEF Keeps
<1>6. QED  BY <1>4, <1>5, AloneKeeps

(* The threads of the other chunks are done.                               *)
LEMMA KvReduceRestKeeps ==
    ASSUME KernelInv, NEW t \in Threads, KvReduce(t), ~(t < NumLanes)  PROVE KernelInv'
<1>1. PICK i : i = sync[t]  OBVIOUS
<1>2. PICK R, C, to : R = {} /\ C = {} /\ to = Done  OBVIOUS
<1>3. launch.kernel = "bwd_kv" /\ i = 1 /\ t \in Nat /\ launch \in Launches /\ 0 \in Threads
  <2>1. at[t] = <<"reduce", 0>>  BY DEF KvReduce
  <2>2. QED  BY <1>1, <2>1, Standing DEF Stands
<1>4. Moves(t, R, C, to, 0)
  <2> DEFINE r == {}
  <2> DEFINE w == Nothing
  <2> DEFINE g == Nothing
  <2>1. Move({t}, r, w, g, to, 0)  BY <1>2, <1>3 DEF KvReduce, Alone
  <2>2. DOMAIN w = Touches(t, C)  BY <1>2, TouchesNone
  <2>3. r = Touches(t, R)  BY <1>2, TouchesCells, TouchesNone
  <2> HIDE DEF r, w, g
  <2>4. QED  BY <2>1, <2>2, <2>3 DEF Moves
<1>5. Keeps(t, i, R, C, to, 0)
  <2>1. Stands(t, to, i + 0)  BY <1>2 DEF Stands, Done
  <2>2. QED  BY <1>1, <1>2, <2>1 DEF Keeps
<1>6. QED  BY <1>4, <1>5, AloneKeeps

(* The end of the key row, for every thread.                               *)
LEMMA KvReduceKeeps ==
    ASSUME KernelInv, NEW t \in Threads, KvReduce(t)  PROVE KernelInv'
BY KvReduceFirstKeeps, KvReduceRestKeeps

(* A thread fills its own rows of the table.                               *)
LEMMA RmsTableKeeps ==
    ASSUME KernelInv, NEW t \in Threads, RmsTable(t)  PROVE KernelInv'
<1>1. PICK i : i = sync[t]  OBVIOUS
<1>2. PICK R, C, to : /\ R = {}
                      /\ C = Cells("inv_rms", Column(t, launch.rows, BlockDim))
                      /\ to = <<"gradx", 0>>
  OBVIOUS
<1>3. launch.kernel = "rmsnorm" /\ i = 0 /\ t \in Nat /\ launch \in Launches /\ 0 \in Threads
  <2>1. at[t] = <<"table", 0>>  BY DEF RmsTable
  <2>2. QED  BY <1>1, <2>1, Standing DEF Stands
<1>4. Moves(t, R, C, to, 1)
  <2> DEFINE r == {}
  <2> DEFINE w == Writes(t, "inv_rms", Column(t, launch.rows, BlockDim), LAMBDA k : k)
  <2> DEFINE g == Nothing
  <2>1. Move({t}, r, w, g, to, 1)  BY <1>2, <1>3 DEF RmsTable, Alone
  <2>2. DOMAIN w = Touches(t, C)  BY <1>2, TouchesCells DEF Writes
  <2>3. r = Touches(t, R)  BY <1>2, TouchesCells, TouchesNone
  <2> HIDE DEF r, w, g
  <2>4. QED  BY <2>1, <2>2, <2>3 DEF Moves
<1>5. Keeps(t, i, R, C, to, 1)
  <2>1. WriteCells(i, t) = C /\ R \subseteq ReadCells(i, t)
    <3>1. RmsWrites(i, t) = C /\ R \subseteq RmsReads(i, t)
      BY <1>2, <1>3 DEF RmsWrites, RmsReads
    <3>2. QED  BY <1>3, <3>1, CellsOf
  <2>2. R \subseteq Earlier(i) \cup C  BY <1>2
  <2>3. Stands(t, to, i + 1)  BY <1>2, <1>3 DEF Stands
  <2>4. QED  BY <1>1, <2>1, <2>2, <2>3 DEF Keeps
<1>6. QED  BY <1>4, <1>5, AloneKeeps

(* A thread reads the rows of the table it wrote.                          *)
LEMMA RmsGradXKeeps ==
    ASSUME KernelInv, NEW t \in Threads, RmsGradX(t)  PROVE KernelInv'
<1>1. PICK i : i = sync[t]  OBVIOUS
<1>2. PICK R, C, to : /\ R = Cells("inv_rms", Column(t, launch.rows, BlockDim))
                      /\ C = Cells("gx", Column(t, launch.rows, BlockDim))
                      /\ to = <<"gradw", 0>>
  OBVIOUS
<1>3. launch.kernel = "rmsnorm" /\ i = 1 /\ t \in Nat /\ launch \in Launches /\ 0 \in Threads
  <2>1. at[t] = <<"gradx", 0>>  BY DEF RmsGradX
  <2>2. QED  BY <1>1, <2>1, Standing DEF Stands
<1>4. Moves(t, R, C, to, 1)
  <2> DEFINE r == Reads(t, "inv_rms", Column(t, launch.rows, BlockDim))
  <2> DEFINE w == Writes(t, "gx", Column(t, launch.rows, BlockDim),
            LAMBDA k : <<mem[Cell("inv_rms", k)]>>)
  <2> DEFINE g == Nothing
  <2>1. Move({t}, r, w, g, to, 1)  BY <1>2, <1>3 DEF RmsGradX, Alone
  <2>2. DOMAIN w = Touches(t, C)  BY <1>2, TouchesCells DEF Writes
  <2>3. r = Touches(t, R)  BY <1>2, TouchesCells, TouchesNone
  <2> HIDE DEF r, w, g
  <2>4. QED  BY <2>1, <2>2, <2>3 DEF Moves
<1>5. Keeps(t, i, R, C, to, 1)
  <2>1. WriteCells(i, t) = C /\ R \subseteq ReadCells(i, t)
    <3>1. RmsWrites(i, t) = C /\ R \subseteq RmsReads(i, t)
      BY <1>2, <1>3 DEF RmsWrites, RmsReads
    <3>2. QED  BY <1>3, <3>1, CellsOf
  <2>2. R \subseteq Earlier(i) \cup C
    <3>1. RmsWrites(0, t) = R  BY <1>2 DEF RmsWrites
    <3>2. WriteCells(0, t) = R  BY <1>3, <3>1, CellsOf
    <3>3. 0 \in 0..(i - 1)  BY <1>3
    <3>4. QED  BY <3>2, <3>3, CellsBefore
  <2>3. Stands(t, to, i + 1)  BY <1>2, <1>3 DEF Stands
  <2>4. QED  BY <1>1, <2>1, <2>2, <2>3 DEF Keeps
<1>6. QED  BY <1>4, <1>5, AloneKeeps

(* A thread reads the whole table, written two barriers ago.               *)
LEMMA RmsGradWKeeps ==
    ASSUME KernelInv, NEW t \in Threads, RmsGradW(t)  PROVE KernelInv'
<1>1. PICK i : i = sync[t]  OBVIOUS
<1>2. PICK R, C, to : /\ R = Cells("inv_rms", 0..(launch.rows - 1))
                      /\ C = Cells("out", Column(t, launch.cols, BlockDim))
                      /\ to = Done
  OBVIOUS
<1>3. launch.kernel = "rmsnorm" /\ i = 2 /\ t \in Nat /\ launch \in Launches /\ 0 \in Threads
  <2>1. at[t] = <<"gradw", 0>>  BY DEF RmsGradW
  <2>2. QED  BY <1>1, <2>1, Standing DEF Stands
<1>4. Moves(t, R, C, to, 0)
  <2> DEFINE r == Reads(t, "inv_rms", 0..(launch.rows - 1))
  <2> DEFINE w == Writes(t, "out", Column(t, launch.cols, BlockDim),
                       LAMBDA j : Gather(0..(launch.rows - 1), LAMBDA k : <<mem[Cell("inv_rms", k)]>>))
  <2> DEFINE g == Nothing
  <2>1. Move({t}, r, w, g, to, 0)  BY <1>2, <1>3 DEF RmsGradW, Alone
  <2>2. DOMAIN w = Touches(t, C)  BY <1>2, TouchesCells DEF Writes
  <2>3. r = Touches(t, R)  BY <1>2, TouchesCells, TouchesNone
  <2> HIDE DEF r, w, g
  <2>4. QED  BY <2>1, <2>2, <2>3 DEF Moves
<1>5. Keeps(t, i, R, C, to, 0)
  <2>1. WriteCells(i, t) = C /\ R \subseteq ReadCells(i, t)
    <3>1. RmsWrites(i, t) = C /\ R \subseteq RmsReads(i, t)
      BY <1>2, <1>3 DEF RmsWrites, RmsReads
    <3>2. QED  BY <1>3, <3>1, CellsOf
  <2>2. R \subseteq Earlier(i) \cup C
    <3>1. launch.rows \in Nat /\ BlockDim \in Nat \ {0} /\ Threads = 0..(BlockDim - 1)
      BY <1>3, ShapeIs, BlockIs DEF Shaped, Threads
    <3>2. ASSUME NEW j \in 0..(launch.rows - 1)  PROVE Cell("inv_rms", j) \in Earlier(i)
      <4>1. PICK u \in Threads : u = j % BlockDim /\ j \in Column(u, launch.rows, BlockDim)
        BY <3>1, SharedOut
      <4>2. RmsWrites(0, u) = Cells("inv_rms", Column(u, launch.rows, BlockDim))
        BY DEF RmsWrites
      <4>3. Cell("inv_rms", j) \in WriteCells(0, u)  BY <1>3, <4>1, <4>2, CellsOf, CellIn
      <4>4. 0 \in 0..(i - 1)  BY <1>3
      <4>5. QED  BY <4>3, <4>4, CellsBefore
    <3>3. QED  BY <1>2, <3>2 DEF Cells
  <2>3. Stands(t, to, i + 0)  BY <1>2, <1>3 DEF Stands, Done
  <2>4. QED  BY <1>1, <2>1, <2>2, <2>3 DEF Keeps
<1>6. QED  BY <1>4, <1>5, AloneKeeps

(* A thread writes the rows it owns.                                       *)
LEMMA GridOutKeeps ==
    ASSUME KernelInv, NEW t \in Threads, GridRows(t), launch.op # "loss"  PROVE KernelInv'
<1>1. PICK i : i = sync[t]  OBVIOUS
<1>2. PICK R, C, to : /\ R = {}
                      /\ C = Cells("out", Column(t, launch.rows, BlockDim))
                      /\ to = Done
  OBVIOUS
<1>3. launch.kernel = "rows" /\ i = 0 /\ t \in Nat /\ launch \in Launches /\ 0 \in Threads
  <2>1. at[t] = <<"rows", 0>>  BY DEF GridRows
  <2>2. QED  BY <1>1, <2>1, Standing DEF Stands
<1>4. Moves(t, R, C, to, 0)
  <2> DEFINE r == {}
  <2> DEFINE w == Writes(t, "out", Column(t, launch.rows, BlockDim), RowValue)
  <2> DEFINE g == Nothing
  <2>1. Move({t}, r, w, g, to, 0)  BY <1>2, <1>3 DEF GridRows, Alone
  <2>2. DOMAIN w = Touches(t, C)  BY <1>2, TouchesCells DEF Writes
  <2>3. r = Touches(t, R)  BY <1>2, TouchesCells, TouchesNone
  <2> HIDE DEF r, w, g
  <2>4. QED  BY <2>1, <2>2, <2>3 DEF Moves
<1>5. Keeps(t, i, R, C, to, 0)
  <2>1. WriteCells(i, t) = C /\ R \subseteq ReadCells(i, t)
    <3>1. GridWrites(i, t) = C /\ R \subseteq GridReads(i, t)
      BY <1>2, <1>3 DEF GridWrites, GridReads
    <3>2. QED  BY <1>3, <3>1, CellsOf
  <2>2. R \subseteq Earlier(i) \cup C  BY <1>2
  <2>3. Stands(t, to, i + 0)  BY <1>2, <1>3 DEF Stands, Done
  <2>4. QED  BY <1>1, <2>1, <2>2, <2>3 DEF Keeps
<1>6. QED  BY <1>4, <1>5, AloneKeeps

(* A thread writes the losses of the rows it owns.                         *)
LEMMA GridLossKeeps ==
    ASSUME KernelInv, NEW t \in Threads, GridRows(t), launch.op = "loss"  PROVE KernelInv'
<1>1. PICK i : i = sync[t]  OBVIOUS
<1>2. PICK R, C, to : /\ R = {}
                      /\ C = Cells("row_loss", Column(t, launch.rows, BlockDim))
                      /\ to = IF t = 0 THEN <<"mean", 0>> ELSE Done
  OBVIOUS
<1>3. launch.kernel = "rows" /\ i = 0 /\ t \in Nat /\ launch \in Launches /\ 0 \in Threads
  <2>1. at[t] = <<"rows", 0>>  BY DEF GridRows
  <2>2. QED  BY <1>1, <2>1, Standing DEF Stands
<1>4. Moves(t, R, C, to, 1)
  <2> DEFINE r == {}
  <2> DEFINE w == Writes(t, "row_loss", Column(t, launch.rows, BlockDim), LossRow)
  <2> DEFINE g == Nothing
  <2>1. Move({t}, r, w, g, to, 1)  BY <1>2, <1>3 DEF GridRows, Alone
  <2>2. DOMAIN w = Touches(t, C)  BY <1>2, TouchesCells DEF Writes
  <2>3. r = Touches(t, R)  BY <1>2, TouchesCells, TouchesNone
  <2> HIDE DEF r, w, g
  <2>4. QED  BY <2>1, <2>2, <2>3 DEF Moves
<1>5. Keeps(t, i, R, C, to, 1)
  <2>1. WriteCells(i, t) = C /\ R \subseteq ReadCells(i, t)
    <3>1. GridWrites(i, t) = C /\ R \subseteq GridReads(i, t)
      BY <1>2, <1>3 DEF GridWrites, GridReads
    <3>2. QED  BY <1>3, <3>1, CellsOf
  <2>2. R \subseteq Earlier(i) \cup C  BY <1>2
  <2>3. Stands(t, to, i + 1)  BY <1>2, <1>3 DEF Stands, Done
  <2>4. QED  BY <1>1, <2>1, <2>2, <2>3 DEF Keeps
<1>6. QED  BY <1>4, <1>5, AloneKeeps

(* The row kernels, for every operation.                                   *)
LEMMA GridRowsKeeps ==
    ASSUME KernelInv, NEW t \in Threads, GridRows(t)  PROVE KernelInv'
BY GridOutKeeps, GridLossKeeps

(* The mean is the next kernel, and reads the losses of every row.         *)
LEMMA MeanLossKeeps ==
    ASSUME KernelInv, NEW t \in Threads, MeanLoss(t)  PROVE KernelInv'
<1>1. PICK i : i = sync[t]  OBVIOUS
<1>2. PICK R, C, to : /\ R = Cells("row_loss", 0..(launch.rows - 1))
                      /\ C = Cells("out", {0})
                      /\ to = Done
  OBVIOUS
<1>3. launch.kernel = "rows" /\ i = 1 /\ t = 0 /\ launch.op = "loss" /\ t \in Nat /\
      launch \in Launches /\ 0 \in Threads
  <2>1. at[t] = <<"mean", 0>>  BY DEF MeanLoss
  <2>2. QED  BY <1>1, <2>1, Standing DEF Stands
<1>4. Moves(t, R, C, to, 0)
  <2> DEFINE r == Reads(t, "row_loss", 0..(launch.rows - 1))
  <2> DEFINE w == Writes(t, "out", {0},
            LAMBDA k : [j \in 1..launch.rows |-> mem[Cell("row_loss", j - 1)]])
  <2> DEFINE g == Nothing
  <2>1. Move({t}, r, w, g, to, 0)  BY <1>2, <1>3 DEF MeanLoss, Alone
  <2>2. DOMAIN w = Touches(t, C)  BY <1>2, TouchesCells DEF Writes
  <2>3. r = Touches(t, R)  BY <1>2, TouchesCells, TouchesNone
  <2> HIDE DEF r, w, g
  <2>4. QED  BY <2>1, <2>2, <2>3 DEF Moves
<1>5. Keeps(t, i, R, C, to, 0)
  <2>1. WriteCells(i, t) = C /\ R \subseteq ReadCells(i, t)
    <3>1. GridWrites(i, t) = C /\ R \subseteq GridReads(i, t)
      BY <1>2, <1>3 DEF GridWrites, GridReads
    <3>2. QED  BY <1>3, <3>1, CellsOf
  <2>2. R \subseteq Earlier(i) \cup C
    <3>1. launch.rows \in Nat /\ BlockDim \in Nat \ {0} /\ Threads = 0..(BlockDim - 1)
      BY <1>3, ShapeIs, BlockIs DEF Shaped, Threads
    <3>2. ASSUME NEW j \in 0..(launch.rows - 1)  PROVE Cell("row_loss", j) \in Earlier(i)
      <4>1. PICK u \in Threads : u = j % BlockDim /\ j \in Column(u, launch.rows, BlockDim)
        BY <3>1, SharedOut
      <4>2. GridWrites(0, u) = Cells("row_loss", Column(u, launch.rows, BlockDim))
        BY <1>3 DEF GridWrites
      <4>3. Cell("row_loss", j) \in WriteCells(0, u)  BY <1>3, <4>1, <4>2, CellsOf, CellIn
      <4>4. 0 \in 0..(i - 1)  BY <1>3
      <4>5. QED  BY <4>3, <4>4, CellsBefore
    <3>3. QED  BY <1>2, <3>2 DEF Cells
  <2>3. Stands(t, to, i + 0)  BY <1>2, <1>3 DEF Stands, Done
  <2>4. QED  BY <1>1, <2>1, <2>2, <2>3 DEF Keeps
<1>6. QED  BY <1>4, <1>5, AloneKeeps

(* A thread updates the elements it owns.                                  *)
LEMMA GridUpdateKeeps ==
    ASSUME KernelInv, NEW t \in Threads, GridUpdate(t)  PROVE KernelInv'
<1>1. PICK i : i = sync[t]  OBVIOUS
<1>2. PICK R, C, to : /\ R = Cells("out", Taken(t))
                      /\ C = Cells("out", Taken(t))
                      /\ to = Done
  OBVIOUS
<1>3. launch.kernel = "update" /\ i = 0 /\ t \in Nat /\ launch \in Launches /\ 0 \in Threads
  <2>1. at[t] = <<"update", 0>>  BY DEF GridUpdate
  <2>2. QED  BY <1>1, <2>1, Standing DEF Stands
<1>4. Moves(t, R, C, to, 0)
  <2> DEFINE r == Reads(t, "out", Taken(t))
  <2> DEFINE w == Writes(t, "out", Taken(t), LAMBDA k : mem[Cell("out", k)] + 1)
  <2> DEFINE g == Nothing
  <2>1. Move({t}, r, w, g, to, 0)  BY <1>2, <1>3 DEF GridUpdate, Alone
  <2>2. DOMAIN w = Touches(t, C)  BY <1>2, TouchesCells DEF Writes
  <2>3. r = Touches(t, R)  BY <1>2, TouchesCells, TouchesNone
  <2> HIDE DEF r, w, g
  <2>4. QED  BY <2>1, <2>2, <2>3 DEF Moves
<1>5. Keeps(t, i, R, C, to, 0)
  <2>1. WriteCells(i, t) = C /\ ReadCells(i, t) = R
    <3>1. ElementCells(i, t) = C  BY <1>2, <1>3 DEF ElementCells
    <3>2. QED  BY <1>2, <1>3, <3>1, CellsOf
  <2>2. Stands(t, to, i + 0)  BY <1>1, <1>2, <1>3 DEF Stands, Done
  <2>3. QED  BY <1>1, <1>2, <2>1, <2>2 DEF Keeps
<1>6. QED  BY <1>4, <1>5, AloneKeeps

(* A thread turns one pair of each head.                                   *)
LEMMA GridRotateKeeps ==
    ASSUME KernelInv, NEW t \in Threads, GridRotate(t)  PROVE KernelInv'
<1>1. PICK i : i = sync[t]  OBVIOUS
<1>2. PICK R, C, to : /\ R = Cells("out", TurnedBy(t, at[t][2]))
                      /\ C = Cells("out", TurnedBy(t, at[t][2]))
                      /\ to = IF at[t][2] + 1 = 2 * launch.heads THEN Done
                              ELSE <<"rotate", at[t][2] + 1>>
  OBVIOUS
<1>3. launch.kernel = "rotate" /\ i = at[t][2] /\ t \in Nat /\ launch \in Launches /\ 0 \in Threads
  <2>1. at[t][1] = "rotate"  BY DEF GridRotate
  <2>2. QED  BY <1>1, <2>1, Standing DEF Stands
<1>4. Moves(t, R, C, to, 1)
  <2> DEFINE r == Reads(t, "out", TurnedBy(t, at[t][2]))
  <2> DEFINE w == Writes(t, "out", TurnedBy(t, at[t][2]),
            LAMBDA c : Append(mem[Cell("out", c)], <<launch.sign, t \div launch.half>>))
  <2> DEFINE g == Nothing
  <2>1. Move({t}, r, w, g, to, 1)  BY <1>2, <1>3 DEF GridRotate, Alone
  <2>2. DOMAIN w = Touches(t, C)  BY <1>2, TouchesCells DEF Writes
  <2>3. r = Touches(t, R)  BY <1>2, TouchesCells, TouchesNone
  <2> HIDE DEF r, w, g
  <2>4. QED  BY <2>1, <2>2, <2>3 DEF Moves
<1>5. Keeps(t, i, R, C, to, 1)
  <2>1. WriteCells(i, t) = C /\ ReadCells(i, t) = R
    <3>1. ElementCells(i, t) = C  BY <1>2, <1>3 DEF ElementCells
    <3>2. QED  BY <1>2, <1>3, <3>1, CellsOf
  <2>2. Stands(t, to, i + 1)  BY <1>1, <1>2, <1>3 DEF Stands, Done
  <2>3. QED  BY <1>1, <1>2, <2>1, <2>2 DEF Keeps
<1>6. QED  BY <1>4, <1>5, AloneKeeps

(* A thread fills the places of the tile it owns.                          *)
LEMMA GridCopyKeeps ==
    ASSUME KernelInv, NEW t \in Threads, GridCopy(t)  PROVE KernelInv'
<1>1. PICK i : i = sync[t]  OBVIOUS
<1>2. PICK R, C, to : /\ R = {}
                      /\ C = Cells("out", {CopyTarget(off) : off \in CopiedBy(t)})
                      /\ to = Done
  OBVIOUS
<1>3. launch.kernel = "copy" /\ i = 0 /\ t \in Nat /\ launch \in Launches /\ 0 \in Threads
  <2>1. at[t] = <<"copy", 0>>  BY DEF GridCopy
  <2>2. QED  BY <1>1, <2>1, Standing DEF Stands
<1>4. Moves(t, R, C, to, 0)
  <2> DEFINE r == {}
  <2> DEFINE w == Writes(t, "out", {CopyTarget(off) : off \in CopiedBy(t)},
                       LAMBDA c : CopySource(CHOOSE off \in CopiedBy(t) : CopyTarget(off) = c))
  <2> DEFINE g == Nothing
  <2>1. Move({t}, r, w, g, to, 0)  BY <1>2, <1>3 DEF GridCopy, Alone
  <2>2. DOMAIN w = Touches(t, C)  BY <1>2, TouchesCells DEF Writes
  <2>3. r = Touches(t, R)  BY <1>2, TouchesCells, TouchesNone
  <2> HIDE DEF r, w, g
  <2>4. QED  BY <2>1, <2>2, <2>3 DEF Moves
<1>5. Keeps(t, i, R, C, to, 0)
  <2>1. WriteCells(i, t) = C  BY <1>2, <1>3, CellsOf
  <2>2. Stands(t, to, i + 0)  BY <1>2 DEF Stands, Done
  <2>3. QED  BY <1>1, <1>2, <2>1, <2>2 DEF Keeps
<1>6. QED  BY <1>4, <1>5, AloneKeeps

(* A thread is through counting, and meets the end of the kernel.          *)
LEMMA CountEndKeeps ==
    ASSUME KernelInv, NEW t \in Threads, CountEnd(t)  PROVE KernelInv'
<1>1. PICK i : i = sync[t]  OBVIOUS
<1>2. PICK R, C, to : R = {} /\ C = {} /\ to = <<"scatter", t>>  OBVIOUS
<1>3. launch.kernel = "scatter" /\ t \in Nat /\ launch \in Launches /\ 0 \in Threads
  <2>1. at[t][1] = "count"  BY DEF CountEnd
  <2>2. QED  BY <1>1, <2>1, Standing DEF Stands
<1>4. Moves(t, R, C, to, AfterCount)
  <2> DEFINE r == {}
  <2> DEFINE w == Nothing
  <2> DEFINE g == Nothing
  <2>1. Move({t}, r, w, g, to, AfterCount)  BY <1>2, <1>3 DEF CountEnd, Alone
  <2>2. DOMAIN w = Touches(t, C)  BY <1>2, TouchesNone
  <2>3. r = Touches(t, R)  BY <1>2, TouchesCells, TouchesNone
  <2> HIDE DEF r, w, g
  <2>4. QED  BY <2>1, <2>2, <2>3 DEF Moves
<1>5. Keeps(t, i, R, C, to, AfterCount)
  <2>1. Stands(t, to, i + 1)
    <3>1. Rows \in Nat /\ BlockDim \in Nat \ {0} /\ t \in 0..(BlockDim - 1)
      <4>1. launch.idx \in Seq(Nat \cup {Sentinel})  BY <1>3, ShapeIs DEF Shaped
      <4>2. Rows \in Nat  BY <4>1, LenProperties DEF Rows
      <4>3. QED  BY <1>3, <4>2, BlockIs DEF Threads
    <3>2. t \in 0..(Rows + BlockDim - 1)  BY <3>1
    <3>3. to[1] = "scatter" /\ to[2] = t  BY <1>2
    <3>4. QED  BY <1>3, <3>2, <3>3 DEF Stands
  <2>2. WriteCells(i, t) = {}  BY <1>3, CellsOf
  <2>3. QED  BY <1>1, <1>2, <2>1, <2>2 DEF Keeps, AfterCount
<1>6. QED  BY <1>4, <1>5, AloneKeeps

(* A thread is through scattering.                                         *)
LEMMA ScatterEndKeeps ==
    ASSUME KernelInv, NEW t \in Threads, ScatterEnd(t)  PROVE KernelInv'
<1>1. PICK i : i = sync[t]  OBVIOUS
<1>2. PICK R, C, to : R = {} /\ C = {} /\ to = Done  OBVIOUS
<1>3. launch.kernel = "scatter" /\ t \in Nat /\ launch \in Launches /\ 0 \in Threads
  <2>1. at[t][1] = "scatter"  BY DEF ScatterEnd
  <2>2. QED  BY <1>1, <2>1, Standing DEF Stands
<1>4. Moves(t, R, C, to, 0)
  <2> DEFINE r == {}
  <2> DEFINE w == Nothing
  <2> DEFINE g == Nothing
  <2>1. Move({t}, r, w, g, to, 0)  BY <1>2, <1>3 DEF ScatterEnd, Alone
  <2>2. DOMAIN w = Touches(t, C)  BY <1>2, TouchesNone
  <2>3. r = Touches(t, R)  BY <1>2, TouchesCells, TouchesNone
  <2> HIDE DEF r, w, g
  <2>4. QED  BY <2>1, <2>2, <2>3 DEF Moves
<1>5. Keeps(t, i, R, C, to, 0)
  <2>1. Stands(t, to, i + 0)  BY <1>2 DEF Stands, Done
  <2>2. QED  BY <1>1, <1>2, <2>1 DEF Keeps
<1>6. QED  BY <1>4, <1>5, AloneKeeps

(* The atomic steps of the scatter-add leave the log and the cells alone.  *)
LEMMA AtomicKeeps ==
    ASSUME KernelInv, NEW t \in Threads, NEW label \in {"count", "scatter"},
           at[t][1] = label, at[t][2] < Rows, Next1(t, label), DOMAIN mem' = DOMAIN mem,
           UNCHANGED <<launch, sync, reg, log>>
    PROVE  KernelInv'
<1>1. Same  BY SameLaunch
<1>2. launch.kernel = "scatter" /\ at[t][2] \in 0..(Rows + BlockDim - 1)
  BY Standing DEF Stands
<1>3. Rows \in Nat /\ BlockDim \in Nat \ {0}
  <2>1. launch.idx \in Seq(Nat \cup {Sentinel})  BY <1>2, Standing, ShapeIs DEF Shaped
  <2>2. QED  BY <2>1, Standing, LenProperties, BlockIs DEF Rows
<1>4. DOMAIN at = Threads /\ DOMAIN at' = Threads /\ at'[t] = <<label, at[t][2] + BlockDim>>
      /\ \A u \in Threads : u # t => at'[u] = at[u]
  BY DEF KernelInv, Next1
<1>5. at[t][2] + BlockDim \in 0..(Rows + BlockDim - 1)
  <2>1. PICK k \in Nat : k = at[t][2]  BY <1>2, <1>3
  <2>2. QED  BY <1>3, <2>1
<1>6. ASSUME NEW u \in Threads  PROVE sync'[u] \in Nat /\ Stands(u, at'[u], sync'[u])
  <2>1. CASE u = t
    <3>1. PICK p : p = at'[t]  OBVIOUS
    <3>2. p[1] = label /\ p[2] = at[t][2] + BlockDim  BY <1>4, <3>1
    <3>3. Stands(t, p, sync[t])  BY <1>2, <1>5, <3>2 DEF Stands
    <3>4. QED  BY <2>1, <3>1, <3>3, Standing
  <2>2. CASE u # t  BY <1>4, <2>2, Standing
  <2>3. QED  BY <2>1, <2>2
<1>7. DOMAIN at' = Threads' /\ DOMAIN sync' = Threads' /\ DOMAIN reg' = Threads'
  BY <1>1, <1>4 DEF Same, KernelInv
<1>8. \A u \in Threads' : sync'[u] \in Nat /\ (Stands(u, at[u], sync[u]))'
  BY <1>1, <1>6 DEF Same
<1>9. \A u \in Threads' : \A j \in 0..(sync'[u] - 1) : (WriteCells(j, u))' \subseteq DOMAIN mem'
  BY <1>1 DEF Same, KernelInv
<1>10. \A a \in log'.access : (Logged(a))'
  <2>1. \A a \in log.access : Logged(a)  BY DEF KernelInv
  <2>2. QED  BY <1>1, <2>1 DEF Same, Logged
<1>11. launch' \in Launches /\ log'.interval \in Nat  BY DEF KernelInv
<1>12. QED  BY <1>7, <1>8, <1>9, <1>10, <1>11 DEF KernelInv

(* A thread counts a row.                                                  *)
LEMMA CountRowKeeps ==
    ASSUME KernelInv, NEW t \in Threads, CountRow(t)  PROVE KernelInv'
<1>1. DOMAIN mem' = DOMAIN mem  BY DEF CountRow, Atomic
<1>2. at[t][1] = "count" /\ at[t][2] < Rows /\ Next1(t, "count") /\ UNCHANGED <<launch, sync, reg, log>>
  BY DEF CountRow
<1>3. QED  BY <1>1, <1>2, AtomicKeeps

(* A thread adds a row to the table.                                       *)
LEMMA ScatterRowKeeps ==
    ASSUME KernelInv, NEW t \in Threads, ScatterRow(t)  PROVE KernelInv'
<1>1. DOMAIN mem' = DOMAIN mem  BY DEF ScatterRow, Atomic
<1>2. at[t][1] = "scatter" /\ at[t][2] < Rows /\ Next1(t, "scatter") /\
      UNCHANGED <<launch, sync, reg, log>>
  BY DEF ScatterRow
<1>3. QED  BY <1>1, <1>2, AtomicKeeps

-----------------------------------------------------------------------------
(* Two footprints meet in a cell only if it has one name and one index.    *)
LEMMA CellsApart ==
    /\ \A m, n, A, B : m # n => Cells(m, A) \cap Cells(n, B) = {}
    /\ \A n, A, B : A \cap B = {} => Cells(n, A) \cap Cells(n, B) = {}
BY DEF Cells, Cell

(* The columns of two threads are apart.                                   *)
LEMMA ColumnsApart == \A t, u, n, span : t # u => Column(t, n, span) \cap Column(u, n, span) = {}
BY DEF Column

(* What a thread writes in an interval, no other touches in it.            *)
KeptApart(i, t, u) == WriteCells(i, t) \cap (WriteCells(i, u) \cup ReadCells(i, u)) = {}

(* In the tree a thread below the stride writes itself, and reads itself and one at or *)
(* above the stride.                                                       *)
LEMMA ReduceApart ==
    ASSUME launch \in Launches, launch.kernel \in {"dot", "argmax"}, NEW i \in Nat,
             NEW t \in Threads, NEW u \in Threads, t # u
    PROVE  KeptApart(i, t, u)
<1>1. t \in Nat /\ u \in Nat  BY BlockIs
<1>2. CASE i \in 0..T
  <2>1. PICK s \in Nat : s = Stride[i]  BY <1>2, BlockStarts
  <2>2. CASE t < s
    <3>1. ReduceWrites(i, t) = Cells("partial", {t})
      <4>1. i \in 0..T /\ t < Stride[i] /\ Stride[i] # 0  BY <1>1, <1>2, <2>1, <2>2
      <4>2. QED  BY <4>1 DEF ReduceWrites
    <3>2. ReduceWrites(i, u) \subseteq Cells("partial", {u})
      <4>1. s # 0  BY <1>1, <2>2
      <4>2. QED  BY <1>2, <2>1, <4>1 DEF ReduceWrites
    <3>3. ReduceReads(i, u) \subseteq Cells("partial", {u, u + s})
      <4>1. s # 0  BY <1>1, <2>2
      <4>2. QED  BY <1>2, <2>1, <4>1 DEF ReduceReads
    <3>4. CASE u < s
      <4>1. {t} \cap {u} = {} /\ {t} \cap {u, u + s} = {}  BY <1>1, <2>2
      <4>2. Cells("partial", {t}) \cap Cells("partial", {u}) = {}  BY <4>1, CellsApart
      <4>3. Cells("partial", {t}) \cap Cells("partial", {u, u + s}) = {}
        BY <4>1, CellsApart
      <4>4. QED  BY <3>1, <3>2, <3>3, <4>2, <4>3, CellsOf DEF KeptApart
    <3>5. CASE ~(u < s)
      <4>1. s # 0  BY <1>1, <2>2
      <4>2. ReduceWrites(i, u) = {} /\ ReduceReads(i, u) = {}
        BY <2>1, <3>5, <4>1 DEF ReduceWrites, ReduceReads
      <4>3. QED  BY <4>2, CellsOf DEF KeptApart
    <3>6. QED  BY <3>4, <3>5
  <2>3. CASE ~(t < s) /\ s # 0
    <3>1. ReduceWrites(i, t) = {}  BY <2>1, <2>3 DEF ReduceWrites
    <3>2. QED  BY <3>1, CellsOf DEF KeptApart
  <2>4. CASE s = 0
    <3>1. ~(t < s) /\ ~(u < s)  BY <1>1, <2>4
    <3>2. /\ ReduceWrites(i, t) = Cells("out", {0} \cap {t}) /\
             ReduceWrites(i, u) = Cells("out", {0} \cap {u})
          /\ ReduceReads(i, u) \subseteq Cells("partial", {0} \cap {u})
      BY <1>2, <2>1, <2>4, <3>1 DEF ReduceWrites, ReduceReads
    <3>3. ({0} \cap {t}) \cap ({0} \cap {u}) = {}  OBVIOUS
    <3>4. Cells("out", {0} \cap {t}) \cap Cells("out", {0} \cap {u}) = {}
      BY <3>3, CellsApart
    <3>5. Cells("out", {0} \cap {t}) \cap Cells("partial", {0} \cap {u}) = {}  BY CellsApart
    <3>6. QED  BY <3>2, <3>4, <3>5, CellsOf DEF KeptApart
  <2>5. QED  BY <2>2, <2>3, <2>4
<1>3. CASE i \notin 0..T
  <2>1. ReduceWrites(i, t) = {}  BY <1>3 DEF ReduceWrites
  <2>2. QED  BY <2>1, CellsOf DEF KeptApart
<1>4. QED  BY <1>2, <1>3

(* The columns of the scores and of the output are shared out.             *)
LEMMA AttnApart ==
    ASSUME launch.kernel = "attn", NEW i, NEW t, NEW u, t # u
    PROVE  KeptApart(i, t, u)
<1>1. CASE i = 0
  <2>1. /\ AttnWrites(i, t) = Cells("sc", Column(t, launch.nk, T)) /\
           AttnWrites(i, u) = Cells("sc", Column(u, launch.nk, T))
        /\ AttnReads(i, u) = {}
    BY <1>1 DEF AttnWrites, AttnReads
  <2>2. QED  BY <2>1, CellsOf, CellsApart, ColumnsApart DEF KeptApart
<1>2. CASE i = 1
  <2>1. /\ AttnWrites(i, t) \subseteq Cells("sc", Column(t, launch.nk, W))
        /\ AttnWrites(i, u) \subseteq Cells("sc", Column(u, launch.nk, W))
        /\ AttnReads(i, u) \subseteq Cells("sc", Column(u, launch.nk, W))
    BY <1>2 DEF AttnWrites, AttnReads
  <2>2. Cells("sc", Column(t, launch.nk, W)) \cap Cells("sc", Column(u, launch.nk, W)) = {}
    BY CellsApart, ColumnsApart
  <2>3. QED  BY <2>1, <2>2, CellsOf DEF KeptApart
<1>3. CASE i = 2
  <2>1. /\ AttnWrites(i, t) = Cells("out", Column(t, launch.hd, T)) /\
           AttnWrites(i, u) = Cells("out", Column(u, launch.hd, T))
        /\ AttnReads(i, u) = Cells("sc", 0..(launch.nk - 1))
    BY <1>3 DEF AttnWrites, AttnReads
  <2>2. Cells("out", Column(t, launch.hd, T)) \cap Cells("out", Column(u, launch.hd, T)) = {}
    BY CellsApart, ColumnsApart
  <2>3. Cells("out", Column(t, launch.hd, T)) \cap Cells("sc", 0..(launch.nk - 1)) = {}
    BY CellsApart
  <2>4. QED  BY <2>1, <2>2, <2>3, CellsOf DEF KeptApart
<1>4. CASE i \notin {0, 1, 2}
  <2>1. AttnWrites(i, t) = {}  BY <1>4 DEF AttnWrites
  <2>2. QED  BY <2>1, CellsOf DEF KeptApart
<1>5. QED  BY <1>1, <1>2, <1>3, <1>4

(* The tile, the warp maxima, the maximum of the tile and the output, each in an *)
(* interval of its own.                                                    *)
LEMMA FlashApart ==
    ASSUME launch.kernel = "flash", NEW i, NEW t, NEW u, t # u
    PROVE  KeptApart(i, t, u)
<1> PICK k, c : k = i \div 4 /\ c = i % 4  OBVIOUS
<1>1. \A x : WriteCells(i, x) = FlashStepWrites(k, c, x) /\ ReadCells(i, x) = FlashStepReads(k, c, x)
  BY CellsOf DEF FlashWrites, FlashReads
<1>2. ({0} \cap {t}) \cap ({0} \cap {u}) = {}  OBVIOUS
<1>3. CASE c = 0 /\ k <= LastTile
  <2>1. /\ FlashStepWrites(k, c, t) = Cells("tile", Slots(k) \cap {t})
        /\ FlashStepWrites(k, c, u) = Cells("tile", Slots(k) \cap {u}) /\ FlashStepReads(k, c, u) = {}
    BY <1>3 DEF FlashStepWrites, FlashStepReads
  <2>2. (Slots(k) \cap {t}) \cap (Slots(k) \cap {u}) = {}  OBVIOUS
  <2>3. Cells("tile", Slots(k) \cap {t}) \cap Cells("tile", Slots(k) \cap {u}) = {}
    BY <2>2, CellsApart
  <2>4. QED  BY <1>1, <2>1, <2>3 DEF KeptApart
<1>4. CASE c = 0 /\ ~(k <= LastTile)
  <2>1. /\ FlashStepWrites(k, c, t) = Cells("out", Column(t, launch.hd, T)) \cup Cells("lse", {0} \cap {t})
        /\ FlashStepWrites(k, c, u) = Cells("out", Column(u, launch.hd, T)) \cup Cells("lse", {0} \cap {u})
        /\ FlashStepReads(k, c, u) = {}
    BY <1>4 DEF FlashStepWrites, FlashStepReads
  <2>2. Cells("out", Column(t, launch.hd, T)) \cap Cells("out", Column(u, launch.hd, T)) = {}
    BY CellsApart, ColumnsApart
  <2>3. Cells("lse", {0} \cap {t}) \cap Cells("lse", {0} \cap {u}) = {}  BY <1>2, CellsApart
  <2>4. /\ Cells("out", Column(t, launch.hd, T)) \cap Cells("lse", {0} \cap {u}) = {}
        /\ Cells("lse", {0} \cap {t}) \cap Cells("out", Column(u, launch.hd, T)) = {}
    BY CellsApart
  <2>5. QED  BY <1>1, <2>1, <2>2, <2>3, <2>4 DEF KeptApart
<1>5. CASE c = 1
  <2>1. PICK A, B, R : /\ A = {w \in Warps : w * W = t} /\ B = {w \in Warps : w * W = u}
                       /\ R = {x \in Slots(k) : x % T = u}
    OBVIOUS
  <2>2. /\ FlashStepWrites(k, c, t) = Cells("shared_max", A) /\
           FlashStepWrites(k, c, u) = Cells("shared_max", B)
        /\ FlashStepReads(k, c, u) = Cells("tile", R)
    BY <1>5, <2>1 DEF FlashStepWrites, FlashStepReads
  <2>3. A \cap B = {}  BY <2>1
  <2>4. Cells("shared_max", A) \cap Cells("shared_max", B) = {} /\
        Cells("shared_max", A) \cap Cells("tile", R) = {}
    BY <2>3, CellsApart
  <2>5. QED  BY <1>1, <2>2, <2>4 DEF KeptApart
<1>6. CASE c = 2
  <2>1. /\ FlashStepWrites(k, c, t) = Cells("m_tile", {0} \cap {t}) /\
           FlashStepWrites(k, c, u) = Cells("m_tile", {0} \cap {u})
        /\ FlashStepReads(k, c, u) = Cells("shared_max", {u} \cap Warps)
    BY <1>6 DEF FlashStepWrites, FlashStepReads
  <2>2. Cells("m_tile", {0} \cap {t}) \cap Cells("m_tile", {0} \cap {u}) = {}
    BY <1>2, CellsApart
  <2>3. Cells("m_tile", {0} \cap {t}) \cap Cells("shared_max", {u} \cap Warps) = {}
    BY CellsApart
  <2>4. QED  BY <1>1, <2>1, <2>2, <2>3 DEF KeptApart
<1>7. CASE c \notin {0, 1, 2}
  <2>1. FlashStepWrites(k, c, t) = {}  BY <1>7 DEF FlashStepWrites
  <2>2. QED  BY <1>1, <2>1 DEF KeptApart
<1>8. QED  BY <1>3, <1>4, <1>5, <1>6, <1>7

(* Thread 0 alone writes the sum of the dot product while nobody reads the parts. *)
LEMMA RowApart ==
    ASSUME launch.kernel = "bwd_row", NEW i, NEW t, NEW u, t # u
    PROVE  KeptApart(i, t, u)
<1>1. CASE i = 0
  <2>1. RowWrites(i, t) = Cells("partial", {t}) /\ RowWrites(i, u) = Cells("partial", {u}) /\
        RowReads(i, u) = {}
    BY <1>1 DEF RowWrites, RowReads
  <2>2. {t} \cap {u} = {}  OBVIOUS
  <2>3. QED  BY <2>1, <2>2, CellsOf, CellsApart DEF KeptApart
<1>2. CASE i = 1 /\ t # 0
  <2>1. {0} \cap {t} = {}  BY <1>2
  <2>2. RowWrites(i, t) = {}  BY <1>2, <2>1 DEF RowWrites, Cells
  <2>3. QED  BY <2>2, CellsOf DEF KeptApart
<1>3. CASE i = 1 /\ t = 0
  <2>1. {0} \cap {u} = {}  BY <1>3
  <2>2. RowWrites(i, u) = {} /\ RowReads(i, u) = {}
    BY <1>3, <2>1 DEF RowWrites, RowReads, Cells
  <2>3. QED  BY <2>2, CellsOf DEF KeptApart
<1>4. CASE i = 2
  <2>1. /\ RowWrites(i, t) = Cells("gs", Column(t, launch.nk, T)) /\
           RowWrites(i, u) = Cells("gs", Column(u, launch.nk, T))
        /\ RowReads(i, u) = Cells("partial", {0})
    BY <1>4 DEF RowWrites, RowReads
  <2>2. Cells("gs", Column(t, launch.nk, T)) \cap Cells("gs", Column(u, launch.nk, T)) = {}
    BY CellsApart, ColumnsApart
  <2>3. Cells("gs", Column(t, launch.nk, T)) \cap Cells("partial", {0}) = {}  BY CellsApart
  <2>4. QED  BY <2>1, <2>2, <2>3, CellsOf DEF KeptApart
<1>5. CASE i = 3
  <2>1. /\ RowWrites(i, t) = Cells("out", Column(t, launch.hd, T)) /\
           RowWrites(i, u) = Cells("out", Column(u, launch.hd, T))
        /\ RowReads(i, u) = Cells("gs", 0..(launch.nk - 1))
    BY <1>5 DEF RowWrites, RowReads
  <2>2. Cells("out", Column(t, launch.hd, T)) \cap Cells("out", Column(u, launch.hd, T)) = {}
    BY CellsApart, ColumnsApart
  <2>3. Cells("out", Column(t, launch.hd, T)) \cap Cells("gs", 0..(launch.nk - 1)) = {}
    BY CellsApart
  <2>4. QED  BY <2>1, <2>2, <2>3, CellsOf DEF KeptApart
<1>6. CASE i \notin {0, 1, 2, 3}
  <2>1. RowWrites(i, t) = {}  BY <1>6 DEF RowWrites
  <2>2. QED  BY <2>1, CellsOf DEF KeptApart
<1>7. QED  BY <1>1, <1>2, <1>3, <1>4, <1>5, <1>6

(* A lane is disjoint from the first threads of the other lanes.           *)
LEMMA KvApart ==
    ASSUME launch \in Launches, launch.kernel = "bwd_kv", NEW i, NEW t \in Threads,
             NEW u \in Threads, t # u
    PROVE  KeptApart(i, t, u)
<1>1. {t} \cap {u} = {}  OBVIOUS
<1>2. CASE i = 0
  <2>1. KvWrites(i, t) = Cells("shared_acc", {t}) /\ KvWrites(i, u) = Cells("shared_acc", {u}) /\
        KvReads(i, u) = {}
    BY <1>2 DEF KvWrites, KvReads
  <2>2. QED  BY <1>1, <2>1, CellsOf, CellsApart DEF KeptApart
<1>3. CASE i = 1 /\ t < NumLanes
  <2>1. /\ KvWrites(i, t) = Cells("shared_acc", {t}) \cup Cells("out", {t})
        /\ KvWrites(i, u) \subseteq Cells("shared_acc", {u}) \cup Cells("out", {u})
        /\ KvReads(i, u) \subseteq Cells("shared_acc", Lane(u))
    BY <1>3 DEF KvWrites, KvReads
  <2>2. {t} \cap Lane(u) = {}
    <3>1. SUFFICES ASSUME t \in Lane(u)  PROVE FALSE  OBVIOUS
    <3>2. PICK n \in Nat \ {0} : n = NumLanes  BY LanesInt
    <3>3. PICK c \in 0..(NumChunks - 1) : t = u + c * n  BY <3>1, <3>2 DEF Lane
    <3>4. t \in Nat /\ u \in Nat /\ c \in Nat /\ t < n
      <4>1. NumChunks \in Nat
        <5>1. T \in Nat \ {0}  BY BlockAssumption
        <5>2. T + n - 1 \in Nat  BY <5>1
        <5>3. QED  BY <3>2, <5>2, DivisionIs DEF NumChunks
      <4>2. QED  BY <1>3, <3>2, <4>1, BlockIs
    <3>5. c = 0
      <4>1. SUFFICES ASSUME c >= 1  PROVE FALSE  BY <3>4
      <4>2. c * n >= n  BY <3>2, <3>4, <4>1
      <4>3. QED  BY <3>2, <3>3, <3>4, <4>2
    <3>6. QED  BY <3>2, <3>3, <3>4, <3>5
  <2>3. Cells("shared_acc", {t}) \cap Cells("shared_acc", {u}) = {} /\
        Cells("out", {t}) \cap Cells("out", {u}) = {}
    BY <1>1, CellsApart
  <2>4. Cells("shared_acc", {t}) \cap Cells("out", {u}) = {} /\
        Cells("out", {t}) \cap Cells("shared_acc", {u}) = {}
    BY CellsApart
  <2>5. Cells("shared_acc", {t}) \cap Cells("shared_acc", Lane(u)) = {} /\
        Cells("out", {t}) \cap Cells("shared_acc", Lane(u)) = {}
    BY <2>2, CellsApart
  <2>6. QED  BY <2>1, <2>3, <2>4, <2>5, CellsOf DEF KeptApart
<1>4. CASE i # 0 /\ ~(i = 1 /\ t < NumLanes)
  <2>1. KvWrites(i, t) = {}  BY <1>4 DEF KvWrites
  <2>2. QED  BY <2>1, CellsOf DEF KeptApart
<1>5. QED  BY <1>2, <1>3, <1>4

(* The table, the rows and the columns of the RMSNorm backward.            *)
LEMMA RmsApart ==
    ASSUME launch.kernel = "rmsnorm", NEW i, NEW t, NEW u, t # u
    PROVE  KeptApart(i, t, u)
<1>1. CASE i \in {0, 1, 2}
  <2>1. PICK A, B, C, D, R : /\ A = Column(t, launch.rows, BlockDim)
                             /\ B = Column(u, launch.rows, BlockDim)
                             /\ C = Column(t, launch.cols, BlockDim)
                             /\ D = Column(u, launch.cols, BlockDim)
                             /\ R = 0..(launch.rows - 1)
    OBVIOUS
  <2>2. A \cap B = {} /\ C \cap D = {}  BY <2>1, ColumnsApart
  <2>3. /\ Cells("inv_rms", A) \cap Cells("inv_rms", B) = {} /\ Cells("gx", A) \cap Cells("gx", B) = {}
        /\ Cells("out", C) \cap Cells("out", D) = {}
    BY <2>2, CellsApart
  <2>4. Cells("gx", A) \cap Cells("inv_rms", B) = {} /\ Cells("out", C) \cap Cells("inv_rms", R) = {}
    BY CellsApart
  <2>5. CASE i = 0
    <3>1. RmsWrites(i, t) = Cells("inv_rms", A) /\ RmsWrites(i, u) = Cells("inv_rms", B) /\
          RmsReads(i, u) = {}
      BY <2>1, <2>5 DEF RmsWrites, RmsReads
    <3>2. QED  BY <2>3, <3>1, CellsOf DEF KeptApart
  <2>6. CASE i = 1
    <3>1. RmsWrites(i, t) = Cells("gx", A) /\ RmsWrites(i, u) = Cells("gx", B) /\
          RmsReads(i, u) = Cells("inv_rms", B)
      BY <2>1, <2>6 DEF RmsWrites, RmsReads
    <3>2. QED  BY <2>3, <2>4, <3>1, CellsOf DEF KeptApart
  <2>7. CASE i = 2
    <3>1. RmsWrites(i, t) = Cells("out", C) /\ RmsWrites(i, u) = Cells("out", D) /\
          RmsReads(i, u) = Cells("inv_rms", R)
      BY <2>1, <2>7 DEF RmsWrites, RmsReads
    <3>2. QED  BY <2>3, <2>4, <3>1, CellsOf DEF KeptApart
  <2>8. QED  BY <1>1, <2>5, <2>6, <2>7
<1>2. CASE i \notin {0, 1, 2}
  <2>1. RmsWrites(i, t) = {}  BY <1>2 DEF RmsWrites
  <2>2. QED  BY <2>1, CellsOf DEF KeptApart
<1>3. QED  BY <1>1, <1>2

(* Rows are shared out, and the mean has one thread.                       *)
LEMMA GridApart ==
    ASSUME launch.kernel = "rows", NEW i, NEW t, NEW u, t # u
    PROVE  KeptApart(i, t, u)
<1>1. CASE i = 0
  <2>1. PICK name : name = IF launch.op = "loss" THEN "row_loss" ELSE "out"  OBVIOUS
  <2>2. /\ GridWrites(i, t) = Cells(name, Column(t, launch.rows, BlockDim))
        /\ GridWrites(i, u) = Cells(name, Column(u, launch.rows, BlockDim)) /\ GridReads(i, u) = {}
    BY <1>1, <2>1 DEF GridWrites, GridReads
  <2>3. Cells(name, Column(t, launch.rows, BlockDim)) \cap Cells(name, Column(u, launch.rows, BlockDim)) = {}
    BY CellsApart, ColumnsApart
  <2>4. QED  BY <2>2, <2>3, CellsOf DEF KeptApart
<1>2. CASE i = 1 /\ t = 0
  <2>1. GridWrites(i, u) = {} /\ GridReads(i, u) = {}  BY <1>2 DEF GridWrites, GridReads
  <2>2. QED  BY <2>1, CellsOf DEF KeptApart
<1>3. CASE i # 0 /\ ~(i = 1 /\ t = 0)
  <2>1. GridWrites(i, t) = {}  BY <1>3 DEF GridWrites
  <2>2. QED  BY <2>1, CellsOf DEF KeptApart
<1>4. QED  BY <1>1, <1>2, <1>3

(* A row and a place in it are where a cell says they are.                 *)
PlaceOf(p, K, h) == (p \div h) * K + (p % h)
(* A row and a place in it are found back from the cell.                   *)
LEMMA OneCell ==
    ASSUME NEW K \in Nat \ {0}, NEW h \in Nat \ {0}, h <= K, NEW p \in Nat, NEW r \in Nat,
           PlaceOf(p, K, h) = PlaceOf(r, K, h)
    PROVE  p = r
<1> PICK m : m = (p \div h) * K + (p % h) /\ m = (r \div h) * K + (r % h)  BY DEF PlaceOf
<1>1. PICK a \in Nat, x \in 0..(h - 1) : a = p \div h /\ x = p % h /\ p = h * a + x
  BY DivisionIs
<1>2. PICK b \in Nat, y \in 0..(h - 1) : b = r \div h /\ y = r % h /\ r = h * b + y
  BY DivisionIs
<1>3. PICK n \in Nat : n = m /\ n = K * a + x /\ n = K * b + y
  <2>1. m = a * K + x /\ m = b * K + y  BY <1>1, <1>2
  <2>2. a * K = K * a /\ b * K = K * b /\ a * K \in Nat  BY <1>1, <1>2
  <2>3. QED  BY <1>1, <2>1, <2>2
<1>4. x \in 0..(K - 1) /\ y \in 0..(K - 1) /\ a \in Int /\ b \in Int  OBVIOUS
<1>5. n % K = x /\ (n \div K) = a  BY <1>3, <1>4, RemainderIs
<1>6. n % K = y /\ (n \div K) = b  BY <1>3, <1>4, RemainderIs
<1>7. QED  BY <1>1, <1>2, <1>5, <1>6

(* No element is taken and no pair is turned by two threads.               *)
LEMMA ElementApart ==
    ASSUME launch \in Launches, launch.kernel \in {"update", "rotate"}, NEW i \in Nat,
           NEW t \in Threads, NEW u \in Threads, t # u
    PROVE  KeptApart(i, t, u)
<1>1. CASE launch.kernel = "update" /\ i = 0
  <2>1. ElementCells(i, t) = Cells("out", Taken(t)) /\ ElementCells(i, u) = Cells("out", Taken(u))
    BY <1>1 DEF ElementCells
  <2>2. Taken(t) \cap Taken(u) = {}  BY ColumnsApart DEF Taken
  <2>3. Cells("out", Taken(t)) \cap Cells("out", Taken(u)) = {}  BY <2>2, CellsApart
  <2>4. QED  BY <2>1, <2>3, CellsOf DEF KeptApart
<1>2. CASE launch.kernel = "update" /\ i # 0
  <2>1. ElementCells(i, t) = {}  BY <1>2 DEF ElementCells
  <2>2. QED  BY <2>1, CellsOf DEF KeptApart
<1>3. CASE launch.kernel = "rotate"
  <2>1. ElementCells(i, t) = Cells("out", TurnedBy(t, i)) /\
        ElementCells(i, u) = Cells("out", TurnedBy(u, i))
    BY <1>3 DEF ElementCells
  <2>2. TurnedBy(t, i) \cap TurnedBy(u, i) = {}
    <3>1. SUFFICES ASSUME PairCell(i, t) = PairCell(i, u)  PROVE FALSE  BY DEF TurnedBy
    <3>2. PICK h \in Nat \ {0}, n \in Nat \ {0} : h = launch.half /\ n = launch.heads
      BY <1>3, ShapeIs DEF Shaped
    <3>3. PICK p \in Nat \ {0} : p = HeadPairs /\ p = n * h
      <4>1. n * h \in Nat \ {0}  BY <3>2
      <4>2. QED  BY <3>2, <4>1 DEF HeadPairs
    <3>4. PICK K \in Nat \ {0} : K = 3 * p /\ h <= K
      <4>1. h <= n * h  BY <3>2
      <4>2. QED  BY <3>3, <4>1
    <3>5. PICK d \in Nat : d = HeadOffset(i)
      <4>1. (i % 2) \in Nat /\ (i \div 2) \in Nat  OBVIOUS
      <4>2. (i % 2) * p \in Nat /\ (i \div 2) * h \in Nat  BY <4>1
      <4>3. HeadOffset(i) = (i % 2) * p + (i \div 2) * h  BY <3>2, <3>3 DEF HeadOffset
      <4>4. QED  BY <4>2, <4>3
    <3>6. t \in Nat /\ u \in Nat  BY BlockIs
    <3>7. ASSUME NEW x \in Nat
          PROVE  PairCell(i, x) = PlaceOf(x, K, h) + d /\ PlaceOf(x, K, h) \in Nat
      <4>1. x \div h \in Nat /\ (x % h) \in 0..(h - 1)  BY DivisionIs
      <4>2. PICK a \in Nat, b \in Nat : a = x \div h /\ b = x % h  BY <4>1
      <4>3. PairCell(i, x) = a * 3 * p + d + b  BY <3>2, <3>3, <3>5, <4>2 DEF PairCell
      <4>4. a * 3 * p = a * K /\ a * K \in Nat  BY <3>4
      <4>5. PlaceOf(x, K, h) = a * K + b  BY <4>2 DEF PlaceOf
      <4>6. QED  BY <4>3, <4>4, <4>5
    <3>8. PICK m \in Nat : m = PlaceOf(t, K, h) /\ PairCell(i, t) = m + d  BY <3>6, <3>7
    <3>9. PICK k \in Nat : k = PlaceOf(u, K, h) /\ PairCell(i, u) = k + d  BY <3>6, <3>7
    <3>10. t = u
      <4>1. m = k
        <5>1. m + d = k + d  BY <3>1, <3>8, <3>9
        <5>2. QED  BY <5>1
      <4>2. PlaceOf(t, K, h) = PlaceOf(u, K, h) /\ h <= K  BY <3>4, <3>8, <3>9, <4>1
      <4>3. QED  BY <3>6, <4>2, OneCell
    <3>11. QED  BY <3>10
  <2>3. Cells("out", TurnedBy(t, i)) \cap Cells("out", TurnedBy(u, i)) = {}
    BY <2>2, CellsApart
  <2>4. QED  BY <2>1, <2>3, CellsOf DEF KeptApart
<1>4. QED  BY <1>1, <1>2, <1>3

(* No place of a copy is filled by two threads: rows do not overlap in the target. *)
LEMMA CopyApart ==
    ASSUME launch \in Launches, launch.kernel = "copy", NEW i, NEW t \in Threads, NEW u \in Threads,
             t # u
    PROVE  KeptApart(i, t, u)
<1>1. CASE i = 0
  <2> DEFINE Cs(x) == {CopyTarget(off) : off \in CopiedBy(x)}
  <2>1. /\ WriteCells(i, t) = Cells("out", Cs(t)) /\ WriteCells(i, u) = Cells("out", Cs(u))
        /\ ReadCells(i, u) = {}
    BY <1>1, CellsOf
  <2>2. PICK c \in Nat \ {0}, to \in Nat \ {0}, r \in Nat \ {0} : c = launch.cols /\
             to = launch.to /\ r = launch.rows /\ c <= to
    BY ShapeIs DEF Shaped
  <2>3. PICK f \in Nat \ {0} : f = Unit  BY DEF Unit
  <2>4. ASSUME NEW x, NEW off \in CopiedBy(x)
        PROVE  \E v \in Nat, e \in 0..(f - 1) : off \in Nat /\ off = f * v + e /\ v % BlockDim = x
    <3>1. PICK k \in Nat : k = (r * c) \div f
      <4>1. r * c \in Nat  BY <2>2
      <4>2. QED  BY <2>3, <4>1, DivisionIs
    <3>2. PICK v \in Column(x, k, BlockDim), e \in 0..(f - 1) : off = v * f + e
      BY <2>2, <2>3, <3>1 DEF CopiedBy
    <3>3. v \in Nat /\ v % BlockDim = x  BY <3>1, <3>2 DEF Column
    <3>4. off = f * v + e /\ off \in Nat
      <4>1. v * f = f * v /\ v * f \in Nat  BY <2>3, <3>3
      <4>2. QED  BY <2>3, <3>2, <3>3, <4>1
    <3>5. QED  BY <3>2, <3>3, <3>4
  <2>5. Cs(t) \cap Cs(u) = {}
    <3>1. SUFFICES ASSUME NEW m, m \in Cs(t), m \in Cs(u)  PROVE FALSE  OBVIOUS
    <3>2. PICK a \in CopiedBy(t) : m = CopyTarget(a)  BY <3>1
    <3>3. PICK b \in CopiedBy(u) : m = CopyTarget(b)  BY <3>1
    <3>4. PICK v \in Nat, e \in 0..(f - 1) : a \in Nat /\ a = f * v + e /\ v % BlockDim = t
      BY <2>4
    <3>5. PICK w \in Nat, g \in 0..(f - 1) : b \in Nat /\ b = f * w + g /\ w % BlockDim = u
      BY <2>4
    <3>6. PlaceOf(a, to, c) = PlaceOf(b, to, c)  BY <2>2, <3>2, <3>3 DEF CopyTarget, PlaceOf
    <3>7. a = b
      <4>1. a \in Nat /\ b \in Nat /\ c <= to  BY <2>2, <3>4, <3>5
      <4>2. QED  BY <3>6, <4>1, OneCell
    <3>8. PICK n \in Nat : n = a /\ n = f * v + e /\ n = f * w + g  BY <3>4, <3>5, <3>7
    <3>9. v \in Int /\ w \in Int  OBVIOUS
    <3>10. (n \div f) = v  BY <3>8, <3>9, RemainderIs
    <3>11. (n \div f) = w  BY <3>8, <3>9, RemainderIs
    <3>12. QED  BY <3>4, <3>5, <3>10, <3>11
  <2>6. Cells("out", Cs(t)) \cap Cells("out", Cs(u)) = {}
    <3> HIDE DEF Cs
    <3> QED  BY <2>5, CellsApart
  <2>7. QED  BY <2>1, <2>6 DEF KeptApart
<1>2. CASE i # 0
  <2>1. WriteCells(i, t) = {}  BY <1>2 DEF WriteCells
  <2>2. QED  BY <2>1 DEF KeptApart
<1>3. QED  BY <1>1, <1>2

(* In no interval of any kernel does a thread write what another touches.  *)
LEMMA NoConflict ==
    ASSUME launch \in Launches, NEW i \in Nat, NEW t \in Threads, NEW u \in Threads, t # u
    PROVE  KeptApart(i, t, u)
<1>1. launch.kernel \in {"dot", "argmax", "attn", "flash", "bwd_row", "bwd_kv", "rmsnorm", "scatter",
                         "rows", "update", "copy", "rotate"}
  BY ShapeIs DEF Shaped
<1>2. CASE launch.kernel \in {"dot", "argmax"}  BY <1>2, ReduceApart
<1>3. CASE launch.kernel = "attn"  BY <1>3, AttnApart
<1>4. CASE launch.kernel = "flash"  BY <1>4, FlashApart
<1>5. CASE launch.kernel = "bwd_row"  BY <1>5, RowApart
<1>6. CASE launch.kernel = "bwd_kv"  BY <1>6, KvApart
<1>7. CASE launch.kernel = "rmsnorm"  BY <1>7, RmsApart
<1>8. CASE launch.kernel = "rows"  BY <1>8, GridApart
<1>9. CASE launch.kernel \in {"update", "rotate"}  BY <1>9, ElementApart
<1>10. CASE launch.kernel = "copy"  BY <1>10, CopyApart
<1>11. CASE launch.kernel = "scatter"
  <2>1. WriteCells(i, t) = {}  BY <1>11, CellsOf
  <2>2. QED  BY <2>1 DEF KeptApart
<1>12. QED  BY <1>1, <1>2, <1>3, <1>4, <1>5, <1>6, <1>7, <1>8, <1>9, <1>10, <1>11
-----------------------------------------------------------------------------
(* The invariant rules races out.                                          *)
LEMMA KernelInvHolds == KernelInv => NoRace
<1> SUFFICES ASSUME KernelInv  PROVE NoRace  OBVIOUS
<1>1. launch \in Launches /\ log.interval \in Nat  BY DEF KernelInv
<1>2. KernelTypeOK
  <2>1. ASSUME NEW t \in Threads
        PROVE  /\ sync[t] \in Nat
               /\ at[t][1] \in {"tile", "slots", "warp", "block", "rescale"} => at[t][2] \in 0..LastTile
               /\ at[t][1] \in {"count", "scatter"} => at[t][2] \in 0..(Rows + BlockDim - 1)
    BY Standing DEF Stands, Flashing
  <2>2. \A a \in log.access : a.by \in Threads /\ a.cell \in DOMAIN mem
    BY DEF KernelInv, Logged
  <2>3. QED  BY <2>1, <2>2 DEF KernelTypeOK, KernelInv
<1>3. ASSUME NEW a \in log.access, NEW b \in log.access, a.cell = b.cell, a.by # b.by
      PROVE ~a.write
  <2>1. SUFFICES ASSUME a.write  PROVE FALSE  OBVIOUS
  <2>2. Logged(a) /\ Logged(b)  BY DEF KernelInv
  <2>3. a.by \in Threads /\ b.by \in Threads /\ a.cell \in WriteCells(log.interval, a.by)
    BY <2>1, <2>2 DEF Logged
  <2>4. b.cell \in WriteCells(log.interval, b.by) \/ b.cell \in ReadCells(log.interval, b.by)
    BY <2>2 DEF Logged
  <2>5. KeptApart(log.interval, a.by, b.by)  BY <1>1, <1>3, <2>3, NoConflict
  <2>6. QED  BY <1>3, <2>3, <2>4, <2>5 DEF KeptApart
<1>4. \A a, b \in log.access : a.cell = b.cell /\ a.by # b.by => ~a.write /\ ~b.write
  <2> TAKE a \in log.access, b \in log.access
  <2> HAVE a.cell = b.cell /\ a.by # b.by
  <2> QED  BY <1>3
<1>5. QED  BY <1>2, <1>4 DEF NoRace

(* A launch starts with nothing logged and every thread at its first step. *)
LEMMA KernelInvStarts == KernelInit => KernelInv
<1> SUFFICES ASSUME KernelInit  PROVE KernelInv  OBVIOUS
<1>1. launch \in Launches /\ Shaped(launch)  BY ShapeIs DEF KernelInit
<1>2. /\ DOMAIN at = Threads /\ DOMAIN sync = Threads /\ DOMAIN reg = Threads
      /\ log.interval = 0 /\ log.access = {}
  BY DEF KernelInit
<1>3. ASSUME NEW t \in Threads  PROVE sync[t] = 0 /\ Stands(t, at[t], 0)
  <2>1. sync[t] = 0  BY DEF KernelInit
  <2>2. PICK p, k : /\ p = at[t] /\ k = launch.kernel /\ p[1] = First(k)
                    /\ p[2] = IF k = "scatter" THEN t ELSE 0
    BY DEF KernelInit
  <2>3. k \in {"dot", "argmax", "attn", "flash", "bwd_row", "bwd_kv", "rmsnorm", "scatter",
               "rows", "update", "copy", "rotate"}
    BY <1>1, <2>2 DEF Shaped
  <2>4. CASE k = "flash"
    <3>1. p[1] = "tile" /\ p[2] = 0  BY <2>2, <2>4 DEF First
    <3>2. 0 \in 0..LastTile /\ 4 * 0 + 0 = 0  BY <1>1, <2>2, <2>4, FlashBlock
    <3>3. Flashing(p, 0, 0)  BY <2>2, <2>4, <3>1, <3>2 DEF Flashing
    <3>4. QED  BY <2>1, <2>2, <3>1, <3>3 DEF Stands
  <2>5. CASE k = "scatter"
    <3>1. p[1] \in {"count", "scatter"} /\ p[2] = t  BY <2>2, <2>5 DEF First
    <3>2. t \in 0..(Rows + BlockDim - 1)
      <4>1. launch.idx \in Seq(Nat \cup {Sentinel})  BY <1>1, <2>2, <2>5 DEF Shaped
      <4>2. Rows \in Nat  BY <4>1, LenProperties DEF Rows
      <4>3. BlockDim \in Nat \ {0} /\ t \in 0..(BlockDim - 1)  BY <1>1, BlockIs DEF Threads
      <4>4. QED  BY <4>2, <4>3
    <3>3. QED  BY <2>1, <2>2, <2>5, <3>1, <3>2 DEF Stands
  <2>6. CASE k \in {"dot", "argmax", "attn", "bwd_row", "bwd_kv", "rmsnorm"}
    <3>1. \/ p[1] = "scan" /\ k \in {"dot", "argmax"}
          \/ p[1] = "scores" /\ k = "attn"
          \/ p[1] = "partial" /\ k = "bwd_row"
          \/ p[1] = "chunk" /\ k = "bwd_kv"
          \/ p[1] = "table" /\ k = "rmsnorm"
      BY <2>2, <2>6 DEF First
    <3>2. QED  BY <2>1, <2>2, <3>1 DEF Stands
  <2>7. CASE k \in {"rows", "update", "copy", "rotate"}
    <3>1. p[1] = k /\ p[2] = 0  BY <2>2, <2>7 DEF First
    <3>2. QED  BY <2>1, <2>2, <2>7, <3>1 DEF Stands
  <2>8. QED  BY <2>3, <2>4, <2>5, <2>6, <2>7
<1>4. \A t \in Threads : sync[t] \in Nat /\ Stands(t, at[t], sync[t])  BY <1>3
<1>5. \A t \in Threads : \A i \in 0..(sync[t] - 1) : WriteCells(i, t) \subseteq DOMAIN mem
  <2>1. ASSUME NEW t \in Threads, NEW i \in 0..(sync[t] - 1)  PROVE FALSE  BY <1>3, <2>1
  <2>2. QED  BY <2>1
<1>6. QED  BY <1>1, <1>2, <1>4, <1>5 DEF KernelInv

(* Every step of every thread keeps the invariant.                         *)
LEMMA KernelInvKept == KernelInv /\ [KernelNext]_kernelVars => KernelInv'
<1> SUFFICES ASSUME KernelInv, [KernelNext]_kernelVars  PROVE KernelInv'  OBVIOUS
<1>1. CASE UNCHANGED kernelVars
  <2>1. Same /\ launch' = launch  BY <1>1, SameLaunch DEF kernelVars
  <2>2. at' = at /\ sync' = sync /\ reg' = reg /\ mem' = mem /\ log' = log
    BY <1>1 DEF kernelVars
  <2>3. \A a \in log'.access : (Logged(a))'
    <3>1. \A a \in log.access : Logged(a)  BY DEF KernelInv
    <3>2. QED  BY <2>1, <2>2, <3>1 DEF Same, Logged
  <2>4. \A t \in Threads' : \A i \in 0..(sync'[t] - 1) : (WriteCells(i, t))' \subseteq DOMAIN mem'
    BY <2>1, <2>2 DEF Same, KernelInv
  <2>5. \A t \in Threads' : sync'[t] \in Nat /\ (Stands(t, at[t], sync[t]))'
    BY <2>1, <2>2 DEF Same, KernelInv
  <2>6. DOMAIN at' = Threads' /\ DOMAIN sync' = Threads' /\ DOMAIN reg' = Threads'
    BY <2>1, <2>2 DEF Same, KernelInv
  <2>7. launch' \in Launches /\ log'.interval \in Nat  BY <2>1, <2>2 DEF KernelInv
  <2>8. QED  BY <2>3, <2>4, <2>5, <2>6, <2>7 DEF KernelInv
<1>2. CASE AttnMax  BY <1>2, AttnMaxKeeps
<1>3. CASE AttnSum  BY <1>3, AttnSumKeeps
<1>4. CASE FlashBlockMax  BY <1>4, FlashBlockMaxKeeps
<1>5. ASSUME NEW w \in Warps, FlashWarpMax(w)  PROVE KernelInv'  BY <1>5, FlashWarpMaxKeeps
<1>6. ASSUME NEW t \in Threads
      PROVE  /\ ReduceScan(t) \/ ReduceTree(t) \/ ReduceIdle(t) \/ ReduceOut(t) => KernelInv'
             /\ AttnScores(t) \/ AttnWait(t) \/ AttnMask(t) \/ AttnExp(t) \/ AttnDivide(t) \/
                AttnValues(t) => KernelInv'
             /\ FlashScore(t) \/ FlashLocalMax(t) \/ FlashOtherWarp(t) \/ FlashAccumulate(t) \/
                FlashOut(t) => KernelInv'
             /\ RowPartial(t) \/ RowDot(t) \/ RowGs(t) \/ RowGradQ(t) \/ KvPartial(t) \/
                KvReduce(t) => KernelInv'
             /\ RmsTable(t) \/ RmsGradX(t) \/ RmsGradW(t) => KernelInv'
             /\ CountRow(t) \/ CountEnd(t) \/ ScatterRow(t) \/ ScatterEnd(t) => KernelInv'
             /\ GridRows(t) \/ MeanLoss(t) \/ GridUpdate(t) \/ GridCopy(t) \/ GridRotate(t) =>
                KernelInv'
  <2>1. ReduceScan(t) \/ ReduceTree(t) \/ ReduceIdle(t) \/ ReduceOut(t) => KernelInv'
    BY ReduceScanKeeps, ReduceTreeKeeps, ReduceIdleKeeps, ReduceOutKeeps
  <2>2. AttnScores(t) \/ AttnWait(t) \/ AttnMask(t) \/ AttnExp(t) \/ AttnDivide(t) \/
        AttnValues(t) => KernelInv'
    BY AttnScoresKeeps, AttnWaitKeeps, AttnMaskKeeps, AttnExpKeeps, AttnDivideKeeps,
       AttnValuesKeeps
  <2>3. FlashScore(t) \/ FlashLocalMax(t) \/ FlashOtherWarp(t) \/ FlashAccumulate(t) \/
        FlashOut(t) => KernelInv'
    BY FlashScoreKeeps, FlashLocalMaxKeeps, FlashOtherWarpKeeps, FlashAccumulateKeeps,
       FlashOutKeeps
  <2>4. RowPartial(t) \/ RowDot(t) \/ RowGs(t) \/ RowGradQ(t) \/ KvPartial(t) \/ KvReduce(t) =>
        KernelInv'
    BY RowPartialKeeps, RowDotKeeps, RowGsKeeps, RowGradQKeeps, KvPartialKeeps,
       KvReduceKeeps
  <2>5. RmsTable(t) \/ RmsGradX(t) \/ RmsGradW(t) => KernelInv'
    BY RmsTableKeeps, RmsGradXKeeps, RmsGradWKeeps
  <2>6. CountRow(t) \/ CountEnd(t) \/ ScatterRow(t) \/ ScatterEnd(t) => KernelInv'
    BY CountRowKeeps, CountEndKeeps, ScatterRowKeeps, ScatterEndKeeps
  <2>7. GridRows(t) \/ MeanLoss(t) \/ GridUpdate(t) \/ GridCopy(t) \/ GridRotate(t) => KernelInv'
    BY GridRowsKeeps, MeanLossKeeps, GridUpdateKeeps, GridCopyKeeps, GridRotateKeeps
  <2>8. QED  BY <2>1, <2>2, <2>3, <2>4, <2>5, <2>6, <2>7
<1>7. QED  BY <1>1, <1>2, <1>3, <1>4, <1>5, <1>6 DEF KernelNext

(***************************************************************************)
(* Race freedom, for every block, warp, tile and grid size and every       *)
(* launch of a kernel: between two barriers no two threads touch one cell  *)
(* unless both only read it.                                               *)
(***************************************************************************)
THEOREM KernelsDoNotRace == KernelSpec => []NoRace
BY KernelInvStarts, KernelInvKept, KernelInvHolds, PTL DEF KernelSpec
-----------------------------------------------------------------------------
(***************************************************************************)
(* What the scatter-add computes.  Its threads share cells on purpose, one *)
(* atomicAdd at a time, and race freedom says nothing of it: the invariant *)
(* ties the counts and the table to the rows the threads have passed.      *)
(***************************************************************************)
(* Element k of an ascending sequence has k - 1 elements below it, so that *)
(* an increasing sequence is the ascending sequence of what it holds.      *)
Rank(S, x) == Cardinality({y \in S : y < x})

(* Counting: a set listed once by m places has m elements.                 *)
LEMMA ListedOnce ==
    ASSUME NEW m \in Nat, NEW S, NEW f, DOMAIN f = 1..m,
           \A k \in 1..m : f[k] \in S,
           \A x \in S : \E k \in 1..m : f[k] = x,
           \A j, k \in 1..m : f[j] = f[k] => j = k
    PROVE  IsFiniteSet(S) /\ Cardinality(S) = m
<1> DEFINE g == [k \in 1..m |-> f[k]]
<1>1. g \in Bijection(1..m, S)
  <2>1. g \in [1..m -> S]  OBVIOUS
  <2>2. \A j, k \in DOMAIN g : g[j] = g[k] => j = k  OBVIOUS
  <2>3. \A x \in S : \E k \in 1..m : g[k] = x  OBVIOUS
  <2>4. QED  BY <2>1, <2>2, <2>3 DEF Bijection, Injection, Surjection, IsInjective
<1>2. ExistsBijection(1..m, S)  BY <1>1 DEF ExistsBijection
<1>3. IsFiniteSet(1..m)  BY FS_Interval
<1>4. QED  BY <1>2, <1>3, FS_Bijection, FS_CountingElements

(* In an increasing sequence a place is found by the rank of what it holds. *)
LEMMA IncreasingIsAscending ==
    ASSUME NEW m \in Nat, NEW f, DOMAIN f = 1..m, \A k \in 1..m : f[k] \in Int,
           f = [k \in 1..m |-> f[k]],
           \A j, k \in 1..m : j < k => f[j] < f[k],
           NEW S, S = {f[k] : k \in 1..m}
    PROVE  Ascending(S) = f /\ Cardinality(S) = m
<1>1. \A j, k \in 1..m : f[j] = f[k] => j = k
  <2>1. ASSUME NEW j \in 1..m, NEW k \in 1..m, f[j] = f[k], j # k  PROVE FALSE
    <3>1. j < k \/ k < j  BY <2>1
    <3>2. f[j] < f[k] \/ f[k] < f[j]  BY <3>1
    <3>3. f[j] \in Int /\ f[k] \in Int  OBVIOUS
    <3>4. QED  BY <2>1, <3>2, <3>3
  <2>2. QED  BY <2>1
<1>2. Cardinality(S) = m  BY <1>1, ListedOnce
<1>3. ASSUME NEW k \in 1..m  PROVE Rank(S, f[k]) = k - 1
  <2> DEFINE B == {y \in S : y < f[k]}
  <2>1. PICK n \in Nat : n = k - 1  OBVIOUS
  <2>2. PICK g : g = [j \in 1..n |-> f[j]]  OBVIOUS
  <2>3. \A j \in 1..n : j \in 1..m /\ j < k  BY <2>1
  <2>4. \A j \in 1..n : g[j] \in B  BY <2>2, <2>3
  <2>5. ASSUME NEW x \in B  PROVE \E j \in 1..n : g[j] = x
    <3>1. PICK j \in 1..m : x = f[j]  OBVIOUS
    <3>2. j < k
      <4>1. SUFFICES ASSUME ~(j < k)  PROVE FALSE  OBVIOUS
      <4>2. j = k \/ k < j  BY <4>1
      <4>3. f[k] = f[j] \/ f[k] < f[j]  BY <4>2
      <4>4. f[j] < f[k] /\ f[j] \in Int /\ f[k] \in Int  BY <3>1
      <4>5. QED  BY <4>3, <4>4
    <3>3. j \in 1..n  BY <2>1, <3>2
    <3>4. QED  BY <2>2, <3>1, <3>3
  <2>6. \A i, j \in 1..n : g[i] = g[j] => i = j  BY <1>1, <2>2, <2>3
  <2>7. Cardinality(B) = n
    <3> HIDE DEF B
    <3>1. DOMAIN g = 1..n  BY <2>2
    <3>2. QED  BY <2>4, <2>5, <2>6, <3>1, ListedOnce
  <2>8. QED  BY <2>1, <2>7 DEF Rank
<1>4. ASSUME NEW k \in 1..m  PROVE f[k] = CHOOSE x \in S : Rank(S, x) = k - 1
  <2>1. f[k] \in S /\ Rank(S, f[k]) = k - 1  BY <1>3
  <2>2. ASSUME NEW x \in S, Rank(S, x) = k - 1  PROVE x = f[k]
    <3>1. PICK j \in 1..m : x = f[j]  OBVIOUS
    <3>2. Rank(S, x) = j - 1  BY <1>3, <3>1
    <3>3. j = k  BY <2>2, <3>2
    <3>4. QED  BY <3>1, <3>3
  <2>3. QED  BY <2>1, <2>2
<1>5. Ascending(S) = [k \in 1..m |-> CHOOSE x \in S : Rank(S, x) = k - 1]
  BY <1>2 DEF Ascending, Rank
<1>6. QED  BY <1>2, <1>4, <1>5

(* A finite set of integers has one element of every rank: its ascending   *)
(* sequence lists it, each element once.                                   *)
LEMMA AscendingLists ==
    ASSUME NEW S \in SUBSET Int, IsFiniteSet(S), NEW m, m = Cardinality(S)
    PROVE  /\ m \in Nat /\ DOMAIN Ascending(S) = 1..m
           /\ \A k \in 1..m : Ascending(S)[k] \in S
           /\ \A x \in S : \E k \in 1..m : Ascending(S)[k] = x
           /\ \A j, k \in 1..m : Ascending(S)[j] = Ascending(S)[k] => j = k
<1>1. m \in Nat  BY FS_CardinalityType
<1> DEFINE Below(x) == {y \in S : y < x}
<1>2. \A x : Below(x) \in SUBSET S /\ IsFiniteSet(Below(x)) /\ Rank(S, x) \in Nat
  BY FS_Subset, FS_CardinalityType DEF Rank
<1>3. ASSUME NEW x \in S, NEW y \in S, x < y  PROVE Rank(S, x) < Rank(S, y)
  <2>1. x \in Int /\ y \in Int  OBVIOUS
  <2>2. \A z \in S : z < x => z < y  BY <1>3, <2>1
  <2>3. Below(x) \in SUBSET Below(y)  BY <2>2
  <2>4. x \in Below(y) /\ x \notin Below(x)  BY <1>3, <2>1
  <2> HIDE DEF Below
  <2>5. Below(x) # Below(y)  BY <2>4
  <2>6. /\ Cardinality(Below(x)) <= Cardinality(Below(y))
        /\ Cardinality(Below(x)) # Cardinality(Below(y))
    BY <1>2, <2>3, <2>5, FS_Subset
  <2>7. Rank(S, x) <= Rank(S, y) /\ Rank(S, x) # Rank(S, y)  BY <2>6 DEF Rank, Below
  <2>8. QED  BY <1>2, <2>7
<1>4. ASSUME NEW x \in S  PROVE Rank(S, x) \in 0..(m - 1)
  <2>1. x \notin Below(x) /\ x \in Int  OBVIOUS
  <2>2. Cardinality(Below(x)) <= m /\ Cardinality(Below(x)) # m
    <3>1. Below(x) # S  BY <2>1
    <3> HIDE DEF Below
    <3>2. QED  BY <1>2, <3>1, FS_Subset
  <2>3. Rank(S, x) <= m /\ Rank(S, x) # m  BY <2>2 DEF Rank
  <2>4. PICK r \in Nat : r = Rank(S, x)  BY <1>2
  <2>5. r \in 0..(m - 1)  BY <1>1, <2>3, <2>4
  <2>6. QED  BY <2>4, <2>5
<1>5. \A x, y \in S : Rank(S, x) = Rank(S, y) => x = y
  <2>1. ASSUME NEW x \in S, NEW y \in S, Rank(S, x) = Rank(S, y), x # y  PROVE FALSE
    <3>1. x \in Int /\ y \in Int  OBVIOUS
    <3>2. x < y \/ y < x  BY <2>1, <3>1
    <3>3. Rank(S, x) < Rank(S, y) \/ Rank(S, y) < Rank(S, x)  BY <1>3, <3>2
    <3>4. Rank(S, x) \in Nat /\ Rank(S, y) \in Nat  BY <1>2
    <3>5. QED  BY <2>1, <3>3, <3>4
  <2>2. QED  BY <2>1
<1>6. PICK r : r = [x \in S |-> Rank(S, x)]  OBVIOUS
<1>7. r \in Injection(S, 0..(m - 1))
  <2>1. r \in [S -> 0..(m - 1)]  BY <1>4, <1>6
  <2>2. \A x, y \in DOMAIN r : r[x] = r[y] => x = y  BY <1>5, <1>6
  <2>3. QED  BY <2>1, <2>2 DEF Injection, IsInjective
<1>8. r \in Surjection(S, 0..(m - 1))
  <2>1. PICK N : N = 0..(m - 1)  OBVIOUS
  <2>2. IsFiniteSet(N) /\ Cardinality(N) = m
    <3>1. m - 1 \in Int /\ 0 \in Int  BY <1>1
    <3>2. IsFiniteSet(0..(m - 1)) /\ Cardinality(0..(m - 1)) = IF 0 > m - 1 THEN 0 ELSE m - 1 - 0 + 1
      BY <3>1, FS_Interval
    <3>3. QED  BY <1>1, <2>1, <3>2
  <2>3. r \in Injection(S, N)  BY <1>7, <2>1
  <2>4. r \in Surjection(S, N)  BY <2>2, <2>3, FS_Injection
  <2>5. QED  BY <2>1, <2>4
<1>9. ASSUME NEW k \in 1..m  PROVE Ascending(S)[k] \in S /\ Rank(S, Ascending(S)[k]) = k - 1
  <2>1. k - 1 \in 0..(m - 1)  BY <1>1
  <2>2. \E x \in S : Rank(S, x) = k - 1  BY <1>6, <1>8, <2>1 DEF Surjection
  <2>3. Ascending(S)[k] = CHOOSE x \in S : Rank(S, x) = k - 1  BY DEF Ascending, Rank
  <2>4. QED  BY <2>2, <2>3
<1>10. ASSUME NEW x \in S  PROVE \E k \in 1..m : Ascending(S)[k] = x
  <2>1. PICK k : k = Rank(S, x) + 1  OBVIOUS
  <2>2. k \in 1..m /\ k - 1 = Rank(S, x)
    <3>1. PICK q \in 0..(m - 1) : q = Rank(S, x)  BY <1>4
    <3>2. QED  BY <1>1, <2>1, <3>1
  <2>3. Ascending(S)[k] \in S /\ Rank(S, Ascending(S)[k]) = Rank(S, x)  BY <1>9, <2>2
  <2>4. QED  BY <1>5, <2>2, <2>3
<1>11. \A j, k \in 1..m : Ascending(S)[j] = Ascending(S)[k] => j = k
  <2>1. ASSUME NEW j \in 1..m, NEW k \in 1..m, Ascending(S)[j] = Ascending(S)[k]  PROVE j = k
    <3>1. j - 1 = k - 1  BY <1>9, <2>1
    <3>2. QED  BY <1>1, <3>1
  <2>2. QED  BY <2>1
<1>12. DOMAIN Ascending(S) = 1..m  BY DEF Ascending
<1>13. QED  BY <1>1, <1>9, <1>10, <1>11, <1>12
(***************************************************************************)
(* The rows sent to a table entry; those its threads have counted, and     *)
(* those they have added, which is told from where each thread is.         *)
(***************************************************************************)
SentTo(id) == {i \in 0..(Rows - 1) : launch.idx[i + 1] = id}
Counted(p, i) == p[1] = "count" => i < p[2]
Added(p, i) == p = Done \/ (p[1] = "scatter" /\ i < p[2])
CountedRows(id) == {i \in SentTo(id) : Counted(at[i % BlockDim], i)}
AddedRows(id) == {i \in SentTo(id) : Added(at[i % BlockDim], i)}
Scale(id) == IF launch.norm THEN Cardinality(SentTo(id)) ELSE 1

(* A list of these rows, once each, in row order if that is to be kept.    *)
Lists(cell, rows, scale, ordered) ==
    /\ cell \in Seq([row : Nat, over : Nat])
    /\ \A k \in DOMAIN cell : cell[k].row \in rows /\ cell[k].over = scale
    /\ \A i \in rows : \E k \in DOMAIN cell : cell[k].row = i
    /\ \A j, k \in DOMAIN cell : cell[j].row = cell[k].row => j = k
    /\ ordered => \A j, k \in DOMAIN cell : j < k => cell[j].row < cell[k].row

(* Where a thread of the scatter-add is; it scatters when all have counted. *)
ScatterPlace(t, p, n) ==
    /\ p = Done \/ (p[1] \in {"count", "scatter"} /\ p[2] \in Nat /\ p[2] % BlockDim = t)
    /\ p[1] = "count" => launch.norm /\ n = 0
    /\ p[1] = "scatter" /\ launch.norm => n >= 1

ScatterInv ==
    launch.kernel = "scatter" =>
        /\ \A t \in Threads : ScatterPlace(t, at[t], sync[t])
        /\ \A id \in Entries(launch.idx) :
            /\ {Cell("count", id), Cell("table", id)} \subseteq DOMAIN mem
            /\ launch.norm => mem[Cell("count", id)] = Cardinality(CountedRows(id))
            /\ Lists(mem[Cell("table", id)], AddedRows(id), Scale(id), launch.det)

(* The sizes of a scatter-add, and the entries it is sent to.              *)
LEMMA ScatterShape ==
    ASSUME launch \in Launches, launch.kernel = "scatter"
    PROVE  /\ Rows \in Nat /\ BlockDim \in Nat \ {0} /\ Threads = 0..(BlockDim - 1)
           /\ launch.norm \in BOOLEAN /\ launch.det \in BOOLEAN
           /\ launch.det => BlockDim = 1
           /\ \A i \in 0..(Rows - 1) : launch.idx[i + 1] # Sentinel =>
                                            launch.idx[i + 1] \in Entries(launch.idx)
           /\ Sentinel \notin Entries(launch.idx)
<1>1. /\ launch.idx \in Seq(Nat \cup {Sentinel}) /\ launch.norm \in BOOLEAN /\ launch.det \in BOOLEAN
  BY ShapeIs DEF Shaped
<1>2. Rows \in Nat /\ DOMAIN launch.idx = 1..Rows  BY <1>1, LenProperties DEF Rows
<1>3. BlockDim \in Nat \ {0} /\ Threads = 0..(BlockDim - 1)  BY BlockIs DEF Threads
<1>4. launch.det => BlockDim = 1  BY DEF BlockDim
<1>5. \A i \in 0..(Rows - 1) : i + 1 \in 1..Rows  BY <1>2
<1>6. QED  BY <1>1, <1>2, <1>3, <1>4, <1>5 DEF Entries

(* Nothing of this changes with the state of the threads.                  *)
LEMMA SameScatter ==
    ASSUME launch' = launch
    PROVE  /\ BlockDim' = BlockDim /\ Rows' = Rows /\ Threads' = Threads
           /\ \A id : (SentTo(id))' = SentTo(id) /\ (Scale(id))' = Scale(id)
           /\ \A t, p, n : (ScatterPlace(t, p, n))' = ScatterPlace(t, p, n)
           /\ \A id : (CountedRows(id))' = {i \in SentTo(id) : Counted(at'[i % BlockDim], i)}
           /\ \A id : (AddedRows(id))' = {i \in SentTo(id) : Added(at'[i % BlockDim], i)}
<1>1. BlockDim' = BlockDim /\ Rows' = Rows /\ Threads' = Threads
  BY DEF BlockDim, Rows, Threads
<1>2. \A id : (SentTo(id))' = SentTo(id)  BY <1>1 DEF SentTo
<1>3. \A id : (Scale(id))' = Scale(id)  BY <1>2 DEF Scale
<1>4. \A t, p, n : (ScatterPlace(t, p, n))' = ScatterPlace(t, p, n)  BY <1>1 DEF ScatterPlace
<1>5. \A id : (CountedRows(id))' = {i \in SentTo(id) : Counted(at'[i % BlockDim], i)}
  BY <1>1, <1>2 DEF CountedRows, Counted
<1>6. \A id : (AddedRows(id))' = {i \in SentTo(id) : Added(at'[i % BlockDim], i)}
  BY <1>1, <1>2 DEF AddedRows, Added
<1>7. QED  BY <1>1, <1>2, <1>3, <1>4, <1>5, <1>6

(* A thread walks its column of the rows one by one.                       *)
LEMMA OwnColumn ==
    ASSUME NEW b \in Nat \ {0}, NEW i \in Nat
    PROVE  /\ (i + b) % b = i % b
           /\ \A j \in Nat : j % b = i % b /\ i <= j /\ j < i + b => j = i
           /\ i % b \in 0..(b - 1) /\ i % b <= i
           /\ i \in 0..(b - 1) => i % b = i
<1>1. PICK q \in Nat, r \in 0..(b - 1) : i = b * q + r /\ r = i % b  BY DivisionIs
<1>2. (i + b) % b = r
  <2>1. i + b \in Nat /\ q + 1 \in Int /\ i + b = b * (q + 1) + r  BY <1>1
  <2>2. QED  BY <2>1, RemainderIs
<1>3. ASSUME NEW j \in Nat, j % b = i % b, i <= j, j < i + b  PROVE j = i
  <2>1. PICK p \in Nat, s \in 0..(b - 1) : j = b * p + s /\ s = j % b  BY DivisionIs
  <2>2. j - i = b * p - b * q /\ s = r  BY <1>1, <1>3, <2>1
  <2>3. CASE p = q  BY <1>1, <2>1, <2>2, <2>3
  <2>4. CASE p >= q + 1
    <3>1. b * p >= b * q + b  BY <2>4
    <3>2. QED  BY <1>1, <1>3, <2>1, <2>2, <3>1
  <2>5. CASE q >= p + 1
    <3>1. b * q >= b * p + b  BY <2>5
    <3>2. QED  BY <1>1, <1>3, <2>1, <2>2, <3>1
  <2>6. QED  BY <2>3, <2>4, <2>5
<1>4. r <= i
  <2>1. b * q >= 0  BY <1>1
  <2>2. QED  BY <1>1, <2>1
<1>5. i \in 0..(b - 1) => i % b = i
  <2>1. 0 \in Int /\ i = b * 0 + i  OBVIOUS
  <2>2. QED  BY <2>1, RemainderIs
<1>6. QED  BY <1>1, <1>2, <1>3, <1>4, <1>5

(* Another row goes to the end of the list.                                *)
LEMMA ListGrows ==
    ASSUME NEW cell, NEW rows, NEW scale \in Nat, NEW ordered \in BOOLEAN,
           Lists(cell, rows, scale, ordered),
           NEW i \in Nat, i \notin rows, ordered => \A x \in rows : x < i
    PROVE  Lists(Append(cell, [row |-> i, over |-> scale]), rows \cup {i}, scale, ordered)
<1>1. PICK e : e = [row |-> i, over |-> scale]  OBVIOUS
<1>2. e \in [row : Nat, over : Nat] /\ e.row = i /\ e.over = scale  BY <1>1
<1>3. PICK new : new = Append(cell, e)  OBVIOUS
<1>4. cell \in Seq([row : Nat, over : Nat])  BY DEF Lists
<1>5. PICK n \in Nat : n = Len(cell) /\ DOMAIN cell = 1..n  BY <1>4, LenProperties
<1>6. /\ new \in Seq([row : Nat, over : Nat]) /\ DOMAIN new = 1..(n + 1)
      /\ new[n + 1] = e /\ \A k \in 1..n : new[k] = cell[k]
  BY <1>2, <1>3, <1>4, <1>5, AppendProperties, LenProperties
<1>7. ASSUME NEW k \in DOMAIN new  PROVE k \in 1..n \/ k = n + 1  BY <1>5, <1>6
<1>8. ASSUME NEW k \in 1..n
      PROVE  new[k].row \in rows /\ new[k].over = scale /\ new[k].row # i
  BY <1>5, <1>6 DEF Lists
<1>9. \A k \in DOMAIN new : new[k].row \in rows \cup {i} /\ new[k].over = scale
  BY <1>2, <1>6, <1>7, <1>8
<1>10. \A x \in rows \cup {i} : \E k \in DOMAIN new : new[k].row = x
  <2>1. ASSUME NEW x \in rows  PROVE \E k \in DOMAIN new : new[k].row = x
    <3>1. PICK k \in 1..n : cell[k].row = x  BY <1>5 DEF Lists
    <3>2. k \in 1..(n + 1)  BY <1>5
    <3>3. QED  BY <1>6, <3>1, <3>2
  <2>2. n + 1 \in 1..(n + 1)  BY <1>5
  <2>3. QED  BY <1>2, <1>6, <2>1, <2>2
<1>11. ASSUME NEW j \in DOMAIN new, NEW k \in DOMAIN new, new[j].row = new[k].row  PROVE j = k
  <2>1. CASE j \in 1..n /\ k \in 1..n  BY <1>5, <1>6, <1>11, <2>1 DEF Lists
  <2>2. CASE j = n + 1 /\ k \in 1..n  BY <1>2, <1>6, <1>8, <1>11, <2>2
  <2>3. CASE k = n + 1 /\ j \in 1..n  BY <1>2, <1>6, <1>8, <1>11, <2>3
  <2>4. QED  BY <1>7, <2>1, <2>2, <2>3
<1>12. ASSUME ordered, NEW j \in DOMAIN new, NEW k \in DOMAIN new, j < k
       PROVE  new[j].row < new[k].row
  <2>1. j \in 1..n  BY <1>5, <1>6, <1>12
  <2>2. CASE k \in 1..n  BY <1>5, <1>6, <1>12, <2>1, <2>2 DEF Lists
  <2>3. CASE k = n + 1  BY <1>2, <1>6, <1>8, <1>12, <2>1, <2>3
  <2>4. QED  BY <1>7, <2>2, <2>3
<1>13. Lists(new, rows \cup {i}, scale, ordered)
  BY <1>6, <1>9, <1>10, <1>11, <1>12 DEF Lists
<1>14. QED  BY <1>1, <1>3, <1>13


(* A thread at row i of its column goes on to the next: row i is done, no other. *)
LEMMA RowPassed ==
    ASSUME KernelInv, ScatterInv, launch.kernel = "scatter", NEW t \in Threads,
           NEW label \in {"count", "scatter"}, at[t][1] = label, NEW i, i = at[t][2], i < Rows,
           Next1(t, label), launch' = launch, sync' = sync
    PROVE  /\ i \in 0..(Rows - 1) /\ i % BlockDim = t
           /\ \A id : label = "count" =>
                /\ (CountedRows(id))' = CountedRows(id) \cup ({i} \cap SentTo(id))
                /\ (AddedRows(id))' = AddedRows(id)
           /\ \A id : label = "scatter" =>
                /\ (AddedRows(id))' = AddedRows(id) \cup ({i} \cap SentTo(id))
                /\ (CountedRows(id))' = CountedRows(id)
           /\ label = "count" => \A id : i \notin CountedRows(id)
           /\ label = "scatter" => \A id : i \notin AddedRows(id)
           /\ \A u \in Threads : (ScatterPlace(u, at[u], sync[u]))'
<1>1. /\ Rows \in Nat /\ BlockDim \in Nat \ {0} /\ Threads = 0..(BlockDim - 1)
      /\ DOMAIN at = Threads
  BY ScatterShape DEF KernelInv
<1>2. ScatterPlace(t, at[t], sync[t]) /\ at[t][1] = label  BY DEF ScatterInv
<1>3. i \in Nat /\ i % BlockDim = t  BY <1>2 DEF ScatterPlace, Done
<1>4. at'[t] = <<label, i + BlockDim>> /\ \A u \in Threads : u # t => at'[u] = at[u]
  BY <1>1 DEF Next1
<1>5. i \in 0..(Rows - 1)  BY <1>1, <1>3
<1>6. ASSUME NEW j \in 0..(Rows - 1)
      PROVE  /\ j \in Nat /\ j % BlockDim \in Threads
             /\ j % BlockDim = t => (j < i + BlockDim <=> j < i \/ j = i)
  <2>1. j \in Nat  BY <1>1
  <2>2. j % BlockDim \in Threads  BY <1>1, <2>1, OwnColumn
  <2>3. j % BlockDim = t /\ i <= j /\ j < i + BlockDim => j = i
    <3>1. PICK b \in Nat \ {0} : b = BlockDim  BY <1>1
    <3>2. \A k \in Nat : k % b = i % b /\ i <= k /\ k < i + b => k = i  BY <1>3, OwnColumn
    <3>3. QED  BY <1>3, <2>1, <3>1, <3>2
  <2>4. QED  BY <1>1, <1>3, <2>1, <2>2, <2>3
<1>7. ASSUME NEW j \in 0..(Rows - 1)
      PROVE  /\ label = "count" =>
                    /\ Counted(at'[j % BlockDim], j) <=> Counted(at[j % BlockDim], j) \/ j = i
                    /\ Added(at'[j % BlockDim], j) <=> Added(at[j % BlockDim], j)
             /\ label = "scatter" =>
                    /\ Added(at'[j % BlockDim], j) <=> Added(at[j % BlockDim], j) \/ j = i
                    /\ Counted(at'[j % BlockDim], j) <=> Counted(at[j % BlockDim], j)
  <2>1. PICK u : u = j % BlockDim  OBVIOUS
  <2>2. CASE u # t
    <3>1. at'[u] = at[u] /\ j # i  BY <1>3, <1>4, <1>6, <2>1, <2>2
    <3>2. QED  BY <2>1, <3>1
  <2>3. CASE u = t
    <3>1. j < i + BlockDim <=> j < i \/ j = i  BY <1>6, <2>1, <2>3
    <3>2. PICK p, q : /\ p = at[t] /\ q = at'[t] /\ p[1] = label /\ p[2] = i
                      /\ q[1] = label /\ q[2] = i + BlockDim /\ p # Done /\ q # Done
      <4>1. PICK p : p = at[t] /\ p[1] = label /\ p[2] = i  OBVIOUS
      <4>2. PICK n : n = i + BlockDim  OBVIOUS
      <4>3. PICK q : q = at'[t] /\ q[1] = label /\ q[2] = n  BY <1>4, <4>2
      <4>4. p # Done /\ q # Done  BY <4>1, <4>3 DEF Done
      <4>5. QED  BY <4>1, <4>2, <4>3, <4>4
    <3>3. label = "count" => (Counted(q, j) <=> Counted(p, j) \/ j = i) /\ ~Added(p, j) /\ ~Added(q, j)
      BY <3>1, <3>2 DEF Counted, Added
    <3>4. label = "scatter" => (Added(q, j) <=> Added(p, j) \/ j = i) /\ Counted(p, j) /\ Counted(q, j)
      BY <3>1, <3>2 DEF Counted, Added
    <3>5. QED  BY <2>1, <2>3, <3>2, <3>3, <3>4
  <2>4. QED  BY <2>2, <2>3
<1>8. ASSUME NEW id
      PROVE  /\ label = "count" =>
                    /\ (CountedRows(id))' = CountedRows(id) \cup ({i} \cap SentTo(id))
                    /\ (AddedRows(id))' = AddedRows(id)
             /\ label = "scatter" =>
                    /\ (AddedRows(id))' = AddedRows(id) \cup ({i} \cap SentTo(id))
                    /\ (CountedRows(id))' = CountedRows(id)
  <2>1. PICK C : C = (CountedRows(id))'  OBVIOUS
  <2>2. PICK A : A = (AddedRows(id))'  OBVIOUS
  <2>3. /\ C = {j \in SentTo(id) : Counted(at'[j % BlockDim], j)}
        /\ A = {j \in SentTo(id) : Added(at'[j % BlockDim], j)}
    BY <2>1, <2>2, SameScatter
  <2>4. \A j \in SentTo(id) : j \in 0..(Rows - 1)  BY DEF SentTo
  <2>5. label = "count" => C = CountedRows(id) \cup ({i} \cap SentTo(id)) /\ A = AddedRows(id)
    BY <1>7, <2>3, <2>4 DEF CountedRows, AddedRows
  <2>6. label = "scatter" => A = AddedRows(id) \cup ({i} \cap SentTo(id)) /\ C = CountedRows(id)
    BY <1>7, <2>3, <2>4 DEF CountedRows, AddedRows
  <2>7. QED  BY <2>1, <2>2, <2>5, <2>6
<1>9. /\ label = "count" => ~Counted(at[t], i)
      /\ label = "scatter" => ~Added(at[t], i)
  BY <1>2, <1>3 DEF Counted, Added, Done
<1>10. /\ label = "count" => \A id : i \notin CountedRows(id)
       /\ label = "scatter" => \A id : i \notin AddedRows(id)
  BY <1>3, <1>9 DEF CountedRows, AddedRows
<1>11. ASSUME NEW u \in Threads  PROVE ScatterPlace(u, at'[u], sync[u])
  <2>1. CASE u # t  BY <1>4, <2>1 DEF ScatterInv
  <2>2. CASE u = t
    <3>1. PICK p : p = at'[t] /\ p[1] = label /\ p[2] = i + BlockDim  BY <1>4
    <3>2. p[2] \in Nat /\ p[2] % BlockDim = t
      <4>1. PICK b \in Nat \ {0} : b = BlockDim  BY <1>1
      <4>2. PICK k \in Nat : k = i  BY <1>3
      <4>3. k + b \in Nat  OBVIOUS
      <4>4. (k + b) % b = k % b  BY Zenon, OwnColumn
      <4>5. QED  BY <1>3, <3>1, <4>1, <4>2, <4>3, <4>4
    <3>3. label = "count" => launch.norm /\ sync[t] = 0  BY <1>2 DEF ScatterPlace
    <3>4. label = "scatter" /\ launch.norm => sync[t] >= 1  BY <1>2 DEF ScatterPlace
    <3>5. ScatterPlace(t, p, sync[t])  BY <3>1, <3>2, <3>3, <3>4 DEF ScatterPlace
    <3>6. QED  BY <2>2, <3>1, <3>5
  <2>3. QED  BY <2>1, <2>2
<1>12. \A u \in Threads : (ScatterPlace(u, at[u], sync[u]))'
  <2>1. \A u \in Threads : ScatterPlace(u, at'[u], sync'[u])  BY <1>11
  <2>2. QED  BY <2>1, SameScatter
<1>13. QED  BY <1>3, <1>5, <1>8, <1>10, <1>12

(* The rows of an entry are finitely many naturals.                        *)
LEMMA SentFinite ==
    ASSUME launch \in Launches, launch.kernel = "scatter", NEW id
    PROVE  /\ IsFiniteSet(SentTo(id)) /\ SentTo(id) \in SUBSET Nat /\ Scale(id) \in Nat
           /\ IsFiniteSet(CountedRows(id)) /\ Cardinality(CountedRows(id)) \in Nat
           /\ CountedRows(id) \subseteq SentTo(id) /\ AddedRows(id) \subseteq SentTo(id)
<1>1. Rows \in Nat  BY ScatterShape
<1>2. PICK N : N = 0..(Rows - 1) /\ IsFiniteSet(N) /\ N \subseteq Nat
  <2>1. 0 \in Int /\ Rows - 1 \in Int  BY <1>1
  <2>2. IsFiniteSet(0..(Rows - 1))  BY <2>1, FS_Interval
  <2>3. 0..(Rows - 1) \subseteq Nat  BY <1>1
  <2>4. QED  BY <2>2, <2>3
<1>3. SentTo(id) \in SUBSET N  BY <1>2 DEF SentTo
<1>4. IsFiniteSet(SentTo(id))  BY <1>2, <1>3, FS_Subset
<1>5. CountedRows(id) \in SUBSET SentTo(id) /\ AddedRows(id) \in SUBSET SentTo(id)
  BY DEF CountedRows, AddedRows
<1>6. IsFiniteSet(CountedRows(id))  BY <1>4, <1>5, FS_Subset
<1>7. Cardinality(CountedRows(id)) \in Nat /\ Cardinality(SentTo(id)) \in Nat
  BY <1>4, <1>6, FS_CardinalityType
<1>8. QED  BY <1>2, <1>3, <1>4, <1>5, <1>6, <1>7 DEF Scale

(* A row counted is one more in the count of its entry.                    *)
LEMMA CountRowAgrees ==
    ASSUME KernelInv, ScatterInv, launch.kernel = "scatter", NEW t \in Threads, CountRow(t)
    PROVE  ScatterInv'
<1>1. PICK i, x : i = at[t][2] /\ x = launch.idx[i + 1]  OBVIOUS
<1>2. /\ at[t][1] = "count" /\ i < Rows /\ Next1(t, "count") /\ launch' = launch /\ sync' = sync
      /\ IF x = Sentinel THEN mem' = mem ELSE Atomic(Cell("count", x), mem[Cell("count", x)] + 1)
  BY <1>1 DEF CountRow
<1>3. launch \in Launches  BY DEF KernelInv
<1>4. /\ i \in 0..(Rows - 1) /\ \A id : i \notin CountedRows(id)
      /\ \A id : /\ (CountedRows(id))' = CountedRows(id) \cup ({i} \cap SentTo(id))
                 /\ (AddedRows(id))' = AddedRows(id)
      /\ \A u \in Threads : (ScatterPlace(u, at[u], sync[u]))'
  BY <1>1, <1>2, RowPassed
<1>5. launch.norm  BY <1>2 DEF ScatterInv, ScatterPlace, Done
<1>9. Sentinel \notin Entries(launch.idx)  BY <1>3, ScatterShape
<1>6. ASSUME NEW id \in Entries(launch.idx)
      PROVE  /\ {Cell("count", id), Cell("table", id)} \subseteq DOMAIN mem'
             /\ mem'[Cell("count", id)] = Cardinality((CountedRows(id))')
             /\ Lists(mem'[Cell("table", id)], (AddedRows(id))', Scale(id), launch.det)
  <2>1. /\ {Cell("count", id), Cell("table", id)} \subseteq DOMAIN mem
        /\ mem[Cell("count", id)] = Cardinality(CountedRows(id))
        /\ Lists(mem[Cell("table", id)], AddedRows(id), Scale(id), launch.det)
    BY <1>5 DEF ScatterInv
  <2>2. DOMAIN mem' = DOMAIN mem /\ mem'[Cell("table", id)] = mem[Cell("table", id)]
    BY <1>2, <2>1 DEF Atomic, Cell
  <2>3. CASE x # id
    <3>1. mem'[Cell("count", id)] = mem[Cell("count", id)]  BY <1>2, <2>1, <2>3 DEF Atomic, Cell
    <3>2. i \notin SentTo(id)  BY <1>1, <2>3 DEF SentTo
    <3>3. (CountedRows(id))' = CountedRows(id)  BY <1>4, <3>2
    <3>4. QED  BY <1>4, <2>1, <2>2, <3>1, <3>3
  <2>4. CASE x = id
    <3>1. x # Sentinel  BY <1>9, <2>4
    <3>2. mem'[Cell("count", id)] = mem[Cell("count", id)] + 1  BY <1>2, <2>1, <2>4, <3>1 DEF Atomic
    <3>3. i \in SentTo(id)  BY <1>1, <1>4, <2>4 DEF SentTo
    <3>4. (CountedRows(id))' = CountedRows(id) \cup {i} /\ i \notin CountedRows(id)  BY <1>4, <3>3
    <3>5. IsFiniteSet(CountedRows(id))  BY <1>3, SentFinite
    <3>6. Cardinality(CountedRows(id) \cup {i}) = Cardinality(CountedRows(id)) + 1
      BY <3>4, <3>5, FS_AddElement
    <3>7. QED  BY <1>4, <2>1, <2>2, <3>2, <3>4, <3>6
  <2>5. QED  BY <2>3, <2>4
<1>7. launch' = launch /\ Threads' = Threads /\ \A id : (Scale(id))' = Scale(id)
  BY <1>2, SameScatter
<1>8. QED  BY <1>4, <1>6, <1>7 DEF ScatterInv, Entries

(* A row added is one more in the list of its entry, scaled by its count.  *)
LEMMA ScatterRowAgrees ==
    ASSUME KernelInv, ScatterInv, launch.kernel = "scatter", NEW t \in Threads, ScatterRow(t)
    PROVE  ScatterInv'
<1>1. PICK i, x : i = at[t][2] /\ x = launch.idx[i + 1]  OBVIOUS
<1>2. PICK over : over = IF launch.norm THEN mem[Cell("count", x)] ELSE 1  OBVIOUS
<1>3. /\ at[t][1] = "scatter" /\ i < Rows /\ Next1(t, "scatter") /\ launch' = launch /\ sync' = sync
      /\ Passed(t)
      /\ IF x = Sentinel THEN mem' = mem
         ELSE Atomic(Cell("table", x), Append(mem[Cell("table", x)], [row |-> i, over |-> over]))
  BY <1>1, <1>2 DEF ScatterRow
<1>4. launch \in Launches  BY DEF KernelInv
<1>5. /\ i \in 0..(Rows - 1) /\ i % BlockDim = t /\ \A id : i \notin AddedRows(id)
      /\ \A id : /\ (AddedRows(id))' = AddedRows(id) \cup ({i} \cap SentTo(id))
                 /\ (CountedRows(id))' = CountedRows(id)
      /\ \A u \in Threads : (ScatterPlace(u, at[u], sync[u]))'
  BY <1>1, <1>3, RowPassed
<1>6. /\ Rows \in Nat /\ BlockDim \in Nat \ {0} /\ Threads = 0..(BlockDim - 1)
      /\ launch.norm \in BOOLEAN /\ launch.det \in BOOLEAN
      /\ Sentinel \notin Entries(launch.idx)
      /\ launch.det => BlockDim = 1
  BY <1>4, ScatterShape
<1>7. ASSUME launch.norm, NEW id  PROVE CountedRows(id) = SentTo(id)
  <2>1. sync[t] >= 1  BY <1>3, <1>7 DEF ScatterInv, ScatterPlace
  <2>2. ASSUME NEW u \in Threads  PROVE at[u][1] # "count"
    <3>1. sync[u] >= sync[t] /\ sync[u] \in Nat /\ sync[t] \in Nat
      BY <1>3, Standing DEF Passed
    <3>2. sync[u] # 0  BY <2>1, <3>1
    <3>3. QED  BY <3>2 DEF ScatterInv, ScatterPlace
  <2>3. ASSUME NEW j \in SentTo(id)  PROVE Counted(at[j % BlockDim], j)
    <3>1. j \in Nat  BY <1>6 DEF SentTo
    <3>2. j % BlockDim \in Threads  BY <1>6, <3>1, OwnColumn
    <3>3. QED  BY <2>2, <3>2 DEF Counted
  <2>4. QED  BY <2>3 DEF CountedRows
<1>8. ASSUME NEW id \in Entries(launch.idx)
      PROVE  /\ {Cell("count", id), Cell("table", id)} \subseteq DOMAIN mem'
             /\ launch.norm => mem'[Cell("count", id)] = Cardinality((CountedRows(id))')
             /\ Lists(mem'[Cell("table", id)], (AddedRows(id))', Scale(id), launch.det)
  <2>1. /\ {Cell("count", id), Cell("table", id)} \subseteq DOMAIN mem
        /\ launch.norm => mem[Cell("count", id)] = Cardinality(CountedRows(id))
        /\ Lists(mem[Cell("table", id)], AddedRows(id), Scale(id), launch.det)
    BY DEF ScatterInv
  <2>2. DOMAIN mem' = DOMAIN mem /\ mem'[Cell("count", id)] = mem[Cell("count", id)]
    BY <1>3, <2>1 DEF Atomic, Cell
  <2>3. CASE x # id
    <3>1. mem'[Cell("table", id)] = mem[Cell("table", id)]  BY <1>3, <2>1, <2>3 DEF Atomic, Cell
    <3>2. i \notin SentTo(id)  BY <1>1, <2>3 DEF SentTo
    <3>3. (AddedRows(id))' = AddedRows(id)  BY <1>5, <3>2
    <3>4. QED  BY <1>5, <2>1, <2>2, <3>1, <3>3
  <2>4. CASE x = id
    <3>1. x # Sentinel  BY <1>6, <2>4
    <3>2. mem'[Cell("table", id)] = Append(mem[Cell("table", id)], [row |-> i, over |-> over])
      BY <1>3, <2>1, <2>4, <3>1 DEF Atomic
    <3>3. i \in SentTo(id) /\ i \in Nat
      <4>1. i \in Nat  BY <1>5, <1>6
      <4>2. i \in SentTo(id)  BY <1>1, <1>5, <2>4 DEF SentTo
      <4>3. QED  BY <4>1, <4>2
    <3>4. (AddedRows(id))' = AddedRows(id) \cup {i} /\ i \notin AddedRows(id)  BY <1>5, <3>3
    <3>5. over = Scale(id)
      <4>1. CASE launch.norm  BY <1>2, <1>7, <2>1, <2>4, <4>1 DEF Scale
      <4>2. CASE ~launch.norm  BY <1>2, <4>2 DEF Scale
      <4>3. QED  BY <4>1, <4>2
    <3>6. ASSUME launch.det, NEW j \in AddedRows(id)  PROVE j < i
      <4>1. BlockDim = 1 /\ t = 0  BY <1>6, <3>6
      <4>2. j \in Nat /\ Added(at[j % BlockDim], j)  BY <1>6 DEF AddedRows, SentTo
      <4>3. j % BlockDim = 0
        <5>1. j % BlockDim \in 0..(BlockDim - 1)  BY <1>6, <4>2, OwnColumn
        <5>2. QED  BY <4>1, <5>1
      <4>4. at[t] # Done  BY <1>3 DEF Done
      <4>5. QED  BY <1>1, <4>1, <4>2, <4>3, <4>4 DEF Added
    <3>7. Scale(id) \in Nat  BY <1>4, SentFinite
    <3>8. Lists(Append(mem[Cell("table", id)], [row |-> i, over |-> Scale(id)]),
                AddedRows(id) \cup {i}, Scale(id), launch.det)
      BY <1>6, <2>1, <3>3, <3>4, <3>6, <3>7, ListGrows
    <3>9. QED  BY <1>5, <2>1, <2>2, <3>2, <3>4, <3>5, <3>8
  <2>5. QED  BY <2>3, <2>4
<1>9. launch' = launch /\ Threads' = Threads /\ \A id : (Scale(id))' = Scale(id)
  BY <1>3, SameScatter
<1>10. QED  BY <1>5, <1>8, <1>9 DEF ScatterInv, Entries


(* A thread at the end of its column changes its label and nothing else.   *)
LEMMA ColumnEnds ==
    ASSUME KernelInv, ScatterInv, launch.kernel = "scatter", NEW t \in Threads, NEW to, NEW bars,
           Alone(t, {}, Nothing, to, bars), ScatterPlace(t, to, sync[t] + bars),
           \A j \in 0..(Rows - 1) : j % BlockDim = t =>
                /\ Counted(to, j) <=> Counted(at[t], j)
                /\ Added(to, j) <=> Added(at[t], j)
    PROVE  ScatterInv'
<1>1. /\ launch' = launch /\ DOMAIN at = Threads /\ DOMAIN sync = Threads
      /\ at' = [u \in DOMAIN at |-> IF u \in {t} THEN to ELSE at[u]]
      /\ sync' = [u \in DOMAIN sync |-> IF u \in {t} THEN sync[u] + bars ELSE sync[u]]
  BY DEF Alone, Move, KernelInv
<1>2. /\ at'[t] = to /\ sync'[t] = sync[t] + bars
      /\ \A u \in Threads : u # t => at'[u] = at[u] /\ sync'[u] = sync[u]
  BY <1>1
<1>3. DOMAIN mem' = DOMAIN mem /\ \A c \in DOMAIN mem : mem'[c] = mem[c]
  <2>1. DOMAIN Nothing = {}  BY TouchesNone
  <2> DEFINE written == {x[2] : x \in DOMAIN Nothing}
  <2>2. mem' = [c \in written \cup DOMAIN mem |->
                    IF c \in written THEN Nothing[CHOOSE x \in DOMAIN Nothing : x[2] = c] ELSE mem[c]]
    BY DEF Alone, Move
  <2>3. written = {}  BY <2>1
  <2> HIDE DEF written
  <2>4. QED  BY <2>2, <2>3
<1>4. \A u \in Threads : ScatterPlace(u, at'[u], sync'[u])  BY <1>2 DEF ScatterInv
<1>5. Rows \in Nat /\ BlockDim \in Nat \ {0} /\ Threads = 0..(BlockDim - 1)
  BY ScatterShape DEF KernelInv
<1>6. ASSUME NEW id  PROVE (CountedRows(id))' = CountedRows(id) /\ (AddedRows(id))' = AddedRows(id)
  <2>1. ASSUME NEW j \in SentTo(id)
        PROVE  /\ Counted(at'[j % BlockDim], j) <=> Counted(at[j % BlockDim], j)
               /\ Added(at'[j % BlockDim], j) <=> Added(at[j % BlockDim], j)
    <3>1. j \in 0..(Rows - 1) /\ j \in Nat  BY <1>5 DEF SentTo
    <3>2. j % BlockDim \in Threads  BY <1>5, <3>1, OwnColumn
    <3>3. QED  BY <1>2, <3>1, <3>2
  <2>2. PICK C, A : C = (CountedRows(id))' /\ A = (AddedRows(id))'  OBVIOUS
  <2>3. /\ C = {j \in SentTo(id) : Counted(at'[j % BlockDim], j)}
        /\ A = {j \in SentTo(id) : Added(at'[j % BlockDim], j)}
    BY <1>1, <2>2, SameScatter
  <2>4. C = CountedRows(id) /\ A = AddedRows(id)  BY <2>1, <2>3 DEF CountedRows, AddedRows
  <2>5. QED  BY <2>2, <2>4
<1>7. /\ Threads' = Threads /\ \A id : (Scale(id))' = Scale(id)
      /\ \A u \in Threads : (ScatterPlace(u, at[u], sync[u]))'
  BY <1>1, <1>4, SameScatter
<1>8. ASSUME NEW id \in Entries(launch.idx)
      PROVE  /\ {Cell("count", id), Cell("table", id)} \subseteq DOMAIN mem'
             /\ launch.norm => mem'[Cell("count", id)] = Cardinality((CountedRows(id))')
             /\ Lists(mem'[Cell("table", id)], (AddedRows(id))', Scale(id), launch.det)
  <2>1. /\ {Cell("count", id), Cell("table", id)} \subseteq DOMAIN mem
        /\ launch.norm => mem[Cell("count", id)] = Cardinality(CountedRows(id))
        /\ Lists(mem[Cell("table", id)], AddedRows(id), Scale(id), launch.det)
    BY DEF ScatterInv
  <2>2. QED  BY <1>3, <1>6, <2>1
<1>9. QED  BY <1>1, <1>7, <1>8 DEF ScatterInv, Entries

(* It has counted its column, and goes on to scatter it.                   *)
LEMMA CountEndAgrees ==
    ASSUME KernelInv, ScatterInv, launch.kernel = "scatter", NEW t \in Threads, CountEnd(t)
    PROVE  ScatterInv'
<1>1. Rows \in Nat /\ BlockDim \in Nat \ {0} /\ Threads = 0..(BlockDim - 1)
  BY ScatterShape DEF KernelInv
<1>2. PICK p : p = at[t] /\ p[1] = "count" /\ p[2] >= Rows  BY DEF CountEnd
<1>3. ScatterPlace(t, p, sync[t])  BY <1>2 DEF ScatterInv
<1>4. p[2] \in Nat /\ sync[t] = 0  BY <1>2, <1>3 DEF ScatterPlace, Done
<1>5. PICK to : to = <<"scatter", t>> /\ to[1] = "scatter" /\ to[2] = t /\ to # Done
  <2>1. PICK to : to = <<"scatter", t>>  OBVIOUS
  <2>2. to[1] = "scatter" /\ to[2] = t /\ to # Done  BY <2>1 DEF Done
  <2>3. QED  BY <2>1, <2>2
<1>6. Alone(t, {}, Nothing, to, AfterCount)  BY <1>5 DEF CountEnd
<1>7. ScatterPlace(t, to, sync[t] + AfterCount)
  <2>1. t \in Nat  BY <1>1
  <2>2. t % BlockDim = t  BY <1>1, <2>1, OwnColumn
  <2>3. QED  BY <1>4, <1>5, <2>1, <2>2 DEF ScatterPlace, AfterCount
<1>8. ASSUME NEW j \in 0..(Rows - 1), j % BlockDim = t
      PROVE  /\ Counted(to, j) <=> Counted(at[t], j)
             /\ Added(to, j) <=> Added(at[t], j)
  <2>1. PICK k \in Nat : k = j  BY <1>1
  <2>2. k % BlockDim <= k  BY <1>1, OwnColumn
  <2>3. ~(j < t) /\ j < p[2]  BY <1>1, <1>2, <1>4, <1>8, <2>1, <2>2
  <2>4. p # Done  BY <1>2 DEF Done
  <2>5. QED  BY <1>2, <1>5, <2>3, <2>4 DEF Counted, Added
<1>9. QED  BY <1>6, <1>7, <1>8, ColumnEnds

(* It has scattered its column, and is through.                            *)
LEMMA ScatterEndAgrees ==
    ASSUME KernelInv, ScatterInv, launch.kernel = "scatter", NEW t \in Threads, ScatterEnd(t)
    PROVE  ScatterInv'
<1>1. Rows \in Nat /\ BlockDim \in Nat \ {0} /\ Threads = 0..(BlockDim - 1)
  BY ScatterShape DEF KernelInv
<1>2. PICK p : p = at[t] /\ p[1] = "scatter" /\ p[2] >= Rows  BY DEF ScatterEnd
<1>3. ScatterPlace(t, p, sync[t])  BY <1>2 DEF ScatterInv
<1>4. p[2] \in Nat  BY <1>2, <1>3 DEF ScatterPlace, Done
<1>5. Alone(t, {}, Nothing, Done, 0)  BY DEF ScatterEnd
<1>6. ScatterPlace(t, Done, sync[t] + 0)  BY DEF ScatterPlace, Done
<1>7. ASSUME NEW j \in 0..(Rows - 1), j % BlockDim = t
      PROVE  /\ Counted(Done, j) <=> Counted(at[t], j)
             /\ Added(Done, j) <=> Added(at[t], j)
  <2>1. j < p[2]  BY <1>1, <1>2, <1>4
  <2>2. QED  BY <1>2, <2>1 DEF Counted, Added, Done
<1>8. QED  BY <1>5, <1>6, <1>7, ColumnEnds

(* A launch of the scatter-add takes no step of another kernel.            *)
LEMMA OnlyScatterSteps ==
    ASSUME KernelInv, launch.kernel = "scatter", KernelNext
    PROVE  \E t \in Threads : CountRow(t) \/ CountEnd(t) \/ ScatterRow(t) \/ ScatterEnd(t)
<1>1. ASSUME NEW t \in Threads  PROVE at[t][1] \in {"count", "scatter", "done"}
  <2>1. PICK p : p = at[t] /\ Stands(t, p, sync[t])  BY Standing
  <2>2. QED  BY <2>1 DEF Stands, Flashing
<1>2. ~AttnMax /\ ~AttnSum /\ ~FlashBlockMax /\ \A w \in Warps : ~FlashWarpMax(w)
  BY DEF AttnMax, AttnSum, FlashBlockMax, FlashWarpMax
<1> DEFINE Labels == {"count", "scatter", "done"}
<1>3. ASSUME NEW t \in Threads, NEW l, NEW n, at[t] = <<l, n>> \/ at[t][1] = l  PROVE l \in Labels
  BY <1>1, <1>3
<1>4. ASSUME NEW t \in Threads
      PROVE  ~ReduceScan(t) /\ ~ReduceTree(t) /\ ~ReduceIdle(t) /\ ~ReduceOut(t)
  <2>1. ~ReduceScan(t)  BY <1>3 DEF ReduceScan
  <2>2. ~ReduceTree(t)  BY <1>3 DEF ReduceTree
  <2>3. ~ReduceIdle(t)  BY <1>3 DEF ReduceIdle
  <2>4. ~ReduceOut(t)  BY <1>3 DEF ReduceOut
  <2>5. QED  BY <2>1, <2>2, <2>3, <2>4
<1>5. ASSUME NEW t \in Threads
      PROVE  ~AttnScores(t) /\ ~AttnWait(t) /\ ~AttnMask(t) /\ ~AttnExp(t) /\ ~AttnDivide(t) /\ ~AttnValues(t)
  <2>1. ~AttnScores(t)
    <3>1. SUFFICES ASSUME AttnScores(t)  PROVE FALSE  OBVIOUS
    <3>2. at[t] = <<"scores", 0>>  BY <3>1 DEF AttnScores
    <3>3. QED  BY <1>3, <3>2
  <2>2. ~AttnWait(t)  BY <1>3 DEF AttnWait
  <2>3. ~AttnMask(t)  BY <1>3 DEF AttnMask
  <2>4. ~AttnExp(t)
    <3>1. SUFFICES ASSUME AttnExp(t)  PROVE FALSE  OBVIOUS
    <3>2. at[t] = <<"exp", 0>>  BY <3>1 DEF AttnExp
    <3>3. QED  BY <1>3, <3>2
  <2>5. ~AttnDivide(t)  BY <1>3 DEF AttnDivide
  <2>6. ~AttnValues(t)  BY <1>3 DEF AttnValues
  <2>7. QED  BY <2>1, <2>2, <2>3, <2>4, <2>5, <2>6
<1>6. ASSUME NEW t \in Threads
      PROVE  ~FlashScore(t) /\ ~FlashLocalMax(t) /\ ~FlashOtherWarp(t) /\ ~FlashAccumulate(t) /\ ~FlashOut(t)
  <2>1. ~FlashScore(t)  BY <1>3 DEF FlashScore
  <2>2. ~FlashLocalMax(t)  BY <1>3 DEF FlashLocalMax
  <2>3. ~FlashOtherWarp(t)  BY <1>3 DEF FlashOtherWarp
  <2>4. ~FlashAccumulate(t)  BY <1>3 DEF FlashAccumulate
  <2>5. ~FlashOut(t)
    <3>1. SUFFICES ASSUME FlashOut(t)  PROVE FALSE  OBVIOUS
    <3>2. at[t] = <<"normalise", 0>>  BY <3>1 DEF FlashOut
    <3>3. QED  BY <1>3, <3>2
  <2>6. QED  BY <2>1, <2>2, <2>3, <2>4, <2>5
<1>7. ASSUME NEW t \in Threads
      PROVE  ~RowPartial(t) /\ ~RowDot(t) /\ ~RowGs(t) /\ ~RowGradQ(t)
  <2>1. ~RowPartial(t)  BY <1>3 DEF RowPartial
  <2>2. ~RowDot(t)  BY <1>3 DEF RowDot
  <2>3. ~RowGs(t)  BY <1>3 DEF RowGs
  <2>4. ~RowGradQ(t)  BY <1>3 DEF RowGradQ
  <2>5. QED  BY <2>1, <2>2, <2>3, <2>4
<1>8. ASSUME NEW t \in Threads
      PROVE  ~KvPartial(t) /\ ~KvReduce(t) /\ ~RmsTable(t) /\ ~RmsGradX(t) /\ ~RmsGradW(t)
  <2>1. ~KvPartial(t)  BY <1>3 DEF KvPartial
  <2>2. ~KvReduce(t)  BY <1>3 DEF KvReduce
  <2>3. ~RmsTable(t)  BY <1>3 DEF RmsTable
  <2>4. ~RmsGradX(t)
    <3>1. SUFFICES ASSUME RmsGradX(t)  PROVE FALSE  OBVIOUS
    <3>2. at[t] = <<"gradx", 0>>  BY <3>1 DEF RmsGradX
    <3>3. QED  BY <1>3, <3>2
  <2>5. ~RmsGradW(t)
    <3>1. SUFFICES ASSUME RmsGradW(t)  PROVE FALSE  OBVIOUS
    <3>2. at[t] = <<"gradw", 0>>  BY <3>1 DEF RmsGradW
    <3>3. QED  BY <1>3, <3>2
  <2>6. QED  BY <2>1, <2>2, <2>3, <2>4, <2>5
<1>9. ASSUME NEW t \in Threads
      PROVE  ~GridRows(t) /\ ~MeanLoss(t) /\ ~GridUpdate(t) /\ ~GridCopy(t) /\ ~GridRotate(t)
  <2>1. ~GridRows(t)  BY <1>3 DEF GridRows
  <2>2. ~MeanLoss(t)
    <3>1. SUFFICES ASSUME MeanLoss(t)  PROVE FALSE  OBVIOUS
    <3>2. at[t] = <<"mean", 0>>  BY <3>1 DEF MeanLoss
    <3>3. QED  BY <1>3, <3>2
  <2>3. ~GridUpdate(t)
    <3>1. SUFFICES ASSUME GridUpdate(t)  PROVE FALSE  OBVIOUS
    <3>2. at[t] = <<"update", 0>>  BY <3>1 DEF GridUpdate
    <3>3. QED  BY <1>3, <3>2
  <2>4. ~GridCopy(t)  BY <1>3 DEF GridCopy
  <2>5. ~GridRotate(t)
    <3>1. SUFFICES ASSUME GridRotate(t)  PROVE FALSE  OBVIOUS
    <3>2. at[t][1] = "rotate"  BY <3>1 DEF GridRotate
    <3>3. QED  BY <1>1, <3>2
  <2>6. QED  BY <2>1, <2>2, <2>3, <2>4, <2>5
<1>10. QED  BY <1>2, <1>4, <1>5, <1>6, <1>7, <1>8, <1>9 DEF KernelNext

(* A launch stays the launch it was.                                       *)
LEMMA LaunchStays == ASSUME [KernelNext]_kernelVars  PROVE launch' = launch
<1>1. ASSUME NEW S, NEW r, NEW w, NEW g, NEW to, NEW bars, Move(S, r, w, g, to, bars)
      PROVE  launch' = launch
  BY <1>1 DEF Move
<1>2. ASSUME NEW t, NEW r, NEW w, NEW to, NEW bars, Alone(t, r, w, to, bars)
      PROVE  launch' = launch
  BY <1>2 DEF Alone, Move
<1>3. AttnMax \/ AttnSum \/ FlashBlockMax \/ (\E w \in Warps : FlashWarpMax(w)) => launch' = launch
  BY <1>1 DEF AttnMax, AttnSum, FlashBlockMax, FlashWarpMax
<1>4. ASSUME NEW t \in Threads
      PROVE  ReduceScan(t) \/ ReduceTree(t) \/ ReduceIdle(t) \/ ReduceOut(t) \/ AttnScores(t) \/
             AttnWait(t) \/ AttnMask(t) \/ AttnExp(t) \/ AttnDivide(t) \/ AttnValues(t) =>
                launch' = launch
  BY <1>1, <1>2 DEF ReduceScan, ReduceTree, ReduceIdle, ReduceOut, AttnScores, AttnWait, AttnMask,
                    AttnExp, AttnDivide, AttnValues
<1>5. ASSUME NEW t \in Threads
      PROVE  FlashScore(t) \/ FlashLocalMax(t) \/ FlashOtherWarp(t) \/ FlashAccumulate(t) \/
             FlashOut(t) \/ RowPartial(t) \/ RowDot(t) \/ RowGs(t) \/ RowGradQ(t) =>
                launch' = launch
  BY <1>1, <1>2 DEF FlashScore, FlashLocalMax, FlashOtherWarp, FlashAccumulate, FlashOut,
                    RowPartial, RowDot, RowGs, RowGradQ
<1>6. ASSUME NEW t \in Threads
      PROVE  KvPartial(t) \/ KvReduce(t) \/ RmsTable(t) \/ RmsGradX(t) \/ RmsGradW(t) \/
             GridRows(t) \/ MeanLoss(t) \/ GridUpdate(t) \/ GridCopy(t) \/ GridRotate(t) =>
                launch' = launch
  BY <1>1, <1>2 DEF KvPartial, KvReduce, RmsTable, RmsGradX, RmsGradW, GridRows, MeanLoss,
                    GridUpdate, GridCopy, GridRotate
<1>7. ASSUME NEW t \in Threads
      PROVE  CountRow(t) \/ CountEnd(t) \/ ScatterRow(t) \/ ScatterEnd(t) => launch' = launch
  BY <1>2 DEF CountRow, CountEnd, ScatterRow, ScatterEnd
<1>8. QED  BY <1>3, <1>4, <1>5, <1>6, <1>7 DEF KernelNext, kernelVars


(* When a launch begins, no row is counted or added.                       *)
LEMMA ScatterStarts == KernelInit => ScatterInv
<1> SUFFICES ASSUME KernelInit, launch.kernel = "scatter"  PROVE ScatterInv
  BY DEF ScatterInv
<1>1. launch \in Launches  BY DEF KernelInit
<1>2. /\ Rows \in Nat /\ BlockDim \in Nat \ {0} /\ Threads = 0..(BlockDim - 1)
      /\ launch.norm \in BOOLEAN /\ launch.det \in BOOLEAN
  BY <1>1, ScatterShape
<1>3. PICK label : label = IF launch.norm THEN "count" ELSE "scatter"  OBVIOUS
<1>4. ASSUME NEW t \in Threads
      PROVE  at[t] = <<label, t>> /\ sync[t] = 0 /\ t \in Nat /\ t % BlockDim = t
  <2>1. First(launch.kernel) = label  BY <1>3 DEF First
  <2>2. at[t] = <<label, t>> /\ sync[t] = 0  BY <2>1 DEF KernelInit
  <2>3. PICK k \in Nat : k = t  BY <1>2
  <2>4. k % BlockDim = k  BY <1>2, <2>3, OwnColumn
  <2>5. QED  BY <2>2, <2>3, <2>4
<1>5. ASSUME NEW t \in Threads  PROVE ScatterPlace(t, at[t], sync[t])
  <2>1. PICK p : p = at[t] /\ p[1] = label /\ p[2] = t  BY <1>4
  <2>2. ScatterPlace(t, p, 0)  BY <1>3, <1>4, <2>1 DEF ScatterPlace
  <2>3. QED  BY <1>4, <2>1, <2>2
<1>6. ASSUME NEW id, NEW j \in SentTo(id)
      PROVE  /\ label = "count" => ~Counted(at[j % BlockDim], j)
             /\ ~Added(at[j % BlockDim], j)
  <2>1. PICK k \in Nat : k = j  BY <1>2 DEF SentTo
  <2>2. PICK t \in Threads : t = j % BlockDim /\ t <= j
    <3>1. k % BlockDim \in 0..(BlockDim - 1) /\ k % BlockDim <= k  BY <1>2, OwnColumn
    <3>2. QED  BY <1>2, <2>1, <3>1
  <2>3. t \in Nat /\ ~(j < t)  BY <1>2, <2>1, <2>2
  <2>4. PICK p : p = at[t] /\ p[1] = label /\ p[2] = t  BY <1>4
  <2>5. p # Done  BY <1>3, <2>4 DEF Done
  <2>6. QED  BY <2>2, <2>3, <2>4, <2>5 DEF Counted, Added
<1>7. ASSUME NEW id
      PROVE  AddedRows(id) = {} /\ (launch.norm => CountedRows(id) = {})
  BY <1>3, <1>6 DEF AddedRows, CountedRows
<1> DEFINE counts == {Cell("count", id) : id \in Entries(launch.idx)}
<1> DEFINE tables == {Cell("table", id) : id \in Entries(launch.idx)}
<1>8. mem = Merge([c \in counts |-> 0], [c \in tables |-> <<>>])  BY DEF KernelInit
<1>9. /\ DOMAIN mem = counts \cup tables
      /\ \A c \in counts : mem[c] = 0
      /\ \A c \in tables : c \notin counts => mem[c] = <<>>
  <2> HIDE DEF counts, tables
  <2>1. QED  BY <1>8 DEF Merge
<1>10. ASSUME NEW id \in Entries(launch.idx)
       PROVE  /\ {Cell("count", id), Cell("table", id)} \subseteq DOMAIN mem
              /\ mem[Cell("count", id)] = 0 /\ mem[Cell("table", id)] = <<>>
  <2>1. Cell("count", id) \in counts /\ Cell("table", id) \in tables  OBVIOUS
  <2>2. Cell("table", id) \notin counts  BY DEF Cell
  <2> HIDE DEF counts, tables
  <2>3. QED  BY <1>9, <2>1, <2>2
<1>11. ASSUME NEW id \in Entries(launch.idx)
       PROVE  Lists(mem[Cell("table", id)], AddedRows(id), Scale(id), launch.det)
  <2>1. PICK cell : cell = <<>>  OBVIOUS
  <2>2. cell \in Seq([row : Nat, over : Nat]) /\ DOMAIN cell = {}
    BY <2>1, EmptySeq
  <2>3. Lists(cell, {}, Scale(id), launch.det)  BY <2>2 DEF Lists
  <2>4. QED  BY <1>7, <1>10, <2>1, <2>3
<1>12. \A id \in Entries(launch.idx) :
          launch.norm => mem[Cell("count", id)] = Cardinality(CountedRows(id))
  BY <1>7, <1>10, FS_EmptySet
<1>13. QED  BY <1>5, <1>10, <1>11, <1>12 DEF ScatterInv

(* Every step keeps what the counts and the table say.                     *)
LEMMA ScatterKept == KernelInv /\ ScatterInv /\ [KernelNext]_kernelVars => ScatterInv'
<1> SUFFICES ASSUME KernelInv, ScatterInv, [KernelNext]_kernelVars  PROVE ScatterInv'
  OBVIOUS
<1>1. launch' = launch  BY LaunchStays
<1>2. CASE launch.kernel # "scatter"  BY <1>1, <1>2 DEF ScatterInv
<1>3. CASE UNCHANGED kernelVars
  <2>1. at' = at /\ sync' = sync /\ mem' = mem  BY <1>3 DEF kernelVars
  <2>2. /\ Threads' = Threads /\ \A id : (Scale(id))' = Scale(id)
        /\ \A u, p, n : (ScatterPlace(u, p, n))' = ScatterPlace(u, p, n)
    BY <1>1, SameScatter
  <2>3. ASSUME NEW id
        PROVE  (CountedRows(id))' = CountedRows(id) /\ (AddedRows(id))' = AddedRows(id)
    <3>1. PICK C, A : C = (CountedRows(id))' /\ A = (AddedRows(id))'  OBVIOUS
    <3>2. /\ C = {j \in SentTo(id) : Counted(at'[j % BlockDim], j)}
          /\ A = {j \in SentTo(id) : Added(at'[j % BlockDim], j)}
      BY <1>1, <3>1, SameScatter
    <3>3. QED  BY <2>1, <3>1, <3>2 DEF CountedRows, AddedRows
  <2>4. QED  BY <1>1, <2>1, <2>2, <2>3 DEF ScatterInv, Entries
<1>4. CASE launch.kernel = "scatter" /\ KernelNext
  <2>1. PICK t \in Threads : CountRow(t) \/ CountEnd(t) \/ ScatterRow(t) \/ ScatterEnd(t)
    BY <1>4, OnlyScatterSteps
  <2>2. QED  BY <1>4, <2>1, CountRowAgrees, CountEndAgrees, ScatterRowAgrees, ScatterEndAgrees
<1>5. QED  BY <1>2, <1>3, <1>4

(* What a finished launch has listed is the table of the CPU.              *)
LEMMA ListedIsCpu ==
    ASSUME launch \in Launches, launch.kernel = "scatter", NEW id, NEW cell,
           Lists(cell, SentTo(id), Scale(id), launch.det)
    PROVE  /\ ExactlyTheTerms(cell, Range(CpuTable(id)))
           /\ launch.det => cell = CpuTable(id)
<1>1. PICK S, m, rows, scale :
        S = SentTo(id) /\ m = Cardinality(S) /\ rows = Ascending(S) /\ scale = Scale(id)
  OBVIOUS
<1>2. IsFiniteSet(S) /\ S \in SUBSET Nat /\ scale \in Nat  BY <1>1, SentFinite
<1>3. /\ m \in Nat /\ DOMAIN rows = 1..m
      /\ \A k \in 1..m : rows[k] \in S
      /\ \A x \in S : \E k \in 1..m : rows[k] = x
  <2>1. S \in SUBSET Int  BY <1>2
  <2>2. QED  BY <1>1, <1>2, <2>1, AscendingLists
<1>4. CpuRowsOf(id) = rows  BY <1>1 DEF CpuRowsOf, SentTo
<1>5. Len(rows) = m
  <2>1. rows = [k \in 1..m |-> rows[k]]  BY <1>1, <1>3 DEF Ascending
  <2>2. rows \in [1..m -> S]  BY <1>3, <2>1
  <2>3. rows \in Seq(S)  BY <1>3, <2>2, SeqDef
  <2>4. Len(rows) \in Nat /\ DOMAIN rows = 1..Len(rows)  BY <2>3, LenProperties
  <2>5. QED  BY <1>3, <2>4
<1>6. PICK tab : tab = CpuTable(id)  OBVIOUS
<1>7. tab = [k \in 1..m |-> [row |-> rows[k], over |-> scale]]
  BY <1>1, <1>3, <1>4, <1>5, <1>6 DEF CpuTable, Scale
<1>8. PICK R : R = {[row |-> x, over |-> scale] : x \in S}  OBVIOUS
<1>9. Range(tab) = R
  <2>1. \A k \in 1..m : tab[k] \in R  BY <1>3, <1>7, <1>8
  <2>2. ASSUME NEW e \in R  PROVE \E k \in 1..m : tab[k] = e
    <3>1. PICK x \in S : e = [row |-> x, over |-> scale]  BY <1>8
    <3>2. PICK k \in 1..m : rows[k] = x  BY <1>3
    <3>3. QED  BY <1>7, <3>1, <3>2
  <2>3. DOMAIN tab = 1..m  BY <1>7
  <2>4. QED  BY <2>1, <2>2, <2>3 DEF Range
<1>10. /\ cell \in Seq([row : Nat, over : Nat])
       /\ \A k \in DOMAIN cell : cell[k].row \in S /\ cell[k].over = scale
       /\ \A x \in S : \E k \in DOMAIN cell : cell[k].row = x
       /\ \A j, k \in DOMAIN cell : cell[j].row = cell[k].row => j = k
       /\ launch.det => \A j, k \in DOMAIN cell : j < k => cell[j].row < cell[k].row
  BY <1>1 DEF Lists
<1>11. PICK n \in Nat : n = Len(cell) /\ DOMAIN cell = 1..n /\ cell \in [1..n -> [row : Nat, over : Nat]]
  BY <1>10, LenProperties
<1>12. ASSUME NEW k \in 1..n  PROVE cell[k] = [row |-> cell[k].row, over |-> scale]
  <2>1. cell[k] \in [row : Nat, over : Nat] /\ cell[k].over = scale  BY <1>10, <1>11
  <2>2. QED  BY <2>1
<1>13. Range(cell) = R /\ Cardinality(R) = n
  <2>1. \A k \in 1..n : cell[k] \in R  BY <1>8, <1>10, <1>11, <1>12
  <2>2. ASSUME NEW e \in R  PROVE \E k \in 1..n : cell[k] = e
    <3>1. PICK x \in S : e = [row |-> x, over |-> scale]  BY <1>8
    <3>2. PICK k \in 1..n : cell[k].row = x  BY <1>10, <1>11
    <3>3. QED  BY <1>12, <3>1, <3>2
  <2>3. \A j, k \in 1..n : cell[j] = cell[k] => j = k  BY <1>10, <1>11
  <2>4. Range(cell) = R  BY <1>11, <2>1, <2>2 DEF Range
  <2>5. DOMAIN cell = 1..n  BY <1>11
  <2>6. Cardinality(R) = n  BY <2>1, <2>2, <2>3, <2>5, ListedOnce
  <2>7. QED  BY <2>4, <2>6
<1>14. ExactlyTheTerms(cell, R)  BY <1>11, <1>13 DEF ExactlyTheTerms
<1>15. ASSUME launch.det  PROVE cell = tab
  <2>1. PICK f : f = [k \in 1..n |-> cell[k].row]  OBVIOUS
  <2>2. \A k \in 1..n : f[k] \in S /\ f[k] \in Int  BY <1>2, <1>10, <1>11, <2>1
  <2>3. \A j, k \in 1..n : j < k => f[j] < f[k]  BY <1>10, <1>11, <1>15, <2>1
  <2>4. S = {f[k] : k \in 1..n}
    <3>1. \A x \in S : \E k \in 1..n : f[k] = x  BY <1>10, <1>11, <2>1
    <3>2. QED  BY <2>2, <3>1
  <2>5. DOMAIN f = 1..n /\ f = [k \in 1..n |-> f[k]]  BY <2>1
  <2>6. Ascending(S) = f /\ Cardinality(S) = n
    <3>1. \A k \in 1..n : f[k] \in Int  BY <2>2
    <3>2. QED  BY <2>3, <2>4, <2>5, <3>1, IncreasingIsAscending
  <2>7. rows = f /\ m = n  BY <1>1, <2>6
  <2>8. tab = [k \in 1..n |-> [row |-> cell[k].row, over |-> scale]]  BY <1>7, <2>1, <2>7
  <2>9. cell = [k \in 1..n |-> cell[k]]  BY <1>11
  <2>10. QED  BY <1>12, <2>8, <2>9
<1>16. QED  BY <1>6, <1>9, <1>14, <1>15

(***************************************************************************)
(* The scatter-add of a launch that has finished, for any number of rows,  *)
(* any table and any schedule of the atomicAdds: every entry holds every   *)
(* row sent to it, once, scaled by the count of them all if the launch     *)
(* normalises, and in row order if it is deterministic.                    *)
(***************************************************************************)
THEOREM ScatterAddsEveryRow ==
    KernelSpec => [](Finished /\ launch.kernel = "scatter" => ScatterAgrees)
<1>1. KernelInv /\ ScatterInv => (Finished /\ launch.kernel = "scatter" => ScatterAgrees)
  <2> SUFFICES ASSUME KernelInv, ScatterInv, Finished, launch.kernel = "scatter"
               PROVE  ScatterAgrees
    OBVIOUS
  <2>1. launch \in Launches  BY DEF KernelInv
  <2>2. Rows \in Nat /\ BlockDim \in Nat \ {0} /\ Threads = 0..(BlockDim - 1)
    BY <2>1, ScatterShape
  <2>3. ASSUME NEW id \in Entries(launch.idx)
        PROVE  Lists(mem[Cell("table", id)], SentTo(id), Scale(id), launch.det)
    <3>1. ASSUME NEW j \in SentTo(id)  PROVE Added(at[j % BlockDim], j)
      <4>1. j \in Nat  BY <2>2 DEF SentTo
      <4>2. j % BlockDim \in Threads  BY <2>2, <4>1, OwnColumn
      <4>3. QED  BY <4>2 DEF Finished, Added
    <3>2. AddedRows(id) = SentTo(id)  BY <3>1 DEF AddedRows
    <3>3. Lists(mem[Cell("table", id)], AddedRows(id), Scale(id), launch.det)  BY DEF ScatterInv
    <3>4. QED  BY <3>2, <3>3
  <2>4. ASSUME NEW id \in Entries(launch.idx), NEW cell, cell = mem[Cell("table", id)]
        PROVE  /\ ExactlyTheTerms(cell, Range(CpuTable(id)))
               /\ launch.det => cell = CpuTable(id)
    BY <2>1, <2>3, <2>4, ListedIsCpu
  <2>5. QED  BY <2>4 DEF ScatterAgrees
<1>2. QED  BY <1>1, KernelInvStarts, KernelInvKept, ScatterStarts, ScatterKept, PTL DEF KernelSpec
=============================================================================
