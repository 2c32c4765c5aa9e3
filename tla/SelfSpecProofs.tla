--------------------------- MODULE SelfSpecProofs ---------------------------
(***************************************************************************)
(* Proofs about BLT-S for every network, boundary rule, prompt, window and *)
(* capacity.  The inductive invariant says what the cache holds relative   *)
(* to the bytes: between rounds it is the cache of some proper prefix of   *)
(* them, after the refresh that of all of them.                            *)
(***************************************************************************)
EXTENDS SelfSpec, DecodingProofs

InRound == {"cache", "prefill", "draft", "verify"}

(* Tier 2 of a cache built for exactly the bytes x, and all of that cache. *)
PatchOf(e, x, s) ==
    LET t == NextStart(Starts(e, x), Len(x), s)
    IN  [start |-> s, end |-> t, o |-> SubSeq(x, 1, t)]
TierTwoOf(e, x) == {PatchOf(e, x, s) : s \in Starts(e, x)}
CacheOf(e, x) ==
    /\ cross = TierTwoOf(e, x)
    /\ Len(rows) >= Len(x)
    /\ \A k \in 1..Len(x) : rows[k] = FullView(e, x, Len(x) - 1)[k]

(* A round works on the bytes and the window it started with.              *)
CallInv == pc \in InRound => l < req.target /\ r = Window /\ starts = Starts(req.em, out)

(* The cache before the refresh; after it; and the drafted rows past it.   *)
StaleInv ==
    pc \in {"round", "cache"} =>
        \/ cross = {} /\ rows = <<>>
        \/ \E n \in 1..(l - 1) : CacheOf(req.em, SubSeq(out, 1, n))
RefreshedInv ==
    pc = "prefill" =>
        /\ cross = TierTwoOf(req.em, out)
        /\ Len(rows) < l
        /\ \A k \in 1..Len(rows) : rows[k] = FullView(req.em, out, l - 1)[k]
DraftInv ==
    pc \in {"draft", "verify"} =>
        /\ CacheOf(req.em, out)
        /\ Len(draft) >= 1
        /\ IF pc = "draft" THEN Len(draft) < r ELSE Len(draft) = r
        /\ Len(rows) = l + Len(draft) - 1
        /\ draft[1] = NextByte(req.em, req.model, out)

(* The counters, pc by pc.                                                 *)
Rounds == Len(out) - Len(req.prompt) - stats.accepted
StatsInv ==
    /\ pc = "round" => stats.enc = 2 * Rounds /\ stats.dec = stats.drafted + Rounds
    /\ pc \in InRound => stats.enc = 2 * Rounds + 1 /\ stats.dec = stats.drafted + Rounds
    /\ pc = "done" => /\ stats.enc \in {2 * Rounds, 2 * Rounds - 1}
                      /\ stats.dec = stats.drafted + Rounds
AcceptedInv ==
    pc # "abort" =>
        stats.accepted + (IF pc \in {"draft", "verify"} THEN Len(draft) ELSE 0) <= stats.drafted

CacheInv == StaleInv /\ RefreshedInv /\ DraftInv
IInv == TypeOK /\ CallInv /\ CacheInv /\ StatsInv /\ AcceptedInv
-----------------------------------------------------------------------------
(* One entry of tier 2, and the set of them.                               *)
LEMMA PatchOfIs ==
    ASSUME NEW e, NEW x \in Seq(Byte), Len(x) >= 1, NEW s \in Starts(e, x)
    PROVE  /\ PatchOf(e, x, s) \in CachedPatch
           /\ PatchOf(e, x, s).start = s
           /\ PatchOf(e, x, s).end = NextStart(Starts(e, x), Len(x), s)
           /\ PatchOf(e, x, s).end \in 1..Len(x)
           /\ PatchOf(e, x, s).o = SubSeq(x, 1, PatchOf(e, x, s).end)
<1>1. Len(x) \in Nat /\ Segmented(Starts(e, x), Len(x))
  BY LenProperties, StartsSegmented
<1>2. s \in 0..(Len(x) - 1)  BY <1>1 DEF Segmented
<1>3. PICK t \in 1..Len(x) : t = NextStart(Starts(e, x), Len(x), s)
  BY <1>1, <1>2, NextStartIs
<1>4. SubSeq(x, 1, t) \in Seq(Byte)  BY <1>1, <1>3, StartsOfPrefix
<1>5. PatchOf(e, x, s) = [start |-> s, end |-> t, o |-> SubSeq(x, 1, t)]
  BY <1>3 DEF PatchOf
<1>6. s \in Nat /\ t \in Nat  BY <1>2, <1>3
<1>7. QED  BY <1>3, <1>4, <1>5, <1>6 DEF CachedPatch

(* This round's entries are those of the committed bytes.                  *)
LEMMA TierTwoIs ==
    ASSUME NEW e, starts = Starts(e, out), NEW s
    PROVE  TierTwo(s) = PatchOf(e, out, s) /\ PatchEnd(s) = NextStart(Starts(e, out), Len(out), s)
BY DEF TierTwo, PatchEnd, PatchOf, l

(* A row's latent is found in a refreshed cache, and is the one a full     *)
(* pass over the committed bytes computes.                                 *)
LEMMA LatentIs ==
    ASSUME out \in Seq(Byte), l >= 1, starts = Starts(req.em, out),
           cross = TierTwoOf(req.em, out), NEW q \in Nat
    PROVE  /\ Latent(q) = SubSeq(out, 1, LatentEnd(starts, l, Closed(req.em, out), q))
           /\ Latent(q) \in Seq(Byte)
<1> DEFINE t == LatentEnd(starts, l, Closed(req.em, out), q)
<1>1. l \in Nat /\ l = Len(out)  BY LenProperties DEF l
<1>2. Segmented(starts, l) /\ Closed(req.em, out) \in BOOLEAN
  BY <1>1, StartsSegmented DEF Closed
<1>3. t \in 1..l /\ \E s \in starts : NextStart(starts, l, s) = t
  BY <1>2, LatentEndIs
<1> HIDE DEF t
<1>4. PICK s \in starts : NextStart(starts, l, s) = t  BY <1>3
<1>5. PatchOf(req.em, out, s) \in cross /\ PatchOf(req.em, out, s).end = t
  BY <1>1, <1>4, PatchOfIs DEF TierTwoOf
<1>6. \E c \in cross : c.end = t  BY <1>5
<1>7. PICK c \in cross : c.end = t /\ c = CHOOSE d \in cross : d.end = t  BY <1>6
<1>8. PICK u \in starts : c = PatchOf(req.em, out, u)  BY <1>7 DEF TierTwoOf
<1>9. c.o = SubSeq(out, 1, c.end)  BY <1>1, <1>8, PatchOfIs
<1>10. Latent(q) = c.o  BY <1>7 DEF Latent, t
<1>11. SubSeq(out, 1, t) \in Seq(Byte)  BY <1>1, <1>3, StartsOfPrefix
<1>12. QED  BY <1>7, <1>9, <1>10, <1>11 DEF t
-----------------------------------------------------------------------------
(* What the refresh finds: the common patches end within the bytes that    *)
(* the cache was built for, their entries are this round's, and the rows   *)
(* they cover are those of a full pass over the committed bytes, because   *)
(* the first patch had closed within those bytes.                          *)
LEMMA CommonIs ==
    ASSUME TypeOK, CallInv, StaleInv, pc = "cache"
    PROVE  \E n \in 0..(l - 1) :
              /\ n <= Len(rows)
              /\ \A s \in Common : PatchEnd(s) \in 1..n
              /\ \A s \in Common : PatchOf(req.em, out, s) \in cross
              /\ \A c \in cross : c.start \in Common => c = PatchOf(req.em, out, c.start)
              /\ Common # {} => \A k \in 1..n : rows[k] = FullView(req.em, out, l - 1)[k]
<1> DEFINE e == req.em
<1>0. /\ out \in Seq(Byte) /\ l = Len(out) /\ l \in Nat /\ l >= 1 /\ starts = Starts(e, out)
      /\ rows \in Seq(Row)
  <2>1. req.prompt \in Prompts /\ Len(req.prompt) <= l  BY DEF TypeOK, Request, l
  <2>2. out \in Seq(Byte) /\ rows \in Seq(Row)  BY DEF TypeOK
  <2>3. l \in Nat  BY <2>2, LenProperties DEF l
  <2>4. Len(req.prompt) \in Nat /\ Len(req.prompt) >= 2
    BY <2>1, SelfSpecAssumption, LenProperties
  <2>5. QED  BY <2>1, <2>2, <2>3, <2>4 DEF CallInv, InRound, l
<1>1. Segmented(starts, l)  BY <1>0, StartsSegmented
<1>2. CASE cross = {} /\ rows = <<>>
  <2>1. \A s \in starts : ~Cached(s) /\ s <= s  BY <1>1, <1>2 DEF Cached, Segmented
  <2>2. Common = {}  BY <2>1 DEF Common
  <2>3. 0 \in 0..(l - 1) /\ Len(rows) = 0  BY <1>0, <1>2
  <2>4. QED  BY <1>2, <2>2, <2>3
<1>3. CASE \E n \in 1..(l - 1) : CacheOf(e, SubSeq(out, 1, n))
  <2>1. PICK n \in 1..(l - 1) : CacheOf(e, SubSeq(out, 1, n))  BY <1>3
  <2> DEFINE y == SubSeq(out, 1, n)
  <2>2. n \in 1..Len(out) /\ n \in 0..(l - 1)  BY <1>0
  <2>3. /\ y \in Seq(Byte) /\ Len(y) = n
        /\ \A j \in 0..n : SubSeq(y, 1, j) = SubSeq(out, 1, j)
    BY <1>0, <2>2, StartsOfPrefix
  <2>4. CacheOf(e, y)  BY <2>1
  <2> HIDE DEF y
  <2>5. n <= Len(rows) /\ cross = TierTwoOf(e, y)  BY <2>3, <2>4 DEF CacheOf
  <2>6. ASSUME NEW c \in cross
        PROVE  /\ c.end \in 1..n /\ c.o = SubSeq(out, 1, c.end)
               /\ c \in CachedPatch /\ c = PatchOf(e, y, c.start)
    <3>1. PICK s \in Starts(e, y) : c = PatchOf(e, y, s)  BY <2>5 DEF TierTwoOf
    <3>2. /\ c.start = s /\ c.end \in 1..n /\ c.o = SubSeq(y, 1, c.end)
          /\ c \in CachedPatch
      BY <2>3, <3>1, PatchOfIs
    <3>3. c.end \in 0..n  BY <3>2
    <3>4. SubSeq(y, 1, c.end) = SubSeq(out, 1, c.end)  BY <2>3, <3>3
    <3>5. QED  BY <3>1, <3>2, <3>4
  <2>7. ASSUME NEW s \in Common, NEW c \in cross, c.start = s
        PROVE  c.end = PatchEnd(s) /\ c = PatchOf(e, out, s)
    <3>1. s \in starts /\ s <= s  BY <1>1 DEF Common, Segmented
    <3>2. PICK d \in cross : d.start = s /\ d.end = PatchEnd(s)  BY <3>1 DEF Common, Cached
    <3>3. c = d  BY <2>6, <2>7, <3>2
    <3>4. PatchEnd(s) = NextStart(Starts(e, out), Len(out), s)
      BY <1>0 DEF PatchEnd
    <3>5. PatchOf(e, out, s) = [start |-> s, end |-> c.end, o |-> SubSeq(out, 1, c.end)]
      BY <3>2, <3>3, <3>4 DEF PatchOf
    <3>6. c = [start |-> c.start, end |-> c.end, o |-> c.o]  BY <2>6 DEF CachedPatch
    <3>7. QED  BY <2>6, <2>7, <3>2, <3>3, <3>5, <3>6
  <2>8. \A s \in Common : \E c \in cross : c.start = s
    BY <1>1 DEF Common, Cached, Segmented
  <2>9. \A s \in Common : PatchEnd(s) \in 1..n /\ PatchOf(e, out, s) \in cross
    BY <2>6, <2>7, <2>8
  <2>10. \A c \in cross : c.start \in Common => c = PatchOf(e, out, c.start)  BY <2>7
  <2>11. ASSUME Common # {}, NEW k \in 1..n
         PROVE  rows[k] = FullView(e, out, l - 1)[k]
    <3>1. PICK s \in Common : TRUE  BY <2>11
    <3>2. 0 \in starts /\ 0 <= s /\ s \in starts /\ \A t \in starts : t \in Nat
      BY <1>1 DEF Common, Segmented
    <3>3. \A t \in starts : t <= 0 => t <= s /\ t = 0  BY <3>2
    <3>4. Cached(0)  BY <3>2 DEF Common
    <3>5. 0 \in Common  BY <3>2, <3>3, <3>4 DEF Common
    <3>6. PatchEnd(0) <= n  BY <2>9, <3>5
    <3>7. NextStart(Starts(e, out), Len(out), 0) <= n  BY <1>0, <3>6 DEF PatchEnd
    <3>8. n \in 1..(Len(out) - 1)  BY <1>0
    <3>9. FirstClosed(e, SubSeq(out, 1, n))  BY <1>0, <3>7, <3>8, FirstPatchClosed
    <3>10. FullView(e, SubSeq(out, 1, n), n - 1) = FullView(e, out, n - 1)
      BY <1>0, <2>2, <3>9, FullViewStable
    <3>11. rows[k] = FullView(e, y, n - 1)[k]  BY <2>3, <2>4 DEF CacheOf
    <3>12. FullView(e, out, n - 1)[k] = FullView(e, out, l - 1)[k]
      <4>1. n - 1 \in 0..(Len(out) - 1) /\ l - 1 \in 0..(Len(out) - 1)  BY <1>0
      <4>2. k \in 1..((n - 1) + 1) /\ k \in 1..((l - 1) + 1)  BY <1>0
      <4>3. k <= (l - 1) + 1  BY <1>0
      <4>4. QED  BY <1>0, <4>1, <4>2, <4>3, FullViewRow
    <3>13. QED  BY <3>10, <3>11, <3>12 DEF y
  <2>12. QED  BY <2>2, <2>5, <2>9, <2>10, <2>11
<1>4. QED  BY <1>2, <1>3 DEF StaleInv

(* What the refresh leaves: at least one committed row to decode, the rows *)
(* a full pass computes before it, and exactly this round's patches.       *)
LEMMA RefreshIs ==
    ASSUME TypeOK, CallInv, StaleInv, pc = "cache"
    PROVE  /\ SelfValid \in Nat /\ SelfValid <= Len(rows) /\ SelfValid < l
           /\ Common # starts
           /\ \A k \in 1..SelfValid : rows[k] = FullView(req.em, out, l - 1)[k]
           /\ {c \in cross : c.start \in Common} \cup {TierTwo(s) : s \in starts \ Common}
                = TierTwoOf(req.em, out)
<1>1. PICK n \in 0..(l - 1) :
              /\ n <= Len(rows)
              /\ \A s \in Common : PatchEnd(s) \in 1..n
              /\ \A s \in Common : PatchOf(req.em, out, s) \in cross
              /\ \A c \in cross : c.start \in Common => c = PatchOf(req.em, out, c.start)
              /\ Common # {} => \A k \in 1..n : rows[k] = FullView(req.em, out, l - 1)[k]
  BY CommonIs
<1>0. /\ out \in Seq(Byte) /\ l = Len(out) /\ l \in Nat /\ l >= 1
      /\ starts = Starts(req.em, out) /\ Len(rows) \in Nat
  <2>1. out \in Seq(Byte) /\ rows \in Seq(Row)  BY DEF TypeOK
  <2>2. l \in Nat /\ Len(rows) \in Nat  BY <2>1, LenProperties DEF l
  <2>3. l >= 1  BY <1>1, <2>2
  <2>4. QED  BY <2>1, <2>2, <2>3 DEF CallInv, InRound, l
<1>2. Segmented(starts, l)  BY <1>0, StartsSegmented
<1> DEFINE T == {0} \cup {PatchEnd(s) : s \in Common}
<1>3. \A t \in T : t \in Nat /\ t <= n  BY <1>0, <1>1
<1>4. SelfValid \in T
  <2>1. T # {} /\ n \in Nat  BY <1>0, <1>1
  <2>2. SelfValid = Max(T)  BY DEF SelfValid
  <2> HIDE DEF T
  <2>3. QED  BY <1>3, <2>1, <2>2, MaxIsGreatest
<1>5. SelfValid \in Nat /\ SelfValid <= n  BY <1>3, <1>4
<1>6. Common # starts
  <2> HIDE DEF T
  <2>0. l \in starts \cup {l} /\ l # 0  BY <1>0
  <2>1. PICK s \in starts : NextStart(starts, l, s) = l  BY <1>2, <2>0, EndsAreNextStarts
  <2>2. s \in Common => l <= n  BY <1>1, <2>1 DEF PatchEnd
  <2>3. QED  BY <1>0, <1>1, <2>1, <2>2
<1>7. ASSUME NEW k \in 1..SelfValid
      PROVE  rows[k] = FullView(req.em, out, l - 1)[k]
  <2>1. SelfValid # 0  BY <1>5
  <2>2. Common # {}  BY <1>4, <2>1
  <2>3. k \in 1..n  BY <1>0, <1>1, <1>5
  <2>4. QED  BY <1>1, <2>2, <2>3
<1>8. ASSUME NEW c \in cross, c.start \in Common
      PROVE  c \in TierTwoOf(req.em, out)
  <2>1. c = PatchOf(req.em, out, c.start) /\ c.start \in Starts(req.em, out)
    BY <1>0, <1>1, <1>8 DEF Common
  <2>2. QED  BY <2>1 DEF TierTwoOf
<1>9. \A s \in starts : TierTwo(s) = PatchOf(req.em, out, s)  BY <1>0, TierTwoIs
<1>10. ASSUME NEW s \in Starts(req.em, out)
       PROVE  PatchOf(req.em, out, s) \in
                {c \in cross : c.start \in Common} \cup {TierTwo(u) : u \in starts \ Common}
  <2>1. CASE s \in Common
    <3>1. PatchOf(req.em, out, s) \in cross  BY <1>1, <2>1
    <3>2. PatchOf(req.em, out, s).start = s  BY <1>0, PatchOfIs
    <3>3. QED  BY <2>1, <3>1, <3>2
  <2>2. CASE s \notin Common  BY <1>0, <1>9, <2>2
  <2>3. QED  BY <2>1, <2>2
<1>11. {c \in cross : c.start \in Common} \cup {TierTwo(s) : s \in starts \ Common}
         = TierTwoOf(req.em, out)
  BY <1>0, <1>8, <1>9, <1>10 DEF TierTwoOf
<1>12. SelfValid <= Len(rows) /\ SelfValid < l  BY <1>0, <1>1, <1>5
<1>13. QED  BY <1>5, <1>6, <1>7, <1>11, <1>12
-----------------------------------------------------------------------------
(* The committed bytes are a nonempty sequence within the target.          *)
LEMMA OutIs ==
    ASSUME TypeOK
    PROVE  /\ out \in Seq(Byte) /\ l = Len(out) /\ l \in Nat /\ l >= 2 /\ l >= Len(req.prompt)
           /\ Len(req.prompt) \in Nat /\ Len(rows) \in Nat
           /\ Len(draft) \in Nat /\ req.target \in Nat /\ l <= req.target
           /\ req.window \in Nat /\ req.window >= 1
<1>1. /\ out \in Seq(Byte) /\ rows \in Seq(Row) /\ draft \in Seq(Byte)
      /\ req.prompt \in Prompts /\ Len(req.prompt) <= Len(out) /\ req.target \in Nat
      /\ Len(out) <= req.target /\ req.window \in Windows
  BY DEF TypeOK, Request
<1>2. Len(req.prompt) \in Nat /\ Len(req.prompt) >= 2
  BY <1>1, SelfSpecAssumption, LenProperties
<1>3. Len(out) \in Nat /\ Len(rows) \in Nat /\ Len(draft) \in Nat  BY <1>1, LenProperties
<1>4. req.window \in Nat /\ req.window >= 1  BY <1>1, SelfSpecAssumption
<1>5. QED  BY <1>1, <1>2, <1>3, <1>4 DEF l

(* The chunk completes tier 1 to the rows of a full pass over the          *)
(* committed bytes, so the byte it predicts is the greedy one.             *)
LEMMA PrefillIs ==
    ASSUME TypeOK, CallInv, RefreshedInv, pc = "prefill"
    PROVE  /\ Len(rows) < l
           /\ Prefilled \in Seq(Row) /\ Len(Prefilled) = l
           /\ \A k \in 1..l : Prefilled[k] = FullView(req.em, out, l - 1)[k]
           /\ NextDraft = NextByte(req.em, req.model, out)
           /\ NextDraft \in Byte
<1>0. /\ starts = Starts(req.em, out) /\ cross = TierTwoOf(req.em, out) /\ Len(rows) < l
      /\ \A k \in 1..Len(rows) : rows[k] = FullView(req.em, out, l - 1)[k]
  BY DEF CallInv, RefreshedInv, InRound
<1>1. out \in Seq(Byte) /\ l = Len(out) /\ l \in Nat /\ l >= 2 /\ Len(rows) \in Nat  BY OutIs
<1> DEFINE n == l - Len(rows)
           row(k) == [h |-> SubSeq(out, 1, Len(rows) + k), o |-> Latent(Len(rows) + k - 1)]
<1>2. n \in Nat /\ n >= 1  BY <1>0, <1>1
<1>3. ASSUME NEW k \in 1..n
      PROVE  row(k) \in Row /\ row(k) = FullView(req.em, out, l - 1)[Len(rows) + k]
  <2>1. PICK j \in 1..l : j = Len(rows) + k /\ Len(rows) + k - 1 = j - 1 /\ j - 1 \in Nat
    BY <1>0, <1>1
  <2>2. /\ Latent(j - 1) = SubSeq(out, 1, LatentEnd(starts, l, Closed(req.em, out), j - 1))
        /\ Latent(j - 1) \in Seq(Byte)
    <3>1. l >= 1 /\ j - 1 \in Nat  BY <1>1, <2>1
    <3>2. QED  BY <1>0, <1>1, <3>1, LatentIs
  <2>3. SubSeq(out, 1, j) \in Seq(Byte)  BY <1>1, StartsOfPrefix
  <2>4. l - 1 \in 0..(Len(out) - 1) /\ j \in 1..((l - 1) + 1)  BY <1>1
  <2>5. FullView(req.em, out, l - 1)[j] =
          [h |-> SubSeq(out, 1, j),
           o |-> SubSeq(out, 1, LatentEnd(Starts(req.em, out), Len(out), Closed(req.em, out), j - 1))]
    BY <1>1, <2>4, FullViewIs
  <2>6. FullView(req.em, out, l - 1)[j] = [h |-> SubSeq(out, 1, j), o |-> Latent(j - 1)]
    BY <1>0, <1>1, <2>2, <2>5
  <2>7. QED  BY <2>1, <2>2, <2>3, <2>6 DEF Row
<1>4. Chunk = [k \in 1..n |-> row(k)]  BY DEF Chunk
<1>5. /\ Chunk \in Seq(Row) /\ Len(Chunk) = n
      /\ \A k \in 1..n : Chunk[k] = FullView(req.em, out, l - 1)[Len(rows) + k]
  <2> HIDE DEF n, row
  <2> QED  BY <1>2, <1>3, <1>4
<1>6. rows \in Seq(Row)  BY DEF TypeOK
<1>7. /\ Prefilled \in Seq(Row) /\ Len(Prefilled) = l
      /\ \A k \in 1..l : Prefilled[k] = IF k <= Len(rows) THEN rows[k] ELSE Chunk[k - Len(rows)]
  <2>1. Len(rows) + Len(Chunk) = l  BY <1>1, <1>5
  <2>2. QED  BY <1>5, <1>6, <2>1, ConcatProperties DEF Prefilled
<1>8. ASSUME NEW k \in 1..l
      PROVE  Prefilled[k] = FullView(req.em, out, l - 1)[k]
  <2>1. CASE k <= Len(rows)  BY <1>0, <1>1, <1>7, <2>1
  <2>2. CASE ~(k <= Len(rows))
    <3>1. k - Len(rows) \in 1..n /\ Len(rows) + (k - Len(rows)) = k  BY <1>1, <2>2
    <3>2. QED  BY <1>5, <1>7, <2>2, <3>1
  <2>3. QED  BY <2>1, <2>2
<1>9. FullView(req.em, out, l - 1) \in Seq(Row) /\ Len(FullView(req.em, out, l - 1)) = l
  <2>1. l - 1 \in 0..(Len(out) - 1) /\ (l - 1) + 1 = l  BY <1>1
  <2>2. QED  BY <1>1, <2>1, FullViewIs DEF Row
<1>10. Prefilled = FullView(req.em, out, l - 1)  BY <1>7, <1>8, <1>9, SeqEqual
<1>11. NextDraft = NextByte(req.em, req.model, out)  BY <1>1, <1>10 DEF NextDraft, NextByte
<1>12. QED  BY <1>0, <1>7, <1>8, <1>11, ArgmaxIsByte DEF NextDraft
-----------------------------------------------------------------------------
(* Verification picks one position p at or past the committed bytes: it    *)
(* keeps the candidate's bytes before p, each its own prediction, and adds *)
(* the prediction at p, where the candidate ends or disagrees.             *)
LEMMA CandidateIs ==
    ASSUME TypeOK
    PROVE  /\ out \o draft \in Seq(Byte) /\ Len(out \o draft) = l + Len(draft)
           /\ SubSeq(out \o draft, 1, l) = out
           /\ Len(draft) >= 1 => (out \o draft)[l + 1] = draft[1]
<1>1. /\ out \in Seq(Byte) /\ l = Len(out) /\ l \in Nat /\ l >= 2 /\ Len(draft) \in Nat
      /\ draft \in Seq(Byte)
  BY OutIs DEF TypeOK
<1>2. /\ out \o draft \in Seq(Byte) /\ Len(out \o draft) = l + Len(draft)
      /\ \A i \in 1..(l + Len(draft)) :
            (out \o draft)[i] = IF i <= l THEN out[i] ELSE draft[i - l]
  BY <1>1, ConcatProperties
<1>3. SubSeq(out \o draft, 1, l) = out
  <2>1. 1 \in 1..Len(out) /\ l \in 1..Len(out)  BY <1>1
  <2>2. SubSeq(out \o draft, 1, l) = SubSeq(out, 1, l)  BY <1>1, <2>1, SubSeqOfConcat1
  <2>3. QED  BY <1>1, <2>2, SubSeqFull
<1>4. ASSUME Len(draft) >= 1  PROVE (out \o draft)[l + 1] = draft[1]
  <2>1. l + 1 \in 1..(l + Len(draft)) /\ ~(l + 1 <= l) /\ (l + 1) - l = 1  BY <1>1, <1>4
  <2>2. QED  BY <1>2, <2>1
<1>5. QED  BY <1>2, <1>3, <1>4

(* What a verification commits, in terms of the bytes alone.               *)
LEMMA VerifyCommits ==
    ASSUME TypeOK, CallInv, DraftInv, Verify
    PROVE  /\ out' \in Seq(Byte) /\ Len(out') \in (l + 1)..req.target
           /\ SubSeq(out', 1, l) = out
           /\ \A i \in (l + 1)..Len(out') :
                 FirstClosed(req.em, SubSeq(out', 1, i - 1))
                   => out'[i] = NextByte(req.em, req.model, SubSeq(out', 1, i - 1))
           /\ stats' = Accepted(Len(out') - l - 1)
           /\ Len(out') - l - 1 <= Len(draft)
           /\ FirstClosed(req.em, out) => Len(out') >= l + 2
<1> DEFINE x == out \o draft
           p == Matched(req.em, req.model, x, l)
<1>1. /\ l \in Nat /\ l >= 2 /\ l = Len(out) /\ Len(draft) = r /\ r \in Nat /\ r >= 1
      /\ req.target \in Nat /\ l < req.target /\ r = Window /\ req.window \in Nat
      /\ pc = "verify" /\ draft[1] = NextByte(req.em, req.model, out)
  BY OutIs DEF CallInv, DraftInv, InRound, TypeOK, Verify
<1>2. /\ x \in Seq(Byte) /\ Len(x) = l + r /\ SubSeq(x, 1, l) = out
      /\ x[l + 1] = draft[1]
  BY <1>1, CandidateIs
<1>3. l + r + 1 <= req.target  BY <1>1 DEF Window
<1>4. /\ out' = Verified(req.em, req.model, x, l, req.target)
      /\ stats' = Accepted(p - l)
  BY DEF Verify
<1> HIDE DEF x
<1>5. l \in 1..Len(x) /\ Len(x) < req.target /\ Len(x) <= req.target
  BY <1>1, <1>2, <1>3
<1>6. /\ out' \in Seq(Byte) /\ Len(out') \in l..req.target
      /\ SubSeq(out', 1, l) = SubSeq(x, 1, l) /\ Len(out') = p + 1
      /\ \A i \in (l + 1)..Len(out') :
            FirstClosed(req.em, SubSeq(out', 1, i - 1))
              => out'[i] = NextByte(req.em, req.model, SubSeq(out', 1, i - 1))
  <2>1. x \in Seq(Byte) /\ req.target \in Nat  BY <1>1, <1>2
  <2>2. /\ Verified(req.em, req.model, x, l, req.target) \in Seq(Byte)
        /\ Len(Verified(req.em, req.model, x, l, req.target)) \in l..req.target
        /\ SubSeq(Verified(req.em, req.model, x, l, req.target), 1, l) = SubSeq(x, 1, l)
        /\ Len(Verified(req.em, req.model, x, l, req.target)) = p + 1
    BY <1>5, <2>1, VerifiedIs
  <2>3. ASSUME NEW i \in (l + 1)..Len(out'), FirstClosed(req.em, SubSeq(out', 1, i - 1))
        PROVE  out'[i] = NextByte(req.em, req.model, SubSeq(out', 1, i - 1))
    <3> HIDE DEF p
    <3>1. QED  BY <1>4, <1>5, <2>1, <2>3, VerifiedIsGreedy
  <2> HIDE DEF p
  <2>4. QED  BY <1>4, <2>2, <2>3
<1>7. PICK n \in l..Len(x) : n = p  BY <1>2, <1>5, MatchedIs
<1>8. Len(out') \in (l + 1)..req.target  BY <1>1, <1>6, <1>7
<1>9. stats' = Accepted(Len(out') - l - 1)
  <2>1. Len(out') - l - 1 = p - l  BY <1>1, <1>6, <1>7
  <2>2. QED  BY <1>4, <2>1
<1>10. ASSUME FirstClosed(req.em, out)  PROVE Len(out') >= l + 2
  <2>1. Pred(req.em, req.model, x, l) = NextByte(req.em, req.model, out)
    BY <1>2, <1>5, <1>10, PredIs
  <2>2. x[l + 1] = Pred(req.em, req.model, x, l)  BY <1>1, <1>2, <2>1
  <2>3. p # l
    <3>1. p < Len(x) => x[p + 1] # Pred(req.em, req.model, x, p)  BY <1>2, <1>5, MatchedIs
    <3>2. QED  BY <1>1, <1>2, <2>2, <3>1
  <2>4. QED  BY <1>1, <1>2, <1>6, <1>7, <2>3
<1>11. Len(out') - l - 1 <= Len(draft)
  <2>1. n <= l + Len(draft) /\ n \in Nat  BY <1>1, <1>2
  <2>2. Len(out') = n + 1  BY <1>6, <1>7
  <2> HIDE DEF p
  <2>3. QED  BY <1>1, <2>1, <2>2
<1>12. QED  BY <1>2, <1>6, <1>8, <1>9, <1>10, <1>11
-----------------------------------------------------------------------------
(* Committing one more byte raises the difference of counts by one.        *)
LEMMA CountCommit ==
    ASSUME NEW a \in Nat, NEW b \in Nat, NEW c \in Nat
    PROVE  a - b - c \in Int /\ (a + 1) - b - c = (a - b - c) + 1
OBVIOUS

(* The inductive invariant holds initially and every action preserves it.  *)
LEMMA InitIInv == Init => IInv
<1> SUFFICES ASSUME Init PROVE IInv  OBVIOUS
<1>1. PICK e \in EntropyModels, m \in Models, p \in Prompts, k \in 0..MaxNew, w \in Windows :
          /\ req = [em |-> e, model |-> m, prompt |-> p, target |-> Len(p) + k, window |-> w]
          /\ out = p
  BY DEF Init
<1>2. p \in Seq(Byte) /\ Len(p) \in Nat /\ Len(p) >= 2  BY SelfSpecAssumption, LenProperties
<1>3. MaxNew \in Nat /\ w \in Nat /\ w >= 1  BY SelfSpecAssumption
<1>4. /\ r = 0 /\ starts = {} /\ rows = <<>> /\ cross = {} /\ draft = <<>> /\ pc = "round"
      /\ stats = [enc |-> 0, dec |-> 0, drafted |-> 0, accepted |-> 0]
  BY DEF Init
<1>5. /\ req.prompt = p /\ req.target = Len(p) + k /\ req.window = w
      /\ req.target \in Nat /\ k \in Nat /\ k <= MaxNew
  BY <1>1, <1>2, <1>3
<1>6. req \in Request  BY <1>1, <1>2, <1>5 DEF Request
<1>7. TypeOK
  <2>1. /\ out \in Seq(Byte) /\ Len(req.prompt) <= Len(out) /\ Len(out) <= req.target
        /\ req.target <= Len(req.prompt) + MaxNew
    BY <1>1, <1>2, <1>3, <1>5
  <2>2. rows \in Seq(Row) /\ draft \in Seq(Byte) /\ cross \subseteq CachedPatch
        /\ starts \subseteq Nat /\ r \in Nat /\ r <= req.window
    BY <1>3, <1>4, <1>5
  <2>3. stats \in [enc : Nat, dec : Nat, drafted : Nat, accepted : Nat]  BY <1>4
  <2>4. pc = "round"  BY <1>4
  <2>5. QED  BY <1>6, <2>1, <2>2, <2>3, <2>4 DEF TypeOK
<1>8. CallInv /\ CacheInv
  BY <1>4 DEF CallInv, CacheInv, StaleInv, RefreshedInv, DraftInv, InRound
<1>9. StatsInv
  <2>1. Rounds = 0 /\ stats.enc = 0 /\ stats.dec = 0 /\ stats.drafted = 0
    BY <1>1, <1>2, <1>4, <1>5 DEF Rounds, l
  <2>2. QED  BY <1>4, <2>1 DEF StatsInv, InRound
<1>10. AcceptedInv  BY <1>4 DEF AcceptedInv
<1>11. QED  BY <1>7, <1>8, <1>9, <1>10 DEF IInv

(* Segmenting and encoding the committed bytes keeps the invariant.        *)
LEMMA SegmentStep == ASSUME IInv, Segment PROVE IInv'
<1>1. /\ pc = "round" /\ pc' = "cache" /\ l < req.target /\ r' = Window
      /\ starts' = Starts(req.em, out) /\ stats' = Counted(1, 0, 0, 0)
      /\ req' = req /\ out' = out /\ rows' = rows /\ cross' = cross /\ draft' = draft
  BY DEF Segment
<1>2. TypeOK /\ StaleInv /\ StatsInv /\ AcceptedInv  BY DEF IInv, CacheInv
<1>3. /\ l \in Nat /\ l >= 2 /\ l = Len(out) /\ req.target \in Nat /\ req.window \in Nat
      /\ out \in Seq(Byte) /\ Len(req.prompt) \in Nat
  BY <1>2, OutIs
<1>9. stats \in [enc : Nat, dec : Nat, drafted : Nat, accepted : Nat]  BY <1>2 DEF TypeOK
<1>4. TypeOK'
  <2>1. r' \in Nat /\ r' <= req.window  BY <1>1, <1>3 DEF Window
  <2>2. Segmented(starts', l)  BY <1>1, <1>3, StartsSegmented
  <2>3. starts' \subseteq Nat  BY <2>2 DEF Segmented
  <2>4. stats' \in [enc : Nat, dec : Nat, drafted : Nat, accepted : Nat]
    BY <1>1, <1>9 DEF Counted
  <2>5. QED  BY <1>1, <1>2, <2>1, <2>3, <2>4 DEF TypeOK
<1>5. CallInv'  BY <1>1 DEF CallInv, Window, l
<1>6. CacheInv'
  <2>1. StaleInv'  BY <1>1, <1>2 DEF StaleInv, CacheOf, l
  <2>2. QED  BY <1>1, <2>1 DEF CacheInv, RefreshedInv, DraftInv
<1>7. StatsInv'
  <2>1. /\ stats'.enc = stats.enc + 1 /\ stats'.dec = stats.dec
        /\ stats'.drafted = stats.drafted /\ stats'.accepted = stats.accepted
    BY <1>1, <1>9 DEF Counted
  <2>2. Rounds' = Rounds  BY <1>1, <2>1 DEF Rounds, l
  <2>3. QED  BY <1>1, <1>2, <2>1, <2>2 DEF StatsInv, InRound
<1>8. AcceptedInv'
  <2>1. stats'.drafted = stats.drafted + 0 /\ stats'.accepted = stats.accepted + 0
    BY <1>1, <1>9 DEF Counted
  <2>2. stats.drafted \in Nat /\ stats.accepted \in Nat  BY <1>9
  <2>3. QED  BY <1>1, <1>2, <2>1, <2>2 DEF AcceptedInv
<1>10. QED  BY <1>4, <1>5, <1>6, <1>7, <1>8 DEF IInv

(* Truncating and refreshing the cache keeps the invariant: afterwards     *)
(* tier 2 is that of the committed bytes.                                  *)
LEMMA MaintainCacheStep == ASSUME IInv, MaintainCache PROVE IInv'
<1>1. /\ pc = "cache" /\ pc' = "prefill" /\ rows' = KeptRows
      /\ cross' = {c \in cross : c.start \in Common} \cup {TierTwo(s) : s \in starts \ Common}
      /\ req' = req /\ out' = out /\ r' = r /\ starts' = starts /\ draft' = draft
      /\ stats' = stats
  BY DEF MaintainCache
<1>2. TypeOK /\ CallInv /\ StaleInv /\ StatsInv /\ AcceptedInv  BY DEF IInv, CacheInv
<1>3. /\ out \in Seq(Byte) /\ l = Len(out) /\ l \in Nat /\ l >= 2 /\ Len(rows) \in Nat
  BY <1>2, OutIs
<1>4. /\ SelfValid \in Nat /\ SelfValid <= Len(rows) /\ SelfValid < l
      /\ \A k \in 1..SelfValid : rows[k] = FullView(req.em, out, l - 1)[k]
      /\ cross' = TierTwoOf(req.em, out)
  BY <1>1, <1>2, RefreshIs
<1>5. /\ rows' \in Seq(Row) /\ Len(rows') = SelfValid
      /\ \A k \in 1..SelfValid : rows'[k] = rows[k]
  <2>1. rows \in Seq(Row)  BY <1>2 DEF TypeOK
  <2>2. \A k \in 1..SelfValid : rows[k] \in Row  BY <1>3, <1>4, <2>1, ElementOfSeq
  <2>3. /\ SubSeq(rows, 1, SelfValid) \in Seq(Row)
        /\ Len(SubSeq(rows, 1, SelfValid)) = IF 1 <= SelfValid THEN SelfValid - 1 + 1 ELSE 0
        /\ \A k \in 1..(SelfValid - 1 + 1) : SubSeq(rows, 1, SelfValid)[k] = rows[1 + k - 1]
    BY <1>4, <2>2, SubSeqProperties
  <2>4. rows' = SubSeq(rows, 1, SelfValid)  BY <1>1 DEF KeptRows
  <2> HIDE DEF KeptRows
  <2>5. Len(rows') = SelfValid  BY <1>4, <2>3, <2>4
  <2>6. ASSUME NEW k \in 1..SelfValid  PROVE rows'[k] = rows[k]
    <3>1. k \in 1..(SelfValid - 1 + 1) /\ 1 + k - 1 = k  BY <1>4
    <3>2. QED  BY <2>3, <2>4, <3>1
  <2>7. QED  BY <2>3, <2>4, <2>5, <2>6
<1>6. TypeOK'
  <2>1. ASSUME NEW s \in Starts(req.em, out)  PROVE PatchOf(req.em, out, s) \in CachedPatch
    BY <1>3, PatchOfIs
  <2>2. cross' \subseteq CachedPatch  BY <1>4, <2>1 DEF TierTwoOf
  <2>3. QED  BY <1>1, <1>2, <1>5, <2>2 DEF TypeOK
<1>7. CallInv'  BY <1>1, <1>2 DEF CallInv, Window, l, InRound
<1>8. CacheInv'
  <2>1. \A k \in 1..SelfValid : rows'[k] = FullView(req.em, out, l - 1)[k]
    BY <1>4, <1>5
  <2>2. RefreshedInv'  BY <1>1, <1>4, <1>5, <2>1 DEF RefreshedInv, l
  <2>3. QED  BY <1>1, <2>2 DEF CacheInv, StaleInv, DraftInv
<1>9. StatsInv'  BY <1>1, <1>2 DEF StatsInv, Rounds, l, InRound
<1>10. AcceptedInv'  BY <1>1, <1>2 DEF AcceptedInv
<1>11. QED  BY <1>6, <1>7, <1>8, <1>9, <1>10 DEF IInv

(* Decoding the chunk and drafting the first byte keep the invariant.      *)
LEMMA PrefillStep == ASSUME IInv, Prefill PROVE IInv'
<1>1. /\ pc = "prefill" /\ rows' = Prefilled
      /\ req' = req /\ r' = r /\ starts' = starts /\ cross' = cross
  BY DEF Prefill
<1>2. TypeOK /\ CallInv /\ RefreshedInv /\ StatsInv  BY DEF IInv, CacheInv
<1>3. /\ out \in Seq(Byte) /\ l = Len(out) /\ l \in Nat /\ l >= 2 /\ req.target \in Nat
      /\ Len(req.prompt) \in Nat /\ l >= Len(req.prompt)
  BY <1>2, OutIs
<1>4. /\ Prefilled \in Seq(Row) /\ Len(Prefilled) = l
      /\ \A k \in 1..l : Prefilled[k] = FullView(req.em, out, l - 1)[k]
      /\ NextDraft = NextByte(req.em, req.model, out) /\ NextDraft \in Byte
  BY <1>1, <1>2, PrefillIs
<1>5. /\ l < req.target /\ r = Window /\ starts = Starts(req.em, out)
      /\ cross = TierTwoOf(req.em, out)
      /\ stats.enc = 2 * Rounds + 1 /\ stats.dec = stats.drafted + Rounds
  BY <1>1, <1>2 DEF CallInv, RefreshedInv, StatsInv, InRound
<1>6. stats \in [enc : Nat, dec : Nat, drafted : Nat, accepted : Nat]  BY <1>2 DEF TypeOK
<1>10. stats.accepted <= stats.drafted /\ stats.accepted \in Nat /\ stats.drafted \in Nat
  BY <1>1, <1>6 DEF IInv, AcceptedInv
<1>7. CASE /\ r = 0 /\ out' = Append(out, NextDraft)
           /\ stats' = Counted(0, 1, 0, 0)
           /\ pc' = "done" /\ draft' = draft
  <2>1. out' \in Seq(Byte) /\ Len(out') = l + 1
    BY <1>3, <1>4, <1>7, AppendProperties
  <2>2. stats' \in [enc : Nat, dec : Nat, drafted : Nat, accepted : Nat]
        /\ stats'.enc = stats.enc /\ stats'.dec = stats.dec + 1
        /\ stats'.drafted = stats.drafted /\ stats'.accepted = stats.accepted
    BY <1>6, <1>7 DEF Counted
  <2>3. TypeOK'
    BY <1>1, <1>2, <1>3, <1>4, <1>5, <1>7, <2>1, <2>2, SMTT(30) DEF TypeOK
  <2>4. CallInv' /\ CacheInv'
    BY <1>7 DEF CallInv, CacheInv, StaleInv, RefreshedInv, DraftInv, InRound
  <2>5. Rounds' = Rounds + 1
    <3>1. stats.accepted \in Nat  BY <1>6
    <3>2. (l + 1) - Len(req.prompt) - stats.accepted = (l - Len(req.prompt) - stats.accepted) + 1
      BY <1>3, <3>1, CountCommit
    <3>3. Rounds' = (l + 1) - Len(req.prompt) - stats.accepted
      BY <1>1, <2>1, <2>2 DEF Rounds
    <3>4. Rounds = l - Len(req.prompt) - stats.accepted  BY <1>3 DEF Rounds
    <3>5. QED  BY <3>2, <3>3, <3>4
  <2>6. Rounds \in Int  BY <1>3, <1>6 DEF Rounds
  <2>7. stats'.enc = 2 * Rounds' - 1 /\ stats'.dec = stats'.drafted + Rounds'
    BY <1>5, <1>6, <2>2, <2>5, <2>6
  <2>8. StatsInv'  BY <1>7, <2>7 DEF StatsInv, InRound
  <2>9. AcceptedInv'  BY <1>7, <1>10, <2>2 DEF AcceptedInv
  <2>10. QED  BY <2>3, <2>4, <2>8, <2>9 DEF IInv
<1>8. CASE /\ r > 0 /\ draft' = <<NextDraft>>
           /\ stats' = Counted(0, 1, 1, 0)
           /\ pc' = IF r > 1 THEN "draft" ELSE "verify"
           /\ out' = out
  <2>1. draft' \in Seq(Byte) /\ Len(draft') = 1 /\ draft'[1] = NextDraft
    BY <1>4, <1>8
  <2>2. stats' \in [enc : Nat, dec : Nat, drafted : Nat, accepted : Nat]
        /\ stats'.enc = stats.enc /\ stats'.dec = stats.dec + 1
        /\ stats'.drafted = stats.drafted + 1 /\ stats'.accepted = stats.accepted
    BY <1>6, <1>8 DEF Counted
  <2>3. pc' \in {"draft", "verify"}  BY <1>8
  <2>4. r \in Nat  BY <1>2 DEF TypeOK
  <2>5. TypeOK'
    BY <1>1, <1>2, <1>4, <1>8, <2>1, <2>2, <2>3 DEF TypeOK
  <2>6. CallInv'  BY <1>1, <1>5, <1>8 DEF CallInv, Window, l
  <2>7. CacheOf(req.em, out)'  BY <1>1, <1>3, <1>4, <1>5, <1>8 DEF CacheOf
  <2>8. IF pc' = "draft" THEN Len(draft') < r ELSE Len(draft') = r
    BY <1>8, <2>1, <2>4
  <2>9. DraftInv'
    BY <1>1, <1>3, <1>4, <1>8, <2>1, <2>7, <2>8 DEF DraftInv, l
  <2>10. CacheInv'  BY <2>3, <2>9 DEF CacheInv, StaleInv, RefreshedInv
  <2>11. Rounds' = Rounds /\ Rounds \in Int  BY <1>1, <1>3, <1>6, <1>8, <2>2 DEF Rounds, l
  <2>12. stats'.enc = 2 * Rounds' + 1 /\ stats'.dec = stats'.drafted + Rounds'
    BY <1>5, <1>6, <2>2, <2>11
  <2>13. StatsInv'  BY <2>3, <2>12 DEF StatsInv, InRound
  <2>14. AcceptedInv'  BY <1>10, <2>1, <2>2, <2>3 DEF AcceptedInv
  <2>15. QED  BY <2>5, <2>6, <2>10, <2>13, <2>14 DEF IInv
<1>9. QED  BY <1>7, <1>8 DEF Prefill

(* Drafting one more byte from the cache keeps the invariant.              *)
LEMMA DraftStepStep == ASSUME IInv, DraftStep PROVE IInv'
<1>1. /\ pc = "draft" /\ Len(rows) = l + Len(draft) - 1
      /\ rows' = Append(rows, [h |-> <<>>, o |-> Latent(Len(rows))])
      /\ stats' = Counted(0, 1, 1, 0)
      /\ pc' = IF Len(draft) + 1 < r THEN "draft" ELSE "verify"
      /\ req' = req /\ out' = out /\ r' = r /\ starts' = starts /\ cross' = cross
  BY DEF DraftStep
<1>2. TypeOK /\ CallInv /\ DraftInv /\ StatsInv  BY DEF IInv, CacheInv
<1>3. PICK b \in Byte : draft' = Append(draft, b)  BY DEF DraftStep
<1>4. /\ out \in Seq(Byte) /\ l = Len(out) /\ l \in Nat /\ l >= 2 /\ Len(rows) \in Nat
      /\ Len(draft) \in Nat /\ Len(req.prompt) \in Nat
  BY <1>2, OutIs
<1>5. /\ starts = Starts(req.em, out) /\ r = Window /\ l < req.target
      /\ CacheOf(req.em, out) /\ cross = TierTwoOf(req.em, out)
      /\ Len(draft) >= 1 /\ Len(draft) < r
      /\ draft[1] = NextByte(req.em, req.model, out)
      /\ stats.enc = 2 * Rounds + 1 /\ stats.dec = stats.drafted + Rounds
  BY <1>1, <1>2 DEF CallInv, DraftInv, StatsInv, InRound, CacheOf
<1>6. /\ rows \in Seq(Row) /\ draft \in Seq(Byte) /\ r \in Nat
      /\ stats \in [enc : Nat, dec : Nat, drafted : Nat, accepted : Nat]
  BY <1>2 DEF TypeOK
<1>7. /\ rows' \in Seq(Row) /\ Len(rows') = Len(rows) + 1
      /\ \A k \in 1..Len(rows) : rows'[k] = rows[k]
  <2>1. Latent(Len(rows)) \in Seq(Byte)  BY <1>4, <1>5, LatentIs
  <2>2. [h |-> <<>>, o |-> Latent(Len(rows))] \in Row  BY <2>1 DEF Row
  <2>3. QED  BY <1>1, <1>6, <2>2, AppendProperties
<1>8. draft' \in Seq(Byte) /\ Len(draft') = Len(draft) + 1 /\ draft'[1] = draft[1]
  BY <1>3, <1>4, <1>5, <1>6, AppendProperties
<1>9. /\ stats' \in [enc : Nat, dec : Nat, drafted : Nat, accepted : Nat]
      /\ stats'.enc = stats.enc /\ stats'.dec = stats.dec + 1
      /\ stats'.drafted = stats.drafted + 1 /\ stats'.accepted = stats.accepted
  BY <1>1, <1>6 DEF Counted
<1>10. pc' \in {"draft", "verify"}  BY <1>1
<1>11. TypeOK'  BY <1>1, <1>2, <1>7, <1>8, <1>9, <1>10 DEF TypeOK
<1>12. CallInv'  BY <1>1, <1>5 DEF CallInv, Window, l
<1>13. DraftInv'
  <2>1. CacheOf(req.em, out)'  BY <1>1, <1>4, <1>5, <1>7 DEF CacheOf
  <2>2. IF pc' = "draft" THEN Len(draft') < r ELSE Len(draft') = r
    BY <1>1, <1>4, <1>5, <1>6, <1>8
  <2>3. Len(rows') = l + Len(draft') - 1  BY <1>1, <1>4, <1>7, <1>8
  <2>4. QED  BY <1>1, <1>4, <1>5, <1>8, <2>1, <2>2, <2>3 DEF DraftInv, l
<1>14. CacheInv'  BY <1>10, <1>13 DEF CacheInv, StaleInv, RefreshedInv
<1>15. StatsInv'
  <2>1. Rounds' = Rounds  BY <1>1, <1>9 DEF Rounds
  <2>2. Rounds \in Int  BY <1>4, <1>6, CountCommit DEF Rounds
  <2>3. stats'.enc = 2 * Rounds' + 1 /\ stats'.dec = stats'.drafted + Rounds'
    BY <1>5, <1>6, <1>9, <2>1, <2>2
  <2>4. QED  BY <1>10, <2>3 DEF StatsInv, InRound
<1>16. AcceptedInv'
  <2>1. stats.accepted + Len(draft) <= stats.drafted  BY <1>1 DEF IInv, AcceptedInv
  <2>2. stats.accepted \in Nat /\ stats.drafted \in Nat  BY <1>6
  <2>3. stats'.accepted + Len(draft') <= stats'.drafted  BY <1>4, <1>8, <1>9, <2>1, <2>2
  <2>4. QED  BY <1>10, <2>3 DEF AcceptedInv
<1>17. QED  BY <1>11, <1>12, <1>14, <1>15, <1>16 DEF IInv

(* Verifying the draft keeps the invariant and leaves the cache that of a  *)
(* proper prefix.                                                          *)
LEMMA VerifyStep == ASSUME IInv, Verify PROVE IInv'
<1>1. /\ pc = "verify" /\ pc' = "round" /\ draft' = <<>>
      /\ req' = req /\ r' = r /\ starts' = starts /\ rows' = rows /\ cross' = cross
  BY DEF Verify
<1>2. TypeOK /\ CallInv /\ DraftInv /\ StatsInv  BY DEF IInv, CacheInv
<1>3. /\ out \in Seq(Byte) /\ l = Len(out) /\ l \in Nat /\ l >= 2 /\ Len(req.prompt) \in Nat
      /\ l >= Len(req.prompt) /\ req.target \in Nat
  BY <1>2, OutIs
<1>4. /\ out' \in Seq(Byte) /\ Len(out') \in (l + 1)..req.target
      /\ SubSeq(out', 1, l) = out /\ stats' = Accepted(Len(out') - l - 1)
      /\ Len(out') - l - 1 <= Len(draft)
  BY <1>2, VerifyCommits
<1>5. PICK n \in Nat : n = Len(out') - l - 1 /\ Len(out') = l + n + 1
  <2>1. Len(out') \in (l + 1)..req.target  BY <1>4
  <2>2. PICK k \in Nat : k = Len(out') /\ k >= l + 1  BY ONLY <1>3, <2>1
  <2>3. k - l - 1 \in Nat /\ k = l + (k - l - 1) + 1  BY ONLY <1>3, <2>2
  <2>4. QED  BY ONLY <2>2, <2>3
<1>6. stats \in [enc : Nat, dec : Nat, drafted : Nat, accepted : Nat]  BY <1>2 DEF TypeOK
<1>7. /\ stats' \in [enc : Nat, dec : Nat, drafted : Nat, accepted : Nat]
      /\ stats'.enc = stats.enc + 1 /\ stats'.dec = stats.dec + 1
      /\ stats'.drafted = stats.drafted /\ stats'.accepted = stats.accepted + n
  BY <1>4, <1>5, <1>6 DEF Accepted, Counted
<1>8. TypeOK'
  <2>1. Len(req.prompt) <= Len(out') /\ Len(out') <= req.target  BY <1>3, <1>4
  <2>2. draft' \in Seq(Byte)  BY <1>1
  <2>3. QED  BY <1>1, <1>2, <1>4, <1>7, <2>1, <2>2 DEF TypeOK
<1>9. CallInv'  BY <1>1 DEF CallInv, InRound
<1>10. CacheInv'
  <2>1. CacheOf(req.em, out)  BY <1>1, <1>2 DEF DraftInv
  <2>2. PICK n0 \in 1..(Len(out') - 1) : n0 = l /\ SubSeq(out', 1, n0) = out  BY <1>3, <1>4, <1>5
  <2>3. StaleInv'
    <3>1. /\ cross' = TierTwoOf(req'.em, SubSeq(out', 1, n0))
          /\ Len(rows') >= Len(SubSeq(out', 1, n0))
          /\ \A k \in 1..Len(SubSeq(out', 1, n0)) :
                rows'[k] = FullView(req'.em, SubSeq(out', 1, n0), Len(SubSeq(out', 1, n0)) - 1)[k]
      BY <1>1, <2>1, <2>2 DEF CacheOf
    <3>2. QED  BY <2>2, <3>1 DEF StaleInv, CacheOf, l
  <2>4. QED  BY <1>1, <2>3 DEF CacheInv, RefreshedInv, DraftInv
<1>11. StatsInv'
  <2>1. stats.enc = 2 * Rounds + 1 /\ stats.dec = stats.drafted + Rounds
    BY <1>1, <1>2 DEF StatsInv, InRound
  <2>2. PICK a \in Nat, b \in Nat : a = stats.accepted /\ b = Len(req.prompt)  BY <1>3, <1>6
  <2>3. Rounds = l - b - a  BY <1>3, <2>2 DEF Rounds
  <2>4. Rounds' = (l + n + 1) - b - (a + n)  BY <1>1, <1>5, <1>7, <2>2 DEF Rounds
  <2>5. Rounds \in Int /\ Rounds' = Rounds + 1  BY <1>3, <2>3, <2>4
  <2>6. stats'.enc = 2 * Rounds' /\ stats'.dec = stats'.drafted + Rounds'
    BY <1>6, <1>7, <2>1, <2>5
  <2>7. QED  BY <1>1, <2>6 DEF StatsInv, InRound
<1>12. AcceptedInv'
  <2>1. stats.accepted + Len(draft) <= stats.drafted  BY <1>1 DEF IInv, AcceptedInv
  <2>2. stats.accepted \in Nat /\ stats.drafted \in Nat /\ Len(draft) \in Nat
    BY <1>2, <1>6, OutIs
  <2>3. n <= Len(draft)  BY <1>4, <1>5
  <2>4. stats'.accepted <= stats'.drafted  BY <1>7, <2>1, <2>2, <2>3
  <2>5. stats'.accepted \in Nat  BY <1>7
  <2>6. QED  BY <1>1, <2>4, <2>5 DEF AcceptedInv
<1>13. QED  BY <1>8, <1>9, <1>10, <1>11, <1>12 DEF IInv

(* Ending the call, by return or by abort, keeps the invariant.            *)
LEMMA StopStep == ASSUME IInv, Finish \/ Abort \/ Return \/ UNCHANGED vars PROVE IInv'
<1>1. /\ req' = req /\ out' = out /\ r' = r /\ starts' = starts /\ rows' = rows
      /\ cross' = cross /\ draft' = draft /\ stats' = stats
  BY DEF Finish, Abort, Return, vars
<1>2. TypeOK /\ CallInv /\ CacheInv /\ StatsInv /\ AcceptedInv  BY DEF IInv
<1>3. CASE pc' = pc
  <2>1. TypeOK'  BY <1>1, <1>2, <1>3 DEF TypeOK
  <2>2. CallInv'  BY <1>1, <1>2, <1>3 DEF CallInv, Window, l
  <2>3. CacheInv'
    BY <1>1, <1>2, <1>3 DEF CacheInv, StaleInv, RefreshedInv, DraftInv, CacheOf, l
  <2>4. StatsInv'  BY <1>1, <1>2, <1>3 DEF StatsInv, Rounds
  <2>5. AcceptedInv'  BY <1>1, <1>2, <1>3 DEF AcceptedInv
  <2>6. QED  BY <2>1, <2>2, <2>3, <2>4, <2>5 DEF IInv
<1>4. CASE pc' \in {"done", "abort"} /\ (pc' = "done" => pc = "round")
  <2>1. TypeOK'  BY <1>1, <1>2, <1>4 DEF TypeOK
  <2>2. CallInv' /\ CacheInv'
    BY <1>4 DEF CallInv, CacheInv, StaleInv, RefreshedInv, DraftInv, InRound
  <2>3. StatsInv'  BY <1>1, <1>2, <1>4 DEF StatsInv, Rounds, InRound
  <2>4. AcceptedInv'  BY <1>1, <1>2, <1>4 DEF AcceptedInv
  <2>5. QED  BY <2>1, <2>2, <2>3, <2>4 DEF IInv
<1>5. QED  BY <1>3, <1>4 DEF Finish, Abort, Return, vars

(* Every step keeps the inductive invariant.                               *)
LEMMA Inductive == IInv /\ [Next]_vars => IInv'
<1> SUFFICES ASSUME IInv, [Next]_vars PROVE IInv'  OBVIOUS
<1>1. CASE Segment  BY <1>1, SegmentStep
<1>2. CASE MaintainCache  BY <1>2, MaintainCacheStep
<1>3. CASE Prefill  BY <1>3, PrefillStep
<1>4. CASE DraftStep  BY <1>4, DraftStepStep
<1>5. CASE Verify  BY <1>5, VerifyStep
<1>6. CASE Finish \/ Abort \/ Return \/ UNCHANGED vars  BY <1>6, StopStep
<1>7. QED  BY <1>1, <1>2, <1>3, <1>4, <1>5, <1>6 DEF Next

(* The inductive invariant holds in every reachable state.                 *)
LEMMA InvariantHolds == Spec => []IInv
<1>1. QED  BY InitIInv, Inductive, PTL DEF Spec
-----------------------------------------------------------------------------
(* Every variable keeps its type; in particular the committed bytes never  *)
(* exceed the requested length and a round's window never the requested    *)
(* window (the arithmetic of self_speculation.c:361).                      *)
THEOREM TypeCorrect == Spec => []TypeOK
<1>1. IInv => TypeOK  BY DEF IInv
<1>2. QED  BY <1>1, InvariantHolds, PTL

(* What the two-tier cache holds when it is read is what a full pass over  *)
(* the committed bytes would compute, however earlier rounds' drafts,      *)
(* rejections and re-segmentations went (blt_kv_cache_refresh_cross,       *)
(* blt_kv_decode_step).                                                    *)
THEOREM CacheIsFaithful == Spec => []CacheFaithful
<1>1. ASSUME IInv  PROVE CacheFaithful
  <2>1. TypeOK /\ CallInv /\ RefreshedInv /\ DraftInv  BY <1>1 DEF IInv, CacheInv
  <2>2. /\ out \in Seq(Byte) /\ l = Len(out) /\ l \in Nat /\ l >= 2
        /\ rows \in Seq(Row)
    BY <2>1, OutIs DEF TypeOK
  <2>3. ASSUME pc \in {"prefill", "draft", "verify"}
        PROVE  cross = {TierTwo(s) : s \in starts}
    <3>1. starts = Starts(req.em, out) /\ cross = TierTwoOf(req.em, out)
      BY <2>1, <2>3 DEF CallInv, RefreshedInv, DraftInv, CacheOf, InRound
    <3>2. \A s : TierTwo(s) = PatchOf(req.em, out, s)  BY <3>1, TierTwoIs
    <3>3. QED  BY <3>1, <3>2 DEF TierTwoOf
  <2>4. ASSUME pc \in {"draft", "verify"}
        PROVE  SubSeq(rows, 1, l) = FullView(req.em, out, l - 1)
    <3>1. Len(rows) >= l /\ \A k \in 1..l : rows[k] = FullView(req.em, out, l - 1)[k]
      BY <2>1, <2>2, <2>4 DEF DraftInv, CacheOf
    <3>2. \A k \in 1..l : rows[k] \in Row
      <4>1. Len(rows) \in Nat  BY <2>2, LenProperties
      <4>2. QED  BY <2>2, <3>1, <4>1, ElementOfSeq
    <3>3. /\ SubSeq(rows, 1, l) \in Seq(Row) /\ Len(SubSeq(rows, 1, l)) = l
          /\ \A k \in 1..l : SubSeq(rows, 1, l)[k] = rows[k]
      <4>1. /\ SubSeq(rows, 1, l) \in Seq(Row)
            /\ Len(SubSeq(rows, 1, l)) = IF 1 <= l THEN l - 1 + 1 ELSE 0
            /\ \A k \in 1..(l - 1 + 1) : SubSeq(rows, 1, l)[k] = rows[1 + k - 1]
        BY <2>2, <3>2, SubSeqProperties
      <4>2. \A k \in 1..l : k \in 1..(l - 1 + 1) /\ 1 + k - 1 = k  BY <2>2
      <4>3. QED  BY <2>2, <4>1, <4>2
    <3>4. FullView(req.em, out, l - 1) \in Seq(Row) /\ Len(FullView(req.em, out, l - 1)) = l
      <4>1. l - 1 \in 0..(Len(out) - 1) /\ (l - 1) + 1 = l  BY <2>2
      <4>2. QED  BY <2>2, <4>1, FullViewIs DEF Row
    <3>5. QED  BY <3>1, <3>3, <3>4, SeqEqual
  <2>5. QED  BY <2>3, <2>4 DEF CacheFaithful
<1>2. QED  BY <1>1, InvariantHolds, PTL

(* Between rounds and at the end the counters agree with the committed    *)
(* bytes (blt_infer_stats, blt_verify_draft).                              *)
THEOREM CommitsAccounted == Spec => []CommitAccounting
<1>1. ASSUME IInv  PROVE CommitAccounting
  <2>1. TypeOK /\ StatsInv /\ AcceptedInv  BY <1>1 DEF IInv
  <2>2. /\ l = Len(out) /\ l \in Nat /\ Len(req.prompt) \in Nat
        /\ stats \in [enc : Nat, dec : Nat, drafted : Nat, accepted : Nat]
    BY <2>1, OutIs DEF TypeOK
  <2>3. PICK a \in Nat, b \in Nat : a = stats.accepted /\ b = Len(req.prompt)  BY <2>2
  <2>4. Rounds = l - b - a /\ Rounds \in Int  BY <2>2, <2>3 DEF Rounds
  <2>5. ASSUME pc \in {"round", "done"}
        PROVE  /\ (stats.enc + 1) \div 2 = Rounds /\ stats.dec = stats.drafted + Rounds
               /\ Rounds >= 0
    BY <2>1, <2>2, <2>4, <2>5 DEF StatsInv
  <2>6. ASSUME pc \in {"round", "done"}
        PROVE  stats.accepted <= stats.drafted
    BY <2>1, <2>2, <2>6 DEF AcceptedInv
  <2>7. l - b = a + Rounds  BY <2>2, <2>3, <2>4
  <2>8. ASSUME pc \in {"round", "done"}
        PROVE  l - b \in a..(a + Rounds)
    <3>1. Rounds \in Nat /\ l - b = a + Rounds  BY <2>4, <2>5, <2>7, <2>8
    <3>2. PICK n \in Nat : n = Rounds  BY <3>1
    <3>3. a + n \in a..(a + n)  OBVIOUS
    <3>4. QED  BY <3>1, <3>2, <3>3
  <2>9. QED  BY <2>1, <2>3, <2>5, <2>6, <2>8 DEF CommitAccounting
<1>2. QED  BY <1>1, InvariantHolds, PTL
-----------------------------------------------------------------------------
(* What a step does to the committed bytes, whichever step it is: nothing, *)
(* or it appends bytes that are greedy once the first patch is closed.     *)
LEMMA StepCommits ==
    ASSUME IInv, [Next]_vars
    PROVE  /\ req' = req
           /\ \/ out' = out
              \/ /\ out' \in Seq(Byte) /\ Len(out') \in (l + 1)..req.target
                 /\ SubSeq(out', 1, l) = out
                 /\ \A i \in (l + 1)..Len(out') :
                       FirstClosed(req.em, SubSeq(out', 1, i - 1))
                         => out'[i] = NextByte(req.em, req.model, SubSeq(out', 1, i - 1))
<1>1. TypeOK /\ CallInv /\ RefreshedInv /\ DraftInv  BY DEF IInv, CacheInv
<1>2. /\ out \in Seq(Byte) /\ l = Len(out) /\ l \in Nat /\ l >= 2 /\ req.target \in Nat
  BY <1>1, OutIs
<1>3. CASE Prefill /\ out' = Append(out, NextDraft)
  <2>1. NextDraft = NextByte(req.em, req.model, out) /\ NextDraft \in Byte
    BY <1>1, <1>3, PrefillIs DEF Prefill
  <2>2. l < req.target /\ req' = req  BY <1>1, <1>3 DEF CallInv, InRound, Prefill
  <2>3. out' \in Seq(Byte) /\ Len(out') = l + 1 /\ out'[l + 1] = NextDraft
    BY <1>2, <1>3, <2>1, AppendProperties
  <2>4. SubSeq(out', 1, l) = out
    <3>1. out' = out \o <<NextDraft>> /\ <<NextDraft>> \in Seq(Byte)
      BY <1>2, <1>3, <2>1, AppendIsConcat
    <3>2. 1 \in 1..Len(out) /\ l \in 1..Len(out)  BY <1>2
    <3>3. SubSeq(out \o <<NextDraft>>, 1, l) = SubSeq(out, 1, l)
      BY <1>2, <3>1, <3>2, SubSeqOfConcat1
    <3>4. QED  BY <1>2, <3>1, <3>3, SubSeqFull
  <2>5. ASSUME NEW i \in (l + 1)..Len(out')
        PROVE  out'[i] = NextByte(req.em, req.model, SubSeq(out', 1, i - 1))
    <3>1. i = l + 1 /\ i - 1 = l  BY <1>2, <2>3
    <3>2. QED  BY <2>1, <2>3, <2>4, <3>1
  <2>6. Len(out') \in (l + 1)..req.target  BY <1>2, <2>2, <2>3
  <2>7. QED  BY <2>2, <2>3, <2>4, <2>5, <2>6
<1>4. CASE Verify
  <2>1. req' = req  BY <1>4 DEF Verify
  <2>2. QED  BY <1>1, <1>4, <2>1, VerifyCommits
<1>5. CASE req' = req /\ out' = out  BY <1>5
<1>6. QED
  BY <1>3, <1>4, <1>5
  DEF Next, Segment, MaintainCache, Prefill, DraftStep, Finish, Abort, Return, vars

(* Every byte committed after the first patch has closed is the byte plain *)
(* greedy decoding appends, whatever was drafted and cached on the way     *)
(* (blt_generate_greedy_selfspec, blt_verify_draft).                       *)
THEOREM CommitsAreGreedy == Spec => []GreedyOnceFirstPatchClosed
<1>1. Init => GreedyOnceFirstPatchClosed
  <2> SUFFICES ASSUME Init PROVE GreedyOnceFirstPatchClosed  OBVIOUS
  <2>1. TypeOK /\ out = req.prompt  BY InitIInv DEF IInv, Init
  <2>2. l = Len(req.prompt) /\ l \in Nat  BY <2>1, OutIs
  <2>3. NewBytes = {}  BY <2>2 DEF NewBytes
  <2>4. QED  BY <2>3 DEF GreedyOnceFirstPatchClosed
<1>2. ASSUME IInv, GreedyOnceFirstPatchClosed, [Next]_vars
      PROVE  GreedyOnceFirstPatchClosed'
  <2>1. /\ out \in Seq(Byte) /\ l = Len(out) /\ l \in Nat /\ l >= 2 /\ Len(req.prompt) \in Nat
    BY <1>2, OutIs DEF IInv
  <2>2. req' = req  BY <1>2, StepCommits
  <2>3. CASE out' = out
    BY <1>2, <2>2, <2>3 DEF GreedyOnceFirstPatchClosed, NewBytes, GreedyByte, l
  <2>4. CASE /\ out' \in Seq(Byte) /\ Len(out') \in (l + 1)..req.target
             /\ SubSeq(out', 1, l) = out
             /\ \A i \in (l + 1)..Len(out') :
                   FirstClosed(req.em, SubSeq(out', 1, i - 1))
                     => out'[i] = NextByte(req.em, req.model, SubSeq(out', 1, i - 1))
    <3>1. Len(out') \in Nat /\ l \in 1..Len(out')  BY <2>1, <2>4, LenProperties
    <3>2. \A j \in 0..l : SubSeq(out, 1, j) = SubSeq(out', 1, j)
      <4>1. \A j \in 0..l : SubSeq(SubSeq(out', 1, l), 1, j) = SubSeq(out', 1, j)
        BY <2>4, <3>1, StartsOfPrefix
      <4>2. QED  BY <2>4, <4>1
    <3>3. \A i \in 1..l : out[i] = out'[i]
      <4>1. \A i \in 1..l : out'[i] \in Byte  BY <2>4, <3>1, ElementOfSeq
      <4>2. \A i \in 1..(l - 1 + 1) : SubSeq(out', 1, l)[i] = out'[1 + i - 1]
        BY <2>1, <4>1, SubSeqProperties
      <4>3. \A i \in 1..l : i \in 1..(l - 1 + 1) /\ 1 + i - 1 = i  BY <2>1
      <4>4. QED  BY <2>4, <4>2, <4>3
    <3>4. ASSUME NEW i \in (Len(req.prompt) + 1)..Len(out'),
                 FirstClosed(req.em, SubSeq(out', 1, i - 1))
          PROVE  out'[i] = NextByte(req.em, req.model, SubSeq(out', 1, i - 1))
      <4>1. CASE i \in (l + 1)..Len(out')  BY <2>4, <3>4, <4>1
      <4>2. CASE i <= l
        <5>1. i \in NewBytes /\ i \in 1..l /\ i - 1 \in 0..l  BY <2>1, <4>2 DEF NewBytes
        <5>2. SubSeq(out, 1, i - 1) = SubSeq(out', 1, i - 1) /\ out[i] = out'[i]
          BY <3>2, <3>3, <5>1
        <5>3. QED  BY <1>2, <3>4, <5>1, <5>2 DEF GreedyOnceFirstPatchClosed, GreedyByte
      <4>3. QED  BY <2>1, <3>1, <4>1, <4>2
    <3>5. QED  BY <2>2, <3>4 DEF GreedyOnceFirstPatchClosed, NewBytes, GreedyByte, l
  <2>5. QED  BY <1>2, <2>3, <2>4, StepCommits
<1>3. QED  BY <1>1, <1>2, InvariantHolds, PTL DEF Spec

(* The first drafted byte survives verification once the first patch is    *)
(* closed: the incremental decoder agrees with the full pass on it.        *)
THEOREM FirstDraftsAreAccepted == Spec => FirstDraftAccepted
<1>1. ASSUME IInv, [Next]_vars
      PROVE  [(pc = "verify" /\ pc' = "round" /\ FirstClosed(req.em, out))
                => Len(out') >= l + 2]_vars
  <2>1. SUFFICES ASSUME Next, pc = "verify", pc' = "round", FirstClosed(req.em, out)
                 PROVE  Len(out') >= l + 2
    BY <1>1
  <2>2. Verify
    BY <2>1 DEF Next, Segment, MaintainCache, Prefill, DraftStep, Finish, Abort, Return, vars
  <2>3. QED  BY <1>1, <2>1, <2>2, VerifyCommits DEF IInv, CacheInv
<1>2. QED  BY <1>1, InvariantHolds, PTL DEF Spec, FirstDraftAccepted
-----------------------------------------------------------------------------
(* A call that fits the decoder, the patch array and the cache trips no    *)
(* BLT_REQUIRE: in particular the refresh always leaves a row to decode    *)
(* (kv_cache.c:134, self_speculation.c:385), and the drafted rows and the  *)
(* verified candidate never outgrow the decoder.                           *)
THEOREM NeverAbortsSpuriously == Spec => []NoSpuriousAbort
<1>1. Init => NoSpuriousAbort  BY DEF Init, NoSpuriousAbort
<1>2. ASSUME IInv, NoSpuriousAbort, [Next]_vars
      PROVE  NoSpuriousAbort'
  <2>1. CASE Abort
    <3>1. SUFFICES ASSUME FitsCapacity PROVE FALSE
      BY <2>1 DEF Abort, NoSpuriousAbort, FitsCapacity
    <3>2. TypeOK /\ CallInv /\ StaleInv /\ RefreshedInv /\ DraftInv
      BY <1>2 DEF IInv, CacheInv
    <3>3. /\ out \in Seq(Byte) /\ l = Len(out) /\ l \in Nat /\ l >= 2 /\ l <= req.target
          /\ req.target \in Nat /\ Len(rows) \in Nat /\ Len(draft) \in Nat
          /\ req.window \in Nat /\ MaxSeqLen \in Nat /\ MaxPatches \in Nat
          /\ req.target <= MaxSeqLen /\ req.target <= MaxPatches
      BY <3>1, <3>2, OutIs, SelfSpecAssumption DEF FitsCapacity
    <3>4. ASSUME NEW x \in Seq(Byte), Len(x) >= 1, Len(x) <= req.target
          PROVE  Encodable(x)
      <4>1. /\ Cardinality(Starts(req.em, x)) <= Len(x) /\ Len(x) \in Nat
            /\ Cardinality(Starts(req.em, x)) \in Nat
        BY <3>4, StartsCardinality, LenProperties
      <4>2. QED  BY <3>3, <3>4, <4>1 DEF Encodable
    <3>5. CASE pc = "round" /\ ~Encodable(out)  BY <3>3, <3>4, <3>5
    <3>6. CASE pc = "cache" /\ Common = starts  BY <3>2, <3>6, RefreshIs
    <3>7. CASE pc = "cache" /\ SplitFactor * Cardinality(starts) > MaxSeqLen
      <4>1. \A a, b : a <= b /\ a > b /\ a \in Int /\ b \in Int => FALSE  OBVIOUS
      <4>2. Cardinality(starts) \in Nat /\ SplitFactor \in Nat
        <5>1. starts = Starts(req.em, out)  BY <3>2, <3>7 DEF CallInv, InRound
        <5>2. QED  BY <3>3, <5>1, StartsCardinality, SelfSpecAssumption
      <4>3. SplitFactor * Cardinality(starts) \in Int  BY <4>2
      <4>4. QED  BY <3>1, <3>3, <3>7, <4>1, <4>3 DEF FitsCapacity
    <3>8. CASE pc = "prefill" /\ Len(rows) >= l  BY <3>2, <3>3, <3>8 DEF RefreshedInv
    <3>9. CASE pc = "draft" /\ (Len(rows) # l + Len(draft) - 1 \/ Len(rows) >= MaxSeqLen)
      <4>1. Len(rows) = l + Len(draft) - 1 /\ Len(draft) < r /\ r = Window /\ r \in Nat
            /\ l < req.target
        BY <3>2, <3>9 DEF DraftInv, CallInv, InRound, TypeOK
      <4>2. l + r + 1 <= req.target  BY <3>3, <4>1 DEF Window
      <4>3. QED  BY <3>3, <3>9, <4>1, <4>2
    <3>10. CASE pc = "verify" /\ ~Encodable(out \o draft)
      <4>1. Len(draft) = r /\ r = Window /\ r \in Nat /\ l < req.target
        BY <3>2, <3>10 DEF DraftInv, CallInv, InRound, TypeOK
      <4>2. l + r + 1 <= req.target  BY <3>3, <4>1 DEF Window
      <4>3. out \o draft \in Seq(Byte) /\ Len(out \o draft) = l + r
        BY <3>2, <4>1, CandidateIs
      <4>4. Len(out \o draft) >= 1 /\ Len(out \o draft) <= req.target  BY <3>3, <4>1, <4>2, <4>3
      <4>5. QED  BY <3>4, <3>10, <4>3, <4>4
    <3>11. QED  BY <2>1, <3>5, <3>6, <3>7, <3>8, <3>9, <3>10 DEF Abort
  <2>2. CASE pc' # "abort"  BY <2>2 DEF NoSpuriousAbort
  <2>3. CASE UNCHANGED vars  BY <1>2, <2>3 DEF NoSpuriousAbort, FitsCapacity, vars
  <2>4. Next => Abort \/ pc' # "abort" \/ UNCHANGED vars
    BY DEF Next, Segment, MaintainCache, Prefill, DraftStep, Verify, Finish, Return
  <2>5. QED  BY <1>2, <2>1, <2>2, <2>3, <2>4
<1>3. QED  BY <1>1, <1>2, InvariantHolds, PTL DEF Spec

(* Rounds implement greedy decoding with a first patch that is free: each  *)
(* step extends the committed bytes by bytes greedy decoding allows, or    *)
(* leaves them and the call alone.                                         *)
THEOREM RoundsImplementGreedy == Spec => ImplementsGreedy
<1>1. Init => Greedy!Init
  <2> SUFFICES ASSUME Init PROVE Greedy!Init  OBVIOUS
  <2>1. TypeOK  BY InitIInv DEF IInv
  <2>2. out # <<>>
    <3>1. Len(out) >= 2  BY <2>1, OutIs
    <3>2. QED  BY <3>1
  <2>3. req.target \in Nat /\ req.target >= Len(out) /\ out \in Seq(Byte)  BY <2>1, OutIs
  <2>4. req.em \in EntropyModels /\ req.model \in Models  BY <2>1 DEF TypeOK, Request
  <2>5. QED  BY <2>2, <2>3, <2>4 DEF Greedy!Init
<1>2. ASSUME IInv, [Next]_vars
      PROVE  [Greedy!Commit]_<<Greedy!call, out>>
  <2>1. /\ out \in Seq(Byte) /\ l = Len(out) /\ l \in Nat /\ l >= 2 /\ req.target \in Nat
    BY <1>2, OutIs DEF IInv
  <2>2. req' = req  BY <1>2, StepCommits
  <2>3. CASE out' = out  BY <2>2, <2>3 DEF Greedy!call
  <2>4. CASE /\ out' \in Seq(Byte) /\ Len(out') \in (l + 1)..req.target
             /\ SubSeq(out', 1, l) = out
             /\ \A i \in (l + 1)..Len(out') :
                   FirstClosed(req.em, SubSeq(out', 1, i - 1))
                     => out'[i] = NextByte(req.em, req.model, SubSeq(out', 1, i - 1))
    <3>1. Len(out') \in Nat /\ Len(out) < Len(out') /\ Len(out') <= req.target
      BY <2>1, <2>4
    <3>2. ASSUME NEW i \in (l + 1)..Len(out')
          PROVE  out'[i] \in LooseAllowed(req.em, req.model, SubSeq(out', 1, i - 1))
      <4>1. i \in 1..Len(out') /\ out'[i] \in Byte  BY <2>1, <2>4, <3>1, <3>2, ElementOfSeq
      <4>2. QED  BY <2>4, <4>1 DEF LooseAllowed
    <3>3. Greedy!Commit  BY <2>1, <2>2, <2>4, <3>1, <3>2 DEF Greedy!Commit, Greedy!call
    <3>4. QED  BY <3>3
  <2>5. QED  BY <1>2, <2>3, <2>4, StepCommits
<1>3. QED  BY <1>1, <1>2, InvariantHolds, PTL DEF Spec, ImplementsGreedy, Greedy!Spec
=============================================================================
