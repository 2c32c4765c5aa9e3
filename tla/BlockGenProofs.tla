--------------------------- MODULE BlockGenProofs ---------------------------
(***************************************************************************)
(* Proofs about BLT-D and BLT-DV for every pair of networks, boundary      *)
(* rule, prompt, block size and adaptation.  What a round commits is in    *)
(* DecodingProofs; the inductive invariant relates the draft, the counters *)
(* and the acceptance ring to the number of verified rounds.               *)
(***************************************************************************)
EXTENDS BlockGen, DecodingProofs

new == l - Len(req.prompt)

(* The block size in the terms of the configuration; a block is pending    *)
(* only where a patch starts.                                              *)
BlockInv ==
    /\ req.target <= MaxSeqLen
    /\ curB >= 1
    /\ req.config.size <= MaxB /\ req.config.bmax <= MaxB => curB <= MaxB
    /\ pc \in {"round", "done"} => draft = <<>>
    /\ pc = "verify" => draft # <<>> /\ StartsHere

(* The counters, with a pending draft counted as drafted and encoded.      *)
Pending == IF draft = <<>> THEN 0 ELSE 1
VerbatimInv ==
    ~req.config.verify =>
        /\ new = stats.ar + stats.accepted
        /\ stats.dec <= stats.ar + stats.drafted
        /\ stats.accepted + Len(draft) <= stats.drafted
VerifiedInv ==
    req.config.verify =>
        /\ stats.enc - stats.ar = 2 * Rounds + Pending /\ Rounds >= 0
        /\ stats.accepted + Len(draft) <= stats.drafted
        /\ stats.ar + stats.accepted <= new
        /\ ~req.config.aligned => new <= stats.ar + stats.accepted + Rounds
        /\ stats.dec <= stats.ar + stats.drafted + Rounds

(* The ring of acceptances after the rounds so far: the latest, a window   *)
(* of them at most, each in the slot its number gives.                     *)
RingInv ==
    req.config.verify /\ Adaptive =>
        /\ Len(rounds) < req.config.window => Len(hist) = Len(rounds)
        /\ Len(rounds) >= req.config.window => Len(hist) = req.config.window
        /\ \A k \in 1..Len(rounds) :
              k + req.config.window > Len(rounds) => hist[SlotOf(k)] = Rate(rounds[k])
        /\ histPos = Len(rounds) % req.config.window
        /\ Len(rounds) > 0 /\ req.config.bmin <= req.config.bmax => InRange(curB)

IInv == TypeOK /\ BlockInv /\ VerbatimInv /\ VerifiedInv /\ RingInv
-----------------------------------------------------------------------------
(* Adaptation keeps the block size positive and inside its range, whatever *)
(* the average acceptance.                                                 *)
LEMMA AdaptBIs ==
    ASSUME NEW c \in Configs, NEW b \in Nat \ {0}, c.bmax > 0, NEW sum, NEW n
    PROVE  /\ AdaptB(c, b, sum, n) \in Nat \ {0}
           /\ \A top \in Nat : b <= top /\ c.bmax <= top => AdaptB(c, b, sum, n) <= top
           /\ c.bmin <= c.bmax => AdaptB(c, b, sum, n) \in Floor(c)..c.bmax
<1>1. c.bmin \in Nat /\ c.bmax \in Nat /\ c.goal \in Nat  BY BlockGenAssumption
<1>2. CASE c.bmax < c.bmin
  BY <1>1, <1>2 DEF AdaptB
<1>3. CASE c.bmin <= c.bmax
  <2>1. Floor(c) \in Nat /\ Floor(c) >= 1 /\ Floor(c) <= c.bmax  BY <1>1, <1>3 DEF Floor
  <2>2. \A k \in Int : Clamped(c, k) \in Floor(c)..c.bmax
    BY <1>1, <2>1 DEF Clamped
  <2>3. Clamped(c, b) \in Int /\ Clamped(c, b) + 1 \in Int /\ Clamped(c, b) - 1 \in Int
    BY <1>1, <2>1, <2>2
  <2>4. AdaptB(c, b, sum, n) \in {Clamped(c, Clamped(c, b) + 1), Clamped(c, Clamped(c, b) - 1),
                                 Clamped(c, b)}
    BY <1>1, <1>3 DEF AdaptB
  <2>5. AdaptB(c, b, sum, n) \in Floor(c)..c.bmax  BY <2>2, <2>3, <2>4
  <2>6. QED  BY <1>1, <2>1, <2>5
<1>4. QED  BY <1>1, <1>2, <1>3
-----------------------------------------------------------------------------
(* What a typed state says of a call: lengths, configuration, draft.       *)
LEMMA CallIs ==
    ASSUME TypeOK
    PROVE  /\ out \in Seq(Byte) /\ l = Len(out) /\ l \in Nat /\ l >= 1
           /\ Len(req.prompt) \in Nat /\ Len(req.prompt) >= 1 /\ Len(req.prompt) <= l
           /\ req.target \in Nat /\ l <= req.target
           /\ req.em \in EntropyModels /\ req.model \in Models /\ req.verifier \in Models
           /\ req.config \in Configs /\ req.config.verify \in BOOLEAN
           /\ req.config.aligned \in BOOLEAN /\ req.config.size \in Nat \ {0}
           /\ req.config.window \in Nat /\ req.config.bmin \in Nat /\ req.config.bmax \in Nat
           /\ draft \in Seq(Byte) /\ Len(draft) \in Nat /\ l + Len(draft) <= req.target
<1>1. req.prompt \in Prompts /\ req.config \in Configs  BY DEF TypeOK, Request
<1>2. req.prompt \in Seq(Byte) /\ Len(req.prompt) >= 1 /\ Len(req.prompt) \in Nat
  BY <1>1, BlockGenAssumption, LenProperties
<1>3. Len(out) \in Nat /\ Len(draft) \in Nat  BY LenProperties DEF TypeOK
<1>4. QED  BY <1>1, <1>2, <1>3, BlockGenAssumption DEF TypeOK, Request, l

(* The candidate: the committed bytes and the draft.                       *)
LEMMA CandidateIs ==
    ASSUME out \in Seq(Byte), draft \in Seq(Byte)
    PROVE  /\ Candidate \in Seq(Byte) /\ Len(Candidate) = l + Len(draft)
           /\ SubSeq(Candidate, 1, l) = out
           /\ \A i \in 1..l : SubSeq(Candidate, 1, i) = SubSeq(out, 1, i)
<1>1. l = Len(out) /\ l \in Nat /\ Len(draft) \in Nat  BY LenProperties DEF l
<1>2. Candidate \in Seq(Byte) /\ Len(Candidate) = l + Len(draft)
  BY <1>1, ConcatProperties DEF Candidate
<1>3. \A i \in 1..l : SubSeq(Candidate, 1, i) = SubSeq(out, 1, i)
  <2>1. TAKE i \in 1..l
  <2>2. 1 \in 1..Len(out) /\ i \in 1..Len(out)  BY <1>1
  <2>3. QED  BY <2>2, SubSeqOfConcat1 DEF Candidate
<1>4. SubSeq(Candidate, 1, l) = out
  <2>1. CASE l = 0
    <3>1. out = <<>>  BY <1>1, <2>1, EmptySeq
    <3>2. SubSeq(Candidate, 1, 0) = <<>>  BY <1>1, <1>2, SubSeqEmpty
    <3>3. QED  BY <2>1, <3>1, <3>2
  <2>2. CASE l >= 1
    <3>1. SubSeq(out, 1, l) = out  BY <1>1, SubSeqFull
    <3>2. QED  BY <1>1, <1>3, <2>2, <3>1
  <2>3. QED  BY <1>1, <2>1, <2>2
<1>5. QED  BY <1>2, <1>3, <1>4

(* What a verified round commits: at least one byte, all greedy for the    *)
(* verifier, and at most one byte more than it counts as accepted.         *)
LEMMA VerdictIs ==
    ASSUME TypeOK, BlockInv, pc = "verify", req.config.verify,
           NEW y, y = Verdict.bytes, NEW a, a = Verdict.accepted
    PROVE  /\ y \in Seq(Byte) /\ Len(y) \in (l + 1)..req.target
           /\ SubSeq(y, 1, l) = out
           /\ a \in 0..Len(draft) /\ a <= Len(y) - l
           /\ ~req.config.aligned => Len(y) - l <= a + 1
           /\ \A i \in (l + 1)..Len(y) :
                y[i] = NextByte(req.em, req.verifier, SubSeq(y, 1, i - 1))
<1> DEFINE x == Candidate
           e == req.em
           m == req.verifier
           target == req.target
<1>1. /\ l \in Nat /\ l >= 1 /\ target \in Nat /\ Len(draft) \in Nat
      /\ l + Len(draft) <= target
  BY CallIs
<1>2. /\ x \in Seq(Byte) /\ Len(x) = l + Len(draft) /\ SubSeq(x, 1, l) = out
      /\ \A i \in 1..l : SubSeq(x, 1, i) = SubSeq(out, 1, i)
  BY CallIs, CandidateIs
<1>3. Len(draft) >= 1
  <2>1. draft # <<>> /\ draft \in Seq(Byte)  BY DEF BlockInv, TypeOK
  <2>2. QED  BY <1>1, <2>1, EmptySeq
<1>4. l \in 1..Len(x) /\ l < Len(x) /\ Len(x) <= target  BY <1>1, <1>2, <1>3
<1>5. Closed(e, out)  BY DEF BlockInv, StartsHere
<1> HIDE DEF x, e, m, target
<1>6. ASSUME NEW i \in (l + 1)..Len(y), SubSeq(y, 1, l) = out, y \in Seq(Byte)
      PROVE  FirstClosed(e, SubSeq(y, 1, i - 1))
  <2>1. Len(y) \in Nat  BY <1>6, LenProperties
  <2>2. i - 1 \in 1..Len(y) /\ l \in 0..(i - 1) /\ l \in 1..(i - 1)  BY <1>1, <2>1
  <2>3. Len(SubSeq(y, 1, i - 1)) = i - 1 /\ SubSeq(SubSeq(y, 1, i - 1), 1, l) = SubSeq(y, 1, l)
    BY <1>6, <2>2, StartsOfPrefix
  <2>4. QED  BY <1>5, <1>6, <2>2, <2>3 DEF FirstClosed
<1>7. CASE req.config.aligned
  <2>1. y = VerifiedAligned(e, m, x, l, target) /\ a = AcceptedAligned(e, m, x, l)
    BY <1>7 DEF Verdict, x, e, m, target
  <2>2. /\ y \in Seq(Byte) /\ Len(y) \in (l + 1)..target /\ SubSeq(y, 1, l) = out
        /\ a \in 1..(Len(x) - l) /\ a <= Len(y) - l
    BY <1>1, <1>2, <1>4, <2>1, VerifiedAlignedIs
  <2>3. \A i \in (l + 1)..Len(y) : y[i] = NextByte(e, m, SubSeq(y, 1, i - 1))
    <3>1. TAKE i \in (l + 1)..Len(y)
    <3>2. FirstClosed(e, SubSeq(y, 1, i - 1))  BY <1>2, <1>6, <2>2
    <3>3. l \in 1..Len(x) /\ l < Len(x) /\ target \in Nat /\ Len(x) <= target
      BY <1>1, <1>4
    <3>4. i \in (l + 1)..Len(VerifiedAligned(e, m, x, l, target))  BY <2>1
    <3>5. QED  BY <1>2, <2>1, <3>1, <3>2, <3>3, <3>4, VerifiedAlignedIsGreedy
  <2>4. a \in 0..Len(draft)  BY <1>1, <1>2, <2>2
  <2>5. QED  BY <1>7, <2>2, <2>3, <2>4 DEF e, m, target
<1>8. CASE ~req.config.aligned
  <2>1. y = Verified(e, m, x, l, target) /\ a = Matched(e, m, x, l) - l
    BY <1>8 DEF Verdict, x, e, m, target
  <2>2. /\ y \in Seq(Byte) /\ Len(y) \in l..target /\ Len(y) > l /\ SubSeq(y, 1, l) = out
    BY <1>1, <1>2, <1>4, <2>1, VerifiedIs
  <2>3. \A i \in (l + 1)..Len(y) : y[i] = NextByte(e, m, SubSeq(y, 1, i - 1))
    BY <1>1, <1>2, <1>4, <1>6, <2>1, <2>2, VerifiedIsGreedy, SMTT(30)
  <2>4. PICK p \in l..Len(x) : p = Matched(e, m, x, l) /\ Len(y) \in {p, p + 1}
    BY <1>1, <1>2, <1>4, <2>1, VerifiedLength
  <2>5. /\ Len(y) \in (l + 1)..target /\ a \in 0..Len(draft)
        /\ a <= Len(y) - l /\ Len(y) - l <= a + 1
    BY <1>1, <1>2, <2>1, <2>2, <2>4
  <2>6. QED  BY <1>8, <2>2, <2>3, <2>5 DEF e, m, target
<1>9. QED  BY <1>7, <1>8
-----------------------------------------------------------------------------
(* The counters after a step.                                              *)
LEMMA CountedType ==
    ASSUME TypeOK, NEW enc \in Nat, NEW dec \in Nat, NEW drafted \in Nat,
           NEW accepted \in Nat, NEW ar \in Nat,
           stats' = Counted(enc, dec, drafted, accepted, ar)
    PROVE  stats' \in [enc : Nat, dec : Nat, drafted : Nat, accepted : Nat, ar : Nat]
<1>1. /\ stats.enc \in Nat /\ stats.dec \in Nat /\ stats.drafted \in Nat
      /\ stats.accepted \in Nat /\ stats.ar \in Nat
  BY DEF TypeOK
<1>2. /\ stats.enc + enc \in Nat /\ stats.dec + dec \in Nat /\ stats.drafted + drafted \in Nat
      /\ stats.accepted + accepted \in Nat /\ stats.ar + ar \in Nat
  BY <1>1
<1>3. QED  BY <1>2 DEF Counted

(* What counting a pass adds to each counter (blt_infer_stats).            *)
LEMMA CountedIs ==
    ASSUME NEW enc, NEW dec, NEW drafted, NEW accepted, NEW ar,
           stats' = Counted(enc, dec, drafted, accepted, ar)
    PROVE  /\ stats'.enc = stats.enc + enc /\ stats'.dec = stats.dec + dec
           /\ stats'.drafted = stats.drafted + drafted
           /\ stats'.accepted = stats.accepted + accepted /\ stats'.ar = stats.ar + ar
BY DEF Counted

(* The counters of a typed state are naturals.                             *)
LEMMA CountersAre ==
    ASSUME TypeOK
    PROVE  /\ stats.enc \in Nat /\ stats.dec \in Nat /\ stats.drafted \in Nat
           /\ stats.accepted \in Nat /\ stats.ar \in Nat
BY DEF TypeOK

(* The inductive invariant holds when the call starts.                     *)
LEMMA InitIInv == Init => IInv
<1> SUFFICES ASSUME Init PROVE IInv  OBVIOUS
<1>1. PICK e \in EntropyModels, m \in Models, v \in Models, p \in Prompts, k \in 0..MaxNew,
           c \in Configs :
        /\ Len(p) + k <= MaxSeqLen /\ c.window <= MaxWindow
        /\ req = [em |-> e, model |-> m, verifier |-> v, prompt |-> p,
                  target |-> Len(p) + k, config |-> c]
        /\ out = p
        /\ curB = c.size
  BY DEF Init
<1>2. /\ p \in Seq(Byte) /\ Len(p) \in Nat /\ k \in Nat /\ MaxNew \in Nat /\ k <= MaxNew
      /\ MaxSeqLen \in Nat
  BY BlockGenAssumption, LenProperties
<1>3. c.size \in Nat \ {0} /\ c.window \in Nat  BY BlockGenAssumption
<1>4. /\ hist = <<>> /\ histPos = 0 /\ draft = <<>> /\ pc = "round" /\ rounds = <<>>
      /\ stats = [enc |-> 0, dec |-> 0, drafted |-> 0, accepted |-> 0, ar |-> 0]
  BY DEF Init
<1>5. /\ Len(hist) = 0 /\ hist \in Seq(0..Unit) /\ Len(draft) = 0 /\ draft \in Seq(Byte)
      /\ Len(rounds) = 0 /\ rounds \in Seq(Round)
  BY <1>4, EmptySeq
<1>6. l = Len(req.prompt) /\ l \in Nat  BY <1>1, <1>2 DEF l
<1>7. TypeOK
  <2>1. req \in Request /\ req.target = l + k /\ l + k \in Nat
    BY <1>1, <1>2, <1>6 DEF Request
  <2>2. req.config = c  BY <1>1
  <2>3. /\ req.target <= Len(req.prompt) + MaxNew
        /\ Len(req.prompt) <= Len(out) /\ Len(out) <= req.target
        /\ Len(out) + Len(draft) <= req.target
    BY <1>2, <1>5, <1>6, <2>1 DEF l
  <2>4. QED  BY <1>1, <1>2, <1>3, <1>4, <1>5, <2>1, <2>2, <2>3 DEF TypeOK
<1>8. BlockInv
  BY <1>1, <1>3, <1>4 DEF BlockInv
<1>9. Rounds = 0 /\ new = 0
  BY <1>4, <1>6 DEF Rounds, new
<1>10. VerbatimInv /\ VerifiedInv
  BY <1>4, <1>5, <1>9 DEF VerbatimInv, VerifiedInv, Pending
<1>11. RingInv
  <2>1. SUFFICES ASSUME Adaptive
                 PROVE  histPos = 0 % req.config.window /\ ~(0 >= req.config.window)
    <3>1. 1..Len(rounds) = {}  BY <1>5
    <3>2. QED  BY <1>5, <2>1, <3>1 DEF RingInv
  <2>2. req.config.window \in Nat \ {0}
    <3>1. req.config = c  BY <1>1
    <3>2. QED  BY <1>3, <2>1, <3>1 DEF Adaptive
  <2>3. 0 % req.config.window = 0  BY <2>2
  <2>4. QED  BY <1>4, <2>2, <2>3
<1>12. QED  BY <1>7, <1>8, <1>10, <1>11 DEF IInv

(* The single byte drawn before or between blocks keeps the invariant      *)
(* (ar_next_byte and its caller).                                          *)
LEMMA ArByteStep == ASSUME IInv, ArByte PROVE IInv'
<1>1. TypeOK  BY DEF IInv
<1>2. /\ out \in Seq(Byte) /\ l = Len(out) /\ l \in Nat /\ Len(req.prompt) \in Nat
      /\ Len(req.prompt) <= l /\ req.target \in Nat /\ l < req.target
  BY <1>1, CallIs DEF ArByte, Unfinished
<1>3. draft = <<>> /\ Len(draft) = 0 /\ pc = "round"
  BY EmptySeq DEF ArByte, IInv, BlockInv
<1>4. /\ stats' = Counted(1, 1, 0, 0, 1)
      /\ UNCHANGED <<req, curB, hist, histPos, draft, pc, rounds>>
  BY DEF ArByte
<1>5. ArNextByte \in Byte  BY ArgmaxIsByte DEF ArNextByte
<1>6. out' \in Seq(Byte) /\ Len(out') = l + 1 /\ l' = l + 1
  BY <1>2, <1>5, AppendProperties DEF ArByte, l
<1>7. /\ stats'.enc = stats.enc + 1 /\ stats'.dec = stats.dec + 1
      /\ stats'.drafted = stats.drafted
      /\ stats'.accepted = stats.accepted /\ stats'.ar = stats.ar + 1
      /\ stats.enc \in Nat /\ stats.dec \in Nat /\ stats.drafted \in Nat
      /\ stats.accepted \in Nat /\ stats.ar \in Nat
  <2>1. stats' = Counted(1, 1, 0, 0, 1)  BY <1>4
  <2>2. /\ stats.enc \in Nat /\ stats.dec \in Nat /\ stats.drafted \in Nat
        /\ stats.accepted \in Nat /\ stats.ar \in Nat
    BY <1>1, CountersAre
  <2>3. /\ stats'.enc = stats.enc + 1 /\ stats'.dec = stats.dec + 1
        /\ stats'.drafted = stats.drafted
        /\ stats'.accepted = stats.accepted /\ stats'.ar = stats.ar + 1
    BY <2>1, <2>2, CountedIs
  <2>4. QED  BY <2>2, <2>3
<1>type. stats' \in [enc : Nat, dec : Nat, drafted : Nat, accepted : Nat, ar : Nat]
  <2>1. stats' = Counted(1, 1, 0, 0, 1)  BY <1>4
  <2>2. QED  BY <1>1, <2>1, CountedType
<1>8. TypeOK'  BY <1>1, <1>2, <1>3, <1>4, <1>6, <1>type DEF TypeOK
<1>9. BlockInv'  BY <1>3, <1>4 DEF IInv, BlockInv
<1>10. /\ stats'.enc - stats'.ar = stats.enc - stats.ar
       /\ Rounds' = Rounds /\ new' = new + 1 /\ Pending' = Pending /\ new \in Int
       /\ Rounds \in Int
  <2>1. stats'.enc - stats'.ar = stats.enc - stats.ar  BY <1>7
  <2>2. Rounds' = Rounds /\ Rounds \in Int  BY <1>7, <2>1 DEF Rounds
  <2>3. QED  BY <1>2, <1>4, <1>6, <2>1, <2>2 DEF new, Pending
<1>11. VerbatimInv'
  <2>1. SUFFICES ASSUME ~req.config.verify
                 PROVE  VerbatimInv'
    BY <1>4 DEF VerbatimInv
  <2>2. /\ new = stats.ar + stats.accepted
        /\ stats.dec <= stats.ar + stats.drafted
        /\ stats.accepted + Len(draft) <= stats.drafted
    BY <2>1 DEF IInv, VerbatimInv
  <2>3. new' = stats'.ar + stats'.accepted  BY <1>7, <1>10, <2>2
  <2>4. stats'.dec <= stats'.ar + stats'.drafted  BY <1>7, <2>2
  <2>5. stats'.accepted + Len(draft') <= stats'.drafted  BY <1>3, <1>4, <1>7, <2>2
  <2>6. QED  BY <2>3, <2>4, <2>5 DEF VerbatimInv
<1>12. VerifiedInv'
  <2>1. SUFFICES ASSUME req.config.verify
                 PROVE  VerifiedInv'
    BY <1>4 DEF VerifiedInv
  <2>2. /\ stats.enc - stats.ar = 2 * Rounds + Pending /\ Rounds >= 0
        /\ stats.accepted + Len(draft) <= stats.drafted
        /\ stats.ar + stats.accepted <= new
        /\ ~req.config.aligned => new <= stats.ar + stats.accepted + Rounds
        /\ stats.dec <= stats.ar + stats.drafted + Rounds
    BY <2>1 DEF IInv, VerifiedInv
  <2>3. stats'.enc - stats'.ar = 2 * Rounds' + Pending' /\ Rounds' >= 0  BY <1>10, <2>2
  <2>4. stats'.accepted + Len(draft') <= stats'.drafted  BY <1>3, <1>4, <1>7, <2>2
  <2>5. stats'.ar + stats'.accepted <= new'  BY <1>7, <1>10, <2>2
  <2>6. ~req.config.aligned => new' <= stats'.ar + stats'.accepted + Rounds'
    BY <1>7, <1>10, <2>2
  <2>7. stats'.dec <= stats'.ar + stats'.drafted + Rounds'  BY <1>7, <1>10, <2>2, SMTT(30)
  <2>8. QED  BY <1>4, <2>3, <2>4, <2>5, <2>6, <2>7 DEF VerifiedInv
<1>13. RingInv'
  BY <1>4, <1>10 DEF IInv, RingInv, Adaptive, InRange, SlotOf
<1>14. QED  BY <1>8, <1>9, <1>11, <1>12, <1>13 DEF IInv

(* Drafting a block keeps the invariant.                                   *)
LEMMA DraftBlockStep == ASSUME IInv, DraftBlock PROVE IInv'
<1>1. TypeOK  BY DEF IInv
<1>2. /\ out \in Seq(Byte) /\ l = Len(out) /\ l \in Nat /\ Len(req.prompt) \in Nat
      /\ req.target \in Nat /\ l < req.target /\ curB \in Nat /\ curB >= 1
  BY <1>1, CallIs DEF DraftBlock, Unfinished, IInv, BlockInv, TypeOK
<1>3. draft = <<>> /\ Len(draft) = 0 /\ pc = "round"
  BY EmptySeq DEF DraftBlock, IInv, BlockInv
<1>4. BlockSize \in Nat /\ BlockSize >= 1 /\ l + BlockSize <= req.target
  BY <1>2 DEF BlockSize
<1>5. PICK passes \in 1..BlockSize : stats' = Counted(1, passes, BlockSize, 0, 0)
  BY DEF DraftBlock
<1>6. pc' = "verify" /\ UNCHANGED <<req, out, curB, hist, histPos, rounds>> /\ StartsHere
  BY DEF DraftBlock
<1>7. draft' \in Seq(Byte) /\ Len(draft') = BlockSize /\ draft' # <<>>
  <2>1. draft' \in [1..BlockSize -> Byte]  BY DEF DraftBlock
  <2>2. draft' \in Seq(Byte)  BY <1>4, <2>1, SeqDef
  <2>3. Len(draft') = BlockSize
    <3>1. Len(draft') \in Nat /\ DOMAIN draft' = 1..Len(draft')  BY <2>2, LenProperties
    <3>2. DOMAIN draft' = 1..BlockSize  BY <2>1
    <3>3. \A a, b \in Nat : b >= 1 /\ 1..a = 1..b => a = b
      <4>1. TAKE a, b \in Nat
      <4>2. HAVE b >= 1 /\ 1..a = 1..b
      <4>3. b \in 1..a  BY <4>2
      <4>4. a \in 1..b  BY <4>2, <4>3
      <4>5. QED  BY <4>3, <4>4
    <3>4. QED  BY <1>4, <3>1, <3>2, <3>3
  <2>4. QED  BY <1>4, <2>2, <2>3, EmptySeq
<1>8. passes \in Nat /\ passes >= 1 /\ passes <= BlockSize  BY <1>4
<1>9. /\ stats'.enc = stats.enc + 1 /\ stats'.dec = stats.dec + passes
      /\ stats'.drafted = stats.drafted + BlockSize
      /\ stats'.accepted = stats.accepted /\ stats'.ar = stats.ar
      /\ stats.enc \in Nat /\ stats.dec \in Nat /\ stats.drafted \in Nat
      /\ stats.accepted \in Nat /\ stats.ar \in Nat
  <2>1. stats' = Counted(1, passes, BlockSize, 0, 0)  BY <1>5
  <2>2. /\ stats.enc \in Nat /\ stats.dec \in Nat /\ stats.drafted \in Nat
        /\ stats.accepted \in Nat /\ stats.ar \in Nat
    BY <1>1, CountersAre
  <2>3. /\ stats'.enc = stats.enc + 1 /\ stats'.dec = stats.dec + passes
        /\ stats'.drafted = stats.drafted + BlockSize
        /\ stats'.accepted = stats.accepted /\ stats'.ar = stats.ar
    BY <1>4, <1>8, <2>1, <2>2, CountedIs
  <2>4. QED  BY <2>2, <2>3
<1>type. stats' \in [enc : Nat, dec : Nat, drafted : Nat, accepted : Nat, ar : Nat]
  <2>1. stats' = Counted(1, passes, BlockSize, 0, 0)  BY <1>5
  <2>2. QED  BY <1>1, <1>4, <1>8, <2>1, CountedType
<1>10. TypeOK'  BY <1>1, <1>2, <1>4, <1>6, <1>7, <1>type DEF TypeOK
<1>11. BlockInv'  BY <1>6, <1>7 DEF IInv, BlockInv, StartsHere
<1>12. l' = l /\ new' = new /\ new \in Int  BY <1>2, <1>6 DEF l, new
<1>13. VerbatimInv'
  <2>1. SUFFICES ASSUME ~req.config.verify
                 PROVE  VerbatimInv'
    BY <1>6 DEF VerbatimInv
  <2>2. /\ new = stats.ar + stats.accepted
        /\ stats.dec <= stats.ar + stats.drafted
        /\ stats.accepted <= stats.drafted
    BY <1>3, <1>9, <2>1 DEF IInv, VerbatimInv
  <2>3. new' = stats'.ar + stats'.accepted  BY <1>9, <1>12, <2>2
  <2>4. stats'.dec <= stats'.ar + stats'.drafted  BY <1>4, <1>8, <1>9, <2>2
  <2>5. stats'.accepted + Len(draft') <= stats'.drafted  BY <1>4, <1>7, <1>9, <2>2
  <2>6. QED  BY <2>3, <2>4, <2>5 DEF VerbatimInv
<1>14. ASSUME req.config.verify
       PROVE  /\ Rounds' = Rounds /\ Rounds \in Int /\ Pending = 0 /\ Pending' = 1
              /\ stats'.enc - stats'.ar = 2 * Rounds + 1
  <2>1. stats.enc - stats.ar = 2 * Rounds + 0 /\ Rounds >= 0 /\ Pending = 0
    BY <1>3, <1>14 DEF IInv, VerifiedInv, Pending
  <2>2. Rounds \in Int  BY <1>9 DEF Rounds
  <2>3. stats'.enc - stats'.ar = 2 * Rounds + 1  BY <1>9, <2>1, <2>2
  <2>4. Rounds' = (2 * Rounds + 1) \div 2  BY <2>3 DEF Rounds
  <2>5. (2 * Rounds + 1) \div 2 = Rounds  BY <2>2
  <2>6. QED  BY <1>7, <2>1, <2>2, <2>3, <2>4, <2>5 DEF Pending
<1>15. VerifiedInv'
  <2>1. SUFFICES ASSUME req.config.verify
                 PROVE  VerifiedInv'
    BY <1>6 DEF VerifiedInv
  <2>2. /\ Rounds >= 0
        /\ stats.accepted <= stats.drafted
        /\ stats.ar + stats.accepted <= new
        /\ ~req.config.aligned => new <= stats.ar + stats.accepted + Rounds
        /\ stats.dec <= stats.ar + stats.drafted + Rounds
    BY <1>3, <1>9, <2>1 DEF IInv, VerifiedInv
  <2>3. stats'.enc - stats'.ar = 2 * Rounds' + Pending' /\ Rounds' >= 0 /\ Rounds' = Rounds
        /\ Rounds \in Int
    BY <1>14, <2>1, <2>2
  <2>4. stats'.accepted + Len(draft') <= stats'.drafted  BY <1>4, <1>7, <1>9, <2>2
  <2>5. stats'.ar + stats'.accepted <= new'  BY <1>9, <1>12, <2>2
  <2>6. ~req.config.aligned => new' <= stats'.ar + stats'.accepted + Rounds'
    BY <1>9, <1>12, <2>2, <2>3
  <2>7. stats'.dec <= stats'.ar + stats'.drafted + Rounds'
    BY <1>4, <1>8, <1>9, <2>2, <2>3
  <2>8. QED  BY <1>6, <2>3, <2>4, <2>5, <2>6, <2>7 DEF VerifiedInv
<1>16. RingInv'
  BY <1>6 DEF IInv, RingInv, Adaptive, InRange, SlotOf
<1>17. QED  BY <1>10, <1>11, <1>13, <1>15, <1>16 DEF IInv

(* BLT-D commits the whole draft.                                          *)
LEMMA AcceptDraftStep == ASSUME IInv, AcceptDraft PROVE IInv'
<1>1. TypeOK  BY DEF IInv
<1>2. /\ out \in Seq(Byte) /\ l = Len(out) /\ l \in Nat /\ Len(req.prompt) \in Nat
      /\ Len(req.prompt) <= l /\ req.target \in Nat /\ Len(draft) \in Nat
      /\ draft \in Seq(Byte) /\ l + Len(draft) <= req.target
  BY <1>1, CallIs
<1>3. /\ ~req.config.verify /\ pc = "verify" /\ pc' = "round" /\ draft' = <<>>
      /\ UNCHANGED <<req, curB, hist, histPos, rounds>>
  BY DEF AcceptDraft
<1>4. out' \in Seq(Byte) /\ Len(out') = l + Len(draft) /\ l' = l + Len(draft)
  <2>1. out' = out \o draft  BY DEF AcceptDraft
  <2>2. QED  BY <1>2, <2>1, ConcatProperties DEF l
<1>5. Len(draft') = 0 /\ draft' \in Seq(Byte)  BY <1>3, EmptySeq
<1>6. /\ stats'.dec = stats.dec
      /\ stats'.drafted = stats.drafted
      /\ stats'.accepted = stats.accepted + Len(draft) /\ stats'.ar = stats.ar
      /\ stats.enc \in Nat /\ stats.dec \in Nat /\ stats.drafted \in Nat
      /\ stats.accepted \in Nat /\ stats.ar \in Nat
  <2>1. stats' = Counted(0, 0, 0, Len(draft), 0)  BY DEF AcceptDraft
  <2>2. /\ stats.enc \in Nat /\ stats.dec \in Nat /\ stats.drafted \in Nat
        /\ stats.accepted \in Nat /\ stats.ar \in Nat
    BY <1>1, CountersAre
  <2>3. /\ stats'.dec = stats.dec
        /\ stats'.drafted = stats.drafted
        /\ stats'.accepted = stats.accepted + Len(draft) /\ stats'.ar = stats.ar
    BY <1>2, <2>1, <2>2, CountedIs
  <2>4. QED  BY <2>2, <2>3
<1>type. stats' \in [enc : Nat, dec : Nat, drafted : Nat, accepted : Nat, ar : Nat]
  <2>1. stats' = Counted(0, 0, 0, Len(draft), 0)  BY DEF AcceptDraft
  <2>2. QED  BY <1>1, <1>2, <2>1, CountedType
<1>7. TypeOK'  BY <1>1, <1>2, <1>3, <1>4, <1>5, <1>type DEF TypeOK
<1>8. BlockInv'  BY <1>3 DEF IInv, BlockInv
<1>9. VerbatimInv'
  <2>1. /\ new = stats.ar + stats.accepted
        /\ stats.dec <= stats.ar + stats.drafted
        /\ stats.accepted + Len(draft) <= stats.drafted
    BY <1>3 DEF IInv, VerbatimInv
  <2>2. new' = new + Len(draft)  BY <1>2, <1>3, <1>4 DEF new
  <2>3. new' = stats'.ar + stats'.accepted  BY <1>2, <1>6, <2>1, <2>2
  <2>4. stats'.dec <= stats'.ar + stats'.drafted  BY <1>6, <2>1
  <2>5. stats'.accepted + Len(draft') <= stats'.drafted  BY <1>2, <1>5, <1>6, <2>1
  <2>6. QED  BY <2>3, <2>4, <2>5 DEF VerbatimInv
<1>10. VerifiedInv' /\ RingInv'  BY <1>3 DEF VerifiedInv, RingInv
<1>11. QED  BY <1>7, <1>8, <1>9, <1>10 DEF IInv
-----------------------------------------------------------------------------
(* The share of a round is that of its block, at most all of it.           *)
LEMMA AcceptanceIs ==
    ASSUME NEW n \in Nat, Unit \in Nat, Len(draft) \in Nat \ {0}
    PROVE  /\ Acceptance(n) \in 0..Unit
           /\ Rate([gained |-> n, block |-> Len(draft)]) = Acceptance(n)
<1>1. PICK d \in Nat \ {0}, u \in Nat : d = Len(draft) /\ u = Unit  OBVIOUS
<1>2. PICK q \in Nat : q = (n * u) \div d
  <2>1. n * u \in Nat  OBVIOUS
  <2>2. QED  BY <2>1, DivisionIs
<1>3. Rate([gained |-> n, block |-> Len(draft)]) = Min({u, q})  BY <1>1, <1>2 DEF Rate
<1>4. {u, q} \subseteq Nat /\ {u, q} # {}  OBVIOUS
<1>5. Min({u, q}) \in {u, q} /\ \A j \in {u, q} : Min({u, q}) <= j  BY ONLY <1>4, MinIsLeast
<1>6. CASE n > d
  <2>1. q >= u
    <3>1. PICK i \in 0..(d - 1) : n * u = d * q + i
      <4>1. n * u \in Nat  OBVIOUS
      <4>2. QED  BY <1>2, <4>1, DivisionIs
    <3>2. n * u >= d * u
      <4>1. PICK e \in Nat : n = d + e  BY <1>6
      <4>2. n * u = d * u + e * u /\ e * u \in Nat /\ d * u \in Nat  BY <4>1
      <4>3. QED  BY <4>2
    <3>3. CASE q <= u - 1
      <4>1. PICK e \in Nat : u = q + 1 + e  BY <3>3
      <4>2. d * u = d * q + d + d * e /\ d * e \in Nat /\ d * q \in Nat  BY <4>1
      <4>3. QED  BY <3>1, <3>2, <4>2
    <3>4. QED  BY <3>3
  <2>2. Min({u, q}) = u  BY <1>5, <2>1
  <2>3. Acceptance(n) = u  BY <1>1, <1>6 DEF Acceptance
  <2>4. QED  BY <1>1, <1>3, <2>2, <2>3
<1>7. CASE ~(n > d)
  <2>1. q \in 0..u  BY <1>2, <1>7, FractionIs
  <2>2. Min({u, q}) = q  BY <1>5, <2>1
  <2>3. Acceptance(n) = q  BY <1>1, <1>2, <1>7 DEF Acceptance
  <2>4. QED  BY <1>1, <1>3, <2>1, <2>2, <2>3
<1>8. QED  BY <1>6, <1>7

(* Two numbers less than a window apart have different slots.              *)
LEMMA SlotsDiffer ==
    ASSUME NEW w \in Nat \ {0}, NEW a \in Nat, NEW b \in Nat, a < b, b < a + w
    PROVE  a % w # b % w
<1> SUFFICES ASSUME a % w = b % w PROVE FALSE  OBVIOUS
<1>1. PICK p \in Nat, q \in Nat, i \in 0..(w - 1) : a = w * p + i /\ b = w * q + i
  <2>1. /\ a % w \in 0..(w - 1) /\ a \div w \in Nat /\ a = w * (a \div w) + (a % w)
        /\ b \div w \in Nat /\ b = w * (b \div w) + (b % w)
    BY DivisionIs
  <2>2. QED  BY <2>1
<1>2. PICK d \in Int : d = q - p /\ b - a = w * d
  <2>1. w * (q - p) = w * q - w * p  OBVIOUS
  <2>2. QED  BY <1>1, <2>1
<1>3. CASE d <= 0
  <2>1. w * d <= 0  BY <1>3
  <2>2. QED  BY <1>2, <2>1
<1>4. CASE d >= 1
  <2>1. w * d >= w  BY <1>4
  <2>2. QED  BY <1>2, <2>1
<1>5. QED  BY <1>3, <1>4

(* A ring of w slots: the slot of each of n entries, the ring h that keeps *)
(* the last w of the entries f, and the ring after one more entry a.       *)
Slots(w, n) == [k \in 1..n |-> ((k - 1) % w) + 1]
Keeps(h, f, w, n) ==
    /\ n < w => Len(h) = n
    /\ n >= w => Len(h) = w
    /\ \A k \in 1..n : k + w > n => h[Slots(w, n)[k]] = f[k]
Turned(h, a, w, n) == IF Len(h) < w THEN Append(h, a)
                      ELSE [h EXCEPT ![Slots(w, n + 1)[n + 1]] = a]

(* The first w entries take the slots in turn, and two entries less than w *)
(* apart take different ones.                                              *)
LEMMA SlotsAre ==
    ASSUME NEW w \in Nat \ {0}, NEW n \in Nat
    PROVE  /\ \A k \in 1..n : Slots(w, n)[k] = ((k - 1) % w) + 1
           /\ \A k \in 1..n : Slots(w, n)[k] \in 1..w
           /\ \A k \in 1..n : k <= w => Slots(w, n)[k] = k
           /\ \A j, k \in 1..n : j < k /\ k < j + w => Slots(w, n)[j] # Slots(w, n)[k]
<1>s. PICK s : s = Slots(w, n)  OBVIOUS
<1>1. ASSUME NEW k \in 1..n
      PROVE  \E i \in 0..(w - 1) : i = (k - 1) % w /\ s[k] = i + 1 /\ (k <= w => i = k - 1)
  <2>1. PICK j \in Nat : j = k - 1  OBVIOUS
  <2>2. PICK i \in 0..(w - 1) : i = j % w  BY DivisionIs
  <2>3. s[k] = ((k - 1) % w) + 1  BY <1>s DEF Slots
  <2>4. (k - 1) % w = i  BY <2>1, <2>2, Zenon
  <2>5. s[k] = i + 1  BY <2>3, <2>4, Zenon
  <2>6. ASSUME k <= w  PROVE i = k - 1
    <3>1. j \in 0..(w - 1) /\ j = w * 0 + j /\ 0 \in Int  BY <2>1, <2>6
    <3>2. j % w = j  BY ONLY <3>1, j \in Nat, w \in Nat \ {0}, RemainderIs
    <3>3. QED  BY <2>1, <2>2, <3>2
  <2>7. QED  BY <2>4, <2>5, <2>6
<1>2. \A k \in 1..n : s[k] \in 1..w /\ (k <= w => s[k] = k)
  <2>1. TAKE k \in 1..n
  <2>2. PICK i \in 0..(w - 1) : s[k] = i + 1 /\ (k <= w => i = k - 1)  BY <1>1
  <2>3. QED  BY <2>2
<1>3. ASSUME NEW j \in 1..n, NEW k \in 1..n, j < k, k < j + w
      PROVE  s[j] # s[k]
  <2>1. PICK a \in Nat, b \in Nat : a = j - 1 /\ b = k - 1 /\ a < b /\ b < a + w  BY <1>3
  <2>2. PICK i \in 0..(w - 1) : i = (j - 1) % w /\ s[j] = i + 1  BY <1>1
  <2>3. PICK m \in 0..(w - 1) : m = (k - 1) % w /\ s[k] = m + 1  BY <1>1
  <2>4. a % w # b % w  BY ONLY <2>1, w \in Nat \ {0}, SlotsDiffer
  <2>5. i # m  BY <2>1, <2>2, <2>3, <2>4, Zenon
  <2>6. QED  BY <2>2, <2>3, <2>5
<1>4. \A k \in 1..n : s[k] = ((k - 1) % w) + 1  BY <1>s DEF Slots
<1>5. QED  BY <1>s, <1>2, <1>3, <1>4, Zenon

(* One more entry leaves every other entry that is still wanted in its     *)
(* slot.                                                                   *)
LEMMA RingTurns ==
    ASSUME NEW S, NEW w \in Nat \ {0}, NEW n \in Nat, NEW h \in Seq(S), NEW f,
           f[n + 1] \in S, Keeps(h, f, w, n)
    PROVE  /\ Turned(h, f[n + 1], w, n) \in Seq(S)
           /\ Keeps(Turned(h, f[n + 1], w, n), f, w, n + 1)
<1>1. PICK a \in S : a = f[n + 1]  OBVIOUS
<1>2. PICK m \in Nat : m = n + 1  OBVIOUS
<1>3. PICK s : s = Slots(w, m)  OBVIOUS
<1>4. /\ \A k \in 1..m : s[k] \in 1..w
      /\ \A k \in 1..m : k <= w => s[k] = k
      /\ \A j, k \in 1..m : j < k /\ k < j + w => s[j] # s[k]
  <2>1. /\ \A k \in 1..m : Slots(w, m)[k] \in 1..w
        /\ \A k \in 1..m : k <= w => Slots(w, m)[k] = k
        /\ \A j, k \in 1..m : j < k /\ k < j + w => Slots(w, m)[j] # Slots(w, m)[k]
    BY ONLY w \in Nat \ {0}, m \in Nat, SlotsAre
  <2>2. QED  BY <1>3, <2>1, Zenon
<1>5. \A k \in 1..n : Slots(w, n)[k] = s[k]
  <2>1. \A k \in 1..n : k \in 1..m  BY <1>2
  <2>2. \A k \in 1..n : Slots(w, n)[k] = ((k - 1) % w) + 1  BY SlotsAre
  <2>3. \A k \in 1..m : s[k] = ((k - 1) % w) + 1  BY <1>3, SlotsAre
  <2>4. QED  BY <2>1, <2>2, <2>3, Zenon
<1>6. /\ n < w => Len(h) = n
      /\ n >= w => Len(h) = w
      /\ \A k \in 1..n : k + w > n => h[s[k]] = f[k]
  BY <1>5 DEF Keeps
<1>7. PICK g : /\ g = Turned(h, a, w, n)
               /\ Len(h) < w => g = Append(h, a)
               /\ ~(Len(h) < w) => g = [h EXCEPT ![s[m]] = a]
  <2>1. Slots(w, n + 1)[n + 1] = s[m]  BY <1>2, <1>3
  <2>2. Len(h) < w => Turned(h, a, w, n) = Append(h, a)  BY Zenon DEF Turned
  <2>3. ~(Len(h) < w) => Turned(h, a, w, n) = [h EXCEPT ![s[m]] = a]
    BY <2>1, Zenon DEF Turned
  <2>4. QED  BY <2>2, <2>3, Zenon
<1>8. CASE n < w
  <2>1. Len(h) = n /\ g = Append(h, a)  BY <1>6, <1>7, <1>8
  <2>2. /\ g \in Seq(S) /\ Len(g) = m /\ g[m] = a
        /\ \A k \in 1..n : g[k] = h[k]
    BY <1>2, <2>1, AppendProperties
  <2>3. ASSUME NEW k \in 1..n  PROVE g[s[k]] = f[k]
    <3>1. k \in 1..m /\ k <= w /\ k + w > n  BY <1>2, <1>8
    <3>2. s[k] = k /\ h[s[k]] = f[k]  BY <1>4, <1>6, <3>1
    <3>3. QED  BY <2>2, <3>2
  <2>4. s[m] = m
    <3>1. m \in 1..m /\ m <= w  BY <1>2, <1>8
    <3>2. QED  BY <1>4, <3>1
  <2>5. g[s[m]] = f[m]  BY <1>1, <1>2, <2>2, <2>4
  <2>6. m >= w => Len(g) = w  BY <1>2, <1>8, <2>2
  <2>7. \A k \in 1..m : g[s[k]] = f[k]
    <3>1. \A k \in 1..m : k \in 1..n \/ k = m  BY <1>2
    <3>2. QED  BY <2>3, <2>5, <3>1
  <2>8. Keeps(g, f, w, m)  BY <1>3, <2>2, <2>6, <2>7 DEF Keeps
  <2>9. QED  BY <1>1, <1>2, <1>7, <2>2, <2>8, Zenon
<1>9. CASE n >= w
  <2>1. Len(h) = w /\ ~(Len(h) < w)  BY <1>6, <1>9
  <2>2. PICK t \in 1..w : t = s[m] /\ g = [h EXCEPT ![t] = a]
    <3>1. m \in 1..m  BY <1>2
    <3>2. s[m] \in 1..w  BY <1>4, <3>1
    <3>3. g = [h EXCEPT ![s[m]] = a]  BY <1>7, <2>1, Zenon
    <3>4. QED  BY <3>2, <3>3
  <2>3. g \in Seq(S) /\ Len(g) = w /\ \A j \in 1..w : g[j] = IF j = t THEN a ELSE h[j]
    BY <2>1, <2>2, ExceptSeq
  <2>4. ASSUME NEW k \in 1..n, k + w > m  PROVE g[s[k]] = f[k]
    <3>1. k \in 1..m /\ m \in 1..m /\ k < m /\ m < k + w /\ k + w > n
      BY <1>2, <2>4
    <3>2. s[k] # t /\ s[k] \in 1..w /\ h[s[k]] = f[k]  BY <1>4, <1>6, <2>2, <3>1
    <3>3. QED  BY <2>3, <3>2
  <2>5. g[s[m]] = f[m]  BY <1>1, <1>2, <2>2, <2>3
  <2>6. \A k \in 1..m : k + w > m => g[s[k]] = f[k]
    <3>1. \A k \in 1..m : k \in 1..n \/ k = m  BY <1>2
    <3>2. QED  BY <2>4, <2>5, <3>1
  <2>7. m >= w /\ ~(m < w)  BY <1>2, <1>9
  <2>8. Keeps(g, f, w, m)  BY <1>3, <2>3, <2>6, <2>7 DEF Keeps
  <2>9. QED  BY <1>1, <1>2, <1>7, <2>3, <2>8, Zenon
<1>10. QED  BY <1>8, <1>9

(* Recording an acceptance turns the ring by one round, and the block size *)
(* adapted to it is in its range.                                          *)
LEMMA AdaptIs ==
    ASSUME TypeOK, BlockInv, RingInv, req.config.verify, draft # <<>>,
           NEW n \in Nat \ {0}, Adapt(n), req' = req,
           rounds' = Append(rounds, [gained |-> n, block |-> Len(draft)])
    PROVE  /\ curB' \in Nat \ {0}
           /\ \A top \in Nat : curB <= top /\ req.config.bmax <= top => curB' <= top
           /\ hist' \in Seq(0..Unit) /\ Len(hist') <= req.config.window
           /\ histPos' \in Nat /\ rounds' \in Seq(Round)
           /\ RingInv'
<1> DEFINE r == [gained |-> n, block |-> Len(draft)]
<1>w. PICK w : w = req.config.window  OBVIOUS
<1>1. /\ req.config \in Configs /\ w \in Nat /\ req.config.bmax \in Nat /\ req.config.bmin \in Nat
      /\ Len(draft) \in Nat \ {0} /\ Unit \in Nat
  <2>1. Len(draft) \in Nat /\ draft \in Seq(Byte)  BY CallIs
  <2>2. Len(draft) # 0  BY <2>1, EmptySeq
  <2>3. QED  BY <1>w, <2>1, <2>2, CallIs, BlockGenAssumption
<1>2. /\ curB \in Nat \ {0} /\ hist \in Seq(0..Unit) /\ Len(hist) <= w /\ histPos \in Nat
      /\ Len(hist) \in Nat
  BY <1>w, LenProperties DEF TypeOK, BlockInv
<1>3. PICK N \in Nat :
        /\ N = Len(rounds) /\ rounds' \in Seq(Round) /\ Len(rounds') = N + 1
        /\ rounds'[N + 1] = r /\ \A k \in 1..N : rounds'[k] = rounds[k]
  <2>1. rounds \in Seq(Round) /\ Len(rounds) \in Nat  BY LenProperties DEF TypeOK
  <2>2. r \in Round  BY <1>1 DEF Round
  <2>3. QED  BY <2>1, <2>2, AppendProperties
<1>4. CASE ~Adaptive
  <2>1. UNCHANGED <<curB, hist, histPos>>  BY <1>4 DEF Adapt
  <2>2. ~Adaptive'  BY <1>4 DEF Adaptive
  <2>3. RingInv'  BY <2>2 DEF RingInv
  <2>4. QED  BY <1>w, <1>1, <1>2, <1>3, <2>1, <2>3
<1>5. CASE Adaptive
  <2>1. /\ hist' = Recorded(Acceptance(n))
        /\ histPos' = (histPos + 1) % w
        /\ curB' = AdaptB(req.config, curB, Total(hist'), Len(hist'))
    BY <1>w, <1>5 DEF Adapt
  <2>2. w \in Nat \ {0} /\ req.config.bmax > 0  BY <1>w, <1>1, <1>5 DEF Adaptive
  <2>3. /\ N < w => Len(hist) = N
        /\ N >= w => Len(hist) = w
        /\ \A k \in 1..N : k + w > N => hist[((k - 1) % w) + 1] = Rate(rounds[k])
        /\ histPos = N % w
    BY <1>w, <1>3, <1>5 DEF RingInv, SlotOf
  <2>4. PICK a \in 0..Unit : a = Acceptance(n) /\ a = Rate(r)  BY <1>1, AcceptanceIs
  <2>5. histPos' \in Nat /\ histPos' = (N + 1) % w
    <3>1. ((N % w) + 1) % w = (N + 1) % w  BY <2>2, NextSlot
    <3>2. (N + 1) % w \in 0..(w - 1)
      <4>1. N + 1 \in Nat  OBVIOUS
      <4>2. QED  BY <2>2, <4>1, DivisionIs
    <3>3. histPos' = (N + 1) % w  BY <2>1, <2>3, <3>1, Zenon
    <3>4. QED  BY <2>2, <3>2, <3>3
  <2>6. PICK f : \A k \in 1..(N + 1) : f[k] = Rate(rounds'[k])
    <3>1. \A k \in 1..(N + 1) : [i \in 1..(N + 1) |-> Rate(rounds'[i])][k] = Rate(rounds'[k])
      OBVIOUS
    <3>2. QED  BY <3>1
  <2>7. /\ \A k \in 1..N : Slots(w, N)[k] = ((k - 1) % w) + 1
        /\ \A k \in 1..(N + 1) : Slots(w, N + 1)[k] = ((k - 1) % w) + 1
    <3>1. PICK M \in Nat : M = N + 1  OBVIOUS
    <3>2. /\ \A k \in 1..N : Slots(w, N)[k] = ((k - 1) % w) + 1
          /\ \A k \in 1..M : Slots(w, M)[k] = ((k - 1) % w) + 1
      BY ONLY <2>2, N \in Nat, M \in Nat, SlotsAre
    <3>3. QED  BY <3>1, <3>2, Zenon
  <2>8. f[N + 1] = a
    <3>1. N + 1 \in 1..(N + 1)  OBVIOUS
    <3>2. f[N + 1] = Rate(rounds'[N + 1])  BY <2>6, <3>1
    <3>3. QED  BY <1>3, <2>4, <3>2, Zenon
  <2>9. hist' \in Seq(0..Unit) /\ Keeps(hist', f, w, N + 1)
    <3>1. Keeps(hist, f, w, N)
      <4>1. ASSUME NEW k \in 1..N, k + w > N  PROVE hist[Slots(w, N)[k]] = f[k]
        <5>1. k \in 1..(N + 1)  OBVIOUS
        <5>2. hist[((k - 1) % w) + 1] = Rate(rounds[k])  BY <2>3, <4>1
        <5>3. rounds'[k] = rounds[k]  BY <1>3
        <5>4. Slots(w, N)[k] = ((k - 1) % w) + 1  BY <2>7
        <5>5. f[k] = Rate(rounds'[k])  BY <2>6, <5>1
        <5>6. QED  BY <5>2, <5>3, <5>4, <5>5, Zenon
      <4>2. (N < w => Len(hist) = N) /\ (N >= w => Len(hist) = w)  BY <2>3
      <4>3. QED  BY <4>1, <4>2 DEF Keeps
    <3>2. hist' = Turned(hist, f[N + 1], w, N)
      <4>1. N + 1 \in 1..(N + 1) /\ (N + 1) - 1 = N  OBVIOUS
      <4>2. Slots(w, N + 1)[N + 1] = (((N + 1) - 1) % w) + 1  BY <2>7, <4>1
      <4>3. histPos + 1 = Slots(w, N + 1)[N + 1]  BY <2>3, <4>1, <4>2, Zenon
      <4>4. QED  BY <1>w, <2>1, <2>4, <2>8, <4>3 DEF Recorded, Turned
    <3>3. hist \in Seq(0..Unit) /\ f[N + 1] \in 0..Unit /\ w \in Nat \ {0}  BY <1>2, <2>2, <2>8
    <3>4. /\ Turned(hist, f[N + 1], w, N) \in Seq(0..Unit)
          /\ Keeps(Turned(hist, f[N + 1], w, N), f, w, N + 1)
      BY ONLY <3>1, <3>3, N \in Nat, RingTurns
    <3>5. QED  BY <3>2, <3>4
  <2>10. /\ N + 1 < w => Len(hist') = N + 1
         /\ N + 1 >= w => Len(hist') = w
         /\ \A k \in 1..(N + 1) : k + w > N + 1 => hist'[((k - 1) % w) + 1] = Rate(rounds'[k])
    BY <2>6, <2>7, <2>9 DEF Keeps
  <2>11. /\ curB' \in Nat \ {0}
         /\ \A top \in Nat : curB <= top /\ req.config.bmax <= top => curB' <= top
         /\ req.config.bmin <= req.config.bmax
              => curB' \in Floor(req.config)..req.config.bmax
    BY <1>1, <1>2, <2>1, <2>2, AdaptBIs
  <2>12. RingInv'
    <3>1. Floor(req.config) \in Nat  BY <1>1 DEF Floor
    <3>2. ASSUME req.config.bmin <= req.config.bmax  PROVE InRange(curB)'
      <4>1. curB' \in Floor(req.config)..req.config.bmax  BY <2>11, <3>2, Zenon
      <4>2. Floor(req.config) <= curB' /\ curB' <= req.config.bmax  BY <1>1, <3>1, <4>1
      <4>3. QED  BY <4>2 DEF InRange
    <3>3. Len(rounds') = N + 1  BY <1>3
    <3>4. \A k : SlotOf(k)' = ((k - 1) % w) + 1  BY <1>w DEF SlotOf
    <3>5. \A k : Rate(rounds[k])' = Rate(rounds'[k])  BY DEF Rate
    <3>6. QED  BY <1>w, <2>5, <2>10, <3>2, <3>3, <3>4 DEF RingInv
  <2>13. Len(hist') <= req.config.window  BY <1>w, <2>2, <2>10
  <2>14. QED  BY <1>3, <2>5, <2>9, <2>11, <2>12, <2>13
<1>6. QED  BY <1>4, <1>5

(* BLT-DV commits what the verifier grants.                                *)
LEMMA VerifyStep == ASSUME IInv, Verify PROVE IInv'
<1>1. TypeOK /\ BlockInv /\ VerifiedInv /\ RingInv  BY DEF IInv
<1>2. /\ out \in Seq(Byte) /\ l = Len(out) /\ l \in Nat /\ Len(req.prompt) \in Nat
      /\ Len(req.prompt) <= l /\ req.target \in Nat /\ Len(draft) \in Nat
  BY <1>1, CallIs
<1>3. /\ req.config.verify /\ pc = "verify" /\ pc' = "round" /\ draft' = <<>> /\ req' = req
      /\ draft # <<>>
  BY <1>1 DEF Verify, BlockInv
<1>4. PICK y, a : y = Verdict.bytes /\ a = Verdict.accepted  OBVIOUS
<1>5. /\ out' = y /\ stats' = Counted(1, 1, 0, a, 0) /\ Adapt(Len(y) - l)
      /\ rounds' = Append(rounds, [gained |-> Len(y) - l, block |-> Len(draft)])
  BY <1>4 DEF Verify
<1>6. /\ y \in Seq(Byte) /\ Len(y) \in (l + 1)..req.target
      /\ a \in 0..Len(draft) /\ a <= Len(y) - l
      /\ ~req.config.aligned => Len(y) - l <= a + 1
  BY <1>1, <1>3, <1>4, VerdictIs
<1>7. PICK n \in Nat \ {0} : n = Len(y) - l /\ Len(y) = l + n
  <2>1. Len(y) \in Nat  BY <1>6, LenProperties
  <2>2. Len(y) - l \in Nat \ {0} /\ Len(y) = l + (Len(y) - l)  BY <1>2, <1>6, <2>1
  <2>3. QED  BY <2>2
<1>8. a \in Nat /\ a <= n /\ a <= Len(draft) /\ (~req.config.aligned => n <= a + 1)
  BY <1>2, <1>6, <1>7
<1>9. Len(draft') = 0 /\ draft' \in Seq(Byte)  BY <1>3, EmptySeq
<1>10. /\ stats'.enc = stats.enc + 1 /\ stats'.dec = stats.dec + 1
       /\ stats'.drafted = stats.drafted
       /\ stats'.accepted = stats.accepted + a /\ stats'.ar = stats.ar
       /\ stats.enc \in Nat /\ stats.dec \in Nat /\ stats.drafted \in Nat
       /\ stats.accepted \in Nat /\ stats.ar \in Nat
  <2>1. /\ stats.enc \in Nat /\ stats.dec \in Nat /\ stats.drafted \in Nat
        /\ stats.accepted \in Nat /\ stats.ar \in Nat
    BY <1>1, CountersAre
  <2>2. /\ stats'.enc = stats.enc + 1 /\ stats'.dec = stats.dec + 1
        /\ stats'.drafted = stats.drafted
        /\ stats'.accepted = stats.accepted + a /\ stats'.ar = stats.ar
    BY <1>5, <1>8, <2>1, CountedIs
  <2>3. QED  BY <2>1, <2>2
<1>type. stats' \in [enc : Nat, dec : Nat, drafted : Nat, accepted : Nat, ar : Nat]
  BY <1>1, <1>5, <1>8, CountedType
<1>11. new' = new + n /\ new \in Int /\ l' = l + n
  BY <1>2, <1>3, <1>5, <1>7 DEF new, l
<1>12. /\ Rounds \in Nat /\ Rounds' = Rounds + 1
       /\ stats'.enc - stats'.ar = 2 * (Rounds + 1) + 0 /\ Pending' = 0
  <2>1. stats.enc - stats.ar = 2 * Rounds + 1 /\ Rounds >= 0
    BY <1>1, <1>3 DEF VerifiedInv, Pending
  <2>2. Rounds \in Int  BY <1>10 DEF Rounds
  <2>3. stats'.enc - stats'.ar = 2 * (Rounds + 1)  BY <1>10, <2>1, <2>2
  <2>4. Rounds' = (2 * (Rounds + 1)) \div 2  BY <2>3 DEF Rounds
  <2>5. (2 * (Rounds + 1)) \div 2 = Rounds + 1  BY <2>2
  <2>6. QED  BY <1>3, <2>1, <2>2, <2>3, <2>4, <2>5 DEF Pending
<1>13. /\ curB' \in Nat \ {0}
       /\ \A top \in Nat : curB <= top /\ req.config.bmax <= top => curB' <= top
       /\ hist' \in Seq(0..Unit) /\ Len(hist') <= req.config.window
       /\ histPos' \in Nat /\ rounds' \in Seq(Round)
       /\ RingInv'
  <2>1. Adapt(n) /\ rounds' = Append(rounds, [gained |-> n, block |-> Len(draft)])
    BY <1>5, <1>7
  <2>2. QED  BY <1>1, <1>3, <2>1, AdaptIs
<1>14. TypeOK'
  <2>1. Len(req.prompt) <= Len(out') /\ Len(out') <= req.target /\ out' \in Seq(Byte)
    BY <1>2, <1>5, <1>6
  <2>2. QED  BY <1>1, <1>2, <1>3, <1>9, <1>13, <1>type, <2>1 DEF TypeOK
<1>15. BlockInv'
  <2>1. MaxB \in Nat  BY BlockGenAssumption
  <2>2. req.config.size <= MaxB /\ req.config.bmax <= MaxB => curB' <= MaxB
    BY <1>1, <1>13, <2>1 DEF BlockInv
  <2>3. curB' >= 1  BY <1>13
  <2>4. QED  BY <1>1, <1>3, <2>2, <2>3 DEF BlockInv
<1>16. VerbatimInv'  BY <1>3 DEF VerbatimInv
<1>17. VerifiedInv'
  <2>1. /\ stats.accepted + Len(draft) <= stats.drafted
        /\ stats.ar + stats.accepted <= new
        /\ ~req.config.aligned => new <= stats.ar + stats.accepted + Rounds
        /\ stats.dec <= stats.ar + stats.drafted + Rounds
    BY <1>1, <1>3 DEF VerifiedInv
  <2>2. stats'.enc - stats'.ar = 2 * Rounds' + Pending' /\ Rounds' >= 0  BY <1>12
  <2>3. stats'.accepted + Len(draft') <= stats'.drafted  BY <1>2, <1>8, <1>9, <1>10, <2>1
  <2>4. stats'.ar + stats'.accepted <= new'  BY <1>8, <1>10, <1>11, <2>1
  <2>5. ~req.config.aligned => new' <= stats'.ar + stats'.accepted + Rounds'
    BY <1>8, <1>10, <1>11, <1>12, <2>1, SMTT(30)
  <2>6. stats'.dec <= stats'.ar + stats'.drafted + Rounds'  BY <1>10, <1>12, <2>1
  <2>7. QED  BY <1>3, <2>2, <2>3, <2>4, <2>5, <2>6 DEF VerifiedInv
<1>18. QED  BY <1>13, <1>14, <1>15, <1>16, <1>17 DEF IInv

(* Ending the call, by return or by abort, keeps the invariant.            *)
LEMMA StopStep == ASSUME IInv, Finish \/ Abort \/ Return \/ UNCHANGED vars PROVE IInv'
<1>1. /\ UNCHANGED <<req, out, curB, hist, histPos, draft, stats, rounds>>
      /\ pc' = pc \/ (pc = "round" /\ pc' = "done") \/ pc' = "abort"
  BY DEF Finish, Abort, Return, vars
<1>2. l' = l /\ new' = new /\ Rounds' = Rounds /\ Pending' = Pending /\ (StartsHere' <=> StartsHere)
  BY <1>1 DEF l, new, Rounds, Pending, StartsHere
<1>3. TypeOK'  BY <1>1 DEF IInv, TypeOK
<1>4. BlockInv'  BY <1>1, <1>2 DEF IInv, BlockInv
<1>5. VerbatimInv' /\ VerifiedInv'  BY <1>1, <1>2 DEF IInv, VerbatimInv, VerifiedInv
<1>6. RingInv'  BY <1>1, <1>2 DEF IInv, RingInv, Adaptive, InRange, SlotOf
<1>7. QED  BY <1>3, <1>4, <1>5, <1>6 DEF IInv

(* Every step keeps the inductive invariant.                               *)
LEMMA Inductive == IInv /\ [Next]_vars => IInv'
<1> SUFFICES ASSUME IInv, [Next]_vars PROVE IInv'  OBVIOUS
<1>1. CASE ArByte  BY <1>1, ArByteStep
<1>2. CASE DraftBlock  BY <1>2, DraftBlockStep
<1>3. CASE AcceptDraft  BY <1>3, AcceptDraftStep
<1>4. CASE Verify  BY <1>4, VerifyStep
<1>5. CASE Finish \/ Abort \/ Return \/ UNCHANGED vars  BY <1>5, StopStep
<1>6. QED  BY <1>1, <1>2, <1>3, <1>4, <1>5 DEF Next

(* The inductive invariant holds in every reachable state.                 *)
LEMMA InvariantHolds == Spec => []IInv
<1>1. QED  BY InitIInv, Inductive, PTL DEF Spec
-----------------------------------------------------------------------------
(* The state stays typed: in particular the committed bytes never outgrow  *)
(* the requested length and the ring never outgrows its window             *)
(* (generate_common).                                                      *)
THEOREM TypeCorrect == Spec => []TypeOK
<1>1. IInv => TypeOK  BY DEF IInv
<1>2. QED  BY <1>1, InvariantHolds, PTL

(* Between rounds the counters explain every committed byte, and the calls *)
(* of the encoder and decoder (the blt_infer_stats of generate_common).    *)
THEOREM CommitsAccounted == Spec => []CommitAccounting
<1>1. IInv => CommitAccounting
  <2> SUFFICES ASSUME IInv, pc \in {"round", "done"} PROVE CommitAccounting
    BY DEF IInv, CommitAccounting
  <2>1. TypeOK /\ draft = <<>>  BY DEF IInv, BlockInv
  <2>2. Len(draft) = 0  BY <2>1, EmptySeq
  <2>3. stats.accepted \in Nat /\ stats.drafted \in Nat  BY <2>1, CountersAre
  <2>4. req.config.verify \/ ~req.config.verify  OBVIOUS
  <2>5. stats.accepted + Len(draft) <= stats.drafted
    BY <2>4 DEF IInv, VerbatimInv, VerifiedInv
  <2>6. stats.accepted <= stats.drafted  BY <2>2, <2>3, <2>5
  <2>7. CASE ~req.config.verify
    BY <2>1, <2>6, <2>7 DEF IInv, VerbatimInv, CommitAccounting, new
  <2>8. CASE req.config.verify
    BY <2>1, <2>6, <2>8 DEF IInv, VerifiedInv, CommitAccounting, new
  <2>9. QED  BY <2>4, <2>7, <2>8
<1>2. QED  BY <1>1, InvariantHolds, PTL

(* The acceptance ring always holds the shares of the latest rounds, a     *)
(* window of them at most, each in its own slot with the oldest in the     *)
(* slot that is overwritten next, and the block size stays in the range it *)
(* is adapted within (acc_hist and cur_B of generate_common).              *)
THEOREM HistoryStaysRecent == Spec => []HistoryIsRecent
<1>1. IInv => HistoryIsRecent
  <2> SUFFICES ASSUME IInv, pc \in {"round", "done"}, req.config.verify, Adaptive
               PROVE  /\ Len(hist) = Min({Len(rounds), req.config.window})
                      /\ \A k \in 1..Len(rounds) : k + req.config.window > Len(rounds)
                            => hist[SlotOf(k)] = Rate(rounds[k])
                      /\ histPos = Len(rounds) % req.config.window
                      /\ Len(rounds) > 0 /\ req.config.bmin <= req.config.bmax => InRange(curB)
    BY DEF HistoryIsRecent
  <2>1. /\ Len(rounds) < req.config.window => Len(hist) = Len(rounds)
        /\ Len(rounds) >= req.config.window => Len(hist) = req.config.window
        /\ \A k \in 1..Len(rounds) :
              k + req.config.window > Len(rounds) => hist[SlotOf(k)] = Rate(rounds[k])
        /\ histPos = Len(rounds) % req.config.window
        /\ Len(rounds) > 0 /\ req.config.bmin <= req.config.bmax => InRange(curB)
    BY DEF IInv, RingInv
  <2>2. PICK w \in Nat, k \in Nat : w = req.config.window /\ k = Len(rounds)
    BY CallIs, LenProperties DEF IInv, TypeOK
  <2>3. {k, w} \subseteq Nat /\ {k, w} # {}  OBVIOUS
  <2>4. Min({k, w}) \in {k, w} /\ \A j \in {k, w} : Min({k, w}) <= j
    BY ONLY <2>3, MinIsLeast
  <2>5. /\ k < w => Min({k, w}) = k
        /\ k >= w => Min({k, w}) = w
    BY <2>4
  <2>6. Len(hist) = Min({Len(rounds), req.config.window})  BY <2>1, <2>2, <2>5
  <2>7. QED  BY <2>1, <2>6
<1>2. QED  BY <1>1, InvariantHolds, PTL
-----------------------------------------------------------------------------
(* What a step commits: nothing, or bytes the call's rule allows after the *)
(* bytes before them.                                                      *)
LEMMA StepCommits ==
    ASSUME IInv, [Next]_vars
    PROVE  /\ req' = req
           /\ \/ out' = out
              \/ /\ out' \in Seq(Byte) /\ Len(out') \in (l + 1)..req.target
                 /\ SubSeq(out', 1, l) = out
                 /\ \A i \in (l + 1)..Len(out') :
                       out'[i] \in CallAllowed(req.em, [model |-> req.model,
                                                        verifier |-> req.verifier,
                                                        verify |-> req.config.verify],
                                               SubSeq(out', 1, i - 1))
<1> DEFINE call == [model |-> req.model, verifier |-> req.verifier,
                    verify |-> req.config.verify]
           Granted(y) == /\ y \in Seq(Byte) /\ Len(y) \in (l + 1)..req.target
                         /\ SubSeq(y, 1, l) = out
                         /\ \A i \in (l + 1)..Len(y) :
                               y[i] \in CallAllowed(req.em, call, SubSeq(y, 1, i - 1))
<1>1. /\ TypeOK /\ BlockInv /\ out \in Seq(Byte) /\ l = Len(out) /\ l \in Nat /\ l >= 1
      /\ req.target \in Nat /\ draft \in Seq(Byte) /\ Len(draft) \in Nat
      /\ l + Len(draft) <= req.target
  BY CallIs DEF IInv
<1>2. /\ call.model = req.model /\ call.verifier = req.verifier
      /\ call.verify = req.config.verify
  OBVIOUS
<1>3. ASSUME NEW y \in Seq(Byte), NEW i \in (l + 1)..Len(y), ~req.config.verify
      PROVE  y[i] \in CallAllowed(req.em, call, SubSeq(y, 1, i - 1))
  <2>1. Len(y) \in Nat  BY <1>3, LenProperties
  <2>2. i \in 1..Len(y)  BY <1>1, <1>3, <2>1
  <2>3. y[i] \in Byte  BY <1>3, <2>2, ElementOfSeq
  <2>4. CallAllowed(req.em, call, SubSeq(y, 1, i - 1)) = Byte  BY <1>2, <1>3 DEF CallAllowed
  <2>5. QED  BY <2>3, <2>4
<1>4. CASE ArByte
  <2>1. req' = req /\ out' = Append(out, ArNextByte) /\ l < req.target /\ ~StartsHere
    BY <1>4 DEF ArByte, Unfinished
  <2>2. PICK b \in Byte : b = ArNextByte  BY ArgmaxIsByte DEF ArNextByte
  <2>3. out' \in Seq(Byte) /\ Len(out') = l + 1 /\ out'[l + 1] = b
    BY <1>1, <2>1, <2>2, AppendProperties
  <2>4. SubSeq(out', 1, l) = out
    <3>1. out' = out \o <<b>> /\ <<b>> \in Seq(Byte)  BY <1>1, <2>1, <2>2, AppendIsConcat
    <3>2. 1 \in 1..Len(out) /\ l \in 1..Len(out)  BY <1>1
    <3>3. SubSeq(out', 1, l) = SubSeq(out, 1, l)  BY <1>1, <3>1, <3>2, SubSeqOfConcat1
    <3>4. SubSeq(out, 1, l) = out  BY <1>1, SubSeqFull
    <3>5. QED  BY <3>3, <3>4
  <2>5. b \in CallAllowed(req.em, call, out)
    <3>1. CASE ~req.config.verify  BY <1>2, <3>1 DEF CallAllowed
    <3>2. CASE req.config.verify
      <4>1. ~Closed(req.em, out)  BY <2>1 DEF StartsHere
      <4>2. Closed(req.em, out) = FALSE  BY <4>1 DEF Closed
      <4>3. b = NextByte(req.em, req.model, out)
        BY <1>1, <2>2, <4>2 DEF ArNextByte, NextByte, FullView, l
      <4>4. QED  BY <1>2, <3>2, <4>1, <4>3 DEF CallAllowed
    <3>3. QED  BY <3>1, <3>2
  <2>6. ASSUME NEW i \in (l + 1)..Len(out')
        PROVE  out'[i] \in CallAllowed(req.em, call, SubSeq(out', 1, i - 1))
    <3>1. i = l + 1 /\ i - 1 = l  BY <1>1, <2>3, <2>6
    <3>2. QED  BY <2>3, <2>4, <2>5, <3>1
  <2>7. Len(out') \in (l + 1)..req.target  BY <1>1, <2>1, <2>3
  <2>8. QED  BY <2>1, <2>3, <2>4, <2>6, <2>7
<1>5. CASE AcceptDraft
  <2>1. req' = req /\ out' = Candidate /\ ~req.config.verify /\ pc = "verify"
    BY <1>5 DEF AcceptDraft, Candidate
  <2>2. /\ Candidate \in Seq(Byte) /\ Len(Candidate) = l + Len(draft)
        /\ SubSeq(Candidate, 1, l) = out
    BY <1>1, CandidateIs
  <2>3. Len(draft) >= 1
    <3>1. draft # <<>>  BY <1>1, <2>1 DEF BlockInv
    <3>2. QED  BY <1>1, <3>1, EmptySeq
  <2>4. Len(out') \in (l + 1)..req.target  BY <1>1, <2>1, <2>2, <2>3
  <2>5. \A i \in (l + 1)..Len(out') :
           out'[i] \in CallAllowed(req.em, call, SubSeq(out', 1, i - 1))
    BY <1>3, <2>1, <2>2
  <2>6. QED  BY <2>1, <2>2, <2>4, <2>5
<1>6. CASE Verify
  <2>1. req' = req /\ out' = Verdict.bytes /\ req.config.verify /\ pc = "verify"
    BY <1>6 DEF Verify
  <2>2. PICK y, a : y = Verdict.bytes /\ a = Verdict.accepted  OBVIOUS
  <2>3. /\ y \in Seq(Byte) /\ Len(y) \in (l + 1)..req.target
        /\ SubSeq(y, 1, l) = out
        /\ \A i \in (l + 1)..Len(y) :
              y[i] = NextByte(req.em, req.verifier, SubSeq(y, 1, i - 1))
    BY <1>1, <2>1, <2>2, VerdictIs
  <2>4. ASSUME NEW i \in (l + 1)..Len(y)
        PROVE  y[i] \in CallAllowed(req.em, call, SubSeq(y, 1, i - 1))
    BY <1>2, <2>1, <2>3, <2>4 DEF CallAllowed
  <2>5. QED  BY <2>1, <2>2, <2>3, <2>4
<1>7. CASE DraftBlock \/ Finish \/ Abort \/ Return \/ UNCHANGED vars
  BY <1>7 DEF DraftBlock, Finish, Abort, Return, vars
<1>8. QED  BY <1>4, <1>5, <1>6, <1>7 DEF Next

(* BLT-DV implements the abstract commit step: whatever a round drafts,    *)
(* verifies and adapts, the bytes it commits are those greedy decoding     *)
(* allows, and it never takes one back (generate_common, blt_verify_draft, *)
(* blt_verify_draft_aligned).                                              *)
THEOREM BlocksImplementGreedy == Spec => ImplementsGreedy
<1>1. Init => Greedy!Init
  <2> SUFFICES ASSUME Init PROVE Greedy!Init  OBVIOUS
  <2>1. TypeOK  BY InitIInv DEF IInv
  <2>2. /\ out \in Seq(Byte) /\ l = Len(out) /\ l \in Nat /\ l >= 1
        /\ req.target \in Nat /\ l <= req.target /\ req.em \in EntropyModels
        /\ req.model \in Models /\ req.verifier \in Models /\ req.config.verify \in BOOLEAN
    BY <2>1, CallIs
  <2>3. out # <<>>
    <3>1. Len(out) >= 1  BY <2>2
    <3>2. QED  BY <3>1
  <2>4. [model |-> req.model, verifier |-> req.verifier, verify |-> req.config.verify] \in Call
    BY <2>2 DEF Call
  <2>5. req.target >= Len(out)  BY <2>2
  <2>6. QED  BY <2>2, <2>3, <2>4, <2>5 DEF Greedy!Init
<1>2. ASSUME IInv, [Next]_vars
      PROVE  [Greedy!Commit]_<<Greedy!call, out>>
  <2>1. req' = req  BY <1>2, StepCommits
  <2>2. l = Len(out) /\ l \in Nat /\ req.target \in Nat  BY <1>2, CallIs DEF IInv
  <2>3. CASE out' = out  BY <2>1, <2>3 DEF Greedy!call
  <2>4. CASE /\ out' \in Seq(Byte) /\ Len(out') \in (l + 1)..req.target
             /\ SubSeq(out', 1, l) = out
             /\ \A i \in (l + 1)..Len(out') :
                   out'[i] \in CallAllowed(req.em, [model |-> req.model,
                                                    verifier |-> req.verifier,
                                                    verify |-> req.config.verify],
                                           SubSeq(out', 1, i - 1))
    <3>1. Len(out) < Len(out') /\ Len(out') <= req.target  BY <2>2, <2>4
    <3>2. QED  BY <2>1, <2>2, <2>4, <3>1 DEF Greedy!Commit, Greedy!call
  <2>5. QED  BY <1>2, <2>3, <2>4, StepCommits
<1>3. QED  BY <1>1, <1>2, InvariantHolds, PTL DEF Spec, ImplementsGreedy, Greedy!Spec
-----------------------------------------------------------------------------
(* A call with two bytes of prompt, block sizes the mask fields hold and   *)
(* patches the array holds trips no BLT_REQUIRE (generate_common,          *)
(* blt_draft_block, encode_segmented): no block, clamped or adapted,       *)
(* reaches past the model, and every verified round commits a byte.        *)
THEOREM NeverAbortsSpuriously == Spec => []NoSpuriousAbort
<1>1. Init => NoSpuriousAbort  BY DEF Init, NoSpuriousAbort
<1>2. ASSUME IInv, NoSpuriousAbort, [Next]_vars
      PROVE  NoSpuriousAbort'
  <2>1. CASE Abort
    <3>1. SUFFICES ASSUME FitsCapacity PROVE FALSE
      BY <2>1 DEF Abort, NoSpuriousAbort, FitsCapacity, Candidate
    <3>2. /\ TypeOK /\ BlockInv /\ out \in Seq(Byte) /\ l = Len(out) /\ l \in Nat
          /\ Len(req.prompt) \in Nat /\ Len(req.prompt) <= l /\ l <= req.target
          /\ req.target \in Nat /\ draft \in Seq(Byte) /\ Len(draft) \in Nat
          /\ l + Len(draft) <= req.target /\ req.target <= MaxSeqLen /\ MaxSeqLen \in Nat
          /\ curB \in Nat /\ MaxB \in Nat
      BY <1>2, CallIs, BlockGenAssumption DEF IInv, BlockInv, TypeOK
    <3>3. Candidate \in Seq(Byte) /\ Len(Candidate) = l + Len(draft)
      BY <3>2, CandidateIs
    <3>4. Encodable(Candidate)
      <4>1. Len(Candidate) \in 2..MaxSeqLen  BY <3>1, <3>2, <3>3 DEF FitsCapacity
      <4>2. QED  BY <3>1, <4>1 DEF Encodable, FitsCapacity
    <3>5. CASE pc = "round" /\ ~Encodable(out)
      <4>1. draft = <<>>  BY <3>2, <3>5 DEF BlockInv
      <4>2. Candidate = out  BY <3>2, <4>1, ConcatEmptySeq DEF Candidate
      <4>3. QED  BY <3>4, <3>5, <4>2
    <3>7. CASE pc = "round" /\ ~DraftFits
      <4>1. curB <= MaxB  BY <3>1, <3>2 DEF FitsCapacity, BlockInv
      <4>2. BlockSize <= MaxB /\ l + BlockSize <= MaxSeqLen  BY <3>2, <4>1 DEF BlockSize
      <4>3. QED  BY <3>7, <4>2 DEF DraftFits
    <3>8. CASE /\ pc = "verify" /\ req.config.verify
               /\ ~(Encodable(Candidate) /\ l < Len(Verdict.bytes))
      <4>1. PICK y, a : y = Verdict.bytes /\ a = Verdict.accepted  OBVIOUS
      <4>2. y \in Seq(Byte) /\ Len(y) \in (l + 1)..req.target
        BY <3>2, <3>8, <4>1, VerdictIs
      <4>3. l < Len(y)  BY <3>2, <4>2
      <4>4. QED  BY <3>4, <3>8, <4>1, <4>3
    <3>9. QED  BY <2>1, <3>5, <3>7, <3>8 DEF Abort
  <2>2. CASE pc' # "abort"  BY <2>2 DEF NoSpuriousAbort
  <2>3. CASE UNCHANGED vars
    BY <1>2, <2>3 DEF NoSpuriousAbort, FitsCapacity, Candidate, vars
  <2>4. Next => Abort \/ pc' # "abort" \/ UNCHANGED vars
    BY <1>2 DEF Next, ArByte, DraftBlock, AcceptDraft, Verify, Finish, Return, IInv, TypeOK
  <2>5. QED  BY <1>2, <2>1, <2>2, <2>3, <2>4
<1>3. QED  BY <1>1, <1>2, InvariantHolds, PTL DEF Spec
=============================================================================
