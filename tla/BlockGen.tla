------------------------------- MODULE BlockGen -------------------------------
(***************************************************************************)
(* Block-diffusion generation, BLT-D and BLT-DV (generate_common): finish  *)
(* the open patch with greedy bytes, then draft a whole block at the patch *)
(* start; BLT-D commits the draft as it is, BLT-DV verifies it, possibly   *)
(* with another model, and may adapt the block size to the acceptance.     *)
(*                                                                         *)
(* A draft is any block of bytes after one to block_size decoder passes,   *)
(* which is what BlockDraft shows of blt_draft_block.                      *)
(***************************************************************************)
EXTENDS Verification

CONSTANTS Prompts,      \* prompts, at least one byte each
          MaxNew,       \* bound: largest max_new_bytes
          Configs,      \* blt_block_gen_config, with do_verify
          MaxSeqLen,    \* max_seq_len of both models
          MaxPatches,   \* BLT_MAX_PATCHES
          MaxB,         \* BLT_BLOCKGEN_MAX_B
          MaxWindow,    \* 64, the slots of acc_hist
          Unit,         \* an acceptance of 1.0; divisible by every block size
          Margin        \* BLT_ADAPT_B_MARGIN, in Units

ASSUME BlockGenAssumption ==
    /\ \A p \in Prompts : p \in Seq(Byte) /\ Len(p) >= 1
    /\ MaxNew \in Nat /\ MaxSeqLen \in Nat /\ MaxPatches \in Nat \ {0}
    /\ MaxB \in Nat \ {0} /\ MaxWindow \in Nat /\ Margin \in Nat
    /\ Unit \in Nat /\ \A b \in 1..MaxB : Unit % b = 0
    /\ Configs \subseteq [verify : BOOLEAN, aligned : BOOLEAN, size : Nat \ {0},
                          window : Nat, bmin : Nat, bmax : Nat, goal : Nat]

VARIABLES req,      \* the call: em, model, verifier, prompt, target, config
          out,      \* output_bytes[0 .. l), the committed bytes
          curB,     \* cur_B, the block size before it is clamped
          hist,     \* acc_hist[0 .. hist_len)
          histPos,  \* hist_pos, the next slot to overwrite
          draft,    \* the drafted block
          pc,       \* "round", "verify", "done", "abort"
          stats,    \* blt_infer_stats
          rounds    \* history: what each verified round drafted and committed

vars == <<req, out, curB, hist, histPos, draft, pc, stats, rounds>>

Request == [em : EntropyModels, model : Models, verifier : Models, prompt : Prompts,
            target : Nat, config : Configs]
Round == [gained : Nat, block : Nat \ {0}]

TypeOK ==
    /\ req \in Request /\ req.target <= Len(req.prompt) + MaxNew
    /\ out \in Seq(Byte)
    /\ Len(req.prompt) <= Len(out) /\ Len(out) <= req.target
    /\ curB \in Nat
    /\ hist \in Seq(0..Unit) /\ Len(hist) <= req.config.window
    /\ histPos \in Nat
    /\ draft \in Seq(Byte) /\ Len(out) + Len(draft) <= req.target
    /\ pc \in {"round", "verify", "done", "abort"}
    /\ stats \in [enc : Nat, dec : Nat, drafted : Nat, accepted : Nat, ar : Nat]
    /\ rounds \in Seq(Round)

(* The entry refuses a target that does not fit both models, and a window  *)
(* of more rounds than acc_hist has slots, whether or not it is used.      *)
Init ==
    /\ \E e \in EntropyModels, m \in Models, v \in Models, p \in Prompts, k \in 0..MaxNew,
          c \in Configs :
          /\ Len(p) + k <= MaxSeqLen /\ c.window <= MaxWindow
          /\ req = [em |-> e, model |-> m, verifier |-> v, prompt |-> p,
                    target |-> Len(p) + k, config |-> c]
          /\ out = p
          /\ curB = c.size
    /\ hist = <<>> /\ histPos = 0
    /\ draft = <<>>
    /\ pc = "round"
    /\ stats = [enc |-> 0, dec |-> 0, drafted |-> 0, accepted |-> 0, ar |-> 0]
    /\ rounds = <<>>
-----------------------------------------------------------------------------
l == Len(out)

(* segment_prefix and the encoder; the entropy model takes two bytes at    *)
(* least, so a prompt of one stops the call at its first round.            *)
Encodable(x) == Len(x) \in 2..MaxSeqLen /\ Cardinality(Starts(req.em, x)) <= MaxPatches

Counted(enc, dec, drafted, accepted, ar) ==
    [enc |-> stats.enc + enc, dec |-> stats.dec + dec, drafted |-> stats.drafted + drafted,
     accepted |-> stats.accepted + accepted, ar |-> stats.ar + ar]

(* while (l < target_len)                                                  *)
WholeBlockFits == l + curB <= req.target
Unfinished == l < req.target

(* The block never reaches past the requested length.                      *)
Unclamped == curB
BlockSize == IF l + curB > req.target THEN req.target - l ELSE curB

(* Would a patch start at l?  Only then may a block.                       *)
StartsAnywhere == TRUE
StartsHere == Closed(req.em, out)

(* ar_next_byte, mid-patch: the last row of the committed bytes, which are *)
(* not closed.                                                             *)
ClosedRow == Argmax(req.model, View(req.em, out, TRUE, l - 1))
ArNextByte == Argmax(req.model, View(req.em, out, FALSE, l - 1))

ArByte ==
    /\ pc = "round" /\ Unfinished /\ ~StartsHere
    /\ Encodable(out)
    /\ out' = Append(out, ArNextByte)
    /\ stats' = Counted(1, 1, 0, 0, 1)
    /\ UNCHANGED <<req, curB, hist, histPos, draft, pc, rounds>>

(* Encode the committed bytes and draft the block after them.              *)
DraftFits == BlockSize <= MaxB /\ l + BlockSize <= MaxSeqLen
DraftBlock ==
    /\ pc = "round" /\ Unfinished /\ StartsHere
    /\ Encodable(out) /\ DraftFits
    /\ draft' \in [1..BlockSize -> Byte]
    /\ \E passes \in 1..BlockSize : stats' = Counted(1, passes, BlockSize, 0, 0)
    /\ pc' = "verify"
    /\ UNCHANGED <<req, out, curB, hist, histPos, rounds>>

(* BLT-D: the draft is accepted verbatim.                                  *)
AcceptDraft ==
    /\ pc = "verify" /\ ~req.config.verify
    /\ out' = out \o draft
    /\ stats' = Counted(0, 0, 0, Len(draft), 0)
    /\ draft' = <<>>
    /\ pc' = "round"
    /\ UNCHANGED <<req, curB, hist, histPos, rounds>>
-----------------------------------------------------------------------------
(* blt_block_adapt_b, for an acceptance of sum / n in Units: clamp, then   *)
(* move one byte towards the target.                                       *)
Floor(c) == IF c.bmin = 0 THEN 1 ELSE c.bmin
Clamped(c, b) == IF b < Floor(c) THEN Floor(c) ELSE IF b > c.bmax THEN c.bmax ELSE b
AdaptB(c, b, sum, n) ==
    IF c.bmax < c.bmin THEN b
    ELSE CASE sum > n * (c.goal + Margin) -> Clamped(c, Clamped(c, b) + 1)
           [] sum < n * (c.goal - Margin) -> Clamped(c, Clamped(c, b) - 1)
           [] OTHER -> Clamped(c, b)

Adaptive == req.config.bmax > 0 /\ req.config.window > 0

(* Record the acceptance of a round that committed n more bytes in the     *)
(* ring, and adapt to the average of the ring.                             *)
Acceptance(n) == IF n > Len(draft) THEN Unit ELSE (n * Unit) \div Len(draft)
AdvancesFirst(acc) ==
    IF Len(hist) < req.config.window THEN Append(hist, acc)
    ELSE [hist EXCEPT ![((histPos + 1) % req.config.window) + 1] = acc]
Recorded(acc) == IF Len(hist) < req.config.window THEN Append(hist, acc)
                 ELSE [hist EXCEPT ![histPos + 1] = acc]
Total(h) == FoldFunction(+, 0, h)
Adapt(n) ==
    IF Adaptive
    THEN /\ hist' = Recorded(Acceptance(n))
         /\ histPos' = (histPos + 1) % req.config.window
         /\ curB' = AdaptB(req.config, curB, Total(hist'), Len(hist'))
    ELSE UNCHANGED <<curB, hist, histPos>>

(* BLT-DV: verify the candidate, commit what the verifier grants, adapt.   *)
Candidate == out \o draft
Verdict ==
    IF req.config.aligned
    THEN [bytes |-> VerifiedAligned(req.em, req.verifier, Candidate, l, req.target),
          accepted |-> AcceptedAligned(req.em, req.verifier, Candidate, l)]
    ELSE [bytes |-> Verified(req.em, req.verifier, Candidate, l, req.target),
          accepted |-> Matched(req.em, req.verifier, Candidate, l) - l]

Verify ==
    /\ pc = "verify" /\ req.config.verify
    /\ Encodable(Candidate)
    /\ LET v == Verdict
       IN  /\ l < Len(v.bytes)
           /\ out' = v.bytes
           /\ stats' = Counted(1, 1, 0, v.accepted, 0)
           /\ Adapt(Len(v.bytes) - l)
           /\ rounds' = Append(rounds, [gained |-> Len(v.bytes) - l, block |-> Len(draft)])
    /\ draft' = <<>>
    /\ pc' = "round"
    /\ UNCHANGED req

Finish == /\ pc = "round" /\ ~Unfinished
          /\ pc' = "done"
          /\ UNCHANGED <<req, out, curB, hist, histPos, draft, stats, rounds>>

(* A BLT_REQUIRE fails and the process exits.                              *)
Abort == /\ \/ pc = "round" /\ Unfinished /\ ~Encodable(out)
            \/ pc = "round" /\ Unfinished /\ StartsHere /\ ~DraftFits
            \/ /\ pc = "verify" /\ req.config.verify
               /\ ~(Encodable(Candidate) /\ l < Len(Verdict.bytes))
         /\ pc' = "abort"
         /\ UNCHANGED <<req, out, curB, hist, histPos, draft, stats, rounds>>

Return == pc \in {"done", "abort"} /\ UNCHANGED vars

Next == ArByte \/ DraftBlock \/ AcceptDraft \/ Verify \/ Finish \/ Abort \/ Return

(* The loop runs on one thread and nothing in it waits.                    *)
Fairness == []<>(pc \in {"done", "abort"}) \/ []<><<Next>>_vars

Spec == Init /\ [][Next]_vars /\ Fairness
-----------------------------------------------------------------------------
(***************************************************************************)
(* Properties.                                                             *)
(***************************************************************************)
(* A call with at least two bytes of prompt and block sizes the mask fields *)
(* can hold trips no BLT_REQUIRE as long as its patches fit in the array:  *)
(* in particular no block, adapted or clamped, reaches past the model.     *)
FitsCapacity == /\ Cardinality(Starts(req.em, Candidate)) <= MaxPatches
                /\ Len(req.prompt) >= 2
                /\ req.config.size <= MaxB /\ req.config.bmax <= MaxB
NoSpuriousAbort == pc = "abort" => ~FitsCapacity

(* Verified rounds, from the counters alone.                               *)
Rounds == (stats.enc - stats.ar) \div 2

(* Between rounds the counters explain the bytes: all of them for BLT-D;   *)
(* for BLT-DV an AR byte, an accepted byte or the one correction or free   *)
(* byte a round adds, except that the aligned verifier commits matching    *)
(* bytes it does not count.  No acceptance exceeds what was drafted, and   *)
(* the decoder runs at most once per drafted byte plus once per round.     *)
CommitAccounting ==
    /\ TypeOK
    /\ pc \in {"round", "done"} =>
        LET new == l - Len(req.prompt)
        IN  /\ stats.accepted <= stats.drafted
            /\ IF ~req.config.verify
               THEN new = stats.ar + stats.accepted /\ stats.dec <= stats.ar + stats.drafted
               ELSE /\ stats.ar + stats.accepted <= new
                    /\ ~req.config.aligned => new <= stats.ar + stats.accepted + Rounds
                    /\ stats.dec <= stats.ar + stats.drafted + Rounds

(* The acceptance history is that of the latest rounds: whatever the       *)
(* window, each of them has its share of the block, at most all of it, in  *)
(* the slot its number gives, so the next slot to overwrite holds the      *)
(* oldest; and the block size enters its range at the first adaptation and *)
(* stays there.                                                            *)
Rate(r) == Min({Unit, (r.gained * Unit) \div r.block})
SlotOf(k) == ((k - 1) % req.config.window) + 1
InRange(b) == Floor(req.config) <= b /\ b <= req.config.bmax
HistoryIsRecent ==
    pc \in {"round", "done"} /\ req.config.verify /\ Adaptive =>
        LET n == Len(rounds)
        IN  /\ Len(hist) = Min({n, req.config.window})
            /\ \A k \in 1..n : k + req.config.window > n => hist[SlotOf(k)] = Rate(rounds[k])
            /\ histPos = n % req.config.window
            /\ n > 0 /\ req.config.bmin <= req.config.bmax => InRange(curB)

(* The call returns exactly the bytes asked for, unless it aborts.         *)
Termination == <>(pc = "abort" \/ (pc = "done" /\ l = req.target))

(* BLT-DV implements the abstract commit step: after a closed patch the    *)
(* verifier's greedy byte, mid-patch the drafter's or the verifier's.      *)
(* With one model that is greedy decoding, from the first byte on.         *)
Call == [model : Models, verifier : Models, verify : BOOLEAN]
CallAllowed(e, c, x) ==
    IF ~c.verify THEN Byte
    ELSE IF Closed(e, x) THEN {NextByte(e, c.verifier, x)}
    ELSE {NextByte(e, c.verifier, x), NextByte(e, c.model, x)}
Greedy == INSTANCE GreedyDecode
            WITH Models <- Call, Allowed <- CallAllowed, em <- req.em, target <- req.target,
                 model <- [model |-> req.model, verifier |-> req.verifier,
                           verify |-> req.config.verify]
ImplementsGreedy == Greedy!Spec
=============================================================================
