------------------------------ MODULE BlockDraft ------------------------------
(***************************************************************************)
(* Drafting one diffusion block (blt_draft_block): start from a block of   *)
(* mask tokens, run the decoder, unmask the cells one of the two selection *)
(* rules picks, and repeat until the block is full or the passes run out.  *)
(*                                                                         *)
(* A pass may predict any byte with any confidence; scores are integers,   *)
(* of which only the order, the sums and the comparison with the threshold *)
(* matter.  A row of NaN logits scores 0 (row_analyze).                    *)
(***************************************************************************)
EXTENDS Integers, FiniteSetsExt

CONSTANTS ByteToken,    \* byte values
          Mask,         \* BLT_MASK_TOKEN_ID
          Sizes,        \* values of block_size, the clamped last block's included
          MaxB,         \* BLT_BLOCKGEN_MAX_B
          Scores,       \* p_max, or the marginal entropy, of a row
          Thresholds    \* alpha for confidence, gamma for the entropy bound

ASSUME BlockDraftAssumption ==
    /\ ByteToken # {} /\ Mask \notin ByteToken
    /\ MaxB \in Nat /\ Sizes \subseteq 1..MaxB
    /\ Scores \subseteq Nat /\ Scores # {} /\ Thresholds \subseteq Int

VARIABLES config,   \* block_size, strategy and threshold
          tokens,   \* the block; a cell is masked as long as it holds Mask
          left,     \* remaining_passes
          nfes,     \* decoder passes so far, the result
          pc        \* "pass", "return", "done", "abort" (a BLT_REQUIRE)

vars == <<config, tokens, left, nfes, pc>>

B == config.size
Cells == 1..B

TypeOK ==
    /\ config \in [size : Sizes, strategy : {"confidence", "eb"}, threshold : Thresholds]
    /\ tokens \in [Cells -> ByteToken \cup {Mask}]
    /\ left \in 0..B /\ nfes \in 0..B
    /\ pc \in {"pass", "return", "done", "abort"}

Passes == B

Init ==
    /\ config \in [size : Sizes, strategy : {"confidence", "eb"}, threshold : Thresholds]
    /\ tokens = [b \in Cells |-> Mask]
    /\ left = Passes /\ nfes = 0
    /\ pc = "pass"
-----------------------------------------------------------------------------
Masked == {b \in Cells : tokens[b] = Mask}

(* blt_unmask_select_confidence: every masked cell at or above alpha, else *)
(* the first of the most confident ones.                                   *)
Best(s, cells) ==
    {b \in cells : \A c \in cells : s[c] < s[b] \/ (s[c] = s[b] /\ b <= c)}
ConfidentOnly(s, cells) == {b \in cells : s[b] >= config.threshold}
SelectConfidence(s, cells) ==
    LET confident == {b \in cells : s[b] >= config.threshold}
    IN  IF confident # {} THEN confident ELSE Best(s, cells)

(* blt_unmask_select_eb: in ascending order of entropy, stable in the cell *)
(* number, the first cell and then the cells that keep the running sum     *)
(* within gamma.                                                           *)
UpTo(s, cells, b) == {c \in cells : s[c] < s[b] \/ (s[c] = s[b] /\ c <= b)}
Sum(s, cells) == MapThenSumSet(LAMBDA c : s[c], cells)
StrictlyWithin(s, cells) ==
    {b \in cells : UpTo(s, cells, b) = {b} \/ Sum(s, UpTo(s, cells, b)) < config.threshold}
SelectEB(s, cells) ==
    {b \in cells : UpTo(s, cells, b) = {b} \/ Sum(s, UpTo(s, cells, b)) <= config.threshold}

Select(s) == IF config.strategy = "confidence" THEN SelectConfidence(s, Masked)
             ELSE SelectEB(s, Masked)

(* One decoder pass: unmask the selected cells with their predictions.     *)
Pass ==
    /\ pc = "pass" /\ left > 0
    /\ \E s \in [Cells -> Scores], pred \in [Cells -> ByteToken] :
          tokens' = [b \in Cells |-> IF b \in Select(s) THEN pred[b] ELSE tokens[b]]
    /\ left' = left - 1 /\ nfes' = nfes + 1
    /\ pc' = IF left' = 0 \/ \A b \in Cells : tokens'[b] # Mask THEN "return" ELSE "pass"
    /\ UNCHANGED config

(* Only bytes may be handed to the caller.                                 *)
Return ==
    /\ pc = "return"
    /\ pc' = IF Masked = {} THEN "done" ELSE "abort"
    /\ UNCHANGED <<config, tokens, left, nfes>>

Returned == pc \in {"done", "abort"} /\ UNCHANGED vars

Next == Pass \/ Return \/ Returned

Spec == Init /\ [][Next]_vars
-----------------------------------------------------------------------------
(***************************************************************************)
(* Properties.                                                             *)
(***************************************************************************)
(* However the scores fall, no mask token survives the bounded loop: the   *)
(* block is all bytes after at least one and at most block_size passes.    *)
(* This is what BlockGen takes a draft to be.                              *)
DraftContract ==
    /\ TypeOK
    /\ pc # "abort"
    /\ pc = "done" => tokens \in [Cells -> ByteToken] /\ nfes \in 1..B

(* The entropy-bounded rule is optimal: it stays within gamma unless it    *)
(* takes a single cell, and no set of masked cells within gamma is larger. *)
EntropyBoundOptimal ==
    config.strategy = "eb" /\ pc = "pass" =>
        \A s \in [Cells -> Scores] :
            /\ Cardinality(Select(s)) > 1 => Sum(s, Select(s)) <= config.threshold
            /\ \A T \in SUBSET Masked :
                  Sum(s, T) <= config.threshold => Cardinality(T) <= Cardinality(Select(s))
=============================================================================
