------------------------------ MODULE SelfSpec ------------------------------
(***************************************************************************)
(* BLT-S, self-speculative greedy generation: each round re-segments the   *)
(* committed bytes, brings the two-tier KV cache up to date, drafts a      *)
(* window of bytes against frozen latents, and verifies the window with    *)
(* one full forward pass (blt_generate_greedy_selfspec, blt_verify_draft,  *)
(* kv_cache.c).  blt_verify_draft_certified only calls blt_verify_draft.   *)
(*                                                                         *)
(* A drafted byte past the first is any byte: its row reads a zero or a    *)
(* learned embedding no property depends on.                               *)
(* Tier 1 is only truncated and appended to, so a kept row was computed    *)
(* from the rows still before it.                                          *)
(***************************************************************************)
EXTENDS Verification

CONSTANTS Prompts,      \* prompts, at least two bytes each
          MaxNew,       \* bound: largest max_new_bytes
          Windows,      \* values of window_k
          MaxSeqLen,    \* the decoder's max_seq_len, the KV cache's capacity in rows
          SplitFactor,  \* patch_dim / embed_dim, tier-2 rows per patch
          MaxPatches    \* BLT_SELFSPEC_MAX_PATCHES

ASSUME SelfSpecAssumption ==
    /\ \A p \in Prompts : p \in Seq(Byte) /\ Len(p) >= 2
    /\ MaxNew \in Nat /\ MaxSeqLen \in Nat /\ SplitFactor \in Nat \ {0}
    /\ \A w \in Windows : w \in Nat /\ w >= 1
    /\ MaxPatches \in Nat \ {0}

VARIABLES req,      \* the call: em, model, prompt, target, window
          out,      \* output_bytes[0 .. l), the committed bytes
          r,        \* r_eff, this round's window
          starts,   \* patches[] of the committed bytes, this round's
          rows,     \* tier 1: the decoder rows behind K/V [0, self_len)
          cross,    \* tier 2: cached_patches, each with the bytes its K/V summarise
          draft,    \* the drafted bytes
          pc,       \* "round", "cache", "prefill", "draft", "verify", "done", "abort"
          stats     \* blt_infer_stats

vars == <<req, out, r, starts, rows, cross, draft, pc, stats>>

Row == [h : Seq(Byte), o : Seq(Byte)]
CachedPatch == [start : Nat, end : Nat, o : Seq(Byte)]
Request == [em : EntropyModels, model : Models, prompt : Prompts, target : Nat, window : Windows]

TypeOK ==
    /\ req \in Request /\ req.target <= Len(req.prompt) + MaxNew
    /\ out \in Seq(Byte)
    /\ Len(req.prompt) <= Len(out) /\ Len(out) <= req.target
    /\ r \in Nat /\ r <= req.window
    /\ starts \subseteq Nat
    /\ rows \in Seq(Row)
    /\ cross \subseteq CachedPatch
    /\ draft \in Seq(Byte)
    /\ pc \in {"round", "cache", "prefill", "draft", "verify", "done", "abort"}
    /\ stats \in [enc : Nat, dec : Nat, drafted : Nat, accepted : Nat]

Init ==
    /\ \E e \in EntropyModels, m \in Models, p \in Prompts, k \in 0..MaxNew, w \in Windows :
          /\ req = [em |-> e, model |-> m, prompt |-> p, target |-> Len(p) + k, window |-> w]
          /\ out = p
    /\ r = 0 /\ starts = {} /\ rows = <<>> /\ cross = {} /\ draft = <<>>
    /\ pc = "round"
    /\ stats = [enc |-> 0, dec |-> 0, drafted |-> 0, accepted |-> 0]
-----------------------------------------------------------------------------
l == Len(out)
PatchEnd(s) == NextStart(starts, l, s)
TierTwo(s) == [start |-> s, end |-> PatchEnd(s), o |-> SubSeq(out, 1, PatchEnd(s))]

(* The window leaves room for the verifier's free byte: l + r + 1 <= target. *)
WindowAllOrNothing == IF l + req.window + 1 > req.target THEN 0 ELSE req.window
Window == IF l + req.window + 1 > req.target THEN req.target - l - 1 ELSE req.window

(* The encoder takes x: it fits, and its patches tile it, which the patcher *)
(* grants as long as they fit in the array.                                *)
Encodable(x) == Len(x) <= MaxSeqLen /\ Cardinality(Starts(req.em, x)) <= MaxPatches

(* The counters after so many more encodings, decodings, drafted and       *)
(* accepted bytes.                                                         *)
Counted(enc, dec, drafted, accepted) ==
    [enc |-> stats.enc + enc, dec |-> stats.dec + dec,
     drafted |-> stats.drafted + drafted, accepted |-> stats.accepted + accepted]

(* Steps 1 and 2 of a round: segment the committed bytes and freeze their  *)
(* latents.                                                                *)
Segment ==
    /\ pc = "round" /\ l < req.target
    /\ Encodable(out)
    /\ r' = Window
    /\ starts' = Starts(req.em, out)
    /\ stats' = Counted(1, 0, 0, 0)
    /\ pc' = "cache"
    /\ UNCHANGED <<req, out, rows, cross, draft>>

(* Patches cached with the boundaries they have now, all patches before    *)
(* them too; and how many bytes they cover.                                *)
SameStart(s) == \E c \in cross : c.start = s
Cached(s) == \E c \in cross : c.start = s /\ c.end = PatchEnd(s)
Common == {s \in starts : \A t \in starts : t <= s => Cached(t)}
SelfValid == Max({0} \cup {PatchEnd(s) : s \in Common})

(* Step 3: keep the rows and patches of the common prefix, recompute the   *)
(* other patches' keys and values from this round's latents.               *)
KeepsRows == SubSeq(rows, 1, IF Len(rows) < l THEN Len(rows) ELSE l - 1)
KeptRows == SubSeq(rows, 1, SelfValid)
MaintainCache ==
    /\ pc = "cache"
    /\ Common # starts
    /\ SplitFactor * Cardinality(starts) <= MaxSeqLen
    /\ rows' = KeptRows
    /\ cross' = {c \in cross : c.start \in Common} \cup {TierTwo(s) : s \in starts \ Common}
    /\ pc' = "prefill"
    /\ UNCHANGED <<req, out, r, starts, draft, stats>>

(* The latent row q reads, out of the cache.                               *)
OpenLatent(q) == (CHOOSE c \in cross : c.end = LatentEnd(starts, l, FALSE, q)).o
Latent(q) == (CHOOSE c \in cross : c.end = LatentEnd(starts, l, Closed(req.em, out), q)).o

(* Step 4: decode the committed rows the cache lacks, written through to   *)
(* tier 1; the last one predicts the byte at l.                            *)
Chunk == [k \in 1..(l - Len(rows)) |->
            [h |-> SubSeq(out, 1, Len(rows) + k), o |-> Latent(Len(rows) + k - 1)]]
Prefilled == rows \o Chunk
NextDraft == Argmax(req.model, Prefilled)

Prefill ==
    /\ pc = "prefill"
    /\ Len(rows) < l
    /\ rows' = Prefilled
    /\ UNCHANGED <<req, r, starts, cross>>
    /\ \/ /\ r = 0                      \* one byte left: a plain AR step
          /\ out' = Append(out, NextDraft)
          /\ stats' = Counted(0, 1, 0, 0)
          /\ pc' = "done"
          /\ UNCHANGED draft
       \/ /\ r > 0
          /\ draft' = <<NextDraft>>
          /\ stats' = Counted(0, 1, 1, 0)
          /\ pc' = IF r > 1 THEN "draft" ELSE "verify"
          /\ UNCHANGED out

(* Step 5: one row past the committed bytes per drafted byte.              *)
DraftStep ==
    /\ pc = "draft"
    /\ Len(rows) = l + Len(draft) - 1
    /\ Len(rows) < MaxSeqLen
    /\ rows' = Append(rows, [h |-> <<>>, o |-> Latent(Len(rows))])
    /\ \E b \in Byte : draft' = Append(draft, b)
    /\ stats' = Counted(0, 1, 1, 0)
    /\ pc' = IF Len(draft) + 1 < r THEN "draft" ELSE "verify"
    /\ UNCHANGED <<req, out, r, starts, cross>>

(* Step 6, blt_verify_draft: one full pass over the candidate, which       *)
(* commits its own predictions, the drafted bytes as far as they agree.    *)
CountsWholeDraft(a) == Counted(1, 1, 0, Len(draft))
Accepted(a) == Counted(1, 1, 0, a)

Verify ==
    LET x == out \o draft
    IN  /\ pc = "verify"
        /\ Encodable(x)
        /\ out' = Verified(req.em, req.model, x, l, req.target)
        /\ stats' = Accepted(Matched(req.em, req.model, x, l) - l)
        /\ draft' = <<>>
        /\ pc' = "round"
        /\ UNCHANGED <<req, r, starts, rows, cross>>

Finish == /\ pc = "round" /\ l >= req.target
          /\ pc' = "done"
          /\ UNCHANGED <<req, out, r, starts, rows, cross, draft, stats>>

(* A BLT_REQUIRE fails and the process exits.                              *)
Abort == /\ \/ pc = "round" /\ l < req.target /\ ~Encodable(out)
            \/ pc = "cache" /\ (Common = starts \/ SplitFactor * Cardinality(starts) > MaxSeqLen)
            \/ pc = "prefill" /\ Len(rows) >= l
            \/ pc = "draft" /\ (Len(rows) # l + Len(draft) - 1 \/ Len(rows) >= MaxSeqLen)
            \/ pc = "verify" /\ ~Encodable(out \o draft)
         /\ pc' = "abort"
         /\ UNCHANGED <<req, out, r, starts, rows, cross, draft, stats>>

Return == pc \in {"done", "abort"} /\ UNCHANGED vars

Next == Segment \/ MaintainCache \/ Prefill \/ DraftStep \/ Verify \/ Finish \/ Abort \/ Return

(* The loop runs on one thread and nothing in it waits: it keeps stepping  *)
(* until it returns.  This is WF_vars(Next) with the condition that says   *)
(* when a step is enabled written out, for TLC's sake.                     *)
Fairness == []<>(pc \in {"done", "abort"}) \/ []<><<Next>>_vars

Spec == Init /\ [][Next]_vars /\ Fairness
-----------------------------------------------------------------------------
(***************************************************************************)
(* Properties.                                                             *)
(***************************************************************************)
GreedyByte(i) == out[i] = NextByte(req.em, req.model, SubSeq(out, 1, i - 1))
NewBytes == (Len(req.prompt) + 1)..l

(* Every byte committed after the first patch has closed is the byte plain *)
(* greedy decoding appends to the bytes before it, whatever was drafted.   *)
GreedyOnceFirstPatchClosed ==
    \A i \in NewBytes : FirstClosed(req.em, SubSeq(out, 1, i - 1)) => GreedyByte(i)

(* The cache's validity invariant (kv_cache.h:25): reusing an entry is the *)
(* same as recomputing it.  After the refresh tier 2 holds exactly this    *)
(* round's patches and their latents, and after the chunk is decoded tier  *)
(* 1 holds the rows a full pass over the committed bytes computes; what    *)
(* drafts of earlier rounds wrote is gone.                                 *)
CacheFaithful ==
    /\ pc \in {"prefill", "draft", "verify"} => cross = {TierTwo(s) : s \in starts}
    /\ pc \in {"draft", "verify"} => SubSeq(rows, 1, l) = FullView(req.em, out, l - 1)

(* A call that fits the model and the patch arrays trips no BLT_REQUIRE.   *)
FitsCapacity == /\ req.target <= MaxSeqLen /\ req.target <= MaxPatches
                /\ SplitFactor * Cardinality(starts) <= MaxSeqLen
NoSpuriousAbort == pc = "abort" => ~FitsCapacity

(* Between rounds the counters agree with the bytes: no more drafted bytes  *)
(* were accepted than were drafted, nor more than were committed; all but  *)
(* at most one byte of each round (its correction, free byte or AR byte)   *)
(* are accepted ones; and decoder passes are one per drafted byte plus one *)
(* per round.  Whether the correction counts as accepted is left open.     *)
CommitAccounting ==
    /\ TypeOK
    /\ pc \in {"round", "done"} =>
        LET rounds == (stats.enc + 1) \div 2
        IN  /\ stats.accepted <= stats.drafted
            /\ l - Len(req.prompt) \in stats.accepted..(stats.accepted + rounds)
            /\ stats.dec = stats.drafted + rounds

(* stats.h:19: the accepted bytes are the committed bytes from drafting,   *)
(* forced progress included.  So a verification that commits within the    *)
(* draft, its last byte the correction of a rejected one, accepts all it   *)
(* commits.  The plain verifier counts only the bytes before the           *)
(* correction (self_speculation.c:166).                                    *)
ForcedProgressCounted ==
    [][(pc = "verify" /\ pc' = "round" /\ Len(out') <= l + Len(draft))
          => stats'.accepted - stats.accepted = Len(out') - l]_vars

(* The first draft byte is never rejected once the first patch is closed:  *)
(* the incremental decoder and the full forward pass agree on it, so every *)
(* verification commits at least two bytes.                                *)
FirstDraftAccepted ==
    [][(pc = "verify" /\ pc' = "round" /\ FirstClosed(req.em, out)) => Len(out') >= l + 2]_vars

(* The call returns exactly the bytes asked for, unless it aborts.         *)
Termination == <>(pc = "abort" \/ (pc = "done" /\ l = req.target))

(* Rounds implement the abstract commit step.                              *)
LooseAllowed(e, m, x) == IF FirstClosed(e, x) THEN {NextByte(e, m, x)} ELSE Byte
Greedy == INSTANCE GreedyDecode
            WITH Allowed <- LooseAllowed, em <- req.em, model <- req.model, target <- req.target
ImplementsGreedy == Greedy!Spec
=============================================================================
