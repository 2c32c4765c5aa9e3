------------------------------ MODULE Dataflow ------------------------------
(***************************************************************************)
(* Which inputs each row of the network reads, and which losses reach each *)
(* input back: one encoder / global / decoder pass, layer by layer forward *)
(* and in reverse order backward, for the plain model, for BLT-D training  *)
(* over corrupted blocks and for BLT-D inference over a live one.          *)
(*                                                                         *)
(* Rows: byte i of the sequence is row i.  Cell k of the block that starts *)
(* at byte s is row N + s * B + k, so (row - N) \div B names the block as  *)
(* it does in the mask builder.  A patch is named by its first byte.       *)
(* As an input, row i < N stands for the embeddings added in e_0 of byte   *)
(* i, a cell row for the token embedding D_0 puts there.                   *)
(*                                                                         *)
(* A backward pass runs its forward again before it goes back through the  *)
(* layers, with other code than the forward pass: "redo" holds what that   *)
(* second forward computed.                                                *)
(***************************************************************************)
EXTENDS Segmentation, TransformerLayer, MaskBuilder, HashNgram

CONSTANTS
    N,              \* bytes of the sequence (num_clean)
    B,              \* block_size
    EncLayers, GlobalLayers, DecLayers,
    Weights,        \* the weights of each layer of each stack
    Passes          \* the calls to examine, with the model they are made on

Bytes == 0..(N - 1)
CellRow(s, k) == N + s * B + k
Placement == {"NONE", "LAST", "FIRST", "ALL"}

(***************************************************************************)
(* "model" is blt_model_forward with its backward, "predict" the decoder's *)
(* forward alone, "train" and "infer" the diffusion decoder.               *)
(***************************************************************************)
Pass == [mode : {"model", "predict", "train", "infer"},
         starts : SUBSET Bytes,         \* first bytes of the patches, 0 among them
         docs : SUBSET Bytes,           \* first bytes of the documents, or none given
         ngram : Nat,                   \* size of the hashed n-grams, 0 for none
         encWindow : Nat, decWindow : Nat,      \* local_window, 0 for full
         encCross : Placement, decCross : Placement,
         closed : BOOLEAN,              \* trailing_closed
         learned : BOOLEAN,             \* D_0 mode LEARNED, or ZEROS
         targets : BOOLEAN,             \* N + 1 target bytes are given
         weighted : BOOLEAN]            \* loss_scale is not 0

ASSUME SizesAssumption ==
    /\ {N, B, EncLayers, GlobalLayers, DecLayers} \subseteq Nat \ {0}
    /\ Passes \subseteq Pass
    /\ \A q \in Passes :
          /\ 0 \in q.starts /\ q.docs \subseteq q.starts
          /\ q.docs # {} => 0 \in q.docs        \* byte 0 starts document zero

(* A weight matrix is a positive number: every output depends on every     *)
(* input.                                                                  *)
Parameters == {"norm1", "q", "k", "v", "proj", "norm2", "gate", "up", "down",
               "crossNorm", "crossQ", "crossK", "crossV", "crossProj"}
ASSUME WeightsAssumption ==
    /\ \A l \in 0..(EncLayers - 1) : Weights.encoder[l] \in [Parameters -> Nat \ {0}]
    /\ \A l \in 0..(GlobalLayers - 1) : Weights.global[l] \in [Parameters -> Nat \ {0}]
    /\ \A l \in 0..(DecLayers - 1) : Weights.decoder[l] \in [Parameters -> Nat \ {0}]

VARIABLES
    pass,           \* the call and the configuration of its model
    attends,        \* the masks of the call: the rows and patches each row attends
    masked,         \* cells holding the MASK token that count in L_mask
    loop, layer,    \* the loop running and its index
    h, p, o, d,     \* byte, patch, latent and decoder rows: what each depends on
    redo,           \* h, o and d as the backward passes recompute them
    gh, gp, gd,     \* their gradients: the losses that reach each
    ge              \* gradients of the inputs

call == <<pass, attends, masked>>
forward == <<h, p, o, d>>
passVars == <<call, loop, layer, forward, redo, gh, gp, gd, ge>>
-----------------------------------------------------------------------------
(* The blocks of a batch: training forms one at every patch start but the  *)
(* first, inference one past the prefix.                                   *)
BlockStarts == CASE pass.mode = "train" -> pass.starts \ {0}
                 [] pass.mode = "infer" -> {N}
                 [] OTHER -> {}
BlockRows == {CellRow(s, k) : s \in BlockStarts, k \in 0..(B - 1)}
Rows == Bytes \cup BlockRows

BlockOf(r) == (r - N) \div B
Position(r) == BlockOf(r) + ((r - N) % B)

(* cell_valid: a training cell past the sequence is padding.               *)
Valid(r) == pass.mode = "infer" \/ Position(r) < N
-----------------------------------------------------------------------------
(* Where the rotary embedding puts each row: a byte at its index, a cell   *)
(* at the byte it stands for, padding at the last byte, a patch at its     *)
(* number.                                                                 *)
RowAt == [r \in Rows |-> IF r < N THEN r ELSE IF Valid(r) THEN Position(r) ELSE N - 1]
PatchAt == [s \in pass.starts |-> Cardinality({t \in pass.starts : t < s})]

PatchOf(q) == PatchStart(pass.starts, q)
-----------------------------------------------------------------------------
(***************************************************************************)
(* The one patch whose latent a decoder row cross-attends: its own for the *)
(* last byte of a patch that is closed, else the patch before (the first   *)
(* patch for itself); a block reads the patch that ends where it starts.   *)
(***************************************************************************)
OwnLatent(r) ==             \* a plausible slip: every row reads its own patch
    PatchOf(IF r < N THEN r ELSE BlockOf(r) - 1)
LatentAtStart(r) ==         \* a plausible slip: a block reads the patch it starts
    LET s == PatchOf(IF r < N THEN r ELSE BlockOf(r))
        final == r >= N \/ r + 1 \in pass.starts \/ (pass.closed /\ r = N - 1)
    IN  IF final \/ s = 0 THEN s ELSE PatchOf(s - 1)
LatentOf(r) ==
    LET s == PatchOf(IF r < N THEN r ELSE BlockOf(r) - 1)
        final == r >= N \/ r + 1 \in pass.starts \/ (pass.closed /\ r = N - 1)
    IN  IF final \/ s = 0 THEN s ELSE PatchOf(s - 1)
-----------------------------------------------------------------------------
(***************************************************************************)
(* Masks.  A model is given the first byte of every document, a mask the   *)
(* boundaries after the first, in its own rows.                            *)
(***************************************************************************)
WithDocumentZero(bounds) == bounds      \* a plausible slip: the first entry is kept
MaskDocBoundaries(bounds) == IF Len(bounds) > 1 THEN Tail(bounds) ELSE bounds

\* Document and block starts are kept in order.
Ascending(S) == [k \in 1..Cardinality(S) |-> CHOOSE s \in S : Cardinality({t \in S : t < s}) = k - 1]
DocStarts == Ascending(pass.docs)
PatchBoundaries(bounds) == [n \in DOMAIN bounds |-> PatchAt[bounds[n]]]

CausalMask(len, window, bounds) ==
    [q |-> len, kv |-> len, causal |-> TRUE, window |-> window,
     bounds |-> MaskDocBoundaries(bounds), docs |-> Len(bounds),
     queryGroups |-> <<>>, kvGroups |-> <<>>]
GroupMask(queries, keys) ==
    [q |-> Cardinality(DOMAIN queries), kv |-> Cardinality(DOMAIN keys), causal |-> FALSE,
     window |-> 0, bounds |-> <<>>, docs |-> 0, queryGroups |-> queries, kvGroups |-> keys]

NumPatches == Cardinality(pass.starts)
PatchIds == [m \in 0..(NumPatches - 1) |-> m]
RowIndex(r) ==              \* blocks follow one another in the rows of a mask
    IF r < N THEN r ELSE N + Cardinality({s \in BlockStarts : s < BlockOf(r)}) * B + ((r - N) % B)

EncoderMask == CausalMask(N, pass.encWindow, DocStarts)
PoolMask == GroupMask(PatchIds, [i \in Bytes |-> PatchAt[PatchOf(i)]])
GlobalMask == CausalMask(NumPatches, 0, PatchBoundaries(DocStarts))
DecoderMask == CausalMask(N, pass.decWindow, DocStarts)
LatentMask ==
    GroupMask([i \in 0..(Cardinality(Rows) - 1) |->
                  PatchAt[LatentOf(CHOOSE r \in Rows : RowIndex(r) = i)]], PatchIds)
DiffusionMask ==
    [rows |-> Cardinality(Rows), clean |-> N, block |-> B, infer |-> pass.mode = "infer",
     starts |-> IF pass.mode = "infer" THEN <<>> ELSE Ascending(BlockStarts)]

Diffusion == pass.mode \in {"train", "infer"}

(* The rows and patches each row attends, by their names.                  *)
EncoderKeys == AttentionMask(EncoderMask)
PatchBytes ==
    LET mask == AttentionMask(PoolMask) IN [s \in pass.starts |-> mask[PatchAt[s]]]
PatchKeys ==
    LET mask == AttentionMask(GlobalMask)
        at == PatchAt
    IN  [s \in pass.starts |-> {t \in pass.starts : at[t] \in mask[at[s]]}]
DecoderKeys ==
    LET mask == IF Diffusion THEN BlockDiffusionMask(DiffusionMask) ELSE AttentionMask(DecoderMask)
    IN  [r \in Rows |-> {c \in Rows : RowIndex(c) \in mask[RowIndex(r)]}]
LatentKeys ==
    LET mask == AttentionMask(LatentMask)
    IN  [r \in Rows |-> {s \in pass.starts : PatchAt[s] \in mask[RowIndex(r)]}]
-----------------------------------------------------------------------------
(* blt_local_cross_attn_fires.                                             *)
Fires(placement, layers, l) ==
    \/ placement = "ALL"
    \/ placement = "LAST" /\ l + 1 = layers
    \/ placement = "FIRST" /\ l = 0
-----------------------------------------------------------------------------
Zero == [a \in Rows |-> 0]
Unit(r) == [Zero EXCEPT ![r] = 1]
Nothing(S) == [r \in S |-> Zero]

Up(layers, next) == IF layer + 1 < layers THEN layer' = layer + 1 /\ UNCHANGED loop
                                         ELSE layer' = 0 /\ loop' = next
Down(next, layers) == IF layer > 0 THEN layer' = layer - 1 /\ UNCHANGED loop
                                   ELSE layer' = layers - 1 /\ loop' = next
-----------------------------------------------------------------------------
(***************************************************************************)
(* Encoder: e_0 and the pooled patches; then in each layer the bytes, and  *)
(* the patches' cross-attention over what the bytes became.                *)
(***************************************************************************)
NgramScale == IF pass.ngram = 0 THEN 1 ELSE 2       \* stands for 1 / (tables + 1)

Embedded == [i \in Bytes |-> Times(NgramScale, Unit(i))]
Extent(s) == {i \in Bytes : PatchOf(i) = s}         \* its size stands for 1 / length
Pooled(x) == [s \in pass.starts |-> Times(Cardinality(Extent(s)), Sum(x, Extent(s)))]
PoolBackward(g) == [i \in Bytes |-> Times(Cardinality(Extent(PatchOf(i))), g[PatchOf(i)])]

EncoderCross(x, y, l) ==
    IF ~Fires(pass.encCross, EncLayers, l) THEN y
    ELSE LET w == Weights.encoder[l]
         IN  Add(y, CrossAttention(RmsnormForward(y, w.crossNorm), x, w, attends.pool))

EncoderAgain ==
    LET run[l \in 0..EncLayers] ==
            IF l = 0 THEN [h |-> Embedded, p |-> Pooled(Embedded)]
            ELSE LET last == run[l - 1]
                     x == LayerForwardCached(last.h, Weights.encoder[l - 1], attends.encoder, RowAt)
                 IN  [h |-> x, p |-> EncoderCross(x, last.p, l - 1)]
    IN  run[EncLayers].h

(***************************************************************************)
(* Global transformer, over patches.                                       *)
(***************************************************************************)
GlobalAgain ==
    LET run[l \in 0..GlobalLayers] ==
            IF l = 0 THEN p
            ELSE LayerForwardCached(run[l - 1], Weights.global[l - 1], attends.global, PatchAt)
    IN  run[GlobalLayers]

(***************************************************************************)
(* Decoder: D_0, then in each layer cross-attention to the latents and the *)
(* byte layer.  D_0 is h_final; a block row starts from an embedding or    *)
(* from zeros.                                                             *)
(***************************************************************************)
D0 == [r \in Rows |-> IF r < N THEN h[r] ELSE IF pass.learned THEN Unit(r) ELSE Zero]

DecoderCross(x, l) ==
    IF ~Fires(pass.decCross, DecLayers, l) THEN x
    ELSE LET w == Weights.decoder[l]
         IN  Add(x, CrossAttention(RmsnormForward(x, w.crossNorm), o, w, attends.latent))

DecoderAgain ==
    LET run[l \in 0..DecLayers] ==
            IF l = 0 THEN D0
            ELSE LayerForwardCached(DecoderCross(run[l - 1], l - 1), Weights.decoder[l - 1],
                                    attends.decoder, RowAt)
    IN  run[DecLayers]

(* The diffusion decoder has a self-attention and a layer of its own, the  *)
(* same forward and backward; positions are gathered row by row.           *)
DiffusionSelfAttention(x, w) ==
    LET q == RopeApply(Matmul(x, w.q), RowAt)
        k == RopeApply(Matmul(x, w.k), RowAt)
    IN  Matmul(HeadCore(q, k, Matmul(x, w.v), attends.decoder), w.proj)

DiffusionLayer(x, l) ==
    LET w == Weights.decoder[l]
        b == DecoderCross(x, l)
        resid1 == Add(b, DiffusionSelfAttention(RmsnormForward(b, w.norm1), w))
        normed2 == RmsnormForward(resid1, w.norm2)
        act == SwigluForward(Matmul(normed2, w.gate), Matmul(normed2, w.up))
    IN  Add(resid1, Matmul(act, w.down))

DiffusionAgain ==
    LET run[l \in 0..DecLayers] == IF l = 0 THEN D0 ELSE DiffusionLayer(run[l - 1], l - 1)
    IN  run[DecLayers]

DiffusionLayerBack(g, l) ==
    LET w == Weights.decoder[l]
        act == SwigluBackward(MatmulBackward(g, w.down))
        normed2 == Add(MatmulBackward(act.gate, w.gate), MatmulBackward(act.up, w.up))
        resid1 == Add(g, RmsnormBackward(normed2, w.norm2))
        combined == MatmulBackward(resid1, w.proj)
        q == RopeApplyBackward(HeadGradQ(combined, attends.decoder), RowAt)
        kv == HeadGradKV(combined, attends.decoder, Rows)
        k == RopeApplyBackward(kv, RowAt)
        normed1 == Add(Add(MatmulBackward(q, w.q), MatmulBackward(k, w.k)), MatmulBackward(kv, w.v))
    IN  Add(resid1, RmsnormBackward(normed1, w.norm1))

(* b = d + cross(norm(d)): the residual's gradient and the norm's.         *)
DecoderCrossBack(g, l) ==
    LET w == Weights.decoder[l]
    IN  Add(g, RmsnormBackward(CrossGradQuery(g, w, attends.latent), w.crossNorm))
-----------------------------------------------------------------------------
NoKeys(S) == [r \in S |-> {}]

PassInit ==
    /\ pass \in Passes
    /\ attends = [encoder |-> NoKeys(Bytes), pool |-> NoKeys(pass.starts),
                  global |-> NoKeys(pass.starts), decoder |-> NoKeys(Rows), latent |-> NoKeys(Rows)]
    /\ masked \in SUBSET {r \in BlockRows : Valid(r)}
    /\ loop = "embed" /\ layer = 0
    /\ h = Nothing(Bytes) /\ d = Nothing(Rows)
    /\ p = Nothing(pass.starts) /\ o = Nothing(pass.starts)
    /\ redo = [h |-> Nothing(Bytes), o |-> Nothing(pass.starts), d |-> Nothing(Rows)]
    /\ gh = Nothing(Bytes) /\ gp = Nothing(pass.starts) /\ gd = Nothing(Rows)
    /\ ge = Nothing(Rows)

(* Each part builds its masks from the call alone when it begins; here     *)
(* they are built together.                                                *)
Embed == /\ loop = "embed"
         /\ attends' = [encoder |-> EncoderKeys, pool |-> PatchBytes, global |-> PatchKeys,
                        decoder |-> DecoderKeys, latent |-> LatentKeys]
         /\ h' = Embedded
         /\ p' = Pooled(Embedded)
         /\ loop' = "encode"
         /\ UNCHANGED <<pass, masked, layer, o, d, redo, gh, gp, gd, ge>>

EncoderLayer ==
    /\ loop = "encode"
    /\ h' = TransformerForward(h, Weights.encoder[layer], attends.encoder, RowAt)
    /\ p' = EncoderCross(h', p, layer)
    /\ Up(EncLayers, "global")
    /\ UNCHANGED <<call, o, d, redo, gh, gp, gd, ge>>

GlobalLayer ==
    /\ loop = "global"
    /\ o' = TransformerForward(IF layer = 0 THEN p ELSE o, Weights.global[layer], attends.global, PatchAt)
    /\ Up(GlobalLayers, "d0")
    /\ UNCHANGED <<call, h, p, d, redo, gh, gp, gd, ge>>

BuildD0 ==
    /\ loop = "d0"
    /\ d' = D0
    /\ loop' = "decode"
    /\ UNCHANGED <<call, layer, h, p, o, redo, gh, gp, gd, ge>>

DecoderLayer ==
    /\ loop = "decode"
    /\ d' = IF Diffusion THEN DiffusionLayer(d, layer)
            ELSE TransformerForward(DecoderCross(d, layer), Weights.decoder[layer], attends.decoder, RowAt)
    /\ Up(DecLayers, IF pass.mode \in {"predict", "infer"} THEN "done" ELSE "loss")
    /\ UNCHANGED <<call, h, p, o, redo, gh, gp, gd, ge>>

(* The rows with a term in the loss: next-byte targets exist up to the     *)
(* last clean row only when the diffusion loss is given N + 1 of them.     *)
LossRows ==
    (Bytes \ IF pass.mode = "train" /\ pass.targets THEN {} ELSE {N - 1})
        \cup IF pass.weighted THEN masked ELSE {}

(* The decoder's backward pass begins: forward again, then the gradients   *)
(* of the loss.                                                            *)
Loss == /\ loop = "loss"
        /\ redo' = [redo EXCEPT !.d = IF Diffusion THEN DiffusionAgain ELSE DecoderAgain]
        /\ gd' = [r \in Rows |-> IF r \in LossRows THEN Unit(r) ELSE Zero]
        /\ loop' = "decodeBack" /\ layer' = DecLayers - 1
        /\ UNCHANGED <<call, forward, gh, gp, ge>>

DecoderBack ==
    /\ loop = "decodeBack"
    /\ LET b == IF Diffusion THEN DiffusionLayerBack(gd, layer)
                ELSE LayerBackward(gd, Weights.decoder[layer], attends.decoder, RowAt)
       IN  IF Fires(pass.decCross, DecLayers, layer)
           THEN /\ gd' = DecoderCrossBack(b, layer)
                /\ gp' = Add(gp, CrossGradKV(b, Weights.decoder[layer], attends.latent, pass.starts))
           ELSE gd' = b /\ UNCHANGED gp
    /\ Down("scatter", GlobalLayers)
    /\ UNCHANGED <<call, forward, redo, gh, ge>>

(* D_0's gradient goes back to h_final and to the token table; the global  *)
(* backward pass begins with its forward.                                  *)
ScatterD0 ==
    /\ loop = "scatter"
    /\ gh' = [i \in Bytes |-> gd[i]]
    /\ ge' = [r \in Rows |-> IF r \in BlockRows /\ pass.learned THEN gd[r] ELSE Zero]
    /\ redo' = [redo EXCEPT !.o = GlobalAgain]
    /\ loop' = "globalBack"
    /\ UNCHANGED <<call, layer, forward, gp, gd>>

GlobalBack ==
    /\ loop = "globalBack"
    /\ gp' = LayerBackward(gp, Weights.global[layer], attends.global, PatchAt)
    /\ IF layer = 0 THEN redo' = [redo EXCEPT !.h = EncoderAgain] ELSE UNCHANGED redo
    /\ Down("encodeBack", EncLayers)
    /\ UNCHANGED <<call, forward, gh, gd, ge>>

BytesBeforeCross(g, l) ==       \* a plausible slip: the two halves of a layer swapped
    LET w == Weights.encoder[l]
        x == LayerBackward(g, w, attends.encoder, RowAt)
    IN  IF Fires(pass.encCross, EncLayers, l) THEN Add(x, CrossGradKV(gp, w, attends.pool, Bytes)) ELSE x
EncoderLayerBack(g, l) ==
    LET w == Weights.encoder[l]
        x == IF Fires(pass.encCross, EncLayers, l) THEN Add(g, CrossGradKV(gp, w, attends.pool, Bytes)) ELSE g
    IN  LayerBackward(x, w, attends.encoder, RowAt)

EncoderBack ==
    /\ loop = "encodeBack"
    /\ gh' = EncoderLayerBack(gh, layer)
    /\ LET w == Weights.encoder[layer]
       IN  gp' = IF Fires(pass.encCross, EncLayers, layer)
                 THEN Add(gp, RmsnormBackward(CrossGradQuery(gp, w, attends.pool), w.crossNorm)) ELSE gp
    /\ Down("poolBack", 1)
    /\ UNCHANGED <<call, forward, redo, gd, ge>>

(* The pool's gradient joins the byte states' in e_0.                      *)
PoolBack ==
    /\ loop = "poolBack"
    /\ ge' = [r \in Rows |-> IF r < N THEN Times(NgramScale, Plus(gh[r], PoolBackward(gp)[r])) ELSE ge[r]]
    /\ loop' = "done"
    /\ UNCHANGED <<call, layer, forward, redo, gh, gp, gd>>

ReturnPass == loop = "done" /\ UNCHANGED passVars

PassNext ==
    \/ Embed \/ EncoderLayer \/ GlobalLayer \/ BuildD0 \/ DecoderLayer
    \/ Loss \/ DecoderBack \/ ScatterD0 \/ GlobalBack \/ EncoderBack \/ PoolBack
    \/ ReturnPass

PassSpec == PassInit /\ [][PassNext]_passVars
-----------------------------------------------------------------------------
(***************************************************************************)
(* Properties.                                                             *)
(***************************************************************************)
PassTypeOK ==
    /\ pass \in Passes /\ masked \subseteq BlockRows
    /\ attends.encoder \in [Bytes -> SUBSET Bytes] /\ attends.decoder \in [Rows -> SUBSET Rows]
    /\ attends.pool \in [pass.starts -> SUBSET Bytes]
    /\ attends.global \in [pass.starts -> SUBSET pass.starts]
    /\ attends.latent \in [Rows -> SUBSET pass.starts]
    /\ loop \in {"embed", "encode", "global", "d0", "decode", "loss", "decodeBack",
               "scatter", "globalBack", "encodeBack", "poolBack", "done"}
    /\ layer \in Nat
    /\ {h, redo.h, gh} \subseteq [Bytes -> [Rows -> 0..Modulus]]
    /\ {p, o, redo.o, gp} \subseteq [pass.starts -> [Rows -> 0..Modulus]]
    /\ {d, redo.d, gd, ge} \subseteq [Rows -> [Rows -> 0..Modulus]]

Reads(x) == {a \in Rows : x[a] > 0}

(* The bytes a row depends on: an e_0 row embeds its byte and hashes an    *)
(* n-gram, a cell holds a byte unless it is masked or padding.             *)
NgramBytes == [n \in 1..N |-> [i \in Bytes |-> BytesHashed(Buckets(n, N)[i])]]
Span(i) == {i} \cup IF pass.ngram \in 1..N THEN NgramBytes[pass.ngram][i] ELSE {}
BytesRead(x) == (UNION {Span(i) : i \in Reads(x) \cap Bytes})
                  \cup {Position(c) : c \in {e \in Reads(x) \cap BlockRows : Valid(e) /\ e \notin masked}}

OwnBlock(r) == {c \in BlockRows : BlockOf(c) = BlockOf(r)}
Called == loop = "embed" /\ masked = {}
Decoded == loop \in {"loss", "done"}

(* Training and inference give a block the same context: every byte before *)
(* the block, and of the block itself only the tokens it was not asked to  *)
(* predict.  No masked cell of any layout reaches its own target, and no   *)
(* block reaches the clean bytes that follow its start or another block.   *)
(* The device's mask is the host's.                                        *)
BlockReadsItsPrefix ==
    /\ Called /\ Diffusion =>
        /\ BlockDiffusionAccepts(DiffusionMask)
        /\ BlockDiffusionMaskCuda(DiffusionMask) = BlockDiffusionMask(DiffusionMask)
    /\ Decoded => \A r \in BlockRows :
        BytesRead(d[r]) = 0..(BlockOf(r) - 1) \cup
            {Position(c) : c \in {e \in OwnBlock(r) : pass.learned /\ Valid(e) /\ e \notin masked}}

(* A clean row never reads a byte after itself, through whatever windows,  *)
(* placements, pooling and n-grams; only the open rows of the first patch, *)
(* which read their own patch's latent, see to that patch's end.  Equal    *)
(* n-grams embed alike wherever they stand in the sequence.                *)
CleanCausal ==
    /\ Called /\ pass.ngram \in 1..N => SameFormEverywhere(pass.ngram, N)
    /\ Decoded => \A r \in Bytes :
        BytesRead(d[r]) \subseteq 0..Max({r, NextStart(pass.starts, N, 0) - 1})

(* With several documents in a sequence, no latent depends on another      *)
(* document's byte states, and no decoder row does when the decoder does   *)
(* not cross-attend (a row that does reads the latent before its own).     *)
(* Every mask of the pass is the same built on the device, and leaves no   *)
(* row without a key.                                                      *)
HostIsDevice(c) == AttentionMask(c) = AttentionMaskCuda(c) /\ RowCheck(AttentionMask(c))
DocumentsIsolated ==
    /\ Called =>
        /\ HostIsDevice(EncoderMask) /\ HostIsDevice(PoolMask) /\ HostIsDevice(GlobalMask)
        /\ HostIsDevice(DecoderMask) /\ HostIsDevice(LatentMask)
    /\ Decoded =>
        /\ \A s \in pass.starts : Reads(o[s]) \subseteq {i \in Bytes : \A b \in pass.docs : b <= i <=> b <= s}
        /\ pass.decCross = "NONE" /\ pass.mode \in {"model", "predict"} =>
             \A r \in Bytes : Reads(d[r]) \subseteq {i \in Bytes : \A b \in pass.docs : b <= i <=> b <= r}

(* The backward pass is the transpose of the forward pass: a loss reaches  *)
(* an input through exactly the weights by which its row reads it, each    *)
(* path once, whatever layers cross-attend and in whatever order gradients *)
(* add up; and it starts from rows equal to the forward pass's, which      *)
(* other code computes.                                                    *)
GradientFollowsReads ==
    /\ PassTypeOK
    /\ loop = "done" /\ pass.mode \in {"model", "train"} =>
        /\ redo = [h |-> h, o |-> o, d |-> d]
        /\ \A a \in Rows : ge[a] = [r \in Rows |-> IF r \in LossRows THEN d[r][a] ELSE 0]
=============================================================================
