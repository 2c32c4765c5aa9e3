------------------------------ MODULE GreedyLoop ------------------------------
(***************************************************************************)
(* Plain generation: one full forward pass per byte (generate_loop), whose *)
(* last row of logits is turned into a byte by argmax or by sampling       *)
(* (blt_decode_select).  With every knob off this is the greedy decoding   *)
(* the speculative loops are measured against.                             *)
(*                                                                         *)
(* The draw is any byte the random stream can lead to.  no_repeat_ngram    *)
(* turns sampling on and nothing else: the code collects the banned bytes  *)
(* and frees the table without reading it.                                 *)
(***************************************************************************)
EXTENDS Integers, Sequences, FiniteSetsExt

CONSTANTS Byte,           \* byte values, numbers
          EntropyModels,  \* entropy model and patcher configuration, together
          Models,         \* the encoder, global transformer and decoder
          Boundary(_, _), \* Boundary(e, x): a patch starts right after the bytes x
          Logits(_, _),   \* Logits(m, rows): the last row's logits, scaled to integers
          MaxLogit,       \* their largest absolute value: floats are bounded
          Mass(_, _),     \* Mass(o, gap): exp(-gap / temperature), scaled to an integer
          Prompts,        \* prompts, at least two bytes each
          MaxNew,         \* bound: largest max_new_bytes
          Options,        \* blt_decode_options; penalty num / den, top_p in Parts
          Parts,          \* a probability of 1.0
          MaxSeqLen,      \* max_seq_len
          MaxPatches,     \* BLT_GENERATE_MAX_PATCHES
          Recent          \* 256: how much history the repeat penalty looks at

ASSUME GreedyLoopAssumption ==
    /\ Byte \subseteq Nat /\ IsFiniteSet(Byte) /\ Byte # {}
    /\ \A p \in Prompts : p \in Seq(Byte) /\ Len(p) >= 2
    /\ MaxLogit \in Nat /\ MaxNew \in Nat /\ MaxSeqLen \in Nat /\ MaxPatches \in Nat \ {0} /\ Recent \in Nat
    /\ Parts \in Nat \ {0}
    /\ Options \subseteq [temperature : Nat, topP : 0..Parts, topK : Nat,
                          num : Nat \ {0}, den : Nat \ {0}, ngram : Nat]

(* argmax_byte: the first of the largest logits.                           *)
ArgmaxByte(row) == Min({b \in Byte : \A c \in Byte : row[c] <= row[b]})

Predict(m, rows) == ArgmaxByte(Logits(m, rows))
INSTANCE Decoding

(* Whatever a call can have committed, the network has finite logits for.  *)
NewBytes == UNION {[1..k -> Byte] : k \in 0..MaxNew}
Texts == UNION {{p \o t : t \in NewBytes} : p \in Prompts}

ASSUME NetworkAssumption ==
    \A m \in Models, e \in EntropyModels, x \in Texts :
        Logits(m, FullView(e, x, Len(x) - 1)) \in [Byte -> -MaxLogit..MaxLogit]

(* The exponential: positive at 0 and falling.  Penalised logits lie at    *)
(* most so far apart.                                                      *)
Widest(opt) == 2 * MaxLogit * (opt.num + opt.den) * (opt.num + opt.den)

ASSUME MassAssumption ==
    \A opt \in Options :
        /\ Mass(opt, 0) > 0
        /\ \A g \in 0..Widest(opt) : Mass(opt, g) \in Nat
        /\ \A g, h \in 0..Widest(opt) : g <= h => Mass(opt, h) <= Mass(opt, g)

VARIABLES req,    \* the call: em, model, prompt, target, options
          out,    \* output_bytes[0 .. cur_len)
          phase      \* "step", "done", "abort" (a BLT_REQUIRE)

genVars == <<req, out, phase>>

Request == [em : EntropyModels, model : Models, prompt : Prompts, target : Nat,
            options : Options]

GenTypeOK ==
    /\ req \in Request /\ req.target <= Len(req.prompt) + MaxNew
    /\ out \in Seq(Byte)
    /\ Len(req.prompt) <= Len(out) /\ Len(out) <= req.target
    /\ phase \in {"step", "done", "abort"}

GenInit ==
    /\ \E e \in EntropyModels, m \in Models, p \in Prompts, k \in 0..MaxNew, o \in Options :
          /\ req = [em |-> e, model |-> m, prompt |-> p, target |-> Len(p) + k, options |-> o]
          /\ out = p
    /\ phase = "step"
-----------------------------------------------------------------------------
l == Len(out)
o == req.options

Encodable == l <= MaxSeqLen /\ Cardinality(Starts(req.em, out)) <= MaxPatches

(* blt_decode_is_sampling: top_k alone does not turn sampling on.          *)
PenaltyOn == o.num # o.den
IsSampling == o.temperature > 0 \/ o.topP > 0 \/ PenaltyOn \/ o.ngram >= 2

(* The last row of the pass over the committed bytes.                      *)
OpenLastRow == Logits(req.model, View(req.em, out, FALSE, l - 1))
LastRow == Logits(req.model, FullView(req.em, out, l - 1))

(* The logits after the repeat penalty num / den, times num * den: a byte  *)
(* seen among the recent ones is divided by it, or multiplied if negative. *)
Seen == {out[i] : i \in {k \in 1..l : k > l - Recent}}
Penalised(row) ==
    [b \in Byte |-> CASE b \in Seen /\ row[b] > 0 -> row[b] * o.den * o.den
                      [] b \in Seen /\ row[b] <= 0 -> row[b] * o.num * o.num
                      [] OTHER -> row[b] * o.num * o.den]

(* The softmax over them, not normalised.                                  *)
Softmax(w) == [b \in Byte |-> Mass(o, Max({w[c] : c \in Byte}) - w[b])]
Masses == Softmax(Penalised(LastRow))
MassOf(p, cells) == MapThenSumSet(LAMBDA b : p[b], cells)

(* Top-k and top-p keep a prefix of the bytes in descending order of mass, *)
(* ties in the order of the bytes.                                         *)
Ahead(p, b) == {c \in Byte : p[c] > p[b] \/ (p[c] = p[b] /\ c < b)}
PastNucleus(p) ==
    {b \in Byte : MassOf(p, Ahead(p, b)) * Parts <= o.topP * MassOf(p, Byte)}
Nucleus(p) ==
    {b \in Byte : MassOf(p, Ahead(p, b)) * Parts < o.topP * MassOf(p, Byte)}
TopKOn == o.topK > 0 /\ o.topK < Cardinality(Byte)
TopPOn == o.topP > 0 /\ o.topP < Parts
Kept(p) ==
    {b \in Byte : /\ TopKOn => Cardinality(Ahead(p, b)) < o.topK
                  /\ TopPOn => b \in Nucleus(p)}

(* What can be drawn: a kept byte of some mass, or, when rounding leaves   *)
(* the accumulated mass below the random number, the last one in order.    *)
Drawable(p) ==
    LET last == IF TopKOn \/ TopPOn
                THEN CHOOSE b \in Kept(p) : \A c \in Kept(p) : c = b \/ c \in Ahead(p, b)
                ELSE Max(Byte)
    IN  {b \in Kept(p) : p[b] > 0} \cup {last}

DecodeSelect == IF IsSampling THEN Drawable(Masses) ELSE {ArgmaxByte(LastRow)}

(* while (cur_len < target_len)                                            *)
Unfinished == l < req.target

Step ==
    /\ phase = "step" /\ Unfinished
    /\ Encodable
    /\ \E b \in DecodeSelect : out' = Append(out, b)
    /\ UNCHANGED <<req, phase>>

Finish == /\ phase = "step" /\ ~Unfinished
          /\ phase' = "done"
          /\ UNCHANGED <<req, out>>

Abort == /\ phase = "step" /\ Unfinished /\ ~Encodable
         /\ phase' = "abort"
         /\ UNCHANGED <<req, out>>

Over == phase \in {"done", "abort"} /\ UNCHANGED genVars

GenNext == Step \/ Finish \/ Abort \/ Over

GenSpec == GenInit /\ [][GenNext]_genVars
-----------------------------------------------------------------------------
(***************************************************************************)
(* Properties.                                                             *)
(***************************************************************************)
(* With every knob off, and with top_k alone, each byte is the one a       *)
(* forward pass predicts, from the first byte on.                          *)
Plain == req.options.temperature = 0 /\ req.options.topP = 0 /\ req.options.ngram < 2
         /\ req.options.num = req.options.den
Call == [model : Models, plain : BOOLEAN]
CallAllowed(e, c, x) == IF c.plain THEN {NextByte(e, c.model, x)} ELSE Byte
Greedy == INSTANCE GreedyDecode
            WITH Models <- Call, Allowed <- CallAllowed, em <- req.em, target <- req.target,
                 model <- [model |-> req.model, plain |-> Plain]
ImplementsGreedy == Greedy!Spec

(* The nucleus is what decode_select.h promises: it reaches top_p of the   *)
(* mass, and no smaller set of bytes does.                                 *)
NucleusIsSmallest ==
    phase = "step" /\ IsSampling /\ TopPOn =>
        LET p == Masses
            needed == o.topP * MassOf(p, Byte)
        IN  /\ MassOf(p, Nucleus(p)) * Parts >= needed
            /\ \A T \in SUBSET Byte :
                  Cardinality(T) < Cardinality(Nucleus(p)) => MassOf(p, T) * Parts < needed

(* A repeat penalty of at least 1 never helps a byte already emitted, of   *)
(* whatever sign its logit is: no unseen byte with at least its logit      *)
(* becomes less likely than it.                                            *)
PenaltyNeverHelps ==
    phase = "step" /\ IsSampling /\ o.num >= o.den =>
        LET p == Masses
        IN  \A u \in Seen, v \in Byte \ Seen : LastRow[u] <= LastRow[v] => p[u] <= p[v]

(* What decode_select.h promises of the knobs.                             *)
SamplingContract == GenTypeOK /\ NucleusIsSmallest /\ PenaltyNeverHelps
=============================================================================
