------------------------------ MODULE Decoding ------------------------------
(***************************************************************************)
(* One forward pass of the model, as far as the generation loops can tell  *)
(* passes apart: which bytes and which patch latents every decoder row     *)
(* read.  The numeric kernels are the CONSTANT operators Boundary and      *)
(* Predict, so everything below holds for every network.                   *)
(*                                                                         *)
(* Row q (counting from 0) of a causal decoder is determined by the rows   *)
(* up to it; each row by its encoder output, which depends on the bytes up *)
(* to q, and by its patch latent, which depends on the bytes that latent   *)
(* summarises.  A row is therefore tagged with those two prefixes.         *)
(***************************************************************************)
EXTENDS Segmentation

CONSTANTS Byte,             \* byte values
          EntropyModels,    \* entropy model and patcher configuration, together
          Models,           \* the encoder, global transformer and decoder
          Boundary(_, _),   \* Boundary(e, x): a patch starts right after the bytes x
          Predict(_, _)     \* Predict(m, rows): argmax of the last row's logits

ASSUME ByteAssumption == Byte # {}

(* blt_next_starts_patch on the whole of x; the scan agrees with it on     *)
(* every prefix of x (Patcher, PrefixDecidable).                           *)
Closed(e, x) == Boundary(e, x) # FALSE

Starts(e, x) == {0} \cup {i \in 1..(Len(x) - 1) : Closed(e, SubSeq(x, 1, i))}

(* The rows 0..p that a full forward pass over x computes (encoder, global *)
(* transformer, decoder), its last row told whether x is closed; and the   *)
(* byte row p predicts.                                                    *)
View(e, x, closed, p) ==
    LET S == Starts(e, x)
    IN  [k \in 1..(p + 1) |->
            [h |-> SubSeq(x, 1, k), o |-> SubSeq(x, 1, LatentEnd(S, Len(x), closed, k - 1))]]
FullView(e, x, p) == View(e, x, Closed(e, x), p)

Argmax(m, rows) == CHOOSE b \in Byte : Predict(m, rows) \in Byte => b = Predict(m, rows)

(* What greedy decoding appends to x.                                      *)
NextByte(e, m, x) == Argmax(m, FullView(e, x, Len(x) - 1))

(* Some patch of x is complete, so patch 0 no longer grows.                *)
FirstClosed(e, x) == \E i \in 1..Len(x) : Closed(e, SubSeq(x, 1, i))
=============================================================================
