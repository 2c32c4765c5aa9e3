---------------------------- MODULE MaskBuilder ----------------------------
(***************************************************************************)
(* Attention masks, built by loops on the host and by one thread per cell  *)
(* on the device.  A mask maps each query row to the keys it may attend.   *)
(*                                                                         *)
(* An attention mask is configured by [q, kv, causal, window, bounds,      *)
(* docs, queryGroups, kvGroups]: the lengths, the sliding window (0 for    *)
(* full), the first positions of documents 1..docs - 1, and the group of   *)
(* each row; <<>> stands for a NULL array.  No caller shifts the causal    *)
(* diagonal, and every caller that groups rows lets them see both ways.    *)
(* A block-diffusion mask is configured by [rows, clean, block, infer,     *)
(* starts].                                                                *)
(***************************************************************************)
EXTENDS Naturals, Sequences, FiniteSetsExt

Distance(i, j) == IF i > j THEN i - j ELSE j - i
Causal(c, i, j) == c.causal => j <= i
InWindow(c, i, j) == c.window = 0 \/ Distance(i, j) < c.window
SameGroup(c, i, j) ==
    c.queryGroups # <<>> /\ c.kvGroups # <<>> => c.queryGroups[i] = c.kvGroups[j]
HasDocs(c) == c.bounds # <<>> /\ c.docs > 0

(* The host numbers the documents along the row.                           *)
PrecomputeDocIds(c, len) ==
    LET id[p \in 0..(len - 1)] ==
            LET last == IF p = 0 THEN 0 ELSE id[p - 1]
            IN  Min({n \in last..c.docs : n + 1 >= c.docs \/ p < c.bounds[n + 1]})
    IN  id

AttentionMask(c) ==
    LET queryDoc == IF HasDocs(c) THEN PrecomputeDocIds(c, c.q) ELSE <<>>
        kvDoc == IF HasDocs(c) THEN PrecomputeDocIds(c, c.kv) ELSE <<>>
    IN  [i \in 0..(c.q - 1) |-> {j \in 0..(c.kv - 1) :
            /\ Causal(c, i, j) /\ InWindow(c, i, j) /\ SameGroup(c, i, j)
            /\ HasDocs(c) => queryDoc[i] = kvDoc[j]}]

(* A device thread scans the boundaries for its own row and key.           *)
DocumentAt(bounds, p) ==
    Cardinality({b \in DOMAIN bounds : \A a \in 1..b : p >= bounds[a]})

AttentionMaskKernel(c, bounds, idx) ==
    LET i == idx \div c.kv
        j == idx % c.kv
    IN  /\ Causal(c, i, j) /\ InWindow(c, i, j) /\ SameGroup(c, i, j)
        /\ bounds # <<>> => DocumentAt(bounds, i) = DocumentAt(bounds, j)

AttentionMaskCuda(c) ==
    LET bounds == IF HasDocs(c) THEN SubSeq(c.bounds, 1, c.docs - 1) ELSE <<>>
        cells == {idx \in 0..(c.q * c.kv - 1) : AttentionMaskKernel(c, bounds, idx)}
    IN  [i \in 0..(c.q - 1) |-> {idx % c.kv : idx \in {e \in cells : e \div c.kv = i}}]

(* The check that no query row is left without a key.                      *)
RowCheck(mask) == \A i \in DOMAIN mask : mask[i] # {}
-----------------------------------------------------------------------------
BlockDiffusionAccepts(c) ==
    /\ c.clean \in 1..c.rows
    /\ ~c.infer => /\ (c.rows - c.clean) % c.block = 0
                   /\ Len(c.starts) = (c.rows - c.clean) \div c.block
                   /\ \A b \in DOMAIN c.starts : c.starts[b] < c.clean

(* Figure 5: a clean row sees the clean rows up to itself; a training row  *)
(* the clean rows before its block and all of its block; a live row all.   *)
BlockDiffusionMask(c) ==
    LET Block(r) == (r - c.clean) \div c.block
        Keys(i) ==
            CASE i < c.clean -> 0..i
              [] i >= c.clean /\ c.infer -> 0..(c.rows - 1)
              [] i >= c.clean /\ ~c.infer ->
                    {j \in 0..(c.rows - 1) : \/ j < c.starts[Block(i) + 1]
                                             \/ j >= c.clean /\ Block(j) = Block(i)}
    IN  [i \in 0..(c.rows - 1) |-> Keys(i)]

BlockDiffusionMaskKernel(c, idx) ==
    LET i == idx \div c.rows
        j == idx % c.rows
        blk == (i - c.clean) \div c.block
    IN  IF i < c.clean THEN j < c.clean /\ j <= i
        ELSE \/ c.infer
             \/ j < c.starts[blk + 1]
             \/ j >= c.clean /\ (j - c.clean) \div c.block = blk

BlockDiffusionMaskCuda(c) ==
    LET cells == {idx \in 0..(c.rows * c.rows - 1) : BlockDiffusionMaskKernel(c, idx)}
    IN  [i \in 0..(c.rows - 1) |-> {idx % c.rows : idx \in {e \in cells : e \div c.rows = i}}]
=============================================================================
