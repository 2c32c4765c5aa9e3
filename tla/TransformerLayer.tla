-------------------------- MODULE TransformerLayer --------------------------
(***************************************************************************)
(* The layers of the network, forward and backward, as linear maps of      *)
(* rows.  A row holds one number for each input, a weight matrix is a      *)
(* positive number of its own, a norm and a rotation multiply a row, the   *)
(* gated activation adds its branches, and a head adds a row's query and   *)
(* the keys and values of the rows it attends: one head of the several,    *)
(* which share their mask, and one subtoken of a patch (patch_dim and      *)
(* embed_dim are equal).  What is left of a backward pass is which weight  *)
(* each gradient is multiplied by and where it is added.                   *)
(***************************************************************************)
EXTENDS Naturals, FiniteSetsExt, Folds

CONSTANT Modulus            \* numbers are kept below it

ASSUME ModulusAssumption == Modulus \in Nat \ {0}

(* Nothing is lost but size: a sum is 0 only when all it adds is 0.        *)
Reduce(n) == IF n = 0 THEN 0 ELSE 1 + ((n - 1) % Modulus)

Times(c, u) == [a \in DOMAIN u |-> Reduce(c * u[a])]
Plus(u, v) == [a \in DOMAIN u |-> Reduce(u[a] + v[a])]

Sum(x, S) ==
    LET none == [a \in DOMAIN x[CHOOSE r \in DOMAIN x : TRUE] |-> 0]
    IN  MapThenFoldSet(Plus, none, LAMBDA r : x[r], LAMBDA T : CHOOSE r \in T : TRUE, S)

Add(x, y) == [r \in DOMAIN x |-> Plus(x[r], y[r])]

(* Each operation of a forward pass and the gradient of its input.         *)
Matmul(x, w) == [r \in DOMAIN x |-> Times(w, x[r])]
MatmulBackward(g, w) == [r \in DOMAIN g |-> Times(w, g[r])]

RmsnormForward(x, w) == [r \in DOMAIN x |-> Times(w, x[r])]
RmsnormBackward(g, w) == [r \in DOMAIN g |-> Times(w, g[r])]
RmsnormBackwardAdd(a, b, w) == RmsnormBackward(Add(a, b), w)

RopeApply(x, at) == [r \in DOMAIN x |-> Times(at[r] + 1, x[r])]
RopeApplyBackward(g, at) == [r \in DOMAIN g |-> Times(at[r] + 1, g[r])]

SwigluForward(gate, up) == Add(gate, up)
SwigluBackward(g) == [gate |-> g, up |-> g]
-----------------------------------------------------------------------------
(* keys[r] is the set of rows that row r attends under its mask.           *)
HeadCore(q, k, v, keys) ==
    LET kv == Add(k, v)
    IN  [r \in DOMAIN q |-> Plus(Times(Cardinality(keys[r]), q[r]), Sum(kv, keys[r]))]

HeadGradQ(g, keys) == [r \in DOMAIN g |-> Times(Cardinality(keys[r]), g[r])]

HeadGradKV(g, keys, rows) == [j \in rows |-> Sum(g, {r \in DOMAIN g : j \in keys[r]})]

MultiheadAttention(x, w, keys, at) ==
    LET q == RopeApply(Matmul(x, w.q), at)
        k == RopeApply(Matmul(x, w.k), at)
    IN  Matmul(HeadCore(q, k, Matmul(x, w.v), keys), w.proj)

MultiheadAttentionBackward(g, w, keys, at) ==
    LET combined == MatmulBackward(g, w.proj)
        kv == HeadGradKV(combined, keys, DOMAIN g)
        q == RopeApplyBackward(HeadGradQ(combined, keys), at)
        k == RopeApplyBackward(kv, at)
    IN  Add(Add(MatmulBackward(q, w.q), MatmulBackward(k, w.k)), MatmulBackward(kv, w.v))

(* Cross-attention has no positions; keys and values come from kv.         *)
CrossAttention(query, kv, w, keys) ==
    Matmul(HeadCore(Matmul(query, w.crossQ), Matmul(kv, w.crossK), Matmul(kv, w.crossV), keys),
           w.crossProj)

CrossGradQuery(g, w, keys) ==
    MatmulBackward(HeadGradQ(MatmulBackward(g, w.crossProj), keys), w.crossQ)

CrossGradKV(g, w, keys, rows) ==
    LET kv == HeadGradKV(MatmulBackward(g, w.crossProj), keys, rows)
    IN  Add(MatmulBackward(kv, w.crossK), MatmulBackward(kv, w.crossV))
-----------------------------------------------------------------------------
ApplyFfn(x, w) == Matmul(SwigluForward(Matmul(x, w.gate), Matmul(x, w.up)), w.down)

(* The layer of a forward pass, which keeps nothing.                       *)
TransformerForward(x, w, keys, at) ==
    LET residual == Add(x, MultiheadAttention(RmsnormForward(x, w.norm1), w, keys, at))
    IN  Add(residual, ApplyFfn(RmsnormForward(residual, w.norm2), w))

(* The layer a backward pass recomputes, written again with its caches.    *)
LayerForwardCached(x, w, keys, at) ==
    LET normed1 == RmsnormForward(x, w.norm1)
        residual == Add(x, MultiheadAttention(normed1, w, keys, at))
        normed2 == RmsnormForward(residual, w.norm2)
        activated == SwigluForward(Matmul(normed2, w.gate), Matmul(normed2, w.up))
    IN  Add(residual, Matmul(activated, w.down))

LayerBackward(g, w, keys, at) ==
    LET branches == SwigluBackward(MatmulBackward(g, w.down))
        norm2 == RmsnormBackwardAdd(MatmulBackward(branches.up, w.up),
                                    MatmulBackward(branches.gate, w.gate), w.norm2)
        residual == Add(g, norm2)
        normed1 == MultiheadAttentionBackward(residual, w, keys, at)
    IN  Add(residual, RmsnormBackward(normed1, w.norm1))
=============================================================================
