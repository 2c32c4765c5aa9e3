----------------------------- MODULE MCKernels -----------------------------
(* Blocks of 4 threads in warps of 2, tiles of 2 keys, grids of 2 blocks. *)
EXTENDS Kernels

Scores(n) == [0..(n - 1) -> 0..1]
Row(s) == [j \in 0..(Len(s) - 1) |-> s[j + 1]]
Masks(n) == SUBSET (0..(n - 1))

(* fewer elements than threads, as many, and one more *)
Reduces ==
    {[kernel |-> "dot", n |-> n] : n \in {0, 1, 3, 5, 9}}
    \cup UNION {{[kernel |-> "argmax", n |-> n, row |-> r] : r \in [0..(n - 1) -> -1..1]} : n \in {1, 3, 5}}

(* a dimension per thread at most, and a thread that holds two *)
Attends ==
    UNION {{[kernel |-> k, nk |-> n, hd |-> hd, score |-> s, hidden |-> m] :
                k \in {"attn", "flash"}, hd \in {1, 5}, s \in Scores(n), m \in Masks(n)} : n \in {1, 2, 3}}
    \cup {[kernel |-> k, nk |-> 5, hd |-> 2, score |-> s, hidden |-> m] :
                k \in {"attn", "flash"}, s \in {Row(<<0, 1, 0, 1, 1>>), Row(<<1, 0, 0, 0, 1>>), Row(<<0, 0, 1, 1, 0>>)},
                m \in {{}, {0, 1}, {1, 4}, {2, 3}, {0, 1, 2, 3}, 0..4}}

RowGrads == {[kernel |-> "bwd_row", nk |-> n, hd |-> hd, hidden |-> m] :
                n \in {2, 5}, hd \in {1, 5}, m \in {{}, {0}, {1}, {0, 1}}}

(* head sizes that divide the block, and one that does not *)
KvGrads == {[kernel |-> "bwd_kv", nq |-> n, hd |-> hd, hidden |-> m] :
                n \in 1..6, hd \in 1..4, m \in {{}, {0}, {1, 2}}}

Norms == {[kernel |-> "rmsnorm", rows |-> r, cols |-> c] : r \in {1, 3, 5}, c \in {1, 2, 5}}

Scatters == {[kernel |-> "scatter", idx |-> idx, norm |-> norm, det |-> det] :
                idx \in [1..3 -> {-1, 0, 1}] \cup {<<0, 0, 1, 0, -1, 1>>},
                norm \in BOOLEAN, det \in BOOLEAN}

(* rows for part of a block, for a grid, and one more than its threads *)
RowShape(op, n, s) == [kernel |-> "rows", op |-> op, rows |-> n, cols |-> 2, heads |-> 1,
                       score |-> s, target |-> [i \in 0..(n - 1) |-> i % 2]]
RowOps == {"softmax", "softmax_back", "loss", "loss_back", "norm"}
RowLaunches ==
    {RowShape(op, 3, s) : op \in RowOps, s \in [0..2 -> Scores(2)]}
    \cup {RowShape(op, n, [i \in 0..(n - 1) |-> [j \in 0..1 |-> (i + j) % 3]]) : op \in RowOps, n \in {9}}
    \cup {[kernel |-> "rows", op |-> op, rows |-> p * h, heads |-> h] :
            op \in {"rope", "rope_back"}, p \in {1, 3}, h \in {1, 2, 3}}
ElementLaunches ==
    {[kernel |-> "update", n |-> n, strided |-> s] : n \in {1, 5, 8, 9}, s \in BOOLEAN}
    \cup {[kernel |-> "copy", rows |-> r, cols |-> c, to |-> to, from |-> from] :
            r \in {1, 3}, c \in {3, 4}, to \in {4, 5}, from \in {4, 6}}
    \cup {[kernel |-> "rotate", seq |-> p, half |-> d, heads |-> h, sign |-> s] :
            p \in {1, 3}, d \in {1, 2}, h \in {1, 2}, s \in {1, -1}}
    \cup {[kernel |-> "rotate", seq |-> 3, half |-> 3, heads |-> 1, sign |-> 1]}

MCLaunches == RowLaunches \cup ElementLaunches \cup Reduces \cup Attends \cup RowGrads \cup KvGrads \cup Norms \cup Scatters
QueryGradient == {[kernel |-> "bwd_row", nk |-> n, hd |-> 2, hidden |-> m] :
                    n \in {2, 3}, m \in {{}, {0}}}
UnevenHead == {[kernel |-> "bwd_kv", nq |-> n, hd |-> 3, hidden |-> {}] : n \in 1..3}
ScaledGradients == {[kernel |-> "update", n |-> n, strided |-> FALSE] : n \in 7..9}
==============================================================================
