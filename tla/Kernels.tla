------------------------------- MODULE Kernels -------------------------------
(***************************************************************************)
(* The CUDA kernels whose threads cooperate: reductions over a block, the  *)
(* two attention forwards, the attention backward, the fused RMSNorm       *)
(* backward and the atomic scatter-add, thread by thread; and the kernels  *)
(* whose threads share out rows or elements over a bounded grid.           *)
(*                                                                         *)
(* A thread runs from one __syncthreads to the next in one step; NoRace    *)
(* is what makes that sound, for it says no two threads touch one cell     *)
(* between the same two barriers unless both only read.  A warp shuffle is *)
(* one step of its whole warp, an atomicAdd a step of its own, and the end *)
(* of a kernel is a barrier for the next kernel of the stream.             *)
(*                                                                         *)
(* Numbers are abstracted to the terms they are made of: a sum is the      *)
(* sequence of its terms in the order they are added.  Scores and logits,  *)
(* which are compared, keep a value.                                       *)
(***************************************************************************)
EXTENDS Integers, SequencesExt, FiniteSetsExt

CONSTANTS
    T,              \* threads of a block: ATTN_BLOCK, BLT_VEC_DOT_BLOCK, 256
    W,              \* threads of a warp, 32
    TILE,           \* FLASH_TILE
    GRID,           \* blocks of a grid, 4096
    Launches        \* the calls to examine

LogW == CHOOSE e \in 0..W : 2 ^ e = W

ASSUME BlockAssumption ==
    /\ {T, W, TILE, GRID} \subseteq Nat \ {0}
    /\ \E e \in 0..T : 2 ^ e = T
    /\ \E e \in 0..W : 2 ^ e = W
    /\ T \div W \in 1..W        \* one lane of warp 0 per warp
    /\ TILE <= T

NegInf == -1        \* the score of a masked column, below every finite one
Sentinel == -1      \* BLT_IDX_SENTINEL

(* A call has the sizes its kernel is given: no empty sequence, head or    *)
(* row where the kernel divides by one, heads of at most a block for the   *)
(* key pass (larger ones go to a kernel with a thread per cell), and rows  *)
(* a copy keeps apart.                                                     *)
Shaped(q) ==
    /\ q.kernel \in {"dot", "argmax", "attn", "flash", "bwd_row", "bwd_kv", "rmsnorm", "scatter",
                     "rows", "update", "copy", "rotate"}
    /\ q.kernel \in {"dot", "argmax", "update"} => q.n \in Nat
    /\ q.kernel \in {"attn", "flash", "bwd_row"} => {q.nk, q.hd} \subseteq Nat \ {0}
    /\ q.kernel = "bwd_kv" => {q.nq, q.hd} \subseteq Nat \ {0} /\ q.hd <= T
    /\ q.kernel = "rmsnorm" => {q.rows, q.cols} \subseteq Nat \ {0}
    /\ q.kernel = "scatter" => q.idx \in Seq(Nat \cup {Sentinel}) /\ {q.norm, q.det} \subseteq BOOLEAN
    /\ q.kernel = "rows" => q.rows \in Nat
    /\ q.kernel = "update" => q.strided \in BOOLEAN
    /\ q.kernel = "copy" => {q.rows, q.cols, q.to} \subseteq Nat \ {0} /\ q.cols <= q.to
    /\ q.kernel = "rotate" => {q.seq, q.half, q.heads} \subseteq Nat \ {0}
ASSUME LaunchesAssumption == \A q \in Launches : Shaped(q)

VARIABLES
    launch,         \* the call: its kernel, its sizes and its data
    at,             \* where each thread is: a label and a loop index
    sync,           \* barriers each thread has arrived at
    reg,            \* its registers
    mem,            \* shared and global cells written so far
    log             \* accesses made since the last barrier was passed
kernelVars == <<launch, at, sync, reg, mem, log>>

-----------------------------------------------------------------------------
(***************************************************************************)
(* blockDim: one thread for the deterministic scatters, as many as rows or *)
(* columns for RMSNorm.  For the row and element kernels it counts the     *)
(* threads of all blocks, which is what bounds them.                       *)
(***************************************************************************)
GridThreads(n) == T * Min({GRID, Max({1, (n + T - 1) \div T})})

BlockDim ==
    CASE launch.kernel = "rmsnorm" -> Min({T, Max({launch.rows, launch.cols})})
      [] launch.kernel = "scatter" /\ launch.det -> 1
      [] launch.kernel = "rows" -> GridThreads(launch.rows)
      [] launch.kernel = "update" -> GridThreads(launch.n)
      [] launch.kernel = "copy" -> GridThreads(launch.rows * launch.cols)
      [] launch.kernel = "rotate" -> GridThreads(launch.seq * launch.half)
      [] OTHER -> T
Threads == 0..(BlockDim - 1)
Warps == 0..(T \div W - 1)
Lanes(w) == (w * W)..(w * W + W - 1)

Done == <<"done", 0>>
Finished == \A t \in Threads : at[t] = Done

Ascending(S) ==              \* the k-th element has k - 1 below it
    [k \in 1..Cardinality(S) |-> CHOOSE x \in S : Cardinality({y \in S : y < x}) = k - 1]
Own(t, n) == Ascending({i \in 0..(n - 1) : i % BlockDim = t})
Column(t, n, step) == {i \in 0..(n - 1) : i % step = t}
Gather(S, value(_)) ==        \* the values of the elements of S, in order
    FlattenSeq([i \in 1..Cardinality(S) |-> value(Ascending(S)[i])])
Cell(name, i) == <<name, i>>
Nothing == [x \in {} |-> 0]
Merge(f, g) == [x \in DOMAIN f \cup DOMAIN g |-> IF x \in DOMAIN f THEN f[x] ELSE g[x]]
Writes(t, name, S, value(_)) ==
    [x \in {<<t, Cell(name, i)>> : i \in S} |-> value(x[2][2])]
Reads(t, name, S) == {<<t, Cell(name, i)>> : i \in S}

(***************************************************************************)
(* The threads of S run up to `to`, reading and writing the cells given    *)
(* with the thread that touches them, and arrive at a barrier when bars is *)
(* 1.  They start only when every thread has arrived at the one before.    *)
(***************************************************************************)
Passed(t) == \A u \in Threads : sync[u] >= sync[t]

Move(S, reads, writes, regs, to, bars) ==
    LET newest == Max({sync[t] : t \in S})
        written == {x[2] : x \in DOMAIN writes}
        access == {[by |-> x[1], cell |-> x[2], write |-> FALSE] : x \in reads}
             \cup {[by |-> x[1], cell |-> x[2], write |-> TRUE] : x \in DOMAIN writes}
    IN  /\ \A t \in S : Passed(t)
        /\ reg' = [t \in DOMAIN reg |-> IF t \in DOMAIN regs THEN regs[t] ELSE reg[t]]
        /\ mem' = [c \in written \cup DOMAIN mem |->
                        IF c \in written THEN writes[CHOOSE x \in DOMAIN writes : x[2] = c] ELSE mem[c]]
        /\ at' = [t \in DOMAIN at |-> IF t \in S THEN to ELSE at[t]]
        /\ sync' = [t \in DOMAIN sync |-> IF t \in S THEN sync[t] + bars ELSE sync[t]]
        /\ log' = [interval |-> newest,
                   access |-> access \cup (IF log.interval = newest THEN log.access ELSE {})]
        /\ UNCHANGED launch

Alone(t, reads, writes, to, bars) == Move({t}, reads, writes, Nothing, to, bars)

(***************************************************************************)
(* The __shfl_down_sync tree followed by the broadcast of lane 0.  A lane  *)
(* past the end of the warp gets its own value back.                       *)
(***************************************************************************)
Shuffled(w, op(_, _)) ==
    LET first == w * W
        down(v, k) == [l \in Lanes(w) |->
            LET other == l + W \div 2 ^ k
            IN  op(v[l], IF other \in Lanes(w) THEN v[other] ELSE v[l])]
    IN  FoldLeft(down, [l \in Lanes(w) |-> reg[l]], [k \in 1..LogW |-> k])[first]

-----------------------------------------------------------------------------
(***************************************************************************)
(* blt_vec_dot, blt_adamw_sqnorm and blt_argmax_rows: a strided scan per   *)
(* thread, then a tree over the block.  A scan with nothing to read keeps  *)
(* the value -INFINITY and the index 0.                                    *)
(***************************************************************************)
(* a plausible slip: ties are left to whichever thread comes first *)
BetterByValue(a, b) == IF b.val > a.val THEN b ELSE a

Better(a, b) ==
    IF b.val > a.val \/ (b.val = a.val /\ b.idx < a.idx) THEN b ELSE a

Scan(t) ==
    LET own == Own(t, launch.n)
        strict(best, j) == IF launch.row[j] > best.val
                           THEN [val |-> launch.row[j], idx |-> j] ELSE best
    IN  IF launch.kernel = "dot" THEN own
        ELSE FoldLeft(strict, [val |-> NegInf, idx |-> 0], own)

Combine(a, b) == IF launch.kernel = "dot" THEN a \o b ELSE Better(a, b)

ReduceScan(t) ==
    /\ at[t] = <<"scan", 0>>
    /\ Alone(t, {}, Writes(t, "partial", {t}, LAMBDA i : Scan(t)), <<"tree", T \div 2>>, 1)

ReduceTree(t) ==
    LET s == at[t][2]
    IN  /\ at[t][1] = "tree" /\ t < s
        /\ Alone(t, Reads(t, "partial", {t, t + s}),
                 Writes(t, "partial", {t}, LAMBDA i : Combine(mem[Cell("partial", t)],
                                                              mem[Cell("partial", t + s)])),
                 <<"tree", s \div 2>>, 1)

(* a plausible slip: the barrier moves inside the `if (tid < stride)` *)
BarrierInsideIf(t) ==
    /\ at[t][1] = "tree" /\ at[t][2] \in 1..t
    /\ Alone(t, {}, Nothing, <<"tree", at[t][2] \div 2>>, 0)

ReduceIdle(t) ==
    /\ at[t][1] = "tree" /\ at[t][2] \in 1..t
    /\ Alone(t, {}, Nothing, <<"tree", at[t][2] \div 2>>, 1)

ReduceOut(t) ==
    LET root == {0} \cap {t}
    IN  /\ at[t] = <<"tree", 0>>
        /\ Alone(t, Reads(t, "partial", root),
                 Writes(t, "out", root, LAMBDA i : mem[Cell("partial", 0)]), Done, 0)

-----------------------------------------------------------------------------
(***************************************************************************)
(* One block per query row.  A softmax weight is the term exp(s - max)     *)
(* over the sum of the terms `over`; a weight that is 0 is no term at all. *)
(***************************************************************************)
Score(j) == IF j \in launch.hidden THEN NegInf ELSE launch.score[j]
Term(j, s) == [col |-> j, score |-> s]
Weight(term, max, over) == [term |-> term, max |-> max, over |-> over]

(* Warp registers: the running maximum and a list of terms. *)
Largest(a, b) == [a EXCEPT !.max = IF b.max > @ THEN b.max ELSE @]
Joined(a, b) == [a EXCEPT !.acc = @ \o b.acc]

(* blt_attn_core_fwd_kernel: warp 0 does the softmax of the row *)
AttnScores(t) ==
    LET raw(j) == [score |-> launch.score[j], weight |-> <<>>]
    IN  /\ at[t] = <<"scores", 0>>
        /\ Alone(t, {}, Writes(t, "sc", Column(t, launch.nk, T), raw), <<"softmax", 0>>, 1)

AttnWait(t) ==
    /\ at[t] = <<"softmax", 0>> /\ t >= W
    /\ Alone(t, {}, Nothing, <<"values", 0>>, 1)

AttnMask(t) ==
    LET own == Column(t, launch.nk, W)
        masked(j) == IF j \in launch.hidden THEN [mem[Cell("sc", j)] EXCEPT !.score = NegInf]
                     ELSE mem[Cell("sc", j)]
    IN  /\ at[t] = <<"softmax", 0>> /\ t < W
        /\ Move({t}, Reads(t, "sc", own), Writes(t, "sc", own, masked),
                [u \in {t} |-> [reg[t] EXCEPT !.max = Max({NegInf} \cup {masked(j).score : j \in own})]],
                <<"max", 0>>, 0)

AttnMax ==
    /\ launch.kernel = "attn"
    /\ \A t \in Lanes(0) : at[t] = <<"max", 0>>
    /\ Move(Lanes(0), {}, Nothing,
            [t \in Lanes(0) |-> [reg[t] EXCEPT !.max = Shuffled(0, Largest).max]], <<"exp", 0>>, 0)

AttnExp(t) ==
    LET own == Column(t, launch.nk, W)
        exp(j) == LET s == mem[Cell("sc", j)].score
                  IN  [score |-> s, weight |->
                        IF s = NegInf THEN <<>> ELSE <<Weight(Term(j, s), reg[t].max, <<>>)>>]
        term(j) == [k \in DOMAIN exp(j).weight |-> exp(j).weight[k].term]
    IN  /\ at[t] = <<"exp", 0>>
        /\ Move({t}, Reads(t, "sc", own), Writes(t, "sc", own, exp),
                [u \in {t} |-> [reg[t] EXCEPT !.acc = Gather(own, term)]], <<"sum", 0>>, 0)

AttnSum ==
    /\ launch.kernel = "attn"
    /\ \A t \in Lanes(0) : at[t] = <<"sum", 0>>
    /\ Move(Lanes(0), {}, Nothing,
            [t \in Lanes(0) |-> [reg[t] EXCEPT !.acc = Shuffled(0, Joined).acc]], <<"divide", 0>>, 0)

AttnDivide(t) ==
    LET own == Column(t, launch.nk, W)
        divided(j) == LET e == mem[Cell("sc", j)]
                      IN  [e EXCEPT !.weight = [k \in DOMAIN @ |-> [@[k] EXCEPT !.over = reg[t].acc]]]
    IN  /\ at[t] = <<"divide", 0>>
        /\ Alone(t, Reads(t, "sc", own), Writes(t, "sc", own, divided), <<"values", 0>>, 1)

AttnValues(t) ==
    LET keys == 0..(launch.nk - 1)
    IN  /\ at[t] = <<"values", 0>>
        /\ Alone(t, Reads(t, "sc", keys),
                 Writes(t, "out", Column(t, launch.hd, T),
                        LAMBDA d : Gather(keys, LAMBDA j : mem[Cell("sc", j)].weight)), Done, 0)

-----------------------------------------------------------------------------
(***************************************************************************)
(* blt_attn_core_flash_fwd_kernel, as blt_multihead_attention calls it: no *)
(* score matrix, (m, l) saved for the backward.  Every thread keeps the    *)
(* running maximum m and the terms of l and of its slice of the output,    *)
(* rescaled to m after each tile.  acc is one list: the terms are the same *)
(* for every dimension a thread holds.                                     *)
(***************************************************************************)
TileKeys(k) == {j \in 0..(launch.nk - 1) : j \div TILE = k}
Slots(k) == 0..(Cardinality(TileKeys(k)) - 1)
LastTile == (launch.nk - 1) \div TILE

FlashScore(t) ==
    LET k == at[t][2]
        slot == Slots(k) \cap {t}
    IN  /\ at[t][1] = "tile"
        /\ Alone(t, {}, Writes(t, "tile", slot, LAMBDA u : Score(k * TILE + u)),
                 <<"slots", k>>, 1)

FlashLocalMax(t) ==
    LET k == at[t][2]
        own == {u \in Slots(k) : u % T = t}
    IN  /\ at[t][1] = "slots"
        /\ Move({t}, Reads(t, "tile", own), Nothing,
                [u \in {t} |-> [reg[t] EXCEPT !.max = Max({NegInf} \cup {mem[Cell("tile", v)] : v \in own})]],
                <<"warp", k>>, 0)

(* block_reduce_max: a maximum per warp, then warp 0 reduces those *)
FlashWarpMax(w) ==
    LET k == at[w * W][2]
        max == Shuffled(w, Largest).max
    IN  /\ launch.kernel = "flash"
        /\ \A t \in Lanes(w) : at[t] = <<"warp", k>>
        /\ Move(Lanes(w), {}, Writes(w * W, "shared_max", {w}, LAMBDA i : max),
                [t \in Lanes(w) |-> [reg[t] EXCEPT !.max = max]], <<"block", k>>, 1)

FlashBlockMax ==
    LET k == at[0][2]
        max == Max({mem[Cell("shared_max", v)] : v \in Warps})
    IN  /\ launch.kernel = "flash"
        /\ \A t \in Lanes(0) : at[t] = <<"block", k>>
        /\ Move(Lanes(0), {<<v, Cell("shared_max", v)>> : v \in Warps},
                Writes(0, "m_tile", {0}, LAMBDA i : max),
                [t \in Lanes(0) |-> [reg[t] EXCEPT !.max = max]], <<"rescale", k>>, 1)

FlashOtherWarp(t) ==
    /\ at[t][1] = "block" /\ t \notin Lanes(0)
    /\ Alone(t, {}, Nothing, <<"rescale", at[t][2]>>, 1)

(* a plausible slip: no barrier after a tile *)
NoTileBarrier == 0

FlashTileEnd(k) == IF k = LastTile THEN <<"normalise", 0>> ELSE <<"tile", k + 1>>
TileBarrier == 1        \* the tile is read before the next one overwrites it

FlashAccumulate(t) ==
    LET k == at[t][2]
        m == Max({reg[t].m, mem[Cell("m_tile", 0)]})
        seen(u) == LET s == mem[Cell("tile", u)]
                   IN  IF s = NegInf THEN <<>> ELSE <<Term(k * TILE + u, s)>>
        kept == IF reg[t].m = NegInf THEN <<>> ELSE reg[t].acc
    IN  /\ at[t][1] = "rescale"
        /\ Move({t}, Reads(t, "tile", Slots(k)) \cup Reads(t, "m_tile", {0}), Nothing,
                [u \in {t} |-> [m |-> m, max |-> reg[t].max, acc |-> kept \o Gather(Slots(k), seen)]],
                FlashTileEnd(k), TileBarrier)

FlashOut(t) ==
    LET l == reg[t].acc
        out == [k \in DOMAIN l |-> Weight(l[k], reg[t].m, l)]
    IN  /\ at[t] = <<"normalise", 0>>
        /\ Alone(t, {}, Merge(Writes(t, "out", Column(t, launch.hd, T), LAMBDA d : out),
                              Writes(t, "lse", {0} \cap {t}, LAMBDA i : [m |-> reg[t].m, l |-> l])),
                 Done, 0)

-----------------------------------------------------------------------------
(***************************************************************************)
(* blt_attn_core_bwd_row_kernel, one block per query row: the softmax      *)
(* coefficients gs_j = w_j * (gw_j - dot) and then grad_q.  A coefficient  *)
(* is 0 where the weight is.                                               *)
(***************************************************************************)
Coefficient(j, dot) ==
    IF j \in launch.hidden THEN <<>> ELSE <<[col |-> j, dot |-> dot]>>
GradQTerm(gs, j) == [k \in DOMAIN gs |-> [gs |-> gs[k], times |-> <<"q", j>>]]

RowPartial(t) ==
    /\ at[t] = <<"partial", 0>>
    /\ Alone(t, {}, Writes(t, "partial", {t}, LAMBDA i : Own(t, launch.nk)), <<"dot", 0>>, 1)

RowDot(t) ==
    LET all == IF t = 0 THEN Threads ELSE {}
        dot == Gather(Threads, LAMBDA u : mem[Cell("partial", u)])
    IN  /\ at[t] = <<"dot", 0>>
        /\ Alone(t, Reads(t, "partial", all), Writes(t, "partial", {0} \cap {t}, LAMBDA i : dot),
                 <<"gs", 0>>, 1)

RowGs(t) ==
    /\ at[t] = <<"gs", 0>>
    /\ Alone(t, Reads(t, "partial", {0}),
             Writes(t, "gs", Column(t, launch.nk, T),
                    LAMBDA j : Coefficient(j, mem[Cell("partial", 0)])), <<"gq", 0>>, 1)

RowGradQ(t) ==
    LET keys == 0..(launch.nk - 1)
        grad == Gather(keys, LAMBDA j : GradQTerm(mem[Cell("gs", j)], j))
    IN  /\ at[t] = <<"gq", 0>>
        /\ Alone(t, Reads(t, "gs", keys),
                 Writes(t, "out", Column(t, launch.hd, T), LAMBDA d : grad), Done, 0)

(***************************************************************************)
(* blt_attn_core_bwd_kv_kernel, one block per key row.  The threads of a   *)
(* lane share its dimension and split the queries into chunks; the thread  *)
(* of chunk 0 adds the chunks up.  grad_k and grad_v gather the same       *)
(* queries, those whose weight on the key is not 0.                        *)
(***************************************************************************)
NumLanes == Min({launch.hd, T})
NumChunks == (T + NumLanes - 1) \div NumLanes
Chunk(c) ==
    LET per == (launch.nq + NumChunks - 1) \div NumChunks
    IN  {i \in 0..(launch.nq - 1) : i \div per = c}

KvPartial(t) ==
    LET heard == Chunk(t \div NumLanes) \ launch.hidden
    IN  /\ at[t] = <<"chunk", 0>>
        /\ Alone(t, {}, Writes(t, "shared_acc", {t}, LAMBDA i : Ascending(heard)), <<"reduce", 0>>, 1)

KvReduce(t) ==
    LET lane == {t + c * NumLanes : c \in 0..(NumChunks - 1)} \cap Threads
        acc == Gather(lane, LAMBDA u : mem[Cell("shared_acc", u)])
    IN  /\ at[t] = <<"reduce", 0>>
        /\ \/ /\ t < NumLanes
              /\ Alone(t, Reads(t, "shared_acc", lane),
                       Merge(Writes(t, "shared_acc", {t}, LAMBDA i : acc),
                             Writes(t, "out", {t}, LAMBDA d : acc)), Done, 0)
           \/ t >= NumLanes /\ Alone(t, {}, Nothing, Done, 0)

-----------------------------------------------------------------------------
(***************************************************************************)
(* The fused RMSNorm backward: the table of 1/rms per row, the rows of     *)
(* grad_x, then one column of grad_weight per thread.                      *)
(***************************************************************************)
RmsTable(t) ==
    /\ at[t] = <<"table", 0>>
    /\ Alone(t, {}, Writes(t, "inv_rms", Column(t, launch.rows, BlockDim), LAMBDA i : i),
             <<"gradx", 0>>, 1)

RmsGradX(t) ==
    LET own == Column(t, launch.rows, BlockDim)
    IN  /\ at[t] = <<"gradx", 0>>
        /\ Alone(t, Reads(t, "inv_rms", own),
                 Writes(t, "gx", own, LAMBDA i : <<mem[Cell("inv_rms", i)]>>), <<"gradw", 0>>, 1)

RmsGradW(t) ==
    LET rows == 0..(launch.rows - 1)
        sum == Gather(rows, LAMBDA i : <<mem[Cell("inv_rms", i)]>>)
    IN  /\ at[t] = <<"gradw", 0>>
        /\ Alone(t, Reads(t, "inv_rms", rows),
                 Writes(t, "out", Column(t, launch.cols, BlockDim), LAMBDA j : sum), Done, 0)

-----------------------------------------------------------------------------
(***************************************************************************)
(* The row scatter-adds into an embedding table: every position adds its   *)
(* row with an atomicAdd.  The normalised form first counts the rows of    *)
(* each table entry, in a kernel of its own, and scales by the count.  A   *)
(* deterministic launch has one thread, which walks the rows in order.     *)
(***************************************************************************)
Rows == Len(launch.idx)
OneKernel == 0          \* a plausible slip: counting and scattering in one kernel
AfterCount == 1         \* the scatter is the next kernel of the stream

Atomic(c, v) == mem' = [mem EXCEPT ![c] = v]

Next1(t, label) == at' = [at EXCEPT ![t] = <<label, @[2] + BlockDim>>]

CountRow(t) ==
    LET i == at[t][2]
        id == launch.idx[i + 1]
        c == Cell("count", id)
    IN  /\ at[t][1] = "count" /\ i < Rows
        /\ Next1(t, "count")
        /\ IF id = Sentinel THEN UNCHANGED mem ELSE Atomic(c, mem[c] + 1)
        /\ UNCHANGED <<launch, sync, reg, log>>

CountEnd(t) ==
    /\ at[t][1] = "count" /\ at[t][2] >= Rows
    /\ Alone(t, {}, Nothing, <<"scatter", t>>, AfterCount)

ScatterRow(t) ==
    LET i == at[t][2]
        id == launch.idx[i + 1]
        c == Cell("table", id)
        over == IF launch.norm THEN mem[Cell("count", id)] ELSE 1
    IN  /\ at[t][1] = "scatter" /\ i < Rows /\ Passed(t)
        /\ Next1(t, "scatter")
        /\ IF id = Sentinel THEN UNCHANGED mem
           ELSE Atomic(c, Append(mem[c], [row |-> i, over |-> over]))
        /\ UNCHANGED <<launch, sync, reg, log>>

ScatterEnd(t) ==
    /\ at[t][1] = "scatter" /\ at[t][2] >= Rows
    /\ Alone(t, {}, Nothing, Done, 0)

-----------------------------------------------------------------------------
(***************************************************************************)
(* Kernels with a thread per row.  A thread takes the rows a grid apart    *)
(* and computes each with the loops of the CPU.  The rotary row is the     *)
(* sign of the angle and the position it is taken from.                    *)
(***************************************************************************)
RowTerms(i) == [k \in 1..launch.cols |-> Term(k - 1, launch.score[i][k - 1])]
RowMax(i) ==
    LET max[k \in 0..(launch.cols - 1)] ==
            IF k = 0 THEN launch.score[i][0]
            ELSE IF launch.score[i][k] > max[k - 1] THEN launch.score[i][k] ELSE max[k - 1]
    IN  max[launch.cols - 1]

SoftmaxRow(i) ==
    [k \in 1..launch.cols |-> Weight(RowTerms(i)[k], RowMax(i), RowTerms(i))]
SoftmaxGradRow(i) ==
    [k \in 1..launch.cols |-> [col |-> k - 1, dot |-> [j \in 1..launch.cols |-> j - 1]]]
LossRow(i) == [max |-> RowMax(i), over |-> RowTerms(i), target |-> launch.target[i]]
LossGradRow(i) ==
    [k \in 1..launch.cols |-> [weight |-> SoftmaxRow(i)[k], hit |-> k - 1 = launch.target[i]]]
RopeRow(i) == <<IF launch.op = "rope" THEN 1 ELSE -1, i \div launch.heads>>
NormRow(i) ==
    [k \in 1..launch.cols |-> [col |-> k - 1, over |-> [j \in 1..launch.cols |-> j - 1]]]

RowValue(i) ==
    CASE launch.op = "softmax" -> SoftmaxRow(i)
      [] launch.op = "softmax_back" -> SoftmaxGradRow(i)
      [] launch.op = "loss_back" -> LossGradRow(i)
      [] launch.op \in {"rope", "rope_back"} -> RopeRow(i)
      [] launch.op = "norm" -> NormRow(i)

GridRows(t) ==
    LET own == Column(t, launch.rows, BlockDim)
    IN  /\ at[t] = <<"rows", 0>>
        /\ \/ /\ launch.op # "loss"
              /\ Alone(t, {}, Writes(t, "out", own, RowValue), Done, 0)
           \/ /\ launch.op = "loss"
              /\ Alone(t, {}, Writes(t, "row_loss", own, LossRow),
                       IF t = 0 THEN <<"mean", 0>> ELSE Done, 1)

(* the mean of the row losses: the next kernel, one thread, in row order *)
MeanLoss(t) ==
    LET rows == 0..(launch.rows - 1)
    IN  /\ at[t] = <<"mean", 0>>
        /\ Alone(t, Reads(t, "row_loss", rows),
                 Writes(t, "out", {0}, LAMBDA i : [k \in 1..launch.rows |-> mem[Cell("row_loss", k - 1)]]),
                 Done, 0)

(***************************************************************************)
(* Kernels with a thread per element.  An update in place (SGD, AdamW,     *)
(* scaling, elementwise arithmetic) has a stride loop, except the scaling  *)
(* of clipped gradients, whose threads take one element each.              *)
(***************************************************************************)
Taken(t) ==
    IF launch.strided THEN Column(t, launch.n, BlockDim) ELSE {i \in {t} : i < launch.n}

GridUpdate(t) ==
    /\ at[t] = <<"update", 0>>
    /\ Alone(t, Reads(t, "out", Taken(t)),
             Writes(t, "out", Taken(t), LAMBDA i : mem[Cell("out", i)] + 1), Done, 0)

(* blt_strided_copy: four floats at a time when both sides are contiguous *)
Unit == IF launch.cols % 4 = 0 /\ launch.to = launch.cols /\ launch.from = launch.cols THEN 4 ELSE 1

CopiedBy(t) ==
    {u * Unit + e : u \in Column(t, (launch.rows * launch.cols) \div Unit, BlockDim), e \in 0..(Unit - 1)}
CopyTarget(off) == (off \div launch.cols) * launch.to + (off % launch.cols)
CopySource(off) == (off \div launch.cols) * launch.from + (off % launch.cols)

GridCopy(t) ==
    /\ at[t] = <<"copy", 0>>
    /\ Alone(t, {}, Writes(t, "out", {CopyTarget(off) : off \in CopiedBy(t)},
                           LAMBDA c : CopySource(CHOOSE off \in CopiedBy(t) : CopyTarget(off) = c)), Done, 0)

(***************************************************************************)
(* The rotary embedding on the packed [seq, q k v] rows, in place: a       *)
(* kernel for the queries and one for the keys of every head, a thread per *)
(* pair and no stride loop.  A cell is a pair of floats.                   *)
(***************************************************************************)
HeadPairs == launch.heads * launch.half
HeadOffset(call) == (call % 2) * HeadPairs + (call \div 2) * launch.half

PairCell(call, p) == (p \div launch.half) * 3 * HeadPairs + HeadOffset(call) + (p % launch.half)
TurnedBy(t, call) == {PairCell(call, p) : p \in {q \in {t} : q < launch.seq * launch.half}}

GridRotate(t) ==
    LET call == at[t][2]
        cells == TurnedBy(t, call)
        rotated(c) == Append(mem[Cell("out", c)], <<launch.sign, t \div launch.half>>)
    IN  /\ at[t][1] = "rotate"
        /\ Alone(t, Reads(t, "out", cells), Writes(t, "out", cells, rotated),
                 IF call + 1 = 2 * launch.heads THEN Done ELSE <<"rotate", call + 1>>, 1)

-----------------------------------------------------------------------------
First(kernel) ==
    CASE kernel \in {"dot", "argmax"} -> "scan"
      [] kernel = "attn" -> "scores"
      [] kernel = "flash" -> "tile"
      [] kernel = "bwd_row" -> "partial"
      [] kernel = "bwd_kv" -> "chunk"
      [] kernel = "rmsnorm" -> "table"
      [] kernel \in {"rows", "update", "copy", "rotate"} -> kernel
      [] kernel = "scatter" -> IF launch.norm THEN "count" ELSE "scatter"

Entries(idx) == {idx[k] : k \in DOMAIN idx} \ {Sentinel}

KernelInit ==
    /\ launch \in Launches
    /\ at = [t \in Threads |-> <<First(launch.kernel), IF launch.kernel = "scatter" THEN t ELSE 0>>]
    /\ sync = [t \in Threads |-> 0]
    /\ reg = [t \in Threads |-> [m |-> NegInf, max |-> NegInf, acc |-> <<>>]]
    /\ mem = CASE launch.kernel = "scatter" ->
                    Merge([c \in {Cell("count", id) : id \in Entries(launch.idx)} |-> 0],
                          [c \in {Cell("table", id) : id \in Entries(launch.idx)} |-> <<>>])
               [] launch.kernel = "update" -> [c \in {"out"} \X (0..(launch.n - 1)) |-> 0]
               [] launch.kernel = "rotate" ->
                    [c \in {"out"} \X (0..(launch.seq * 3 * HeadPairs - 1)) |-> <<>>]
               [] OTHER -> Nothing
    /\ log = [interval |-> 0, access |-> {}]

KernelNext ==
    \/ AttnMax \/ AttnSum \/ FlashBlockMax
    \/ \E w \in Warps : FlashWarpMax(w)
    \/ \E t \in Threads :
        \/ ReduceScan(t) \/ ReduceTree(t) \/ ReduceIdle(t) \/ ReduceOut(t)
        \/ AttnScores(t) \/ AttnWait(t) \/ AttnMask(t) \/ AttnExp(t) \/ AttnDivide(t)
        \/ AttnValues(t)
        \/ FlashScore(t) \/ FlashLocalMax(t) \/ FlashOtherWarp(t) \/ FlashAccumulate(t)
        \/ FlashOut(t)
        \/ RowPartial(t) \/ RowDot(t) \/ RowGs(t) \/ RowGradQ(t)
        \/ KvPartial(t) \/ KvReduce(t)
        \/ RmsTable(t) \/ RmsGradX(t) \/ RmsGradW(t)
        \/ CountRow(t) \/ CountEnd(t) \/ ScatterRow(t) \/ ScatterEnd(t)
        \/ GridRows(t) \/ MeanLoss(t) \/ GridUpdate(t) \/ GridCopy(t) \/ GridRotate(t)

(* the scheduler of the device keeps running the threads that can run *)
KernelSpec == KernelInit /\ [][KernelNext]_kernelVars /\ WF_kernelVars(KernelNext)

-----------------------------------------------------------------------------
(***************************************************************************)
(* What the CPU implementation of each operation computes.                 *)
(***************************************************************************)
Visible(n) == (0..(n - 1)) \ launch.hidden

CpuArgmax ==
    CHOOSE j \in 0..(launch.n - 1) :
        \A i \in 0..(launch.n - 1) :
            launch.row[i] < launch.row[j] \/ (launch.row[i] = launch.row[j] /\ j <= i)

CpuTerms == {Term(j, launch.score[j]) : j \in Visible(launch.nk)}
CpuMax == Max({NegInf} \cup {launch.score[j] : j \in Visible(launch.nk)})

CpuKvGrad == Ascending(Visible(launch.nq))

CpuRowsOf(id) == Ascending({i \in 0..(Rows - 1) : launch.idx[i + 1] = id})
CpuTable(id) ==
    LET rows == CpuRowsOf(id)
    IN  [k \in DOMAIN rows |-> [row |-> rows[k],
                               over |-> IF launch.norm THEN Len(rows) ELSE 1]]

(* Row by row, over the columns of the row. *)
AllColumns == 0..(launch.cols - 1)
CpuRowTerms(i) == {Term(j, launch.score[i][j]) : j \in AllColumns}
CpuRowMax(i) == Max({launch.score[i][j] : j \in AllColumns})
CpuLoss(i) == [max |-> CpuRowMax(i), target |-> launch.target[i]]
CpuRope(sign) ==          \* a loop over positions, a loop over heads
    [i \in {p * launch.heads + h : p \in 0..(launch.rows \div launch.heads - 1),
                                  h \in 0..(launch.heads - 1)} |->
        <<sign, CHOOSE p \in 0..(launch.rows - 1) :
            \E h \in 0..(launch.heads - 1) : i = p * launch.heads + h>>]
CpuUpdates == [i \in 0..(launch.n - 1) |-> 1]
CpuCopy ==                \* a memcpy per row
    [c \in {<<r, j>> : r \in 0..(launch.rows - 1), j \in AllColumns} |-> c[1] * launch.from + c[2]]

ExactlyTheTerms(s, S) == Len(s) = Cardinality(S) /\ Range(s) = S

Out(d) == mem[Cell("out", d)]
Dims == 0..(launch.hd - 1)

-----------------------------------------------------------------------------
(* Cells, registers and barrier counts are those of the launch.            *)
KernelTypeOK ==
    /\ launch \in Launches
    /\ DOMAIN at = Threads /\ DOMAIN sync = Threads /\ DOMAIN reg = Threads
    /\ \A t \in Threads :
        /\ sync[t] \in Nat
        /\ at[t][1] \in {"tile", "slots", "warp", "block", "rescale"} => at[t][2] \in 0..LastTile
        /\ at[t][1] \in {"count", "scatter"} => at[t][2] \in 0..(Rows + BlockDim - 1)
    /\ \A a \in log.access : a.by \in Threads /\ a.cell \in DOMAIN mem

(***************************************************************************)
(* Between two barriers no two threads touch a cell of shared or global    *)
(* memory unless both only read it: every __syncthreads the kernels need   *)
(* is there, the one before a tile of keys is overwritten included.        *)
(***************************************************************************)
NoRace ==
    /\ KernelTypeOK
    /\ \A a, b \in log.access :
        a.cell = b.cell /\ a.by # b.by => ~a.write /\ ~b.write

(***************************************************************************)
(* However the threads are scheduled, a dot product has every term once,   *)
(* argmax is the lowest index of the maximum, and both attention kernels   *)
(* give each dimension every visible key, in ascending order, weighted by  *)
(* its own score against the row's maximum over exactly the visible keys;  *)
(* the flash kernel saves that maximum and sum for the backward.  A row    *)
(* with every column masked gives 0.  The row kernels compute every row    *)
(* however many there are, the loss adds them in row order, a copy fills   *)
(* its tile and no more, and each rotary pair the grid has a thread for is *)
(* turned once, by the position of its row.                                *)
(***************************************************************************)
AttentionAgrees ==
    \A d \in Dims :
        /\ [k \in DOMAIN Out(d) |-> Out(d)[k].term.col] = Ascending(Visible(launch.nk))
        /\ \A k \in DOMAIN Out(d) :
            LET w == Out(d)[k]
            IN  /\ w.term \in CpuTerms
                /\ w.max = CpuMax
                /\ ExactlyTheTerms(w.over, CpuTerms)

SoftmaxAgrees(i, weights) ==
    \A j \in AllColumns :
        LET w == weights[j + 1]
        IN  /\ w.term = Term(j, launch.score[i][j])
            /\ w.max = CpuRowMax(i)
            /\ ExactlyTheTerms(w.over, CpuRowTerms(i))

RopeAgrees(sign) ==
    \A i \in 0..(launch.rows - 1) : Out(i) = CpuRope(sign)[i]

(* A pair of q or k is turned once, by the angle of its row, and v is left *)
(* alone.  Nothing is said of the pairs past the capped grid.              *)
RotationAgrees ==
    \A p \in 0..(launch.seq - 1), c \in 0..(3 * HeadPairs - 1) :
        LET pair == Out(p * 3 * HeadPairs + c)
            reached == p * launch.half + (c % launch.half) < T * GRID
        IN  IF c >= 2 * HeadPairs THEN pair = <<>>
            ELSE reached => pair = <<<<launch.sign, p>>>>

CopyAgrees ==
    /\ \A c \in DOMAIN CpuCopy : Out(c[1] * launch.to + c[2]) = CpuCopy[c]
    /\ Cardinality(DOMAIN mem) = Cardinality(DOMAIN CpuCopy)

RowsAgree ==
    LET rows == 0..(launch.rows - 1)
    IN  CASE launch.op = "softmax" -> \A i \in rows : SoftmaxAgrees(i, Out(i))
          [] launch.op = "loss" ->
                /\ Len(Out(0)) = launch.rows
                /\ \A i \in rows :
                    LET loss == Out(0)[i + 1]
                    IN  /\ [max |-> loss.max, target |-> loss.target] = CpuLoss(i)
                        /\ ExactlyTheTerms(loss.over, CpuRowTerms(i))
          [] launch.op = "rope" -> RopeAgrees(1)
          [] launch.op = "norm" ->
                \A i \in rows, j \in AllColumns :
                    Out(i)[j + 1].col = j /\ ExactlyTheTerms(Out(i)[j + 1].over, AllColumns)
          [] OTHER -> TRUE

ForwardAgrees ==
    Finished =>
        /\ launch.kernel = "dot" => ExactlyTheTerms(Out(0), 0..(launch.n - 1))
        /\ launch.kernel = "argmax" => Out(0).idx = CpuArgmax
        /\ launch.kernel \in {"attn", "flash"} => AttentionAgrees
        /\ launch.kernel = "rows" => RowsAgree
        /\ launch.kernel = "copy" => CopyAgrees
        /\ launch.kernel = "rotate" /\ launch.sign = 1 => RotationAgrees
        /\ launch.kernel = "flash" =>
            LET lse == mem[Cell("lse", 0)]
            IN  lse.m = CpuMax /\ ExactlyTheTerms(lse.l, CpuTerms)

(***************************************************************************)
(* However the threads are scheduled, every coefficient of grad_q has the  *)
(* dot product over all keys and comes in key order, grad_k and grad_v     *)
(* gather every query in ascending order, RMSNorm's grad_weight every row, *)
(* and each table entry of a scatter-add every row sent to it, once and    *)
(* with the entry's full count; in row order when the launch is            *)
(* deterministic.  Every gradient or weight is updated once.               *)
(*                                                                         *)
(* Two cases are left out, and stated in full by KvSumsQueries and         *)
(* ScalesAll: the dimensions of grad_k and grad_v that have no thread in   *)
(* the last chunk of queries, and the elements past the capped grid of the *)
(* scaling that has no stride loop.                                        *)
(***************************************************************************)
GradQAgrees ==
    \A d \in Dims :
        /\ [k \in DOMAIN Out(d) |-> Out(d)[k].gs.col] = Ascending(Visible(launch.nk))
        /\ \A k \in DOMAIN Out(d) : ExactlyTheTerms(Out(d)[k].gs.dot, 0..(launch.nk - 1))

ScatterAgrees ==
    \A id \in Entries(launch.idx) :
        LET cell == mem[Cell("table", id)]
        IN  /\ ExactlyTheTerms(cell, Range(CpuTable(id)))
            /\ launch.det => cell = CpuTable(id)

GradRowsAgree ==
    LET rows == 0..(launch.rows - 1)
    IN  CASE launch.op = "softmax_back" ->
                \A i \in rows, j \in AllColumns :
                    Out(i)[j + 1].col = j /\ ExactlyTheTerms(Out(i)[j + 1].dot, AllColumns)
          [] launch.op = "loss_back" ->
                \A i \in rows :
                    /\ SoftmaxAgrees(i, [k \in DOMAIN Out(i) |-> Out(i)[k].weight])
                    /\ \A j \in AllColumns : Out(i)[j + 1].hit <=> j = launch.target[i]
          [] launch.op = "rope_back" -> RopeAgrees(-1)
          [] OTHER -> TRUE

UpdateAgrees ==
    \A i \in 0..(launch.n - 1) :
        launch.strided \/ i < T * GRID => Out(i) = CpuUpdates[i]

InEveryChunk(d) == d + (NumChunks - 1) * NumLanes \in Threads
KvGradAgrees == \A d \in Dims : InEveryChunk(d) => Out(d) = CpuKvGrad

BackwardAgrees ==
    Finished =>
        /\ launch.kernel = "bwd_row" => GradQAgrees
        /\ launch.kernel = "bwd_kv" => KvGradAgrees
        /\ launch.kernel = "rmsnorm" =>
            /\ \A j \in 0..(launch.cols - 1) : Out(j) = [k \in 1..launch.rows |-> k - 1]
            /\ \A i \in 0..(launch.rows - 1) : mem[Cell("gx", i)] = <<i>>
        /\ launch.kernel = "scatter" => ScatterAgrees
        /\ launch.kernel = "rows" => GradRowsAgree
        /\ launch.kernel = "update" => UpdateAgrees
        /\ launch.kernel = "rotate" /\ launch.sign = -1 => RotationAgrees

(***************************************************************************)
(* attn_core.h: grad_q is scale * sum_j gs_ij * k_j, and so it is in the   *)
(* CPU implementation.                                                     *)
(***************************************************************************)
GradQSumsKeys ==
    Finished /\ launch.kernel = "bwd_row" =>
        \A d \in Dims : \A k \in DOMAIN Out(d) :
            Out(d)[k].times = <<"k", Out(d)[k].gs.col>>

(***************************************************************************)
(* attn_core.h:50: grad_k and grad_v sum over all queries i, in every      *)
(* dimension of a head.  With a head size that does not divide the block   *)
(* the last chunk of queries has threads for some dimensions only.         *)
(***************************************************************************)
KvSumsQueries ==
    Finished /\ launch.kernel = "bwd_kv" => \A d \in Dims : Out(d) = CpuKvGrad

(***************************************************************************)
(* vecmath.h:42: data[i] *= s for every i in [0, n).  The grid is capped   *)
(* and the kernel has no stride loop.                                      *)
(***************************************************************************)
ScalesAll ==
    Finished /\ launch.kernel = "update" =>
        \A i \in 0..(launch.n - 1) : Out(i) = CpuUpdates[i]

(***************************************************************************)
(* Every thread of a block meets the same barriers: no launch hangs on a   *)
(* __syncthreads or a shuffle some thread never reaches.                   *)
(***************************************************************************)
Terminates == <>Finished
==============================================================================
