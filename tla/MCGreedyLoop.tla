---------------------------- MODULE MCGreedyLoop ----------------------------
(* A small instance of plain generation; networks are hash functions, as   *)
(* in MCSelfSpec, here with a row of logits of both signs.                 *)
EXTENDS GreedyLoop

MCByte == {0, 1, 2}
MCPatchers == {[rule |-> "both", global |-> 4, monotonic |-> 2, maxLength |-> 3, newline |-> TRUE],
               [rule |-> "global", global |-> 3, monotonic |-> 2, maxLength |-> 4, newline |-> FALSE]}
MCEntropyModels == [config : MCPatchers, seed : {1, 2}]
MCModels == {1, 2, 3}
MCPrompts == {<<0, 0>>, <<2, 1>>, <<1, 2, 1>>}

Off == [temperature |-> 0, topP |-> 0, topK |-> 0, num |-> 1, den |-> 1, ngram |-> 0]
MCOptions ==
    {Off, [Off EXCEPT !.topK = 2], [Off EXCEPT !.temperature = 1],
     [Off EXCEPT !.temperature = 1, !.topP = 5, !.num = 3],
     [Off EXCEPT !.temperature = 2, !.topP = 8, !.topK = 2],
     [Off EXCEPT !.num = 3, !.den = 2], [Off EXCEPT !.den = 2, !.topK = 1],
     [Off EXCEPT !.ngram = 2]}

Hash(x, seed) ==
    LET h[k \in 0..Len(x)] == IF k = 0 THEN seed ELSE (h[k - 1] * 3 + (x[k] + 1) * seed) % 101
    IN  h[Len(x)]

AllBytes == UNION {[1..n -> MCByte] : n \in 1..MaxSeqLen + 2}
MCBoundaries ==
    [e \in MCEntropyModels |->
        [x \in AllBytes |->
            NextStartsPatch(e.config, 1, x,
                            [k \in 1..Len(x) |-> Hash(SubSeq(x, 1, k), 6 + e.seed) % 6])]]
MCBoundary(e, x) == MCBoundaries[e][x]

RowsHash(m, rs) ==
    LET h[k \in 0..Len(rs)] ==
            IF k = 0 THEN m
            ELSE (h[k - 1] * 5 + Hash(rs[k].h, 2 + m) + 7 * Hash(rs[k].o, 4 + m)) % 1009
    IN  h[Len(rs)]
MCLogits(m, rs) ==
    LET h == RowsHash(m, rs) IN [b \in MCByte |-> ((h * (b + 2) + 3 * b) % 7) - 3]

(* exp(-gap): halves with every step of the gap, and underflows.           *)
MCMass(opt, gap) ==
    LET g == gap \div (IF opt.temperature = 0 THEN 1 ELSE opt.temperature)
    IN  IF g > 6 THEN 0 ELSE 2 ^ (6 - g)
=============================================================================
