---------------------------- MODULE MCSelfSpec ----------------------------
(* A small instance of BLT-S.  Networks are hash functions of what they    *)
(* read, so two passes agree on a byte only if they read the same rows, or *)
(* by a collision no property may count on.                                *)
EXTENDS SelfSpec

MCByte == {0, 1}
MCConfigs == {[rule |-> "both", global |-> 4, monotonic |-> 2, maxLength |-> 3, newline |-> TRUE],
              [rule |-> "global", global |-> 3, monotonic |-> 2, maxLength |-> 4, newline |-> FALSE]}
MCEntropyModels == [config : MCConfigs, seed : {1, 2}]
MCModels == {1, 2, 3}
MCPrompts == {<<0, 0>>, <<1, 0>>, <<0, 1, 1>>}
MCWindows == {1, 2, 3}

Hash(x, seed) ==
    LET h[k \in 0..Len(x)] == IF k = 0 THEN seed ELSE (h[k - 1] * 3 + (x[k] + 1) * seed) % 101
    IN  h[Len(x)]

(* Entropies in 0..5; byte 1 stands for the newline.                       *)
AllBytes == UNION {[1..n -> MCByte] : n \in 1..(MaxSeqLen + 1)}
MCBoundaries ==
    [e \in MCEntropyModels |->
        [x \in AllBytes |->
            NextStartsPatch(e.config, 1, x,
                            [k \in 1..Len(x) |-> Hash(SubSeq(x, 1, k), 6 + e.seed) % 6])]]
MCBoundary(e, x) == MCBoundaries[e][x]

MCPredict(m, rs) ==
    LET h[k \in 0..Len(rs)] ==
            IF k = 0 THEN m
            ELSE (h[k - 1] * 5 + Hash(rs[k].h, 2 + m) + 7 * Hash(rs[k].o, 4 + m)) % 1009
    IN  h[Len(rs)] % 2
=============================================================================
