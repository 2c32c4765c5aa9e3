----------------------------- MODULE MCBlockGen -----------------------------
(* A small instance of block generation; networks are hash functions, as   *)
(* in MCSelfSpec.                                                          *)
EXTENDS BlockGen

MCByte == {0, 1}
MCPatchers == {[rule |-> "both", global |-> 4, monotonic |-> 2, maxLength |-> 3, newline |-> TRUE],
               [rule |-> "global", global |-> 3, monotonic |-> 2, maxLength |-> 4, newline |-> FALSE]}
MCEntropyModels == [config : MCPatchers, seed : {1, 2}]
MCModels == {1, 2}
MCPrompts == {<<0>>, <<0, 0>>}

Plain == [verify |-> TRUE, aligned |-> FALSE, size |-> 3, window |-> 0,
          bmin |-> 0, bmax |-> 0, goal |-> 0]
MCConfigs ==
    {[Plain EXCEPT !.verify = FALSE, !.size = 2], Plain, [Plain EXCEPT !.aligned = TRUE],
     \* a block size outside the adaptive range, and one that grows past MaxB
     [Plain EXCEPT !.window = 2, !.bmin = 1, !.bmax = 2, !.goal = 4],
     [Plain EXCEPT !.size = 1, !.window = 1, !.bmax = 4, !.goal = 3],
     \* a window acc_hist has no room for: refused on entry
     [Plain EXCEPT !.window = 3]}

Hash(x, seed) ==
    LET h[k \in 0..Len(x)] == IF k = 0 THEN seed ELSE (h[k - 1] * 3 + (x[k] + 1) * seed) % 101
    IN  h[Len(x)]

AllBytes == UNION {[1..n -> MCByte] : n \in 1..MaxSeqLen}
MCBoundaries ==
    [e \in MCEntropyModels |->
        [x \in AllBytes |->
            NextStartsPatch(e.config, 1, x,
                            [k \in 1..Len(x) |-> Hash(SubSeq(x, 1, k), 6 + e.seed) % 6])]]
MCBoundary(e, x) == MCBoundaries[e][x]

MCPredict(m, rs) ==
    LET h[k \in 0..Len(rs)] ==
            IF k = 0 THEN m
            ELSE (h[k - 1] * 5 + Hash(rs[k].h, 2 + m) + 7 * Hash(rs[k].o, 4 + m)) % 1009
    IN  h[Len(rs)] % 2
=============================================================================
