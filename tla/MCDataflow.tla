----------------------------- MODULE MCDataflow -----------------------------
(* Five bytes cut every way into patches, blocks of two, two layers of     *)
(* each stack so that FIRST, LAST and ALL differ, windows of 0 and 2.      *)
EXTENDS Dataflow

(* Small numbers, different from layer to layer and from use to use.       *)
Uses == <<"norm1", "q", "k", "v", "proj", "norm2", "gate", "up", "down",
          "crossNorm", "crossQ", "crossK", "crossV", "crossProj">>
LayerWeights(n) ==
    [u \in {Uses[i] : i \in DOMAIN Uses} |->
        LET i == CHOOSE j \in DOMAIN Uses : Uses[j] = u IN 2 + ((17 * i * i + 5 * i * n + 11 * n) % 31)]
MCWeights == [encoder |-> [l \in 0..1 |-> LayerWeights(l)],
              global |-> [l \in 0..1 |-> LayerWeights(2 + l)],
              decoder |-> [l \in 0..1 |-> LayerWeights(4 + l)]]

Shape == [mode : {"model", "predict", "train", "infer"},
          starts : {S \in SUBSET (0..4) : 0 \in S},
          docs : {{}} \cup {{0} \cup S : S \in SUBSET (1..4)}, ngram : {0, 2, 3},
          encWindow : {0, 2}, decWindow : {0, 2},
          encCross : {"NONE", "LAST", "FIRST", "ALL"}, decCross : {"NONE", "LAST", "FIRST", "ALL"},
          closed : BOOLEAN, learned : BOOLEAN, targets : BOOLEAN, weighted : BOOLEAN]

(* Fields a mode does not read are fixed, so that a pass appears once, and *)
(* fields that do not meet vary together.                                  *)
MCPasses ==
    {q \in Shape :
        /\ q.docs \subseteq q.starts
        /\ q.mode = "model" <=> q.docs # {}
        /\ q.mode \in {"train", "infer"} => q.decWindow = 0
        /\ q.mode \in {"model", "predict"} => ~q.learned
        /\ q.mode # "train" => ~q.targets /\ ~q.weighted
        /\ q.mode \in {"model", "train"} => ~q.closed
        /\ q.mode = "infer" => q.closed
        /\ q.mode = "train" => Cardinality(q.starts) \in {2, 3} /\ q.weighted = q.targets
        /\ q.mode \in {"predict", "train"} => q.encWindow = 2
        /\ q.ngram = CASE q.encWindow = 0 -> 0
                       [] q.encWindow = 2 /\ q.mode = "infer" -> 3
                       [] q.encWindow = 2 /\ q.mode # "infer" -> 2}
=============================================================================
