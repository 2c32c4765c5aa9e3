----------------------------- MODULE MCTraining -----------------------------
(* A small instance of training: corpora of four and six windows,          *)
(* multipliers that need the search for a coprime, and flags that exercise *)
(* every kind of file.                                                     *)
EXTENDS Training

Draws == <<[a |-> 4, b |-> 1], [a |-> 3, b |-> 2], [a |-> 2, b |-> 0]>>
MCMix(n, accum) == [e \in 0..MaxStep * accum |->
                       LET d == Draws[(e % 3) + 1] IN [a |-> d.a % n, b |-> d.b % n]]
MCMetric == [n \in 1..MaxStep |-> CASE n = 1 -> 1 [] n = 2 -> 2 [] n = 3 -> -1 [] n = 4 -> 3 [] OTHER -> 2]

Base == [windows |-> 4, skipped |-> {}, mix |-> MCMix(4, 1), gradAccum |-> 1, bf16 |-> FALSE, adamw |-> TRUE,
         fraction |-> FALSE, template |-> TRUE, saveEvery |-> 2, monitorEvery |-> 0,
         evalEvery |-> 0, metric |-> MCMetric, kills |-> TRUE]

MCSetups ==
    {Base, [Base EXCEPT !.adamw = FALSE, !.fraction = TRUE],
     [Base EXCEPT !.template = FALSE, !.fraction = TRUE],
     [Base EXCEPT !.evalEvery = 1, !.monitorEvery = 2, !.saveEvery = 0, !.adamw = FALSE],
     [Base EXCEPT !.evalEvery = 2, !.saveEvery = 3], [Base EXCEPT !.bf16 = TRUE, !.fraction = TRUE],
     [Base EXCEPT !.windows = 6, !.gradAccum = 2, !.mix = MCMix(6, 2), !.skipped = {1}],
     [Base EXCEPT !.template = FALSE, !.kills = FALSE, !.evalEvery = 2, !.metric = [n \in 1..MaxStep |-> n % 3]]}
=============================================================================
