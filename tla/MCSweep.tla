------------------------------- MODULE MCSweep -------------------------------
(***************************************************************************)
(* Windows of 3 bytes; entries too short, exact, with a remainder, with a  *)
(* negative offset, and none usable.  Warmups shorter and longer than the  *)
(* run, evaluations inside and at the end of it.                           *)
(***************************************************************************)
EXTENDS Sweep

E(o, l) == [offset |-> o, length |-> l]
Manifests == {<<E(0, 2)>>, <<E(0, 3), E(-1, 9), E(3, 8)>>, <<E(0, 7), E(7, 2), E(9, 3)>>}

Patchers == {[patcher |-> "entropy", stride |-> 1, maxPatch |-> 4],
             [patcher |-> "fixed", stride |-> 2, maxPatch |-> 0],
             [patcher |-> "fixed", stride |-> 4, maxPatch |-> 0],
             [patcher |-> "whitespace", stride |-> 1, maxPatch |-> 0],
             [patcher |-> "whitespace", stride |-> 1, maxPatch |-> 2]}

Made(m, p, warmup, cap) ==
    [train |-> m, heldout |-> <<E(2, 4), E(6, 6)>>, streamLen |-> 8, seqLen |-> 3, cap |-> cap,
     patcher |-> p.patcher, stride |-> p.stride, maxPatch |-> p.maxPatch,
     warmup |-> warmup, steps |-> 5, every |-> 2]

MCConfigs ==
    {Made(m, p, warmup, cap) : m \in Manifests, p \in {q \in Patchers : q.patcher = "entropy"},
                               warmup \in {0, 2, 6}, cap \in {0, 2}}
    \cup {Made(<<E(0, 7), E(7, 2), E(9, 3)>>, p, 2, 2) : p \in Patchers}
==============================================================================
