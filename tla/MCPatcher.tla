----------------------------- MODULE MCPatcher -----------------------------
(* A small instance of the patcher: every input up to MaxLen bytes over a  *)
(* newline and one other byte, three entropies, every rule.                *)
EXTENDS Patcher

MCEntropy == 0..2
MCConfig == [rule : {"global", "monotonic", "both"}, global : {1}, monotonic : {0},
             maxLength : {2, 3}, newline : BOOLEAN]
MCCapacity == {1, 2, 4}
=============================================================================
