---------------------------- MODULE MCBlockDraft ----------------------------
(* Blocks of one to four cells; every combination of four scores.          *)
EXTENDS BlockDraft

MCThresholds == {-1, 0, 2, 4}
=============================================================================
