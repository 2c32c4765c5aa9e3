---------------------------- MODULE MCSelection ----------------------------
(***************************************************************************)
(* The two procedures that turn scores into tokens, side by side: plain    *)
(* generation, a byte at a time, and one drafted block.  They share no     *)
(* state, so a behaviour runs one of them and leaves the other at one of   *)
(* its initial states.                                                     *)
(***************************************************************************)
EXTENDS MCGreedyLoop, MCBlockDraft

VARIABLE part

partVars == <<part, genVars, vars>>

LoopWaits ==
    /\ req = [em |-> CHOOSE e \in EntropyModels : TRUE, model |-> 1, prompt |-> <<0, 0>>,
              target |-> 2, options |-> Off]
    /\ GenInit
DraftWaits == config = [size |-> 1, strategy |-> "eb", threshold |-> 0] /\ Init

SelectionInit ==
    \/ part = "loop" /\ DraftWaits /\ GenInit
    \/ part = "draft" /\ LoopWaits /\ Init

SelectionNext ==
    \/ part = "loop" /\ GenNext /\ UNCHANGED <<part, vars>>
    \/ part = "draft" /\ Next /\ UNCHANGED <<part, genVars>>

SelectionSpec == SelectionInit /\ [][SelectionNext]_partVars
=============================================================================
