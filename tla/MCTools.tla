------------------------------ MODULE MCTools ------------------------------
(***************************************************************************)
(* The two programs that start training runs, side by side: the sweep      *)
(* runner and the metrics wrapper.  They share no state, so a behaviour    *)
(* runs one of them; meanwhile the sweep has not started, or the wrapper   *)
(* has returned, its child having died before it opened the file.          *)
(* The wrapper has a fresh run directory and pipes of one write; the third *)
(* of four events has a loss printed as nan.                               *)
(***************************************************************************)
EXTENDS MCSweep, Metrics

VARIABLE part

partVars == <<part, vars, wrapperVars>>

SweepWaits == cfg = (CHOOSE c \in Configs : TRUE) /\ Init
WrapperReturned ==
    /\ file = <<>> /\ opened = FALSE /\ child = "exited"
    /\ toPrint = [s \in Streams |-> Prints] /\ pipe = [s \in Streams |-> 0]
    /\ reader = [s \in Streams |-> "done"]
    /\ main = "finished" /\ stop_event = TRUE
    /\ tail = "ended" /\ pos = 0 /\ buf = <<>> /\ lines = <<>> /\ logged = <<>>

ToolsInit ==
    \/ part = "sweep" /\ WrapperReturned /\ Init
    \/ part = "wrapper" /\ SweepWaits /\ WrapperInit

ToolsNext ==
    \/ part = "sweep" /\ Next /\ UNCHANGED <<part, wrapperVars>>
    \/ part = "wrapper" /\ WrapperNext /\ UNCHANGED <<part, vars>>

(* Only the wrapper's threads are scheduled fairly, as in Metrics.         *)
ToolsSpec == ToolsInit /\ [][ToolsNext]_partVars /\ Fairness
=============================================================================
