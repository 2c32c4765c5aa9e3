------------------------------ MODULE MCReads ------------------------------
(***************************************************************************)
(* Which bytes a row reads, from both ends: the patcher that cuts a        *)
(* sequence, and the passes that read one already cut, every cut of their  *)
(* bytes included.  They share no state, so a behaviour runs one of them   *)
(* and leaves the other at one of its initial states.                      *)
(***************************************************************************)
EXTENDS MCPatcher, MCDataflow

VARIABLE part

partVars == <<part, vars, passVars>>

ScanWaits ==
    /\ bytes = <<Newline>> /\ ent = <<0>>
    /\ config = (CHOOSE c \in Config : TRUE) /\ cap = 1
    /\ Init
PassWaits ==
    /\ pass = CHOOSE q \in Passes : q.mode = "train"
    /\ masked = {r \in BlockRows : Valid(r)}
    /\ PassInit

(* A configuration without the newline rule never looks at the bytes.      *)
BytesMatter == ~config.newline => Newline \notin {bytes[k] : k \in DOMAIN bytes}

ReadsInit ==
    \/ part = "pass" /\ ScanWaits /\ PassInit
    \/ part = "scan" /\ PassWaits /\ Init /\ BytesMatter

ReadsNext ==
    \/ part = "scan" /\ Next /\ UNCHANGED <<part, passVars>>
    \/ part = "pass" /\ PassNext /\ UNCHANGED <<part, vars>>

ReadsSpec == ReadsInit /\ [][ReadsNext]_partVars
=============================================================================
