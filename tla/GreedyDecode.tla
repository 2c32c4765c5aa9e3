---------------------------- MODULE GreedyDecode ----------------------------
(***************************************************************************)
(* What a generation call promises, whatever it speculates on the way: the *)
(* committed bytes only ever grow, up to the requested length, and every   *)
(* committed byte is one Allowed allows after the bytes before it.  With   *)
(* Allowed the singleton {NextByte} this is greedy decoding.               *)
(***************************************************************************)
EXTENDS Decoding

CONSTANT Allowed(_, _, _)   \* bytes that may follow x under entropy model e and model m

VARIABLES em, model,        \* the networks, fixed for the call
          target,           \* prompt_len + max_new_bytes
          out               \* the committed bytes, the prompt included

call == <<em, model, target>>

Init == /\ em \in EntropyModels /\ model \in Models
        /\ out \in Seq(Byte) /\ out # <<>>
        /\ target \in Nat /\ target >= Len(out)

Commit == /\ Len(out) < Len(out') /\ Len(out') <= target
          /\ SubSeq(out', 1, Len(out)) = out
          /\ \A i \in (Len(out) + 1)..Len(out') :
                out'[i] \in Allowed(em, model, SubSeq(out', 1, i - 1))
          /\ UNCHANGED call

Spec == Init /\ [][Commit]_<<call, out>>
=============================================================================
