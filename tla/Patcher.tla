------------------------------ MODULE Patcher ------------------------------
(***************************************************************************)
(* The entropy patcher: the left-to-right scan that cuts a byte sequence   *)
(* into an array of patches (blt_segment_patches), and the latent a        *)
(* decoder row reads from that array (blt_patch_decoder_latent_at).  The   *)
(* boundary rule is Segmentation's.  peak_entropy is left out: nothing     *)
(* reads it.                                                               *)
(***************************************************************************)
EXTENDS Segmentation

CONSTANTS Byte,        \* the byte values
          Newline,     \* the value 0x0A
          Entropy,     \* the entropies, integers: only their order and differences count
          Config,      \* patcher configurations to scan with
          Capacity,    \* the values of max_patches callers pass
          MaxLen       \* bound: longest sequence scanned

ASSUME PatcherAssumption ==
    /\ Entropy \subseteq Int
    /\ Config \subseteq [rule : {"global", "monotonic", "both"}, global : Int, monotonic : Int,
                         maxLength : Nat \ {0}, newline : BOOLEAN]
    /\ Capacity \subseteq Nat \ {0}
    /\ MaxLen \in Nat \ {0}

Input(S) == UNION {[1..n -> S] : n \in 1..MaxLen}
-----------------------------------------------------------------------------
VARIABLES bytes, ent, config, cap,  \* the call's arguments
          i,                        \* the position the scan looks at
          start,                    \* current_patch_start; its length is i - start
          patches,                  \* patches_out[0 .. patch_count)
          pc                        \* "scan", "close" (the last patch), "done"

vars == <<bytes, ent, config, cap, i, start, patches, pc>>
args == <<bytes, ent, config, cap>>

n == Len(bytes)
PatchInfo == [start : Nat, len : Nat \ {0}]
End(p) == p.start + p.len

TypeOK ==
    /\ bytes \in Seq(Byte) /\ ent \in Seq(Entropy)
    /\ n >= 1 /\ Len(ent) = n
    /\ config \in Config /\ cap \in Capacity
    /\ i \in 1..n /\ start \in 0..(n - 1)
    /\ patches \in Seq(PatchInfo)
    /\ pc \in {"scan", "close", "done"}

Init ==
    /\ bytes \in Input(Byte)
    /\ ent \in Input(Entropy) /\ Len(ent) = Len(bytes)
    /\ config \in Config /\ cap \in Capacity
    /\ i = 1 /\ start = 0
    /\ patches = <<>>
    /\ pc = "scan"

Current == [start |-> start, len |-> i - start]
AtBoundary == PatchBoundary(config, Newline, bytes, ent, i, start)

(* blt_patch_emit; it refuses once patch_count reaches max_patches.        *)
EmitPastCapacity == patches' = Append(patches, Current)
Emit == Len(patches) < cap /\ patches' = Append(patches, Current)

(* A boundary at i closes the patch [start, i) and opens one at i.         *)
Cut == /\ pc = "scan" /\ i < n /\ AtBoundary
       /\ Emit
       /\ start' = i /\ i' = i + 1
       /\ UNCHANGED <<args, pc>>

(* The boundary finds no room: warn, break, and fall to the closing emit.  *)
StopFull == /\ pc = "scan" /\ i < n /\ AtBoundary
            /\ Len(patches) = cap
            /\ pc' = "close"
            /\ UNCHANGED <<args, i, start, patches>>

Extend == /\ pc = "scan" /\ i < n /\ ~AtBoundary
          /\ i' = i + 1
          /\ UNCHANGED <<args, start, patches, pc>>

EndOfInput == /\ pc = "scan" /\ i = n
              /\ pc' = "close"
              /\ UNCHANGED <<args, i, start, patches>>

(* The patch still open is emitted last; there may be no room for it.      *)
Close == /\ pc = "close"
         /\ \/ Emit
            \/ Len(patches) = cap /\ UNCHANGED patches
         /\ pc' = "done"
         /\ UNCHANGED <<args, i, start>>

Return == pc = "done" /\ UNCHANGED vars

Next == Cut \/ StopFull \/ Extend \/ EndOfInput \/ Close \/ Return

Spec == Init /\ [][Next]_vars
-----------------------------------------------------------------------------
(***************************************************************************)
(* The patch whose latent row p reads, p inside the patches: its own at a  *)
(* patch's last byte when another patch follows, else the one before, the  *)
(* first patch standing in for itself.                                     *)
(***************************************************************************)
Holder(p) == CHOOSE k \in DOMAIN patches : patches[k].start <= p /\ p < End(patches[k])

DecoderLatentAt(p) ==
    LET j == Holder(p)
    IN  IF (p + 1 = End(patches[j]) /\ j < Len(patches)) \/ j = 1 THEN j ELSE j - 1

(* Bytes that latent summarises; the decoder overrides the last row of a   *)
(* sequence its caller found closed.                                       *)
RowLatent(p) ==
    IF p = n - 1 /\ NextStartsPatch(config, Newline, bytes, ent) THEN n
    ELSE End(patches[DecoderLatentAt(p)])
-----------------------------------------------------------------------------
(***************************************************************************)
(* Properties.                                                             *)
(***************************************************************************)
ClosedAt(p) == NextStartsPatch(config, Newline, SubSeq(bytes, 1, p), SubSeq(ent, 1, p))
Covered == IF patches = <<>> THEN 0 ELSE End(patches[Len(patches)])
Whole == pc = "done" /\ Covered = n

(* The patches are contiguous from 0, and when the scan returns they cover *)
(* the whole input unless the array filled up.                             *)
Contiguous ==
    /\ \A k \in DOMAIN patches : patches[k].start = IF k = 1 THEN 0 ELSE End(patches[k - 1])
    /\ pc = "done" => Covered = n \/ (Len(patches) = cap /\ Covered < n)

(* The scan never writes past max_patches slots, and it drops the tail of  *)
(* the input exactly when as many boundaries fire as there are slots.      *)
CapacityRespected ==
    /\ Len(patches) <= cap
    /\ pc = "done" => (Covered < n <=> Cardinality({p \in 1..(n - 1) : ClosedAt(p)}) >= cap)

(* No patch is longer than max_patch_length, and a newline byte is always  *)
(* the last byte of its patch when the configuration asks for it.          *)
PatchShape ==
    \A k \in DOMAIN patches :
        /\ patches[k].len <= config.maxLength
        /\ config.newline =>
             \A p \in patches[k].start..(End(patches[k]) - 2) : bytes[p + 1] # Newline

(* What the encoder's blt_patch_build_group_ids requires of every          *)
(* segmentation it is given, and the configuration of its patches.         *)
Tiling == TypeOK /\ Contiguous /\ CapacityRespected /\ PatchShape

(* Boundaries are prefix-decidable: the scan of the whole input cuts at p  *)
(* exactly when blt_next_starts_patch says, from the first p bytes alone,  *)
(* that a patch starts there.  Greedy decoding, the self-speculative       *)
(* drafter and the block drafter rely on it to agree on latents.           *)
PrefixDecidable ==
    \A p \in 1..(i - 1) :
        (\E k \in DOMAIN patches : End(patches[k]) = p)
            <=> ClosedAt(p) /\ (Len(patches) < cap \/ p <= Covered)

(* Past the first patch a decoder row reads no latent that summarises a    *)
(* byte after the row itself, and the latent it reads does not change when *)
(* bytes are appended: it is the one the row reads when the sequence stops *)
(* at it.  Accepting draft bytes from one forward pass over the candidate  *)
(* and reusing cached decoder rows both need this.                         *)
LatentCausal ==
    Whole => \A p \in (patches[1].len - 1)..(n - 1) :
        /\ RowLatent(p) <= p + 1
        /\ RowLatent(p) = LatentEnd({0} \cup {q \in 1..p : ClosedAt(q)}, p + 1, ClosedAt(p + 1), p)
=============================================================================
