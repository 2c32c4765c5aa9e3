---------------------------- MODULE Verification ----------------------------
(***************************************************************************)
(* Verifying a draft: one full forward pass over the candidate x, whose    *)
(* first l bytes are committed, tells how much of it to commit             *)
(* (blt_verify_draft, blt_verify_draft_aligned).  Both generation loops    *)
(* that draft, SelfSpec and BlockGen, commit through these operators.      *)
(***************************************************************************)
EXTENDS Decoding

(* What the pass predicts after the first p bytes of x.                    *)
Pred(e, m, x, p) == Argmax(m, FullView(e, x, p - 1))

MismatchesButLast(e, m, x, l) == {p \in l..(Len(x) - 2) : x[p + 1] # Pred(e, m, x, p)}
Mismatches(e, m, x, l) == {p \in l..(Len(x) - 1) : x[p + 1] # Pred(e, m, x, p)}

(* How far the candidate agrees with the pass: up to the first byte that   *)
(* is not the predicted one.                                               *)
Matched(e, m, x, l) == Min(Mismatches(e, m, x, l) \cup {Len(x)})

Corrected(e, m, x, p) == Append(SubSeq(x, 1, p), Pred(e, m, x, p))

(* blt_verify_draft: the matching bytes, then the pass's own prediction in *)
(* place of the mismatch, or after a full match if there is room for it.   *)
Verified(e, m, x, l, target) ==
    LET p == Matched(e, m, x, l)
    IN  IF p < Len(x) \/ Len(x) < target THEN Corrected(e, m, x, p) ELSE x
-----------------------------------------------------------------------------
(* blt_aligned_commit_select: the largest patch end in (lo, hi], 0 if none. *)
PatchEnds(e, x) == (Starts(e, x) \ {0}) \cup {Len(x)}
CommitSelect(e, x, lo, hi) == Max({0} \cup {b \in PatchEnds(e, x) : lo < b /\ b <= hi})

(* blt_verify_draft_aligned: on a mismatch, only the matching bytes up to  *)
(* the last patch end among them, if there is one; otherwise the same as   *)
(* blt_verify_draft, except that it counts one accepted byte for the       *)
(* correction.                                                             *)
AlignedEnd(e, m, x, l) ==
    IF Matched(e, m, x, l) < Len(x) THEN CommitSelect(e, x, l, Matched(e, m, x, l)) ELSE 0
VerifiedAligned(e, m, x, l, target) ==
    IF AlignedEnd(e, m, x, l) > l THEN SubSeq(x, 1, AlignedEnd(e, m, x, l))
    ELSE Verified(e, m, x, l, target)
CountsDraft(e, m, x, l) == Len(x) - l
AcceptedAligned(e, m, x, l) ==
    IF AlignedEnd(e, m, x, l) > l THEN AlignedEnd(e, m, x, l) - l
    ELSE IF Matched(e, m, x, l) < Len(x) THEN 1 ELSE Len(x) - l
=============================================================================
