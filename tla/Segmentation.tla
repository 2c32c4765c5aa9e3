---------------------------- MODULE Segmentation ----------------------------
(***************************************************************************)
(* Patches of a byte sequence: the rule that decides where one starts, and *)
(* the latent a decoder row reads.  Pure operators, used by the patcher's  *)
(* scan (Patcher) and by every generation loop (through Decoding).         *)
(*                                                                         *)
(* Byte positions count from 0 as in the code, sequences from 1: e[i] is   *)
(* entropy_data[i-1] and x[i] is bytes[i-1], what a boundary at i reads.   *)
(* A segmentation of n bytes is the set S of its patches' start positions, *)
(* 0 among them; its patches then tile 0..n-1 by construction, which is    *)
(* what Patcher shows of the code's patch array.                           *)
(***************************************************************************)
EXTENDS Integers, Sequences, FiniteSetsExt

(***************************************************************************)
(* Does a patch start at position i, when the patch before it started at s *)
(* (so it is i - s long)?  nl is the value 0x0A.                           *)
(***************************************************************************)
Above(c, e, i) == e[i] > c.global
Rising(c, e, i, s) == i >= s + 2 /\ e[i] - e[i - 1] > c.monotonic

ReadsByteAhead(c, nl, x, e, i, s) ==
    \/ c.newline /\ i < Len(x) /\ x[i + 1] = nl
    \/ i - s >= c.maxLength
    \/ c.rule \in {"global", "both"} /\ Above(c, e, i)
    \/ c.rule \in {"monotonic", "both"} /\ Rising(c, e, i, s)

PatchBoundary(c, nl, x, e, i, s) ==
    \/ c.newline /\ x[i] = nl
    \/ i - s >= c.maxLength
    \/ c.rule \in {"global", "both"} /\ Above(c, e, i)
    \/ c.rule \in {"monotonic", "both"} /\ Rising(c, e, i, s)

(* Where the patch that holds position p starts, by the scan's recurrence. *)
OpenStart(c, nl, x, e) ==
    LET s[p \in 0..(Len(x) - 1)] ==
            IF p = 0 THEN 0
            ELSE LET before == s[p - 1]
                 IN  IF PatchBoundary(c, nl, x, e, p, before) THEN p ELSE before
    IN  s

(* blt_next_starts_patch: would a patch start right after x?               *)
AlwaysOpen(c, nl, x, e) == FALSE
NextStartsPatch(c, nl, x, e) ==
    PatchBoundary(c, nl, x, e, Len(x), OpenStart(c, nl, x, e)[Len(x) - 1])
-----------------------------------------------------------------------------
(* Where the patch of S that holds position q starts, and the next start   *)
(* after q; the last patch ends at the end n of the sequence.              *)
PatchStart(S, q) == Max({s \in S : s <= q})
NextStart(S, n, q) == Min({t \in S \cup {n} : t > q})

(***************************************************************************)
(* How many leading bytes the latent read by row q summarises: the global  *)
(* transformer is causal over patches, so the latent of a patch stands for *)
(* every byte up to that patch's end.  A row past the sequence, and the    *)
(* last row of a sequence that is closed, read the last patch; the final   *)
(* byte of a patch with a successor reads its own; any other row reads the *)
(* patch before, the first patch standing in for itself.                   *)
(***************************************************************************)
LatentEnd(S, n, closed, q) ==
    IF q >= n \/ (closed /\ q = n - 1) THEN n
    ELSE LET s == PatchStart(S, q)
             e == NextStart(S, n, q)
         IN  IF (q + 1 = e /\ e < n) \/ s = 0 THEN e ELSE s
=============================================================================
