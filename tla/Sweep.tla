-------------------------------- MODULE Sweep --------------------------------
(***************************************************************************)
(* The sweep trainer, src/csrc/train_sweep.c: how the windows of a run are *)
(* carved and patched, the entropy model's warmup, the training loop with  *)
(* its evaluations, its signal and its wall-clock guard, and the results   *)
(* file that all invocations append to.                                    *)
(*                                                                         *)
(* A window is named by its index in the list, a trained model by the      *)
(* windows it was stepped on.  Time is not kept: the guard may be hit at   *)
(* any check of it, and a signal or a kill may come at any moment.         *)
(***************************************************************************)
EXTENDS Integers, SequencesExt, FiniteSetsExt

CONSTANTS
    Configs,        \* the sweep's configurations
    MaxRuns         \* bound: invocations started

Entry == [offset : Int, length : Int]
Config == [train : Seq(Entry), heldout : Seq(Entry),    \* the manifest's index
           streamLen : Nat,                 \* bytes of a held-out domain bin
           seqLen : Nat \ {0},
           cap : Nat,                       \* eval_windows, 0 for all
           patcher : {"entropy", "fixed", "whitespace"},
           stride : Nat \ {0},              \* fixed_stride
           maxPatch : Nat,                  \* max_patch_length
           warmup : Nat, steps : Nat, every : Nat \ {0}]

(* The data preparation writes the documents of a split one after another, *)
(* so the entries that have an offset are in order and do not overlap.     *)
InOrder(entries) ==
    \A j, k \in DOMAIN entries :
        j < k /\ entries[j].offset >= 0 /\ entries[k].offset >= 0 =>
            entries[j].offset + entries[j].length <= entries[k].offset

ASSUME SweepAssumption ==
    /\ Configs \subseteq Config /\ MaxRuns \in Nat
    /\ \A c \in Configs : InOrder(c.train) /\ InOrder(c.heldout)

-----------------------------------------------------------------------------
(***************************************************************************)
(* windows_from_manifest: the whole windows of every entry long enough, in *)
(* order, at most limit of them when it is not 0.                          *)
(***************************************************************************)
OneMore(len, seqLen) == len \div seqLen + 1   \* a plausible slip: one window too many

PerEntry(len, seqLen) == len \div seqLen

WindowsOf(e, seqLen) ==
    IF e.offset < 0 \/ e.length < seqLen THEN <<>>
    ELSE [w \in 1..PerEntry(e.length, seqLen) |-> e.offset + (w - 1) * seqLen]

WindowsFromManifest(entries, seqLen, limit) ==
    LET all == FlattenSeq([k \in DOMAIN entries |-> WindowsOf(entries[k], seqLen)])
    IN  IF limit > 0 /\ Len(all) > limit THEN SubSeq(all, 1, limit) ELSE all

WindowsFromStream(len, seqLen, limit) ==
    LET n == len \div seqLen
    IN  [w \in 1..(IF limit > 0 /\ n > limit THEN limit ELSE n) |-> (w - 1) * seqLen]

(***************************************************************************)
(* build_fixed_patches and build_whitespace_patches: the patches of one    *)
(* window, as [start, length] records.  breaks are the positions that hold *)
(* a space, tab or line break.                                             *)
(***************************************************************************)
FixedLength(start, seqLen, stride) ==
    IF start + stride <= seqLen THEN stride ELSE seqLen - start

WhitespaceLength(start, seqLen, max, breaks) ==
    Max({1} \cup {n \in 1..Min({max, seqLen - start}) :
                    \A i \in 1..(n - 1) : start + i - 1 \notin breaks})

(* load_config: a limit that is 0 or longer than the window is the window. *)
MaxPatchLength(c) == IF c.maxPatch \in 1..c.seqLen THEN c.maxPatch ELSE c.seqLen

PatchLength(c, start, breaks) ==
    IF c.patcher = "fixed" THEN FixedLength(start, c.seqLen, c.stride)
    ELSE WhitespaceLength(start, c.seqLen, MaxPatchLength(c), breaks)

BuildPatches(c, breaks) ==
    LET from[start \in 0..c.seqLen] ==
            IF start >= c.seqLen THEN <<>>
            ELSE LET len == PatchLength(c, start, breaks)
                 IN  <<[start |-> start, length |-> len]>> \o from[start + len]
    IN  from[0]

-----------------------------------------------------------------------------
VARIABLES
    cfg,        \* the configuration of the invocation running, or of the last
    phase,      \* of main: "idle", its loops, "final" and "write", and after
                \* the write "return" or "failed", until the process exits
    step,       \* ws in the warmup, step in the training loop
    stop,       \* g_stop_requested
    lm,         \* windows the entropy model was updated on, in order
    model,      \* windows the model was updated on, in order
    exits,      \* how each finished invocation ended, with its training
    results     \* what was appended to the results file, a line or its start
vars == <<cfg, phase, step, stop, lm, model, exits, results>>

Windows == WindowsFromManifest(cfg.train, cfg.seqLen, 0)
Heldout == WindowsFromManifest(cfg.heldout, cfg.seqLen, cfg.cap)
Domain == WindowsFromStream(cfg.streamLen, cfg.seqLen, cfg.cap)
UsesEntropyPatcher == cfg.patcher = "entropy"

Init ==
    /\ cfg \in Configs
    /\ phase = "idle" /\ step = 0 /\ stop = FALSE
    /\ lm = <<>> /\ model = <<>>
    /\ exits = <<>> /\ results = <<>>

Exit(code) ==
    /\ exits' = Append(exits, [code |-> code, cfg |-> cfg, model |-> model])
    /\ phase' = "idle"

(***************************************************************************)
(* main up to its loops.  A manifest without a training window is fatal.   *)
(* Without an entropy model there is no warmup, but the training loop      *)
(* starts after the warmup's steps all the same.                           *)
(***************************************************************************)
FromTheStart == 0       \* a plausible slip
MainLoopStart == cfg.warmup

Start ==
    /\ phase = "idle" /\ Len(exits) < MaxRuns
    /\ cfg' \in Configs
    /\ lm' = <<>> /\ model' = <<>> /\ stop' = FALSE
    /\ IF WindowsFromManifest(cfg'.train, cfg'.seqLen, 0) = <<>>
       THEN /\ exits' = Append(exits, [code |-> 1, cfg |-> cfg', model |-> <<>>])
            /\ UNCHANGED <<phase, step>>
       ELSE /\ \/ /\ cfg'.patcher = "entropy" /\ cfg'.warmup > 0
                  /\ phase' = "warmup" /\ step' = 0
               \/ /\ ~(cfg'.patcher = "entropy" /\ cfg'.warmup > 0)
                  /\ phase' = "train" /\ step' = cfg'.warmup
            /\ UNCHANGED exits
    /\ UNCHANGED results

Signal ==
    /\ phase # "idle" /\ ~stop
    /\ stop' = TRUE
    /\ UNCHANGED <<cfg, phase, step, lm, model, exits, results>>

Kill == phase # "idle" /\ Exit(137) /\ UNCHANGED <<cfg, step, stop, lm, model, results>>

(* one iteration of the warmup, or its end *)
WarmupStep ==
    /\ phase = "warmup" /\ step < cfg.warmup /\ ~stop
    /\ lm' = Append(lm, step % Len(Windows))
    /\ step' = step + 1
    /\ UNCHANGED <<cfg, phase, stop, model, exits, results>>

WarmupStopped ==
    /\ phase = "warmup" /\ step < cfg.warmup /\ stop
    /\ Exit(130)
    /\ UNCHANGED <<cfg, step, stop, lm, model, results>>

WarmupDone ==
    /\ phase = "warmup" /\ step >= cfg.warmup
    /\ phase' = "train" /\ step' = MainLoopStart
    /\ UNCHANGED <<cfg, stop, lm, model, exits, results>>

(* a plausible slip: a signal leaves the loop only *)
LeavesLoopOnly ==
    /\ phase = "train" /\ step < cfg.steps /\ stop
    /\ phase' = "final"
    /\ UNCHANGED <<cfg, step, stop, lm, model, exits, results>>

(* the two checks at the top of the loop *)
TrainStopped ==
    /\ phase = "train" /\ step < cfg.steps /\ stop
    /\ Exit(130)
    /\ UNCHANGED <<cfg, step, stop, lm, model, results>>

WallClockGuard ==
    /\ phase = "train" /\ step < cfg.steps /\ ~stop
    /\ Exit(124)
    /\ UNCHANGED <<cfg, step, stop, lm, model, results>>

(* the rest of an iteration: the model's update, then the entropy model's *)
TrainStep ==
    LET w == step % Len(Windows)
    IN  /\ phase = "train" /\ step < cfg.steps /\ ~stop
        /\ model' = Append(model, w)
        /\ lm' = IF UsesEntropyPatcher THEN Append(lm, w) ELSE lm
        /\ phase' = IF (step + 1) % cfg.every = 0 THEN "eval" ELSE "train"
        /\ step' = step + 1
        /\ UNCHANGED <<cfg, stop, exits, results>>

(* eval_stream over the held-out windows; it reads neither flag nor clock *)
Evaluate ==
    /\ phase = "eval"
    /\ phase' = "train"
    /\ UNCHANGED <<cfg, step, stop, lm, model, exits, results>>

TrainDone ==
    /\ phase = "train" /\ step >= cfg.steps
    /\ phase' = "final"
    /\ UNCHANGED <<cfg, step, stop, lm, model, exits, results>>

FinalEvaluation ==
    /\ phase = "final"
    /\ phase' = "write"
    /\ UNCHANGED <<cfg, step, stop, lm, model, exits, results>>

(***************************************************************************)
(* bench_write_json appends one line, which stdio keeps until fclose.  If  *)
(* the file does not open nothing is written; when a print or the close    *)
(* fails, the flush may have written nothing, a part of the line without   *)
(* its end, or all of it.  Only then does main return, or fail: a kill may *)
(* come between the write and the exit.                                    *)
(***************************************************************************)
ResultLine(whole) == [run |-> Len(exits) + 1, latencies |-> Len(model), whole |-> whole]

AppendLine ==
    /\ phase = "write"
    /\ results' = Append(results, ResultLine(TRUE))
    /\ phase' = "return"
    /\ UNCHANGED <<cfg, step, stop, lm, model, exits>>

WriteFails ==
    /\ phase = "write"
    /\ results' \in {results} \cup {Append(results, ResultLine(whole)) : whole \in BOOLEAN}
    /\ phase' = "failed"
    /\ UNCHANGED <<cfg, step, stop, lm, model, exits>>

Return == phase = "return" /\ Exit(0) /\ UNCHANGED <<cfg, step, stop, lm, model, results>>

Fail == phase = "failed" /\ Exit(1) /\ UNCHANGED <<cfg, step, stop, lm, model, results>>

Next ==
    \/ Start \/ Signal \/ Kill
    \/ WarmupStep \/ WarmupStopped \/ WarmupDone
    \/ TrainStopped \/ WallClockGuard \/ TrainStep \/ Evaluate \/ TrainDone
    \/ FinalEvaluation \/ AppendLine \/ WriteFails \/ Return \/ Fail

Spec == Init /\ [][Next]_vars

-----------------------------------------------------------------------------
TypeOK ==
    /\ cfg \in Configs
    /\ phase \in {"idle", "warmup", "train", "eval", "final", "write", "return", "failed"}
    /\ step \in Nat /\ stop \in BOOLEAN
    /\ Range(lm) \cup Range(model) \subseteq 0..(Len(Windows) - 1)

(***************************************************************************)
(* Every training and held-out window lies inside one manifest entry, no   *)
(* two overlap, they come in the order of the entries, as many as fit up   *)
(* to the cap; and for every placement of the breaks the patches of a      *)
(* window tile it, none longer than the rule allows.                       *)
(***************************************************************************)
CarvedInside(ws, entries) ==
    /\ \A k \in DOMAIN ws : \E e \in Range(entries) :
            e.offset >= 0 /\ ws[k] >= e.offset /\ ws[k] + cfg.seqLen <= e.offset + e.length
    /\ \A k \in 1..(Len(ws) - 1) : ws[k] + cfg.seqLen <= ws[k + 1]

NoneLeftOut ==
    \A k \in DOMAIN cfg.train :
        LET e == cfg.train[k]
            inside == {w \in Range(Windows) : w >= e.offset /\ w < e.offset + e.length}
        IN  e.offset >= 0 => e.length - Cardinality(inside) * cfg.seqLen < cfg.seqLen

Tiled(patches) ==
    /\ patches[1].start = 0
    /\ \A k \in DOMAIN patches :
        LET end == patches[k].start + patches[k].length
        IN  /\ patches[k].length \in 1..(IF cfg.patcher = "fixed" THEN cfg.stride
                                         ELSE MaxPatchLength(cfg))
            /\ end = IF k = Len(patches) THEN cfg.seqLen ELSE patches[k + 1].start

Carved ==
    /\ CarvedInside(Windows, cfg.train) /\ NoneLeftOut
    /\ CarvedInside(Heldout, cfg.heldout)
    /\ CarvedInside(Domain, <<[offset |-> 0, length |-> cfg.streamLen]>>)
    /\ cfg.cap > 0 => Len(Heldout) <= cfg.cap /\ Len(Domain) <= cfg.cap
    /\ ~UsesEntropyPatcher =>
        \A breaks \in SUBSET (0..(cfg.seqLen - 1)) : Tiled(BuildPatches(cfg, breaks))

(***************************************************************************)
(* Through the warmup and the training loop together the entropy model is  *)
(* updated on the windows in order, none skipped or repeated where one     *)
(* loop hands over to the other, and the model on those after the warmup's *)
(* (so that runs with and without an entropy model, and the entropy models *)
(* of different runs, see the same windows at the same step).              *)
(***************************************************************************)
SameDataOrder ==
    phase # "idle" =>
        /\ model = [k \in 1..Len(model) |-> (cfg.warmup + k - 1) % Len(Windows)]
        /\ lm = [k \in 1..Len(lm) |-> (k - 1) % Len(Windows)]
        /\ UsesEntropyPatcher => Len(lm) = step

(* An invocation that ended, or the one running.                           *)
Invocation(n) == IF n \in DOMAIN exits THEN exits[n] ELSE [cfg |-> cfg, model |-> model]

(***************************************************************************)
(* Results are compared with each other, so a run cut short must not be    *)
(* among them.  Whatever stands in the file belongs to an invocation that  *)
(* made every step of its training loop, and no invocation wrote twice;    *)
(* one that exited 0 has its whole line, and one stopped by a signal or    *)
(* the wall clock left nothing.  A line does not show that its run exited  *)
(* 0: it may have been killed after the write, or the close may have       *)
(* failed after the flush.                                                 *)
(* harness.h has partial and killed runs never corrupt the history.  That  *)
(* is not among these promises: a write that failed halfway leaves a line  *)
(* open, and the next run's line continues it.                             *)
(***************************************************************************)
OnlyWholeRuns ==
    /\ TypeOK
    /\ \A k \in DOMAIN results :
        LET run == Invocation(results[k].run)
        IN  /\ Len(run.model) = Max({0, run.cfg.steps - run.cfg.warmup})
            /\ results[k].latencies = Len(run.model)
    /\ \A j, k \in DOMAIN results : results[j].run = results[k].run => j = k
    /\ \A n \in DOMAIN exits :
        LET written == {k \in DOMAIN results : results[k].run = n}
        IN  /\ exits[n].code = 0 => \E k \in written : results[k].whole
            /\ exits[n].code \in {124, 130} => written = {}
==============================================================================
