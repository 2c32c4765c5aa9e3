# Verification of fBLT

fBLT is a byte-level language model in C: an entropy model cuts the bytes into
patches, an encoder summarises patches, a global transformer turns them into
latents, a decoder predicts the next byte. These modules model the program's
own logic: how it decodes faster than one full pass per byte and claims the
result is still that of greedy decoding; which row of the network reads which
byte, and which gradient comes back; how kernels of cooperating threads agree
with the host loops; how training survives being stopped, killed and resumed;
and what files carry from training to inference. TLC checks the models, TLAPS
proves the central claims that hold.

Paths below are relative to the repository; `infer/...` stands for
`csrc/infer/...` and so on, `fblt/...` is the Python package.

## 1. The system

| Component | State it keeps | Operations | Talks to |
|---|---|---|---|
| Entropy patcher (`models/patcher.c`, `ops/patch_pool_cpu.c`) | the open patch, the patch array | scan, emit, trailing-closure query, latent of a row | every loop over bytes |
| Forward pass (`models/model.c`, `local_encoder.c`, `global_transformer.c`, `local_decoder.c`, `transformer_stack.c`, `transformer.c`) | activations of one pass | embed, pool, cross-attend, decode; the same backward | generation, training |
| Masks (`ops/mask_builder_cpu.c`, `mask_builder.cu`) | none | host loops, one device thread per cell | every attention |
| N-gram embeddings (`models/hash_ngram.c`) | none | rolling hash of a position | encoder |
| Block batches (`models/block_diffusion.c`) | layout of block rows | build, corrupt, train, draft | training, drafting |
| Kernels (`ops/*.cu`) | shared memory, atomics | reductions, attention, norms, scatter-add | the operations above |
| Greedy and sampling loop (`core/generate_greedy.c`, `core/decode_select.c`) | committed bytes, random stream | one pass and one byte per step | reference for the others |
| BLT-S (`infer/self_speculation.c`), KV cache (`infer/kv_cache.c`) | committed bytes, draft; decoder rows (tier 1), patch entries (tier 2) | segment, refresh, draft, verify | verification |
| Verification (`infer/self_speculation.c`) | none | accept up to a mismatch, correct, free byte; aligned variant | BLT-S, BLT-DV |
| BLT-D / BLT-DV (`infer/block_generation.c`) | committed bytes, masked block, adaptive size and history | AR byte, draft, accept or verify, adapt | verification |
| Counters (`infer/stats.c`) | five counters | bumped at each call site | both speculative loops |
| Training (`train_blt_d.c`, `train_optim.c`, `train_schedule.c`, `train_diag.c`) | weights, reduced copies, gradients, moments, step, best metric | step, save, evaluate, resume | files |
| Sweep runner (`train_sweep.c`, `harness.c`) | windows, step, signal flag, results file | carve, warm up, train, evaluate, append a line, exit | manifest, results file |
| Wrapper (`fblt/_runner.py`, `fblt/train.py`) | child process, two pipes, metrics file, three threads | drain, tail, log, finish | trainer |
| Files (`models/checkpoint.c`, `train_optim.c`, `fblt/infer.py`, `infer.c`, the package's export) | checkpoint, optimizer file, entropy model, `resolved_config.yaml` | save in place, checked load, layer options | training and inference commands |
| Arena (`core/allocator.c`) | offset | allocate, reset, restore a marker | everything |

The library runs on one thread. What is hard there is state reused across
rounds: caches filled under bytes that were rejected later, segmentations
recomputed on longer inputs, counters and rings that must match what was
committed, weights whose reduced copies lag. Threads appear in the kernels and
in the wrapper; crashes where files are written in place.

What makes each component correct:

- **Patcher**: patches tile the input; a boundary depends on nothing after it.
- **Network**: a row reads no byte it has to predict; a block has the same
  context in training and drafting; documents do not mix; gradients go back
  exactly along what was read.
- **Kernels**: no race, the host's result under every schedule, no hang.
- **Greedy loop**: knobs off, each byte is the prediction of a full pass;
  sampling draws only from what the knobs leave.
- **BLT-S**: the bytes of greedy decoding; the cache is indistinguishable from
  recomputation; progress every round; no internal check fails.
- **BLT-DV**: the verifier's greedy bytes; **BLT-D**: exactly the drafted bytes;
  no mask token survives a draft; block sizes stay in range.
- **Counters**: explain every committed byte and every pass.
- **Training**: a run stopped, killed and resumed from a matching pair of files
  equals one uninterrupted run; numbered checkpoints bound what a kill costs;
  the best file is the best measured model; each window counts once per epoch.
- **Sweep**: windows carved without overlap, runs comparable step by step; what
  stands in the results file comes from runs that made every step, once each.
- **Wrapper**: events logged once and in order; the command returns.
- **Files**: a load that succeeds gives each parameter its own saved values;
  inference uses the shape and the patching the model was trained with (and the
  D_0 policy only if that was the default, section 5).

## 2. Modules

| Module | Models |
|---|---|
| `Segmentation` | the boundary rule and the latent rule, as pure operators |
| `Patcher` | `blt_segment_patches` as a scan with its array and capacity |
| `Decoding` | a forward pass: the bytes and latents each decoder row read |
| `GreedyDecode` | abstract: committed bytes grow by allowed bytes up to the target |
| `GreedyLoop` | `generate_loop`, `blt_decode_select` |
| `Verification` | `blt_verify_draft`, `blt_verify_draft_aligned`, `blt_aligned_commit_select` |
| `SelfSpec` | `blt_generate_greedy_selfspec`, `kv_cache.c` |
| `BlockDraft` | `blt_draft_block` and its two selection rules |
| `BlockGen` | `generate_common`, `ar_next_byte`, `blt_block_adapt_b` |
| `TransformerLayer` | the operations of a layer and their gradients, as linear maps of rows |
| `MaskBuilder` | the attention and block-diffusion masks, on the host and on the device; the row check |
| `HashNgram` | the rolling hash and its buckets |
| `Dataflow` | one pass of the network forward, recomputed and backward: plain model, BLT-D training, BLT-D drafting |
| `Kernels` | reductions, two attention forwards, attention backward, RMSNorm backward, scatter-add, thread by thread; the row kernels (softmax, loss, rotary, RMSNorm), element kernels and copies over a bounded grid |
| `WindowOrder` | `train_window_index`: the affine visit order and its coprime multiplier |
| `Training` | the main loop of `train_blt_d.c`, `train_optim.c`, saves, loads, kills, several invocations |
| `Checkpoint` | the files between training and inference, both backends, and the layering of options |
| `Sweep` | `train_sweep.c` over one or more invocations |
| `Metrics` | the trainer's metrics file and pipes, `_runner.py`'s threads |
| `NumberProofs` | lemmas: least and greatest, division, induction up to a bound and over a finite set, recursive functions exist, sums and other folds over sets |
| `DecodingProofs` | lemmas: forward passes, segmentations of prefixes, the verifiers |
| `SelfSpecProofs`, `BlockGenProofs` | theorems of a module each |
| `PatchProofs` | theorems of `Patcher` and `Dataflow`: how bytes are cut into patches and what is read through them |
| `SelectionProofs` | theorems of `BlockDraft` and `GreedyLoop`: how bytes and cells are selected |
| `TrainingProofs` | theorems of `Training` and `Checkpoint` |
| `RunnerProofs` | theorems of `Sweep`, `Metrics` and `Kernels` |
| `MC...` | instances for TLC |

`Patcher` extends `Segmentation`, and so does `Decoding`, which is extended by
`Verification`, which `SelfSpec` and `BlockGen` extend. `GreedyLoop`, `SelfSpec`
and `BlockGen` each instantiate `GreedyDecode` with a refinement mapping.
`BlockGen` takes a draft to be any block of bytes after 1 to `block_size`
passes, which is exactly `DraftContract` of `BlockDraft`; `Decoding` takes a
segmentation to be prefix-decidable, which is `PrefixDecidable` of `Patcher`,
and a decoder row to depend on two prefixes only, which is `CleanCausal` and
`BlockReadsItsPrefix` of `Dataflow`. `Dataflow` composes `Segmentation`,
`TransformerLayer`, `MaskBuilder` and `HashNgram`, and takes the kernels to
compute what the host loops do, which is what `Kernels` checks. `Training`
extends `WindowOrder`. `Checkpoint` looks into the files that `Training` treats
as whole. Where one proof module is about two models, the second's specification
carries another name: `GenSpec` of `GreedyLoop`, `WrapperSpec` of `Metrics`,
`FilesSpec` of `Checkpoint`, `PassSpec` of `Dataflow`, `KernelSpec` of `Kernels`.

### The abstraction of generation

A decoder row is tagged with the two prefixes that determine it: the bytes its
encoder output read (`h`) and the bytes its patch latent summarises (`o`); a
pass is the sequence of rows up to the one asked for (`View`). `Predict(m, rows)`
is the argmax of the last row's logits and `Boundary(e, x)` the patcher's
decision after `x`: both constants, so whatever is proved holds for every
network, threshold and patching rule. Two passes agree on a byte for sure only
if they read the same rows; that is how a stale cache row, a wrong latent or a
missing trailing closure shows. Rounding noise between the batched and the
incremental kernels is not modelled.

### The abstraction of the network

In `Dataflow` a row is a linear form over the inputs: a weight matrix, a norm
and a rotation each multiply by a number of their own, attention adds the rows
attended, a gate adds its branches, all modulo a prime. The forward pass is then
a matrix of path weights and the backward pass must produce its transpose:
`GradientFollowsReads` compares the two entry by entry, so a gradient multiplied
by another layer's weight, added twice, dropped or sent to another row shows,
unless two products collide modulo 9973. What a nonlinear operation would change
(which value a derivative is taken at) is covered only where the code recomputes
the forward pass before going back: `redo` must equal the first forward.
Abstracted: several heads, which share a mask, to one; sub-tokens of a patch to
one; n-gram sizes to one at a time; the masks, built where they are used, to the
start of the pass. The drawing of mask timesteps is any set of masked cells.

### The abstraction of kernels

A thread runs from one barrier to the next in one step, and each access it makes
is logged until the barrier: `NoRace` says the log never holds a write and
another thread's access of one cell, which is what makes the step sound. Shuffles
are steps of a whole warp, atomic additions steps of their own. A sum is the
sequence of its terms, so order and multiplicity show. One block of each launch
of cooperating threads is modelled: blocks of one launch write different
outputs, except in the scatter-add, whose rows are spread over the threads of one
block. The kernels whose threads do not cooperate, one thread per row or per
element, are functions of the launch: `GridThreads` is `blt_cuda_grid` with its
cap, here `GRID` blocks, and what a thread does beyond its first row or element
is the kernel's own stride loop, or nothing where it has none.

### Correspondence

One action is one operation of the code, with everything that operation does:

- `SelfSpec`: `Segment` (segment and encode), `MaintainCache` (common prefix,
  truncate, refresh), `Prefill` (chunk decode, write-through, first draft byte,
  or the single AR byte when the window is zero), `DraftStep`, `Verify`,
  `Finish`; `Abort` is a failed `BLT_REQUIRE`, with the same conditions negated.
  `out` is `output_bytes[0..l)`, `rows` the rows behind tier 1 up to
  `self_len`, `cross` the entries of `cached_patches` with what their keys and
  values summarise.
- `BlockGen`: `ArByte`, `DraftBlock`, `AcceptDraft` (BLT-D), `Verify` (BLT-DV,
  with the adaptation that follows it), `Finish`, `Abort`. `hist` and `histPos`
  are the acceptance ring, in units of `1 / Unit` so that ratios are exact;
  `rounds`, a history variable no guard reads, is what each verified round gained
  and drafted, so that a property can say which rates the ring must hold. A
  prompt of one byte is accepted and aborts in the first round (`Encodable`): the
  entropy model wants two.
- `BlockDraft`: `Pass` is one decoder pass and the selection after it.
- `GreedyLoop`: `Step` is a pass and the byte chosen from it.
- `Patcher`: `Cut`, `StopFull`, `Extend`, `EndOfInput`, `Close` are the branches
  of the scan.
- `Dataflow`: an action per stage, and per layer within a stack. `h`, `p`, `o`
  and `d` are the states of the encoder, the pooled patches, the global
  transformer and the decoder; `gh`, `gp`, `gd`, `ge` the gradients.
- `Kernels`: an action per stretch between two barriers of each kernel, with the
  thread as its parameter.
- `Training`: `Train` is one optimizer step with all its micro-batches;
  `Monitor`, `Evaluate` and `LoopEnds` are what follows a step and the loop, in
  the code's order; `OpenFile` and `CloseFile` are the `fopen` and `fclose` of a
  save, so that a `Kill` falls between them or between the two files of a
  checkpoint; `StartFresh` and `Resume` are invocations, the latter with or
  without the optimizer file and `--start-step`. Weights and moments are the
  list of updates applied to them, and an update holds the gradient, the moments
  and the schedule it used. `copies` are the bf16 copies that forwards
  read, refreshed when the code does. A file is `Torn` from open to close.
  `evals` and `ways`, and `end` and `ways` inside a file, are history variables
  that no guard reads: `ways` names how a resumed lineage departs from a
  continuous run: `cold` (weights without the optimizer file, or without the
  step), `mismatch` (two files of different steps), `replanned` (a schedule that
  depends on the end of the invocation, and an end that differs from that of
  either file), `best` (resumed from the best pair; its values are continuous,
  its numbered checkpoints are not its own).
- `Checkpoint`: `Configure` is a training command up to its
  `resolved_config.yaml`; `Start` opens the files; `Step`, `Save`, `SaveBest`,
  `End` are the trainer's; `SaveKilled` and `MomentsKilled` leave a file cut
  after some of its entries; `Infer` and `TorchInfer` are whole inference
  commands, whose outcome is in `last`. A payload is where values come from.
- `Sweep`: an action per exit of each loop and per step; `AppendLine` is the
  append to the results file, `WriteFails` one that fails with nothing, part of
  the line or all of it written, `Return` and `Fail` the exits that follow, so
  that a `Kill` may fall in between; `Signal` and `Kill` at any moment.
- `Metrics`: `Trainer`, `ChildExits` and `Abort` the child, `Drain` and
  `EndOfStream` the two readers, `TailThread` the tail, `Main` the main thread.

## 3. Runs

| Run | Checks | Shows |
|---|---|---|
| `reads` | `Tiling`, `PrefixDecidable`, `LatentCausal` of `Patcher`; `BlockReadsItsPrefix`, `CleanCausal`, `DocumentsIsolated`, `GradientFollowsReads` of `Dataflow` | the scan and the latent rule on every input up to 5 bytes, every rule, limit and array; who reads what, and where gradients go, in every pass over 5 bytes, with both mask builders and the rolling hash |
| `selection` | `SamplingContract`, `ImplementsGreedy` of `GreedyLoop`; `DraftContract`, `EntropyBoundOptimal` of `BlockDraft` | plain generation with eight knob settings; drafting one block |
| `selfspec` | `GreedyOnceFirstPatchClosed`, `CacheFaithful`, `NoSpuriousAbort`, `CommitAccounting`, `FirstDraftAccepted`, `Termination`, `ImplementsGreedy` | BLT-S with its cache |
| `selfspec_progress` | `ForcedProgressCounted` is violated | the second finding of section 5 |
| `blockgen` | `NoSpuriousAbort`, `CommitAccounting`, `HistoryIsRecent`, `Termination`, `ImplementsGreedy` | BLT-D and BLT-DV |
| `kernels` | `NoRace`, `ForwardAgrees`, `BackwardAgrees`, `Terminates` | cooperating threads, row and element kernels against the host loops |
| `kernels_gradq`, `kernels_gradkv`, `kernels_scale` | `GradQSumsKeys`, `KvSumsQueries`, `ScalesAll` are violated | the kernel findings of section 5 |
| `training` | `ResumedIsContinuous`, `RecentCheckpoint`, `BestIsBest`, `EpochOnce` | up to three invocations, killed anywhere |
| `checkpoint` | `LoadedIsSaved`, `MomentsBelong`, `InferredAsTrained` | files and options from training to inference, C and PyTorch |
| `tools` | `Carved`, `SameDataOrder`, `OnlyWholeRuns` of `Sweep`; `LoggedInOrder`, `ReadIsLogged`, `Returns` of `Metrics` | the sweep runner, interrupted anywhere; trainer, readers and tail, interleaved |

`reads`, `selection` and `tools` each check two components in one search. The two
share no state: a behaviour picks one and leaves the other where it started
(`MCTools`: where it ended), so nothing is composed, and each component is
explored as it would be alone.

Each module's `TypeOK` is a conjunct of one of its invariants (`Tiling` also
holds the capacity and shape of patches, `HistoryIsRecent` the range of the
adaptive size, `SamplingContract` the nucleus and the penalty).

### Bounds

- `reads`, the patcher: 2 byte values (newline and another), 3 entropies, 1 to 5 bytes, the
  three rules, maximum lengths 2 and 3, arrays of 1, 2 and 4 patches. A boundary
  reads at most two entropies and one byte, and five bytes hold two full patches
  and an open one, so every pair of adjacent boundary causes occurs. Without the
  newline rule the scan does not look at the bytes, and one text per length is
  enough.
- `selection`, the greedy loop: 3 byte values, 4 entropy models, 3 networks, up to 4 new bytes, a
  penalty history of 3 bytes instead of 256 so that bytes leave it.
- `selfspec`: 2 byte values, 4 entropy models (two rules, two seeds), 3 networks,
  prompts of 2 and 3 bytes, windows 1 to 3, up to 7 new bytes, 9 decoder rows,
  5 patches, patch latents split in 2. Several rounds with full acceptance,
  rejection at each place and a changed trailing patch occur, and so do both
  capacity aborts.
- `blockgen`: 2 byte values, 4 entropy models, 2 networks in either role, prompts
  of 1 and 2 bytes (the former abort), up to 6 new bytes, blocks up to 3 and configurations for
  BLT-D, BLT-DV, aligned, adaptive from outside the range, and adaptive past the
  mask width. `Unit` = 6 makes every acceptance ratio exact.
- `selection`, the block: 1 to 4 cells, 4 scores, 4 thresholds, both rules; every score
  vector and prediction at every pass.
- `reads`, the passes: `N` = 5 bytes cut every way into patches and documents, blocks of
  `B` = 2, so that a block can run past the end and start anywhere; two layers of
  each stack, so that cross-attention in the first, the last, all and no layers
  are four cases; windows of 2 and none; n-grams of 2 and 3; every set of masked
  cells. `Modulus` = 9973 over small weights, all different within a layer and
  between layers; the hash uses `HashPrime` = 7 and `HashModulus` = 11 for a
  prime and a 64-bit word, which keeps every coefficient different from zero.
- `kernels`: blocks of `T` = 4 threads in warps of `W` = 2 and tiles of 2 keys,
  with fewer elements than threads, as many, more, and partial last tiles; every
  hidden set of keys for up to 3 keys and chosen ones for 5, so that whole tiles
  and whole rows are hidden. Every interleaving between barriers. The head sizes
  of the key/value gradient are 1 to 4, for up to 6 queries in
  `T / head_dim` chunks, rounded up. `GRID` = 2 blocks
  instead of 4096 at most, so that launches with fewer rows or elements than
  threads, as many and one more all occur.
- `training`: `MaxStep` = 5 optimizer steps (no lineage goes further),
  `MaxStarts` = 3 invocations, `MaxTries` = 1 step of the search for a coprime
  multiplier instead of 64, so that giving up occurs. Corpora of 4 and 6
  windows: five steps reach a second epoch, with accumulation too. The setups
  cover AdamW and SGD, numbered and overwritten files, fraction schedules, the
  monitor, evaluation with a metric that rises, falls and is invalid, with and
  without numbered saves, bf16 copies, and a skipped window under accumulation.
- `checkpoint`: `MaxRuns` = 2 trainings, so that one resumes what another left;
  two shapes with as many tensors in another order; `Cuts` = {0, 20} entries
  written before a kill (none, and past the first layer).
- `tools`, the sweep: `MaxRuns` = 2 invocations of 5 steps over windows of 3 bytes; entries
  too short, exact, with a remainder, negative; warmups of 0, 2 and 6 steps.
- `tools`, the wrapper: 4 events, the third unparsable; two prints to each stream and pipes
  that hold one, so that the child blocks on a full pipe. `Old` = 0: a file left
  by an earlier run of the same name is set aside (section 5).

Networks are hash functions of the rows they read, entropies hashes of the
prefix: collisions can hide a difference in one network, hence several. No
symmetry is used, since bytes are hashed and compared.

`Abort` is a terminal state of the generation loops, as is `done`; both stutter,
so deadlock checking stays on and finds any state where a loop would be stuck.
`Rest` in `Training` is the end of the bounded history. `Kernels`, `Metrics` and
`Sweep` really stop (a launch ends, a command returns, `MaxRuns` is reached), and
their runs do not check for deadlock: `Terminates` and `Returns` say what a
deadlock would break in the first two, and `Sweep` waits for nothing.

### Fairness

- The generation loops run on one thread and nothing in them waits, so they keep
  stepping until they return: weak fairness of `Next` in `SelfSpec` and
  `BlockGen`. It is written as `[]<>(returned) \/ []<><<Next>>_vars`, which is
  weak fairness with its enabling condition spelled out (a loop can step exactly
  when it has not returned), to spare TLC the computation of `ENABLED`. No
  fairness between branches is assumed.
- `Kernels`: weak fairness of `KernelNext`: the device runs some thread as long as one
  can run. No thread waits for another except at a barrier, so nothing more is
  needed.
- `Metrics`: weak fairness of the child and of each thread, which the operating
  system schedules; none of `Abort`.
- The other modules check safety only and assume none.

## 4. Proofs

TLAPS checks every theorem for every value of the constants that satisfies the
named `ASSUME`s, and for every number of steps.

| Module | Theorem | States |
|---|---|---|
| `SelfSpecProofs` | `TypeCorrect` | `[]TypeOK` |
| | `CacheIsFaithful` | `[]CacheFaithful` |
| | `CommitsAreGreedy` | `[]GreedyOnceFirstPatchClosed` |
| | `CommitsAccounted` | `[]CommitAccounting` |
| | `NeverAbortsSpuriously` | `[]NoSpuriousAbort` |
| | `FirstDraftsAreAccepted` | `FirstDraftAccepted` |
| | `RoundsImplementGreedy` | `Spec => Greedy!Spec`, the refinement |
| `BlockGenProofs` | `TypeCorrect` | `[]TypeOK` |
| | `CommitsAccounted` | `[]CommitAccounting` |
| | `HistoryStaysRecent` | `[]HistoryIsRecent` |
| | `NeverAbortsSpuriously` | `[]NoSpuriousAbort` |
| | `BlocksImplementGreedy` | `Spec => Greedy!Spec`, the refinement |
| `SelectionProofs` | `DraftsAreBytes` | `[]DraftContract` |
| | `EntropyBoundTakesMost` | `[]EntropyBoundOptimal` |
| | `KnobsKeepTheirPromise` | `GenSpec => []SamplingContract` |
| | `PlainLoopIsGreedy` | `GenSpec => Greedy!Spec`, the refinement |
| `PatchProofs` | `PatchesTile` | `[]Tiling` |
| | `CutsAreDecidable` | `[]PrefixDecidable` |
| | `LatentsAreCausal` | `[]LatentCausal` |
| | `DocumentsStayApart` | `PassSpec => []DocumentsIsolated` |
| | `CleanRowsAreCausal` | `PassSpec => []CleanCausal` |
| | `BlocksReadTheirPrefix` | `PassSpec => []BlockReadsItsPrefix` |
| `TrainingProofs` | `TypeCorrect` | `[]TypeOK` |
| | `ResumeIsExact` | `[]ResumedIsContinuous` |
| | `KillCostsLittle` | `[]RecentCheckpoint` |
| | `WindowsOnce` | `[]EpochOnce` |
| | `BestIsKept` | `[]BestIsBest` |
| | `LoadsWhatWasSaved` | `FilesSpec => []LoadedIsSaved` |
| | `MomentsAreItsOwn` | `FilesSpec => []MomentsBelong` |
| | `InfersAsTrained` | `FilesSpec => []InferredAsTrained` |
| `RunnerProofs` | `WindowsAreCarved` | `[]Carved` |
| | `SameOrderForAll` | `[]SameDataOrder` |
| | `OneLinePerRun` | `[]OnlyWholeRuns` |
| | `EventsLoggedInOrder` | `WrapperSpec => []LoggedInOrder`, if `Old = 0` |
| | `NothingReadIsLost` | `WrapperSpec => []ReadIsLogged`, if `Old = 0` |
| | `KernelsDoNotRace` | `KernelSpec => []NoRace` |
| | `ScatterAddsEveryRow` | `KernelSpec => [](Finished /\ launch.kernel = "scatter" => ScatterAgrees)` |

Lemmas worth knowing on their own: `DecodingProofs!FullViewStable` (once the
first patch is closed, appending bytes changes no row of the pass),
`DecodingProofs!VerifiedIsGreedy` (every byte a verification commits is the
greedy byte, whoever drafted it), `TrainingProofs!WindowOnce` (the visit order
never meets a window twice in an epoch), `TrainingProofs!DimsTellTheShape` (the
dimensions of a model's tensors, listed in order, tell its width and its depths),
`TrainingProofs!CompletedIs` (what a command comes to through metadata, resolved
configuration, YAML, overrides and flags), `NumberProofs!SumAdds` (the community
modules' sum over a set does not depend on the order its fold takes),
`PatchProofs!MasksAgree` and `BlockMasksAgree` (the host's loops and the device's
threads build the same mask, for every length, window and list of boundaries),
`PatchProofs!HashedAlike` (the rolling hash of a window is the same wherever the
window stands).

### What is assumed

Of the network nothing: `Predict` and `Boundary` are any operators. Of the
calls, what the code requires or its callers guarantee: prompts of at least two
bytes (one for `BlockGen`), windows, capacities and patch limits of at least 1,
a nonempty set of bytes, a mask token that is no byte, block sizes from 1 to the
mask width. `Unit % b = 0` for every block size makes ratios exact in `BlockGen`.
`SweepAssumption` has manifests list their entries in increasing order and
apart, as `prep_stack_smol.py` writes them; an entry may be too short or have a
negative offset. `NotFiles` says that the marks for an absent and a torn file
are no file. `PatcherAssumption` bounds the input by `MaxLen`, any natural.

For `GreedyLoop`, `NetworkAssumption` has logits that are integers within
`MaxLogit` of 0, any natural (a finite float is such a number of its smallest
unit), and `MassAssumption` an exponential that is a natural, positive at 0 and
falls: what the sampling needs of `expf`, and no more. `CommandsAssumption` of
`Checkpoint` says that options are among those the config classes name and that a
training command has a width and layers, which `local_encoder.c:116`,
`local_decoder.c:154` and `transformer_stack.c:35` require. The two theorems on
`Metrics` are about a fresh run directory, `Old = 0`: with another run's metrics
file in place both properties fail (section 5).

For `Dataflow`, `SizesAssumption` has at least one byte, one cell to a block and
one layer to a stack, patches that start at byte 0 and documents that start at
patches, as `model.c:5` and `model.c:19` require. `WeightsAssumption` takes
weights to be positive, which makes dependence what the code's wiring allows: two
paths never cancel and no path is cut by a weight that happens to be zero. So
"a row reads no more" holds for any weights, and "a row reads no less", the other
half of `BlockReadsItsPrefix`, says that the wiring leaves nothing out.

For `Kernels`, `BlockAssumption` has a block and a warp of a power of two
threads, no more warps to a block than lanes to a warp, and tiles no longer than
a block: the launches use blocks of 128 or 256, warps of 32 and tiles of
`FLASH_TILE`, 32. `LaunchesAssumption` gives each call the sizes its kernel
takes (`Shaped`): at least one key, dimension, row or column where the kernel
works on them (a sequence has a byte, and `attention.c:28` and `attention.c:47`
make heads of equal, nonzero width), scatter indices that are row numbers or the
sentinel, and copies whose rows are no wider than the stride they are written
at, as all callers of `blt_strided_copy` have it. Scores, hidden keys, targets
and values are not constrained, and head widths need not divide the block.

### The arguments

**BLT-S.** `CacheFaithful` only speaks of the cache while it is read. It is not
inductive: between rounds the cache belongs to bytes that have since been
corrected. `IInv == TypeOK /\ CallInv /\ CacheInv /\ StatsInv` adds

- `StaleInv`: between rounds the cache is empty, or is exactly the cache of a
  proper prefix of the committed bytes (rows past that prefix are leftovers of
  the drafts). That a verification commits at least one byte makes the prefix
  proper; that a kept patch ended at the same place makes the first patch closed
  within it, which is what `FullViewStable` needs.
- `RefreshedInv` and `DraftInv`: after the refresh tier 2 is that of all
  committed bytes; after the chunk so is tier 1, and the first drafted byte is
  the greedy byte, from which `FirstDraftAccepted` follows.
- `CallInv`: a round works on the bytes and window it started with.
- `StatsInv`: the counters, phase by phase, in terms of rounds: accepted bytes
  are at most the drafted and at most the committed ones, and fall short of these
  by a byte a round at most. Whether a correction counts is left open here and
  decided in section 5.

**BLT-D and BLT-DV.** `IInv == TypeOK /\ BlockInv /\ VerbatimInv /\ VerifiedInv /\
RingInv`. `BlockInv` says a block is drafted only after a closed patch, fits what
is left and the mask. `VerifiedInv` bounds every counter by the number of rounds,
and `RingInv` says what is in the ring: for every round of the last window its
own rate, in the slot its number gives by remainder, and the next slot is that of
the round to come, so it holds the oldest rate once the ring is full. A new rate
overwrites exactly that slot, whose round leaves the window at the same time. The
refinement follows from `VerdictIs`: whichever verifier ran, each committed byte
is its greedy byte, because the block started after a closed patch.

**Drafting a block.** `PassesInv`: the masked cells are at most the passes left.
A pass unmasks at least one, since each rule selects some cell: the confidence
rule falls back on the highest score, the entropy rule always takes the lowest.
That rule is optimal by exchange: what it takes is an initial part of the order by
score and cell (`SelectsInitialPart`), so the first cell it leaves out ends an
initial part that exceeds gamma; a larger set has at least as many cells outside
that part as it lacks of it, and each of them scores at least as high
(`SumOfLarger`), so it exceeds gamma too.

**The greedy and sampling loop.** `GenInv` says that what is committed is a text,
the prompt first, that fits what the call asked for. The nucleus is an initial
part of the bytes in descending order of mass, ties by number: the first byte it
leaves out shows that it reaches `top_p` (`NucleusReaches`), the last one it
keeps that the bytes ahead of it do not, and a smaller set weighs no more than
they do, by the same exchange as above (`NoneSmallerReaches`). The penalty
divides a positive logit and multiplies a negative one, so that an emitted byte
comes behind every other of at least its logit whatever the signs
(`PenaltyOrders`), and the softmax keeps that order. Top-k and the nucleus leave
the first byte of the order in (`KeepsSome`), hence a step always draws a byte.

**Patcher.** `OpenInv` says the scan's open patch is the one the recursive rule
finds for the prefix (`OpenStart`, a recursive function whose existence and
equation `OpenStartIs` proves), `ArrayInv` that the patches tile the prefix,
`PhaseInv` which boundaries have been seen. `LatentCausal` then combines the
array (`HolderIs`: the patch that holds a row) with `OpenStartOfPrefix`: what a
scan of a longer input finds at a prefix is what the scan of the prefix finds.

**The network.** `PassInv` says what each row may read, stage by stage: a byte
state the bytes of its document up to its own (`History`), a patch those up to
its end (`PatchHistory`), a clean row of the decoder those up to its own byte or
to the end of the first patch, and a cell all bytes before its block and, when
training, the cells of its block (`Context`). It also says that the masks in
force are right, and that a row always reads its own input. The three properties
speak of the last layer only and are not inductive; `PassInv` is, because each
mask is transitive: a row may attend only rows that may read no more than it
(`EncoderTransitive`, `GlobalTransitive`, `DecoderTransitive`), so a layer, which
reads the row and the rows it attends (`LayerIs`, over matrix products, norms,
rotations, heads and sums), keeps what a row reads within its bounds
(`LayerKeeps`). The decoder without cross-attention keeps a second bound, the
row's document. A latent is the exception to causality: the row of an open first
patch reads a latent that summarises all of it (`LatentOfIs`), hence `EndOf(0)`
in `Context`. Cells read exactly their context from the first decoder layer on,
because one layer attends all of it and every row reads itself (`BlocksFull`).

That the masks are right is proved of the code that builds them, on host and
device: the host numbers documents along a row, the device counts the boundaries
before a place, and both are the number fixed by `Numbers` (`DocIdsAre`); a
thread's index is a cell's row and column (`CellIs`); and the rows of a mask are
numbered without a gap in the order of their names (`RowIndexIs`). For the n-gram
embedding the hash is followed update by update: `Holds` says that the ring has
the last bytes each in its slot and that, once it is full, the byte `k` places
back weighs the `k`-th power of the prime. When a byte leaves, its weight is the
highest power and comes out exactly, since a residue minus itself is 0
(`WithoutIs`, `HashGoesOn`); so a bucket depends on the last bytes only and in
the same way everywhere (`BucketIs`).

**Training.** `LineageInv` says that memory and every whole file of a lineage that
never departed hold what one continuous run to the same end has after as many
steps; `Continuous` is a recursive function, and `SamePlan` shows that without a
fraction schedule the end does not matter. `FilesInv` and `CoverInv` give the last
whole numbered pair and say that no save was due since; `BestInv` follows the
best metric through the two files of its save. `EpochOnce` needs three facts: in
a continuous run update `i` visits the data steps of step `i` (`StepsVisit`,
`GradientVisits`), the multiplier is coprime to the corpus even when the search
gives up at 1 (`MultiplierPermutes`), and a coprime multiplier permutes the
windows (`Permutes`, from Bezout's identity for Euclid's rounds,
`GcdIsCombination`).

**Sweep.** `ManifestIs` and `StreamIs` follow the carving of a manifest entry by
entry (`SpacedWindows`, `WindowsOfEntry`) and of a stream, `JumpsTile` the greedy
construction of patches inside a window. `OrderInv` ties both sequences of
windows to the step, phase by phase. `LinesInv` is about the runs that ended:
each entry of the results file names one of them, or the run in progress, no two
name the same, a run that is named made every step, and one that exited 0 has a
whole line. `WrittenInv` is about the run in progress, which may have written and
not yet exited: it is then in `return` or `failed`, has made every step, and in
`return` its line is whole. A kill there keeps both (`ExitKeepsLines`).

**The metrics file.** The trainer writes characters of a fixed text, body and
newline of each event in turn, and `FileIs` says the file is its beginning.
`TailIs` is a disjunction: the tail is in step (`InStep`: the events logged, the
whole lines still to parse and the partial line that was put back add up to the
tail's position, character by character), or it is `Stuck` before a line that
does not parse, which then stays in front of everything it reads. A read, a line
logged and a line put back each keep one of the two (`ReadKeeps`, `LogKeeps`,
`PutBackKeeps`), wherever in a line a read ends.

**The files.** `CheckpointInv` says that the checkpoint holds the first entries of
the model it was last saved from, all of them unless a save was killed, as the C
programs keep them whoever wrote them (`WrittenIs`, `CutHolds`); that this model
and the one in training were made by some command, each parameter from its own
gradients and lying the way its program keeps it; and that an optimizer file holds
the first moments of some command's model. A loader accepts a file by counts and
dimensions, and the C trainer by names too, but a file names no layer count: that
an accepted file is one of the loader's own shape is `DimsTellTheShape`. The
first tensor's dimensions give the width. Were one encoder deeper, the `cross_q`
of its first extra layer, `e` by `e`, would stand where the other model has an
`attn_qkv`, `e` by `3e`, of a global layer or of the decoder; were one global
stack deeper, an `attn_qkv` of it or of its decoder would meet the other model's
first `cross_q` of the decoder (`NotOneLayerMore`). The decoder's depth then
follows from the count. It is what keeps moments, which have no names, with
their parameters (`MomentsAreTheirs`). `InferredAsTrained` is carried as a conjunct
over each inference; `CompletedIs` gives the options a command comes to, and
`ArgvKeepsInference` that the argv brings them across. For the D_0 policy
`BlocksAreLearned` says that either program drafts blocks from the learned table,
whatever the training used.

**The kernels.** `NoRace` looks at the accesses since the last barrier and is
not inductive: it does not say what the next thread will touch. The number of
barriers a thread has passed fixes what it may touch before the next one, its
footprint (`WriteCells`, `ReadCells`): for the tree of a reduction by the stride
of that round, half the one before (`StrideIs`), for the flash kernel by tile
and step, four intervals to a tile. `KernelInv` says that a thread stands where
its count of barriers puts it (`Stands`), that each access in the log is in the
footprint of its thread (`Logged`), and that the cells of all intervals a thread
has finished are in memory. The proof has two halves. Each action reads and
writes within the footprint of its threads and reads only cells that an earlier
interval or the thread itself wrote (a lemma per action, through `AloneKeeps`
and `LegalKeeps`); here a missing barrier would show, since the cells it
separates fall into one interval. And the footprints of two threads in one
interval are apart: no cell one may write is one the other may write or read
(`NoConflict`), which is arithmetic of strides, remainders and tiles: columns of
different remainder (`ColumnsApart`), partial sums below and above the stride,
rows of a copy apart because the destination's stride is no less than a row. The
atomic additions of the scatter kernels are not accesses in this sense and log
nothing; that they add up is a theorem of its own, the scatter part of
`BackwardAgrees`. `ScatterInv` ties what has been counted and listed to how far
each thread has come: the count of a class is the number of its rows whose thread
has passed them, and its list holds exactly those rows, each once. The barrier
between counting and adding makes the count whole before anything is divided by
it. The deterministic variant is one thread, which meets its rows in ascending
order, so the list it leaves is the one the host loop makes (`ListedIsCpu`).

Each of these invariants was checked by TLC on its module's run before it was
proved, and has a preservation lemma per action. Refinements and action
properties follow from it step by step.

### Only model-checked

- Liveness (`Termination`, `Terminates`, `Returns`), which is outside what TLAPS
  supports here.
- `GradientFollowsReads` of `Dataflow`: two matrices of sums of products modulo a
  prime, equal because multiplication distributes over sums in whatever order
  they are taken. It asks the provers for the algebra of nested sums under a
  remainder, which is neither linear arithmetic nor first-order reasoning.
- `ForwardAgrees` and, its scatter part aside, `BackwardAgrees` of `Kernels`:
  results are sequences of terms built by recursion over rounds and partial
  reductions, and what such a definition computes for every number of threads
  needs an induction over the shape of the terms. TLC enumerates them for small
  shapes. That they do not depend on the schedule within an interval, atomic
  additions aside, is what the proved `NoRace` gives.

`BlockGen` takes a draft to satisfy `DraftContract`, `Decoding` a segmentation to
be prefix-decidable: both sides are proved, that the two notions are the same is
the reader's comparison of `DraftContract` with `DraftBlock` and of `ClosedAt`
with `Boundary`.

## 5. Findings

**The query gradient of the fused attention backward on CUDA sums the wrong
rows** (`kernels_gradq`). `blt_attn_core_bwd_row_kernel` adds `gs * q[j]` for each
key position `j`; it is not even given `k`. `ops/attn_core.h:49` promises
`scale * sum_j gs_ij * k_j`, and the host implementation computes that.
`GradientFollowsReads` of `Dataflow`, which models the host operations, holds.

**The key and value gradients lose queries when the head size does not divide
the block** (`kernels_gradkv`). `blt_attn_core_bwd_kv_kernel`
(`ops/attn_core.cu:425`) gives each chunk of queries `head_dim` threads; the last
chunk may have fewer, and in the dimensions it has no thread for, its queries are
in no sum. `ops/attn_core.h:50` promises the sum over all `i`. `KvGradAgrees`, in
the passing run, speaks of the dimensions whose chunks are all there; every head
size that divides the block is among them.

**Scaling stops at the capped grid** (`kernels_scale`). `blt_cuda_vec_scale`
(`ops/vecmath.cu:205`) has one element per thread and no stride loop, and
`blt_cuda_grid` caps the grid at 4096 blocks of 256, so elements from 1,048,576
on keep their value, gradient clipping included. `ops/vecmath.h:42` says
`data[i] *= s for i in [0, n)`. The passing run speaks of the elements the grid
reaches.

**A correction is not counted as accepted** (`selfspec_progress`).
`infer/stats.h:19` defines `bytes_accepted` as committed bytes from drafting,
forced progress included; the plain verifier adds only the bytes before the
mismatch (`infer/self_speculation.c:166`), while the aligned one counts its
correction (`:252`). So acceptance rates of the two are not comparable, and the
rate of a plain run is lower than the header's. `CommitAccounting` bounds the
counters and takes neither side.

### Departures from the docs that no run keeps

Each was met while modelling; the passing runs leave the situation out or state
the property so that it holds, as said.

- BLT-S is not greedy decoding while the first patch is open: its rows have no
  previous latent and read patch 0's own, which summarises later bytes of the
  candidate. The header promises byte-identical output;
  `GreedyOnceFirstPatchClosed` states what holds. BLT-DV is immune.
- BLT-DV with another verifier model: bytes that finish an open patch come from
  the drafter and nothing verifies them. `CallAllowed` of `BlockGen` says so.
- The aligned verifier commits several bytes where the header promises one, does
  not cut back a fully matching draft, and counts one accepted byte for them:
  the weaker clause of `CommitAccounting`.
- `--no-repeat-ngram` has no effect: the table of banned bytes is filled and
  freed unread. The unit test draws 600 times from one random state.
- A repeat penalty below 1 is applied, where `decode_select.h` calls it disabled.
- Schedules of a split run: `end_step` is the end of the invocation, so the first
  part of a split run follows the curve of its own, earlier end;
  `docs/CLI_REFERENCE.md:164` promises bit-identical results (`replanned`).
- A window cut into too many patches is skipped before the gradient is zeroed,
  and without accumulation the optimizer step still runs (`train_blt_d.c:721`),
  with the previous gradient. The setups skip windows only under accumulation.
- `todo.md:210` and `:242` have reduced copies refreshed after every optimizer
  step; they are refreshed before training forwards only (`train_blt_d.c:839`),
  so the monitor and held-out evaluations, and with them the choice of the best
  model, read copies one update late. The `bf16` setup therefore evaluates
  nothing. The fp8 copies are refreshed and read by no forward.
- `--d0-mode zeros` does not reach inference. The C trainer writes the policy to
  the metadata and the wrapper to `resolved_config.yaml`, and nothing reads it:
  `infer.c:598`, `:608` and `:626` set the learned table, and so does the PyTorch
  command for block methods. A model trained with zeros then drafts from rows no
  gradient reached. No document promises otherwise; `InferredAsTrained` says that
  block drafting runs as trained if and only if the training's policy was the
  learned one.
- `harness.h:80` has partial and killed runs never corrupt the history. A write
  that fails halfway leaves a line without its end, and the next run's line
  continues it; `OnlyWholeRuns` promises the runs behind the entries, not that
  each entry can be read.
- A checkpoint whose metadata holds no configuration makes the wrapper pass
  `--block-size 4`, where comments in `fblt/infer.py:162` and `infer.c:447` say
  the binary refuses to guess: `InferredAsTrained` asks for a run directory.

`RecentCheckpoint` leaves out runs resumed from the best pair. That pair may be
newer than every whole numbered one; what such a run then saves starts behind a
gap, and a kill before its first numbered save costs more than `save_every`
steps. `ResumedIsContinuous` and `EpochOnce` ask for a setup that is `Replayable`:
no step applies what an earlier step left, because a left-over gradient (the
skipped window above) and stale reduced copies are in no file. Both were found by
trying to prove the properties without the condition; so was the pair of a
weight file and an optimizer file planned for different ends, which counts as
`replanned`.

`ResumedIsContinuous` leaves out pairs of files from different steps, because
the code loads them without complaint: with one path overwritten at every save,
a kill between the two files leaves new weights beside old moments, and the
optimizer file's step then decides where the run continues. `LoggedInOrder` and
`ReadIsLogged` leave out a metrics file from an earlier run of the same name,
whose lines are logged again, and do not promise the last events: a stop that
arrives while the tail sleeps ends it without another read. An unparsable line
(a loss printed as `nan`) is put back and met again at every later read, so no
event behind it is logged. A line in the results file does not show that its run
exited 0: it may have been killed after the append, or the close may have failed
after the flush. A kill inside the write itself is not modelled; stdio keeps the
line until `fclose`, as the model has it.

### Noticed while reading

- Generation: `blt_infer_stats_reset` skips `bytes_ar`; the
  penalty looks at 256 bytes, a comment at the whole sequence; the README gives a
  cap of 128 patches, the header 1024; an adaptive bound above 32 aborts rounds
  after the start; seeds 0 and 1 are one seed.
- Network: `block_diffusion.c` scales the clean loss in the forward pass and not
  in the backward one when `last_row_scale` is not 1, and its loss floor of 1e-9
  has no counterpart in the gradient; forwards read bf16 copies while backwards
  multiply by the fp32 weights. `causal_offset` of the mask builder is used by no
  caller; its comment that column 0 is always allowed does not hold with windows
  or documents (that every row keeps a key does, `DocumentsIsolated`).
- Kernels: a comment near line 93 of `attn_core.cu` calls two paths bit-identical
  that add in different orders. The packed rotary kernel has the grid cap of the
  scaling and no stride loop; `RotationAgrees` states which pairs are reached.
  `clip_sq_fn_dev` (`train_diag.c:52`) grows
  its array of sums at 64 tensors by freeing and allocating it without a copy, so
  that with more tensors the first sums are read uninitialised; the norm over
  several tensors is not modelled. `linalg.cu` reads the determinism flag at the
  first handle only.
- Training and sweep: a comment at `train_sweep.c:534` has patch boundaries
  identical across all configurations of a sweep, because the entropy model sees
  the same data in the same order; the order is the same (`SameDataOrder`), the
  boundaries are only between configurations with the same patcher and limits,
  and nothing checks it; the last `result` event reports a masked accuracy of 0,
  because the computed one is in a shadowing variable; `train_sweep.c` reads the
  training loss after the arena reset (1121), counts skipped warmup steps, and
  divides by zero for `eval_every` 0; `--resume` and `ckpt_every` of a
  configuration are unused there.
- Files: the starter guide says a checkpoint's metadata holds the best metric, it
  holds none, and best saves carry no metadata; `fclose` is unchecked; the
  optimizer file has no names, so moments are matched by position;
  `infer.c` reads metadata before it checks that a checkpoint was given. A YAML
  value equal to the default loses to the metadata. A second run of the same
  name rewrites `resolved_config.yaml` before its first save. Entropy models
  saved by one implementation do not load in the other.
- PyTorch package: AdamW decays the norms, the C trainer spares them;
  `infer/self_spec.py` imports a module that does not exist; inference ignores
  `fixed_patches`, and falls back to a random entropy model when one fails to
  load.

## 6. Not modelled, and the plan

Left out: arithmetic without control (casts, GEMM calls, GELU, LayerNorm, the
entropy model's layers), the tokenising of flags, JSON and YAML, the PyTorch
network (a second implementation of what is modelled from the C sources), and
the diagnostic tools and benchmarks, which are one-shot measurements around the
same calls. The arena's marker discipline is not modelled either: an allocation
lives until a reset, which the models take for granted. Within modelled parts:
one head, one sub-token per patch, one n-gram size at a time in `Dataflow`; one
checkpoint path and AdamW without decay of norms in `Checkpoint`; time and
arithmetic in `Sweep`; side files of diagnostics in `Training`.

What would come next: the result of a tree of partial sums as a bag of terms, for
every number of threads, now that no two threads race; and the transpose of one
layer, as a lemma about sums taken in any order, from which that of a whole pass
would follow layer by layer.
