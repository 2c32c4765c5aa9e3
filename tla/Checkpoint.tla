----------------------------- MODULE Checkpoint -----------------------------
(***************************************************************************)
(* What travels between training and inference: the checkpoint, the        *)
(* optimizer file, the entropy model's file, and resolved_config.yaml of   *)
(* the run directory, written by the command wrappers, the C trainer and   *)
(* the PyTorch package and read back by each of them.                      *)
(*                                                                         *)
(* A tensor's payload is abstracted to where it comes from: the parameters *)
(* whose values and gradients went into it, whether it was weight-decayed, *)
(* and whether it lies transposed in memory.  A file is its header and the *)
(* entries written so far.  The options kept are those that shape a model  *)
(* or its input.                                                           *)
(***************************************************************************)
EXTENDS Integers, SequencesExt

CONSTANTS
    Trainings,      \* training commands
    Inferences,     \* inference commands
    Cuts,           \* entries a killed save may have written
    MaxRuns         \* training commands of one history

VARIABLES
    resolved,       \* resolved_config.yaml
    file, optim, lmfile,        \* the checkpoint, the moments, the entropy model
    proc,           \* the training process
    runs,           \* training commands so far
    saved,          \* the model and options the checkpoint was last saved from
    last            \* the latest inference
filesVars == <<resolved, file, optim, lmfile, proc, runs, saved, last>>

-----------------------------------------------------------------------------
(***************************************************************************)
(* Options.  A command gives some in a YAML file, some with --override and *)
(* some as flags; its argv carries those that differ from the default.     *)
(***************************************************************************)
NoPath == "none"
NoName == <<"", -1, "">>     \* the moments are not named
NoThreshold == -1       \* thresholds in tenths

TrainConfig ==
    [embed |-> 64, layers |-> 2, enc_layers |-> 0, glob_layers |-> 0, dec_layers |-> 0,
     cross_attn |-> "all", d0_mode |-> "learned", block_size |-> 4,
     entropy_patches |-> FALSE, entropy_lm |-> NoPath]

InferConfig ==
    [embed |-> 0, enc_layers |-> 0, glob_layers |-> 0, dec_layers |-> 0, method |-> "greedy",
     block_size |-> 4, unmask |-> "confidence", threshold |-> NoThreshold, cross_attn |-> "all",
     fixed_patches |-> FALSE, entropy_lm |-> NoPath, allow_random_entropy_lm |-> FALSE]

(* the defaults of the two binaries *)
TrainArgs ==
    [embed |-> 64, layers |-> 2, enc_layers |-> 0, glob_layers |-> 0, dec_layers |-> 0,
     cross_attn |-> "all", d0_mode |-> "learned", block_size |-> 4,
     entropy_patches |-> FALSE, entropy_lm |-> NoPath]

InferArgs ==
    [embed |-> 0, enc_layers |-> 0, glob_layers |-> 0, dec_layers |-> 0, method |-> "greedy",
     block_size |-> 4, unmask |-> "confidence", threshold |-> 7, cross_attn |-> "all",
     fixed_patches |-> FALSE, entropy_lm |-> NoPath, allow_random_entropy_lm |-> FALSE]

NoOptions == [f \in {} |-> 0]
given ++ default ==     \* what is given, and the default for the rest
    [f \in DOMAIN given \cup DOMAIN default |-> IF f \in DOMAIN given THEN given[f] ELSE default[f]]

Layered(cmd, defaults) == cmd.flags ++ cmd.override ++ cmd.yaml ++ defaults
Overridden(cmd) == DOMAIN cmd.override \cup DOMAIN cmd.flags

ToArgv(cfg, defaults) ==
    LET set == {f \in DOMAIN cfg : cfg[f] # defaults[f]}
        eb == IF "unmask" \in DOMAIN cfg /\ cfg.unmask = "eb" /\ cfg.threshold = NoThreshold
              THEN [f \in {"threshold"} |-> 10] ELSE NoOptions
    IN  eb ++ [f \in set |-> cfg[f]]

BlockMethods == {"blockdiff", "blockdv"}

InferArgv(cfg) ==
    ToArgv(cfg, InferConfig)
      ++ IF cfg.method \in BlockMethods THEN [f \in {"block_size"} |-> cfg.block_size] ELSE NoOptions

ParseTraining(argv) == argv ++ TrainArgs
ParseInference(argv) == argv ++ InferArgs

(* --layers stands for each part whose own count is 0 *)
WithLayers(opt) ==
    [f \in {g \in {"enc_layers", "glob_layers", "dec_layers"} : opt[g] = 0} |-> opt.layers] ++ opt

ShapeFields == {"embed", "enc_layers", "glob_layers", "dec_layers"}
Shape(opt) == [f \in ShapeFields |-> opt[f]]

(* The models refuse to be created with no width or no layers, and both    *)
(* config classes name every option there is.  The moments are the C       *)
(* trainer's.                                                              *)
ASSUME CommandsAssumption ==
    /\ MaxRuns \in Nat /\ Cuts \subseteq Nat
    /\ \A cmd \in Trainings :
        /\ cmd.backend \in {"c", "torch"} /\ cmd.resume \in BOOLEAN /\ cmd.moments \in BOOLEAN
        /\ \A o \in {cmd.yaml, cmd.override, cmd.flags} : DOMAIN o \subseteq DOMAIN TrainConfig
        /\ Layered(cmd, TrainConfig).entropy_patches \in BOOLEAN
        /\ Layered(cmd, TrainConfig).d0_mode \in {"learned", "zeros"}
        /\ \A f \in ShapeFields : WithLayers(Layered(cmd, TrainConfig))[f] \in Nat \ {0}
    /\ \A cmd \in Inferences :
        /\ cmd.backend \in {"c", "torch"} /\ cmd.beside \in BOOLEAN
        /\ \A o \in {cmd.yaml, cmd.override, cmd.flags} : DOMAIN o \subseteq DOMAIN InferConfig
        /\ Layered(cmd, InferConfig).fixed_patches \in BOOLEAN
        /\ \A f \in ShapeFields : Layered(cmd, InferConfig)[f] \in Nat

-----------------------------------------------------------------------------
(***************************************************************************)
(* Every walk over a model's tensors, with the leaves each one lists.  The *)
(* layer of a tensor outside the layers is -1.                             *)
(***************************************************************************)
SELF_NAMES == <<"norm1", "attn_qkv", "attn_proj", "norm2", "ffn_up", "ffn_gate", "ffn_down">>
CROSS_NAMES == <<"cross_norm", "cross_q", "cross_k", "cross_v", "cross_proj">>
SELF_TENSORS == <<"norm1", "attn_qkv", "attn_proj", "norm2", "ffn_up", "ffn_gate", "ffn_down">>
CROSS_TENSORS == <<"cross_norm", "cross_q", "cross_k", "cross_v", "cross_proj">>
NumTables == 2

Layers(group, n, leaves) ==
    LET k == Len(leaves)
    IN  [i \in 1..(n * k) |-> <<group, (i - 1) \div k, leaves[((i - 1) % k) + 1]>>]

Walk(s, self, cross) ==
    <<<<"enc", -1, "embed">>>> \o [k \in 1..NumTables |-> <<"enc", k - 1, "ngram">>]
      \o Layers("enc", s.enc_layers, self \o cross) \o Layers("glob", s.glob_layers, self)
      \o Layers("dec", s.dec_layers, self \o cross)
      \o <<<<"dec", -1, "lm_head">>, <<"dec", -1, "d0_embed">>>>

(* a tensor of a checkpoint: the name it goes by and the parameter it is *)
TensorAt(s) ==
    LET names == Walk(s, SELF_NAMES, CROSS_NAMES)
        tensors == Walk(s, SELF_TENSORS, CROSS_TENSORS)
    IN  [i \in DOMAIN names |-> [name |-> names[i], tensor |-> tensors[i]]]
Parameters(s) == Range(Walk(s, SELF_TENSORS, CROSS_TENSORS))
NumTensors(s) == 1 + NumTables + (s.enc_layers + s.dec_layers) * 12 + s.glob_layers * 7 + 2
LmTensors ==
    LET names == <<<<"ent", -1, "embed">>>> \o Layers("ent", 1, SELF_NAMES) \o <<<<"ent", -1, "lm_head">>>>
    IN  [i \in DOMAIN names |-> [name |-> names[i], tensor |-> names[i]]]

self_tensor == <<"norm1", "attn_qkv", "attn_proj", "norm2", "ffn_up", "ffn_gate", "ffn_down">>
cross_tensor == <<"cross_norm", "cross_q", "cross_k", "cross_v", "cross_proj">>
self_grad == <<"norm1", "attn_qkv", "attn_proj", "norm2", "ffn_up", "ffn_gate", "ffn_down">>
cross_grad == <<"cross_norm", "cross_q", "cross_k", "cross_v", "cross_proj">>
(* a plausible slip: the second norm counts as the third of the layer *)
ThirdIsNorm == {self_tensor[1], self_tensor[3], cross_tensor[1]}
Norms == {self_tensor[1], self_tensor[4], cross_tensor[1]}

(* what the optimizer is handed: a weight, its gradient and its decay *)
ParamPairs(s) ==
    LET w == Walk(s, self_tensor, cross_tensor)
        g == Walk(s, self_grad, cross_grad)
    IN  [i \in DOMAIN w |-> [w |-> w[i], g |-> g[i], decay |-> w[i][3] \notin Norms]]

(* the tensors the moments are shaped after *)
MomentPairs(s) ==
    Walk(s, <<"norm1", "attn_qkv", "attn_proj", "norm2", "ffn_up", "ffn_gate", "ffn_down">>,
            <<"cross_norm", "cross_q", "cross_k", "cross_v", "cross_proj">>)

Dims(name, e) ==
    LET leaf == name[3]
        h == 2 * e          \* --hidden, kept in proportion
    IN  CASE leaf \in {"norm1", "norm2", "cross_norm"} -> <<e>>
          [] leaf = "attn_qkv" -> <<e, 3 * e>>
          [] leaf \in {"attn_proj", "cross_q", "cross_k", "cross_v", "cross_proj"} -> <<e, e>>
          [] leaf \in {"ffn_up", "ffn_gate"} -> <<e, h>>
          [] leaf = "ffn_down" -> <<h, e>>
          [] leaf = "embed" -> <<256, e>>
          [] leaf = "ngram" -> <<50, e>>
          [] leaf = "lm_head" -> <<e, 256>>
          [] leaf = "d0_embed" -> <<257, e>>

Value(name, run, turned) ==
    [from |-> {name}, run |-> run, decayed |-> FALSE, turned |-> turned]

-----------------------------------------------------------------------------
(***************************************************************************)
(* PyTorch keeps a Linear weight as (out, in); the file has (in, out).     *)
(***************************************************************************)
Linear == {"attn_qkv", "attn_proj", "ffn_up", "ffn_gate", "ffn_down",
           "cross_q", "cross_k", "cross_v", "cross_proj", "lm_head"}
(* a plausible slip: a square matrix exported as it lies in memory *)
NotTheSquareOne == Linear \ {"cross_q"}
ExportTurns == {"attn_qkv", "attn_proj", "ffn_up", "ffn_gate", "ffn_down",
                "cross_q", "cross_k", "cross_v", "cross_proj", "lm_head"}
ImportTurns == {"attn_qkv", "attn_proj", "ffn_up", "ffn_gate", "ffn_down",
                "cross_q", "cross_k", "cross_v", "cross_proj", "lm_head"}

Turned(dims, turn) == IF turn THEN Reverse(dims) ELSE dims
TorchDims(name, e) == Turned(Dims(name, e), name[3] \in Linear)
Turn(value, turn) == [value EXCEPT !.turned = (@ # turn)]

FreshModel(s, run, backend) ==
    [n \in Parameters(s) |-> Value(n, run, backend = "torch" /\ n[3] \in Linear)]

-----------------------------------------------------------------------------
(***************************************************************************)
(* Files.                                                                  *)
(***************************************************************************)
NoHeader == [header |-> FALSE, meta |-> NoOptions, num |-> 0, entries |-> <<>>]
File(meta, entries) == [header |-> TRUE, meta |-> meta, num |-> Len(entries), entries |-> entries]
Entry(name, dims, value) == [name |-> name, dims |-> dims, value |-> value]

Entries(tensors, e, params) ==
    [i \in DOMAIN tensors |->
        Entry(tensors[i].name, Dims(tensors[i].tensor, e), params[tensors[i].tensor])]

(* a save that is killed has truncated the file and written k entries *)
CutAt(f, k) == [f EXCEPT !.entries = SubSeq(@, 1, Min({k, Len(@)}))]

ModelFile(s, params, meta) ==
    [File(meta, Entries(TensorAt(s), s.embed, params)) EXCEPT !.num = NumTensors(s)]

(* _model_tensors and write_checkpoint *)
TorchFile(s, params, meta) ==
    LET names == Walk(s, SELF_NAMES, CROSS_NAMES)
        turn(n) == n[3] \in ExportTurns
    IN  File(meta, [i \in DOMAIN names |->
            Entry(names[i], Turned(TorchDims(names[i], s.embed), turn(names[i])),
                  Turn(params[names[i]], turn(names[i])))])

(* entry by entry, the file must be the one this model would have written *)
Accepts(f, tensors, e) ==
    /\ f.header /\ f.num = Len(tensors) /\ Len(f.entries) = f.num
    /\ \A i \in DOMAIN tensors :
        /\ f.entries[i].name = tensors[i].name
        /\ f.entries[i].dims = Dims(tensors[i].tensor, e)

Loaded(f, tensors) ==
    [n \in {tensors[i].tensor : i \in DOMAIN tensors} |->
        f.entries[CHOOSE i \in DOMAIN tensors : tensors[i].tensor = n].value]

ModelAccepts(f, s) == Accepts(f, TensorAt(s), s.embed)

(* load_c_checkpoint: by name, whatever else the file holds *)
ByName(f, n) == {k \in DOMAIN f.entries : f.entries[k].name = n}
TorchAccepts(f, s) ==
    /\ f.header /\ Len(f.entries) = f.num
    /\ \A n \in Parameters(s) : \E k \in ByName(f, n) :
        Turned(f.entries[k].dims, n[3] \in ImportTurns) = TorchDims(n, s.embed)
TorchLoaded(f, s) ==
    [n \in Parameters(s) |->
        Turn(f.entries[CHOOSE k \in ByName(f, n) : TRUE].value, n[3] \in ImportTurns)]

-----------------------------------------------------------------------------
(***************************************************************************)
(* Training.                                                               *)
(***************************************************************************)
Idle == [phase |-> "idle"]
NotRun == [ran |-> FALSE, cmd |-> NoOptions]
NotSaved == [params |-> NoOptions, opt |-> NoOptions, config |-> NoOptions]

FilesTypeOK ==
    /\ runs \in 0..MaxRuns
    /\ proc.phase \in {"idle", "load", "train"}
    /\ Len(file.entries) <= file.num /\ Len(optim.entries) <= optim.num
    /\ Len(lmfile.entries) <= lmfile.num
    /\ proc.phase = "train" => DOMAIN proc.params = Parameters(proc.opt)

FilesInit ==
    /\ resolved = NoOptions
    /\ file = NoHeader /\ optim = NoHeader /\ lmfile = NoHeader
    /\ proc = Idle /\ runs = 0 /\ saved = NotSaved /\ last = NotRun

(* The wrapper writes resolved_config.yaml before it starts the trainer.   *)
Configure(cmd) ==
    /\ proc = Idle /\ runs < MaxRuns
    /\ LET cfg == Layered(cmd, TrainConfig)
           opt == IF cmd.backend = "torch" THEN cfg
                  ELSE ParseTraining(ToArgv(cfg, TrainConfig))
       IN  /\ resolved' = cfg
           /\ proc' = [phase |-> "load", cmd |-> cmd, opt |-> WithLayers(opt)]
    /\ runs' = runs + 1 /\ last' = NotRun
    /\ UNCHANGED <<file, optim, lmfile, saved>>

LmAccepted(opt) == opt.entropy_lm = NoPath \/ Accepts(lmfile, LmTensors, 32)

MomentsAccepted(s) ==
    LET shaped == MomentPairs(s)
    IN  /\ optim.header /\ optim.num = Len(shaped) /\ Len(optim.entries) = optim.num
        /\ \A i \in DOMAIN shaped : optim.entries[i].dims = Dims(shaped[i], s.embed)

(* PyTorch resumes the weights only; its entropy model is best effort.     *)
Start ==
    /\ proc.phase = "load"
    /\ LET cmd == proc.cmd
           s == Shape(proc.opt)
           torch == cmd.backend = "torch"
           loads == /\ cmd.resume => IF torch THEN TorchAccepts(file, s) ELSE ModelAccepts(file, s)
                    /\ ~torch /\ proc.opt.entropy_patches => LmAccepted(proc.opt)
                    /\ ~torch /\ cmd.moments => MomentsAccepted(s)
           params == CASE ~cmd.resume -> FreshModel(s, runs, cmd.backend)
                       [] cmd.resume /\ torch -> TorchLoaded(file, s)
                       [] cmd.resume /\ ~torch -> Loaded(file, TensorAt(s))
           moments == [i \in DOMAIN MomentPairs(s) |->
                        IF ~torch /\ cmd.moments THEN optim.entries[i].value ELSE {}]
       IN  proc' = IF loads THEN [phase |-> "train", cmd |-> cmd, opt |-> proc.opt,
                                  params |-> params, moments |-> moments]
                   ELSE Idle
    /\ UNCHANGED <<resolved, file, optim, lmfile, runs, saved, last>>

(* One pass of AdamW over the pairs; PyTorch's decays every parameter.     *)
Step ==
    /\ proc.phase = "train"
    /\ LET pairs == ParamPairs(Shape(proc.opt))
           at == [n \in {pairs[i].w : i \in DOMAIN pairs} |->
                    CHOOSE i \in DOMAIN pairs : pairs[i].w = n]
           moments == [i \in DOMAIN pairs |-> proc.moments[i] \cup {pairs[i].g}]
           stepped(n) == [from |-> proc.params[n].from \cup moments[at[n]],
                          run |-> runs, turned |-> proc.params[n].turned,
                          decayed |-> proc.cmd.backend = "torch" \/ pairs[at[n]].decay]
       IN  proc' = [proc EXCEPT !.params = [n \in DOMAIN proc.params |-> stepped(n)],
                                !.moments = moments]
    /\ UNCHANGED <<resolved, file, optim, lmfile, runs, saved, last>>

Meta(opt) == Shape(opt) ++ [f \in {"block_size"} |-> opt.block_size]
Written(meta) ==
    IF proc.cmd.backend = "torch" THEN TorchFile(Shape(proc.opt), proc.params, meta)
    ELSE ModelFile(Shape(proc.opt), proc.params, meta)
MomentsFile ==
    LET shaped == MomentPairs(Shape(proc.opt))
    IN  File(NoOptions, [i \in DOMAIN shaped |->
            Entry(NoName, Dims(shaped[i], proc.opt.embed), proc.moments[i])])
Saved == [params |-> proc.params, opt |-> proc.opt, config |-> resolved]

(* The weights, then the moments, which PyTorch does not save.             *)
Save ==
    /\ proc.phase = "train"
    /\ file' = Written(Meta(proc.opt))
    /\ optim' = IF proc.cmd.backend = "c" THEN MomentsFile ELSE optim
    /\ saved' = Saved
    /\ UNCHANGED <<resolved, lmfile, proc, runs, last>>

(* --save-best writes the weights alone, with no config in the metadata.   *)
SaveBest ==
    /\ proc.phase = "train" /\ proc.cmd.backend = "c"
    /\ file' = Written(NoOptions)
    /\ saved' = Saved
    /\ UNCHANGED <<resolved, optim, lmfile, proc, runs, last>>

SaveKilled ==
    /\ proc.phase = "train"
    /\ \E k \in Cuts : file' \in {CutAt(Written(Meta(proc.opt)), k), NoHeader}
    /\ saved' = Saved /\ proc' = Idle
    /\ UNCHANGED <<resolved, optim, lmfile, runs, last>>

MomentsKilled ==
    /\ proc.phase = "train" /\ proc.cmd.backend = "c"
    /\ \E k \in Cuts : optim' = CutAt(MomentsFile, k)
    /\ file' = Written(Meta(proc.opt))
    /\ saved' = Saved /\ proc' = Idle
    /\ UNCHANGED <<resolved, lmfile, runs, last>>

End ==
    /\ proc.phase \in {"load", "train"}
    /\ proc' = Idle
    /\ UNCHANGED <<resolved, file, optim, lmfile, runs, saved, last>>

(* --train-entropy-lm writes the entropy model's file, or part of it.      *)
TrainLm ==
    /\ proc = Idle
    /\ LET values == [n \in {t.tensor : t \in Range(LmTensors)} |-> Value(n, 0, FALSE)]
           whole == File(NoOptions, Entries(LmTensors, 32, values))
       IN  lmfile' \in {whole} \cup {CutAt(whole, k) : k \in Cuts}
    /\ last' = NotRun
    /\ UNCHANGED <<resolved, file, optim, proc, runs, saved>>

-----------------------------------------------------------------------------
(***************************************************************************)
(* Inference: the wrapper completes the command from the checkpoint's      *)
(* metadata and from the resolved config beside it, then the binary (or    *)
(* the PyTorch package) loads the model.                                   *)
(***************************************************************************)
ReadMeta == IF file.header THEN file.meta ELSE NoOptions
Unset(cfg, cmd, f) == f \notin Overridden(cmd) /\ cfg[f] = InferConfig[f]

FromMeta(cfg, cmd) ==
    [f \in {g \in ShapeFields \cap DOMAIN ReadMeta : Unset(cfg, cmd, g)} |-> ReadMeta[f]] ++ cfg

(* a plausible slip: the layer counts of the resolved config as they stand *)
FromResolvedAsIs(cfg, cmd) ==
    [f \in {g \in ShapeFields \cup {"cross_attn", "block_size"} : Unset(cfg, cmd, g)} |-> resolved[f]] ++ cfg

FromResolved(cfg, cmd) ==
    LET trained == WithLayers(resolved)
        copied == {f \in ShapeFields \cup {"cross_attn", "block_size"} : Unset(cfg, cmd, f)}
        fixed == Unset(cfg, cmd, "fixed_patches") /\ ~trained.entropy_patches
        lm == /\ Unset(cfg, cmd, "entropy_lm") /\ ~fixed /\ ~cfg.fixed_patches
              /\ trained.entropy_patches
    IN  [f \in copied |-> trained[f]]
          ++ (IF fixed THEN [f \in {"fixed_patches"} |-> TRUE] ELSE NoOptions)
          ++ (IF lm THEN [f \in {"entropy_lm"} |-> trained.entropy_lm] ELSE NoOptions)
          ++ cfg

Completed(cmd) ==
    LET cfg == FromMeta(Layered(cmd, InferConfig), cmd)
    IN  IF cmd.beside /\ resolved # NoOptions THEN FromResolved(cfg, cmd) ELSE cfg

(* main of infer.c, up to the model: the options, or nothing if refused *)
ShapeOf(arg) ==
    [f \in ShapeFields |-> IF arg[f] = 0 /\ f \in DOMAIN ReadMeta THEN ReadMeta[f] ELSE arg[f]]

Refuses(argv, arg) ==
    \/ ~file.header
    \/ \E f \in ShapeFields : ShapeOf(arg)[f] = 0
    \/ arg.method \in BlockMethods /\ "block_size" \notin DOMAIN argv
    \/ ~arg.fixed_patches /\ arg.entropy_lm = NoPath /\ ~arg.allow_random_entropy_lm
    \/ ~ModelAccepts(file, ShapeOf(arg))
    \/ ~LmAccepted(arg)

Threshold(arg) == IF arg.unmask = "eb" /\ arg.threshold = 7 THEN 10 ELSE arg.threshold

(* What a block row starts from is no option of inference: the C program   *)
(* reads the learned table, PyTorch's self-speculation alone starts from   *)
(* zeros.                                                                  *)
D0Mode(backend, method) ==
    IF backend = "torch" /\ method = "selfspec" THEN "zeros" ELSE "learned"

Ran(cmd, arg, s, params) ==
    [ran |-> TRUE, cmd |-> cmd, params |-> params, d0_mode |-> D0Mode(cmd.backend, arg.method),
     arg |-> [f \in {"threshold"} |-> Threshold(arg)] ++ s ++ arg]

Infer(cmd) ==
    /\ proc = Idle /\ cmd.backend = "c"
    /\ LET argv == InferArgv(Completed(cmd))
           arg == ParseInference(argv)
       IN  last' = IF Refuses(argv, arg) THEN [ran |-> FALSE, cmd |-> cmd]
                   ELSE Ran(cmd, arg, ShapeOf(arg), Loaded(file, TensorAt(ShapeOf(arg))))
    /\ UNCHANGED <<resolved, file, optim, lmfile, proc, runs, saved>>

(* run_infer: a shape nobody gave is the default of the package *)
TorchInfer(cmd) ==
    /\ proc = Idle /\ cmd.backend = "torch"
    /\ LET cfg == Completed(cmd)
           s == [f \in ShapeFields |-> IF cfg[f] # 0 THEN cfg[f] ELSE IF f = "embed" THEN 64 ELSE 2]
       IN  last' = IF ~TorchAccepts(file, s) THEN [ran |-> FALSE, cmd |-> cmd]
                   ELSE Ran(cmd, cfg, s, TorchLoaded(file, s))
    /\ UNCHANGED <<resolved, file, optim, lmfile, proc, runs, saved>>

FilesNext ==
    \/ \E cmd \in Trainings : Configure(cmd)
    \/ Start \/ Step \/ Save \/ SaveBest \/ SaveKilled \/ MomentsKilled \/ End \/ TrainLm
    \/ \E cmd \in Inferences : Infer(cmd) \/ TorchInfer(cmd)

FilesSpec == FilesInit /\ [][FilesNext]_filesVars

-----------------------------------------------------------------------------
(***************************************************************************)
(* A model that loads has, in every parameter, the values that parameter   *)
(* had when the checkpoint was saved, whole, lying the way the loader      *)
(* keeps them, whichever of the two programs saved and whichever loads.    *)
(***************************************************************************)
Same(now, then, turned) ==
    now = [then EXCEPT !.turned = turned]

LoadedIsSaved ==
    /\ FilesTypeOK
    /\ last.ran =>
        \A n \in DOMAIN last.params :
            /\ n \in DOMAIN saved.params
            /\ Same(last.params[n], saved.params[n],
                    last.cmd.backend = "torch" /\ n[3] \in Linear)

(***************************************************************************)
(* Over training, saving and resuming, with another model's moments beside *)
(* the weights as well, a parameter is moved by its own gradient and its   *)
(* own moments only, and the trainer's weight decay spares the norms.      *)
(***************************************************************************)
MomentsBelong ==
    proc.phase = "train" =>
        /\ \A n \in DOMAIN proc.params :
            /\ proc.params[n].from = {n}
            /\ proc.params[n].run = runs /\ proc.cmd.backend = "c" =>
                (proc.params[n].decayed => n[3] \notin {"norm1", "norm2", "cross_norm"})
        /\ \A i \in DOMAIN proc.moments : proc.moments[i] \subseteq {TensorAt(proc.opt)[i].tensor}

(***************************************************************************)
(* An inference that runs on a checkpoint still beside its own run's       *)
(* resolved config uses the shape, cross-attention, block size, patching   *)
(* and entropy model of the training, save where the command says          *)
(* otherwise in an override or a flag, which is then what it uses.  A YAML *)
(* value counts when it is not the default, and a width or a number of     *)
(* layers when it is not 0.  The PyTorch package segments in its own way,  *)
(* and its cross-attention is in every layer.                              *)
(* The D_0 policy does not travel.  A model trained with --d0-mode zeros   *)
(* drafts blocks from a table no gradient reached, in either program and   *)
(* without a word: block drafting runs as trained if and only if the       *)
(* training's policy was the learned one.                                  *)
(***************************************************************************)
Says(cmd) == Overridden(cmd) \cup {f \in DOMAIN cmd.yaml : cmd.yaml[f] # InferConfig[f]}
Uses(cmd) ==
    DOMAIN InferConfig \ IF cmd.backend = "torch" THEN {"cross_attn", "fixed_patches"} ELSE {}

InferredAsTrained ==
    last.ran =>
        LET cmd == last.cmd
            arg == last.arg
            opt == saved.opt
            unsaid == Uses(cmd) \ Says(cmd)
            said == {f \in (Says(cmd) \cap Uses(cmd)) \ {"threshold"} :
                        f \in ShapeFields => Layered(cmd, InferConfig)[f] # 0}
        IN  /\ \A f \in said : arg[f] = Layered(cmd, InferConfig)[f]
            /\ cmd.beside /\ resolved = saved.config =>
                /\ \A f \in unsaid \cap (ShapeFields \cup {"cross_attn", "block_size"}) : arg[f] = opt[f]
                /\ {"fixed_patches", "entropy_lm"} \subseteq unsaid =>
                    /\ arg.fixed_patches = ~opt.entropy_patches
                    /\ opt.entropy_patches => arg.entropy_lm = opt.entropy_lm
            /\ cmd.backend = "c" => Shape(arg) = Shape(opt)
            /\ arg.method \in BlockMethods =>
                (last.d0_mode = opt.d0_mode <=> opt.d0_mode = "learned")
=============================================================================
