---------------------------- MODULE MCCheckpoint ----------------------------
(* Model checking of Checkpoint: two shapes with as many tensors in another *)
(* order, trained by either program, resumed, and run by commands that say  *)
(* more or less.                                                            *)
EXTENDS Checkpoint

Training(backend, resume, moments, yaml, override, flags) ==
    [backend |-> backend, resume |-> resume, moments |-> moments,
     yaml |-> yaml, override |-> override, flags |-> flags]

Wide == [layers |-> 1, dec_layers |-> 2]
Tall == [layers |-> 1, enc_layers |-> 2]

MCTrainings ==
    {Training("c", FALSE, FALSE, Wide, [block_size |-> 8], [d0_mode |-> "zeros"]),
     Training("c", TRUE, TRUE, Wide, [block_size |-> 2], [cross_attn |-> "last"]),
     Training("c", FALSE, FALSE, Tall, [entropy_patches |-> TRUE], [entropy_lm |-> "lm"]),
     Training("torch", TRUE, FALSE, NoOptions, NoOptions, Wide),
     Training("torch", FALSE, FALSE, Tall, NoOptions, [entropy_patches |-> TRUE])}

Inference(backend, beside, yaml, override, flags) ==
    [backend |-> backend, beside |-> beside, yaml |-> yaml, override |-> override, flags |-> flags]

WideShape == [embed |-> 64, enc_layers |-> 1, glob_layers |-> 1, dec_layers |-> 2]

MCInferences ==
    {Inference("c", TRUE, NoOptions, NoOptions, NoOptions),
     Inference("c", TRUE, [unmask |-> "eb"], NoOptions, [method |-> "blockdiff"]),
     Inference("c", TRUE, [block_size |-> 2, method |-> "blockdv"], [block_size |-> 4], NoOptions),
     Inference("c", TRUE, [entropy_lm |-> "lm"], WideShape, NoOptions),
     Inference("c", TRUE, NoOptions, NoOptions, [allow_random_entropy_lm |-> TRUE]),
     Inference("c", FALSE, NoOptions, NoOptions, [fixed_patches |-> TRUE]),
     Inference("c", FALSE, WideShape, [fixed_patches |-> TRUE], [method |-> "blockdiff"]),
     Inference("torch", TRUE, NoOptions, NoOptions, NoOptions),
     Inference("torch", FALSE, NoOptions, [method |-> "blockdiff"], WideShape)}
=============================================================================
