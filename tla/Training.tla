------------------------------ MODULE Training ------------------------------
(***************************************************************************)
(* The trainer (train_blt_d) over several invocations: optimizer steps,    *)
(* periodic, best and final checkpoints written in place, a process that   *)
(* may be killed at any point, and the user who resumes from the files.    *)
(*                                                                         *)
(* Weights and moments are not numbers but the list of what was done to    *)
(* them: the gradients applied, in order, and the schedule they were       *)
(* applied under.  The arithmetic of a step is deterministic (a fixed seed *)
(* and --deterministic on a device), so the list determines the bits.      *)
(***************************************************************************)
EXTENDS Integers, SequencesExt, WindowOrder

CONSTANTS Setups,     \* the flags kept over all invocations, and the corpus
          MaxStep,    \* bound: largest training step
          MaxStarts,  \* bound: invocations
          NoFile,     \* an absent file, or a flag that is not given
          Torn        \* a file opened for writing and not closed

ASSUME TrainingAssumption ==
    /\ MaxStep \in Nat /\ MaxStarts \in Nat
    /\ \A s \in Setups :
          /\ s.windows \in Nat \ {0}          \* num_windows
          /\ s.skipped \subseteq 0..s.windows - 1  \* cut into BLT_MAX_PATCHES patches
          /\ s.mix \in [0..MaxStep * s.gradAccum -> [a : 0..s.windows - 1, b : 0..s.windows - 1]]
          /\ s.gradAccum \in Nat \ {0}
          /\ s.bf16 \in BOOLEAN               \* forward passes read reduced copies of the weights
          /\ s.adamw \in BOOLEAN              \* --optimizer, with --save-optim
          /\ s.fraction \in BOOLEAN           \* a schedule that depends on end_step
          /\ s.template \in BOOLEAN           \* %d in the paths of the periodic saves
          /\ s.saveEvery \in Nat /\ s.monitorEvery \in Nat
          /\ s.evalEvery \in Nat              \* 0: neither eval corpus nor --save-best
          /\ s.metric \in [1..MaxStep -> Int] \* measured after that many steps; < 0: invalid
          /\ s.kills \in BOOLEAN              \* the process may be killed

Kinds == {"weights", "optim", "best", "bestOptim"}
Name == ({"weights", "optim"} \X (0..MaxStep)) \cup {<<"best", 0>>, <<"bestOptim", 0>>}

VARIABLES setup,
          disk,     \* the files
          pc,       \* "idle" (no process), "loop", "monitor", "eval", or the kind being saved
          starts,   \* invocations so far
          open,     \* the file of that kind is open
          final,    \* past the training loop
          step,     \* optimizer steps done, absolute
          end,      \* end_step
          mem,      \* weights, moments, bias-correction counter, gradient, reduced copies
          best,     \* best_metric_value, -1 for the initial infinity
          evals,    \* history: the valid metrics this invocation has seen
          ways      \* history: how this lineage departs from one continuous run

process == <<final, step, end, mem, best, evals, ways>>
vars == <<setup, disk, starts, pc, open, process>>

(* blt_model, adamw_state and grad after an initialisation from the seed.  *)
(* "copies" is how many updates the reduced copies of the weights hold, -1 *)
(* when they were never written.                                           *)
Fresh == [weights |-> <<>>, moments |-> <<>>, bias |-> 0, grad |-> <<>>, copies |-> -1]

Grad == Seq(Nat \X Nat)     \* the data steps and windows summed in it
Moment == [grad : Grad, plan : Nat]
Update == [grad : Grad, copies : Int, bias : Nat, moments : Seq(Moment), plan : Nat, step : Nat]
Model == [weights : Seq(Update), moments : Seq(Moment), bias : Nat, grad : Grad, copies : Int]
Departures == {"cold", "mismatch", "replanned", "best"}

(* step is in the metadata of a weight file and in the header of an        *)
(* optimizer file; end and ways are history.                               *)
WeightFiles == [step : 0..MaxStep, end : 0..MaxStep, ways : SUBSET Departures, weights : Seq(Update)]
OptimFiles == [step : 0..MaxStep, end : 0..MaxStep, ways : SUBSET Departures,
               moments : Seq(Moment), bias : Nat]
Files(kind) == IF kind \in {"weights", "best"} THEN WeightFiles ELSE OptimFiles

ASSUME NotFiles ==
    /\ NoFile \notin Name \cup Nat
    /\ {NoFile, Torn} \cap (WeightFiles \cup OptimFiles) = {}

TypeOK ==
    /\ setup \in Setups
    /\ disk = [n \in Name |-> disk[n]]
    /\ \A n \in Name : disk[n] \in {NoFile, Torn} \cup Files(n[1])
    /\ pc \in {"idle", "loop", "monitor", "eval"} \cup Kinds
    /\ starts \in 0..MaxStarts
    /\ open \in BOOLEAN /\ final \in BOOLEAN
    /\ step \in 0..MaxStep /\ end \in 0..MaxStep /\ step <= end
    /\ mem \in Model
    /\ best \in Int /\ evals \subseteq Nat /\ ways \subseteq Departures

Exited ==
    /\ pc' = "idle" /\ open' = FALSE /\ final' = FALSE
    /\ step' = 0 /\ end' = 0 /\ mem' = Fresh
    /\ best' = -1 /\ evals' = {} /\ ways' = {}

Init ==
    /\ setup \in Setups
    /\ disk = [n \in Name |-> NoFile]
    /\ starts = 0
    /\ pc = "idle" /\ open = FALSE /\ final = FALSE
    /\ step = 0 /\ end = 0 /\ mem = Fresh
    /\ best = -1 /\ evals = {} /\ ways = {}
-----------------------------------------------------------------------------
(* One optimizer step.  A window with too many patches is skipped before   *)
(* the gradient is zeroed: without accumulation the optimizer then applies *)
(* the gradient of the step before; with it the window counts for nothing. *)
Visit(s, d) == <<d, WindowIndex(d, s.windows, s.mix)>>
Visits(s, n) == [i \in 1..s.gradAccum |-> Visit(s, n * s.gradAccum + i - 1)]
Skipped(s, v) == v[2] \in s.skipped

GradZero == <<>>
GradAdd(dst, src) == dst \o src

MicroStep(s, g, v) ==
    IF Skipped(s, v) THEN g
    ELSE LET grad == GradAdd(GradZero, <<v>>)
         IN  [grad |-> grad, sum |-> IF s.gradAccum > 1 THEN GradAdd(g.sum, grad) ELSE g.sum]
Gradient(s, old, n) ==
    LET after[i \in 0..s.gradAccum] ==
            IF i = 0 THEN [grad |-> old, sum |-> GradZero]
            ELSE MicroStep(s, after[i - 1], Visits(s, n)[i])
        last == after[s.gradAccum]
    IN  IF s.gradAccum > 1 THEN GradAdd(GradZero, last.sum) ELSE last.grad

(* A forward pass of training refreshes the copies before it reads them;   *)
(* the monitor and the evaluations read them as they are, an update late.  *)
Computes(s, n) == \E i \in 1..s.gradAccum : ~Skipped(s, Visits(s, n)[i])
Refreshed(s, m, n) == IF s.bf16 /\ Computes(s, n) THEN Len(m.weights) ELSE m.copies

(* train_lr_at_step and the mask schedules: fixed by the step, or by the   *)
(* step and the end of the invocation.                                     *)
Planned(s, e) == IF s.fraction THEN e ELSE 0

(* adamw_all, or sgd_all, which keeps nothing.  What a gradient is depends *)
(* on the weights it was computed at, so on the plan they were reached by. *)
Moments(s, m, g, e) ==
    IF s.adamw THEN Append(m.moments, [grad |-> g, plan |-> Planned(s, e)]) ELSE <<>>
BiasStep(s, m) == IF s.adamw THEN m.bias + 1 ELSE 0

Updated(s, m, n, e) ==
    LET g == Gradient(s, m.grad, n)
        u == [grad |-> g, copies |-> Refreshed(s, m, n), bias |-> BiasStep(s, m),
              moments |-> Moments(s, m, g, e), plan |-> Planned(s, e), step |-> n]
    IN  [weights |-> Append(m.weights, u), moments |-> u.moments, bias |-> u.bias, grad |-> g,
         copies |-> u.copies]

(* What follows a step, and what follows the loop: monitor, weights,       *)
(* optimizer, evaluation, best weights, best optimizer; each if it is due. *)
Every(k, n) == k > 0 /\ n % k = 0
AfterEval(fin) == IF fin THEN "idle" ELSE "loop"
AfterSave(n, fin) ==
    IF setup.evalEvery > 0 /\ (fin \/ Every(setup.evalEvery, n)) THEN "eval" ELSE AfterEval(fin)
BeforeSave(n, fin) ==
    IF fin \/ Every(setup.saveEvery, n) THEN "weights" ELSE AfterSave(n, fin)
AfterTrain(n) ==
    IF setup.evalEvery > 0 /\ Every(setup.monitorEvery, n) THEN "monitor" ELSE BeforeSave(n, FALSE)

Unfinished == step < end

Train ==
    /\ pc = "loop" /\ Unfinished
    /\ mem' = Updated(setup, mem, step, end)
    /\ step' = step + 1
    /\ pc' = AfterTrain(step + 1)
    /\ UNCHANGED <<setup, disk, starts, open, final, end, best, evals, ways>>

(* The leak monitor reads the model and may stop the run with status 3.    *)
Monitor ==
    /\ pc = "monitor"
    /\ \/ pc' = BeforeSave(step, FALSE) /\ UNCHANGED <<open, process>>
       \/ Exited
    /\ UNCHANGED <<setup, disk, starts>>

LoopEnds ==
    /\ pc = "loop" /\ ~Unfinished
    /\ final' = TRUE
    /\ pc' = BeforeSave(step, TRUE)
    /\ UNCHANGED <<setup, disk, starts, open, step, end, mem, best, evals, ways>>
-----------------------------------------------------------------------------
(* Saving: fopen "wb" empties the file, fclose completes it.  A kill       *)
(* between the two leaves a file that no load accepts.                     *)
FileName(kind, n) ==
    <<kind, IF setup.template /\ kind \in {"weights", "optim"} THEN n ELSE 0>>

WeightFile == [step |-> step, end |-> end, ways |-> ways, weights |-> mem.weights]
OptimFile ==
    [step |-> step, end |-> end, ways |-> ways, moments |-> mem.moments, bias |-> mem.bias]
Contents(kind) == IF kind \in {"weights", "best"} THEN WeightFile ELSE OptimFile

WeightsAlone(kind) ==
    IF kind \in {"weights", "optim"} THEN AfterSave(step, final) ELSE AfterEval(final)

WithMoments == [weights |-> "optim", best |-> "bestOptim"]
AfterFile(kind) ==
    IF setup.adamw /\ kind \in {"weights", "best"} THEN WithMoments[kind] ELSE WeightsAlone(kind)

OpenFile ==
    /\ pc \in Kinds /\ ~open
    /\ open' = TRUE
    /\ disk' = [disk EXCEPT ![FileName(pc, step)] = Torn]
    /\ UNCHANGED <<setup, starts, pc, process>>

CloseFile ==
    /\ pc \in Kinds /\ open
    /\ disk' = [disk EXCEPT ![FileName(pc, step)] = Contents(pc)]
    /\ IF AfterFile(pc) = "idle" THEN Exited
       ELSE pc' = AfterFile(pc) /\ open' = FALSE /\ UNCHANGED process
    /\ UNCHANGED <<setup, starts>>

(* The held-out evaluation, in the loop and after it; a strictly better    *)
(* valid metric is remembered and the model saved.                         *)
Metric == setup.metric[Len(mem.weights)]
Changed(v) == v >= 0 /\ v # best
Improved(v) == v >= 0 /\ v > best

Evaluate ==
    /\ pc = "eval"
    /\ IF Improved(Metric)
       THEN /\ best' = Metric /\ evals' = evals \cup {Metric}
            /\ pc' = "best"
            /\ UNCHANGED <<open, final, step, end, mem, ways>>
       ELSE IF AfterEval(final) = "idle" THEN Exited
       ELSE /\ evals' = evals \cup ({Metric} \cap Nat)
            /\ pc' = AfterEval(final)
            /\ UNCHANGED <<open, final, step, end, mem, best, ways>>
    /\ UNCHANGED <<setup, disk, starts>>
-----------------------------------------------------------------------------
(* An invocation.  Loading reads whole files or aborts.                    *)
Loadable(n) == disk[n] \notin {NoFile, Torn}

Begins(start, steps, m, w) ==
    /\ starts < MaxStarts /\ starts' = starts + 1
    /\ pc' = "loop" /\ step' = start /\ end' = start + steps
    /\ mem' = m /\ ways' = w
    /\ best' = -1 /\ evals' = {} /\ final' = FALSE
    /\ UNCHANGED <<setup, disk, open>>

StartFresh ==
    /\ pc = "idle"
    /\ \E steps \in 1..MaxStep : Begins(0, steps, Fresh, {})

(* --load-weights w, --load-optim o (or not), --start-step (or not).       *)
StartStep(o, given) ==
    IF given # NoFile THEN given ELSE IF o # NoFile THEN disk[o].step ELSE 0
LoadWeights(m, w) == [m EXCEPT !.weights = disk[w].weights]
LoadMoments(m, o) == IF o = NoFile THEN m ELSE [m EXCEPT !.moments = disk[o].moments]
LoadOptim(m, o) ==
    IF o = NoFile THEN m ELSE [m EXCEPT !.moments = disk[o].moments, !.bias = disk[o].bias]

Departing(w, o, given, e) ==
    LET start == StartStep(o, given)
    IN  disk[w].ways \cup (IF o = NoFile THEN {} ELSE disk[o].ways)
        \cup (IF o = NoFile /\ (setup.adamw \/ start # disk[w].step) THEN {"cold"} ELSE {})
        \cup (IF o # NoFile /\ (disk[o].step # disk[w].step \/ start # disk[w].step)
              THEN {"mismatch"} ELSE {})
        \cup (IF setup.fraction /\ (e # disk[w].end \/ (o # NoFile /\ e # disk[o].end))
              THEN {"replanned"} ELSE {})
        \cup (IF w = <<"best", 0>> THEN {"best"} ELSE {})

(* The user names the weights and the optimizer file of one save.          *)
Pairs == {[w |-> <<"weights", n>>, o |-> <<"optim", n>>] : n \in 0..MaxStep}
         \cup {[w |-> <<"best", 0>>, o |-> <<"bestOptim", 0>>]}

Resume ==
    /\ pc = "idle"
    /\ \E p \in Pairs, steps \in 1..MaxStep, withOptim \in BOOLEAN, byHand \in BOOLEAN :
          LET o == IF withOptim THEN p.o ELSE NoFile
              given == IF byHand THEN disk[p.w].step ELSE NoFile
          IN  /\ Loadable(p.w)
              /\ withOptim => setup.adamw /\ Loadable(p.o)
              /\ StartStep(o, given) + steps <= MaxStep
              /\ Len(disk[p.w].weights) + steps <= MaxStep    \* bound
              /\ Begins(StartStep(o, given), steps, LoadOptim(LoadWeights(Fresh, p.w), o),
                        Departing(p.w, o, given, StartStep(o, given) + steps))

Kill ==
    /\ pc # "idle" /\ setup.kills
    /\ Exited
    /\ UNCHANGED <<setup, disk, starts>>

(* The bound on invocations is reached.                                    *)
Rest == pc = "idle" /\ starts = MaxStarts /\ UNCHANGED vars

Next == StartFresh \/ Resume \/ Rest \/ Train \/ Monitor \/ LoopEnds
        \/ OpenFile \/ CloseFile \/ Evaluate \/ Kill

Spec == Init /\ [][Next]_vars
-----------------------------------------------------------------------------
(***************************************************************************)
(* Properties.                                                             *)
(***************************************************************************)
(* One invocation of e steps from scratch, after n of them.                *)
Continuous(s, e) ==
    LET run[n \in 0..e] == IF n = 0 THEN Fresh ELSE Updated(s, run[n - 1], n - 1, e)
    IN  run

(* No optimizer step applies a gradient, or reads reduced copies, that are *)
(* left over from an earlier step: those are in no file.                   *)
Replayable(s) == s.gradAccum = 1 \/ s.bf16 => \A n \in 0..MaxStep - 1 : Computes(s, n)

(* A run resumed from a matching pair of files, toward the end both were   *)
(* planned for, any number of times and after any kill, has the weights    *)
(* and the optimizer state of one continuous run.                          *)
ResumedIsContinuous ==
    /\ TypeOK
    /\ pc # "idle" /\ ways \subseteq {"best"} /\ Replayable(setup) =>
        LET run == Continuous(setup, end)[step]
        IN  mem.weights = run.weights /\ mem.moments = run.moments /\ mem.bias = run.bias

(* With numbered checkpoints a kill never costs more than save_every steps *)
(* (of a run not restarted cold, nor from the best pair, which may be      *)
(* newer than the numbered ones that are whole), whatever file was torn.   *)
Pair(n) == /\ Loadable(<<"weights", n>>) /\ disk[<<"weights", n>>].step = n
           /\ setup.adamw => Loadable(<<"optim", n>>) /\ disk[<<"optim", n>>].step = n
RecentCheckpoint ==
    setup.template /\ setup.saveEvery > 0 /\ ways \cap {"cold", "best"} = {} =>
        \E n \in 0..MaxStep : (n = 0 \/ Pair(n)) /\ step - n <= setup.saveEvery

(* The best checkpoint is the model with the best metric this invocation   *)
(* has measured, once it is written.                                       *)
BestIsBest ==
    evals # {} /\ pc \notin {"best", "bestOptim"} =>
        /\ Loadable(<<"best", 0>>)
        /\ \A v \in evals : v <= setup.metric[Len(disk[<<"best", 0>>].weights)]
        /\ setup.adamw => /\ Loadable(<<"bestOptim", 0>>)
                          /\ disk[<<"bestOptim", 0>>].step = disk[<<"best", 0>>].step

(* Within one epoch of a continuous lineage no window's gradient is        *)
(* applied to the weights twice, over any number of invocations.           *)
EpochOnce ==
    ways \subseteq {"best"} /\ Replayable(setup) =>
        \A i, j \in 1..Len(mem.weights) :
            LET g == mem.weights[i].grad
                h == mem.weights[j].grad
            IN  \A k \in 1..Len(g), l \in 1..Len(h) :
                    /\ g[k][1] \div setup.windows = h[l][1] \div setup.windows
                    /\ g[k][2] = h[l][2]
                    => i = j /\ k = l
=============================================================================
