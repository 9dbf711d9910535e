------------------------------- MODULE LossScaler -------------------------------
(***************************************************************************)
(* Dynamic loss scaling: DynamicGradScaler of                               *)
(* megatron/core/optimizer/grad_scaler.py as MixedPrecisionOptimizer.step   *)
(* of optimizer.py drives it, on every rank of a data-parallel and          *)
(* model-parallel job.                                                      *)
(*                                                                          *)
(* The scaler is replicated: each rank has its own, and nothing but the     *)
(* all-reduce of found_inf keeps the copies equal. The loss is scaled by    *)
(* the copy of the last pipeline stage; every rank unscales its gradients   *)
(* with its own.                                                            *)
(***************************************************************************)
EXTENDS Integers, FiniteSets

CONSTANTS
  Replicas,        \* data-parallel replicas
  Shards,          \* model-parallel ranks of a replica
  LastShard,       \* the shard that computes the loss
  InitialScale,    \* exponents of two: initial_scale, min_scale
  MinScale,
  GrowthInterval,  \* growth_interval, hysteresis
  Hysteresis,
  SafeScale,       \* environment: gradients overflow above this scale and, at or
  MaxSpikes,       \* below it, only in a bounded number of bad batches
  MaxRestarts      \* bound of the restarts from a checkpoint

ASSUME LossScalerAssumption ==
  /\ LastShard \in Shards
  /\ {InitialScale, MinScale, SafeScale} \subseteq Int
  /\ MinScale <= InitialScale /\ MinScale <= SafeScale
  /\ GrowthInterval \in Nat \ {0} /\ Hysteresis \in Nat \ {0}
  /\ MaxSpikes \in Nat /\ MaxRestarts \in Nat

VARIABLES
  distributed,  \* use_distributed_optimizer
  scaler,       \* scaler[r]: [scale, growth_tracker, hysteresis_tracker]
  phase,        \* where rank r is in its iteration
  iter,         \* iteration of r, modulo 3: ranks are at most one apart
  gradScale,    \* scale of the gradients of r
  overflow,     \* the gradients r holds contain an inf or nan
  found_inf,    \* found_inf of r, after its all-reduce
  success,      \* update_successful of the last step of r
  spikes, restarts,
  saved,        \* the grad_scaler state of the last checkpoint
  streak,       \* history: successive iterations with an overflow, up to now
  since         \* history: iterations with an overflow since the last growth

vars == <<distributed, scaler, phase, iter, gradScale, overflow, found_inf, success,
          spikes, restarts, saved, streak, since>>

Ranks == Replicas \X Shards
Replica(d) == {d} \X Shards
DataParallelGroup(m) == Replicas \X {m}

NewScaler == [scale |-> InitialScale, growth_tracker |-> 0, hysteresis_tracker |-> Hysteresis]
(* The histories count no further than the hysteresis they are compared with. *)
Count(n) == IF n < Hysteresis THEN n + 1 ELSE n
NewHistory == [r \in Ranks |-> 0]

MaxOf(a, b) == IF a > b THEN a ELSE b
Scales == MinScale .. MaxOf(InitialScale, SafeScale + 1)

Init ==
  /\ distributed \in BOOLEAN
  /\ scaler = [r \in Ranks |-> NewScaler]
  /\ phase = [r \in Ranks |-> "backward"]
  /\ iter = [r \in Ranks |-> 0]
  /\ gradScale = [r \in Ranks |-> InitialScale]
  /\ overflow = [r \in Ranks |-> FALSE]
  /\ found_inf = [r \in Ranks |-> FALSE]
  /\ success = [r \in Ranks |-> TRUE]
  /\ spikes = 0 /\ restarts = 0
  /\ saved = [scaler |-> NewScaler, streak |-> 0, since |-> 0]
  /\ streak = NewHistory /\ since = NewHistory

-----------------------------------------------------------------------------
(* DynamicGradScaler.update *)

MutOnOverflow(s) ==
  LET h == MaxOf(s.hysteresis_tracker - 1, 0)
  IN  [scale              |-> IF h = 0 /\ s.hysteresis_tracker # h
                              THEN MaxOf(s.scale - 1, MinScale) ELSE s.scale,
       growth_tracker     |-> 0,
       hysteresis_tracker |-> h]
OnOverflow(s) ==
  LET h == s.hysteresis_tracker - 1
  IN  [scale              |-> IF h <= 0 THEN MaxOf(s.scale - 1, MinScale) ELSE s.scale,
       growth_tracker     |-> 0,
       hysteresis_tracker |-> h]

OnSuccess(s) ==
  IF s.growth_tracker + 1 = GrowthInterval
  THEN [scale |-> s.scale + 1, growth_tracker |-> 0, hysteresis_tracker |-> Hysteresis]
  ELSE [s EXCEPT !.growth_tracker = @ + 1]

-----------------------------------------------------------------------------
(* One iteration of rank r = <<d, m>>. The last shard scales the loss, the    *)
(* others receive scaled gradients through the pipeline.                      *)
Backward(r) ==
  LET last == <<r[1], LastShard>>
  IN  /\ phase[r] = "backward"
      /\ r # last => iter[last] = iter[r] /\ phase[last] # "backward"
      /\ gradScale' = [gradScale EXCEPT ![r] =
                         IF r = last THEN scaler[r].scale ELSE gradScale[last]]
      /\ \E inf \in BOOLEAN :
           /\ r = last /\ gradScale'[r] > SafeScale => inf
           /\ inf /\ gradScale'[r] <= SafeScale => spikes < MaxSpikes
           /\ spikes' = IF inf /\ gradScale'[r] <= SafeScale THEN spikes + 1 ELSE spikes
           /\ overflow' = [overflow EXCEPT ![r] = inf]
      /\ phase' = [phase EXCEPT ![r] = "reduce"]
      /\ UNCHANGED <<distributed, scaler, iter, found_inf, success, restarts, saved,
                     streak, since>>

(* The data-parallel reduction: all replicas of a shard end up with an inf of *)
(* any of them; after a reduce-scatter only the owners of its elements do.    *)
ReduceGrads(m) ==
  LET group == DataParallelGroup(m)
      any == \E r \in group : overflow[r]
  IN  /\ \A r \in group : phase[r] = "reduce"
      /\ \E owners \in SUBSET group :
           /\ (owners # {}) <=> any
           /\ any /\ ~distributed => owners = group
           /\ overflow' = [r \in Ranks |-> IF r \in group THEN r \in owners ELSE overflow[r]]
      /\ phase' = [r \in Ranks |-> IF r \in group THEN "check" ELSE phase[r]]
      /\ UNCHANGED <<distributed, scaler, iter, gradScale, found_inf, success, spikes,
                     restarts, saved, streak, since>>

(* get_model_parallel_group; the distributed optimizer returns the world. *)
MutReplicaGroup(r) == Replica(r[1])
MutDataParallelGroup(r) == DataParallelGroup(r[2])
FoundInfGroup(r) == IF distributed THEN Ranks ELSE Replica(r[1])

(* _unscale_main_grads_and_check_for_nan: all-reduce of found_inf. *)
CheckForNan(r) ==
  LET group == FoundInfGroup(r)
      any == \E q \in group : overflow[q]
  IN  /\ \A q \in group : phase[q] = "check"
      /\ found_inf' = [q \in Ranks |-> IF q \in group THEN any ELSE found_inf[q]]
      /\ phase' = [q \in Ranks |-> IF q \in group THEN "step" ELSE phase[q]]
      /\ UNCHANGED <<distributed, scaler, iter, gradScale, overflow, success, spikes,
                     restarts, saved, streak, since>>

(* The rest of step: update the scaler, then skip or update the parameters.   *)
(* The next iteration zeroes the gradients and found_inf before it uses them. *)
Step(r) ==
  /\ phase[r] = "step"
  /\ scaler' = [scaler EXCEPT ![r] = IF found_inf[r] THEN OnOverflow(@) ELSE OnSuccess(@)]
  /\ success' = [success EXCEPT ![r] = ~found_inf[r]]
  /\ streak' = [streak EXCEPT ![r] = IF found_inf[r] THEN Count(@) ELSE 0]
  /\ since' = [since EXCEPT ![r] = IF found_inf[r] THEN Count(@)
                                   ELSE IF scaler'[r].scale > scaler[r].scale THEN 0 ELSE @]
  /\ phase' = [phase EXCEPT ![r] = "backward"]
  /\ iter' = [iter EXCEPT ![r] = (@ + 1) % 3]
  /\ overflow' = [overflow EXCEPT ![r] = FALSE]
  /\ found_inf' = [found_inf EXCEPT ![r] = FALSE]
  /\ UNCHANGED <<distributed, gradScale, spikes, restarts, saved>>

(* save_checkpoint runs between two iterations, behind a barrier. *)
SaveCheckpoint ==
  /\ restarts < MaxRestarts
  /\ \A r, q \in Ranks : phase[r] = "backward" /\ iter[r] = iter[q]
  /\ \E r \in Ranks : saved' = [scaler |-> scaler[r], streak |-> streak[r], since |-> since[r]]
  /\ UNCHANGED <<distributed, scaler, phase, iter, gradScale, overflow, found_inf, success,
                 spikes, restarts, streak, since>>

(* The job dies and starts again: load_state_dict on every rank. *)
MutLoadStateDict(s) == [NewScaler EXCEPT !.scale = s.scale]
LoadStateDict(s) == s

Restart ==
  /\ restarts < MaxRestarts
  /\ restarts' = restarts + 1
  /\ scaler' = [r \in Ranks |-> LoadStateDict(saved.scaler)]
  /\ streak' = [r \in Ranks |-> saved.streak]
  /\ since' = [r \in Ranks |-> saved.since]
  /\ phase' = [r \in Ranks |-> "backward"]
  /\ iter' = [r \in Ranks |-> 0]
  /\ gradScale' = [r \in Ranks |-> InitialScale]
  /\ overflow' = [r \in Ranks |-> FALSE]
  /\ found_inf' = [r \in Ranks |-> FALSE]
  /\ success' = [r \in Ranks |-> TRUE]
  /\ UNCHANGED <<distributed, spikes, saved>>

Iterate ==
  \/ \E r \in Ranks : Backward(r) \/ CheckForNan(r) \/ Step(r)
  \/ \E m \in Shards : ReduceGrads(m)

Next == Iterate \/ SaveCheckpoint \/ Restart

(* Ranks keep running; nobody promises that checkpoints or restarts happen. *)
Spec == Init /\ [][Next]_vars /\ WF_vars(Iterate)

-----------------------------------------------------------------------------

(* Type correctness: the scale stays between min_scale and one growth above    *)
(* what the gradients bear, and the growth tracker below growth_interval.      *)
TypeOK ==
  /\ distributed \in BOOLEAN
  /\ scaler \in [Ranks -> [scale : Scales,
                           growth_tracker : 0 .. GrowthInterval - 1,
                           hysteresis_tracker : {h \in Int : h <= Hysteresis}]]
  /\ phase \in [Ranks -> {"backward", "reduce", "check", "step"}]
  /\ iter \in [Ranks -> 0 .. 2]
  /\ gradScale \in [Ranks -> Scales]
  /\ overflow \in [Ranks -> BOOLEAN] /\ found_inf \in [Ranks -> BOOLEAN]
  /\ success \in [Ranks -> BOOLEAN]
  /\ spikes \in 0 .. MaxSpikes /\ restarts \in 0 .. MaxRestarts
  /\ streak \in [Ranks -> 0 .. Hysteresis] /\ since \in [Ranks -> 0 .. Hysteresis]

(* Replicated state does not drift: two ranks that have completed the same    *)
(* iterations have the same scaler and made the same decision to step or to   *)
(* skip, so they also agree on the learning-rate schedule train_step advances. *)
(* The state keeps its types.                                                  *)
RanksAgree ==
  /\ TypeOK
  /\ \A r, q \in Ranks :
    iter[r] = iter[q] => scaler[r] = scaler[q] /\ success[r] = success[q]

(* Every gradient is unscaled by the scale its loss was multiplied with.      *)
UnscaledByScaleUsed ==
  \A r \in Ranks : phase[r] \in {"reduce", "check"} => scaler[r].scale = gradScale[r]

(* The scale is lowered only when hysteresis iterations with an overflow were *)
(* seen since it last grew, restarts included; and from then on by each.      *)
BackoffExhaustsHysteresis ==
  [][\A r \in Ranks :
       /\ Step(r) /\ scaler'[r].scale < scaler[r].scale => since'[r] >= Hysteresis
       /\ Step(r) /\ found_inf[r] /\ since'[r] >= Hysteresis =>
            scaler'[r].scale = MaxOf(scaler[r].scale - 1, MinScale)]_vars

(* "Factor to decrease loss scale by if NaNs are seen in hysteresis            *)
(* consecutive training iterations".                                           *)
BackoffNeedsConsecutiveNaNs ==
  [][\A r \in Ranks : Step(r) /\ scaler'[r].scale < scaler[r].scale =>
                        streak'[r] >= Hysteresis]_vars

(* The optimizer does not skip for ever: the scale always comes back to where *)
(* the gradients do not overflow.                                             *)
KeepsTraining == []<>(\E r \in Ranks : phase[r] = "step" /\ ~found_inf[r])

=============================================================================
