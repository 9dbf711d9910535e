---------------------------- MODULE TrainingData ----------------------------
(***************************************************************************)
(* Which samples a job trains on, across iterations, checkpoints, crashes  *)
(* and restarts on another number of ranks: the training loop of           *)
(* training/training.py over the parallel groups, the cached datasets, the *)
(* batch-size ramp-up and the data samplers.                               *)
(*                                                                         *)
(* A job is j = [b, s, samples, shared, prefixes, splits, tp, pp, cp, ep,  *)
(* order, save_interval]: its batch sizes, its data and its model-parallel *)
(* arguments.  Each time it is launched it gets a layout [world, mbs,      *)
(* gpus]: a number of ranks, a micro batch size and the devices of a node. *)
(* `trained` is the set of samples whose gradients are in the weights, so  *)
(* a checkpoint carries it and a crash takes it back.                      *)
(* A checkpoint is saved and published in one step here; module            *)
(* Checkpointing has the steps of a save.                                  *)
(***************************************************************************)
EXTENDS ParallelGroups, Microbatches, DataSamplers, DatasetCache, SequencesExt

CONSTANTS Jobs, Layouts, Nodes

(* The arguments of a job and of a launch.  The dataset has as many        *)
(* samples as the job trains, unless the random sampler repeats it.        *)
ASSUME ArgumentsAssumption ==
    /\ Nodes \in Nat \ {0}
    /\ Layouts \subseteq
          [world : Nat \ {0}, mbs : Nat \ {0}, gpus : Nat \ {0}]
    /\ \A j \in Jobs :
          /\ j.b \in [rampup : BOOLEAN, start : Nat, increment : Nat,
                     ramp : Nat, global : Nat \ {0}]
          /\ j.b.rampup => j.b.start > 0 /\ j.b.increment > 0 /\ j.b.ramp > 0
          /\ j.s \in [type : {"single", "cyclic"}, sharding : BOOLEAN,
                     total : Nat]
          /\ j.samples \in Nat
          /\ j.s.type = "single" => j.samples <= j.s.total
          /\ {j.tp, j.pp, j.cp, j.ep, j.save_interval} \subseteq Nat \ {0}
          /\ j.shared \in BOOLEAN /\ {j.prefixes, j.splits} \subseteq Nat \ {0}

(* A job that ramps up trains at least the samples of the ramp-up.  With   *)
(* fewer, update_train_iters takes off whole batches of the final size,    *)
(* which the smaller batches of the ramp-up do not add up to.              *)
ASSUME JobsAssumption ==
    \A j \in Jobs : j.b.rampup =>
        \E n \in DOMAIN RampConsumed(j.b) :
            j.b.ramp < RampConsumed(j.b)[n] /\ RampConsumed(j.b)[n] <= j.samples

VARIABLES job, layout,
          phase,          \* "down", "building", "training", "finished", "failed"
          why,            \* what a failed job raised
          iteration, consumed,    \* args.iteration, args.consumed_train_samples
          num_microbatches,       \* the loop's local variable
          iterators,      \* train_data_iterator of each rank that has one
          drawn,          \* what each of them read in the last iteration
          trained, saved

vars == <<job, layout, phase, why, iteration, consumed, num_microbatches,
          iterators, drawn, trained, saved, files, place>>

----------------------------------------------------------------------------
(* The groups of a launch and the data of its ranks.                       *)

SizesOf(j, l) == Sizes(l.world, j.tp, j.pp, j.cp, j.ep)

Groups(j, l, mask) == GetRanks(SizesOf(j, l), j.order, mask, FALSE)

Chunk(j, l) == SizesOf(j, l).dp * l.mbs

(* is_dataset_built_on_rank: the ranks of tensor-parallel rank 0.          *)
Readers(j, l) == {r \in Ranks(l.world) : RankIn(Groups(j, l, {"tp"}), r) = 0}

(* `sampler` arguments of a rank: mpu.get_data_parallel_rank() and so on.  *)
DataRank(j, l, r) ==
    [rank |-> RankIn(Groups(j, l, {"dp"}), r), dp |-> SizesOf(j, l).dp,
     mbs |-> l.mbs]

Launch(j, l) ==
    [ranks |-> Ranks(l.world), shared |-> j.shared, gpus |-> l.gpus, tp |-> j.tp,
     readers |-> Readers(j, l), prefixes |-> j.prefixes, splits |-> j.splits]

Iters == TrainIters(job.b, job.samples)

(* torch.randperm permutes, for the epochs a job can reach.                *)
ASSUME PermutationAssumption ==
    \A j \in Jobs : \A n \in 0 .. j.s.total, epoch \in 0 .. j.samples :
       LET perm == RandPerm(n, epoch)
       IN /\ perm \in [0 .. n - 1 -> 0 .. n - 1]
          /\ \A i, k \in 0 .. n - 1 : perm[i] = perm[k] => i = k

(* In the orders initialize.py passes the tensor-parallel groups come      *)
(* first, so each is a block of ranks.  Every data-parallel rank has a     *)
(* reader.  What else the groups promise is IsSoundGrouping.               *)
ASSUME ReadersAssumption ==
    \A j \in Jobs, l \in Layouts :
       Accepted(l.world, SizesOf(j, l), j.order) =>
          /\ Readers(j, l) = {r \in Ranks(l.world) : r % j.tp = 0}
          /\ {DataRank(j, l, r).rank : r \in Readers(j, l)}
                = 0 .. SizesOf(j, l).dp - 1

(* Without shared storage the tensor-parallel groups do not cross nodes,   *)
(* unless they are larger than a node.                                     *)
ASSUME NodesAssumption ==
    \A j \in Jobs, l \in Layouts :
       ~ j.shared /\ Accepted(l.world, SizesOf(j, l), j.order) =>
          /\ (l.world - 1) \div l.gpus < Nodes
          /\ j.tp > l.gpus \/ l.gpus % j.tp = 0

----------------------------------------------------------------------------
(* Starting: arguments, groups, load_checkpoint, the data loaders.         *)

Checkpoint == [iteration |-> iteration, consumed |-> consumed, trained |-> trained]

(* The backward-compatible formula for every checkpoint.                   *)
MutResumeAt(from) == from.iteration * job.b.global

(* build_train_valid_test_data_loaders: the samples a loader starts from.  *)
ResumeAt(from) ==
    IF from.iteration > 0 /\ from.consumed = 0
    THEN from.iteration * job.b.global ELSE from.consumed

(* The first check that fails, in the order of the code: arguments and     *)
(* groups, then what is left of them with the checkpoint loaded.           *)
StartError(l, from) ==
    LET p == SizesOf(job, l)
    IN IF ~ Accepted(l.world, p, job.order) THEN "world size"
       ELSE IF ~ BatchAccepted(job.b, Chunk(job, l)) THEN "batch size"
       ELSE IF from.iteration > 0
               /\ ~ BatchConsistent(job.b, from.consumed, Chunk(job, l))
            THEN "microbatches"
       ELSE "none"

(* The permutation of an epoch depends on the layout, and the code keeps   *)
(* no promise for the random sampler when a checkpoint is resumed on       *)
(* another one.                                                            *)
LayoutAllowed(l) == (job.s.type = "cyclic" /\ saved.iteration > 0) => l = layout

Start(l) ==
    /\ phase \notin {"building", "training"} /\ LayoutAllowed(l)
    /\ layout' = l
    /\ why' = StartError(l, saved)
    /\ iteration' = saved.iteration
    /\ consumed' = saved.consumed
    /\ trained' = saved.trained
    /\ drawn' = << >> /\ num_microbatches' = 0 /\ iterators' = << >>
    /\ IF why' = "none" THEN phase' = "building" /\ BuildStarts(Launch(job, l))
       ELSE phase' = "failed" /\ place' = << >>
    /\ UNCHANGED <<job, saved, files>>

Fail(reason) ==
    /\ phase' = "failed" /\ why' = reason
    /\ UNCHANGED <<job, layout, iteration, consumed, num_microbatches,
                   iterators, drawn, trained, files, place>>

BuildDatasets(r) ==
    /\ phase = "building"
    /\ BuildStep(r)
    /\ UNCHANGED <<job, layout, phase, why, iteration, consumed, num_microbatches,
                   iterators, drawn, trained, saved>>

BuildFails(r) ==
    /\ phase = "building"
    /\ \/ Missing(r) /\ Fail("missing")
       \/ Unreadable(r) /\ Fail("unreadable")
    /\ UNCHANGED saved

(* Every rank has its datasets: the data loaders, and the loop begins.     *)
BuildLoaders ==
    /\ phase = "building" /\ Built
    /\ LET one == [rank |-> 0, dp |-> SizesOf(job, layout).dp,
                   mbs |-> layout.mbs]
       IN IF SamplerAccepted(job.s, one, ResumeAt(saved))
          THEN /\ phase' = "training"
               /\ num_microbatches' =
                     NumMicrobatches(job.b, saved.consumed, Chunk(job, layout))
               /\ iterators' = [r \in Readers(job, layout) |->
                                   Iterator(job.s, DataRank(job, layout, r),
                                            ResumeAt(saved))]
               /\ UNCHANGED <<job, layout, why, iteration, consumed, drawn, trained,
                              files, place>>
          ELSE Fail("no samples left")
    /\ UNCHANGED saved

----------------------------------------------------------------------------
(* One iteration of the loop in train().                                   *)

(* Whether `calculated`, the new number of microbatches, has every rank    *)
(* find its data.                                                          *)
IterationError(calculated) ==
    IF calculated < num_microbatches /\ iteration # 0 THEN "decreasing"
    ELSE IF ~ BatchConsistent(job.b, consumed, Chunk(job, layout)) THEN "microbatches"
    ELSE IF \E r \in Readers(job, layout) :
                ~ CanDraw(job.s, iterators[r], calculated)
         THEN "StopIteration"
    ELSE "none"

SamplesOf(draws) ==
    UNION {UNION {ToSet(draws[r].drawn[n]) : n \in DOMAIN draws[r].drawn} :
              r \in DOMAIN draws}

(* A changed number of microbatches is saved before it is checked.  After  *)
(* the step, a signal saves and exits, and every save_interval saves.      *)
TrainIteration ==
    /\ phase = "training" /\ iteration < Iters
    /\ LET calculated == NumMicrobatches(job.b, consumed, Chunk(job, layout))
           error == IterationError(calculated)
           ramped == calculated > num_microbatches /\ iteration # 0
           draws == [r \in Readers(job, layout) |->
                        Draws(job.s, DataRank(job, layout, r), iterators[r],
                              calculated)]
       IN IF error # "none"
          THEN Fail(error) /\ saved' = IF ramped THEN Checkpoint ELSE saved
          ELSE /\ num_microbatches' = calculated
               /\ iterators' = [r \in DOMAIN draws |-> draws[r].it]
               /\ drawn' = [r \in DOMAIN draws |-> draws[r].drawn]
               /\ trained' = trained \cup SamplesOf(draws)
               /\ iteration' = iteration + 1
               /\ consumed' = consumed + Chunk(job, layout) * calculated
               /\ \E signal \in BOOLEAN :
                     /\ phase' = IF signal THEN "down" ELSE "training"
                     /\ saved' = IF signal \/ iteration' % job.save_interval = 0
                                 THEN Checkpoint' ELSE IF ramped THEN Checkpoint
                                 ELSE saved
               /\ UNCHANGED <<job, layout, why, files, place>>

(* Leaving the loop saves what no interval saved.                          *)
Finish ==
    /\ phase = "training" /\ iteration >= Iters
    /\ phase' = "finished"
    /\ saved' = IF iteration # 0 /\ iteration % job.save_interval # 0
                THEN Checkpoint ELSE saved
    /\ UNCHANGED <<job, layout, why, iteration, consumed, num_microbatches,
                   iterators, drawn, trained, files, place>>

Crash ==
    /\ phase \in {"building", "training"}
    /\ phase' = "down" /\ place' = << >>
    /\ UNCHANGED <<job, layout, why, iteration, consumed, num_microbatches,
                   iterators, drawn, trained, saved, files>>

----------------------------------------------------------------------------
Init ==
    /\ job \in Jobs
    /\ layout = [world |-> 0, mbs |-> 0, gpus |-> 1]
    /\ phase = "down" /\ why = "none"
    /\ iteration = 0 /\ consumed = 0 /\ num_microbatches = 0
    /\ iterators = << >> /\ drawn = << >> /\ trained = {}
    /\ saved = Checkpoint
    /\ place = << >>
    /\ files = [node \in 0 .. Nodes - 1 |->
                   [d \in (1 .. job.prefixes) \X (1 .. job.splits) |-> NoFiles]]

Next ==
    \/ \E l \in Layouts : Start(l)
    \/ \E r \in DOMAIN place : BuildDatasets(r) \/ BuildFails(r)
    \/ BuildLoaders \/ TrainIteration \/ Finish \/ Crash

Spec == Init /\ [][Next]_vars

----------------------------------------------------------------------------
(* An epoch of the random sampler is read in full when every rank has the  *)
(* same share of it; otherwise rank 0 may run ahead into the next epoch.   *)
EqualShares ==
    job.s.sharding \/ (job.s.total \div layout.mbs) % SizesOf(job, layout).dp = 0

EpochRead(e) ==
    Cardinality({x \in trained : x[1] = e})
        = ActiveTotal(job.s, [dp |-> SizesOf(job, layout).dp, mbs |-> layout.mbs])

(* As many samples as were counted are in the weights, each sample of an   *)
(* epoch at most once and, for the sequential sampler, none left out; the  *)
(* stages of one replica read the same microbatches; and no epoch is left  *)
(* before it was read: across the ramp-up, crashes, restarts from any      *)
(* checkpoint and, for the sequential sampler, any change of ranks or of   *)
(* the micro batch size (training.py,                                      *)
(* build_train_valid_test_data_loaders and train; data_samplers.py).       *)
EachSampleOnce ==
    /\ Cardinality(trained) = consumed
    /\ job.s.type = "single" => trained = {<<0, i>> : i \in 0 .. consumed - 1}
    /\ \A r, q \in DOMAIN drawn :
          DataRank(job, layout, r) = DataRank(job, layout, q) => drawn[r] = drawn[q]
    /\ (job.s.type = "cyclic" /\ phase = "training" /\ EqualShares) =>
          \A e \in {x[1] : x \in trained} :
              (\E x \in trained : x[1] > e) => EpochRead(e)

(* The number of iterations worked out before the ramp-up starts is one    *)
(* the data lasts for, leaves less than a batch of it, and is reached with *)
(* a number of microbatches that never falls: the loop raises neither      *)
(* StopIteration nor its assertion (update_train_iters, microbatches.py).  *)
TrainItersFitSamples ==
    /\ why \notin {"StopIteration", "decreasing"}
    /\ phase = "finished" =>
          consumed <= job.samples /\ job.samples < consumed + job.b.global

(* No rank looks for the indices of a dataset before the rank that builds  *)
(* them has written them, though the barriers of rank 0 and of the others  *)
(* are one apart; no rank waits for a barrier the others never reach; and  *)
(* what is loaded is whole.  Only a crash of an earlier launch while it    *)
(* saved the last file of a dataset leaves a cache that is taken for a hit *)
(* and cannot be read (gpt_dataset.py and blended_megatron_dataset_        *)
(* builder.py of mindspeed_llm).                                           *)
LeftByCrash(node, d) ==
    /\ \A f \in 1 .. NumFiles :
          files[node][d][f] = IF f < NumFiles THEN "whole" ELSE "truncated"
    /\ \A r \in DOMAIN place :
          place[r].written > 0 => place[r].storage # node \/ Head(place[r].todo) # d

DatasetsBuiltBeforeRead ==
    /\ why # "missing"
    /\ why = "unreadable" =>
          \E node \in DOMAIN files : \E d \in DOMAIN files[node] : LeftByCrash(node, d)
    /\ phase = "building" => Built \/ BuildingGoesOn
    /\ phase = "training" =>
          \A r \in DOMAIN iterators :
             \A d \in DOMAIN files[place[r].storage] :
                ToSet(files[place[r].storage][d]) = {"whole"}
=============================================================================
