# AGoQ in TLA+

AGoQ trains large language models with quantized activations and quantized
gradients. Its core is a modified Megatron-LM (`src/megatron`): data, tensor and
pipeline parallelism, a mixed-precision optimizer, and, added to it, 8-bit
gradient buffers with their own all-reduce and low-bit saved activations. This
directory models the parts of that core in which several processes, hooks or
iterations have to agree with one another, checks the models with TLC on small
instances, and proves the properties that matter most with TLAPS.

All paths below are relative to the repository's `src/`; `core/` stands for
`megatron/core/`.

Contents

1. The system: components, state, operations, what makes each correct
2. The modules and how they correspond to the code
3. The runs: what each checks, its bounds, why they are enough
4. Fairness
5. What is proved
6. Where the code and its documentation disagree
7. What is not modelled, and why
8. Plan

## 1. The system

A training job is a set of processes (ranks), one per accelerator. Each rank runs
the same program, `train` in `megatron/training/training.py`:

    zero_grad_buffer -> schedule (forward/backward of all microbatches)
      -> finalize_model_grads -> optimizer.step -> lr scheduler -> checkpoint / exit?

Ranks share no memory. They meet in collectives and point-to-point operations of
`torch.distributed`, which are paired **by the order in which each rank issues
them** and carry no description of what they are for. Hence the main hazard of
this code: every rank derives from its own counters what its neighbours do, and
a disagreement is either a hang or, worse, a tensor used for something else.
Within a rank, autograd calls hooks in an order nobody specifies, and several
pieces of state outlive the iteration that wrote them.

| Component | Source | State | Operations | Talks to | Hard behaviour | Correct when |
|---|---|---|---|---|---|---|
| Interleaved schedule | `core/pipeline_parallel/schedules.py` 380-1103 | per rank and chunk: lists of input, output and gradient tensors; loop counter; `no_sync` context; `synchronized_model_chunks` | warmup, steady-state, cooldown iteration; `enable/disable_grad_sync`; launching parameter and gradient synchronization | p2p communication, DDP | each rank computes the chunk of a tensor its neighbour sends; overlap of transfers with computation; deadlock | every tensor meets its microbatch; nobody waits for ever; gradients are synchronized once and complete; activations bounded |
| 1F1B schedule | same file, 1146-1418 | saved tensors, counters, `no_sync` | the same three loops | p2p, DDP | fewer microbatches than ranks; which backward pass enables grad sync | the same |
| Point-to-point communication | `core/pipeline_parallel/p2p_communication.py` | posted operations and their handles | `_communicate` and its wrappers | `torch.distributed` | pairing by order; the even/odd order of unbatched operations | no cyclic wait; tensors go where the caller meant |
| Gradient buffers (DDP) | `core/distributed/distributed_data_parallel.py`, `param_and_grad_buffer.py` | `main_grad`, 8-bit codes and `absmax`, `params_with_grad`, handles, `is_last_microbatch` | backward hook, `register_grad_ready`, `start_grad_sync`, `start_grad8bit_sync`, `finish_grad_sync`, `reset`, `zero_grad_buffer` | autograd, linear layers, optimizer | any order of hooks; two ways to reach a gradient; scales that outlive the iteration | a bucket is communicated once, complete, and the optimizer reads exactly this iteration's gradients |
| Fused weight gradient | `core/tensor_parallel/layers.py` 425-560 | `grad_added_to_main_grad` | `backward` of the linear layer | gradient buffers | a tied embedding gets both ways in one pass | every use of a weight counted once per microbatch |
| Loss scaler | `core/optimizer/grad_scaler.py` | `scale`, growth and hysteresis trackers, **replicated on each rank** | `update`, `state_dict`, `load_state_dict` | optimizer, checkpointing | only the reduction of `found_inf` keeps the copies equal; restart between two backoffs | copies equal; gradients unscaled by the scale they were scaled with; training is not skipped for ever |
| Mixed-precision optimizer | `core/optimizer/optimizer.py` | main parameters, `found_inf` | `step`, `zero_grad`, `_copy_model_grads_to_main_grads` | scaler, gradient buffers | skipped steps; clearing 8-bit buffers | all ranks step or all skip |
| 8-bit all-reduce (`a2a_ag`) | `core/distributed/param_and_grad_buffer.py` 313-371 | codes, block scales, shared scratch buffers | all-to-all, local sum, requantization, all-gather | all replicas | quantized twice | all replicas hold the same result, error bounded |
| Buffer layout | same file, 598-770 | bucket boundaries, offsets | construction | distributed optimizer | padding at boundaries, shared embeddings in their own bucket | buckets partition the buffer, contiguous, each parameter in one |
| Distributed optimizer | `core/optimizer/distrib_optimizer.py` | shards, all-gather handles | reduce-scatter, parameter all-gather, pre-hooks | DDP, schedules | all-gather overlapped with the forward pass | no forward pass reads a stale parameter |
| Gradient finalization | `core/distributed/finalize_model_grads.py` | none of its own | finish, layernorm and embedding all-reduce, per-token scaling | DDP, parallel groups | tied copies on two stages; after the 8-bit reduction `main_grad` is a wrapper | every copy ends with every contribution once |
| Training loop, exit signal | `megatron/training/training.py`, `dist_signal_handler.py` | iteration, exit flags | train, evaluate, save, exit | everything | ranks see a signal at different times | all ranks leave in the same iteration, with a checkpoint |
| Asynchronous checkpointing | `core/dist_checkpointing/strategies/async_utils.py`, `megatron/training/async_utils.py`, `checkpointing.py` | queue of active calls, background process, tracker file | schedule, poll, finalize | file system, other ranks | a crash between the writes; a writer that died | the tracker names a complete checkpoint |
| Microbatch calculator | `megatron/training/microbatches.py` | consumed samples | update | training loop | ramp-up boundaries | batch sizes divisible, monotone |
| Datasets | `core/datasets/` and what `mindspeed_llm/core/datasets/` puts in its place | `.bin`/`.idx` files, index caches on shared or local storage, cached masks | build, merge, index, blend, split, cache, read | samplers, barriers of all ranks | tokens cut at sample and epoch ends; who builds and who waits; a crash while a cache is written | every token is read in its place, once an epoch; no index is read before it is whole |
| Data preparation | `preprocess_data.py`, `mindspeed_llm/tasks/preprocess/` | builders of each key | serialise, merge subsets, pack, cut | datasets | sentences left out, samples put together by length | keys stay aligned, samples whole |
| Data samplers | `megatron/legacy/data/data_samplers.py`, loaders in `training.py` 1481-1618 | consumed samples, epoch, position of each rank's iterator | `__iter__`, `cyclic_iter`, building a loader | training loop, groups, microbatches | restart at any iteration, on other ranks, during a ramp-up | every sample is trained on once |
| Activation quantization, offload | `core/quantizer/`, `layers.py` 563-760 | saved codes and statistics, one storage for all restored inputs | quantize, dequantize, reload | autograd | one storage for all layers and microbatches; two values to a byte, eight masks to a byte | a backward pass reads what its forward pass saved, as exactly as the format allows |
| Parallel groups | `core/parallel_state.py` | rank groups | construction | all collectives | strides of dimensions that lie between others | each rank once per kind of group, crossing kinds meet in one rank |
| Mixture of experts | `core/transformer/moe/`, `core/tensor_parallel/mappings.py` | routing of the current tokens, splits, permutations | route, permute, unpermute | groups, experts | two sorts and their inverses around two exchanges; dropped and padded tokens | every token gets back what its own experts made of it |
| Checkpoint shards | `core/dist_checkpointing/strategies/fully_parallel.py`, `mapping.py`, sharded state of `distrib_optimizer.py` | which rank of a group writes and reads which shard | distribute, save, validate, exchange, load | buffer layout, groups | saved by one layout of ranks, loaded by another | every tensor is written once, whole, and every rank gets back its part |
| Inference | `megatron/inference/text_generation/`, `core/inference_params.py`, caches in `core/transformer/attention.py` | per stage: cache of keys and values, offsets into it, tokens; finished rows; open beams and hypotheses | forward pass in microbatches, sampling, scoring, beam search, answering | stages of the pipeline | stages leave the loop together; beams change places on all stages at once; the last microbatch is smaller | each token is sampled from the text before it; the caller gets what was generated |

Models, inference servers, the RLHF trainer and the Ascend adaptation
(`mindspeed_llm/`) are listed in `PROJECT.json` with the reason they are not
modelled. `PROJECT.json` also lists the hazards, each at its line, with the
properties that would catch it going wrong.

## 2. The modules

                                      InterleavedScheduleProofs
                                                  v
    PipelineOrder  <---implements---  InterleavedSchedule --+
            \                                                +-- P2PCommunication
             +-------implements-----  Schedule1F1B ---------+
                                                  ^
                                                  +-- Schedule1F1BProofs

    GradBuffer <-- GradBufferProofs   LossScaler <-- LossScalerProofs

    Checkpointing <-- CheckpointingProofs

    BufferLayout ------+---------> ShardedCheckpoint
                       +--> DistribOptimizer <---+    QuantAllReduce
    ActivationStorage -+                         |    ActivationQuant
                              ^
                              +-- DistribOptimizerProofs

    ParallelGroups ----+
    Microbatches ------+--> TrainingData <-- TrainingDataProofs
    DataSamplers ------+
    DatasetCache ------+          IndexedDataset --+--> GPTIndices      DatasetBlend
    ParallelGroups -------> MoEDispatch            +--> DataPreprocess
           +--------------> FinalizeGrads

    InferencePipeline --> TextGeneration --+
           +------------> BeamSearch ------+--> Inference <-- InferenceProofs

An arrow `-->` says that the second module extends the first (`<--`: the first the
second does). `BufferLayout`,
`ParallelGroups`, `Microbatches`, `DataSamplers`, `ActivationQuant`,
`QuantAllReduce`, `MoEDispatch`, `FinalizeGrads`, `ShardedCheckpoint`, `IndexedDataset`, `GPTIndices`,
`DatasetBlend` and `DataPreprocess` are pure algorithms, written as operators; those with an arrow to a state machine are steps of it as well.

The seams between the modules:

- *Schedules and `GradBuffer`*: the schedules guarantee (`GradSyncOnceComplete`)
  what `GradBuffer` takes as given in `SyncEnabled` and `DelayedGradSync`, that
  synchronization is enabled exactly in the last microbatch or called once after it.
- *`GradBuffer` and `LossScaler`* meet in `optimizer.step`: `GradBuffer` follows the
  gradients' content on one rank, `LossScaler` only whether they overflow, on all.
- *`GradBuffer` and `QuantAllReduce`*: an 8-bit bucket that is "reduced" in
  `GradBuffer` has gone through `a2a_ag`, which `QuantAllReduce` works out.
- *Schedules and `DistribOptimizer`*: the order of forward and backward passes of a
  rank is a constant of `DistribOptimizer` (`schedule`), which adds what the
  schedules leave out: pre-hooks, gathers, and the storage of activations.
- *`Checkpointing`, `TrainingData`, `DistribOptimizer`* are three views of the loop
  of `train`. Seen from `Checkpointing` an iteration is the single action
  `TrainStep`; seen from `TrainingData` a save is a single assignment; and
  `DistribOptimizer` sees a save only as a reader of the parameters. What is in the
  files is `ShardedCheckpoint`'s.

### PipelineOrder: what a schedule promises

The abstract specification. Each virtual stage counts the microbatches it ran
forward and backward; a forward pass needs the stage before, a backward pass the
stage behind. It stands for `forward_step` / `backward_step` and their data
dependencies, and has no ranks, loops or messages.

### P2PCommunication

Operators on the posted operations `pend[r]` of each rank. `Communicate` yields
the operations of one `_communicate` call in the order in which the code issues
them: `_batched_p2p_ops` or, with `overlap_p2p_comm`, `_p2p_ops` with its even/odd
order. `Paired` is the library (external): the n-th send of rank i to rank j
meets the n-th receive j posts from i; without batching, operations between two
ranks run one at a time in the order posted. A blocking call is `handle = "sync"`:
its caller takes no step while one is outstanding. A receive buffer is `Empty`
until its transfer completes, so reading one too early is visible.

### InterleavedSchedule

`forward_backward_pipelining_with_interleaving` on every rank. One record per
rank holds the function's local variables under their own names
(`input_tensors`, `output_tensors`, `output_tensor_grads`, ...), `phase` is the
program point and `k` the loop variable.

| Action | Code |
|---|---|
| `RecvFirst` | `recv_forward` before the loops |
| `WarmupIteration` | body of the warmup loop, including the communication at its end |
| `SteadyForward`, `SteadyBackward` | the two halves of a steady-state iteration (two steps because with overlap the forward half's communication is in flight meanwhile) |
| `RecvLast` | `recv_backward` when all forward passes ran in the warmup |
| `CooldownIteration` | body of the cooldown loop |
| `LaunchRemaining` | `enable_grad_sync()` and the remaining `grad_sync_func` calls |
| `Transfer` | external: a paired send and receive complete |

A tensor is `[stage, mb]`: who made it, for which microbatch. A stage that
combines tensors of different microbatches, or reads an unfinished buffer, makes
a tensor of microbatch `Mixed`.

### Schedule1F1B

`forward_backward_pipelining_without_interleaving`, same style. Each blocking
call is a step of its own, so one iteration of a loop is two actions. For
decoder-only models, where each link carries one tensor.

### GradBuffer

One data-parallel rank and one model chunk, over several iterations. `grad[p][u]`
counts the microbatches accumulated in `main_grad` of parameter `p` for each use
`u` (a tied embedding has two); `bad` collects the parameters whose buffer holds
something else (a dummy gradient of the fused GEMM, a remainder of the last
iteration, a contribution after the bucket was communicated); `absmax` is the set
of parameters whose 8-bit scale is not zero, since code 0 decodes to `-absmax`,
not to zero.

| Action | Code |
|---|---|
| `ZeroGrad` | `zero_grad_buffer`, `grad_added_to_main_grad = False`, `Bucket.reset` |
| `BeginBackward` | what `no_sync` makes of `is_last_microbatch` for this microbatch |
| `FusedWgrad` | the backward pass of a linear layer up to the dummy it returns |
| `ParamHook` | the hook of `_make_param_hook` with `register_grad_ready` and, for the bucket's last parameter, `start_grad_sync` or `start_grad8bit_sync` |
| `EndBackward` | end of the backward pass |
| `DelayedGradSync` | `grad_sync_func` (`start_grad_sync` of the chunk) |
| `FinishGradSync` | `finish_grad_sync` of every bucket, from `finalize_model_grads` |
| `OptimizerStep` | `_copy_model_grads_to_main_grads`, with the clearing of 8-bit codes and scales |

`pc = "failed"` is reached where an `assert` of the code fails.

### LossScaler

All ranks: `Replicas` x `Shards`. A rank's iteration is `Backward` (the last
shard scales the loss, the others receive scaled gradients), `ReduceGrads` (an
inf of one replica reaches all of them, or with a reduce-scatter the owner of its
elements), `CheckForNan` (the all-reduce of `found_inf`) and `Step` (`update`,
then step or skip). `SaveCheckpoint` and `Restart` carry the scaler's
`state_dict`. Scales are exponents of two. The environment overflows above
`SafeScale`, and at or below it in a bounded number of bad batches. Two history
variables (`streak`, `since`) count overflows for the properties.

### Checkpointing

All ranks of a job that trains `NumIters` iterations, their background writers,
and the file system, over a crash and a restart. `rank[r]` holds the program point
and the local variables (`queue` is `AsyncCallsQueue.async_calls`, `call_idx` its
counter); `writer[r][i]` is the process that writes rank r's shards of the
checkpoint of iteration i. A collective is an action of all ranks, enabled when all
of them have reached it (`Meet`); everything else is a step of one rank. The files
are kept apart because different processes write them at different times: shards,
`common.pt` (its directory not empty), `.metadata`, `metadata.json`, the tracker.

| Action | Code |
|---|---|
| `LoopHead`, `RampUpSave`, `TrainStep`, `IntervalSave` | head and body of the loop of `train`, with the saves at a batch-size ramp-up and at `save_interval` |
| `ReadSignal`, `GatherSignals` | `signals_received`: each rank's flag is read before the ranks exchange them |
| `ExitCheck`, `AllReduceDone` | exits by duration and by interval; they save unless `saved_checkpoint` |
| `FinalSave`, `Exit` | the last save and the last blocking `maybe_finalize_async_save` |
| `SaveCommon`, `Plan`, `StartWriter`, `SaveReturns` | `save_checkpoint` down to `schedule_async_request` or `execute_sync`, and its barrier |
| `Poll`, `AllReduceAlive`, `Join`, `AgreeOnCall` | `maybe_finalize_async_calls`: `is_alive` is read, summed over the ranks, acted on; call indices compared |
| `GatherResults`, `WriteMetadata`, `MetadataBarrier`, `WriteConfig`, `ConfigBarrier`, `OpenTracker`, `WriteTracker` | the finalization functions in their order |
| `WriterEnds` | external: the writer finishes, or dies without results |
| `BeginExiting` | external: SIGTERM reaches a rank, or its clock passes the duration |
| `Restart` | a crash of all processes and a new job that reads the tracker |

`pc = "raised"` is an exception, `"stopped"` the exit of `read_metadata` at an empty
tracker. A crash also ends the writers of the old job. `execute_sync` has a barrier
right before the gathering of results; the two are one collective.

### BufferLayout

`Layout(b)` follows `ParamAndGradBuffer.__init__`: parameters in reverse order of
registration, a bucket closed when `bucket_size` is reached, padding to a multiple
of the ranks and of 128 values with the distributed optimizer, a shared embedding
in a bucket of its own, and the second pass that cuts the buckets again from
the placed parameters, with its assertions. `ShardRange` and `Owners` are the ranges of
`DistributedOptimizer` (`_build_model_gbuf_range`). `IsSound` says what all ranks
rely on without telling each other.

### ActivationStorage

One record per rank: what the calls have saved, and `gpu_storage`, to which the
inputs of all layers point. `SaveInput`, `Reload` and `Release` are the forward
function, the first and the last backward function of a linear layer.

### DistribOptimizer

The ranks of a data-parallel group over several iterations. `queue[r]` are the
collectives a rank has issued, `handles[r]` the indices of `all_gather_handles` that
are not `None`. A shard of a bucket holds the number of updates it has had, so a stale
parameter is one whose shards differ from the rank's own count. A configuration
gives the buffers (laid out by `BufferLayout`), the order in which the forward pass
calls the modules, and a rank's schedule.

| Action | Code |
|---|---|
| `ZeroGrad` | `zero_grad_buffer`, `DistributedOptimizer.zero_grad` with the first dispatch |
| `ParamSync` | `param_sync_func`: `finish_param_sync`, one helper call per step |
| `ForwardModule` | the forward pre-hook of a module (`_make_forward_pre_hook`) and its forward pass |
| `ReloadActivation`, `WeightGrad` | backward pass of a layer: the input is restored; the weight gradient, the hook of the parameter and its bucket's reduce-scatter |
| `FinishGradSync` | `finish_grad_sync` of all buckets |
| `ReduceFoundInf` | the all-reduce of `found_inf` over `get_model_parallel_group()` |
| `Step` | `MixedPrecisionOptimizer.step`, then `DistributedOptimizer.step` with `_reset_metadata_and_sync_gather_all_model_params` |
| `EndIteration`, `Evaluate` | end of `train_step`, `disable_forward_pre_hook`, evaluation or hash check, `enable_forward_pre_hook` |
| `SaveOrGoOn`, `FinalSave` | saves inside the loop and after it |
| `Transfer` | external: the collective at the head of every queue runs |
| `AllDone` | the end of the job, the only state without another step |

### QuantAllReduce

`A2aAg` on the codes and scales of all ranks: the guard that sends a gradient whose
slices would cut a block over a plain all-reduce, the exchange of codes and
scales, the local sum, requantization and the all-gather. A code is a level
between `-MaxLevel` and `MaxLevel`, so the values stay integers.

### ActivationQuant

`activation_quantize` and `activation_dequantize` for every quantization type but
the two that call `gact`: nf4 with its 4, 5, 8 and 16 variants, the split formats
with their packed masks of outliers, the four-group format of `split_4group.py`
(sign, group, one bit, two values to a byte), and grouped scales. Values are
integers in units of 1/1024; the blockwise quantizers of bitsandbytes are external,
and mean, deviation and threshold are parameters for which the property holds
whatever they are. `IsFaithful` bounds the error of each value by the distance of
the levels of its block.

### ParallelGroups

`RankGenerator` and the groups `initialize_model_parallel` makes with it: strides of
the masked and the other dimensions (`RankGroups`), the order of dimensions, the
dimensions with independent expert parallelism, and what is refused.

### FinalizeGrads

Which collectives each rank of those groups calls, and with which gradients: the
all-reduce of a tied embedding when the model is built (`SetupCalls`), and, behind the
last backward pass, those of `finalize_model_grads` (the data-parallel reduction of
the chunks, norms over the tensor group, the word embedding over the ends of the
pipeline, the number of tokens). `Executed` runs the lists of all ranks, a collective
when it is next on every member, and follows for each parameter whose contributions
its gradient holds; `CountsInNorm` is the filter of the gradient norm. The 8-bit case
stops where the code does (`FinalizeRaises`): `main_grad` is then a `GradWrapper`,
which `all_reduce` refuses when a tied embedding is on two stages, and the `uint8`
buffer cannot be scaled in place by a fraction. A calculation per token needs a loss
function that returns the number of tokens; the one of `pretrain_gpt.py` does not, and
then nothing is scaled.

### Microbatches, DataSamplers, DatasetCache, TrainingData

`Microbatches` has both calculators and `update_train_iters`; `DataSamplers` the
sequential and the random sampler with `cyclic_iter` above them. `TrainingData`
composes them with the groups and the loop of `train`: a job is launched on some
layout of ranks, builds its datasets, trains, saves, crashes, and is launched again.
`DatasetCache` has what each rank does while the datasets are built, as a script of
datasets and barriers (`Script`), and the four files of each dataset on the storage of
each node: absent, truncated (opened, not yet closed) or whole. `mindspeed_llm` replaces
`build_generic_dataset`, with a barrier for every dataset, and asks
`need_to_build_dataset` who writes.

| Action | Code |
|---|---|
| `Start` | `initialize_model_parallel`, the calculator, `load_checkpoint`, and the first of their checks that fails |
| `BuildDatasets` | a step of one rank in `BlendedMegatronDatasetBuilder.build`: a barrier, a file of the cache opened or closed (`WriteFile`), the indices of a dataset loaded (`Load`) |
| `BuildFails` | a rank finds a file of the cache missing or unreadable |
| `BuildLoaders` | all ranks have their datasets: `build_train_valid_test_data_iterators` |
| `TrainIteration` | one turn of the loop: `update_num_microbatches`, the save at a ramp-up, its assertion, the batches of every rank, `consumed_train_samples`, interval save, exit by a signal |
| `Finish` | leaving the loop, with the last save |
| `Crash` | the processes end at any time |

### IndexedDataset, GPTIndices, DatasetBlend

`IndexedDataset` is the pair of files: tensors are written at once, lists through the
`BufferWriter` of `mindspeed_llm`, whole datasets appended with `AddIndex`; pointers
count bytes. `GPTIndices` is `GPTDataset`: epochs, document index, sample index
(`build_sample_idx` of `helpers.cpp`) and shuffle index, the parts a sample is put
together from, its labels, masks and positions. Tokens are pairs of document and place,
so a token read from elsewhere is another token. The shuffles are a constant operator.
`DatasetBlend` has the bookends of splits with Python's rounding, the sizes asked of
each dataset, and both loops of `helpers.cpp` that draw from the dataset that lags most;
weights are integers, so errors are compared exactly.

### DataPreprocess

`Serialized` is `_serialize_to_disk`, which leaves out a sentence under all keys when it
is too long under one; `SerializedInSubsets` cuts the documents into subsets and merges
what they give; `Knapsacks`, `SamplesOfSacks` and `PackedRows` are the packing of
`_pack_serialize_to_disk`, one turn of the greedy loop at a time (`Turn`); `CutItem` is
what reading does to an item that is too long.

### MoEDispatch

Router, token dispatchers and experts of one layer, on all ranks at once.
`AllGatherReturn` is `token_permutation`, the experts and `token_unpermutation` of
`MoEAllGatherTokenDispatcher`; `Preprocess` and `AlltoAllReturn` those of
`MoEAlltoAllTokenDispatcher`, with a tensor on every rank as a function of the rank.
A token is its rank and place; a row is a bag of terms that say which token went
through which expert, on which shard of its weights, with which probability. The
collectives run over the groups that `ParallelGroups` constructs. `Routing` is
`topk_softmax_with_capacity`: top-k, with capacity, dropping or padding.

### ShardedCheckpoint

A tensor is a set of elements, a shard a part of it with the rank that holds it and
its `replica_id`. `StateDicts` are the sharded state dictionaries of all ranks: model
parameters, cut over tensor-parallel ranks or not, and the optimizer's state, cut
where `BufferLayout` cuts the shards of a bucket. `Distribution` is
`distribute_shards_to_ranks` with the greedy `distribute_chunks_to_ranks`, `Written`
what each rank then saves, `Validates` the check that the main replicas cover every
tensor once, `Obtained` what a rank has after the exchange of the shards the group
has read. Reading and writing files is external. A checkpoint is loaded by the layout
of ranks that saved it or by another.

### InferencePipeline, TextGeneration, BeamSearch, Inference

The stages of a pipeline that answer one request. The hidden state of a position *is*
the sequence of tokens it has seen, so a key of another row, of an earlier pass or at
a wrong offset garbles it. A batch has a few rows, sampling any outcome.

| Action | Code |
|---|---|
| `Compute` | `forward_step` on a microbatch: caches written at the offsets, attention, the logits copied to the rows of the batch, offsets moved |
| `Transfer` | `send_to_next_pipeline_rank` and `recv_from_prev_pipeline_rank_`; both sides compute the size of the microbatch |
| `Sample`, `Score`, `NoLogits` | the loop body of `generate_tokens_probs_and_return_on_first_stage`, or `score_and_return_on_first_stage`, on the last stage and on the others |
| `CopyToFirst`, `BroadcastDone` | `copy_from_last_to_first_pipeline_stage` of the new column, `broadcast_from_last_pipeline_stage` of `done` and the exit from the loop |
| `ReturnLengths`, `ReturnLogProbs` | `broadcast_from_last_to_first_pipeline_stage` of the results |
| `AssertContiguous` | `_is_cuda_contiguous` in that function: with several stages, the last one stops at its assertion when the log probabilities it has cut to the columns in use (`Contiguous`) are not contiguous; the first one waits in the broadcast |
| `Search`, `NoBeams` | the loop body of `beam_search_and_return_on_first_stage` with `BeamHypotheses.add` and `is_done` |
| `BeamBroadcastDone`, `BeamCopyToFirst`, `BroadcastBestBatches` | its collectives; with the last one every stage reorders its caches (`swap_key_value_dict`) |
| `RankHypotheses`, `BroadcastSizes`, `ReturnScores`, `ReturnTokens` | what follows its loop |
| `Skip`, `BeamSkip` | a stage between first and last passes a call of the embedding group |

A collective takes place when every stage of its group is at the same call; that
stages which wait for one another wait in the same call, with the same sizes, is
`CollectivesMatch`.

## 3. The runs

`tlc -config X.cfg M` for each; each finishes within two minutes.

| Run | Instance | Shows |
|---|---|---|
| `interleaved` | 3 ranks x 3 chunks; 3 and 6 microbatches; with/without overlap, `grad_sync_func`, backward | `TensorsInOrder`, `SyncsOnceInTime`, `ActivationsInFlight`, `Termination`, `ImplementsPipelineOrder` |
| `one_f_one_b` | 4 ranks; 1 to 6 microbatches; with/without `grad_sync_func`, backward | `MicrobatchesMatch` (with `ActivationsInFlight`), `GradSyncOnceComplete`, `Termination`, `ImplementsPipelineOrder` |
| `grad_buffer` | 4 parameters (a tied embedding, a linear weight, two others) in 2 buckets; 1 to 3 microbatches in each of 3 iterations; every way to synchronize, with and without fusion, 8-bit without overlap | `CommunicatesCompleteGrads`, `OptimizerReadsThisIteration`, `NoAssertionFails`, `IterationsComplete`; `A2aAgIsQuantizedSum` on small gradients of 2 ranks |
| `grad_buffer_fp8_overlap` | the same with 8-bit gradients and overlapped reduction | violation, see 6 |
| `data_parallel` | 2 ranks, 3 iterations, 6 configurations: one and two chunks, with and without overlap, legacy activations, skipped steps, evaluations, saves | `ReadsLatestParams`, `CollectivesMatch`, `WgradReadsOwnActivation`; `LayoutSound`, `ActivationsSurvive` and `CheckpointRoundTrips` on all small inputs |
| `param_gather_order` | modules called in another order than registered | violation, see 6 |
| `training_data` | 6 jobs on layouts of 2 to 4 ranks: ramp-up, sequential, random; shared and local storage, 1 and 2 prefixes and splits; any crash, exit and relaunch | `EachSampleOnce`, `DatasetsBuiltBeforeRead`, `TrainItersFitSamples`; `GroupsSound` for every world of up to 12 ranks, with the finalization of gradients on 2 to 8 ranks with 1 to 3 stages; `TokensReturn` for expert layers on up to 4 ranks; `TextReadOnce` and `PreparedSamplesWhole` on small corpora |
| `inference` | 8 generations (1 to 3 stages, 1 to 3 prompts of 1 to 3 tokens, each way to stop, with and without microbatches, early exit and log probabilities, scoring) and searches with 2 and 3 beams over 3 steps, 4 words, 11 models, length penalty 0 and 1 | `SamplesFromWholePrefix`, `CollectivesMatch`, `AnswerIsWhatWasGenerated`, `BestHypothesesReturned`, `Answers` |
| `loss_scaler` | 2 replicas x 2 shards, with/without the distributed optimizer; hysteresis 2, growth interval 2; 2 bad batches, 1 restart | `RanksAgree`, `UnscaledByScaleUsed`, `BackoffExhaustsHysteresis`, `KeepsTraining` |
| `loss_scaler_consecutive` | the same without restarts | violation, see 6 |
| `checkpointing` | 2 ranks; 3 iterations, saved after 1 (ramp-up), 2 (interval) and 3 (end); synchronous and asynchronous; each way to exit; 1 writer dies, 1 crash | `OnlyCompleteIsPublished`, `TrackerAdvances`, `CollectivesMatch`, `JobEndsSaved` |
| `checkpointing_ramp_up` | the ramp-up after iteration 2, which `save_interval` = 2 saves as well; no deaths or crashes | violation, see 6 |

`TypeOK` of a module is a conjunct of one of its properties: `TensorsInOrder`,
`MicrobatchesMatch`, `RanksAgree`, and `CollectivesMatch` of `Checkpointing` and of
`DistribOptimizer`. For `PipelineOrder` and `GradBuffer` it is proved. The order that
`PipelineOrder` promises is a theorem, and the runs of both schedules check that they
implement it, which is proved for every size. `A2aAgIsQuantizedSum`, `LayoutSound`, `ActivationsSurvive`,
`CheckpointRoundTrips`, `GroupsSound`, `TokensReturn`, `TextReadOnce` and
`PreparedSamplesWhole` compare a pure algorithm with what it should compute for all inputs of a small set; TLC evaluates
them in the run of the module that uses the algorithm. Every property has, in
`PROJECT.json`, a mutant: a plausible bug in the modelled code with which TLC finds
the property violated.

Why these bounds are enough to be interesting:

- *Pipelines.* Three ranks are the fewest for which a rank is neither first nor
  last and the ring is longer than a pair (the code refuses fewer than three for
  the interleaved schedule). Three chunks are the fewest with a middle chunk,
  which the parameter synchronization in the loops is for (`1 < chunk < V`).
  `M = P` takes the all-warmup branch, `M = 2P` has a steady state of several
  iterations on each rank. For 1F1B, `M` runs from fewer than the ranks (no
  steady state on the first of them) over equal to more.
- *Gradient buffer.* One bucket is filled by two hooks, so there is a first and a
  last; the tied embedding shares its bucket with a parameter that has no fused
  GEMM. Two iterations are needed to see state left behind, the third lets the
  number of microbatches change in between in both directions.
- *Loss scaler.* Two replicas and two shards are the fewest for which the
  reduction over data-parallel ranks and over model-parallel ranks differ. The
  initial scale lies two steps above what the gradients bear; two bad batches
  suffice to exhaust the hysteresis once at a safe scale. A restart may fall
  between them.
- *Checkpointing*: one rank is the coordinator, one is not. Three saves can all be
  in flight when training ends, so the queue has a head, a middle and a tail, and
  writers can end in any order. The crash may come between any two writes, during
  the first job or after its writer has died, and the restarted job saves again
  into directories the crash left. In one configuration rank 0 has no shards to
  write, and therefore no writer to wait for.
- *Data-parallel training.* Two ranks are the fewest that can disagree; three
  iterations let a skipped step, a finished one and an evaluation follow each other.
  Buckets of one to three parameters, some of which end inside another rank's shard,
  make chains of gathers of different lengths; two chunks are needed for
  `param_sync_func`, whose calls all name the last chunk. A rank has two microbatches
  in flight, so the shared storage is written between a save and its use.
- *Layouts*: up to three parameters, below, at and above the padding of 128 values,
  up to three ranks, a shared embedding or none. *Activations*: one and two blocks,
  zero blocks, values on both sides of the thresholds, every type and index.
  *8-bit sums*: 2 ranks, blocks of 3 codes; 6 codes, whose slices
  are whole blocks, and 4, whose slices cut one although sizes divide evenly.
- *Training data.* A ramp-up with two and with more increments, with iterations in
  between; every iteration can be the last before a crash or an exit, and every
  launch may choose other ranks or another micro batch size (for the random
  sampler the same ones, which is all the code promises).
- *Dataset caches*: two nodes of one or two ranks are the fewest where storage, nodes
  and tensor-parallel groups differ; with two prefixes rank 0 is a barrier ahead of the
  others; a crash may come between any two openings and closings of the four files.
- *Datasets*: one to four documents of one to six tokens, written in one piece, buffered
  and merged; samples of 2 to 4 tokens, with and without the extra one, so documents
  span samples and samples documents; 1 to 9 samples, hence one to several epochs, with
  a final epoch set apart and not; blends of 2 and 3 datasets. *Preparation*: up to 4
  documents with sentences too long under both keys, one, or none, in 1 to 4 subsets; 4
  samples of 1 to 6 tokens packed into rows of 5; every prompt of up to 7 tokens and answer of
  1 to 7 cut to 1 to 12.
- *Groups*: every world of 4, 6, 8 or 12 ranks with sizes of up to 3, in four orders.
  *Experts*: 4 experts on 1 to 4 ranks, tensor and expert parallel alone and
  together, two expert groups; 2 tokens a rank; top 1 and top 2; gates that crowd all
  tokens on the same experts, spread them, and prefer the last; capacity none, 1, 2.
- *Checkpoint shards*: 1 and 2 tensor-parallel ranks, 1 to 3 data-parallel ranks (the
  third changes the padding of the buckets), two ways to register and to cut the
  parameters: 68 jobs, and the 532 pairs of them in which one can load what the other
  saved.
- *Inference*: three stages are the fewest with one that is neither first nor last.
  Prompts of different lengths put rows of the same pass into different states; a batch
  of three in microbatches of two has a smaller last one. Beams change places, close
  and reopen within three steps, and models are chosen so that late words may make up
  for expensive early ones.

`CHECK_DEADLOCK FALSE` is set where a run of the system ends by design: an
iteration of a schedule, `MaxIterations` of the gradient buffer. A rank that waits for ever is caught by `Termination` instead. The loss
scaler never stops, and TLC checks it for deadlock. It checks `DistribOptimizer`
for deadlock too, where `AllDone` marks the one state in which nothing is left to do:
a gather one rank waits for and another never issues is a deadlock. In
`TrainingData` a job can always be launched again. In `Checkpointing` a job may
end, also by an exception on one rank; `JobEndsSaved` says how it may.

## 4. Fairness

- *Schedules*: weak fairness of each rank's next step and of each pair of
  neighbours' `Transfer`. A rank is an operating-system process that keeps running
  unless it waits; the communication library completes an operation that both
  sides have posted. Nothing is assumed about relative speed, and nothing makes a
  rank post what the code does not post.
- *Gradient buffer*: weak fairness of `Next`: one thread, which stops only at a
  failed assertion.
- *Loss scaler*: weak fairness of `Iterate`, the ranks' own steps; none for
  checkpoints and restarts. `KeepsTraining` relies on the environment's promise
  that bad batches below the safe scale are finite in number, and restarts too.
- *Inference*: weak fairness of `Next`: stages are processes that keep running until
  the answer is there, and `Ended` marks the two states in which nothing is left: the
  answer has been returned, or the last stage has stopped at its assertion and the first
  waits for its log probabilities for ever (`LogProbsLost`, section 6), which `Answers` excepts.
- *Data-parallel training, training data*: none; their properties are safety, and
  that the ranks never wait for one another for ever is TLC's deadlock check.
- *Checkpointing*: weak fairness of each rank's steps, of a collective all ranks
  have entered, and of each writer (it ends, one way or the other). None for
  signals, clocks, deaths of writers and crashes: they happen or not.

## 5. What is proved

All statements hold for every value of the constants that satisfies the named
assumptions of the modules.

**The order of the passes.** Module `Schedule1F1BProofs` ends with two theorems about
`PipelineOrder` alone, `OrderInvariant` (`Spec => []OrderInv`) and
`BackwardAfterAllForwardThm`, for any numbers of stages and microbatches
(`ProperSizes`, a hypothesis of both). The code compares neighbours only; that a backward
pass of a microbatch starts after *every* stage has run it forward needs the
inductive `OrderInv`: types, `Wavefront` (between any two stages, not only
neighbours, forward counts fall and backward counts rise along the pipeline) and
`ForwardFirst`. With s <= t: `bwd[s] <= bwd[t] <= fwd[t]`; with t <= s:
`bwd[s] <= fwd[s] <= fwd[t]`.
Both schedules implement `PipelineOrder` by the theorems below and inherit the property.

**Schedule1F1BProofs.** `MicrobatchesMatchThm`, `GradSyncOnceCompleteThm` and
`ImplementsPipelineOrderThm`, for any number of pipeline ranks above one and any set of
configurations (`PAssumption`, `Schedule1F1BAssumption`: an iteration has a microbatch,
and there is a largest number of them). Operations carry no tag: a
transfer delivers whatever the other end posted first. That it is the tensor the
receiver needs is a matter of counting on both sides, and the invariant `IInv` counts:

- `Counters`: where a rank's program point puts its loop index and its two counters;
- `Saved`: its saved tensors are those of the microbatches between the counters
  (hence at most one more than its warmup, the memory promise);
- `Posted`: what it may have posted and not completed, one send and one receive at
  most, for its last pass and for its next. It is why the oldest operation of a
  channel is the only one;
- `Held`: its receive buffer is empty as long as the receive is posted, and then holds
  the tensor of the neighbour for the pass it is at;
- `Synced`: who has handed the gradients over by now;
- `Link`, the only part about two ranks: as many activations have left a rank as its
  neighbour has taken in, and as many gradients the other way.

Every action of a rank is shown to keep its local invariant and what the links count,
and to run the next pass or none (`Advances`), given the neighbours' counts; a
transfer is shown to deliver the right tensor (`Delivers`). `Link` bounds what came in
by what the neighbour has run, which is the guard of `PipelineOrder`.

**InterleavedScheduleProofs.** `TensorsInOrderThm`, `SyncsOnceInTimeThm`,
`ActivationsInFlightThm` and `ImplementsPipelineOrderThm`, for any number of ranks above
two, any number of chunks above one and any set of configurations in which the number of
microbatches is a multiple of the ranks, as the code asserts, and has a largest value
(`PAssumption`, `InterleavedAssumption`). It is the argument of the 1F1B schedule with
three complications: a rank decides from its own loop counter which chunk to run; what it
receives goes into a list of a chunk that it works out from the *neighbour's* counter; and
the ring closes, the last rank of a chunk sending to the first rank of the next.

- A loop iteration is a number with three digits, the group of P microbatches, the chunk,
  and the microbatch in the group (`Digits`). `Fwd(c, x)` and `Bwd(c, x)` are the passes of
  chunk `c` among the first `x` iterations in closed form, and the lemmas of the first
  section say how they step (`FwdStep`), and that what the next rank takes in meets what
  this one hands on (`TakenIsLeft`, `PassesMeet`), one chunk later across the end of the ring.
- `LocalInv` says what a rank has done when its loop is at `k`: passes run, inputs and
  gradients asked for (one more than run, two with overlap), the contents of the three lists
  of every chunk, with the entry whose transfer is outstanding as a hole at the end
  (`Outputs`, `Inputs`, `Grads`), which synchronizations are launched (`GradsHanded`,
  `ParamsLaunched`) and what may be posted (`Posted`).
- `Link` counts both ends of each link, as above. With `LocalInv` it is `IInv`, inductive.
  `Arrived` besides: a rank has run no pass whose input has not come.

There is one lemma per action, on lemmas about the helpers of the code
(`forward_step_helper`, `backward_step_helper`) and about one call of `communicate`; a
step keeps `LocalInv` and what its links count (`Moves`), and a transfer, paired by order
alone, fills the hole it belongs to (`Delivers`). Then `TensorsInOrder` and
`SyncsOnceInTime` follow state by state. For `ActivationsInFlight` the lengths of the lists
of all chunks have to be summed: forward less backward passes of all chunks are the
iterations of the two loops (`SumIsTotal`), and those lie a warmup apart. For the refinement, an
input that has come was sent by the stage before, so that stage is ahead (`ForwardAfter`,
`BackwardAfter`), and no chunk is ahead backward of where it is forward (`Trailing`).

**GradBufferProofs.** `GradBufferTypeOK`, `CommunicatesCompleteGradsThm`,
`OptimizerReadsThisIterationThm`, and `NoAssertionFailsThm`, for any finite or infinite
set of parameters, any buckets, any numbers of microbatches and iterations. The last
one has a hypothesis, that no configuration combines 8-bit reduction with
overlapped reduction, and the run of section 6 shows that it is needed.
The safety properties speak of the moment a bucket is communicated or read and are
not inductive. `GradInv` adds to `TypeOK`, as long as no assertion failed:

- `Counting`: each `grad[p][u]` is exactly `mb`, or `mb + 1` once the current pass
  has reached that use of the parameter;
- `ProgramPoint`: what each program point says about `mb`, `isLast` and which
  hooks may have run before the GEMM they wait for;
- `Clean`: nothing foreign in a buffer, and no scale survives into the next
  iteration, which is what makes `zero_grad_buffer` not clearing `absmax` harmless;
- `Syncing`: which buckets are issued, hold a handle or are reduced at each program
  point. In the pass that synchronizes, a bucket is issued iff all its hooks ran.

There is one lemma per action. TLC checks the other three properties on the instance
of section 3.

**LossScalerProofs.** `RanksAgreeThm`, `UnscaledByScaleUsedThm` and
`BackoffExhaustsHysteresisThm`, for any sets of replicas and shards, any scales and
intervals, with and without the distributed optimizer, with any number of bad batches
and restarts. `RanksAgree` compares ranks that have completed the same iterations, and
ranks do not run in step: one shard may be in its next forward pass while another has
not updated its scaler. So the invariant `IInv` follows them across an iteration:

- `Lockstep`: a rank is at most one iteration ahead of another, and then the one behind
  is past its reduction; of the ranks that wait for each other's `found_inf`, or reduce
  the same shard, none runs further ahead than that wait lets it;
- `Agreement`: ranks in the same iteration have the same scaler, a rank that is ahead
  has the scaler the one behind *will* have (`Updated`, from what its group finds or
  will find), and all groups find the same;
- `Unscaled`: the scale of the gradients at hand is the one in the rank's own scaler;
- `Overflows`: a scale the gradients do not bear is seen to overflow by every rank that
  is about to update, however far the reductions have got. It bounds the scale, hence
  `TypeOK`;
- `SavedOK`, the type of what a checkpoint holds.

There is one lemma per action; `SameFinding` shows that replicas which check
separately find the same, because each of their shards was reduced over all replicas.
`BackoffExhaustsHysteresis` needs `Tally` besides: the hysteresis tracker is what is
left of the hysteresis after the overflows since the last growth.

**CheckpointingProofs.** `OnlyCompleteIsPublishedThm`, `CollectivesMatchThm` and
`TrackerAdvancesThm`, for any ranks, iterations, save points and configurations, any
number of crashes, restarts and writers that die. None of the three is inductive, and
what they need is about ranks that are *not* in a collective: between two of them every
rank runs on its own, and rank 0 alone writes the files. The invariant `IInv`:

- `Agreement`: `NextMeeting` says to which collective a rank will get on its own from
  its program point, and to where it returns from there; all ranks that have not raised
  get to the same one, in the same iteration, with the same queue, request and call
  index (`SameFuture`). If a rank has raised, the others are on their way to planning a
  save or gathering results, and wait there for ever: they never get to
  `metadata.json`;
- `Control`: which program points return where, in which iterations and with which
  `blocking`. It is why the queue is empty when a job exits, and what makes the decision
  in `AllReduceAlive` the same on all ranks although each reads its own `blocking`;
- `Ordered`: requests are numbered in sequence, ascend in iteration, come after the last
  call, and their directories exist without `metadata.json`. A new request is later than
  all of them because rank 0 has found its directory empty (`FreshIteration`), which
  also bounds the queue, hence `TypeOK`;
- `Written`: a rank has started the writers of all calls behind it and in its queue, and
  once it has joined one without raising its shards are there;
- `Finalizing`: which files rank 0 has written at which point.

There is one lemma per action, on common lemmas for quiet steps of one rank
(`QuietStep`), for writes of rank 0 (`FinalizeGoes`) and for collectives
(`CollectiveStep`, `VoteStep`).

**DistribOptimizerProofs.** `CollectivesMatchThm`, `ReadsLatestParamsThm` and
`WgradReadsOwnActivationThm`, for any number of data-parallel ranks and iterations and any
configuration that satisfies the assumptions of the module.

*Queues.* Each rank decides by itself what it issues next, from its handles, its hooks,
its `update_successful` and the parameters that are ready, and ranks do not run in step.
Two queues that agree where they overlap may still be continued differently, so the
property says nothing about the next step. What makes it true is that all these
decisions are functions of the rank's own local state (`Local`): the step of a rank is
`NextLocal`, and what it issues is `Issues`. Only the all-reduce of `found_inf` brings in
something from outside, and it brings the same to all. The invariant `MatchInv` says that
there is one trajectory of local states since that all-reduce, common to all ranks
(`Trajectory`), with the number of collectives issued up to each state; a rank is at
some index of it (`HasComeTo`), and its queue is what the trajectory has issued up to
there without those that have run, which are the same in number on all ranks. A step
extends the trajectory or moves along it (`CanBeExtended`); the all-reduce, which all
ranks enter at the same index (`AllOn`), starts a new one. `LocalOK` is the part of
`TypeOK` about a local state.

*Parameters.* `ReadsInv` adds, for each rank, which gathers since its last update are
done (`Got`), in the queue, or neither, at each program point (`Gathering`). Inside a
forward pass that is a window: all handles up to some `w` are done, `w + 1` is the one
dispatched, nothing behind it is, and what the forward pass has come to lies below
`w + 1` (`Window`, `Passed`); a module's pre-hook waits for the end of the window or finds
its handle done. A shard is compared with its owner's count of updates, which is ahead
of the others' while ranks are on both sides of `step` (`Target`); that a gather never
runs then, and so copies no shard from the wrong iteration, follows from `MatchInv`.
The theorem has the hypothesis `GathersFollowForward` about each configuration: forward
passes come to the buckets in the order of their handles, and to all of them, and a save
inside the loop follows an evaluation. The code relies on it and does not check it. TLC
evaluates it (`OrderAssumption` of `MCDistribOptimizer`): it is true of the
configurations of `data_parallel` and false of those of `param_gather_order`, where
parameters are read before they are gathered (section 6).

*Activations.* `StoreInv` says which of the inputs saved by the items behind a rank's
position are still kept (`Kept`), quantized and by themselves, whoever has used the
shared storage since; between `ReloadActivation` and `WeightGrad` the storage is the
rank's own. The hypothesis `BackwardFollowsForward` is that the backward pass of a layer
comes after the forward pass of its microbatch, once, which the schedules guarantee
(`BackwardAfterAllForward`).

**InferenceProofs.** `CollectivesMatchThm`, for any number of stages, any threshold of
pipelining and any request that the server lets through (`RequestsAssumption`): prompts
of any lengths, generation, scoring or beam search. The stages decide by themselves how
many microbatches a pass has, how many rows a buffer and which call is next; nothing in a
message says so. The invariant `Inv`:

- `StageOK`: the offsets into the caches are those of the stage's microbatch and of its
  pass, and its context leaves room for one more token. It is why the assertions of the
  caches hold, and that a smaller last microbatch is smaller on both sides;
- `SamePass`: all stages are in the same pass; only broadcasts to all of them move it on;
- `Link`: as many microbatches have left a stage as the next one has taken in, so a
  sender and a receiver who wait for each other mean the same one;
- `SameSection`: between two broadcasts to all stages lies a section of the program, and
  all stages are in the same one;
- `EndsTogether`: the first and the last stage come to the points behind their own
  collectives together, and leave them together, except that the last one may stop at the
  assertion before the log probabilities (`GenerateAsserts`). The stages between them do not take part
  and may be ahead or behind, which is why the two are needed apart.

A generation may end early because the last stage says so: that all stages leave the loop
in the same turn holds since the decision depends on the broadcast alone (`GenerateTurn`,
`BeamTurn`).

`SamplesFromWholePrefixThm` and `AnswerIsWhatWasGeneratedThm` are about what a generation,
or the scoring of prompts, computes with these calls. Their hypothesis `FirstPassFits` says
that the first pass, over the shortest prompt or over all positions when scoring, has one
position or runs in one microbatch. It is needed: otherwise the second microbatch of the
pass finds a cache and is computed wrongly (section 6). All generations of the run
`inference` satisfy it. Later passes have one position each and may run in any microbatches,
also with a smaller last one. The invariant `GenerationInv` adds to `Inv`, with the text of
the last stage as reference:

- `CacheOK`: for each row, the keys up to the end of the present pass if the row has been
  through it on this stage, and up to its beginning if not (`Filled`), are those of the text:
  the token itself on the first stage, the prefix that ends there on the others (`Key`);
- `BuffersOK`, `LogitsOK`: what a stage has received, what it is about to send, and the
  logits of the microbatches so far are the prefixes of the rows of those microbatches;
- `PassOK`: only a pass over one position finds a cache that is there already, so no query
  has a wrong position or sees later keys;
- `TokensOK`: the first stage has the same text up to the context and, from the copy until
  the turn ends, the sampled token behind it. Between sampling and copying it has not; no
  stage embeds the token then, because none goes past the copy before (`BeforeCopy`);
- `AnswerOK`: lengths and finished rows are those of the text up to the last sampled token
  (`Ends`), log probabilities those of the positions scored so far; `ReturnedOK`: what the
  first stage has got of them. Where log probabilities are lost the first stage does not
  return, and the theorem claims nothing.

A stage can only compute a right prefix from right keys and a right input
(`PrefixIsRight`, `OutputIsRight`), writing them changes the rows of its microbatch alone
(`CacheIsRight`), and sampling changes only what lies behind the context, so everything
cached stays right (`DataSame`).

**TrainingDataProofs.** `TrainItersFitSamplesThm`, `DatasetsBuiltBeforeReadThm` and
`EachSampleOnceThm`, for any jobs, layouts, number of nodes and permutations.

The first is about arithmetic over a whole run. `ProgressInv` holds what the counters
have to do with each other: `OnTrack`, the samples consumed after an iteration are those
that `update_train_iters` adds up, in the ramp-up and behind it (of the checkpoint too);
the iterators of the sequential sampler go on from there; and the current number of
microbatches is that of some earlier count. The rest are lemmas about the batch size:
it never falls as samples are consumed, the ramp-up ends (`RampEnds`), and the
iterations counted before the start are just those the samples suffice for
(`WithinSamples`). It rests on `ArgumentsAssumption` and `JobsAssumption`: a job with a
ramp-up trains at least its samples.

The second is about ranks that share nothing but barriers and files. `ScriptFacts` says
where each rank's script has its datasets: dataset `n` at slot `Behind + 2n - Early`,
where a builder comes before its barrier (`Early`), the others after it, and all but
rank 0 meet one barrier first when several prefixes are built (`Behind`). `CacheInv` says
at which item of its script each rank is, that the datasets behind a rank are whole on its storage, how
far a file is written, and that no rank is more than one barrier ahead of another. A
reader of dataset `n` then has more than `Behind + n - 1` barriers behind it, so its
builder has reached as many, which are behind dataset `n` of the builder; this takes
`BuildersOK`: each storage has one builder, which reads, and if it is not rank 0 then
the ranks that read from it are not either. That follows from how
`need_to_build_dataset` picks it and from `ReadersAssumption` and `NodesAssumption`, a
statement about the groups and one about a launch: without shared storage a
tensor-parallel group does not cross nodes, unless it is larger than a node; otherwise a
node may have readers and no builder. A rank with the fewest
barriers behind it is not kept waiting, so building goes on. `FilesOK` and `WritingOK`
(files are written in order) leave a crash in the last file as the only way to an
unreadable cache.

The third is about what the weights hold after all that. `SamplesInv` says it of the job
and of its checkpoint alike (`Weights`): finitely many samples, as many as were counted;
for the sequential sampler those below the count (`SlicesCover`: the slices of the
data-parallel ranks, chunk after chunk, are an interval); for the random sampler those
read before a *time* `t`, the number of microbatches each rank has behind it. The code
keeps no such number: it keeps the samples consumed, and `cyclic_iter` starts the next pass from them.
`RandomPass` shows that the pass begun at `t` chunks is what remains of the epoch that
`t` falls in, and `RandomStep` that drawing carries an iterator from `t` to `t + 1`, from
whichever pass it draws. The strided sampler with unequal shares makes this harder than it looks: a rank that has
one microbatch more in an epoch than another draws it when the others are in the next epoch, so
time does not tell the epoch (`IsBefore`). A sample does (`SamplesApart`: it belongs to one epoch,
one rank, one place, because `torch.randperm` permutes), and with the epoch the time
(`ReadApart`), so what an iteration adds is new (`ReadsMore`), and as many as it counts
(`DrawnSamples`, by a bijection with microbatches, ranks and places). Where shares are
equal, nothing is left out either (`EpochsInFull`). A restart begins at the count in the checkpoint;
`LayoutAllowed` has a random sampler restart on the layout it was saved with.
`PermutationAssumption` says of `torch.randperm` that it permutes; its values are a
parameter.

*Sequences.* The theorems of the library on induction take an operator, which the
provers cannot instantiate. `LeastNat` (a set of numbers that is not empty has a least
one) and `NatInductionSet` say the same about a set, in first-order form (`InferenceProofs`, `TrainingDataProofs`). `FlattenSeq` of
the community modules is a recursive function; `FlattenSeqDef` unfolds it.
`DistribOptimizerProofs` derives its elements (`FlattenSeqElements`: every handle is one
bucket's), `InferenceProofs` its value on the tokens that a first stage puts together again
(`FlattenSingles`).

**Only model-checked**: which hypotheses a beam search returns, and what its stages compute; the
pure algorithms, whose folds and sorts would each need an induction of its own
(`GroupsSound`, of which `ReadersAssumption` is a part that TLC evaluates, `TokensReturn`,
`TextReadOnce`, `PreparedSamplesWhole`, `A2aAgIsQuantizedSum`, `ActivationsSurvive`,
`CheckpointRoundTrips`, and `LayoutSound`, which appears as `LayoutsAssumption` in the proofs about the distributed
optimizer, and TLC evaluates it); and everything under fairness (`Termination`,
`IterationsComplete`, `KeepsTraining`, `JobEndsSaved`, `Answers`), because liveness is out
of the prover's reach.

## 6. Where the code and its documentation disagree

- **8-bit reduction with overlapped reduction stops at an assertion**
  (`param_and_grad_buffer.py:552`, run `grad_buffer_fp8_overlap`).
  `finish_grad_sync` waits for the communication that the hooks have issued and
  asserts a handle; the all-reduce path of `start_grad8bit_sync` has completed by
  then and never sets one. Nothing refuses the combination of the options.
- **The hysteresis of the loss scaler does not count consecutive overflows**
  (`grad_scaler.py:117`, run `loss_scaler_consecutive`). The documentation says
  `hysteresis` NaNs "in a row"; the tracker is not reset by a good iteration, only
  when the scale grows. What does hold is `BackoffExhaustsHysteresis`.
- **A module called out of the order of registration reads stale parameters**
  (`distrib_optimizer.py:1290`, run `param_gather_order`). With `overlap_param_gather`
  only the end of one gather dispatches the next, in the order modules are
  registered. A module that is called before the one registered ahead of it finds no
  handle, does not wait, and reads parameters without the last update, although the
  comment at line 1251 says they are gathered. Attention registers `linear_proj`
  before `linear_qkv`; it takes buckets small enough to separate them.
- **A ramp-up save right after an interval save stops the job**
  (`training.py:1048`, run `checkpointing_ramp_up`). The save at the head of the
  loop does not know that the end of the last iteration has saved the same
  iteration, and a distributed checkpoint refuses a directory that is not empty.

Two consequences of a crash are visible in the model and contradict no document,
so `JobEndsSaved` excepts them: the files of an unfinished save make the restarted
job raise when it reaches that iteration, and a crash between opening and writing
the tracker leaves it empty, on which every later job exits.

Reading the code for the models showed more, which has no run of its own:

- *Parameters and gathers.* `step` drops the handles of gathers nobody waited for
  (parameters the forward pass does not use). `ChainedOptimizer.finish_param_sync`
  (`optimizer.py:910`) takes one argument and `training.py:976` passes two: a
  `TypeError` as soon as a chained optimizer is used with `param_sync_func`. A save
  inside the loop with `overlap_param_gather` reads model parameters before they are
  gathered; the main shards, saved as well, replace them on loading.
- *Activations.* `ColumnParallelLinear.forward` without a norm calls
  `OffloadReload.apply` with two arguments of four (`layers.py:1009`). `gpu_storage`
  has the size of its first user. A positive outlier of the split formats whose
  shifted value rounds to zero comes back at minus the threshold, because
  `group_out > 0` also decides its side (`activation_quantization.py:421`); TLC finds
  it, and `ActivationsSurvive` excepts it. The four-group format drops bytes when the
  number of values is no multiple of 128 at block size 64; a zero block (0/0, whose
  conversion to `int8` is undefined) may flip the sign of its neighbour when blocks
  are narrower than the kernel; and zero comes back as 0.064 of the block's maximum.
  `split_dev_e` loses its inner group, as a comment there says.
- *Data.* The steps of the ramp-up use float division, which may delay an increment by
  one iteration. `update_train_iters` overshoots when there are fewer samples than
  the ramp-up consumes (`JobsAssumption`). Relaunching a finished job with the
  sequential sampler raises "no samples left to consume". The strided random sampler
  with unequal shares lets rank 0 run one microbatch ahead into the next epoch.
- *Datasets.* "For padded sequences, mask the loss", says the comment at
  `gpt_dataset.py:196`; where masks are cached the zeros are written into the cached tensor, so
  all later samples leave these places out as well, and where the tokenizer's padding token is its
  end-of-document token, as in `mindspeed_llm`, every end of a document is such a place.
  `LossSound` claims what the code keeps: nothing but padding is left out, the sample's
  own or, in a cached mask, an earlier one's. `build` compares the counts
  `numpy.unique` gives, without the datasets nothing is drawn from, with the datasets in
  order (`blended_megatron_dataset_builder.py:133`): for a blend in which a small dataset gets no
  sample it may raise an `IndexError` although nothing is out of bounds; `BlendSound`
  claims that it passes when every dataset is drawn from. A blend by weights may draw
  more from a dataset than was requested of it (weights 1, 1, 5 and one sample). A
  cache whose last file was being saved at a crash is a hit at every later launch, and
  cannot be read. `num_dataset_builder_threads` does not reach the config; with more
  than one thread the barriers of `build_generic_dataset`, which ignores
  `synchronize_ranks`, would be met by threads in any order. Without shared storage, the
  cache of a blend (`path_to_cache`) is still written by rank 0 only.
- *Preparation.* `greedy_knapsack` never ends when a sample is exactly `seq_length`
  long: it passes the check for lengthy examples and fits in no row, which is one
  token shorter. Packing puts the input of a sample in the place of its labels, so prompts are
  trained on. A document that is empty under one key only shifts the numbers by which
  sentences are left out under the others.
- *Experts.* With a capacity factor above experts / top-k the capacity exceeds the
  number of tokens, which `torch.topk` refuses. Which tokens the policy "position"
  drops is up to the order of equal elements in `torch.topk`.
- *Checkpoint shards.* With `ckpt_assume_constant_structure` the distribution of the
  first save is kept and validation skipped: shards that appear later, as the moments
  of the optimizer do after its first step, have no writer in it.
  `_get_empty_tensor_for_exchange` is called with two of its arguments exchanged
  (`fully_parallel.py:480`, `539`), so every rank keeps all exchanged shards, where the
  docstring at line 563 has it drop those it does not need; nothing is lost by it.
- *Inference.* Log probabilities of several rows on several stages are lost when all rows
  end early, and with them the answer. The docstring of
  `generate_tokens_probs_and_return_on_first_stage` (`generation.py:121-126`) promises them, with
  their size adjusted. The last stage adjusts it by keeping the first columns (line 276); of
  two rows or more that view is not contiguous, and `communication.py:55` asserts that it is,
  before the broadcast in which the first stage already waits. The server always allows the
  early exit (`text_generation_server.py:219`). `Answers` excepts this state
  (`LogProbsLost`) and no other; without the exception TLC finds it in the run `inference`,
  for two rows that end at the second of three positions.
  Beam search with a length penalty stops although an open beam could
  still become better than the worst hypothesis (`beam_utils.py:61` divides the best
  sum by the present length); `BestHypothesesReturned` claims it without penalty only.
  A prompt of several tokens computed in microbatches of fewer rows runs its second
  microbatch with a cache that is there already: `attention.py:221` then takes the
  rotary embedding of the last position for all queries and drops the causal mask.
  The other positions of those rows are wrong, and with them the keys that later layers
  cache; `Generations` pipelines prompts of one token.

## 7. What is not modelled, and why

Within modelled components:

- the exchange of shapes (`variable_seq_lengths`), `use_ring_exchange_p2p` and the
  two-tensor links of encoder-decoder models;
- in `GradBuffer`, more than one replica: the order of collectives on different
  ranks is compared in `DistribOptimizer`, without the tied embeddings;
- a parameter that takes no part in a backward pass (its bucket would never be
  communicated);
- the position embeddings of encoder-decoder models in `finalize_model_grads`; frozen
  weights and sequence parallelism in the linear layers; `found_inf` without a `grad_scaler` (there is none);
- 8-bit gradients together with the distributed optimizer, for which
  `start_grad8bit_sync` reduce-scatters the wrapper and leaves the scales alone;
- `ChainedOptimizer`, expert-parallel buffers, the state of the optimizer and its
  checkpoint formats other than the one in bucket space, and the arithmetic of the
  parameter update;
- how the content of a checkpoint is matched to a model that differs from the saved
  one, the legacy `torch` format, `zarr`, a cached distribution of shards, and two of the
  three ways to exchange them, which fill the same tensors in another order;
- the filters of sampling (top-k, top-p, vocabulary), which choose among tokens but
  move none; requests that are refused as too long (`generation.py:136-140`): every stage
  raises the same `ValueError` before any call; the ranks of a tensor-parallel group are taken to sample alike, as the
  broadcast of the arguments and the common seed are there for; the inference server
  and its broadcast of a request; the variant of text generation in `mindspeed_llm/`;
- datasets for BERT, T5, retro and multimodal models, the mock dataset, blends given per
  split, the cache of a blend, the index mappings and cut of `DecoderPackedMTFDataset` other
  than those of single items, templates and tokenizers; the `float` in which
  `build_sample_idx` counts validation samples;
- groups with a split rank and the gloo copies of groups;
- bias, auxiliary losses and sinkhorn routing in expert layers, `GroupedMLP`, and the
  backward passes of their collectives;
- the rounding of floating-point numbers wherever a format is modelled: `bfloat16`
  sums in `a2a_ag`, statistics of activations; `gact` and `tensor_saver`.

Not at all: tensor arithmetic and kernels (out of TLC's reach), model definitions,
inference servers, conversion scripts. `changes_te/` holds forks of
TransformerEngine modules with `gact` calls added, `core/quantizer2` an older copy of
the quantizer, `megatron/legacy/model` the superseded models (its
`apply_residual_connection_post_norm` leaves `norm_output` undefined near line 1186):
their control flow adds nothing to what is modelled. `mindspeed_llm/` patches the same
core for another accelerator; only its datasets are modelled. The argument parsers are long and stateless; the
checks they make appear as assumptions where a model needs them.

## 8. Plan

In order of importance; each module with its own `MC` module and configuration.

1. **Done**: `PipelineOrder`, `P2PCommunication`, `InterleavedSchedule`,
   `Schedule1F1B`, `GradBuffer`, `LossScaler`, `Checkpointing`; proofs of
   `PipelineOrder`, `InterleavedSchedule`, `Schedule1F1B`, `GradBuffer`, `LossScaler`,
   `Checkpointing`, `DistribOptimizer`, `TrainingData` (its counters, its cached
   datasets and the samples trained on) and of `Inference` (its calls, and the data of a generation).
2. **Done**: `BufferLayout`, `ActivationStorage`, `DistribOptimizer`,
   `QuantAllReduce`, `ActivationQuant`, `ParallelGroups`, `Microbatches`,
   `DataSamplers`, `TrainingData`, `MoEDispatch`, `ShardedCheckpoint`, the four
   modules of `Inference`, `FinalizeGrads`, `IndexedDataset`, `GPTIndices`, `DatasetBlend`,
   `DatasetCache` and `DataPreprocess`, model-checked.
3. Beam search: that each beam's caches follow the reordering of the beams
   (`SamplesFromWholePrefix`), then `BestHypothesesReturned`.
4. Lemmas about the arithmetic of `BufferLayout` (`Pad`, shards of a bucket).
5. To model: `ChainedOptimizer`, encoder-decoder models with their split rank.
