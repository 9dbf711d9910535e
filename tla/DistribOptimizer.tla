--------------------------- MODULE DistribOptimizer ---------------------------
(***************************************************************************)
(* Training with the distributed optimizer on the ranks of a data-parallel  *)
(* group: core/optimizer/distrib_optimizer.py with the train step around it *)
(* (training/training.py), the reduce-scatters of the gradient buckets      *)
(* (core/distributed/param_and_grad_buffer.py) and the activations of the   *)
(* linear layers (module ActivationStorage).                                *)
(*                                                                          *)
(* Every rank updates its shards of the parameters and gets the others by   *)
(* an all-gather per bucket. With overlap_param_gather the gathers run      *)
(* during the next forward pass: zero_grad dispatches the first, and the    *)
(* forward pre-hook of a module waits for the gather of its parameters and  *)
(* dispatches the next. The collectives of a rank run in the order it       *)
(* issues them, each when it is the head of every rank's queue.             *)
(*                                                                          *)
(* The value of a shard is the number of updates it has had. A              *)
(* configuration holds                                                      *)
(*   buffers    per model chunk, the buffer described as in BufferLayout,   *)
(*   forward    per model chunk, its modules (one parameter each) in the    *)
(*              order the forward pass calls them,                          *)
(*   schedule   the rank's sequence of [kind, chunk, mb], kind "F", "B" or  *)
(*              "sync" (a call of param_sync_func),                         *)
(*   overlap    overlap_param_gather, overlapGrad  overlap_grad_reduce,     *)
(*   legacy     the model of megatron/legacy, which alone quantizes         *)
(*              activations in every linear layer,                          *)
(*   evals      the iterations followed by an evaluation or hash check,     *)
(*   saves      those at whose end a checkpoint is written,                 *)
(*   bad        the <<rank, iteration>> whose own shards overflow.          *)
(***************************************************************************)
EXTENDS BufferLayout, ActivationStorage

CONSTANTS DP,               \* size of the data-parallel group
          Iterations,       \* bound: args.train_iters
          Configurations

ASSUME SizesAssumption == DP \in Nat \ {0} /\ Iterations \in Nat \ {0}

\* arguments.py: overlap_param_gather needs overlap_grad_reduce and a core model. Every
\* rank has a chunk, every chunk a module, every iteration something to run.
ASSUME ConfigurationsAssumption ==
  \A c \in Configurations :
    /\ c.overlap \in BOOLEAN /\ c.overlapGrad \in BOOLEAN /\ c.legacy \in BOOLEAN
    /\ c.overlap => c.overlapGrad /\ ~c.legacy
    /\ c.buffers # <<>> /\ c.buffers \in Seq(Range(c.buffers))
    /\ \A i \in DOMAIN c.buffers :
         /\ c.buffers[i].dp = DP /\ c.buffers[i].distributed
         /\ c.forward[i] # <<>> /\ c.forward[i] \in Seq(Params(c.buffers[i]))
    /\ c.schedule # <<>>
    /\ c.schedule \in Seq([kind : {"F", "B", "sync"}, chunk : DOMAIN c.buffers, mb : Nat])

VARIABLES conf,
          pc,           \* what each rank does next
          at,           \* position [item, k]: item of the schedule, step inside it
          iter,         \* iterations finished
          queue,        \* collectives issued and not complete, oldest first
          handles,      \* indices of all_gather_handles that are not None
          hooked,       \* remove_pre_hook_handle is not None
          update_successful,
          updates,      \* updates of the rank's main parameter shards
          pbuf,         \* param_data: version of each shard of each bucket
          seen,         \* versions read by forward passes since the last step
          ready,        \* parameters whose last gradient of the iteration is there
          store         \* quantized activations

vars == <<conf, pc, at, iter, queue, handles, hooked, update_successful, updates, pbuf, seen,
          ready, store>>

Rank == 0 .. DP - 1

-----------------------------------------------------------------------------
(* Handles, in the order of _get_model_param_buffer_dp_views. *)

\* What the constructors of the buffers and of the optimizer compute once.
Buffers == UNION {Range(c.buffers) : c \in Configurations}
Layouts == [b \in Buffers |-> Layout(b)]
OwnersIn == [b \in Buffers |-> [p \in Params(b) |-> Owners(b, Layouts[b], p)]]

\* A buffer has buckets, and each parameter is in one of them (LayoutSound).
ASSUME LayoutsAssumption ==
  \A b \in Buffers :
    /\ Len(Layouts[b].buckets) \in Nat \ {0}
    /\ \A p \in Params(b) : Layouts[b].bucket_of[p] \in 1 .. Len(Layouts[b].buckets)

Chunks(cf) == DOMAIN cf.buffers
LayoutOf(cf, c) == Layouts[cf.buffers[c]]
ChunkBuckets(cf, c) == [i \in 1 .. Len(LayoutOf(cf, c).buckets) |-> <<c, i>>]

AllBuckets(cf) == FlattenSeq([c \in Chunks(cf) |-> ChunkBuckets(cf, c)])

\* Buckets start from the end of a chunk, gathers from its start.
ViewItems(cf) == FlattenSeq([c \in Chunks(cf) |-> Reverse(ChunkBuckets(cf, c))])

Handles(cf) == 1 .. Len(ViewItems(cf))
HandleOfBucket(cf, bucket) == CHOOSE h \in Handles(cf) : ViewItems(cf)[h] = bucket
HandleOf(cf, c, p) == HandleOfBucket(cf, <<c, LayoutOf(cf, c).bucket_of[p]>>)

\* The handles of a chunk, in their order.
HandlesOf(cf, c) ==
  LET last_first == Reverse(ChunkBuckets(cf, c))
  IN  [i \in DOMAIN last_first |-> HandleOfBucket(cf, last_first[i])]

\* The versions in the shards that make up parameter p of chunk c.
Versions(r, c, p) ==
  {pbuf[r][HandleOf(conf, c, p), s] : s \in OwnersIn[conf.buffers[c]][p]}

-----------------------------------------------------------------------------
(* Collectives *)

Gather(h) == <<"all-gather", h>>
Scatter(bucket) == <<"reduce-scatter", bucket>>

Issued(r, op) == \E i \in DOMAIN queue[r] : queue[r][i] = op

\* The oldest collective runs once every rank has issued it; an all-gather copies
\* each owner's shard of the bucket to all ranks.
Transfer ==
  /\ \A r \in Rank : queue[r] # <<>> /\ Head(queue[r]) = Head(queue[0])
  /\ queue' = [r \in Rank |-> Tail(queue[r])]
  /\ pbuf' = IF Head(queue[0])[1] = "all-gather"
             THEN LET h == Head(queue[0])[2]
                  IN  [r \in Rank |-> [hs \in DOMAIN pbuf[r] |->
                         IF hs[1] = h THEN pbuf[hs[2]][hs] ELSE pbuf[r][hs]]]
             ELSE pbuf
  /\ UNCHANGED <<conf, pc, at, iter, handles, hooked, update_successful, updates, seen, ready,
                 store>>

-----------------------------------------------------------------------------
(* DistributedOptimizer: dispatching and finishing all-gathers *)

\* _dispatch_gather_model_params without force_sync
Dispatch(r, h, q, hs) ==
  IF update_successful[r] THEN [queue |-> Append(q, Gather(h)), handles |-> hs \cup {h}]
  ELSE [queue |-> q, handles |-> hs]

\* _finish_param_sync_helper: CanFinish is the wait, Finish the rest. A bug would only
\* look whether there is a handle.
MutCanFinish(r, h) == TRUE
CanFinish(r, h) == h \in handles[r] => ~Issued(r, Gather(h))

\* Behind the last handle nothing is dispatched.
Finish(r, h) ==
  IF h \notin handles[r] THEN [queue |-> queue[r], handles |-> handles[r]]
  ELSE IF h + 1 \in Handles(conf) THEN Dispatch(r, h + 1, queue[r], handles[r] \ {h})
  ELSE [queue |-> queue[r], handles |-> handles[r] \ {h}]

SetGathers(r, g) ==
  /\ queue' = [queue EXCEPT ![r] = g.queue]
  /\ handles' = [handles EXCEPT ![r] = g.handles]

\* _reset_metadata_and_sync_gather_all_model_params: the handles are dropped, and
\* unless the gathers are left to overlap with the next forward pass, all are run
\* with async_op False, which leaves no handle.
ResetMetadata(r, q, successful, sync) ==
  /\ handles' = [handles EXCEPT ![r] = {}]
  /\ queue' = [queue EXCEPT ![r] = IF sync /\ successful
                                   THEN q \o [h \in Handles(conf) |-> Gather(h)] ELSE q]

Goto(r, label) == pc' = [pc EXCEPT ![r] = label]

-----------------------------------------------------------------------------
(* train_step *)

Item(r) == conf.schedule[at[r].item]
Module(r) == conf.forward[Item(r).chunk][at[r].k]
BackwardModule(r) == Reverse(conf.forward[Item(r).chunk])[at[r].k]

\* The next step of the item, or the next item, or the end of the schedule.
Advance(r, steps) ==
  IF at[r].k < steps
  THEN at' = [at EXCEPT ![r].k = @ + 1] /\ Goto(r, "run")
  ELSE /\ at' = [at EXCEPT ![r] = [item |-> @.item + 1, k |-> 1]]
       /\ Goto(r, IF at[r].item < Len(conf.schedule) THEN "run" ELSE "finish")

\* zero_grad_buffer and optimizer.zero_grad
ZeroGrad(r) ==
  /\ pc[r] = "zero_grad"
  /\ SetGathers(r, IF conf.overlap THEN Dispatch(r, 1, queue[r], handles[r])
                   ELSE [queue |-> queue[r], handles |-> handles[r]])
  /\ ready' = [ready EXCEPT ![r] = {}]
  /\ at' = [at EXCEPT ![r] = [item |-> 1, k |-> 1]]
  /\ Goto(r, "run")
  /\ UNCHANGED <<conf, iter, hooked, update_successful, updates, pbuf, seen, store>>

\* param_sync_func: the functions of all chunks close over one variable and finish the
\* gathers of the last chunk, one call of the helper after the other.
ParamSync(r) ==
  LET synced == HandlesOf(conf, Len(conf.buffers))
      h == synced[at[r].k]
  IN  /\ pc[r] = "run" /\ Item(r).kind = "sync"
      /\ CanFinish(r, h)
      /\ SetGathers(r, Finish(r, h))
      /\ Advance(r, Len(synced))
      /\ UNCHANGED <<conf, iter, hooked, update_successful, updates, pbuf, seen, ready, store>>

\* The pre-hook of a module and its forward pass.
ForwardModule(r) ==
  LET c == Item(r).chunk
      p == Module(r)
      h == HandleOf(conf, c, p)
  IN  /\ pc[r] = "run" /\ Item(r).kind = "F"
      /\ hooked[r] => CanFinish(r, h)
      /\ IF hooked[r] THEN SetGathers(r, Finish(r, h)) ELSE UNCHANGED <<queue, handles>>
      /\ seen' = [seen EXCEPT ![r] = @ \cup Versions(r, c, p)]
      /\ store' = IF conf.legacy
                  THEN [store EXCEPT ![r] = SaveInput(store[r], <<c, p>>, Item(r).mb)] ELSE store
      /\ Advance(r, Len(conf.forward[c]))
      /\ UNCHANGED <<conf, iter, hooked, update_successful, updates, pbuf, ready>>

\* Backward pass of a layer: its input is put back, if it was quantized ...
ReloadActivation(r) ==
  /\ pc[r] = "run" /\ Item(r).kind = "B"
  /\ store' = IF conf.legacy
              THEN [store EXCEPT ![r] =
                      Reload(store[r], <<Item(r).chunk, BackwardModule(r)>>, Item(r).mb)]
              ELSE store
  /\ Goto(r, "wgrad")
  /\ UNCHANGED <<conf, at, iter, queue, handles, hooked, update_successful, updates, pbuf, seen,
                 ready>>

\* no_sync is left for the last backward pass of a chunk.
IsLastMicrobatch(r) ==
  \A i \in at[r].item + 1 .. Len(conf.schedule) :
    ~(conf.schedule[i].kind = "B" /\ conf.schedule[i].chunk = Item(r).chunk)

\* ... then the weight gradient is computed, and in the last microbatch the hook of
\* the parameter counts; the last parameter of a bucket starts its reduce-scatter.
WeightGrad(r) ==
  LET c == Item(r).chunk
      p == BackwardModule(r)
      i == LayoutOf(conf, c).bucket_of[p]
      now == ready[r] \cup {<<c, p>>}
      complete == \A q \in BucketParams(LayoutOf(conf, c), i) : <<c, q>> \in now
  IN  /\ pc[r] = "wgrad"
      /\ store' = IF conf.legacy
                  THEN [store EXCEPT ![r] = Release(store[r], <<c, p>>, Item(r).mb)] ELSE store
      /\ ready' = IF IsLastMicrobatch(r) THEN [ready EXCEPT ![r] = now] ELSE ready
      /\ queue' = IF IsLastMicrobatch(r) /\ conf.overlapGrad /\ complete
                  THEN [queue EXCEPT ![r] = Append(@, Scatter(<<c, i>>))] ELSE queue
      /\ Advance(r, Len(conf.forward[c]))
      /\ UNCHANGED <<conf, iter, handles, hooked, update_successful, updates, pbuf, seen>>

\* finish_grad_sync of every chunk: without overlap the buckets are communicated now.
FinishGradSync(r) ==
  /\ pc[r] = "finish"
  /\ queue' = IF conf.overlapGrad THEN queue
              ELSE [queue EXCEPT ![r] = @ \o [i \in DOMAIN AllBuckets(conf) |->
                                               Scatter(AllBuckets(conf)[i])]]
  /\ Goto(r, "found_inf")
  /\ UNCHANGED <<conf, at, iter, handles, hooked, update_successful, updates, pbuf, seen, ready,
                 store>>

-----------------------------------------------------------------------------
(* optimizer.step *)

\* get_model_parallel_group: with the distributed optimizer the entire world, as every
\* rank sees only the gradients of its shards. A bug would leave the default, here one rank.
MutFoundInfGroup(r) == {r}
FoundInfGroup(r) == Rank

ScattersDone(r) == \A i \in DOMAIN queue[r] : queue[r][i][1] # "reduce-scatter"

\* The all-reduce of found_inf, behind the gradients of all members of the group.
ReduceFoundInf ==
  \E r \in Rank :
    LET group == FoundInfGroup(r)
        inf == \E s \in group : <<s, iter[s] + 1>> \in conf.bad
    IN  /\ \A s \in group : pc[s] = "found_inf" /\ ScattersDone(s)
        /\ pc' = [s \in Rank |-> IF s \notin group THEN pc[s] ELSE IF inf THEN "skip" ELSE "step"]
        /\ UNCHANGED <<conf, at, iter, queue, handles, hooked, update_successful, updates, pbuf,
                       seen, ready, store>>

\* MixedPrecisionOptimizer.step updates the own shards of every bucket; then
\* DistributedOptimizer.step gathers, or leaves that to zero_grad and the pre-hooks.
Step(r) ==
  LET successful == pc[r] = "step"
  IN  /\ pc[r] \in {"step", "skip"}
      /\ update_successful' = [update_successful EXCEPT ![r] = successful]
      /\ IF successful
         THEN /\ updates' = [updates EXCEPT ![r] = @ + 1]
              /\ pbuf' = [pbuf EXCEPT ![r] = [hs \in DOMAIN @ |->
                            IF hs[2] = r THEN updates[r] + 1 ELSE @[hs]]]
         ELSE UNCHANGED <<updates, pbuf>>
      /\ seen' = [seen EXCEPT ![r] = {}]
      /\ ResetMetadata(r, queue[r], successful, ~conf.overlap)
      /\ Goto(r, "stepped")
      /\ UNCHANGED <<conf, at, iter, hooked, ready, store>>

-----------------------------------------------------------------------------
(* The rest of the training loop, and what follows it. *)

SyncGathersDone(r) == hooked[r] \/ queue[r] = <<>>

DisablePreHook(r) ==
  IF conf.overlap
  THEN /\ hooked' = [hooked EXCEPT ![r] = FALSE]
       /\ ResetMetadata(r, queue[r], update_successful[r], TRUE)
  ELSE UNCHANGED <<hooked, handles, queue>>

AllVersions(r) ==
  UNION {UNION {Versions(r, c, p) : p \in Params(conf.buffers[c])} : c \in Chunks(conf)}

\* The end of train_step; before an evaluation or hash check the hooks are removed.
EndIteration(r) ==
  /\ pc[r] = "stepped" /\ SyncGathersDone(r)
  /\ iter' = [iter EXCEPT ![r] = @ + 1]
  /\ IF iter[r] + 1 \in conf.evals THEN DisablePreHook(r) /\ Goto(r, "evaluate")
     ELSE UNCHANGED <<hooked, handles, queue>> /\ Goto(r, "save")
  /\ UNCHANGED <<conf, at, update_successful, updates, pbuf, seen, ready, store>>

\* Evaluation reads every parameter without hooks, and enables them again.
Evaluate(r) ==
  /\ pc[r] = "evaluate" /\ SyncGathersDone(r)
  /\ seen' = [seen EXCEPT ![r] = @ \cup AllVersions(r)]
  /\ hooked' = [hooked EXCEPT ![r] = conf.overlap]
  /\ Goto(r, "save")
  /\ UNCHANGED <<conf, at, iter, queue, handles, update_successful, updates, pbuf, ready, store>>

\* A save at the end of an iteration reads the parameters as they are; at the end of
\* training the hooks are removed.
SaveOrGoOn(r) ==
  /\ pc[r] = "save"
  /\ seen' = IF iter[r] \in conf.saves
             THEN [seen EXCEPT ![r] = @ \cup AllVersions(r)] ELSE seen
  /\ IF iter[r] = Iterations THEN DisablePreHook(r) /\ Goto(r, "trained")
     ELSE UNCHANGED <<hooked, handles, queue>> /\ Goto(r, "zero_grad")
  /\ UNCHANGED <<conf, at, iter, update_successful, updates, pbuf, ready, store>>

\* The save after train() has returned.
FinalSave(r) ==
  /\ pc[r] = "trained" /\ SyncGathersDone(r)
  /\ seen' = [seen EXCEPT ![r] = @ \cup AllVersions(r)]
  /\ Goto(r, "done")
  /\ UNCHANGED <<conf, at, iter, queue, handles, hooked, update_successful, updates, pbuf, ready,
                 store>>

-----------------------------------------------------------------------------
Init ==
  /\ conf \in Configurations
  /\ pc = [r \in Rank |-> "zero_grad"]
  /\ at = [r \in Rank |-> [item |-> 1, k |-> 1]]
  /\ iter = [r \in Rank |-> 0]
  /\ queue = [r \in Rank |-> <<>>]
  /\ handles = [r \in Rank |-> {}]
  /\ hooked = [r \in Rank |-> conf.overlap]
  /\ update_successful = [r \in Rank |-> FALSE]
  /\ updates = [r \in Rank |-> 0]
  /\ pbuf = [r \in Rank |-> [hs \in Handles(conf) \X Rank |-> 0]]
  /\ seen = [r \in Rank |-> {}]
  /\ ready = [r \in Rank |-> {}]
  /\ store = [r \in Rank |-> EmptyStore]

RankStep(r) ==
  \/ ZeroGrad(r) \/ ParamSync(r) \/ ForwardModule(r) \/ ReloadActivation(r) \/ WeightGrad(r)
  \/ FinishGradSync(r) \/ Step(r) \/ EndIteration(r) \/ Evaluate(r) \/ SaveOrGoOn(r)
  \/ FinalSave(r)

\* Every rank has finished: the only state in which nothing happens any more.
AllDone == (\A r \in Rank : pc[r] = "done") /\ UNCHANGED vars

Next == Transfer \/ ReduceFoundInf \/ (\E r \in Rank : RankStep(r)) \/ AllDone

Spec == Init /\ [][Next]_vars

-----------------------------------------------------------------------------
(* The order of the handles. *)

\* The modules that item i of the schedule calls in a forward pass, by their position,
\* and the handle of the k-th.
Calls(cf, i) == IF cf.schedule[i].kind = "F" THEN DOMAIN cf.forward[cf.schedule[i].chunk] ELSE {}
HandleAt(cf, i, k) ==
  HandleOf(cf, cf.schedule[i].chunk, cf.forward[cf.schedule[i].chunk][k])

Before(j, l, i, k) == j < i \/ (j = i /\ l < k)

\* What overlap_param_gather relies on, unchecked: the forward passes of an iteration come
\* to the buckets in the order of their handles and to all of them, and a checkpoint at
\* the end of an iteration follows an evaluation or hash check.
GathersFollowForward(cf) ==
  cf.overlap =>
    /\ cf.saves \subseteq cf.evals
    /\ \A i \in DOMAIN cf.schedule : \A k \in Calls(cf, i) :
         HandleAt(cf, i, k) # 1 =>
           \E j \in DOMAIN cf.schedule : \E l \in Calls(cf, j) :
             Before(j, l, i, k) /\ HandleAt(cf, j, l) = HandleAt(cf, i, k) - 1
    /\ \A h \in Handles(cf) :
         \E i \in DOMAIN cf.schedule : \E k \in Calls(cf, i) : HandleAt(cf, i, k) = h

\* The same for a backward pass; and what the k-th module of item i is the input of.
BackwardCalls(cf, i) ==
  IF cf.schedule[i].kind = "B" THEN DOMAIN cf.forward[cf.schedule[i].chunk] ELSE {}
SavedAt(cf, i, k) ==
  LET c == cf.schedule[i].chunk IN Activation(<<c, cf.forward[c][k]>>, cf.schedule[i].mb)
ReadAt(cf, i, k) ==
  LET c == cf.schedule[i].chunk IN Activation(<<c, Reverse(cf.forward[c])[k]>>, cf.schedule[i].mb)

\* What compressed activations rely on: the backward pass of a layer comes after the
\* forward pass of its microbatch, and once.
BackwardFollowsForward(cf) ==
  cf.legacy =>
    \A i \in DOMAIN cf.schedule : \A k \in BackwardCalls(cf, i) :
      /\ \E j \in DOMAIN cf.schedule : \E l \in Calls(cf, j) :
           Before(j, l, i, k) /\ SavedAt(cf, j, l) = ReadAt(cf, i, k)
      /\ \A j \in DOMAIN cf.schedule : \A l \in BackwardCalls(cf, j) :
           Before(j, l, i, k) => ReadAt(cf, j, l) # ReadAt(cf, i, k)

-----------------------------------------------------------------------------
(* Properties *)

Labels == {"zero_grad", "run", "wgrad", "finish", "found_inf", "step", "skip", "stepped",
           "evaluate", "save", "trained", "done"}

\* Every variable has its type; in particular handles and gathers stay in the range of
\* all_gather_handles, whatever bucket a chain of dispatches starts from.
TypeOK ==
  /\ pc \in [Rank -> Labels]
  /\ \A r \in Rank :
       /\ iter[r] \in 0 .. Iterations /\ updates[r] \in 0 .. iter[r] + 1
       /\ handles[r] \subseteq Handles(conf)
       /\ \A i \in DOMAIN queue[r] :
            queue[r][i][1] = "all-gather" => queue[r][i][2] \in Handles(conf)
       /\ hooked[r] => conf.overlap
       /\ seen[r] \subseteq 0 .. Iterations
       /\ DOMAIN pbuf[r] = Handles(conf) \X Rank

\* Whatever a rank has read of the parameters since its last step - in forward passes,
\* in an evaluation, for a checkpoint - has all the updates of every owner: no gather
\* is skipped, late, or waited for at the wrong handle (distrib_optimizer.py).
ReadsLatestParams == \A r \in Rank : seen[r] \subseteq {updates[r]}

\* The ranks issue the same collectives in the same order, although each decides by
\* itself - by the order of its hooks, its handles and its update_successful - what to
\* issue next. Otherwise the job hangs or mixes up buffers. The state keeps its types.
CollectivesMatch ==
  /\ TypeOK
  /\ \A r, s \in Rank : \A i \in DOMAIN queue[r] \cap DOMAIN queue[s] : queue[r][i] = queue[s][i]

\* When a layer computes its weight gradient, the storage that all layers and all
\* microbatches in flight share holds the layer's own input of that microbatch.
WgradReadsOwnActivation ==
  \A r \in Rank : conf.legacy /\ pc[r] = "wgrad" =>
    store[r].gpu_storage = Activation(<<Item(r).chunk, BackwardModule(r)>>, Item(r).mb)

\* distrib_optimizer.py:1251 says of the forward pre-hook that all parameters of the
\* module have been all-gathered as necessary: a hooked forward pass reads no
\* parameter that lacks an update.
GatheredBeforeUse ==
  \A r \in Rank : hooked[r] /\ pc[r] \in {"run", "wgrad", "finish"} => seen[r] \subseteq {updates[r]}
=============================================================================
