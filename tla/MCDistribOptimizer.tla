-------------------------- MODULE MCDistribOptimizer --------------------------
(* Two data-parallel ranks; instances of DistribOptimizer for TLC. *)
EXTENDS DistribOptimizer

Buffer(numels, bucketSize) ==
  [numels |-> numels, shared |-> {}, bucket_size |-> bucketSize, distributed |-> TRUE, dp |-> 2]

I(kind, chunk, mb) == [kind |-> kind, chunk |-> chunk, mb |-> mb]

\* One chunk, two microbatches in flight, as on the first rank of a 1F1B pipeline.
OneChunk(bucketSize, overlap, overlapGrad, legacy, evals, saves, bad) ==
  [buffers |-> <<Buffer(<<200, 300, 100>>, bucketSize)>>, forward |-> <<<<1, 2, 3>>>>,
   schedule |-> <<I("F", 1, 1), I("F", 1, 2), I("B", 1, 1), I("B", 1, 2)>>,
   overlap |-> overlap, overlapGrad |-> overlapGrad, legacy |-> legacy,
   evals |-> evals, saves |-> saves, bad |-> bad]

\* Two chunks of an interleaved schedule with param_sync_func; only the first chunk has
\* several buckets.
TwoChunks(evals, bad) ==
  [buffers |-> <<Buffer(<<200, 300>>, 250), Buffer(<<130, 120>>, 0)>>,
   forward |-> <<<<1, 2>>, <<1, 2>>>>,
   schedule |-> <<I("sync", 1, 0), I("sync", 2, 0), I("F", 1, 1), I("F", 1, 2), I("F", 2, 1),
                  I("B", 2, 1), I("F", 2, 2), I("B", 2, 2), I("B", 1, 1), I("B", 1, 2)>>,
   overlap |-> TRUE, overlapGrad |-> TRUE, legacy |-> FALSE,
   evals |-> evals, saves |-> evals, bad |-> bad]

MCConfigurations ==
  {OneChunk(250, TRUE, TRUE, FALSE, {2}, {2}, {<<1, 2>>}),
   OneChunk(250, TRUE, TRUE, FALSE, {}, {}, {}),
   OneChunk(0, FALSE, FALSE, TRUE, {2}, {1}, {<<0, 1>>}),
   OneChunk(250, FALSE, TRUE, TRUE, {}, {1, 2}, {}),
   TwoChunks({1}, {}),
   TwoChunks({}, {<<0, 2>>})}

\* Attention registers linear_proj before linear_qkv and calls them in the other order;
\* each is as large as a bucket.
OrderConfigurations ==
  {[OneChunk(100, TRUE, TRUE, FALSE, {}, {}, {}) EXCEPT !.forward = <<<<1, 3, 2>>>>]}

\* In all other configurations the forward passes follow the handles.
ASSUME OrderAssumption ==
  \A c \in Configurations :
    /\ GathersFollowForward(c) <=> c \notin OrderConfigurations
    /\ BackwardFollowsForward(c)

\* Buffers for the layout: every way to register up to three parameters of these sizes,
\* a shared embedding first among them and as large as embeddings are.
Embedding == 5000
MCBuffers ==
  {b \in [numels : UNION {[1 .. n -> {60, 128, 200, Embedding}] : n \in 1 .. 3},
          shared : SUBSET {1}, bucket_size : {0, 100, 256}, distributed : BOOLEAN,
          dp : {1, 2, 3}] : b.shared = {1} => b.numels[1] = Embedding}

\* Layouts are computed once, when the job starts.
AtStart == \A r \in Rank : pc[r] = "zero_grad" /\ iter[r] = 0

\* The layout of every buffer is sound, or an assertion of the code refuses it; without
\* shared embeddings none does. Sound: the buckets cover the buffer, every parameter
\* lies in its own bucket apart from the others, and the ranks' shards of a parameter
\* cover it exactly once, so that each element has one owner that updates it.
LayoutSound ==
  (AtStart /\ conf = CHOOSE c \in Configurations : TRUE) => \A b \in MCBuffers : IsSound(b)

\* Compressed activations: an asymmetric codebook of eight levels with zero, as nf4's,
\* kernels of four elements, and tensors of one and two blocks, zeros among them.
Quant == INSTANCE ActivationQuant WITH
           Code <- {-8, -5, -3, -1, 0, 2, 4, 8}, CodeMax <- 8, KernelWidth <- 4

QuantTensors == [1 .. 4 -> {-9, 0, 6, 24}] \cup [1 .. 8 -> {0, 7}]

QuantSettings(quan_type) ==
  LET usual == [idx |-> 1, row |-> FALSE, column |-> TRUE, mean |-> 1,
                cut |-> 5 * Quant!Unit, shift |-> 4 * Quant!Unit, blocksize |-> 4,
                group_size |-> 2, scale_type |-> "mean", nan |-> -128]
  IN {usual} \cup
     CASE quan_type = "nf45816" -> {[usual EXCEPT !.idx = i] : i \in {8, 9, 16, 24, 25}}
       [] quan_type = "sub_group" -> {[usual EXCEPT !.scale_type = "head"],
                                      [usual EXCEPT !.idx = 17],
                                      [usual EXCEPT !.idx = 17, !.row = TRUE]}
       [] quan_type = "4group" -> {[usual EXCEPT !.nan = 0]}
       [] OTHER -> {[usual EXCEPT !.mean = 0]}

\* Whatever type is asked for, the activation that backward gets is the one that was
\* saved, up to half a level of its block, with its signs in the four-group format;
\* except a split outlier that rounds to zero, which changes side. It holds for
\* four-group blocks that are a multiple of the kernel's width, as the default is.
ActivationsSurvive ==
  (AtStart /\ conf = CHOOSE c \in Configurations : TRUE) =>
      \A quan_type \in Quant!QuanTypes : \A x \in QuantTensors :
         \A c \in QuantSettings(quan_type) :
            Quant!InputAccepted(quan_type, x, c) => Quant!IsFaithful(quan_type, x, c)
\* Jobs with a sharded weight, a replicated one and a small one, on 1 to 3 data-parallel
\* ranks; with an optimizer, in two ways to register parameters and to cut them.
Ckpt == INSTANCE ShardedCheckpoint

Tensors == <<[rows |-> 12, sharded |-> TRUE], [rows |-> 5, sharded |-> FALSE],
             [rows |-> 4, sharded |-> TRUE]>>

ModelJobs(numels, bucket_size, optimizer, parallel_save) ==
  [tp : {1, 2}, dp : 1 .. 3, tensors : {Tensors}, numels : numels, bucket_size : bucket_size,
   optimizer : {optimizer}, parallel_save : parallel_save, parallel_load : {FALSE, TRUE}]

MCJobs ==
  ModelJobs({<<300>>}, {0}, FALSE, {FALSE, TRUE})
    \cup {j \in ModelJobs({<<200, 300, 100>>, <<300, 260>>}, {0, 250}, TRUE, {TRUE}) :
             Ckpt!SavableBuckets(j)}

\* A distributed checkpoint is complete, each part written once, and a job that may load
\* it gets back what was saved, on every rank and in every place, although it may have
\* other ranks than the one that saved: both distribute the work over their ranks by
\* what each rank has, and the shards a rank leaves to others reach it in the exchange
\* (fully_parallel.py, distrib_optimizer.py:905-1023).
CheckpointRoundTrips ==
  (AtStart /\ conf = CHOOSE c \in Configurations : TRUE) =>
      \A saved \in {j \in MCJobs : ~j.parallel_load} :
         LET written == Ckpt!Written(saved)
         IN  /\ Ckpt!Validates(saved, written)
             /\ \A job \in {j \in MCJobs : ~j.parallel_save \/ j.optimizer} :
                   Ckpt!Loadable(saved, job) => Ckpt!LoadsWhatWasSaved(written, job)
=============================================================================
