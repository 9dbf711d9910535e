--------------------------- MODULE ShardedCheckpoint ---------------------------
(***************************************************************************)
(* Which rank writes which part of a distributed checkpoint, which rank     *)
(* reads it again, and how the ranks then exchange what they have read      *)
(* (core/dist_checkpointing/strategies/fully_parallel.py, serialization.py, *)
(* core/utils.py, core/optimizer/distrib_optimizer.py).                     *)
(*                                                                          *)
(* A job has tp tensor-parallel times dp data-parallel ranks. It saves      *)
(*   tensors    of the model: [rows, sharded], cut into tp parts along the  *)
(*              first axis or replicated,                                   *)
(*   numels     the parameters in the buffer of its distributed optimizer,  *)
(*              with bucket_size, if optimizer is set,                      *)
(* and may load another checkpoint, with parallel_save and parallel_load    *)
(* through the wrappers. A shard is a region of the global tensor with its  *)
(* key; what it holds are consecutive elements of the parameter or tensor   *)
(* "name" with the number "from" first. All elements of a row are one.      *)
(***************************************************************************)
EXTENDS BufferLayout

Group(job, tp) == {[tp |-> tp, dp |-> d] : d \in 0 .. job.dp - 1}   \* data-parallel
World(job) == UNION {Group(job, tp) : tp \in 0 .. job.tp - 1}

Padding == 0

-----------------------------------------------------------------------------
(* The sharded state dicts: a set of pairs of a rank and a shard. *)

\* A ShardedTensor; its id is the same for the same data on all ranks. Of the ranks
\* that hold it one has a replica_id of zeros, and is the main one.
Shard(key, region, name, from, size, main) ==
  [id |-> key \o <<region.start, region.end>>, key |-> key, region |-> region,
   name |-> name, from |-> from, size |-> size, main |-> main]

\* make_tp_sharded_tensor_for_checkpoint, make_sharded_tensor_for_checkpoint, in two
\* bytes an element.
ModelShard(job, rank, k) ==
  LET t == job.tensors[k]
      rows == IF t.sharded THEN t.rows \div job.tp ELSE t.rows
      offset == IF t.sharded THEN rank.tp * rows ELSE 0
  IN  Shard(<<0, k, 0>>, Interval(offset, offset + rows), k, offset, 2 * rows,
            rank.dp = 0 /\ (t.sharded \/ rank.tp = 0))

OptimizerBuffer(job) ==
  [numels |-> job.numels, shared |-> {}, bucket_size |-> job.bucket_size,
   distributed |-> TRUE, dp |-> job.dp]

ParamsInShard(L, shard) == {p \in DOMAIN L.index : Size(GbufLocal(L.index[p], shard)) > 0}
FilledUpTo(L, shard) == Max({GbufLocal(L.index[p], shard).end : p \in ParamsInShard(L, shard)})

\* sharded_param_state_fs_bucket_space: every parameter in the rank's shard of a
\* bucket, and padding behind the last one, in four bytes an element.
BucketShards(b, L, rank, i) ==
  LET bucket == L.buckets[i]
      shard == ShardRange(b, bucket, rank.dp)
      offset == shard.start - bucket.start
      Entry(local, name, from) ==
        Shard(<<1, rank.tp, i>>, Interval(offset + local.start, offset + local.end),
              name, from, 4 * Size(local), TRUE)
      filled == FilledUpTo(L, shard)
  IN  {Entry(GbufLocal(L.index[p], shard), p, ParamRange(L.index[p], shard).start) :
         p \in ParamsInShard(L, shard)}
        \cup (IF filled = Size(shard) THEN {}
              ELSE {Entry(Interval(filled, Size(shard)), Padding, 0)})

\* "empty bucket encountered", "encountered padding on non-last DP rank"
SavableBuckets(job) ==
  LET b == OptimizerBuffer(job)
      L == Layout(b)
  IN  \A i \in DOMAIN L.buckets : \A d \in 0 .. job.dp - 1 :
         LET shard == ShardRange(b, L.buckets[i], d)
         IN  /\ ParamsInShard(L, shard) # {}
             /\ d = job.dp - 1 \/ FilledUpTo(L, shard) = Size(shard)

Shards(job, L, rank) ==
  {ModelShard(job, rank, k) : k \in DOMAIN job.tensors}
    \cup (IF job.optimizer
          THEN UNION {BucketShards(OptimizerBuffer(job), L, rank, i) : i \in DOMAIN L.buckets}
          ELSE {})

StateDicts(job) ==
  LET L == Layout(OptimizerBuffer(job))
  IN  UNION {{[rank |-> r, shard |-> shard] : shard \in Shards(job, L, r)} : r \in World(job)}

-----------------------------------------------------------------------------
(* The distribution of the work over a data-parallel group. *)

\* Tuples in lexicographic order.
Precedes(x, y) == \E i \in DOMAIN x : x[i] < y[i] /\ \A j \in 1 .. i - 1 : x[j] = y[j]

InOrder(S, Place(_)) ==
  LET Before(x) == {y \in S : Precedes(Place(y), Place(x))}
  IN  [n \in 1 .. Cardinality(S) |-> CHOOSE x \in S : Cardinality(Before(x)) = n - 1]

LeastOccupied(load, ranks) ==
  LET Place(r) == <<load[r], r.dp>> IN Head(InOrder(ranks, Place))

\* distribute_shards_to_ranks: shards few ranks have come first, then large ones.
DistributeShardsToRanks(tasks, group) ==
  LET Turn(t) == <<Cardinality(t.ranks), -t.size>> \o t.id
      Assign(a, t) ==
        LET r == LeastOccupied(a.load, t.ranks)
        IN  [load |-> [a.load EXCEPT ![r] = @ + t.size],
             main |-> a.main \cup {[id |-> t.id, rank |-> r]}]
  IN  FoldLeft(Assign, [load |-> [r \in group |-> 0], main |-> {}], InOrder(tasks, Turn)).main

\* Shards whose main replica is in another group are left to that group; but when
\* loading, every group needs them itself. A bug would forget that.
MutInThisGroup(shard, is_loading) == shard.main
InThisGroup(shard, is_loading) == shard.main \/ is_loading

\* determine_main_replica_uniform_distribution, after the ranks of the group have
\* exchanged what they hold: the main rank of every shard.
Distribution(held, group, is_loading) ==
  LET here == {h \in held : h.rank \in group}
      ids == {h.shard.id : h \in {g \in here : InThisGroup(g.shard, is_loading)}}
      Holding(id) == {h \in here : h.shard.id = id}
      tasks == {[id |-> id, ranks |-> {h.rank : h \in Holding(id)},
                 size |-> (CHOOSE h \in Holding(id) : TRUE).shard.size] : id \in ids}
  IN  DistributeShardsToRanks(tasks, group)

\* distribute_main_replicas_with_precomputed_distribution: on the main rank of a shard
\* its replica_id becomes 0, on the others 1.
Distributed(job, held, is_loading) ==
  LET main == UNION {Distribution(held, Group(job, tp), is_loading) : tp \in 0 .. job.tp - 1}
  IN  {h \in held : [id |-> h.shard.id, rank |-> h.rank] \in main}

-----------------------------------------------------------------------------
(* Saving. *)

\* Every rank writes its main replicas.
Written(job) ==
  LET held == StateDicts(job)
  IN  IF job.parallel_save /\ job.dp > 1 THEN Distributed(job, held, FALSE)
      ELSE {h \in held : h.shard.main}

\* validate_sharding_integrity: what is written of a key tiles the global tensor.
Tiles(written, key, size) ==
  LET Place(w) == <<w.shard.region.start, w.shard.region.end, w.rank.tp, w.rank.dp>>
      parts == InOrder({w \in written : w.shard.key = key}, Place)
  IN  /\ parts # <<>>
      /\ Head(parts).shard.region.start = 0 /\ Last(parts).shard.region.end = size
      /\ \A n \in 2 .. Len(parts) :
            parts[n].shard.region.start = parts[n - 1].shard.region.end

Validates(job, written) ==
  LET buckets == Layout(OptimizerBuffer(job)).buckets
  IN  /\ \A k \in DOMAIN job.tensors : Tiles(written, <<0, k, 0>>, job.tensors[k].rows)
      /\ job.optimizer => \A tp \in 0 .. job.tp - 1 : \A i \in DOMAIN buckets :
                             Tiles(written, <<1, tp, i>>, Size(buckets[i]))

-----------------------------------------------------------------------------
(* Loading. *)

\* External: the storage finds all parts of a region, whoever wrote them. They hold
\* what the shard is to receive if they are elements of the same name in their places.
Overlap(r1, r2) == Max({0, Min({r1.end, r2.end}) - Max({r1.start, r2.start})})

StorageHas(written, shard) ==
  LET parts == {w \in written : /\ w.shard.key = shard.key
                                /\ Overlap(w.shard.region, shard.region) > 0}
  IN  /\ \A w \in parts : /\ w.shard.name = shard.name
                          /\ w.shard.from - w.shard.region.start
                               = shard.from - shard.region.start
      /\ MapThenSumSet(LAMBDA w : Overlap(w.shard.region, shard.region), parts)
           = Size(shard.region)

\* A rank loads what it is the main rank of, and all ranks of its group get that in
\* rounds (exchange_loaded_tensors_gather_rounds).
Exchanged(job, held) == {<<h.rank.tp, h.shard.id>> : h \in Distributed(job, held, TRUE)}

\* Without the wrapper a rank loads everything itself.
Obtained(job, held) ==
  IF job.parallel_load /\ job.dp > 1 THEN Exchanged(job, held)
  ELSE {<<h.rank.tp, h.shard.id>> : h \in held}

\* load_parameter_state_from_fs_bucket_space refuses buckets of other sizes.
SameBuckets(saved, job) ==
  Layout(OptimizerBuffer(saved)).numels_unpadded = Layout(OptimizerBuffer(job)).numels_unpadded

\* load_checkpoint refuses an optimizer of other tensor-parallel ranks.
Loadable(saved, job) ==
  /\ saved.tensors = job.tensors
  /\ job.optimizer => saved.optimizer /\ saved.tp = job.tp /\ SameBuckets(saved, job)

\* Every shard a rank asks for comes back, and is what the saving job had there;
\* padding is not copied to any parameter.
LoadsWhatWasSaved(written, job) ==
  LET held == StateDicts(job)
      obtained == Obtained(job, held)
  IN  \A h \in held : /\ <<h.rank.tp, h.shard.id>> \in obtained
                      /\ h.shard.name # Padding => StorageHas(written, h.shard)
=============================================================================
