----------------------------- MODULE BufferLayout -----------------------------
(***************************************************************************)
(* The layout of a ParamAndGradBuffer: which part of the contiguous buffer  *)
(* each parameter and each bucket gets (core/distributed/                   *)
(* param_and_grad_buffer.py), and which part of a parameter each            *)
(* data-parallel rank owns (core/optimizer/distrib_optimizer.py).           *)
(*                                                                          *)
(* Both are computed by every rank for itself, from sizes alone; the        *)
(* collectives and the optimizer rely on the results to agree. Ranges are   *)
(* [start, end) as in the code. A buffer is described by                    *)
(*   numels        the sizes of the parameters, in order of registration,   *)
(*   shared        those with the attribute shared_embedding,               *)
(*   bucket_size   0 stands for None,                                       *)
(*   distributed   use_distributed_optimizer,                               *)
(*   dp            data_parallel_world_size.                                *)
(***************************************************************************)
EXTENDS Integers, Sequences, SequencesExt

Lcm(a, b) == Min({m \in {a * k : k \in 1 .. b} : m % b = 0})

Alignment == 128   \* values in 256 bytes

Interval(start, end) == [start |-> start, end |-> end]
Size(range) == range.end - range.start
Within(inner, outer) == outer.start <= inner.start /\ inner.end <= outer.end
Apart(r1, r2) == r1.end <= r2.start \/ r2.end <= r1.start

Pad(n, divisor) == ((n + divisor - 1) \div divisor) * divisor

PadIfNeeded(b, index) == IF b.distributed THEN Pad(index, Lcm(b.dp, Alignment)) ELSE index

Params(b) == DOMAIN b.numels

-----------------------------------------------------------------------------
(* First loop of ParamAndGradBuffer.__init__, over the parameters in reverse. *)

NeedsNewBucket(b, p) == p \in b.shared /\ b.distributed

\* _create_new_bucket: the bucket ends at end, and the next one behind the padding.
\* A bug would start the next bucket before the padding.
MutCreateNewBucket(b, l, end) ==
  [l EXCEPT !.buckets = Append(@, Interval(l.bucket_start, PadIfNeeded(b, end))),
            !.numels_unpadded = Append(@, end - l.bucket_start),
            !.bucket_start = end,
            !.bucket_params = {},
            !.end = end]
CreateNewBucket(b, l, end) ==
  [l EXCEPT !.buckets = Append(@, Interval(l.bucket_start, PadIfNeeded(b, end))),
            !.numels_unpadded = Append(@, end - l.bucket_start),
            !.bucket_start = PadIfNeeded(b, end),
            !.bucket_params = {},
            !.end = PadIfNeeded(b, end)]

IsFull(b, l) == b.bucket_size # 0 /\ l.end - l.bucket_start >= b.bucket_size

\* One pass of the loop; the padded end of a bucket closed before a shared
\* embedding is not used, the parameter follows at l.start.
PlaceParam(b, l, p) ==
  LET closes == NeedsNewBucket(b, p) /\ l.bucket_params # {}
      opened == IF closes THEN CreateNewBucket(b, l, l.start) ELSE l
      range == Interval(l.start, l.start + b.numels[p])
      placed == [opened EXCEPT !.index[p] = range,
                               !.bucket_of[p] = Len(opened.buckets) + 1,
                               !.bucket_params = @ \cup {p},
                               !.end = range.end,
                               !.aligned = @ /\ (closes => l.start % b.dp = 0)]
      last == IF IsFull(b, placed) \/ NeedsNewBucket(b, p)
              THEN CreateNewBucket(b, placed, range.end) ELSE placed
  IN  [last EXCEPT !.start = last.end]

Layout(b) ==
  LET none == [start |-> 0, end |-> 0, bucket_start |-> 0, bucket_params |-> {},
               buckets |-> <<>>, numels_unpadded |-> <<>>, aligned |-> TRUE,
               index |-> [p \in Params(b) |-> Interval(0, 0)],
               bucket_of |-> [p \in Params(b) |-> 0]]
      all == FoldLeft(LAMBDA l, p : PlaceParam(b, l, p), none,
                      Reverse([p \in Params(b) |-> p]))
  IN  IF all.bucket_params = {} THEN all ELSE CreateNewBucket(b, all, all.end)

BucketParams(L, i) == {p \in DOMAIN L.index : L.bucket_of[p] = i}

-----------------------------------------------------------------------------
(* DistributedOptimizer: shards of the buckets, and of the parameters. *)

ShardRange(b, bucket, r) ==
  LET size == Size(bucket) \div b.dp
  IN  Interval(bucket.start + r * size, bucket.start + (r + 1) * size)

\* The part of a shard of the buffer that a parameter fills, relative to the shard.
GbufLocal(index, shard) ==
  Interval(Max({0, index.start - shard.start}), Min({Size(shard), index.end - shard.start}))

\* The part of a parameter, relative to its own start, in a shard of the buffer; an
\* empty interval if the parameter is not in the shard's map.
ParamRange(index, shard) ==
  LET start == Max({0, shard.start - index.start})
      size == Size(GbufLocal(index, shard))
  IN  IF size > 0 THEN Interval(start, start + size) ELSE Interval(0, 0)

Ranks(b) == 0 .. b.dp - 1

\* The buckets in whose map rank r has parameter p.
OwningBuckets(b, L, p, r) ==
  {i \in 1 .. Len(L.buckets) : Size(ParamRange(L.index[p], ShardRange(b, L.buckets[i], r))) > 0}

\* The ranks that update a part of p.
Owners(b, L, p) == {r \in Ranks(b) : OwningBuckets(b, L, p, r) # {}}

-----------------------------------------------------------------------------
(* The assertions of the code. *)

\* The second loop and _set_bucket: the end of a bucket is computed again, from the
\* first parameter of the next one, or from the last parameter of all.
SetBucketsAsserts(b, L) ==
  LET n == Len(L.buckets)
      first(i) == Max(BucketParams(L, i))
      end(i) == IF i = 0 THEN 0
                ELSE IF i = n THEN PadIfNeeded(b, L.index[1].end)
                ELSE PadIfNeeded(b, L.index[first(i + 1)].start)
  IN  /\ \A i \in 1 .. n : BucketParams(L, i) # {}
      /\ \A i \in 1 .. n : L.buckets[i] = Interval(end(i - 1), end(i))
      /\ b.distributed => \A i \in 1 .. n : L.buckets[i].end % b.dp = 0

NumelAsserts(b, L) ==
  LET unpadded == FoldLeft(LAMBDA x, y : x + y, 0, L.numels_unpadded)
  IN  IF b.distributed THEN unpadded <= L.end /\ L.end % b.dp = 0 ELSE unpadded = L.end

\* _build_model_param_gbuf_map: "each param only belongs to a single bucket".
SingleBucketAsserts(b, L) ==
  b.distributed => \A p \in Params(b), r \in Ranks(b) :
                     \A i, j \in OwningBuckets(b, L, p, r) : i = j

AssertsHold(b, L) ==
  L.aligned /\ NumelAsserts(b, L) /\ SetBucketsAsserts(b, L) /\ SingleBucketAsserts(b, L)

-----------------------------------------------------------------------------
(* What the rest of the program expects of a layout. *)

BucketsTile(L) ==
  /\ L.buckets[1].start = 0 /\ Last(L.buckets).end = L.end
  /\ \A i \in 2 .. Len(L.buckets) : L.buckets[i].start = L.buckets[i - 1].end

ParamsPlaced(b, L) ==
  /\ \A p \in Params(b) : /\ Size(L.index[p]) = b.numels[p]
                          /\ Within(L.index[p], L.buckets[L.bucket_of[p]])
  /\ \A p, q \in Params(b) : p # q => Apart(L.index[p], L.index[q])

\* The ranks' parts of a parameter are disjoint and together the whole of it.
ShardsTile(b, L) ==
  \A p \in Params(b) :
    LET part(r) == ParamRange(L.index[p], ShardRange(b, L.buckets[L.bucket_of[p]], r))
        owners == Owners(b, L, p)
    IN  /\ \A r \in owners : Within(part(r), Interval(0, b.numels[p]))
        /\ \A r, s \in owners : r # s => Apart(part(r), part(s))
        /\ FoldLeft(LAMBDA n, r : n + Size(part(r)), 0, SetToSeq(owners)) = b.numels[p]

IsSound(b) ==
  LET L == Layout(b)
  IN  /\ AssertsHold(b, L) => /\ BucketsTile(L)
                              /\ ParamsPlaced(b, L)
                              /\ b.distributed => ShardsTile(b, L)
      /\ (b.shared = {} \/ ~b.distributed) => AssertsHold(b, L)
=============================================================================
