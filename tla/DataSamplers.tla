---------------------------- MODULE DataSamplers ----------------------------
(***************************************************************************)
(* The batch samplers of legacy/data/data_samplers.py: which samples each  *)
(* data-parallel rank reads, from the number of samples consumed so far.   *)
(*                                                                         *)
(* A sampler is described by s = [type, sharding, total]: the dataloader   *)
(* type, whether the data is sharded, and the number of samples.  A rank   *)
(* is r = [rank, dp, mbs]: its data-parallel rank, their number and the    *)
(* micro batch size.  A sample is <<epoch, index>>, where "single" has one *)
(* epoch only.  RandPerm(n, epoch)[i], for i in 0 .. n - 1, is the         *)
(* permutation torch.randperm makes from the seed `epoch`.                 *)
(***************************************************************************)
EXTENDS Integers, Sequences

CONSTANT RandPerm(_, _)

ChunkOf(r) == r.mbs * r.dp

(* `samples` cut into microbatches; an incomplete one is dropped.          *)
CutIn(mbs, samples) ==
    [n \in 1 .. Len(samples) \div mbs |->
        SubSeq(samples, (n - 1) * mbs + 1, n * mbs)]

(* MegatronPretrainingSampler.__iter__: each chunk of consecutive indices  *)
(* gives every rank its slice.                                             *)
PretrainingSampler(s, r, consumed) ==
    [n \in 1 .. (s.total - consumed) \div ChunkOf(r) |->
        [i \in 1 .. r.mbs |->
            <<0, consumed + (n - 1) * ChunkOf(r) + r.rank * r.mbs + i - 1>>]]

ActiveTotal(s, r) == s.total - (s.total % ChunkOf(r))

(* One pass of MegatronPretrainingRandomSampler.__iter__ over the rest of  *)
(* the epoch that `consumed` falls in.                                     *)
RandomSampler(s, r, consumed) ==
    LET epoch == consumed \div ActiveTotal(s, r)
        current == consumed % ActiveTotal(s, r)
        bucket == (s.total \div ChunkOf(r)) * r.mbs
        full == (s.total \div r.mbs) * r.mbs
        offset == current \div r.dp
        share == (full - current - r.rank + r.dp - 1) \div r.dp
    IN CutIn(r.mbs,
             IF s.sharding
             THEN [i \in 1 .. bucket - offset |->
                      <<epoch, r.rank * bucket
                               + RandPerm(bucket, epoch)[offset + i - 1]>>]
             ELSE [i \in 1 .. share |->
                      <<epoch, RandPerm(full, epoch)
                                  [current + r.rank + (i - 1) * r.dp]>>])

Pass(s, r, consumed) ==
    IF s.type = "single" THEN PretrainingSampler(s, r, consumed)
    ELSE RandomSampler(s, r, consumed)

(* The assertions of the constructors and of the first pass.               *)
SamplerAccepted(s, r, consumed) ==
    IF s.type = "single" THEN consumed < s.total
    ELSE ActiveTotal(s, r) > 0 /\ (consumed % ActiveTotal(s, r)) % ChunkOf(r) = 0

----------------------------------------------------------------------------
(* The iterator the training loop draws from.  `left` is what remains of   *)
(* the pass; the random sampler counts the samples it has yielded, and     *)
(* cyclic_iter starts a new pass from that count when one ends.            *)

Iterator(s, r, consumed) ==
    [left |-> Pass(s, r, consumed), consumed |-> consumed]

Refilled(s, r, it) ==
    IF s.type = "cyclic" /\ it.left = << >> THEN Iterator(s, r, it.consumed) ELSE it

(* next(): an exhausted "single" iterator raises StopIteration, which the  *)
(* caller sees as an empty `left`.                                         *)
NextBatch(s, r, it) ==
    LET now == Refilled(s, r, it)
    IN [batch |-> Head(now.left),
        it |-> [left |-> Tail(now.left), consumed |-> now.consumed + ChunkOf(r)]]

CanDraw(s, it, n) == s.type = "cyclic" \/ Len(it.left) >= n

(* n microbatches in a row: those drawn, and the iterator after them.      *)
Draws(s, r, it, n) ==
    LET draw[k \in 0 .. n] ==
            IF k = 0 THEN [drawn |-> << >>, it |-> it]
            ELSE LET step == NextBatch(s, r, draw[k - 1].it)
                 IN [drawn |-> Append(draw[k - 1].drawn, step.batch),
                     it |-> step.it]
    IN draw[n]
=============================================================================
