---------------------------- MODULE MoEDispatch ----------------------------
(***************************************************************************)
(* How a mixture-of-experts layer sends the tokens of all ranks to the     *)
(* experts and brings the results back (core/transformer/moe): the router, *)
(* the all-gather and the all-to-all dispatcher, and the collectives they  *)
(* use (core/tensor_parallel/mappings.py), all ranks of one layer at once. *)
(*                                                                         *)
(* l is a layout [ranks, tp, ep, tp_ep]: the groups of ParallelGroups.     *)
(* c is a configuration [experts, topk, extended, capacity, pad, policy,   *)
(* tokens]: tokens of each rank, capacity 0 for none.  gate[x][e] is the   *)
(* gate of token x for expert e; it stands for its probability too.        *)
(*                                                                         *)
(* Token i of rank r is <<r, i>>.  What an expert makes of it is one term  *)
(* <<token, expert, shard>>, to which a probability is appended when it is *)
(* applied, and a row is a bag of terms: a sum.  A rank that holds a slice *)
(* of the hidden dimension holds the same rows as its tensor-parallel      *)
(* peers, or else they make a mixed row.  Bias takes the same way and is   *)
(* left out; the auxiliary losses too.                                     *)
(***************************************************************************)
EXTENDS ParallelGroups, Bags, TLC

MoELayout(world_size, p, order) ==
    [ranks |-> 0 .. world_size - 1,
     tp    |-> GetRanks(p, order, {"tp"}, FALSE),
     ep    |-> GetRanks(p, order, {"ep"}, TRUE),
     tp_ep |-> GetRanks(p, order, {"tp", "ep"}, TRUE)]

(* A tensor of each rank.  Overriding nothing changes nothing, but makes    *)
(* TLC evaluate the tensors once.                                          *)
OnRanks(ranks, Tensor(_)) == [r \in ranks |-> Tensor(r)] @@ <<>>

----------------------------------------------------------------------------
(* Rows and the tensor operations on them.                                 *)

Zero == <<>>            \* the probability of what was dropped or padded
Mixed == <<"mixed">>

AddUp(rows) == FoldLeft(LAMBDA sum, row : sum (+) row, EmptyBag, rows)
Total(counts) == FoldLeft(LAMBDA sum, n : sum + n, 0, counts)
Count(seq, e) == Len(SelectSeq(seq, LAMBDA x : x = e))

Scale(row, prob) ==
    IF prob = Zero THEN EmptyBag
    ELSE [t \in {Append(u, prob) : u \in DOMAIN row} |-> row[Front(t)]]

(* n rows, to each of which those of `rows` are added that `index` sends   *)
(* there.                                                                  *)
ScatterAdd(n, index, rows) ==
    [i \in 1 .. n |->
        AddUp([k \in DOMAIN rows |-> IF index[k] = i THEN rows[k] ELSE EmptyBag])]

Argsort(keys) ==
    SortSeq([i \in DOMAIN keys |-> i],
            LAMBDA i, j : keys[i] < keys[j] \/ (keys[i] = keys[j] /\ i < j))

(* A sort that is not stable: equal keys come in some order, here reversed. *)
UnstableArgsort(keys) ==
    SortSeq([i \in DOMAIN keys |-> i],
            LAMBDA i, j : keys[i] < keys[j] \/ (keys[i] = keys[j] /\ i > j))

CutAt(seq, sizes) ==
    [j \in DOMAIN sizes |->
        LET before == Total(SubSeq(sizes, 1, j - 1))
        IN SubSeq(seq, before + 1, before + sizes[j])]

----------------------------------------------------------------------------
(* Collectives of a kind of group, on the tensors x[r] of all ranks.       *)

GatherFirstDim(groups, x) ==
    OnRanks(DOMAIN x, LAMBDA r :
        LET g == GroupOf(groups, r) IN FlattenSeq([i \in DOMAIN g |-> x[g[i]]]))

(* The n rows of each rank, summed over its group.                         *)
ReduceScatterFirstDim(groups, n, x) ==
    OnRanks(DOMAIN x, LAMBDA r :
        LET g == GroupOf(groups, r)
        IN [i \in 1 .. n |->
              AddUp([s \in DOMAIN g |-> x[g[s]][RankIn(groups, r) * n + i]])])

AllToAll(groups, x, input_splits) ==
    OnRanks(DOMAIN x, LAMBDA r :
        LET g == GroupOf(groups, r)
        IN FlattenSeq([j \in DOMAIN g |->
              CutAt(x[g[j]], input_splits[g[j]])[RankIn(groups, r) + 1]]))

(* The row that the slices of the hidden dimension make up.                *)
JoinSlices(slices, mixed) ==
    IF Cardinality(slices) = 1 THEN CHOOSE s \in slices : TRUE ELSE mixed

GatherLastDim(groups, x) ==
    OnRanks(DOMAIN x, LAMBDA r :
        [k \in DOMAIN x[r] |->
            JoinSlices({x[s][k] : s \in ToSet(GroupOf(groups, r))}, Mixed)])

ReduceScatterLastDim(groups, x) ==
    OnRanks(DOMAIN x, LAMBDA r :
        LET g == GroupOf(groups, r)
        IN [k \in DOMAIN x[r] |-> AddUp([s \in DOMAIN g |-> x[g[s]][k]])])

(* Tokens with the slice of one rank become the rank's tokens with all     *)
(* slices (all_to_all_hp2sp); all_to_all_sp2hp is GatherFirstDim here.     *)
HiddenToSequence(groups, n, x) ==
    OnRanks(DOMAIN x, LAMBDA r :
        [i \in 1 .. n |->
            JoinSlices({x[s][RankIn(groups, r) * n + i] : s \in ToSet(GroupOf(groups, r))},
                       SetToBag({Mixed}))])

----------------------------------------------------------------------------
(* The experts of a rank and its router.                                   *)

NumLocal(l, c) == IF c.extended THEN c.experts ELSE c.experts \div Len(l.ep[1])
FirstLocal(l, c, r) == IF c.extended THEN 0 ELSE RankIn(l.ep, r) * NumLocal(l, c)
LocalExperts(l, c, r) == FirstLocal(l, c, r) .. FirstLocal(l, c, r) + NumLocal(l, c) - 1

(* Which part of an expert's weights a rank holds.                         *)
ShardOf(l, c, r) == RankIn(IF c.extended THEN l.tp_ep ELSE l.tp, r)

(* SequentialMLP: each expert in turn takes as many rows as counted for it. *)
RunExperts(l, c, r, rows, tokens_per_expert) ==
    LET parts == CutAt(rows, tokens_per_expert)
        Run(k) == [i \in DOMAIN parts[k] |->
                      SetToBag({<<parts[k][i], FirstLocal(l, c, r) + k - 1,
                                  ShardOf(l, c, r)>>})]
    IN FlattenSeq([k \in DOMAIN parts |-> Run(k)])

TopK(c, gates) ==
    LET best == Argsort([e \in 1 .. c.experts |-> -gates[e - 1]])
    IN [k \in 1 .. c.topk |-> best[k] - 1]

(* For each expert the tokens that its capacity is given to: the best of   *)
(* those that chose it, or any ("position"), then others as padding.       *)
CapacityIndices(c, gate, tokens) ==
    LET Key(g, e) ==
          CASE e \notin ToSet(TopK(c, gate[tokens[g]])) -> 1
            [] c.policy = "probs" -> -gate[tokens[g]][e]
            [] OTHER -> 0
    IN [e \in 0 .. c.experts - 1 |->
          SubSeq(Argsort([g \in DOMAIN tokens |-> Key(g, e)]), 1, c.capacity)]

Keeps(c, gate, tokens, g, e) ==
    /\ e \in ToSet(TopK(c, gate[tokens[g]]))
    /\ c.capacity > 0 => g \in ToSet(CapacityIndices(c, gate, tokens)[e])

(* topk_softmax_with_capacity, flattened: the place of the token, the      *)
(* expert (c.experts stands for the index of what is dropped) and the      *)
(* probability of each entry.  Not padded, the entries go token by token;  *)
(* padded, expert by expert.                                               *)
Routing(c, gate, tokens) ==
    LET Entry(g, e) ==
          IF Keeps(c, gate, tokens, g, e)
          THEN [place |-> g, expert |-> e, prob |-> <<tokens[g], e>>]
          ELSE [place |-> g, expert |-> IF c.pad THEN e ELSE c.experts, prob |-> Zero]
    IN IF c.pad
       THEN FlattenSeq([m \in 1 .. c.experts |->
              [k \in 1 .. c.capacity |->
                  Entry(CapacityIndices(c, gate, tokens)[m - 1][k], m - 1)]])
       ELSE FlattenSeq([g \in DOMAIN tokens |->
              [k \in 1 .. c.topk |-> Entry(g, TopK(c, gate[tokens[g]])[k])]])

Hidden(l, c) == [r \in l.ranks |-> [i \in 1 .. c.tokens |-> <<r, i>>]]

----------------------------------------------------------------------------
(* MoEAllGatherTokenDispatcher: every rank of a tensor and expert group    *)
(* sees all of the group's tokens and takes those for its own experts.     *)

LocalEntries(l, c, gate, tokens, r) ==
    SelectSeq(Routing(c, gate, tokens), LAMBDA t : t.expert \in LocalExperts(l, c, r))

AllGatherReturn(l, c, gate) ==
    LET global == GatherFirstDim(l.tp_ep, Hidden(l, c))
        local == OnRanks(l.ranks, LAMBDA r : LocalEntries(l, c, gate, global[r], r))
        experts == OnRanks(l.ranks, LAMBDA r : [k \in DOMAIN local[r] |-> local[r][k].expert])
        indices == OnRanks(l.ranks, LAMBDA r :
                      IF NumLocal(l, c) > 1 THEN UnstableArgsort(experts[r])
                      ELSE [k \in DOMAIN experts[r] |-> k])
        tokens_per_expert == OnRanks(l.ranks, LAMBDA r :
            [m \in 1 .. NumLocal(l, c) |-> Count(experts[r], FirstLocal(l, c, r) + m - 1)])
        permuted == OnRanks(l.ranks, LAMBDA r :
            [k \in DOMAIN local[r] |-> global[r][local[r][indices[r][k]].place]])
        output == OnRanks(l.ranks, LAMBDA r :
            RunExperts(l, c, r, permuted[r], tokens_per_expert[r]))
        unpermuted == OnRanks(l.ranks, LAMBDA r :
            ScatterAdd(Len(local[r]), indices[r], output[r]))
        scaled == OnRanks(l.ranks, LAMBDA r : [k \in DOMAIN local[r] |->
            IF c.topk > 1 THEN Scale(unpermuted[r][k], local[r][k].prob)
            ELSE unpermuted[r][k]])
        total == OnRanks(l.ranks, LAMBDA r :
            ScatterAdd(Len(global[r]), [k \in DOMAIN local[r] |-> local[r][k].place],
                       scaled[r]))
        back == ReduceScatterFirstDim(l.tp_ep, c.tokens, total)
    IN OnRanks(l.ranks, LAMBDA r : [i \in 1 .. c.tokens |->
          IF c.topk > 1 THEN back[r][i]
          ELSE Scale(back[r][i], <<<<r, i>>, TopK(c, gate[<<r, i>>])[1]>>)])

----------------------------------------------------------------------------
(* MoEAlltoAllTokenDispatcher.                                             *)

(* The experts' numbers on their rank, each repeated as often as tokens    *)
(* for it come from each rank of the expert group.                         *)
MutLocalExpertsIndices(l, c, counts) ==
    FlattenSeq([m \in DOMAIN counts |->
        [i \in 1 .. counts[m] |-> (m - 1) \div Len(l.ep[1])]])

LocalExpertsIndices(l, c, counts) ==
    FlattenSeq([m \in DOMAIN counts |->
        [i \in 1 .. counts[m] |-> (m - 1) % NumLocal(l, c)]])

(* Rows [ep, local expert, capacity] as [local expert, ep, capacity].      *)
Transposed(l, c) ==
    LET n == NumLocal(l, c)
        ep_size == Len(l.ep[1])
    IN [k \in 1 .. n * ep_size * c.capacity |->
          LET at == k - 1
              slot == at % c.capacity
              from == (at \div c.capacity) % ep_size
              expert == at \div (c.capacity * ep_size)
          IN (from * n + expert) * c.capacity + slot + 1]

(* preprocess and the two permutations, on all ranks: the entries sent, in *)
(* their order, the splits, and the order in which the received rows are   *)
(* given to the experts.                                                   *)
Preprocess(l, c, gate, tokens) ==
    LET n == NumLocal(l, c)
        ep_size == Len(l.ep[1])
        entries == OnRanks(l.ranks, LAMBDA r : Routing(c, gate, tokens[r]))
        experts == OnRanks(l.ranks, LAMBDA r : [k \in DOMAIN entries[r] |-> entries[r][k].expert])
        counts == OnRanks(l.ranks, LAMBDA r :
                      [m \in 1 .. c.experts |-> Count(experts[r], m - 1)])
        num_out_tokens == OnRanks(l.ranks, LAMBDA r :
            IF c.capacity > 0 THEN Total(counts[r]) ELSE Len(entries[r]))
        sorted == OnRanks(l.ranks, LAMBDA r :
            IF c.pad THEN [k \in DOMAIN entries[r] |-> k]
            ELSE SubSeq(Argsort(experts[r]), 1, num_out_tokens[r]))
        (* num_global_tokens_per_local_expert *)
        received == OnRanks(l.ranks, LAMBDA r : [j \in 1 .. ep_size |-> [m \in 1 .. n |->
            counts[GroupOf(l.ep, r)[j]][FirstLocal(l, c, r) + m]]])
    IN OnRanks(l.ranks, LAMBDA r :
         [sent |-> [k \in DOMAIN sorted[r] |-> entries[r][sorted[r][k]]],
          input_splits |-> [j \in 1 .. ep_size |->
              IF c.pad THEN n * c.capacity
              ELSE Total(SubSeq(counts[r], (j - 1) * n + 1, j * n))],
          output_splits |-> [j \in 1 .. ep_size |->
              IF c.pad THEN n * c.capacity ELSE Total(received[r][j])],
          tokens_per_expert |-> [m \in 1 .. n |->
              IF c.pad THEN c.capacity * ep_size
              ELSE Total([j \in 1 .. ep_size |-> received[r][j][m]])],
          order |->
              IF c.pad THEN Transposed(l, c)
              ELSE Argsort(LocalExpertsIndices(l, c, FlattenSeq(received[r])))])

AlltoAllReturn(l, c, plan, tokens) ==
    LET Field(f) == OnRanks(l.ranks, LAMBDA r : plan[r][f])
        permuted == OnRanks(l.ranks, LAMBDA r :
            [k \in DOMAIN plan[r].sent |-> tokens[r][plan[r].sent[k].place]])
        arrived == AllToAll(l.ep, permuted, Field("input_splits"))
        sorted == OnRanks(l.ranks, LAMBDA r :
            [k \in DOMAIN plan[r].order |-> arrived[r][plan[r].order[k]]])
        whole == GatherLastDim(l.tp, sorted)
        output == OnRanks(l.ranks, LAMBDA r :
            RunExperts(l, c, r, whole[r], plan[r].tokens_per_expert))
        sliced == ReduceScatterLastDim(l.tp, output)
        unsorted == OnRanks(l.ranks, LAMBDA r :
            ScatterAdd(Len(sliced[r]), plan[r].order, sliced[r]))
        back == AllToAll(l.ep, unsorted, Field("output_splits"))
        merged == OnRanks(l.ranks, LAMBDA r : LET sent == plan[r].sent IN
            ScatterAdd(Len(tokens[r]), [k \in DOMAIN sent |-> sent[k].place],
                       [k \in DOMAIN sent |-> Scale(back[r][k], sent[k].prob)]))
    IN HiddenToSequence(l.tp, c.tokens, merged)

----------------------------------------------------------------------------
(* What a token gets back: the outputs of the experts that took it, all    *)
(* shards of each, each with the token's probability for that expert.      *)
Promised(l, c, gate, tokens, r, i) ==
    LET x == <<r, i>>
        g == CHOOSE k \in DOMAIN tokens[r] : tokens[r][k] = x
        shards == {ShardOf(l, c, s) : s \in l.ranks}
    IN SetToBag({<<x, e, s, <<x, e>>>> :
                    e \in {e \in 0 .. c.experts - 1 : Keeps(c, gate, tokens[r], g, e)},
                    s \in shards})

ReturnsTokens(l, c, gate, tokens, result) ==
    \A r \in l.ranks : \A i \in 1 .. c.tokens :
        result[r][i] = Promised(l, c, gate, tokens, r, i)

(* Each rank sends all its rows, and two ranks agree on what one sends the *)
(* other.                                                                  *)
SplitsAgree(l, plan) ==
    \A r \in l.ranks : LET g == GroupOf(l.ep, r) IN
        /\ Len(plan[r].sent) = Total(plan[r].input_splits)
        /\ \A j \in DOMAIN g :
            plan[r].output_splits[j] = plan[g[j]].input_splits[RankIn(l.ep, r) + 1]

(* An expert drops tokens only when more chose it than it has capacity for. *)
DropsOnlyExcess(c, gate, tokens) ==
    \A e \in 0 .. c.experts - 1 :
        LET chose == {g \in DOMAIN tokens : e \in ToSet(TopK(c, gate[tokens[g]]))}
            kept == {g \in DOMAIN tokens : Keeps(c, gate, tokens, g, e)}
        IN kept = chose \/ Cardinality(kept) = c.capacity

AllGatherSound(l, c, gate) ==
    ReturnsTokens(l, c, gate, Hidden(l, c), AllGatherReturn(l, c, gate))

AlltoAllSound(l, c, gate) ==
    LET tokens == GatherFirstDim(l.tp, Hidden(l, c))
        plan == Preprocess(l, c, gate, tokens)
    IN /\ SplitsAgree(l, plan)
       /\ \A r \in l.ranks : DropsOnlyExcess(c, gate, tokens[r])
       /\ ReturnsTokens(l, c, gate, tokens, AlltoAllReturn(l, c, plan, tokens))
=============================================================================
