---------------------------- MODULE FinalizeGrads ----------------------------
(***************************************************************************)
(* What every rank does with its gradients between the last backward pass  *)
(* and the optimizer (core/distributed/finalize_model_grads.py), when the  *)
(* word embedding may have a second copy on the last pipeline stage        *)
(* (core/models/common/language_module), and which gradients count in the  *)
(* norm (core/optimizer/optimizer.py).  Models with one stack of layers:   *)
(* no split rank, so no call for position embeddings.                      *)
(*                                                                         *)
(* A job c holds the world, the sizes p, the groups `of` each rank, vpp    *)
(* (model chunks of a stage), tied (share_embeddings_and_output_weights),  *)
(* sequence_parallel, qk_layernorm, fp8, and tokens                        *)
(* (calculate_per_token_loss).  A slot <<name, k>> is a parameter of chunk *)
(* k or the token count; its value is the bag of the ranks whose           *)
(* contributions it holds.  A collective is a record of its group and the  *)
(* slots it moves; all of them block.  The collectives are external.       *)
(***************************************************************************)
EXTENDS ParallelGroups

(* The job of the settings in c: what initialize_model_parallel keeps of   *)
(* the groups on every rank.                                               *)
JobOf(c, p, order) ==
    LET Of(mask) == GetRanks(p, order, mask, FALSE)
    IN c @@ [world |-> p.tp * p.pp * p.dp * p.cp, p |-> p,
             of |-> [mask \in {{"tp"}, {"pp"}, {"dp"}, {"dp", "cp"}, {"tp", "pp"}} |->
                [r \in Ranks(p.tp * p.pp * p.dp * p.cp) |-> GroupOf(Of(mask), r)]]]

MembersOf(c, mask, r) == ToSet(c.of[mask][r])
PlaceIn(c, mask, r) == CHOOSE i \in DOMAIN c.of[mask][r] : c.of[mask][r][i] = r


Stage(c, r) == PlaceIn(c, {"pp"}, r) - 1
LastStage(c) == c.p.pp - 1

(* The ends of the rank's pipeline group.                                  *)
EmbeddingRanks(c, r) ==
    LET ranks == c.of[{"pp"}][r]
    IN IF Len(ranks) > 1 THEN <<Head(ranks), Last(ranks)>> ELSE ranks

(* is_pipeline_first_stage and is_pipeline_last_stage with k as the        *)
(* virtual rank: get_model makes pre_process and post_process of them.     *)
PreProcess(c, r, k) == Stage(c, r) = 0 /\ k = 1
PostProcess(c, r, k) == Stage(c, r) = LastStage(c) /\ k = c.vpp

InEmbeddingGroup(c, r, k) ==
    \/ r = Head(EmbeddingRanks(c, r)) /\ PreProcess(c, r, k)
    \/ r # Head(EmbeddingRanks(c, r)) /\ r = Last(EmbeddingRanks(c, r))
       /\ PostProcess(c, r, k)

----------------------------------------------------------------------------
(* Parameters of a rank.                                                   *)

LayerNames(c) ==
    <<"norm", "linear">> \o (IF c.qk_layernorm THEN <<"q_layernorm">> ELSE <<>>)

(* A tied output layer next to the embedding has no weight of its own      *)
(* (skip_weight_param_allocation).                                         *)
Slots(c, r, k) ==
    (IF PreProcess(c, r, k) THEN <<<<"embedding", k>>>> ELSE <<>>)
    \o [i \in DOMAIN LayerNames(c) |-> <<LayerNames(c)[i], k>>]
    \o (IF PostProcess(c, r, k) /\ ~ (c.tied /\ PreProcess(c, r, k))
        THEN <<<<"output", k>>>> ELSE <<>>)

Parameters(c, r) == UNION {ToSet(Slots(c, r, k)) : k \in 1 .. c.vpp}

IsShared(c, slot) == c.tied /\ slot[1] = "output"

IsTensorParallel(slot) == slot[1] \in {"embedding", "output", "linear"}

(* Ranks of a tensor-parallel group see parts of the sequence or of the    *)
(* heads, and hold the gradients of these parts.                           *)
IsPartial(c, slot) ==
    slot[1] = "q_layernorm" \/ (slot[1] = "norm" /\ c.sequence_parallel)

----------------------------------------------------------------------------
(* The collectives each rank calls, in its order.                          *)

(* setup_embeddings_and_output_layer of chunk k.                           *)
SetupCalls(c, r, k) ==
    IF c.tied /\ PreProcess(c, r, k) # PostProcess(c, r, k) /\ InEmbeddingGroup(c, r, k)
    THEN <<[kind |-> "all_reduce", group |-> ToSet(EmbeddingRanks(c, r)),
            slots |-> <<<<IF PreProcess(c, r, k) THEN "embedding" ELSE "output", k>>>>]>>
    ELSE <<>>

(* finish_grad_sync of the chunks, one bucket each.                        *)
GradSyncCalls(c, r) ==
    [k \in 1 .. c.vpp |-> [kind |-> "all_reduce", group |-> MembersOf(c, {"dp", "cp"}, r),
                           slots |-> Slots(c, r, k)]]

(* _allreduce_layernorm_grads: one call for all, or with fp8 one for each. *)
LayernormCalls(c, r) ==
    LET all == FlattenSeq([k \in 1 .. c.vpp |-> Slots(c, r, k)])
        flagged == SelectSeq(all, LAMBDA slot : IsPartial(c, slot))
        Call(slots) == [kind |-> "all_reduce", group |-> MembersOf(c, {"tp"}, r),
                        slots |-> slots]
    IN IF c.p.tp = 1 \/ ~ (c.sequence_parallel \/ c.qk_layernorm) THEN <<>>
       ELSE IF c.fp8 THEN [i \in DOMAIN flagged |-> Call(<<flagged[i]>>)]
       ELSE IF flagged # <<>> THEN <<Call(flagged)>> ELSE <<>>

(* _allreduce_word_embedding_grads: the weight of the first or last chunk. *)
WordEmbeddingCalls(c, r) ==
    IF c.tied /\ c.p.pp > 1 /\ r \in ToSet(EmbeddingRanks(c, r))
    THEN <<[kind |-> "all_reduce", group |-> ToSet(EmbeddingRanks(c, r)),
            slots |-> <<IF Stage(c, r) = 0 THEN <<"embedding", 1>>
                        ELSE <<"output", c.vpp>>>>]>>
    ELSE <<>>

(* The tokens of the last stage are the divisor of all.                    *)
NumTokens == <<"num_tokens", 0>>

NumTokensCalls(c, r) ==
    IF c.tokens
    THEN <<[kind |-> "broadcast", group |-> MembersOf(c, {"pp"}, r), slots |-> <<NumTokens>>],
           [kind |-> "all_reduce", group |-> MembersOf(c, {"dp"}, r), slots |-> <<NumTokens>>]>>
    ELSE <<>>

FinalizeModelGrads(c, r) ==
    GradSyncCalls(c, r) \o LayernormCalls(c, r) \o WordEmbeddingCalls(c, r)
    \o NumTokensCalls(c, r)

(* With fp8, main_grad is a GradWrapper that all_reduce does not take, and *)
(* grad_data is uint8, which cannot be scaled in place by a fraction.      *)
FinalizeRaises(c) == c.fp8 /\ ((c.tied /\ c.p.pp > 1) \/ c.tokens)

----------------------------------------------------------------------------
(* Executing the calls: a collective runs when it is next on all members   *)
(* of its group, with as many slots on each.                               *)

NoContribution(c) == [s \in Ranks(c.world) |-> 0]
Own(c, r) == [NoContribution(c) EXCEPT ![r] = 1]

(* Member i of a broadcast or all-reduce gets the values moved to it.      *)
Moved(c, call, of) ==
    IF call.kind = "broadcast"
    THEN of[CHOOSE s \in call.group : Stage(c, s) = LastStage(c)]
    ELSE [x \in Ranks(c.world) |-> FoldSet(LAMBDA s, n : n + of[s][x], 0, call.group)]

StepAll(c, calls, st) ==
    LET Waiting(r) == st.done[r] < Len(calls[r])
        Call(r) == calls[r][st.done[r] + 1]
        ready == {r \in Ranks(c.world) :
                    Waiting(r) /\ \A s \in Call(r).group :
                        /\ Waiting(s) /\ Call(s).group = Call(r).group
                        /\ Call(s).kind = Call(r).kind
                        /\ Len(Call(s).slots) = Len(Call(r).slots)}
        At(r, slot) == CHOOSE i \in DOMAIN Call(r).slots : Call(r).slots[i] = slot
    IN [done |-> [r \in Ranks(c.world) |-> st.done[r] + IF r \in ready THEN 1 ELSE 0],
        value |-> [r \in Ranks(c.world) |->
            [slot \in DOMAIN st.value[r] |->
                IF r \in ready /\ slot \in ToSet(Call(r).slots)
                THEN Moved(c, Call(r), [s \in Call(r).group |->
                                           st.value[s][Call(s).slots[At(r, slot)]]])
                ELSE st.value[r][slot]]]]

Executed(c, calls, value) ==
    LET most == FoldSet(LAMBDA r, n : n + Len(calls[r]), 0, Ranks(c.world))
    IN FoldLeft(LAMBDA st, i : StepAll(c, calls, st),
                [done |-> [r \in Ranks(c.world) |-> 0], value |-> value],
                [i \in 1 .. most |-> i])

(* Before: weights with the output copies filled with 0, own gradients,    *)
(* and the tokens the last stage has counted.                              *)
InitialWeights(c) ==
    [r \in Ranks(c.world) |-> [slot \in Parameters(c, r) |->
        IF IsShared(c, slot) THEN NoContribution(c) ELSE Own(c, r)]]

InitialGrads(c) ==
    [r \in Ranks(c.world) |-> [slot \in Parameters(c, r) \cup {NumTokens} |->
        IF slot = NumTokens /\ Stage(c, r) # LastStage(c) THEN NoContribution(c)
        ELSE Own(c, r)]]

(* get_main_grads_for_grad_norm.                                           *)
CountsInNorm(c, r, slot) ==
    ~ IsShared(c, slot) /\ (IsTensorParallel(slot) \/ PlaceIn(c, {"tp"}, r) = 1)

----------------------------------------------------------------------------
(* What finalization promises.                                             *)

(* The weight of the model a slot holds: tied copies hold the same one.    *)
Weight(c, r, slot) ==
    IF slot[1] = "embedding" \/ IsShared(c, slot) THEN <<"embedding">>
    ELSE <<slot[1], Stage(c, r), slot[2]>>

(* The ranks whose backward passes add to the part of the weight in slot.  *)
Contributors(c, r, slot) ==
    {s \in Ranks(c.world) :
        /\ \E other \in Parameters(c, s) : Weight(c, s, other) = Weight(c, r, slot)
        /\ IsPartial(c, slot) \/ PlaceIn(c, {"tp"}, s) = PlaceIn(c, {"tp"}, r)}

Once(c, ranks) == [s \in Ranks(c.world) |-> IF s \in ranks THEN 1 ELSE 0]

TiedCopiesStartEqual(c) ==
    LET calls == [r \in Ranks(c.world) |->
                     FlattenSeq([k \in 1 .. c.vpp |-> SetupCalls(c, r, k)])]
        st == Executed(c, calls, InitialWeights(c))
    IN \A r \in Ranks(c.world) :
          /\ st.done[r] = Len(calls[r])
          /\ \A slot \in Parameters(c, r) :
                st.value[r][slot] =
                    Own(c, IF IsShared(c, slot) THEN Head(EmbeddingRanks(c, r)) ELSE r)

(* No rank is left waiting, each copy of a weight has every contribution   *)
(* once, and all ranks of a pipeline divide by the tokens of all replicas. *)
GradsFinal(c) ==
    LET calls == [r \in Ranks(c.world) |-> FinalizeModelGrads(c, r)]
        st == Executed(c, calls, InitialGrads(c))
    IN \A r \in Ranks(c.world) :
          /\ st.done[r] = Len(calls[r])
          /\ \A slot \in Parameters(c, r) :
                st.value[r][slot] = Once(c, Contributors(c, r, slot))
          /\ c.tokens => st.value[r][NumTokens] =
                Once(c, {s \in UNION {MembersOf(c, {"dp"}, q) : q \in MembersOf(c, {"pp"}, r)} :
                            Stage(c, s) = LastStage(c)})

(* Each part of each weight is in the norm of a replica once.              *)
NormCountsOnce(c) ==
    \A r \in Ranks(c.world) : \A slot \in Parameters(c, r) :
        Cardinality({<<s, other>> \in
            UNION {{s} \X Parameters(c, s) : s \in MembersOf(c, {"tp", "pp"}, r)} :
               /\ Weight(c, s, other) = Weight(c, r, slot)
               /\ IsTensorParallel(slot) => PlaceIn(c, {"tp"}, s) = PlaceIn(c, {"tp"}, r)
               /\ CountsInNorm(c, s, other)}) = 1
=============================================================================
