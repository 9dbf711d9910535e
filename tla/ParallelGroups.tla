--------------------------- MODULE ParallelGroups ---------------------------
(***************************************************************************)
(* How the ranks of a job are divided into tensor, pipeline, context,      *)
(* data and expert parallel groups (core/parallel_state.py).  A group is   *)
(* the sequence of its ranks, since the position of a rank in a group is   *)
(* its rank there; an order such as 'tp-cp-ep-dp-pp' is the sequence of    *)
(* its tokens, and a set of tokens stands for the mask made from it.       *)
(* Torch's new_group, which every rank calls for every group, is external. *)
(***************************************************************************)
EXTENDS Integers, Sequences, FiniteSets, SequencesExt

Tokens == {"tp", "pp", "dp", "ep", "cp"}

TokensIn(order) == {order[i] : i \in DOMAIN order}

----------------------------------------------------------------------------
(* generate_masked_orthogonal_rank_groups.                                 *)

PrefixProduct(a) ==
    [i \in 1 .. Len(a) + 1 |->
        FoldLeft(LAMBDA x, y : x * y, 1, SubSeq(a, 1, i - 1))]

InnerProduct(a, b) ==
    FoldLeft(LAMBDA x, y : x + y, 0, [i \in DOMAIN a |-> a[i] * b[i]])

Decompose(index, shape) ==
    [i \in DOMAIN shape |-> (index \div PrefixProduct(shape)[i]) % shape[i]]

(* The elements of `seq` at the places of `order` whose token is in `mask`. *)
Masked(seq, order, mask) ==
    LET places == SelectSeq([i \in DOMAIN order |-> i],
                            LAMBDA i : order[i] \in mask)
    IN [k \in DOMAIN places |-> seq[places[k]]]

(* One group for each position of the dimensions left out of the mask.     *)
RankGroups(world_size, sizes, order, mask) ==
    LET rest == Tokens \ mask
        stride == PrefixProduct(sizes)
        masked_shape == Masked(sizes, order, mask)
        unmasked_shape == Masked(sizes, order, rest)
        group_size == Last(PrefixProduct(masked_shape))
    IN [g \in 1 .. world_size \div group_size |->
          [r \in 1 .. group_size |->
              InnerProduct(Decompose(r - 1, masked_shape),
                           Masked(stride, order, mask))
              + InnerProduct(Decompose(g - 1, unmasked_shape),
                             Masked(stride, order, rest))]]

----------------------------------------------------------------------------
(* RankGenerator, for sizes p = [tp, pp, dp, ep, cp].                      *)

(* Tokens the order does not mention are appended in this sequence.        *)
Appended(order) ==
    order \o SelectSeq(<<"tp", "pp", "dp", "ep", "cp">>,
                       LAMBDA t : t \notin TokensIn(order))

EpNextToDp(order) ==
    \E i \in 1 .. Len(order) - 1 : {order[i], order[i + 1]} = {"ep", "dp"}

OrderAccepted(p, order) ==
    /\ "ep" \in TokensIn(order) => EpNextToDp(order)
    /\ \A t \in Tokens \ TokensIn(order) : p[t] = 1

(* The data-parallel dimension kept whole beside the expert one.           *)
MutGetRanks(p, order, mask, independent_ep) ==
    LET full == Appended(order)
        used == IF independent_ep THEN full
                ELSE SelectSeq(full, LAMBDA t : t # "ep")
    IN RankGroups(p.tp * p.pp * p.dp * p.cp,
                  [i \in DOMAIN used |-> p[used[i]]], used, mask)

(* get_ranks: with independent_ep the data-parallel dimension is split     *)
(* into the expert one and the rest of it.                                 *)
GetRanks(p, order, mask, independent_ep) ==
    LET full == Appended(order)
        used == IF independent_ep THEN full
                ELSE SelectSeq(full, LAMBDA t : t # "ep")
        size == [t \in Tokens |->
                    IF t = "dp" /\ independent_ep THEN p.dp \div p.ep ELSE p[t]]
    IN RankGroups(p.tp * p.pp * p.dp * p.cp,
                  [i \in DOMAIN used |-> size[used[i]]], used, mask)

----------------------------------------------------------------------------
(* initialize_model_parallel: what it refuses and the groups it creates.   *)

Sizes(world_size, tp, pp, cp, ep) ==
    [tp |-> tp, pp |-> pp, cp |-> cp, ep |-> ep,
     dp |-> world_size \div (tp * pp * cp)]

Accepted(world_size, p, order) ==
    /\ world_size % (p.tp * p.pp * p.cp) = 0
    /\ p.dp % p.ep = 0
    /\ ~ (p.ep > 1 /\ p.cp > 1)
    /\ OrderAccepted(p, order)

Kinds == {{"dp"}, {"dp", "cp"}, {"cp"}, {"tp", "pp"}, {"tp"}, {"pp"},
          {"tp", "dp", "cp"}, {"tp", "dp"}}

ExpertKinds == {{"tp", "ep"}, {"ep"}, {"dp"}}

(* The group among `groups` that a rank keeps, and its place in it         *)
(* (get_data_parallel_rank and its like).                                  *)
GroupOf(groups, rank) ==
    CHOOSE g \in {groups[i] : i \in DOMAIN groups} : rank \in ToSet(g)

RankIn(groups, rank) ==
    LET g == GroupOf(groups, rank) IN CHOOSE i \in 0 .. Len(g) - 1 : g[i + 1] = rank

----------------------------------------------------------------------------
(* What the groups promise to everything built on them.                    *)

Ranks(world_size) == 0 .. world_size - 1

GroupSets(groups) == {ToSet(groups[i]) : i \in DOMAIN groups}

(* Every rank is in one group of the kind, once.                           *)
Partitions(groups, world_size) ==
    /\ UNION GroupSets(groups) = Ranks(world_size)
    /\ \A i, j \in DOMAIN groups :
          i # j => ToSet(groups[i]) \cap ToSet(groups[j]) = {}
    /\ \A i \in DOMAIN groups : IsInjective(groups[i])

(* A group of one kind meets a group of the other in exactly one rank.     *)
Orthogonal(one, other) ==
    \A a \in GroupSets(one), b \in GroupSets(other) : Cardinality(a \cap b) = 1

(* The members of each group have the same place in their groups of the    *)
(* other kind.                                                             *)
SamePlace(groups, other) ==
    \A a \in GroupSets(groups) : \A r, s \in a :
        RankIn(other, r) = RankIn(other, s)

IsSoundGrouping(world_size, p, order) ==
    LET G(mask) == GetRanks(p, order, mask, FALSE)
        E(mask) == GetRanks(p, order, mask, TRUE)
    IN /\ \A mask \in Kinds : Partitions(G(mask), world_size)
       /\ \A mask \in ExpertKinds : Partitions(E(mask), world_size)
       /\ Orthogonal(G({"tp", "pp"}), G({"dp", "cp"}))
       /\ Orthogonal(G({"pp"}), G({"tp", "dp", "cp"}))
       /\ SamePlace(G({"tp", "pp"}), G({"dp"}))
       /\ SamePlace(G({"dp"}), G({"tp"})) /\ SamePlace(G({"dp"}), G({"pp"}))
       /\ \A r \in Ranks(world_size) :
             LET ep == ToSet(GroupOf(E({"ep"}), r))
                 rest == ToSet(GroupOf(E({"dp"}), r))
                 dp == ToSet(GroupOf(G({"dp"}), r))
             IN ep \cap rest = {r} /\ ep \cup rest \subseteq dp
                /\ Cardinality(ep) * Cardinality(rest) = Cardinality(dp)
=============================================================================
