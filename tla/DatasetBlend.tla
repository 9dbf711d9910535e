---------------------------- MODULE DatasetBlend ----------------------------
(***************************************************************************)
(* Several datasets read as one: the split of each (blended_megatron_      *)
(* dataset_config.py), the size of the blend (blended_megatron_dataset_    *)
(* builder.py) and the order in which samples are drawn (helpers.cpp).     *)
(*                                                                         *)
(* Weights are positive integers; the code divides them by their sum, and  *)
(* the errors compared here are its errors times that sum.  Datasets and   *)
(* samples count from 1 and 0.                                             *)
(***************************************************************************)
EXTENDS Integers, Sequences, FiniteSets, SequencesExt, FiniteSetsExt

SumOf(w) == FoldLeft(LAMBDA x, y : x + y, 0, w)

Larger(a, b) == IF a > b THEN a ELSE b

(* The first of the datasets `open` with the largest error.                *)
MaxError(w, open, counts, k) ==
    LET Error(i) == w[i] * Larger(k, 1) - counts[i] * SumOf(w)
    IN CHOOSE i \in open :
          \A j \in open : Error(j) < Error(i) \/ (Error(j) = Error(i) /\ i <= j)

(* The loop of both builders, with at most most[i] draws of dataset i:     *)
(* [counts, last] after k draws.                                           *)
Drawn(w, size, most) ==
    LET state[k \in 0 .. size] ==
            IF k = 0 THEN [counts |-> [i \in DOMAIN w |-> 0], last |-> 0]
            ELSE LET before == state[k - 1].counts
                     open == {i \in DOMAIN w : before[i] < most[i]}
                     i == MaxError(w, open, before, k - 1)
                 IN [counts |-> [before EXCEPT ![i] = @ + 1], last |-> i]
    IN state

(* build_blending_indices and build_exhaustive_blending_indices.           *)
BlendingCounts(w, size) == Drawn(w, size, [i \in DOMAIN w |-> size])

ExhaustiveCounts(sizes) == Drawn(sizes, SumOf(sizes), sizes)

(* dataset_index and dataset_sample_index.                                 *)
IndicesOf(state) ==
    [k \in 1 .. Cardinality(DOMAIN state) - 1 |->
        <<state[k].last, state[k - 1].counts[state[k].last]>>]

----------------------------------------------------------------------------
(* The builder.  `size` is the number of samples wanted or NoSize.         *)

NoSize == -1

(* _get_size_per_split_per_dataset: with a margin of 0.5%.                 *)
Requested(w, size) == [i \in DOMAIN w |-> -((-(size * w[i] * 1005)) \div (1000 * SumOf(w)))]

(* The blend of datasets of lengths `lens` when no weights are given.      *)
BlendOfLengths(lens, size) ==
    IF size = NoSize THEN ExhaustiveCounts(lens)
    ELSE BlendingCounts(lens, Min({size, SumOf(lens)}))

BlendOfWeights(w, size) == BlendingCounts(w, SumOf(Requested(w, size)))

(* build() counts the draws of the datasets that occur and compares them   *)
(* with the datasets in order, from the first.                             *)
BlendAccepted(lens, counts) ==
    LET occurring == SelectSeq(counts, LAMBDA n : n > 0)
    IN \A i \in DOMAIN occurring : occurring[i] <= lens[i]

----------------------------------------------------------------------------
(* Splits: bookends v[i] / SumOf(v) of the elements of each dataset.       *)

(* int(round(x / y)): halves go to the even neighbour.                     *)
Round(x, y) ==
    LET low == x \div y
        twice == 2 * (x % y)
    IN IF twice > y \/ (twice = y /\ low % 2 = 1) THEN low + 1 ELSE low

SplitRange(v, elements, i) ==
    LET before == SumOf(SubSeq(v, 1, i - 1))
    IN Round(before * elements, SumOf(v))
           .. Round((before + v[i]) * elements, SumOf(v)) - 1

----------------------------------------------------------------------------
(* What a blend promises.                                                  *)

WithinLengths(lens, state) ==
    \A k \in DOMAIN state : \A i \in DOMAIN lens : state[k].counts[i] <= lens[i]

(* No dataset is ever a whole sample ahead of its share.                   *)
NotAhead(w, state) ==
    \A k \in DOMAIN state \ {0} : \A i \in DOMAIN w :
        (state[k].counts[i] - 1) * SumOf(w) <= w[i] * (k - 1)

EachAtMostOnce(state) ==
    LET draws == IndicesOf(state)
    IN Cardinality(ToSet(draws)) = Len(draws)

BlendSound(lens, size) ==
    LET state == BlendOfLengths(lens, size)
        blended == BlendOfWeights(lens, size)
        length == Cardinality(DOMAIN state) - 1
    IN /\ WithinLengths(lens, state) /\ EachAtMostOnce(state)
       /\ length = (IF size = NoSize THEN SumOf(lens) ELSE Min({size, SumOf(lens)}))
       /\ (\A i \in DOMAIN lens : state[length].counts[i] > 0) =>
              BlendAccepted(lens, state[length].counts)
       /\ size # NoSize => /\ NotAhead(lens, state) /\ NotAhead(lens, blended)
                           /\ Cardinality(DOMAIN blended) > size

SplitsSound(v, elements) ==
    /\ UNION {SplitRange(v, elements, i) : i \in DOMAIN v} = 0 .. elements - 1
    /\ \A i, j \in DOMAIN v :
          i < j => SplitRange(v, elements, i) \cap SplitRange(v, elements, j) = {}
=============================================================================
