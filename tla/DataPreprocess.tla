--------------------------- MODULE DataPreprocess ---------------------------
(***************************************************************************)
(* From tokenized documents to the datasets of post-training: serialising, *)
(* in subsets that are merged again (preprocess_data.py), or packed        *)
(* (preprocess/data_handler.py, utils.py), and the cut a sample gets when  *)
(* it is read (decoder_packed_mtf_dataset.py).                             *)
(*                                                                         *)
(* A document maps each of args.json_keys to a sequence of sentences, a    *)
(* sentence is a sequence of tokens; `seq` is args.seq_length.             *)
(***************************************************************************)
EXTENDS IndexedDataset, FiniteSets

Ignore == <<"ignored">>         \* -100 in labels
PadId == <<"pad">>

----------------------------------------------------------------------------
(* The first of the keys decides.                                          *)
MutSkipped(doc, keys, seq) ==
    LET key == CHOOSE key \in keys : TRUE
    IN {k \in DOMAIN doc[key] : Len(doc[key][k]) >= seq}

(* _serialize_to_disk: a sentence too long under any key is left out under *)
(* all.  A document is empty under all keys or none: the code numbers the  *)
(* documents of a batch without those empty under the key.                 *)
Skipped(doc, keys, seq) ==
    {k \in 1 .. Max({0} \cup {Len(doc[key]) : key \in keys}) :
        \E key \in keys : k <= Len(doc[key]) /\ Len(doc[key][k]) >= seq}

AddDocument(b, doc, key, keys, seq) ==
    LET skip == Skipped(doc, keys, seq)
        kept == [n \in 1 .. Len(doc[key]) |-> IF n \in skip THEN << >> ELSE <<doc[key][n]>>]
    IN EndDocument(FoldLeft(AddList, b, FlattenSeq(kept)))

Serialized(docs, key, keys, seq) ==
    Finalize(FoldLeft(LAMBDA b, doc : AddDocument(b, doc, key, keys, seq), NewBuilder,
                      SelectSeq(docs, LAMBDA doc : doc[key] # << >>)))

(* cut_range_to_subs: documents a + 1 .. b for each pair.                  *)
Subsets(n, gap) ==
    [k \in 1 .. -((-n) \div gap) |-> <<(k - 1) * gap, Min({k * gap, n})>>]

(* main with n_subs > 1: the datasets of the subsets one after another.    *)
SerializedInSubsets(docs, key, keys, seq, n_subs) ==
    LET subs == Subsets(Len(docs), Len(docs) \div n_subs)
        Part(s) == Serialized(SubSeq(docs, s[1] + 1, s[2]), key, keys, seq)
    IN Finalize(FoldLeft(LAMBDA b, s : AddIndex(b, Part(s)), NewBuilder, subs))

----------------------------------------------------------------------------
(* greedy_knapsack.  `numbers` is sorted; a knapsack that gets nothing is  *)
(* closed too, so one that fits in none keeps the loop going for ever.     *)

Fit(numbers, capacity) == {i \in DOMAIN numbers : numbers[i] <= capacity}

(* One turn of the inner loop.                                             *)
Turn(x, capacity) ==
    LET fit == Fit(x.numbers, x.room)
    IN IF fit # {}
       THEN [x EXCEPT !.numbers = RemoveAt(@, Max(fit)),
                      !.room = @ - x.numbers[Max(fit)],
                      !.current = Append(@, x.numbers[Max(fit)])]
       ELSE [x EXCEPT !.sacks = Append(@, x.current), !.current = << >>, !.room = capacity]

(* Each turn takes a number or closes a knapsack with one at least.        *)
Knapsacks(lengths, capacity) ==
    LET start == [numbers |-> SortSeq(lengths, <), room |-> capacity,
                  current |-> << >>, sacks |-> << >>]
        after[n \in 0 .. 2 * Len(lengths)] ==
            IF n = 0 THEN start
            ELSE IF after[n - 1].numbers = << >> /\ after[n - 1].current = << >>
                 THEN after[n - 1] ELSE Turn(after[n - 1], capacity)
    IN after[2 * Len(lengths)]

(* _pack_serialize_to_disk: the samples of a knapsack, from the last one   *)
(* of each length on.                                                      *)
Valid(samples, seq) == SelectSeq(samples, LAMBDA s : Len(s) <= seq)

SamplesOfSacks(samples, sacks) ==
    LET flat == FlattenSeq(sacks)
        Nth(n) == Cardinality({m \in 1 .. n : flat[m] = flat[n]})
        OfLength(length) == {i \in DOMAIN samples : Len(samples[i]) = length}
        Take(n) == CHOOSE i \in OfLength(flat[n]) :
                      Cardinality({j \in OfLength(flat[n]) : j >= i}) = Nth(n)
        Before(k) == SumTo([m \in DOMAIN sacks |-> Len(sacks[m])], k - 1)
    IN [k \in DOMAIN sacks |-> [n \in DOMAIN sacks[k] |-> Take(Before(k) + n)]]

KeyData(sample, key) ==
    IF key = "attention_mask" THEN [p \in DOMAIN sample |-> 1] ELSE sample

Filler(key) ==
    CASE key = "attention_mask" -> 1 [] key = "labels" -> Ignore [] OTHER -> PadId

(* The rows of one key: Knapsacks with room for one token of padding.      *)
PackedRows(samples, key, seq) ==
    LET valid == Valid(samples, seq)
        sacks == Knapsacks([i \in DOMAIN valid |-> Len(valid[i])], seq - 1).sacks
        taken == SamplesOfSacks(valid, sacks)
        Text(k) == FlattenSeq([n \in DOMAIN taken[k] |-> KeyData(valid[taken[k][n]], key)])
    IN [k \in DOMAIN sacks |->
           Text(k) \o [p \in 1 .. seq - Len(Text(k)) |-> Filler(key)]]

PackEnds(samples, seq) ==
    LET valid == Valid(samples, seq)
        last == Knapsacks([i \in DOMAIN valid |-> Len(valid[i])], seq - 1)
    IN last.numbers = << >> /\ last.current = << >>

----------------------------------------------------------------------------
(* Reading.  An item has a prompt, labelled Ignore, and an answer.         *)

(* _infer_seqlen.  The code divides in floating point.                     *)
InferSeqlen(source, target, cutoff) ==
    LET max_target == IF target * 2 < cutoff THEN cutoff
                      ELSE IF source * 2 < cutoff THEN cutoff - source
                      ELSE (cutoff * target) \div (source + target)
        new_target == Min({max_target, target})
    IN <<Min({Max({cutoff - new_target, 0}), source}), new_target>>

PromptLength(labels) == Min({p \in DOMAIN labels : labels[p] # Ignore}) - 1

(* _cut_instruction_token and, for each answer, _cut_pairwise_token.       *)
CutItem(item, longest, seq) ==
    LET prompt == PromptLength(item.labels)
        cut == InferSeqlen(prompt, longest, seq)
        answer == SubSeq(item.labels, prompt + 1, prompt + cut[2])
    IN [input_ids |-> SubSeq(item.input_ids, 1, cut[1]) \o answer,
        labels |-> [p \in 1 .. cut[1] |-> Ignore] \o answer]

----------------------------------------------------------------------------
(* What the prepared data promises.                                        *)

(* A document has the same number of sentences under all keys.  The n-th   *)
(* sequence is the same sentence of the same document under all of them,   *)
(* those short enough under all are kept, and subsets change nothing.      *)
SerializedSound(docs, keys, seq, n_subs) ==
    LET d == [key \in keys |-> Serialized(docs, key, keys, seq)]
        Sentences(j) == 1 .. Max({Len(docs[j][key]) : key \in keys})
        short == UNION {{<<j, k>> : k \in {n \in Sentences(j) :
                                              \A key \in keys : Len(docs[j][key][n]) < seq}} :
                           j \in DOMAIN docs}
    IN /\ \A key, other \in keys :
             /\ Readable(d[key]) /\ Len(d[key].lengths) = Cardinality(short)
             /\ d[key].documents = d[other].documents
             /\ SerializedInSubsets(docs, key, keys, seq, n_subs) = d[key]
       /\ \A n \in 1 .. Cardinality(short) :
             \E x \in short : \A key \in keys :
                GetFrom(d[key], n - 1, 0) = docs[x[1]][key][x[2]]

(* Tokens are <<sample, place>>.  Every valid sample is in one row, whole  *)
(* and in order; the keys agree, place by place; and no row has room for a *)
(* sample of a later one.  Packing ends unless a sample is as long as seq. *)
PackedSound(samples, seq) ==
    LET valid == Valid(samples, seq)
        ids == PackedRows(samples, "input_ids", seq)
        labels == PackedRows(samples, "labels", seq)
        mask == PackedRows(samples, "attention_mask", seq)
        Places(t) == {<<k, p>> \in (DOMAIN ids) \X (1 .. seq) : ids[k][p] = t}
        Room(k) == Cardinality({p \in 1 .. seq : ids[k][p] = PadId})
        LengthOf(t) == Len(CHOOSE s \in ToSet(valid) : t \in ToSet(s))
    IN /\ PackEnds(samples, seq) <=> \A i \in DOMAIN valid : Len(valid[i]) # seq
       /\ PackEnds(samples, seq) =>
          /\ \A k \in DOMAIN ids :
                /\ Len(ids[k]) = seq /\ Len(labels[k]) = seq /\ Len(mask[k]) = seq
                /\ ids[k][seq] = PadId
                /\ \A p \in 1 .. seq :
                      labels[k][p] = (IF ids[k][p] = PadId THEN Ignore ELSE ids[k][p])
          /\ \A s \in ToSet(valid) :
                \E k \in DOMAIN ids, p \in 0 .. seq :
                   \A n \in DOMAIN s : Places(s[n]) = {<<k, p + n>>}
          /\ \A k, l \in DOMAIN ids : k < l =>
                \A p \in 1 .. seq : ids[l][p] # PadId => LengthOf(ids[l][p]) > Room(k) - 1

(* An item that fits is read whole; one that does not fills the sequence   *)
(* with the start of its prompt and the start of its answer.               *)
CutSound(item, seq) ==
    LET prompt == PromptLength(item.labels)
        length == Len(item.labels)
        cut == CutItem(item, length - prompt, seq)
        kept == Cardinality({p \in DOMAIN cut.labels : cut.labels[p] = Ignore})
    IN /\ Len(cut.labels) = Min({seq, length}) /\ Len(cut.input_ids) = Len(cut.labels)
       /\ length <= seq => cut = item
       /\ \A p \in DOMAIN cut.input_ids :
             IF p <= kept
             THEN cut.labels[p] = Ignore /\ cut.input_ids[p] = item.input_ids[p]
             ELSE /\ cut.labels[p] = cut.input_ids[p]
                  /\ cut.input_ids[p] = item.labels[prompt + p - kept]
=============================================================================
