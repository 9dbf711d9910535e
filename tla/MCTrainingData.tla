--------------------------- MODULE MCTrainingData ---------------------------
(***************************************************************************)
(* Small jobs: a ramp-up from 2 to 8 samples whose steps take two and more *)
(* iterations, a constant batch, and the random sampler with sharded and   *)
(* strided epochs of unequal shares; 2 and 4 ranks.                        *)
(***************************************************************************)
EXTENDS TrainingData, MoEDispatch, GPTIndices, DatasetBlend, DataPreprocess, FinalizeGrads

Constant(global) ==
    [rampup |-> FALSE, start |-> 0, increment |-> 0, ramp |-> 0, global |-> global]

RampUp(start, increment, ramp, global) ==
    [rampup |-> TRUE, start |-> start, increment |-> increment, ramp |-> ramp,
     global |-> global]

Data(type, sharding, total) == [type |-> type, sharding |-> sharding, total |-> total]

DefaultOrder == <<"tp", "cp", "ep", "dp", "pp">>   \* 'tp-cp-ep-dp-pp'
PpBeforeDp == <<"tp", "pp", "dp">>                 \* --use-tp-pp-dp-mapping

Job(b, s, samples, tp, pp, order, save_interval, sets) ==
    [b |-> b, s |-> s, samples |-> samples, tp |-> tp, pp |-> pp, cp |-> 1,
     ep |-> 1, order |-> order, save_interval |-> save_interval,
     shared |-> sets[1], prefixes |-> sets[2], splits |-> sets[3]]

MCJobs ==
    { Job(RampUp(2, 2, 9, 8), Data("single", FALSE, 39), 39, 1, 2, DefaultOrder, 3,
          <<TRUE, 2, 1>>),
      Job(RampUp(4, 4, 12, 8), Data("single", FALSE, 45), 45, 1, 1, DefaultOrder, 2,
          <<FALSE, 1, 2>>),
      Job(RampUp(2, 3, 6, 8), Data("single", FALSE, 30), 30, 1, 1, DefaultOrder, 2,
          <<TRUE, 1, 1>>),
      Job(Constant(4), Data("single", FALSE, 26), 26, 2, 1, PpBeforeDp, 2,
          <<FALSE, 2, 1>>),
      Job(Constant(4), Data("cyclic", TRUE, 11), 32, 1, 2, PpBeforeDp, 3,
          <<TRUE, 1, 2>>),
      Job(Constant(2), Data("cyclic", FALSE, 7), 22, 1, 2, DefaultOrder, 3,
          <<FALSE, 1, 1>>) }

MCLayouts == {[world |-> 2, mbs |-> 1, gpus |-> 2], [world |-> 4, mbs |-> 1, gpus |-> 2],
              [world |-> 2, mbs |-> 2, gpus |-> 1], [world |-> 3, mbs |-> 1, gpus |-> 3]}

(* Some permutation that differs between epochs.                           *)
MCRandPerm(n, epoch) ==
    [i \in 0 .. n - 1 |-> IF epoch % 2 = 0 THEN (i + epoch + 1) % n
                          ELSE n - 1 - ((i + epoch) % n)]

Shapes ==
    {p \in [world : {4, 6, 8, 12}, tp : 1 .. 3, pp : 1 .. 3, cp : 1 .. 2, ep : 1 .. 2] :
        p.tp * p.pp * p.cp <= p.world}

AtStart == phase = "down" /\ layout.world = 0 /\ job = CHOOSE j \in MCJobs : TRUE

(* Jobs whose gradients are finalized: world, tensor, pipeline and context *)
(* parallel sizes; sequence_parallel, qk_layernorm, fp8, tokens.           *)
FinalizeJobs ==
    {JobOf([vpp |-> s.vpp, tied |-> s.tied, sequence_parallel |-> s.mode[1],
            qk_layernorm |-> s.mode[2], fp8 |-> s.mode[3], tokens |-> s.mode[4]],
           Sizes(s.size[1], s.size[2], s.size[3], s.size[4], 1), s.order) :
        s \in {t \in [size : {<<2, 1, 2, 1>>, <<4, 2, 1, 2>>, <<6, 1, 3, 1>>, <<8, 2, 2, 1>>},
                      order : {DefaultOrder, PpBeforeDp}, vpp : 1 .. 2, tied : BOOLEAN,
                      mode : {<<FALSE, FALSE, FALSE, TRUE>>, <<TRUE, FALSE, FALSE, FALSE>>,
                              <<TRUE, TRUE, TRUE, FALSE>>, <<FALSE, TRUE, FALSE, TRUE>>}] :
                  (t.vpp > 1 => t.size[3] > 2) /\ (t.size[4] > 1 => t.order = DefaultOrder)}}

(* For every world and every sizes that initialize_model_parallel accepts, *)
(* with both of the orders initialize.py passes and two others: each kind  *)
(* of group divides the ranks, crossing kinds meet in one rank,            *)
(* model-parallel peers have one data-parallel rank, and the expert groups *)
(* with the data-modulo-expert groups make up the data-parallel ones       *)
(* (parallel_state.py).  On these groups finalize_model_grads leaves no    *)
(* rank waiting and every copy of a weight, tied ones too, with each       *)
(* rank's contribution once; tied copies start equal, and each part of a   *)
(* weight is in the gradient norm once.                                    *)
GroupsSound ==
    AtStart =>
     /\ \A w \in Shapes :
           \A order \in {DefaultOrder, PpBeforeDp, <<"pp", "dp", "ep", "tp">>,
                         <<"cp", "tp", "dp", "pp">>} :
              LET p == Sizes(w.world, w.tp, w.pp, w.cp, w.ep)
              IN Accepted(w.world, p, order) => IsSoundGrouping(w.world, p, order)
     /\ \A c \in {d \in FinalizeJobs : ~ FinalizeRaises(d)} :
           TiedCopiesStartEqual(c) /\ GradsFinal(c) /\ NormCountsOnce(c)
(* Layouts of expert layers: world size, tensor and expert parallel size.  *)
MoELayouts ==
    {MoELayout(w[1], Sizes(w[1], w[2], 1, 1, w[3]), order) :
        w \in {<<1, 1, 1>>, <<2, 2, 1>>, <<2, 1, 2>>, <<4, 2, 2>>, <<4, 1, 4>>, <<4, 1, 2>>},
        order \in {DefaultOrder, <<"pp", "dp", "ep", "tp">>}}

MoEConfig(topk, extended, capacity, pad, policy) ==
    [experts |-> 4, topk |-> topk, extended |-> extended, capacity |-> capacity,
     pad |-> pad, policy |-> policy, tokens |-> 2]

(* Gates that send all tokens to the same experts, that spread them, and   *)
(* that prefer the last experts.                                           *)
Gates(l) ==
    LET Tokens2 == {<<r, i>> : r \in l.ranks, i \in 1 .. 2}
    IN {[x \in Tokens2 |-> [e \in 0 .. 3 |-> (e + 1) * (x[1] + x[2])]],
        [x \in Tokens2 |-> [e \in 0 .. 3 |-> (e + x[1] + 2 * x[2]) % 4]],
        [x \in Tokens2 |-> [e \in 0 .. 3 |-> (3 * e + x[1] * x[2]) % 5]]}

(* Every token gets back what its experts made of it, weighted, in its own *)
(* place, on every layout of ranks, by either dispatcher, without and with *)
(* capacity, dropping or padding; ranks agree on the rows they exchange    *)
(* (token_dispatcher.py).                                                  *)
TokensReturn ==
    AtStart =>
        \A l \in MoELayouts : \A gate \in Gates(l) :
          /\ \A topk \in 1 .. 2, extended \in BOOLEAN :
                AllGatherSound(l, MoEConfig(topk, extended, 0, FALSE, "probs"), gate)
          /\ \A topk \in 1 .. 2, capacity \in 0 .. 2, policy \in {"probs", "position"} :
                \A pad \in IF capacity > 0 THEN BOOLEAN ELSE {FALSE} :
                  AlltoAllSound(l, MoEConfig(topk, FALSE, capacity, pad, policy), gate)

----------------------------------------------------------------------------
(* Datasets.  Some shuffle that differs between draws.                     *)
MCShuffled(s, seed, n) ==
    [i \in DOMAIN s |-> IF (seed + n) % 2 = 0 THEN s[Len(s) + 1 - i]
                        ELSE s[(i % Len(s)) + 1]]

Eod == <<"eod">>

(* Document k of a corpus, tokenized with an end-of-document token.        *)
Document(k, length) == [p \in 1 .. length |-> IF p = length THEN Eod ELSE <<k, p>>]

(* Documents first .. last, built from lists or from tensors.              *)
BuiltFrom(lengths, first, last, lists) ==
    Finalize(FoldLeft(LAMBDA b, k : EndDocument(IF lists THEN AddList(b, Document(k, lengths[k]))
                                                ELSE AddTensor(b, Document(k, lengths[k]))),
                      NewBuilder, [n \in 1 .. last - first + 1 |-> first + n - 1]))

(* The corpus in one piece, and merged of two as merge_datasets does.      *)
Corpora(lengths) ==
    LET half == Len(lengths) \div 2
        Whole(lists) == BuiltFrom(lengths, 1, Len(lengths), lists)
        Merged == Finalize(AddIndex(AddIndex(NewBuilder, BuiltFrom(lengths, 1, half, TRUE)),
                                    BuiltFrom(lengths, half + 1, Len(lengths), FALSE)))
    IN {Whole(TRUE), Whole(FALSE), Merged}

GPTConfigs ==
    [seq : 2 .. 4, extra : 0 .. 1, samples : {NoSamples, 1, 2, 4, 7, 9}, drop : BOOLEAN,
     seed : {1}, pad : {Eod, <<"pad">>}]

Options(eod_loss, resets) ==
    [eod |-> Eod, positions |-> resets, attention |-> resets, eod_loss |-> eod_loss]

(* However a corpus was written, buffered or merged, every token is read   *)
(* as the label of one sample an epoch at most and in the order of its     *)
(* document, there are as many samples as were asked for, a final epoch    *)
(* of which little is used stays apart, padding alone is left out of the   *)
(* loss, a sample's own or, in a cached mask, that of an earlier sample,   *)
(* and masks keep documents apart (gpt_dataset.py, helpers.cpp,            *)
(* indexed_dataset.py).  Splits share no element, and a blend by lengths   *)
(* reads no sample twice and none that is not there, with no dataset a     *)
(* whole sample ahead of its share (blended_megatron_dataset_builder.py).  *)
TextReadOnce ==
    AtStart =>
        /\ \A lengths \in {<<3>>, <<2, 5>>, <<1, 4, 2>>, <<6, 1, 1, 2>>} :
              \A d \in Corpora(lengths), c \in GPTConfigs :
                 LET indices == [n \in DOMAIN lengths |-> n - 1]
                 IN Readable(d) /\ IndicesSound(d, indices, c)
        /\ \A c \in GPTConfigs, eod_loss, resets \in BOOLEAN :
              c.samples = 4 =>
                 LET d == BuiltFrom(<<2, 3, 2>>, 1, 3, TRUE)
                 IN LossSound(d, c, Options(eod_loss, resets), BuildIndices(d, <<0, 1, 2>>, c))
        /\ \A tokens \in [1 .. 5 -> {Eod, <<0, 1>>}] : MasksSound(tokens, Eod)
        /\ \A lens \in [1 .. 3 -> {1, 2, 5}] \cup [1 .. 2 -> 1 .. 4] :
              \A size \in {NoSize, 1, 4, 7, 12} : BlendSound(lens, size)
        /\ \A v \in [1 .. 3 -> {0, 1, 3, 5}], elements \in {0, 1, 4, 7, 9} :
              SumOf(v) > 0 => SplitsSound(v, elements)

Keys == {"chosen_input_ids", "rejected_input_ids"}

(* Sentences of the given lengths; every other rejected one has a token    *)
(* more.                                                                   *)
DocumentsOf(shapes) ==
    [n \in DOMAIN shapes |->
        [key \in Keys |->
            [k \in DOMAIN shapes[n] |->
                LET more == IF key = "rejected_input_ids" THEN k % 2 ELSE 0
                IN [p \in 1 .. shapes[n][k] + more |-> <<key, n, k, p>>]]]]

Item(source, target) ==
    [input_ids |-> [p \in 1 .. source + target |-> <<0, p>>],
     labels |-> [p \in 1 .. source + target |-> IF p <= source THEN Ignore ELSE <<0, p>>]]

(* Preparing data loses and mixes nothing: the datasets of all keys keep   *)
(* the same sentences, also when they are written in subsets and merged; a *)
(* packed row holds its samples whole, each sample in one row, labels on   *)
(* the tokens they belong to; packing ends unless a sample is exactly      *)
(* seq_length long; a sample that fits is read whole (preprocess_data.py,  *)
(* data_handler.py, utils.py, decoder_packed_mtf_dataset.py).              *)
PreparedSamplesWhole ==
    AtStart =>
        /\ \A n \in 1 .. 4 : \A shapes \in [1 .. n -> {<< >>, <<4>>, <<3, 2>>, <<5, 1, 2>>}] :
              \A n_subs \in 1 .. n : SerializedSound(DocumentsOf(shapes), Keys, 4, n_subs)
        /\ \A lengths \in [1 .. 4 -> 1 .. 6] :
              PackedSound([i \in 1 .. 4 |-> [p \in 1 .. lengths[i] |-> <<i, p>>]], 5)
        /\ \A source \in 0 .. 7, target \in 1 .. 7, seq \in 1 .. 12 :
              CutSound(Item(source, target), seq)
=============================================================================
