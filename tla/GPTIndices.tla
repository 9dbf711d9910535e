----------------------------- MODULE GPTIndices -----------------------------
(***************************************************************************)
(* GPTDataset (core/datasets/gpt_dataset.py) as mindspeed_llm builds it:   *)
(* which tokens are sample idx of a split.  The documents of the split are *)
(* laid end to end, epoch after epoch, and cut into samples; indices count *)
(* from 0 as they do in the code.                                          *)
(*                                                                         *)
(* c = [seq, extra, samples, drop, seed, pad] is sequence_length,          *)
(* add_extra_token_to_sequence as 0 or 1, num_samples or NoSamples,        *)
(* drop_last_partial_sequence, the random seed and _pad_token_id.          *)
(***************************************************************************)
EXTENDS IndexedDataset

(* RandomState(seed).shuffle: the n-th shuffle of a sequence.              *)
CONSTANT Shuffled(_, _, _)

NoSamples == -1

CeilDiv(a, b) == -((-a) \div b)

TokensPerEpoch(d, indices) ==
    FoldLeft(LAMBDA x, i : x + d.lengths[i + 1], 0, indices)

(* _get_num_epochs: the fewest epochs with enough tokens.                  *)
NumEpochs(c, epoch) ==
    IF c.samples = NoSamples THEN 1
    ELSE Max({1, CeilDiv(c.samples * c.seq + c.extra, epoch)})

SamplesIn(c, tokens) == (tokens - c.extra) \div c.seq

SansFinalEpoch(c, epoch) == SamplesIn(c, (NumEpochs(c, epoch) - 1) * epoch)

FromFinalEpoch(c, epoch) == c.samples - SansFinalEpoch(c, epoch)

EpochAssertions(c, epoch) ==
    NumEpochs(c, epoch) = 1
    \/ FromFinalEpoch(c, epoch) \in 0 .. SamplesIn(c, epoch) + 1

(* Fewer than 80% of the final epoch are used: shuffle it apart.           *)
SeparateFinalEpoch(c, epoch) ==
    /\ NumEpochs(c, epoch) > 1
    /\ FromFinalEpoch(c, epoch) < (80 * SamplesIn(c, epoch)) \div 100

Repeat(indices, epochs) ==
    [n \in 1 .. epochs * Len(indices) |-> indices[((n - 1) % Len(indices)) + 1]]

DocumentIndex(c, indices, epochs, separate) ==
    IF ~ separate THEN Shuffled(Repeat(indices, epochs), c.seed, 1)
    ELSE Shuffled(Repeat(indices, epochs - 1), c.seed, 1) \o Shuffled(indices, c.seed, 2)

----------------------------------------------------------------------------
(* build_sample_idx of helpers.cpp: a sample starts at document i of the   *)
(* document index and offset o, and ends where the next one starts.        *)

NumSamples(c, tokens) ==
    IF c.drop THEN SamplesIn(c, tokens) ELSE CeilDiv(tokens - c.extra, c.seq)

SizeAt(d, docs, i) == d.lengths[docs[i + 1] + 1]

(* The documents at which the tokens from <<i, o>> on are a full sample.   *)
FullAt(d, docs, c, from) ==
    {k \in from[1] .. Len(docs) - 1 :
        MapThenSumSet(LAMBDA i : SizeAt(d, docs, i), from[1] .. k) - from[2]
            >= c.seq + c.extra}

(* The extra token is the first one of the next sample: left out.          *)
MutSampleEnd(d, docs, c, from) ==
    LET k == Min(FullAt(d, docs, c, from) \cup {Len(docs) - 1})
        had == MapThenSumSet(LAMBDA i : SizeAt(d, docs, i), from[1] .. k) - from[2]
    IN <<k, SizeAt(d, docs, k) - Max({had - c.seq - c.extra, 0})>>

SampleEnd(d, docs, c, from) ==
    LET k == Min(FullAt(d, docs, c, from) \cup {Len(docs) - 1})
        had == MapThenSumSet(LAMBDA i : SizeAt(d, docs, i), from[1] .. k) - from[2]
    IN <<k, SizeAt(d, docs, k) - Max({had - c.seq - c.extra, 0}) - c.extra>>

SampleIndex(d, docs, c, n) ==
    LET start[j \in 0 .. n] ==
            IF j = 0 THEN <<0, 0>> ELSE SampleEnd(d, docs, c, start[j - 1])
    IN start

(* assert(sample_index == num_samples): only the last sample runs out.     *)
SampleAssertion(d, docs, c, sample) ==
    \A j \in DOMAIN sample :
        j + 1 \in DOMAIN sample /\ FullAt(d, docs, c, sample[j]) = {}
            => j + 2 \notin DOMAIN sample

----------------------------------------------------------------------------
(* _build_document_sample_shuffle_indices and __getitem__.                 *)

ShuffleIndex(c, first, total, draw) ==
    LET Count(a, b) == [n \in 1 .. b - a |-> a + n - 1]
    IN IF first = total THEN Shuffled(Count(0, total), c.seed, draw)
       ELSE Shuffled(Count(0, first), c.seed, draw)
                \o Shuffled(Count(first, total), c.seed, draw + 1)

BuildIndices(d, indices, c) ==
    LET epoch == TokensPerEpoch(d, indices)
        epochs == NumEpochs(c, epoch)
        separate == SeparateFinalEpoch(c, epoch)
        docs == DocumentIndex(c, indices, epochs, separate)
        n == NumSamples(c, epochs * epoch)
    IN [document |-> docs,
        sample |-> SampleIndex(d, docs, c, n),
        shuffle |-> IF separate THEN ShuffleIndex(c, SansFinalEpoch(c, epoch), n, 3)
                    ELSE ShuffleIndex(c, n, n, 2)]

(* The parts of sample j, put together and padded.                         *)
TextAt(d, x, c, j) ==
    LET beg == x.sample[j]
        end == x.sample[j + 1]
        Part(i) ==
            LET offset == IF i = beg[1] THEN beg[2] ELSE 0
            IN IF i < end[1] THEN GetFrom(d, x.document[i + 1], offset)
               ELSE Get(d, x.document[i + 1], offset, end[2] - offset + c.extra)
        text == FlattenSeq([n \in 1 .. end[1] - beg[1] + 1 |-> Part(beg[1] + n - 1)])
    IN text \o [n \in 1 .. c.seq + c.extra - Len(text) |-> c.pad]

TextOf(d, x, c, idx) == TextAt(d, x, c, x.shuffle[idx + 1])

TokensOf(c, text) == IF c.extra = 1 THEN Front(text) ELSE text

LabelsOf(c, text) == IF c.extra = 1 THEN Tail(text) ELSE Append(Tail(text), c.pad)

----------------------------------------------------------------------------
(* _get_ltor_masks_and_position_ids.  Positions are 1 .. Len(tokens) here; *)
(* the code counts from 0.                                                 *)

Ends(tokens, eod) == {i \in DOMAIN tokens : tokens[i] = eod}

(* Every later row loses all columns up to the end of the document.        *)
AttentionMask(tokens, eod, reset) ==
    [row, column \in DOMAIN tokens |->
        /\ column <= row
        /\ reset => \A i \in Ends(tokens, eod) : ~ (i < row /\ column <= i)]

(* Each end takes off the length of its document from all that follows.    *)
PositionIds(tokens, eod, reset) ==
    LET ends == Ends(tokens, eod)
        Length(i) == i - Max({k \in ends : k < i} \cup {0})
    IN [p \in DOMAIN tokens |->
           p - 1 - (IF reset THEN MapThenSumSet(Length, {i \in ends : i < p}) ELSE 0)]

LossMask(tokens, eod, eod_mask_loss) ==
    [p \in DOMAIN tokens |-> ~ (eod_mask_loss /\ tokens[p] = eod)]

(* o = [eod, positions, attention, eod_loss]: the options of the config.   *)
Cacheable(o) == ~ (o.positions \/ o.attention \/ o.eod_loss)

(* The loss mask that comes with the last of `texts`, read in this order   *)
(* by one process.  A cached mask is masked in place, for every reader.    *)
ItemLossMask(c, o, texts) ==
    LET mask == LossMask(TokensOf(c, Last(texts)), o.eod, o.eod_loss)
        masking == IF Cacheable(o) THEN DOMAIN texts ELSE {Len(texts)}
    IN [p \in DOMAIN mask |->
           mask[p] /\ \A n \in masking : LabelsOf(c, texts[n])[p] # c.pad]

----------------------------------------------------------------------------
(* What the indices promise.                                               *)

IsPermutationOf(s, S) == Len(s) = Cardinality(S) /\ ToSet(s) = S

(* The documents as they are laid end to end.                              *)
Stream(d, docs) == FlattenSeq([n \in DOMAIN docs |-> GetFrom(d, docs[n], 0)])

(* Every epoch has each document once, and a final epoch that is set apart *)
(* comes last in the documents and in the samples.                         *)
EpochsApart(c, indices, x, epoch) ==
    LET separate == SeparateFinalEpoch(c, epoch)
        final == Len(x.document) - Len(indices)
        early == IF separate THEN SansFinalEpoch(c, epoch) ELSE Len(x.shuffle)
    IN /\ \A i \in ToSet(indices) :
              Cardinality({n \in DOMAIN x.document : x.document[n] = i})
                  = NumEpochs(c, epoch)
       /\ separate =>
              IsPermutationOf(SubSeq(x.document, final + 1, Len(x.document)), ToSet(indices))
       /\ IsPermutationOf(SubSeq(x.shuffle, 1, early), 0 .. early - 1)
       /\ IsPermutationOf(x.shuffle, 0 .. Len(x.shuffle) - 1)

(* Sample j is its piece of the stream and the extra token: every token is *)
(* the label of one sample at most.                                        *)
PiecesOfStream(d, c, x) ==
    LET stream == Stream(d, x.document)
    IN \A j \in 0 .. Len(x.shuffle) - 1 :
          TextAt(d, x, c, j) =
              [p \in 1 .. c.seq + c.extra |->
                  IF j * c.seq + p \in DOMAIN stream THEN stream[j * c.seq + p]
                   ELSE c.pad]

(* A row attends to the earlier tokens of its own document, and positions  *)
(* count from its start.                                                   *)
MasksSound(tokens, eod) ==
    LET Start(p) == 1 + Max({i \in Ends(tokens, eod) : i < p} \cup {0})
    IN /\ \A row, column \in DOMAIN tokens :
             AttentionMask(tokens, eod, TRUE)[row, column]
                 <=> column \in Start(row) .. row
       /\ \A p \in DOMAIN tokens : PositionIds(tokens, eod, TRUE)[p] = p - Start(p)

(* The labels a sample leaves out of the loss: padding and, if so wanted,  *)
(* the one at the end of a document.                                       *)
LeavesOut(c, o, text, p) ==
    \/ LabelsOf(c, text)[p] = c.pad
    \/ o.eod_loss /\ TokensOf(c, text)[p] = o.eod

(* A sample trains all its labels but those it leaves out itself, and, with *)
(* a cached mask, those that padding of the sample before has masked in it. *)
LossSound(d, c, o, x) ==
    \A j, before \in 0 .. Len(x.shuffle) - 1 :
        LET text == TextAt(d, x, c, j)
            earlier == TextAt(d, x, c, before)
            mask == ItemLossMask(c, o, <<earlier, text>>)
        IN \A p \in 1 .. c.seq :
              mask[p] <=> /\ ~ LeavesOut(c, o, text, p)
                          /\ Cacheable(o) => ~ LeavesOut(c, o, earlier, p)

IndicesSound(d, indices, c) ==
    LET x == BuildIndices(d, indices, c)
        epoch == TokensPerEpoch(d, indices)
    IN /\ EpochAssertions(c, epoch)
       /\ SampleAssertion(d, x.document, c, x.sample)
       /\ c.samples # NoSamples => Len(x.shuffle) >= c.samples
       /\ c.drop \/ Len(x.shuffle) * c.seq + c.extra >= NumEpochs(c, epoch) * epoch
       /\ EpochsApart(c, indices, x, epoch)
       /\ PiecesOfStream(d, c, x)
=============================================================================
