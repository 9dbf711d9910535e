--------------------------- MODULE InferencePipeline ---------------------------
(***************************************************************************)
(* Forward passes of inference on the stages of a pipeline                 *)
(* (megatron/inference/text_generation/forward_step.py, communication.py), *)
(* with the caches of keys and values (core/inference_params.py,           *)
(* core/transformer/attention.py) that let a pass process only the tokens  *)
(* that are new.                                                           *)
(*                                                                         *)
(* A batch of prompts is one sequence of tokens per row.  The hidden state *)
(* of a position is the sequence of tokens it has seen: the prefix of its  *)
(* row if every stage attends to the right keys, and Garbled if some stage *)
(* combines it with a cached key of another prefix, attends to later keys  *)
(* or takes the position of another token.                                 *)
(*                                                                         *)
(* rank[r] holds the local variables of stage r.  A send waits for its     *)
(* receive, as operations of NCCL do.                                      *)
(***************************************************************************)
EXTENDS Integers, Sequences, SequencesExt, FiniteSetsExt

VARIABLES
    conf,   \* stages, threshold of pipelining, prompts, number of tokens to generate
    rank

Stage == 0 .. conf.pp - 1
FirstStage == 0
LastStage == conf.pp - 1

Batch == DOMAIN conf.prompts
BatchSize == Len(conf.prompts)
PromptLen(b) == Len(conf.prompts[b])
MaxLen == Max({PromptLen(b) : b \in Batch}) + conf.tokens_to_generate

Eod == "eod"
Garbled == <<>>     \* also what memory holds before it is written

(* Prompts are padded to one length.                                       *)
PaddedPrompts ==
    [b \in Batch |->
        [p \in 1 .. MaxLen |-> IF p <= PromptLen(b) THEN conf.prompts[b][p] ELSE Eod]]

-----------------------------------------------------------------------------
(* The microbatches of a pass over positions prev + 1 to context.          *)

SeqLen(s) == s.context - s.prev

IsPipelined(s) == conf.pp > 1 /\ BatchSize * SeqLen(s) >= conf.threshold

MicroBatchSize(s) ==
    IF IsPipelined(s) THEN Max({1, conf.threshold \div SeqLen(s)}) ELSE BatchSize

NumMicroBatches(s) == (BatchSize + MicroBatchSize(s) - 1) \div MicroBatchSize(s)

Start(s) == s.mb * MicroBatchSize(s)
ThisMicroBatchSize(s) == Min({MicroBatchSize(s), BatchSize - Start(s)})

(* The buffer for full microbatches is not used for a smaller last one.    *)
MutRecvBufferRows(s) == MicroBatchSize(s)
RecvBufferRows(s) ==
    IF ThisMicroBatchSize(s) # MicroBatchSize(s) THEN ThisMicroBatchSize(s)
    ELSE MicroBatchSize(s)

BeginMicroBatch(r, s) == [s EXCEPT !.pc = IF r = FirstStage THEN "compute" ELSE "recv"]

(* After a microbatch its rows are skipped, after the last one its columns. *)
EndMicroBatch(r, s) ==
    IF s.mb + 1 < NumMicroBatches(s)
    THEN BeginMicroBatch(r, [s EXCEPT !.mb = @ + 1,
                                      !.batch_size_offset = @ + ThisMicroBatchSize(s)])
    ELSE [s EXCEPT !.mb = 0, !.pc = "forwarded", !.batch_size_offset = 0,
                   !.sequence_len_offset = @ + SeqLen(s)]

-----------------------------------------------------------------------------
(* The layers of a stage.                                                  *)

(* What enters: tokens on the first stage, else what was received.         *)
Input(r, s, i, j) ==
    IF r = FirstStage THEN <<s.tokens[Start(s) + i][s.prev + j]>> ELSE s.recv_buffer[i][j]

WrittenCache(r, s) ==
    [b \in Batch |-> [p \in 1 .. MaxLen |->
        LET i == b - s.batch_size_offset
            j == p - s.sequence_len_offset
        IN IF i \in 1 .. ThisMicroBatchSize(s) /\ j \in 1 .. SeqLen(s)
           THEN Input(r, s, i, j) ELSE s.cache[b][p]]]

(* The prefix that attention from position p sees in a row of the cache.   *)
Prefix(r, row, p) ==
    IF r = FirstStage
    THEN IF \E q \in 1 .. p : row[q] = Garbled THEN Garbled ELSE FlattenSeq(SubSeq(row, 1, p))
    ELSE IF \A q \in 1 .. p : row[q] = SubSeq(row[p], 1, q) THEN row[p] ELSE Garbled

(* Once a layer has its cache, it uses the rotary embedding of the last    *)
(* position for all queries and no causal mask: only the last query of a   *)
(* pass has the right position, and attends only to keys before it.        *)
QueryIsRight(s, j) == ~s.allocated \/ j = SeqLen(s)

CacheAsserts(s) ==
    /\ s.batch_size_offset + ThisMicroBatchSize(s) <= BatchSize
    /\ s.sequence_len_offset + SeqLen(s) <= MaxLen

Output(r, s, cache) ==
    [i \in 1 .. ThisMicroBatchSize(s) |-> [j \in 1 .. SeqLen(s) |->
        IF QueryIsRight(s, j)
        THEN Prefix(r, cache[s.batch_size_offset + i], s.sequence_len_offset + j)
        ELSE Garbled]]

-----------------------------------------------------------------------------
InitRank(context) ==
    [r \in Stage |->
        BeginMicroBatch(r,
          [pc |-> "recv", mb |-> 0, prev |-> 0, context |-> context, tokens |-> PaddedPrompts,
           batch_size_offset |-> 0, sequence_len_offset |-> 0, allocated |-> FALSE,
           cache |-> [b \in Batch |-> [p \in 1 .. MaxLen |-> Garbled]],
           recv_buffer |-> <<>>, output |-> <<>>, logits |-> <<>>])]

(* model(...) on a microbatch; the last stage copies the logits to the     *)
(* rows of the batch.                                                      *)
Compute(r) ==
    LET s == rank[r]
        cache == WrittenCache(r, s)
        output == Output(r, s, cache)
        t == [s EXCEPT !.cache = cache, !.allocated = TRUE]
        computed ==
          IF r = LastStage
          THEN EndMicroBatch(r, [t EXCEPT !.logits = (IF s.mb = 0 THEN <<>> ELSE @) \o output])
          ELSE [t EXCEPT !.output = output, !.pc = "send"]
    IN /\ s.pc = "compute"
       /\ rank' = [rank EXCEPT ![r] = IF CacheAsserts(s) THEN computed
                                      ELSE [s EXCEPT !.pc = "failed"]]

SizesMatch(r) == Len(rank[r].output) = RecvBufferRows(rank[r + 1])

(* A send and its receive complete.                                        *)
Transfer(r) ==
    /\ r # LastStage
    /\ rank[r].pc = "send" /\ rank[r + 1].pc = "recv" /\ SizesMatch(r)
    /\ rank' = [rank EXCEPT ![r] = EndMicroBatch(r, @),
                            ![r + 1].recv_buffer = rank[r].output,
                            ![r + 1].pc = "compute"]

-----------------------------------------------------------------------------
(* Collectives: all stages take part in a broadcast over the pipeline      *)
(* group, the first and last one in those over the embedding group.        *)

EmbeddingOps == {"copy", "lengths", "log_probs", "scores", "tokens"}
PipelineOps == {"done", "best_batches", "scores_size", "tokens_size"}

Group(op) == IF op \in EmbeddingOps THEN {FirstStage, LastStage} ELSE Stage

Meet(op) == \A r \in Group(op) : rank[r].pc = op

(* A stage between first and last has nothing to do for a broadcast of the *)
(* embedding group and goes on.                                            *)
SkipsGroup(r) == rank[r].pc \in EmbeddingOps /\ r \notin Group(rank[r].pc)

(* Collectives of a group are paired in the order in which its members     *)
(* issue them: they must be the same call with the same sizes.             *)
Agree(ops) ==
    \A r1, r2 \in Stage :
        /\ rank[r1].pc \in ops /\ rank[r2].pc \in ops
        /\ {r1, r2} \subseteq Group(rank[r1].pc)
        => rank[r1].pc = rank[r2].pc /\ rank[r1].context = rank[r2].context

Forward == \E r \in Stage : Compute(r) \/ Transfer(r)

Returned == \A r \in Stage : rank[r].pc = "returned"

(* Stages that wait for one another wait in the same call, with the same   *)
(* sizes (communication.py), and no assertion about a cache fails.         *)
CollectivesMatch ==
    /\ \A r \in Stage \ {LastStage} :
          rank[r].pc = "send" /\ rank[r + 1].pc = "recv" => SizesMatch(r)
    /\ Agree(EmbeddingOps) /\ Agree(PipelineOps)
    /\ \A r \in Stage : rank[r].pc # "failed"
=============================================================================
