----------------------------- MODULE TextGeneration -----------------------------
(***************************************************************************)
(* generate_tokens_probs_and_return_on_first_stage and                     *)
(* score_and_return_on_first_stage                                         *)
(* (megatron/inference/text_generation/generation.py) on every stage of a  *)
(* pipeline.  The last stage samples, the first one embeds what was        *)
(* sampled and answers, all of them leave the loop together.               *)
(*                                                                         *)
(* A log probability is the pair of what it was computed from: the prefix  *)
(* that the logits have seen, and the token that was looked up.            *)
(***************************************************************************)
EXTENDS InferencePipeline

CONSTANT Vocab   \* tokens that are sampled

VARIABLE
    answer   \* per stage: lengths, log_probs, finished rows

ToGenerate == conf.tokens_to_generate > 0   \* otherwise the prompts are scored

(* The tokens 198 and 628, an end of line and two of them.                 *)
Eol == "eol"
TwoEols == "two_eols"

(* Whether a token that was sampled for position p ends the row.           *)
Stops(row, p) ==
    CASE conf.stop = "double_eol" ->
            row[p] = TwoEols \/ (row[p] = Eol /\ p > 1 /\ row[p - 1] = Eol)
      [] conf.stop = "eol" -> row[p] \in {TwoEols, Eol}
      [] conf.stop = "eod" -> row[p] = Eod

(* The log probabilities of the tokens that follow the pass's positions.   *)
Gathered(s, tokens, probs) ==
    [b \in Batch |-> [p \in 1 .. MaxLen - 1 |->
        IF p \in s.prev + 1 .. s.context
        THEN <<s.logits[b][p - s.prev], tokens[b][p + 1]>> ELSE probs[b][p]]]

(* The last stage: rows whose prompt has ended take the sampled token.     *)
Started(b, s) == PromptLen(b) <= s.context
MutJustFinished(done, b) == done[b]
JustFinished(done, b) == done[b] /\ b \notin answer[LastStage].finished

Sample ==
    LET s == rank[LastStage]
    IN /\ ToGenerate /\ s.pc = "forwarded"
       /\ \E new_sample \in [Batch -> Vocab] :
            LET tokens == [b \in Batch |->
                             IF Started(b, s)
                             THEN [s.tokens[b] EXCEPT ![s.context + 1] = new_sample[b]]
                             ELSE s.tokens[b]]
                done == [b \in Batch |-> Started(b, s) /\ Stops(tokens[b], s.context + 1)]
            IN /\ rank' = [rank EXCEPT ![LastStage].tokens = tokens, ![LastStage].pc = "copy"]
               /\ answer' = [answer EXCEPT ![LastStage] =
                     [lengths |-> [b \in Batch |-> IF JustFinished(done, b) THEN s.context + 1
                                                   ELSE @.lengths[b]],
                      log_probs |-> IF conf.log_probs THEN Gathered(s, tokens, @.log_probs)
                                    ELSE @.log_probs,
                      finished |-> @.finished \cup {b \in Batch : done[b]}]]
       /\ UNCHANGED conf

(* The last stage scores the prompts.                                      *)
Score ==
    LET s == rank[LastStage]
    IN /\ ~ToGenerate /\ s.pc = "forwarded"
       /\ answer' = [answer EXCEPT ![LastStage].log_probs =
                       [b \in Batch |-> [p \in 1 .. MaxLen - 1 |->
                          <<s.logits[b][p], s.tokens[b][p + 1]>>]]]
       /\ rank' = [rank EXCEPT ![LastStage].pc = "log_probs"]
       /\ UNCHANGED conf

(* The other stages have no logits.                                        *)
NoLogits(r) ==
    /\ r # LastStage /\ rank[r].pc = "forwarded"
    /\ rank' = [rank EXCEPT ![r].pc = IF ToGenerate THEN "copy" ELSE "log_probs"]
    /\ UNCHANGED <<conf, answer>>

-----------------------------------------------------------------------------
After(op) ==
    CASE op = "copy" -> "done"
      [] op = "lengths" /\ conf.log_probs -> "log_probs"
      [] OTHER -> "returned"

Skip(r) ==
    /\ SkipsGroup(r)
    /\ rank' = [rank EXCEPT ![r].pc = After(@)]
    /\ UNCHANGED <<conf, answer>>

(* copy_from_last_to_first_pipeline_stage of the new column.               *)
MutCopied(r) == rank[r].tokens
Copied(r) ==
    IF r # FirstStage THEN rank[r].tokens
    ELSE [b \in Batch |-> [rank[r].tokens[b] EXCEPT ![rank[r].context + 1] =
                             rank[LastStage].tokens[b][rank[LastStage].context + 1]]]

CopyToFirst ==
    /\ Meet("copy")
    /\ rank' = [r \in Stage |->
                  IF r \in Group("copy")
                  THEN [rank[r] EXCEPT !.tokens = Copied(r), !.pc = After("copy")]
                  ELSE rank[r]]
    /\ UNCHANGED <<conf, answer>>

(* The end of a turn of the loop, when done has reached all stages.        *)
MutLeavesLoop(r) ==
    \/ conf.early_termination /\ r = LastStage /\ answer[LastStage].finished = Batch
    \/ rank[r].context + 1 = MaxLen
LeavesLoop(r) ==
    \/ conf.early_termination /\ answer[LastStage].finished = Batch
    \/ rank[r].context + 1 = MaxLen

BroadcastDone ==
    /\ Meet("done")
    /\ rank' = [r \in Stage |->
                  LET s == [rank[r] EXCEPT !.prev = rank[r].context]
                  IN IF LeavesLoop(r) THEN [s EXCEPT !.pc = "lengths"]
                     ELSE BeginMicroBatch(r, [s EXCEPT !.context = @ + 1])]
    /\ UNCHANGED <<conf, answer>>

ReturnLengths ==
    /\ Meet("lengths")
    /\ answer' = [answer EXCEPT ![FirstStage].lengths = answer[LastStage].lengths]
    /\ rank' = [r \in Stage |-> IF r \in Group("lengths")
                                THEN [rank[r] EXCEPT !.pc = After("lengths")] ELSE rank[r]]
    /\ UNCHANGED conf

(* After an early exit the last stage sends the first columns of log_probs, *)
(* which are not contiguous if there are several rows.                     *)
Contiguous ==
    ToGenerate => BatchSize = 1 \/ rank[LastStage].context + 1 = MaxLen

(* It stops at the assertion, and the first stage waits for the broadcast. *)
AssertContiguous ==
    /\ rank[LastStage].pc = "log_probs" /\ conf.pp > 1 /\ ~Contiguous
    /\ rank' = [rank EXCEPT ![LastStage].pc = "raised"]
    /\ UNCHANGED <<conf, answer>>

ReturnLogProbs ==
    /\ Meet("log_probs") /\ (conf.pp = 1 \/ Contiguous)
    /\ answer' = [answer EXCEPT ![FirstStage].log_probs = answer[LastStage].log_probs]
    /\ rank' = [r \in Stage |-> IF r \in Group("log_probs")
                                THEN [rank[r] EXCEPT !.pc = After("log_probs")] ELSE rank[r]]
    /\ UNCHANGED conf

-----------------------------------------------------------------------------
InitAnswer ==
    [r \in Stage |->
        [lengths |-> [b \in Batch |-> MaxLen], finished |-> {},
         log_probs |-> [b \in Batch |-> [p \in 1 .. MaxLen - 1 |-> <<>>]]]]

Generate ==
    \/ Forward /\ UNCHANGED <<conf, answer>>
    \/ Sample \/ Score \/ (\E r \in Stage : NoLogits(r) \/ Skip(r))
    \/ CopyToFirst \/ BroadcastDone \/ ReturnLengths \/ AssertContiguous \/ ReturnLogProbs

-----------------------------------------------------------------------------
(* The logits of the last position have seen the whole text of their row   *)
(* so far, on every stage, in its order and nothing else: caches, offsets, *)
(* microbatches and the copy to the first stage fit together               *)
(* (forward_step.py, attention.py).                                        *)
SamplesFromWholePrefix ==
    rank[LastStage].pc = "forwarded" =>
        \A b \in Batch :
            rank[LastStage].logits[b][SeqLen(rank[LastStage])] =
                SubSeq(rank[LastStage].tokens[b], 1, rank[LastStage].context)

(* The caller, on the first stage, gets what the pipeline generated: the   *)
(* prompt goes on with sampled tokens up to the first one that ends the    *)
(* row, every log probability is that of the token that follows, given     *)
(* all that precede it, and generation stops no later than it has to.      *)
(* Whether it gets anything is what Answers says.                          *)
AnswerIsWhatWasGenerated ==
    conf.task = "generate" /\ rank[FirstStage].pc = "returned" =>
        LET s == rank[FirstStage]
            text(b) == s.tokens[b]
            ends(b) == {p \in PromptLen(b) + 1 .. s.context + 1 : Stops(text(b), p)}
        IN /\ ToGenerate =>
                /\ \A b \in Batch :
                      /\ SubSeq(text(b), 1, PromptLen(b)) = conf.prompts[b]
                      /\ answer[FirstStage].lengths[b] =
                            IF ends(b) = {} THEN MaxLen ELSE Min(ends(b))
                /\ (\E b \in Batch : ends(b) = {}) => s.context + 1 = MaxLen
           /\ conf.log_probs =>
                LET predicted == 1 .. s.context - (IF ToGenerate THEN 0 ELSE 1)
                IN \A b \in Batch, p \in predicted :
                      answer[FirstStage].log_probs[b][p] =
                          <<SubSeq(text(b), 1, p), text(b)[p + 1]>>
=============================================================================
