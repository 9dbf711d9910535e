------------------------------- MODULE BeamSearch -------------------------------
(***************************************************************************)
(* beam_search_and_return_on_first_stage                                   *)
(* (megatron/inference/text_generation/generation.py, beam_utils.py) on    *)
(* every stage of a pipeline: the rows of the batch are the open beams.    *)
(* When beams change places the last stage reorders their tokens, the      *)
(* first stage gets the new tokens, and every stage reorders its caches.   *)
(*                                                                         *)
(* Scores are integers.  A length penalty is 0 or 1; to divide by a length *)
(* scores are multiplied by Scale, a multiple of every length.             *)
(***************************************************************************)
EXTENDS InferencePipeline

CONSTANTS
    Words,                   \* the vocabulary, a sequence
    LogProb(_, _, _)         \* of a model, after a prefix, for a word

VARIABLE beam    \* the search on the last stage, and what the first one returns

BeamSize == BatchSize
PromptLength == PromptLen(1)
Scale == 6
Infinity == 1000000

(* Best first; equal scores in the order of their indices.                 *)
Sorted(scored) == SortSeq(scored, LAMBDA x, y : x.score > y.score)

-----------------------------------------------------------------------------
(* BeamHypotheses.                                                         *)

Normalized(sum, length) == IF conf.length_penalty = 0 THEN sum ELSE (sum * Scale) \div length

(* The position of the hypothesis that gives way to a better one.          *)
Dropped(more) ==
    CHOOSE i \in DOMAIN more :
        \A k \in DOMAIN more : more[i].score < more[k].score
                               \/ (more[i].score = more[k].score /\ i <= k)

Add(h, text, sum, length) ==
    LET hyp == [score |-> Normalized(sum, length), text |-> text]
        more == Append(h.beams, hyp)
        kept == RemoveAt(more, Dropped(more))
        offered == [h EXCEPT !.offered = @ \cup {hyp}]
    IN IF Len(h.beams) < BeamSize
       THEN [offered EXCEPT !.beams = more, !.worst_score = Min({hyp.score, @})]
       ELSE IF hyp.score > h.worst_score
       THEN [offered EXCEPT !.beams = kept,
                            !.worst_score = Min({kept[i].score : i \in DOMAIN kept})]
       ELSE offered

(* best_scores.max().                                                      *)
BestSum(best) == best[1].score

IsDone(h, best_sum, length) ==
    Len(h.beams) = BeamSize /\ h.worst_score >= Normalized(best_sum, length)

-----------------------------------------------------------------------------
(* One turn of the loop on the last stage.                                 *)

(* In the first turn all rows are the prompt; only the first one counts.   *)
Candidates(s) ==
    LET rows == IF s.context = PromptLength THEN <<1>> ELSE [b \in Batch |-> b]
        words == Len(Words)
    IN [i \in 1 .. Len(rows) * words |->
          LET b == rows[((i - 1) \div words) + 1]
              word == Words[((i - 1) % words) + 1]
          IN [beam |-> b, word |-> word,
              score |-> beam.scores[b] + LogProb(conf.model, s.logits[b][SeqLen(s)], word)]]

BestCandidates(s) ==
    LET sorted == Sorted(Candidates(s))
    IN SubSeq(sorted, 1, Min({2 * BeamSize, Len(sorted)}))

(* A stop token closes a hypothesis unless it is not among the best        *)
(* beam_size; other words make the next beams, until there are enough.     *)
Consider(s, best) ==
    LET Step(h, i) ==
          IF Len(h.next) = BeamSize THEN h
          ELSE IF best[i].word # Eod THEN [h EXCEPT !.next = Append(@, best[i])]
          ELSE IF i > BeamSize THEN h
          ELSE Add(h, s.tokens[best[i].beam], best[i].score, s.context + 1 - PromptLength)
    IN FoldLeft(Step, [beam EXCEPT !.next = <<>>], [i \in DOMAIN best |-> i])

(* h is the search after this turn.                                        *)
Search ==
    LET s == rank[LastStage]
    IN /\ s.pc = "forwarded"
       /\ \E best \in {BestCandidates(s)} : \E h \in {Consider(s, best)} :
            /\ beam' = [h EXCEPT !.done = IsDone(h, BestSum(best), s.context + 1 - PromptLength),
                                 !.scores = [b \in Batch |-> h.next[b].score]]
            /\ rank' = [rank EXCEPT ![LastStage].pc = "done",
                          ![LastStage].tokens = [b \in Batch |->
                              [@[h.next[b].beam] EXCEPT ![s.context + 1] = h.next[b].word]]]
       /\ UNCHANGED conf

NoBeams(r) ==
    /\ r # LastStage /\ rank[r].pc = "forwarded"
    /\ rank' = [rank EXCEPT ![r].pc = "done"]
    /\ UNCHANGED <<conf, beam>>

-----------------------------------------------------------------------------
AfterLoop(r) == IF r = LastStage THEN "rank_hypotheses" ELSE "scores_size"

BeamAfter(op) ==
    CASE op = "copy" -> "best_batches"
      [] op = "scores_size" -> "tokens_size"
      [] op = "tokens_size" -> "scores"
      [] op = "scores" -> "tokens"
      [] OTHER -> "returned"

GoOn(op) == [r \in Stage |-> IF r \in Group(op) THEN [rank[r] EXCEPT !.pc = BeamAfter(op)] ELSE rank[r]]

BeamSkip(r) ==
    /\ SkipsGroup(r)
    /\ rank' = [rank EXCEPT ![r].pc = BeamAfter(@)]
    /\ UNCHANGED <<conf, beam>>

BeamBroadcastDone ==
    /\ Meet("done")
    /\ rank' = [r \in Stage |->
                  [rank[r] EXCEPT !.pc = IF beam.done THEN AfterLoop(r) ELSE "copy"]]
    /\ UNCHANGED <<conf, beam>>

(* All tokens, since beams have changed places.                            *)
BeamCopyToFirst ==
    /\ Meet("copy")
    /\ rank' = [GoOn("copy") EXCEPT ![FirstStage].tokens = rank[LastStage].tokens]
    /\ UNCHANGED <<conf, beam>>

(* swap_key_value_dict.                                                    *)
MutSwapped(s) == s.cache
Swapped(s) == [b \in Batch |-> s.cache[beam.next[b].beam]]

BroadcastBestBatches ==
    /\ Meet("best_batches")
    /\ rank' = [r \in Stage |->
                  LET s == [rank[r] EXCEPT !.cache = Swapped(rank[r]), !.prev = rank[r].context]
                  IN IF s.context + 1 = MaxLen THEN [s EXCEPT !.pc = AfterLoop(r)]
                     ELSE BeginMicroBatch(r, [s EXCEPT !.context = @ + 1])]
    /\ UNCHANGED <<conf, beam>>

(* Beams still open are hypotheses as well; the best ones are returned.    *)
RankHypotheses ==
    LET s == rank[LastStage]
        Close(h, b) == Add(h, s.tokens[b], h.scores[b], s.context + 1 - PromptLength)
        h == IF beam.done THEN beam ELSE FoldLeft(Close, beam, [b \in Batch |-> b])
        sorted == Sorted(h.beams)
    IN /\ s.pc = "rank_hypotheses"
       /\ beam' = [h EXCEPT !.ranked =
                     SubSeq(sorted, 1, Min({conf.num_return_gen, Len(sorted)}))]
       /\ rank' = [rank EXCEPT ![LastStage].pc = "scores_size"]
       /\ UNCHANGED conf

BroadcastSizes ==
    /\ \E op \in {"scores_size", "tokens_size"} : Meet(op) /\ rank' = GoOn(op)
    /\ UNCHANGED <<conf, beam>>

ReturnScores ==
    /\ Meet("scores")
    /\ rank' = GoOn("scores")
    /\ beam' = [beam EXCEPT !.returned_scores =
                  [i \in DOMAIN beam.ranked |-> beam.ranked[i].score]]
    /\ UNCHANGED conf

ReturnTokens ==
    /\ Meet("tokens")
    /\ rank' = GoOn("tokens")
    /\ beam' = [beam EXCEPT !.returned_tokens =
                  [i \in DOMAIN beam.ranked |-> beam.ranked[i].text]]
    /\ UNCHANGED conf

-----------------------------------------------------------------------------
InitBeam ==
    [scores |-> [b \in Batch |-> 0], beams |-> <<>>, worst_score |-> Infinity,
     next |-> <<>>, done |-> FALSE, ranked |-> <<>>,
     returned_scores |-> <<>>, returned_tokens |-> <<>>,
     offered |-> {}]   \* history: every hypothesis there was

SearchBeams ==
    \/ Forward /\ UNCHANGED <<conf, beam>>
    \/ Search \/ (\E r \in Stage : NoBeams(r) \/ BeamSkip(r))
    \/ BeamBroadcastDone \/ BeamCopyToFirst \/ BroadcastBestBatches
    \/ RankHypotheses \/ BroadcastSizes \/ ReturnScores \/ ReturnTokens

-----------------------------------------------------------------------------
(* What the words of a text are worth, one after the other, with the stop  *)
(* token that ended it, and how many they are.                             *)
Generated(text) ==
    LET stops == {p \in PromptLength + 1 .. MaxLen : text[p] = Eod}
    IN PromptLength + 1 .. IF stops = {} THEN MaxLen ELSE Min(stops)

ScoreOf(text) ==
    LET log_prob == [p \in 1 .. MaxLen |-> LogProb(conf.model, SubSeq(text, 1, p - 1), text[p])]
    IN Normalized(FoldFunctionOnSet(+, 0, log_prob, Generated(text)),
                  Cardinality(Generated(text)))

(* Every hypothesis the caller gets comes with the score of its own words, *)
(* although beams changed places in every turn, on every stage: scores,    *)
(* tokens and caches were reordered alike (generation.py:383-403).         *)
HypothesesKeepTheirScores ==
    rank[FirstStage].pc = "returned" =>
        \A i \in DOMAIN beam.returned_tokens :
            beam.returned_scores[i] = ScoreOf(beam.returned_tokens[i])

(* Every way an open beam may go on.                                       *)
Continuations(b) ==
    LET s == rank[LastStage]
        words == {Words[i] : i \in DOMAIN Words}
    IN {text \in [1 .. MaxLen -> words \cup {s.tokens[b][p] : p \in 1 .. s.context}] :
           /\ \A p \in 1 .. s.context + 1 : text[p] = s.tokens[b][p]
           /\ \A p \in s.context + 2 .. MaxLen :
                 text[p] \in words /\ (text[p - 1] = Eod => text[p] = Eod)}

NoneCanBecomeBetter ==
    \A b \in Batch : \A text \in Continuations(b) : ScoreOf(text) <= beam.worst_score

(* The caller gets the best hypotheses there were, best first: none that   *)
(* BeamHypotheses turned away or removed is better than one it kept, and   *)
(* the search does not stop early while an open beam could still become    *)
(* better than the worst one kept (beam_utils.py:36-63).  With a length    *)
(* penalty it may, see the README.  Each comes with its own score.         *)
BestHypothesesReturned ==
    /\ HypothesesKeepTheirScores
    /\ beam.done /\ conf.length_penalty = 0 => NoneCanBecomeBetter
    /\ rank[FirstStage].pc = "returned" =>
        LET scores == beam.returned_scores
        IN /\ \A i, j \in DOMAIN scores : i < j => scores[i] >= scores[j]
           /\ \A h \in beam.offered :
                 \/ \E i \in DOMAIN scores : beam.ranked[i] = h
                 \/ Len(scores) > 0 /\ h.score <= scores[Len(scores)]
=============================================================================
