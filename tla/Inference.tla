------------------------------- MODULE Inference -------------------------------
(***************************************************************************)
(* A request to a pipeline of stages: text generation, scoring of prompts  *)
(* or beam search (megatron/inference/text_generation/api.py).  Which one  *)
(* it is the first rank broadcasts, with the arguments, before anything    *)
(* else; here they are in conf.                                            *)
(***************************************************************************)
EXTENDS TextGeneration, BeamSearch

CONSTANT Requests

(* What text_generation_server.py lets through: one prompt or more (line   *)
(* 47), none of them empty (line 122), a number of tokens to generate that *)
(* is not negative (line 58).  A beam search refuses to generate none      *)
(* (generation.py:302); rows end in one of three ways (generation.py:247). *)
(* A request that is too long (lines 136 to 140) every stage refuses alike *)
(* before the first pass; it is none of these.                             *)
ASSUME RequestsAssumption ==
    \A request \in Requests :
        /\ request.task \in {"generate", "beam_search"}
        /\ request.pp \in Nat \ {0} /\ request.threshold \in Int
        /\ request.prompts # <<>> /\ request.prompts \in Seq(Range(request.prompts))
        /\ \A b \in DOMAIN request.prompts :
              /\ request.prompts[b] # <<>>
              /\ request.prompts[b] \in Seq(Range(request.prompts[b]))
        /\ request.tokens_to_generate \in Nat
        /\ request.task = "beam_search" => request.tokens_to_generate > 0
        /\ request.task = "generate" =>
              /\ request.early_termination \in BOOLEAN /\ request.log_probs \in BOOLEAN
              /\ request.stop \in {"double_eol", "eol", "eod"}

vars == <<conf, rank, answer, beam>>

(* Generation starts behind the shortest prompt, scoring at the end, beam  *)
(* search behind its only prompt.                                          *)
StartContext ==
    IF ToGenerate THEN Min({PromptLen(b) : b \in Batch}) ELSE MaxLen

Init ==
    /\ conf \in Requests
    /\ rank = InitRank(StartContext)
    /\ answer = IF conf.task = "generate" THEN InitAnswer ELSE <<>>
    /\ beam = InitBeam

(* A generation that ended early, with log probabilities of several rows   *)
(* on several stages: the last stage has stopped at its assertion, and the *)
(* first one waits for ever.                                               *)
LogProbsLost ==
    /\ conf.task = "generate" /\ conf.early_termination /\ conf.log_probs
    /\ BatchSize > 1 /\ conf.pp > 1
    /\ answer[LastStage].finished = Batch /\ rank[LastStage].context + 1 < MaxLen
    /\ rank[FirstStage].pc = "log_probs" /\ rank[LastStage].pc = "raised"
    /\ \A r \in Stage \ {FirstStage, LastStage} : rank[r].pc = "returned"

Ended == (Returned \/ LogProbsLost) /\ UNCHANGED vars

Next ==
    \/ conf.task = "generate" /\ Generate /\ UNCHANGED beam
    \/ conf.task = "beam_search" /\ SearchBeams /\ UNCHANGED answer
    \/ Ended

Spec == Init /\ [][Next]_vars /\ WF_vars(Next)

-----------------------------------------------------------------------------
(* Every request is answered: the stages leave the loop together, and none *)
(* waits for a call that another one does not make (generation.py).  The   *)
(* code keeps this but for LogProbsLost: of several rows the columns that   *)
(* an early exit leaves are not contiguous, which communication.py:55      *)
(* refuses to broadcast, and the docstring of generation.py:121-126, which  *)
(* promises them, does not hold.                                           *)
Answers == <>(Returned \/ LogProbsLost)
=============================================================================
