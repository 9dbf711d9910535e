------------------------------ MODULE MCInference ------------------------------
(***************************************************************************)
(* Two and three prompts of different lengths, and two and three beams     *)
(* over four words, on one to three stages.                                *)
(***************************************************************************)
EXTENDS Inference

Generation(pp, prompts, n, threshold, stop, early, log_probs) ==
    [task |-> "generate", pp |-> pp, prompts |-> prompts, tokens_to_generate |-> n,
     threshold |-> threshold, stop |-> stop, early_termination |-> early,
     log_probs |-> log_probs]

Short == <<"a">>
Line == <<"a", Eol>>
Long == <<"a", "b", Eol>>

(* A prompt of one token lets the batch be pipelined from the start, in    *)
(* microbatches of one and of two rows, the last one smaller.              *)
Generations ==
    {Generation(pp, <<Short, Line>>, 2, 100, "eod", TRUE, TRUE) : pp \in 1 .. 3}
      \cup {Generation(3, <<Short, Line>>, 2, 1, "double_eol", TRUE, FALSE),
            Generation(2, <<Line, Short, Short>>, 1, 2, "eol", TRUE, TRUE),
            Generation(2, <<Short>>, 3, 1, "eod", TRUE, TRUE),
            Generation(2, <<Long, Line>>, 2, 100, "double_eol", FALSE, TRUE),
            Generation(3, <<Long, Line>>, 0, 100, "eod", TRUE, TRUE)}

-----------------------------------------------------------------------------
MCWords == <<"eod", "x", "y", "z">>
Index(word) == IF word \in {Words[i] : i \in DOMAIN Words}
               THEN CHOOSE i \in DOMAIN Words : Words[i] = word ELSE 0

(* A model whose first word is expensive and whose later ones are cheap.   *)
SteepStart(prefix, word) ==
    IF Len(prefix) > 1 THEN IF word = Eod THEN -1 ELSE -2
    ELSE CASE word = Eod -> -2 [] word = "x" -> -4 [] OTHER -> -9

(* Late words cost less than early ones, and stopping little: the log      *)
(* probability depends on the last words and on how long the text is.      *)
Mixed(model, prefix, word) ==
    LET n == Len(prefix)
        before == IF n > 1 THEN Index(prefix[n - 1]) ELSE 0
        last == IF n > 0 THEN Index(prefix[n]) ELSE 0
        mixed == model * (Index(word) + 2) * (last + 3) + 5 * before * last + n * Index(word)
    IN -(mixed % (IF word = Eod THEN 4 ELSE 12 \div n))

MCLogProb(model, prefix, word) ==
    IF model = 0 THEN SteepStart(prefix, word) ELSE Mixed(model, prefix, word)

Beams(n) == [b \in 1 .. n |-> <<"a">>]

Searches ==
    [task : {"beam_search"}, pp : {1, 2, 3}, threshold : {1, 100}, prompts : {Beams(2)},
     tokens_to_generate : {3}, model : 0 .. 10, length_penalty : {0, 1},
     num_return_gen : {2}]
      \cup
    [task : {"beam_search"}, pp : {2}, threshold : {2}, prompts : {Beams(3)},
     tokens_to_generate : {3}, model : 0 .. 10, length_penalty : {0, 1},
     num_return_gen : {2, 3}]

MCRequests == Generations \cup Searches
=============================================================================
