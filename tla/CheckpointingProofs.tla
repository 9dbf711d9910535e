-------------------------- MODULE CheckpointingProofs --------------------------
(***************************************************************************)
(* Proofs about checkpoints and the tracker, for any ranks, iterations and  *)
(* intervals, and any number of crashes, restarts and writers that die.     *)
(*                                                                          *)
(* Between two collectives the ranks run on their own. The invariant        *)
(* follows each rank to its next collective: all that are still running     *)
(* enter the same one, with the same queue and the same request             *)
(* (Agreement). What rank 0 has written is then true of the request all of  *)
(* them finalize (Finalizing), and requests are finalized in the order they *)
(* were made (Ordered).                                                     *)
(***************************************************************************)
EXTENDS Checkpointing, TLAPS

RankStates ==
  [pc : CollectivePoints \cup LocalPoints \cup EndPoints,
   ret : {"top", "ramp_up", "train", "exit_check", "after_training", "exit", "done"},
   iteration : 0 .. NumIters, queue : Seq(Requests), call_idx : -1 .. NumIters - 1,
   call : Requests, blocking : BOOLEAN, flag : BOOLEAN]

-----------------------------------------------------------------------------
(* Where a rank in state s goes on its own, in a job with configuration c that *)
(* started from st: the next collective, or "done", and where it returns to    *)
(* from there.                                                                 *)
FromExit(s) == <<IF s.queue = <<>> THEN "done" ELSE "alive", "done">>

FromAfterTraining(s) ==
  IF ~IsSaveInterval(s.iteration) THEN <<"plan", "exit">> ELSE FromExit(s)

FromRampUp(st, s) ==
  IF s.iteration \in RampUp /\ s.iteration # st THEN <<"plan", "train">>
  ELSE <<"train", "ramp_up">>

FromPoll(st, s, ret) ==
  IF s.queue # <<>> THEN <<"alive", ret>>
  ELSE IF ret = "ramp_up" THEN FromRampUp(st, s)
  ELSE IF ret = "after_training" THEN FromAfterTraining(s)
  ELSE <<"done", "done">>

FromTop(st, s) ==
  FromPoll(st, s, IF s.iteration < NumIters THEN "ramp_up" ELSE "after_training")

FromSaveAndExit(s) == IF IsSaveInterval(s.iteration) THEN FromExit(s) ELSE <<"plan", "exit">>

FromExitCheck(c, st, s) ==
  IF c.exit = "duration" THEN <<"durations", s.ret>>
  ELSE IF c.exit = "interval" /\ s.iteration % ExitInterval = 0 THEN FromSaveAndExit(s)
  ELSE FromTop(st, s)

FromInterval(c, st, s) ==
  IF IsSaveInterval(s.iteration) THEN <<"plan", "exit_check">> ELSE FromExitCheck(c, st, s)

NextMeeting(c, st, s) ==
  CASE s.pc = "top"            -> FromTop(st, s)
    [] s.pc = "ramp_up"        -> FromRampUp(st, s)
    [] s.pc = "handler"        -> <<"signals", s.ret>>
    [] s.pc = "interval"       -> FromInterval(c, st, s)
    [] s.pc = "exit_check"     -> FromExitCheck(c, st, s)
    [] s.pc = "after_training" -> FromAfterTraining(s)
    [] s.pc = "exit"           -> FromExit(s)
    [] s.pc = "common"         -> <<"plan", s.ret>>
    [] s.pc = "start"          -> <<IF c.async THEN "saved" ELSE "gather", s.ret>>
    [] s.pc = "poll"           -> FromPoll(st, s, s.ret)
    [] s.pc = "join"           -> <<"gather", s.ret>>
    [] s.pc = "metadata"       -> <<"written", s.ret>>
    [] s.pc = "config"         -> <<"configured", s.ret>>
    [] s.pc \in {"tracker", "write_tracker"} -> <<IF c.async THEN "agree" ELSE "saved", s.ret>>
    [] OTHER                   -> <<s.pc, s.ret>>

(* The request the rank makes at start, and its queue and last call when it    *)
(* gets to the collective.                                                     *)
Asked(s) == Request(s.call_idx + 1, s.iteration)

NextQueue(c, s) ==
  IF s.pc = "start" THEN IF c.async THEN Append(s.queue, Asked(s)) ELSE <<>>
  ELSE IF s.pc = "join" THEN Tail(s.queue) ELSE s.queue

NextCall(c, s) ==
  IF s.pc = "start" /\ ~c.async THEN Asked(s)
  ELSE IF s.pc = "join" THEN Head(s.queue) ELSE s.call

NextIdx(c, s) == IF s.pc = "start" /\ c.async THEN s.call_idx + 1 ELSE s.call_idx

SameFuture(c, st, s, t) ==
  /\ NextMeeting(c, st, s) = NextMeeting(c, st, t)
  /\ s.iteration = t.iteration
  /\ NextQueue(c, s) = NextQueue(c, t)
  /\ NextCall(c, s) = NextCall(c, t)
  /\ NextIdx(c, s) = NextIdx(c, t)

-----------------------------------------------------------------------------
(* The inductive invariant.                                                    *)

(* Ranks that have not raised will meet; a rank that has raised holds the      *)
(* others where it left them.                                                  *)
Agreement ==
  \A r, q \in Ranks :
    rank[r].pc # "raised" =>
      /\ rank[q].pc # "raised" => SameFuture(conf, start, rank[r], rank[q])
      /\ rank[q].pc = "raised" => NextMeeting(conf, start, rank[r])[1] \in {"plan", "gather"}

PollReturns == {"ramp_up", "after_training", "done"}
SaveReturnPoints == {"train", "exit_check", "exit"}

Polling(c) ==
  {"poll", "alive", "agree"} \cup
  IF c.async THEN {"join", "gather", "metadata", "written", "config", "configured", "tracker",
                   "write_tracker"} ELSE {}

Saving(c) ==
  {"common", "plan", "start", "saved"} \cup
  IF c.async THEN {} ELSE {"join", "gather", "metadata", "written", "config", "configured",
                           "tracker", "write_tracker"}

(* Where each part of the code returns to, and the iterations it runs in.      *)
Control(c, st, s) ==
  /\ s.pc \in Polling(c) =>
       /\ s.ret \in PollReturns
       /\ s.blocking = (s.ret # "ramp_up")
       /\ s.ret = "ramp_up" => s.iteration < NumIters
       /\ s.ret = "after_training" => s.iteration = NumIters
  /\ s.pc \in Saving(c) =>
       /\ s.ret \in SaveReturnPoints /\ s.iteration >= 1
       /\ s.ret = "train" => s.iteration < NumIters
  /\ s.pc \in {"alive", "agree"} => c.async
  /\ s.pc \in {"alive", "join"} => s.queue # <<>>
  /\ s.pc = "ramp_up" => s.ret = "ramp_up"
  /\ s.pc \in {"ramp_up", "train"} => s.iteration < NumIters
  /\ s.pc = "after_training" => s.iteration = NumIters
  /\ s.pc \in {"handler", "signals", "interval", "exit_check", "durations"} => s.iteration >= 1
  /\ st <= s.iteration

(* Where a rank finalizes its last call, and what rank 0 does for all.         *)
Called == {"gather", "metadata", "written", "config", "configured", "tracker",
           "write_tracker", "agree"}
OnlyRank0 == {"common", "metadata", "config", "tracker", "write_tracker"}

(* Requests are numbered in sequence, ascend in iteration, and come after the  *)
(* last call and after the state the job started from; their directories exist *)
(* (cm, for common), but not their metadata.json (cf, for config).             *)
Queued(c, st, cm, cf, s) ==
  /\ \A k \in 1 .. Len(s.queue) :
       /\ c.async => s.queue[k].idx = s.call_idx - Len(s.queue) + k
       /\ s.queue[k].idx >= 0
       /\ s.queue[k].iteration > st /\ s.queue[k].iteration <= s.iteration
       /\ s.queue[k].iteration \in cm \ cf
       /\ s.queue[k].iteration > s.call.iteration
  /\ \A j, k \in 1 .. Len(s.queue) : j < k => s.queue[j].iteration < s.queue[k].iteration
  /\ ~c.async => /\ s.call_idx = -1
                 /\ s.pc # "join" => s.queue = <<>>
                 /\ Len(s.queue) <= 1
  /\ s.call.idx >= 0 => s.call.iteration > st /\ s.call.iteration \in cm
  /\ s.call.idx < 0 => s.call.iteration = 0
  /\ s.call.iteration <= s.iteration
  /\ s.call_idx >= 0 => \E j \in cm : j <= s.iteration /\ s.call_idx < j
  /\ s.pc \in Called => s.call.idx >= 0

(* Before a save starts its writers, its iteration is new to the job.          *)
Fresh(st, cm, cf, s) ==
  /\ s.iteration > st /\ s.iteration \in cm \ cf
  /\ s.call_idx + 1 < s.iteration /\ s.call.iteration < s.iteration
  /\ \A k \in 1 .. Len(s.queue) : s.queue[k].iteration < s.iteration

IsStarting(r, s) == s.pc = "start" \/ (r = Rank0 /\ s.pc = "plan")

Ordered ==
  \A r \in Ranks :
    /\ Queued(conf, start, common, config, rank[r])
    /\ IsStarting(r, rank[r]) => Fresh(start, common, config, rank[r])

(* A rank has started the writers w of the calls behind it and in its queue,   *)
(* and its shards are among the files sh for the request it has joined.        *)
Written(c, w, sh, r, s) ==
  /\ \A i \in Iterations :
       /\ w[r][i] = "done" => <<r, i>> \in sh
       /\ w[r][i] # "none" =>
            \/ i <= s.call.iteration
            \/ \E k \in 1 .. Len(s.queue) : s.queue[k].iteration = i
  /\ r \in c.withData =>
       /\ \A k \in 1 .. Len(s.queue) : w[r][s.queue[k].iteration] # "none"
       /\ s.pc # "raised" /\ s.call.idx >= 0 => <<r, s.call.iteration>> \in sh

(* What rank 0 alone writes, and in which order.                               *)
Finalizing ==
  /\ rank[Rank0].pc \in {"written", "config", "configured", "tracker", "write_tracker"} =>
       rank[Rank0].call.iteration \in metadata
  /\ rank[Rank0].pc \in {"configured", "tracker", "write_tracker"} =>
       rank[Rank0].call.iteration \in config
  /\ \A r \in Ranks : rank[r].pc \in OnlyRank0 => r = Rank0
  /\ start = 0 \/ start \in common

IInv ==
  /\ TypeOK
  /\ Agreement
  /\ \A r \in Ranks : Control(conf, start, rank[r])
  /\ \A r \in Ranks : Written(conf, writer, shards, r, rank[r])
  /\ Ordered
  /\ Finalizing
  /\ OnlyCompleteIsPublished

-----------------------------------------------------------------------------
(* Steps of one rank that leave its requests alone.                            *)
Moves(c, st, s, t) ==
  /\ t \in RankStates /\ t.pc # "raised" /\ Control(c, st, t) /\ SameFuture(c, st, s, t)
  /\ t.iteration = s.iteration /\ t.queue = s.queue /\ t.call_idx = s.call_idx
  /\ t.call = s.call

Job(c, st, s) ==
  c \in Configs /\ st \in 0 .. NumIters /\ s \in RankStates /\ Control(c, st, s)

LEMMA SaveMoves ==
  ASSUME NEW c, NEW st, NEW s, NEW r, NEW ret \in SaveReturnPoints, Job(c, st, s),
         s.iteration >= 1, ret = "train" => s.iteration < NumIters,
         NextMeeting(c, st, s) = <<"plan", ret>>, s.pc \notin {"start", "join"}
  PROVE  Moves(c, st, s, SaveFrom(r, s, ret))
<1> DEFINE t == SaveFrom(r, s, ret)
<1>1. /\ t \in RankStates /\ t.pc \in {"common", "plan"} /\ t.ret = ret
      /\ t.iteration = s.iteration /\ t.queue = s.queue /\ t.call_idx = s.call_idx
      /\ t.call = s.call
  BY DEF Job, RankStates, SaveFrom, SaveReturnPoints, CollectivePoints, LocalPoints
<1>2. Control(c, st, t)
  BY <1>1 DEF Job, Control, Polling, Saving, SaveReturnPoints
<1>3. NextMeeting(c, st, t) = <<"plan", ret>>
  BY <1>1 DEF NextMeeting
<1>4. SameFuture(c, st, s, t)
  BY <1>1, <1>3 DEF SameFuture, NextQueue, NextCall, NextIdx
<1> QED
  BY <1>1, <1>2, <1>4 DEF Moves

LEMMA PollMoves ==
  ASSUME NEW c, NEW st, NEW s, NEW b, NEW ret \in PollReturns, Job(c, st, s),
         b = (ret # "ramp_up"), ret = "ramp_up" => s.iteration < NumIters,
         ret = "after_training" => s.iteration = NumIters,
         NextMeeting(c, st, s) = FromPoll(st, s, ret), s.pc \notin {"start", "join"}
  PROVE  Moves(c, st, s, PollFrom(s, b, ret))
<1> DEFINE t == PollFrom(s, b, ret)
<1>1. /\ t \in RankStates /\ t.pc = "poll" /\ t.ret = ret /\ t.blocking = b
      /\ t.iteration = s.iteration /\ t.queue = s.queue /\ t.call_idx = s.call_idx
      /\ t.call = s.call
  BY DEF Job, RankStates, PollFrom, PollReturns, LocalPoints
<1>2. Control(c, st, t)
  BY <1>1 DEF Job, Control, Polling, Saving
<1>3. NextMeeting(c, st, t) = FromPoll(st, s, ret)
  BY <1>1 DEF NextMeeting, FromPoll, FromRampUp, FromAfterTraining, FromExit
<1>4. SameFuture(c, st, s, t)
  BY <1>1, <1>3 DEF SameFuture, NextQueue, NextCall, NextIdx
<1> QED
  BY <1>1, <1>2, <1>4 DEF Moves

LEMMA AtMoves ==
  ASSUME NEW c, NEW st, NEW s, NEW pc \in CollectivePoints \cup LocalPoints \cup EndPoints,
         Job(c, st, s), s.pc \notin {"start", "join"},
         pc \notin {"start", "join", "raised", "poll"},
         Control(c, st, At(s, pc)), NextMeeting(c, st, At(s, pc)) = NextMeeting(c, st, s)
  PROVE  Moves(c, st, s, At(s, pc))
<1> DEFINE t == At(s, pc)
<1>1. /\ t \in RankStates /\ t.pc = pc
      /\ t.iteration = s.iteration /\ t.queue = s.queue /\ t.call_idx = s.call_idx
      /\ t.call = s.call
  BY DEF Job, RankStates, At
<1>2. SameFuture(c, st, s, t)
  BY <1>1 DEF SameFuture, NextQueue, NextCall, NextIdx
<1> QED
  BY <1>1, <1>2 DEF Moves

LEMMA AtFields ==
  ASSUME NEW s \in RankStates, NEW pc
  PROVE  /\ At(s, pc).pc = pc /\ At(s, pc).ret = s.ret /\ At(s, pc).iteration = s.iteration
         /\ At(s, pc).queue = s.queue /\ At(s, pc).call_idx = s.call_idx
         /\ At(s, pc).call = s.call /\ At(s, pc).blocking = s.blocking
         /\ At(s, pc).flag = s.flag
BY DEF At, RankStates

(* LoopHead, RampUpSave, IntervalSave, ExitCheck, FinalSave, Exit and Poll.    *)
LEMMA TopMoves ==
  ASSUME NEW c, NEW st, NEW s, Job(c, st, s), s.pc = "top"
  PROVE  Moves(c, st, s, IF s.iteration < NumIters THEN PollFrom(s, FALSE, "ramp_up")
                         ELSE PollFrom(s, TRUE, "after_training"))
<1>1. s.iteration \in 0 .. NumIters /\ NumIters \in Nat
  BY CheckpointingAssumption DEF Job, RankStates
<1>2. CASE s.iteration < NumIters
  <2>1. NextMeeting(c, st, s) = FromPoll(st, s, "ramp_up")
    BY <1>2 DEF NextMeeting, FromTop
  <2>2. Moves(c, st, s, PollFrom(s, FALSE, "ramp_up"))
    BY <1>2, <2>1, PollMoves DEF PollReturns
  <2> QED
    BY <1>2, <2>2
<1>3. CASE ~(s.iteration < NumIters)
  <2>1. NextMeeting(c, st, s) = FromPoll(st, s, "after_training")
    BY <1>3 DEF NextMeeting, FromTop
  <2>2. s.iteration = NumIters /\ s.pc \notin {"start", "join"}
    BY <1>1, <1>3
  <2>3. "after_training" \in PollReturns /\ TRUE = ("after_training" # "ramp_up")
    BY DEF PollReturns
  <2>4. Moves(c, st, s, PollFrom(s, TRUE, "after_training"))
    BY <2>1, <2>2, <2>3, PollMoves
  <2> QED
    BY <1>3, <2>4
<1> QED
  BY <1>2, <1>3

LEMMA RampUpMoves ==
  ASSUME NEW c, NEW st, NEW s, NEW r, Job(c, st, s), s.pc = "ramp_up"
  PROVE  Moves(c, st, s, IF s.iteration \in RampUp /\ s.iteration # st
                         THEN SaveFrom(r, s, "train") ELSE At(s, "train"))
<1>1. s.ret = "ramp_up" /\ s.iteration < NumIters /\ s \in RankStates
  BY DEF Job, Control
<1>2. CASE s.iteration \in RampUp /\ s.iteration # st
  <2>1. NextMeeting(c, st, s) = <<"plan", "train">> /\ s.iteration >= 1
    BY <1>2, CheckpointingAssumption DEF NextMeeting, FromRampUp
  <2> QED
    BY <1>1, <1>2, <2>1, SaveMoves DEF SaveReturnPoints
<1>3. CASE ~(s.iteration \in RampUp /\ s.iteration # st)
  <2>1. NextMeeting(c, st, s) = <<"train", "ramp_up">>
    BY <1>3 DEF NextMeeting, FromRampUp
  <2>2. NextMeeting(c, st, At(s, "train")) = <<"train", "ramp_up">>
    BY <1>1, AtFields DEF NextMeeting
  <2>3. Control(c, st, At(s, "train"))
    BY <1>1, AtFields DEF Job, Control, Polling, Saving
  <2> QED
    BY <1>3, <2>1, <2>2, <2>3, AtMoves DEF CollectivePoints
<1> QED
  BY <1>2, <1>3

LEMMA AfterTrainingMoves ==
  ASSUME NEW c, NEW st, NEW s, NEW r, Job(c, st, s), s.pc = "after_training"
  PROVE  Moves(c, st, s, IF ~IsSaveInterval(s.iteration) THEN SaveFrom(r, s, "exit")
                         ELSE At(s, "exit"))
<1>1. s.iteration = NumIters /\ s \in RankStates /\ s.iteration >= 1
  BY CheckpointingAssumption DEF Job, Control
<1>2. CASE ~IsSaveInterval(s.iteration)
  <2>1. NextMeeting(c, st, s) = <<"plan", "exit">>
    BY <1>2 DEF NextMeeting, FromAfterTraining
  <2> QED
    BY <1>1, <1>2, <2>1, SaveMoves DEF SaveReturnPoints
<1>3. CASE IsSaveInterval(s.iteration)
  <2>1. NextMeeting(c, st, s) = FromExit(s)
    BY <1>3 DEF NextMeeting, FromAfterTraining
  <2>2. NextMeeting(c, st, At(s, "exit")) = FromExit(s)
    BY <1>1, AtFields DEF NextMeeting, FromExit
  <2>3. Control(c, st, At(s, "exit"))
    BY <1>1, AtFields DEF Job, Control, Polling, Saving
  <2> QED
    BY <1>3, <2>1, <2>2, <2>3, AtMoves DEF LocalPoints
<1> QED
  BY <1>2, <1>3

LEMMA IntervalMoves ==
  ASSUME NEW c, NEW st, NEW s, NEW r, Job(c, st, s), s.pc = "interval"
  PROVE  Moves(c, st, s, IF IsSaveInterval(s.iteration) THEN SaveFrom(r, s, "exit_check")
                         ELSE At(s, "exit_check"))
<1>1. s \in RankStates /\ s.iteration >= 1
  BY DEF Job, Control
<1>2. CASE IsSaveInterval(s.iteration)
  <2>1. NextMeeting(c, st, s) = <<"plan", "exit_check">>
    BY <1>2 DEF NextMeeting, FromInterval
  <2> QED
    BY <1>1, <1>2, <2>1, SaveMoves DEF SaveReturnPoints
<1>3. CASE ~IsSaveInterval(s.iteration)
  <2>1. NextMeeting(c, st, s) = FromExitCheck(c, st, s)
    BY <1>3 DEF NextMeeting, FromInterval
  <2>2. NextMeeting(c, st, At(s, "exit_check")) = FromExitCheck(c, st, s)
    BY <1>1, AtFields DEF NextMeeting, FromExitCheck, FromSaveAndExit, FromExit, FromTop,
                          FromPoll, FromRampUp, FromAfterTraining
  <2>3. Control(c, st, At(s, "exit_check"))
    BY <1>1, AtFields DEF Job, Control, Polling, Saving
  <2> QED
    BY <1>3, <2>1, <2>2, <2>3, AtMoves DEF LocalPoints
<1> QED
  BY <1>2, <1>3

LEMMA SaveAndExitMoves ==
  ASSUME NEW c, NEW st, NEW s, NEW r, Job(c, st, s), s.iteration >= 1,
         s.pc \notin {"start", "join"}, NextMeeting(c, st, s) = FromSaveAndExit(s)
  PROVE  Moves(c, st, s, IF IsSaveInterval(s.iteration) THEN At(s, "exit")
                         ELSE SaveFrom(r, s, "exit"))
<1>1. s \in RankStates
  BY DEF Job
<1>2. CASE IsSaveInterval(s.iteration)
  <2>1. NextMeeting(c, st, s) = FromExit(s)
    BY <1>2 DEF FromSaveAndExit
  <2>2. NextMeeting(c, st, At(s, "exit")) = FromExit(s)
    BY <1>1, AtFields DEF NextMeeting, FromExit
  <2>3. Control(c, st, At(s, "exit"))
    BY <1>1, AtFields DEF Job, Control, Polling, Saving
  <2> QED
    BY <1>2, <2>1, <2>2, <2>3, AtMoves DEF LocalPoints
<1>3. CASE ~IsSaveInterval(s.iteration)
  <2>1. NextMeeting(c, st, s) = <<"plan", "exit">>
    BY <1>3 DEF FromSaveAndExit
  <2> QED
    BY <1>1, <1>3, <2>1, SaveMoves DEF SaveReturnPoints
<1> QED
  BY <1>2, <1>3

LEMMA TopFutureMoves ==
  ASSUME NEW c, NEW st, NEW s, Job(c, st, s), s.pc \notin {"start", "join"},
         NextMeeting(c, st, s) = FromTop(st, s)
  PROVE  Moves(c, st, s, At(s, "top"))
<1>1. s \in RankStates
  BY DEF Job
<1>2. NextMeeting(c, st, At(s, "top")) = FromTop(st, s)
  BY <1>1, AtFields DEF NextMeeting, FromTop, FromPoll, FromRampUp, FromAfterTraining, FromExit
<1>3. Control(c, st, At(s, "top"))
  BY <1>1, AtFields DEF Job, Control, Polling, Saving
<1> QED
  BY <1>2, <1>3, AtMoves DEF LocalPoints

(* Reading a flag on the way to a collective, as in ReadSignal.                *)
LEMMA FlagMoves ==
  ASSUME NEW c, NEW st, NEW s, NEW b \in BOOLEAN, NEW pc \in {"signals", "durations", "alive"},
         Job(c, st, s), s.pc \in {"handler", "exit_check", "poll"},
         NextMeeting(c, st, s) = <<pc, s.ret>>,
         pc = "alive" => s.pc = "poll" /\ c.async /\ s.queue # <<>>,
         pc # "alive" => s.iteration >= 1
  PROVE  Moves(c, st, s, [s EXCEPT !.pc = pc, !.flag = b])
<1> DEFINE t == [s EXCEPT !.pc = pc, !.flag = b]
<1>1. /\ t \in RankStates /\ t.pc = pc /\ t.ret = s.ret /\ t.blocking = s.blocking
      /\ t.iteration = s.iteration /\ t.queue = s.queue /\ t.call_idx = s.call_idx
      /\ t.call = s.call
  BY DEF Job, RankStates, CollectivePoints
<1>2. Control(c, st, t)
  BY <1>1 DEF Job, Control, Polling, Saving
<1>3. NextMeeting(c, st, t) = <<pc, s.ret>>
  BY <1>1 DEF NextMeeting
<1>4. SameFuture(c, st, s, t)
  BY <1>1, <1>3 DEF SameFuture, NextQueue, NextCall, NextIdx
<1> QED
  BY <1>1, <1>2, <1>4 DEF Moves

LEMMA ExitCheckMoves ==
  ASSUME NEW c, NEW st, NEW s, NEW r, NEW b \in BOOLEAN, Job(c, st, s), s.pc = "exit_check"
  PROVE  Moves(c, st, s,
           IF c.exit = "duration" THEN [s EXCEPT !.pc = "durations", !.flag = b]
           ELSE IF c.exit = "interval" /\ s.iteration % ExitInterval = 0
           THEN IF IsSaveInterval(s.iteration) THEN At(s, "exit") ELSE SaveFrom(r, s, "exit")
           ELSE At(s, "top"))
<1>1. s \in RankStates /\ s.iteration >= 1
  BY DEF Job, Control
<1>2. NextMeeting(c, st, s) = FromExitCheck(c, st, s)
  BY DEF NextMeeting
<1>3. CASE c.exit = "duration"
  BY <1>1, <1>2, <1>3, FlagMoves DEF FromExitCheck
<1>4. CASE c.exit # "duration" /\ c.exit = "interval" /\ s.iteration % ExitInterval = 0
  BY <1>1, <1>2, <1>4, SaveAndExitMoves DEF FromExitCheck
<1>5. CASE c.exit # "duration" /\ ~(c.exit = "interval" /\ s.iteration % ExitInterval = 0)
  BY <1>1, <1>2, <1>5, TopFutureMoves DEF FromExitCheck
<1> QED
  BY <1>3, <1>4, <1>5

LEMMA ExitMoves ==
  ASSUME NEW c, NEW st, NEW s, Job(c, st, s), s.pc = "exit"
  PROVE  Moves(c, st, s, PollFrom(s, TRUE, "done"))
<1>1. NextMeeting(c, st, s) = FromPoll(st, s, "done")
  BY DEF NextMeeting, FromExit, FromPoll
<1>2. "done" \in PollReturns /\ TRUE = ("done" # "ramp_up")
  BY DEF PollReturns
<1> QED
  BY <1>1, <1>2, PollMoves

LEMMA PollReturnMoves ==
  ASSUME NEW c, NEW st, NEW s, Job(c, st, s), s.ret \in PollReturns,
         s.ret = "ramp_up" => s.iteration < NumIters,
         s.ret = "after_training" => s.iteration = NumIters,
         s.pc \notin {"start", "join"}, s.queue = <<>>,
         NextMeeting(c, st, s) = FromPoll(st, s, s.ret)
  PROVE  Moves(c, st, s, At(s, s.ret))
<1>1. s \in RankStates
  BY DEF Job
<1>2. NextMeeting(c, st, At(s, s.ret)) = FromPoll(st, s, s.ret)
  <2>1. CASE s.ret = "ramp_up"
    BY <1>1, <2>1, AtFields DEF NextMeeting, FromPoll, FromRampUp
  <2>2. CASE s.ret = "after_training"
    BY <1>1, <2>2, AtFields DEF NextMeeting, FromPoll, FromAfterTraining, FromExit
  <2>3. CASE s.ret = "done"
    BY <1>1, <2>3, AtFields DEF NextMeeting, FromPoll
  <2> QED
    BY <2>1, <2>2, <2>3 DEF PollReturns
<1>3. Control(c, st, At(s, s.ret))
  BY <1>1, AtFields DEF Job, Control, Polling, Saving, PollReturns
<1> QED
  BY <1>2, <1>3, AtMoves DEF LocalPoints, EndPoints, PollReturns

LEMMA PollOnceMoves ==
  ASSUME NEW c, NEW st, NEW s, NEW b \in BOOLEAN, Job(c, st, s), s.pc = "poll",
         ~c.async => s.queue = <<>>
  PROVE  Moves(c, st, s, IF s.queue = <<>> THEN At(s, s.ret)
                         ELSE [s EXCEPT !.pc = "alive", !.flag = b])
<1>1. NextMeeting(c, st, s) = FromPoll(st, s, s.ret)
  BY DEF NextMeeting
<1>2. CASE s.queue = <<>>
  BY <1>1, <1>2, PollReturnMoves DEF Job, Control, Polling
<1>3. CASE s.queue # <<>>
  <2>1. NextMeeting(c, st, s) = <<"alive", s.ret>>
    BY <1>1, <1>3 DEF FromPoll
  <2>2. c.async
    BY <1>3 DEF Job
  <2>3. Moves(c, st, s, [s EXCEPT !.pc = "alive", !.flag = b])
    BY <1>3, <2>1, <2>2, FlagMoves
  <2> QED
    BY <1>3, <2>3
<1> QED
  BY <1>2, <1>3

-----------------------------------------------------------------------------
(* Ranks that have not raised and agree on their next collective.              *)
LEMMA TypeFacts ==
  ASSUME TypeOK
  PROVE  /\ rank \in [Ranks -> RankStates]
         /\ conf \in Configs /\ start \in 0 .. NumIters
         /\ conf.async \in BOOLEAN /\ conf.withData \in SUBSET Ranks
BY CheckpointingAssumption DEF TypeOK, RankStates

(* What decides the future of a rank at a program point.                       *)
Peers(s, t) ==
  /\ s.ret = t.ret /\ s.iteration = t.iteration /\ s.queue = t.queue
  /\ s.call = t.call /\ s.call_idx = t.call_idx

SameWay(c, s, t) ==
  \/ s.pc = t.pc
  \/ {s.pc, t.pc} \subseteq {"common", "plan"}
  \/ {s.pc, t.pc} \subseteq {"metadata", "written"}
  \/ {s.pc, t.pc} \subseteq {"config", "configured"}
  \/ {s.pc, t.pc} \subseteq {"tracker", "write_tracker", IF c.async THEN "agree" ELSE "saved"}

LEMMA PeersMeet ==
  ASSUME NEW c, NEW st, NEW s, NEW t, Peers(s, t), SameWay(c, s, t)
  PROVE  SameFuture(c, st, s, t)
<1>1. NextMeeting(c, st, s) = NextMeeting(c, st, t)
  <2>1. CASE s.pc = t.pc
    BY <2>1 DEF Peers, NextMeeting, FromTop, FromPoll, FromRampUp, FromAfterTraining, FromExit,
                FromInterval, FromExitCheck, FromSaveAndExit
  <2>2. CASE {s.pc, t.pc} \subseteq {"common", "plan"}
    BY <2>2 DEF Peers, NextMeeting
  <2>3. CASE {s.pc, t.pc} \subseteq {"metadata", "written"}
    BY <2>3 DEF Peers, NextMeeting
  <2>4. CASE {s.pc, t.pc} \subseteq {"config", "configured"}
    BY <2>4 DEF Peers, NextMeeting
  <2>5. CASE {s.pc, t.pc} \subseteq {"tracker", "write_tracker", IF c.async THEN "agree" ELSE "saved"}
    BY <2>5 DEF Peers, NextMeeting
  <2> QED
    BY <2>1, <2>2, <2>3, <2>4, <2>5 DEF SameWay
<1>2. (s.pc = "start" <=> t.pc = "start") /\ (s.pc = "join" <=> t.pc = "join")
  BY DEF SameWay
<1> QED
  BY <1>1, <1>2 DEF SameFuture, Peers, NextQueue, NextCall, NextIdx, Asked

LEMMA SameFutureEquivalence ==
  ASSUME NEW c, NEW st
  PROVE  /\ \A s : SameFuture(c, st, s, s)
         /\ \A s, t : SameFuture(c, st, s, t) => SameFuture(c, st, t, s)
         /\ \A s, t, u : SameFuture(c, st, s, t) /\ SameFuture(c, st, t, u)
                           => SameFuture(c, st, s, u)
BY DEF SameFuture

(* A rank that goes on to the same future keeps the ranks in agreement.        *)
LEMMA AgreementLocal ==
  ASSUME Agreement, rank \in [Ranks -> RankStates], NEW r \in Ranks, NEW t,
         rank[r].pc # "raised", t.pc # "raised",
         SameFuture(conf, start, rank[r], t),
         rank' = [rank EXCEPT ![r] = t], UNCHANGED <<conf, start>>
  PROVE  Agreement'
<1> SUFFICES ASSUME NEW p \in Ranks, NEW q \in Ranks, rank'[p].pc # "raised"
             PROVE  /\ rank'[q].pc # "raised" => SameFuture(conf, start, rank'[p], rank'[q])
                    /\ rank'[q].pc = "raised" =>
                         NextMeeting(conf, start, rank'[p])[1] \in {"plan", "gather"}
  BY DEF Agreement
<1>1. rank'[r] = t /\ \A x \in Ranks \ {r} : rank'[x] = rank[x]
  BY DEF RankStates
<1>2. \A x \in Ranks : /\ rank'[x].pc = "raised" <=> rank[x].pc = "raised"
                       /\ SameFuture(conf, start, rank[x], rank'[x])
  BY <1>1, SameFutureEquivalence
<1>3. rank[p].pc # "raised"
  BY <1>2
<1>4. CASE rank[q].pc # "raised"
  <2>1. SameFuture(conf, start, rank[p], rank[q])
    BY <1>3, <1>4 DEF Agreement
  <2>2. /\ SameFuture(conf, start, rank'[p], rank[p])
        /\ SameFuture(conf, start, rank[q], rank'[q])
    BY <1>2, SameFutureEquivalence
  <2>3. SameFuture(conf, start, rank'[p], rank'[q])
    BY <2>1, <2>2, SameFutureEquivalence
  <2> QED
    BY <1>2, <1>4, <2>3
<1>5. CASE rank[q].pc = "raised"
  <2>1. NextMeeting(conf, start, rank[p])[1] \in {"plan", "gather"}
    BY <1>3, <1>5 DEF Agreement
  <2>2. NextMeeting(conf, start, rank[p]) = NextMeeting(conf, start, rank'[p])
    BY <1>2 DEF SameFuture
  <2> QED
    BY <1>2, <1>5, <2>1, <2>2
<1> QED
  BY <1>4, <1>5

(* A rank that raises on its way to a plan or to gathering results.            *)
LEMMA AgreementRaise ==
  ASSUME Agreement, rank \in [Ranks -> RankStates], NEW r \in Ranks, NEW t,
         rank[r].pc # "raised", t.pc = "raised",
         NextMeeting(conf, start, rank[r])[1] \in {"plan", "gather"},
         rank' = [rank EXCEPT ![r] = t], UNCHANGED <<conf, start>>
  PROVE  Agreement'
<1> SUFFICES ASSUME NEW p \in Ranks, NEW q \in Ranks, rank'[p].pc # "raised"
             PROVE  /\ rank'[q].pc # "raised" => SameFuture(conf, start, rank'[p], rank'[q])
                    /\ rank'[q].pc = "raised" =>
                         NextMeeting(conf, start, rank'[p])[1] \in {"plan", "gather"}
  BY DEF Agreement
<1>1. rank'[r] = t /\ \A x \in Ranks \ {r} : rank'[x] = rank[x]
  BY DEF RankStates
<1>2. p # r /\ rank[p].pc # "raised" /\ rank'[p] = rank[p]
  BY <1>1
<1>3. NextMeeting(conf, start, rank[p]) = NextMeeting(conf, start, rank[r])
  BY <1>2 DEF Agreement, SameFuture
<1> QED
  BY <1>1, <1>2, <1>3 DEF Agreement

(* Ranks that meet in a collective are there for the same reason.              *)
LEMMA CollectiveMeeting ==
  ASSUME NEW c, NEW st, NEW s, s.pc \in CollectivePoints
  PROVE  /\ NextMeeting(c, st, s) = <<s.pc, s.ret>>
         /\ NextQueue(c, s) = s.queue /\ NextCall(c, s) = s.call /\ NextIdx(c, s) = s.call_idx
BY DEF CollectivePoints, NextMeeting, NextQueue, NextCall, NextIdx

LEMMA MetRanks ==
  ASSUME Agreement, NEW at \in CollectivePoints, Meet(at)
  PROVE  \A r, q \in Ranks : Peers(rank[r], rank[q]) /\ rank[r].pc # "raised"
<1> SUFFICES ASSUME NEW r \in Ranks, NEW q \in Ranks
             PROVE  Peers(rank[r], rank[q]) /\ rank[r].pc # "raised"
  OBVIOUS
<1>1. rank[r].pc = at /\ rank[q].pc = at /\ at # "raised"
  BY DEF Meet, CollectivePoints
<1>2. SameFuture(conf, start, rank[r], rank[q])
  BY <1>1 DEF Agreement
<1> DEFINE s == rank[r] t == rank[q]
<1>3. /\ NextMeeting(conf, start, s) = <<at, s.ret>> /\ NextQueue(conf, s) = s.queue
      /\ NextCall(conf, s) = s.call /\ NextIdx(conf, s) = s.call_idx
  BY <1>1, CollectiveMeeting
<1>4. /\ NextMeeting(conf, start, t) = <<at, t.ret>> /\ NextQueue(conf, t) = t.queue
      /\ NextCall(conf, t) = t.call /\ NextIdx(conf, t) = t.call_idx
  BY <1>1, CollectiveMeeting
<1>5. <<at, s.ret>> = <<at, t.ret>>
  BY <1>2, <1>3, <1>4 DEF SameFuture
<1>6. s.queue = t.queue /\ s.call = t.call /\ s.call_idx = t.call_idx /\ s.iteration = t.iteration
  BY <1>2, <1>3, <1>4 DEF SameFuture
<1> QED
  BY <1>1, <1>5, <1>6 DEF Peers

(* They leave it together, each at a point of the same way.                    *)
LEMMA AgreementMet ==
  ASSUME NEW at \in CollectivePoints, Agreement, Meet(at), NEW t,
         rank' = [r \in Ranks |-> t[r]], UNCHANGED <<conf, start>>,
         \A r \in Ranks : t[r].pc # "raised",
         \A r, q \in Ranks : Peers(t[r], t[q]) /\ SameWay(conf, t[r], t[q])
  PROVE  Agreement'
<1> SUFFICES ASSUME NEW p \in Ranks, NEW q \in Ranks
             PROVE  rank'[q].pc # "raised" /\ SameFuture(conf, start, rank'[p], rank'[q])
  BY DEF Agreement
<1>1. rank'[p] = t[p] /\ rank'[q] = t[q]
  OBVIOUS
<1> QED
  BY <1>1, PeersMeet

-----------------------------------------------------------------------------
(* The other parts of the invariant, for one rank from state s to t.           *)
SameRequests(s, t) ==
  /\ t.queue = s.queue /\ t.call_idx = s.call_idx /\ t.call = s.call
  /\ t.iteration >= s.iteration

LEMMA RequestTypes ==
  ASSUME NEW s \in RankStates
  PROVE  /\ s.iteration \in 0 .. NumIters /\ s.iteration \in Int /\ NumIters \in Nat
         /\ s.call_idx \in Int /\ s.call_idx >= -1
         /\ s.call \in Requests /\ s.call.iteration \in Nat /\ s.call.idx \in Int
         /\ s.queue \in Seq(Requests) /\ Len(s.queue) \in Nat
         /\ \A k \in 1 .. Len(s.queue) :
              s.queue[k] \in Requests /\ s.queue[k].iteration \in Nat /\ s.queue[k].idx \in Int
<1>1. /\ s.iteration \in 0 .. NumIters /\ s.call_idx \in -1 .. NumIters - 1 /\ s.call \in Requests
      /\ s.queue \in Seq(Requests) /\ NumIters \in Nat
  BY CheckpointingAssumption DEF RankStates
<1>2. \A q \in Requests : q.iteration \in Nat /\ q.idx \in Int
  BY <1>1 DEF Requests
<1>3. Len(s.queue) \in Nat /\ \A k \in 1 .. Len(s.queue) : s.queue[k] \in Requests
  BY <1>1
<1> QED
  BY <1>1, <1>2, <1>3

LEMMA QueuedKept ==
  ASSUME NEW c, NEW st, NEW cm \in SUBSET Int, NEW cf, NEW s \in RankStates, NEW t \in RankStates,
         Queued(c, st, cm, cf, s), SameRequests(s, t),
         t.pc = "join" => s.pc = "join" \/ c.async, s.pc = "join" => t.pc = "join",
         t.pc \in Called => s.pc \in Called
  PROVE  Queued(c, st, cm, cf, t)
<1>1. /\ s.iteration <= t.iteration
      /\ s.queue = t.queue /\ s.call_idx = t.call_idx /\ s.call = t.call
  BY RequestTypes DEF SameRequests
<1>2. t.iteration \in Int
  BY RequestTypes
<1>3. \A k \in 1 .. Len(s.queue) : s.queue[k].iteration <= t.iteration
  <2> SUFFICES ASSUME NEW k \in 1 .. Len(s.queue) PROVE s.queue[k].iteration <= t.iteration
    OBVIOUS
  <2>1. s.queue[k].iteration <= s.iteration
    BY DEF Queued
  <2> QED
    BY <1>1, <1>2, <2>1, RequestTypes
<1>4. s.call.iteration <= t.iteration
  <2>1. s.call.iteration <= s.iteration
    BY DEF Queued
  <2> QED
    BY <1>1, <1>2, <2>1, RequestTypes
<1>5. \A j \in cm : j \in Int /\ j <= s.iteration => j <= t.iteration
  BY <1>1, <1>2, RequestTypes
<1> QED
  BY <1>1, <1>3, <1>4, <1>5 DEF Queued

(* More directories, and a metadata.json older than all the queue.             *)
LEMMA QueuedMoreFiles ==
  ASSUME NEW c, NEW st, NEW cm, NEW cf, NEW i, NEW s, Queued(c, st, cm, cf, s)
  PROVE  Queued(c, st, cm \cup {i}, cf, s)
BY DEF Queued

LEMMA QueuedConfigured ==
  ASSUME NEW c, NEW st, NEW cm, NEW cf, NEW s \in RankStates, Queued(c, st, cm, cf, s)
  PROVE  Queued(c, st, cm, cf \cup {s.call.iteration}, s)
<1>1. \A k \in 1 .. Len(s.queue) : s.queue[k].iteration > s.call.iteration
  BY DEF Queued
<1>2. \A k \in 1 .. Len(s.queue) : s.queue[k].iteration # s.call.iteration
  BY <1>1, RequestTypes
<1> QED
  BY <1>2 DEF Queued

LEMMA FreshMoreFiles ==
  ASSUME NEW st, NEW cm, NEW cf, NEW i, NEW s, Fresh(st, cm, cf, s)
  PROVE  Fresh(st, cm \cup {i}, cf, s)
BY DEF Fresh

LEMMA FreshPeers ==
  ASSUME NEW st, NEW cm, NEW cf, NEW s, NEW t, Fresh(st, cm, cf, s), Peers(s, t)
  PROVE  Fresh(st, cm, cf, t)
BY DEF Fresh, Peers

LEMMA WrittenKept ==
  ASSUME NEW c, NEW w, NEW sh, NEW r, NEW s, NEW t, Written(c, w, sh, r, s),
         SameRequests(s, t), s.pc # "raised"
  PROVE  Written(c, w, sh, r, t)
BY DEF Written, SameRequests

-----------------------------------------------------------------------------
(* The state types, split into those of the ranks and the others.              *)
RankTypes == rank \in [Ranks -> RankStates] /\ \A r \in Ranks : Len(rank[r].queue) <= NumIters

FileTypes ==
  /\ conf \in Configs
  /\ writer \in [Ranks -> [Iterations -> {"none", "alive", "done", "died"}]]
  /\ exiting \subseteq Ranks /\ start \in 0 .. NumIters
  /\ restarts \in 0 .. MaxRestarts /\ deaths \in 0 .. MaxDeaths
  /\ shards \subseteq Ranks \X Iterations
  /\ common \subseteq Iterations /\ metadata \subseteq Iterations /\ config \subseteq Iterations
  /\ tracker \in Iterations \cup {NoFile, Truncated}

LEMMA TypeParts ==
  /\ TypeOK <=> RankTypes /\ FileTypes
  /\ TypeOK' <=> RankTypes' /\ FileTypes'
<1>1. TypeOK <=> RankTypes /\ FileTypes
  BY DEF TypeOK, RankTypes, FileTypes, RankStates
<1>2. TypeOK' <=> RankTypes' /\ FileTypes'
  BY DEF TypeOK, RankTypes, FileTypes, RankStates
<1> QED
  BY <1>1, <1>2

LEMMA IterationTypes ==
  ASSUME FileTypes
  PROVE  common \in SUBSET Int /\ config \in SUBSET Int /\ Iterations \in SUBSET Int /\ start \in Int
BY CheckpointingAssumption DEF FileTypes, Iterations

(* One rank moves on its own and keeps its requests.                           *)
Goes(r, t) ==
  /\ rank[r].pc # "raised" /\ Moves(conf, start, rank[r], t)
  /\ rank' = [rank EXCEPT ![r] = t] /\ UNCHANGED <<conf, start>>

LEMMA GoesParts ==
  ASSUME IInv, NEW r \in Ranks, NEW t, Goes(r, t)
  PROVE  /\ rank'[r] = t /\ t \in RankStates /\ \A q \in Ranks \ {r} : rank'[q] = rank[q]
         /\ SameRequests(rank[r], t)
         /\ RankTypes' /\ Agreement' /\ \A q \in Ranks : Control(conf, start, rank[q])'
         /\ \A q \in Ranks : Written(conf, writer, shards, q, rank'[q])
<1>1. RankTypes /\ FileTypes
  BY TypeParts DEF IInv
<1>2. rank'[r] = t /\ t \in RankStates /\ \A q \in Ranks \ {r} : rank'[q] = rank[q]
  BY <1>1 DEF Goes, Moves, RankTypes
<1>3. SameRequests(rank[r], t)
  <2>1. t.iteration = rank[r].iteration /\ t.iteration \in Int
    BY <1>2, RequestTypes DEF Goes, Moves
  <2> QED
    BY <2>1 DEF Goes, Moves, SameRequests
<1>4. RankTypes'
  <2>1. rank' \in [Ranks -> RankStates]
    BY <1>1, <1>2 DEF Goes, RankTypes
  <2>2. \A q \in Ranks : rank'[q].queue = rank[q].queue
    BY <1>2, <1>3 DEF SameRequests
  <2> QED
    BY <1>1, <2>1, <2>2 DEF RankTypes
<1>5. Agreement'
  BY <1>1, AgreementLocal DEF IInv, Goes, Moves, RankTypes
<1>6. \A q \in Ranks : Control(conf, start, rank[q])'
  <2> SUFFICES ASSUME NEW q \in Ranks PROVE Control(conf', start', rank'[q])
    OBVIOUS
  <2> QED
    BY <1>2 DEF Goes, Moves, IInv
<1>7. \A q \in Ranks : Written(conf, writer, shards, q, rank'[q])
  <2> SUFFICES ASSUME NEW q \in Ranks PROVE Written(conf, writer, shards, q, rank'[q])
    OBVIOUS
  <2>1. Written(conf, writer, shards, q, rank[q])
    BY DEF IInv
  <2>2. CASE q = r
    BY <1>2, <1>3, <2>1, <2>2, WrittenKept DEF Goes
  <2>3. CASE q # r
    BY <1>2, <2>1, <2>3
  <2> QED
    BY <2>2, <2>3
<1> QED
  BY <1>2, <1>3, <1>4, <1>5, <1>6, <1>7

(* It keeps the order of the requests, unless it is about to start a save.     *)
LEMMA GoesOrdered ==
  ASSUME IInv, NEW r \in Ranks, NEW t, Goes(r, t), UNCHANGED <<common, config>>,
         rank[r].pc # "join", t.pc # "join", t.pc \in Called => rank[r].pc \in Called,
         ~IsStarting(r, t)
  PROVE  Ordered'
<1> SUFFICES ASSUME NEW q \in Ranks
             PROVE  /\ Queued(conf, start, common, config, rank'[q])
                    /\ IsStarting(q, rank'[q]) => Fresh(start, common, config, rank'[q])
  BY DEF Goes, Ordered
<1>1. /\ Queued(conf, start, common, config, rank[q])
      /\ IsStarting(q, rank[q]) => Fresh(start, common, config, rank[q])
  BY DEF IInv, Ordered
<1>2. CASE q = r
  <2>1. /\ rank[r] \in RankStates /\ t \in RankStates /\ rank'[r] = t
        /\ SameRequests(rank[r], t) /\ common \in SUBSET Int
    BY GoesParts, TypeParts, IterationTypes DEF IInv, RankTypes
  <2>2. Queued(conf, start, common, config, t)
    BY <1>1, <1>2, <2>1, QueuedKept
  <2> QED
    BY <1>2, <2>1, <2>2
<1>3. CASE q # r
  BY <1>1, <1>3, GoesParts
<1> QED
  BY <1>2, <1>3

(* The quiet steps: nothing but the rank changes.                              *)
QuietPoints ==
  {"top", "ramp_up", "train", "handler", "signals", "interval", "exit_check", "durations",
   "after_training", "exit", "common", "plan", "saved", "poll", "alive", "done"}

LEMMA QuietStep ==
  ASSUME IInv, NEW r \in Ranks, NEW t, Goes(r, t), rank[r].pc # "join",
         t.pc \in QuietPoints, t.pc = "common" => r = Rank0, t.pc = "plan" => r # Rank0,
         UNCHANGED <<conf, writer, exiting, start, restarts, deaths, files>>
  PROVE  IInv'
<1>1. /\ rank'[r] = t /\ \A q \in Ranks \ {r} : rank'[q] = rank[q]
      /\ RankTypes' /\ Agreement' /\ \A q \in Ranks : Control(conf, start, rank[q])'
      /\ \A q \in Ranks : Written(conf, writer, shards, q, rank'[q])
  BY GoesParts
<1>2. TypeOK'
  <2>1. FileTypes'
    BY TypeParts DEF IInv, FileTypes, files
  <2> QED
    BY <1>1, <2>1, TypeParts
<1>3. \A q \in Ranks : Written(conf', writer', shards', q, rank'[q])
  BY <1>1 DEF files
<1>4. Ordered'
  BY GoesOrdered DEF QuietPoints, Called, IsStarting, files
<1>5. Finalizing'
  <2>1. CASE r = Rank0
    BY <1>1, <2>1, CheckpointingAssumption DEF IInv, Finalizing, QuietPoints, OnlyRank0, files
  <2>2. CASE r # Rank0
    BY <1>1, <2>2, CheckpointingAssumption DEF IInv, Finalizing, QuietPoints, OnlyRank0, files
  <2> QED
    BY <2>1, <2>2
<1>6. OnlyCompleteIsPublished'
  BY DEF IInv, OnlyCompleteIsPublished, Complete, files
<1> QED
  BY <1>1, <1>2, <1>3, <1>4, <1>5, <1>6 DEF IInv

LEMMA JobFacts ==
  ASSUME IInv, NEW r \in Ranks
  PROVE  /\ Job(conf, start, rank[r]) /\ rank[r] \in RankStates
         /\ Queued(conf, start, common, config, rank[r])
BY TypeParts DEF IInv, Job, Ordered, RankTypes, FileTypes

LEMMA Points ==
  ASSUME NEW s \in RankStates, NEW r, NEW pc, NEW ret
  PROVE  /\ SaveFrom(r, s, ret).pc = IF r = Rank0 THEN "common" ELSE "plan"
         /\ At(s, pc).pc = pc
BY DEF SaveFrom, At, RankStates

LEMMA LoopHeadStep ==
  ASSUME IInv, NEW r \in Ranks, LoopHead(r)
  PROVE  IInv'
<1> DEFINE s == rank[r]
           t == IF s.iteration < NumIters THEN PollFrom(s, FALSE, "ramp_up")
                ELSE PollFrom(s, TRUE, "after_training")
<1>1. Job(conf, start, s) /\ s.pc = "top" /\ s \in RankStates
  BY JobFacts DEF LoopHead, Local
<1>2. Goes(r, t)
  BY <1>1, TopMoves DEF Goes, LoopHead, Set
<1>3. t.pc = "poll"
  BY <1>1 DEF PollFrom, RankStates
<1> QED
  BY <1>1, <1>2, <1>3, QuietStep DEF LoopHead, QuietPoints

LEMMA RampUpSaveStep ==
  ASSUME IInv, NEW r \in Ranks, RampUpSave(r)
  PROVE  IInv'
<1> DEFINE s == rank[r]
           t == IF s.iteration \in RampUp /\ s.iteration # start
                THEN SaveFrom(r, s, "train") ELSE At(s, "train")
<1>1. Job(conf, start, s) /\ s.pc = "ramp_up" /\ s \in RankStates
  BY JobFacts DEF RampUpSave, Local
<1>2. Goes(r, t)
  BY <1>1, RampUpMoves DEF Goes, RampUpSave, Set
<1>3. t.pc \in {"train", IF r = Rank0 THEN "common" ELSE "plan"}
  BY <1>1, Points
<1> QED
  BY <1>1, <1>2, <1>3, QuietStep DEF RampUpSave, QuietPoints

LEMMA ReadSignalStep ==
  ASSUME IInv, NEW r \in Ranks, ReadSignal(r)
  PROVE  IInv'
<1> DEFINE s == rank[r]
           b == r \in exiting
           t == [s EXCEPT !.pc = "signals", !.flag = b]
<1>1. Job(conf, start, s) /\ s.pc = "handler" /\ s \in RankStates
  BY JobFacts DEF ReadSignal, Local
<1>2. NextMeeting(conf, start, s) = <<"signals", s.ret>> /\ s.iteration >= 1
  BY <1>1 DEF NextMeeting, Job, Control
<1>3. Moves(conf, start, s, t)
  <2>1. b \in BOOLEAN
    OBVIOUS
  <2> QED
    BY <1>1, <1>2, <2>1, FlagMoves
<1>4. Goes(r, t)
  BY <1>1, <1>3 DEF Goes, ReadSignal, Set
<1>5. t.pc = "signals"
  BY <1>1 DEF RankStates
<1> HIDE DEF t
<1> QED
  BY <1>1, <1>4, <1>5, QuietStep DEF ReadSignal, QuietPoints

LEMMA IntervalSaveStep ==
  ASSUME IInv, NEW r \in Ranks, IntervalSave(r)
  PROVE  IInv'
<1> DEFINE s == rank[r]
           t == IF IsSaveInterval(s.iteration)
                THEN SaveFrom(r, s, "exit_check") ELSE At(s, "exit_check")
<1>1. Job(conf, start, s) /\ s.pc = "interval" /\ s \in RankStates
  BY JobFacts DEF IntervalSave, Local
<1>2. Goes(r, t)
  BY <1>1, IntervalMoves DEF Goes, IntervalSave, Set
<1>3. t.pc \in {"exit_check", IF r = Rank0 THEN "common" ELSE "plan"}
  BY <1>1, Points
<1> QED
  BY <1>1, <1>2, <1>3, QuietStep DEF IntervalSave, QuietPoints

LEMMA ExitCheckStep ==
  ASSUME IInv, NEW r \in Ranks, ExitCheck(r)
  PROVE  IInv'
<1> DEFINE s == rank[r]
           b == r \in exiting
           t == IF conf.exit = "duration" THEN [s EXCEPT !.pc = "durations", !.flag = b]
                ELSE IF conf.exit = "interval" /\ s.iteration % ExitInterval = 0
                THEN IF IsSaveInterval(s.iteration) THEN At(s, "exit") ELSE SaveFrom(r, s, "exit")
                ELSE At(s, "top")
<1>1. Job(conf, start, s) /\ s.pc = "exit_check" /\ s \in RankStates
  BY JobFacts DEF ExitCheck, Local
<1>2. Moves(conf, start, s, t)
  <2>1. b \in BOOLEAN
    OBVIOUS
  <2> QED
    BY <1>1, <2>1, ExitCheckMoves
<1>3. Goes(r, t)
  BY <1>1, <1>2 DEF Goes, ExitCheck, Set, SaveAndExit
<1>4. t.pc \in {"durations", "exit", "top", IF r = Rank0 THEN "common" ELSE "plan"}
  <2>1. [s EXCEPT !.pc = "durations", !.flag = b].pc = "durations"
    BY <1>1 DEF RankStates
  <2> QED
    BY <1>1, <2>1, Points
<1> HIDE DEF t
<1> QED
  BY <1>1, <1>3, <1>4, QuietStep DEF ExitCheck, QuietPoints

LEMMA FinalSaveStep ==
  ASSUME IInv, NEW r \in Ranks, FinalSave(r)
  PROVE  IInv'
<1> DEFINE s == rank[r]
           t == IF ~IsSaveInterval(s.iteration) THEN SaveFrom(r, s, "exit") ELSE At(s, "exit")
<1>1. Job(conf, start, s) /\ s.pc = "after_training" /\ s \in RankStates
  BY JobFacts DEF FinalSave, Local
<1>2. Goes(r, t)
  BY <1>1, AfterTrainingMoves DEF Goes, FinalSave, Set
<1>3. t.pc \in {"exit", IF r = Rank0 THEN "common" ELSE "plan"}
  BY <1>1, Points
<1> QED
  BY <1>1, <1>2, <1>3, QuietStep DEF FinalSave, QuietPoints

LEMMA ExitStep ==
  ASSUME IInv, NEW r \in Ranks, Exit(r)
  PROVE  IInv'
<1> DEFINE s == rank[r]
           t == PollFrom(s, TRUE, "done")
<1>1. Job(conf, start, s) /\ s.pc = "exit" /\ s \in RankStates
  BY JobFacts DEF Exit, Local
<1>2. Goes(r, t)
  BY <1>1, ExitMoves DEF Goes, Exit, Set
<1>3. t.pc = "poll"
  BY <1>1 DEF PollFrom, RankStates
<1> QED
  BY <1>1, <1>2, <1>3, QuietStep DEF Exit, QuietPoints

LEMMA PollStep ==
  ASSUME IInv, NEW r \in Ranks, Poll(r)
  PROVE  IInv'
<1> DEFINE s == rank[r]
           b == writer[r][Head(s.queue).iteration] = "alive"
           t == IF s.queue = <<>> THEN At(s, s.ret) ELSE [s EXCEPT !.pc = "alive", !.flag = b]
<1>1. /\ Job(conf, start, s) /\ s.pc = "poll" /\ s \in RankStates
      /\ Queued(conf, start, common, config, s)
  BY JobFacts DEF Poll, Local
<1>2. ~conf.async => s.queue = <<>>
  BY <1>1 DEF Queued
<1>3. Moves(conf, start, s, t)
  <2>1. b \in BOOLEAN
    OBVIOUS
  <2> QED
    BY <1>1, <1>2, <2>1, PollOnceMoves
<1>4. Goes(r, t)
  BY <1>1, <1>3 DEF Goes, Poll, Set
<1>5. t.pc \in {"alive", "ramp_up", "after_training", "done"}
  <2>1. s.ret \in PollReturns
    BY <1>1 DEF Job, Control, Polling
  <2>2. [s EXCEPT !.pc = "alive", !.flag = b].pc = "alive"
    BY <1>1 DEF RankStates
  <2> QED
    BY <1>1, <2>1, <2>2, Points DEF PollReturns
<1> HIDE DEF t
<1> QED
  BY <1>1, <1>4, <1>5, QuietStep DEF Poll, QuietPoints

-----------------------------------------------------------------------------
(* Steps that change requests or files.                                        *)
Raises(r, t) ==
  t.pc = "raised" /\ NextMeeting(conf, start, rank[r])[1] \in {"plan", "gather"}

LEMMA StepParts ==
  ASSUME IInv, NEW r \in Ranks, NEW t \in RankStates, rank[r].pc # "raised",
         rank' = [rank EXCEPT ![r] = t], UNCHANGED <<conf, start>>,
         Control(conf, start, t), Len(t.queue) <= NumIters,
         Raises(r, t) \/ (t.pc # "raised" /\ SameFuture(conf, start, rank[r], t))
  PROVE  /\ rank'[r] = t /\ \A q \in Ranks \ {r} : rank'[q] = rank[q]
         /\ RankTypes' /\ Agreement' /\ \A q \in Ranks : Control(conf, start, rank[q])'
<1>1. RankTypes /\ FileTypes
  BY TypeParts DEF IInv
<1>2. rank'[r] = t /\ \A q \in Ranks \ {r} : rank'[q] = rank[q]
  BY <1>1 DEF RankTypes
<1>3. RankTypes'
  BY <1>1, <1>2 DEF RankTypes
<1>4. Agreement'
  BY <1>1, AgreementLocal, AgreementRaise DEF IInv, Raises, RankTypes
<1>5. \A q \in Ranks : Control(conf, start, rank[q])'
  <2> SUFFICES ASSUME NEW q \in Ranks PROVE Control(conf', start', rank'[q])
    OBVIOUS
  <2> QED
    BY <1>2 DEF IInv
<1> QED
  BY <1>2, <1>3, <1>4, <1>5

(* An iteration whose directory is empty is new to the job.                    *)
LEMMA FreshIteration ==
  ASSUME NEW c, NEW st \in Nat, NEW cm \in SUBSET Int, NEW cf \in SUBSET cm, NEW s \in RankStates,
         Queued(c, st, cm, cf, s), s.iteration >= 1, st <= s.iteration,
         st = 0 \/ st \in cm, s.iteration \notin cm
  PROVE  Fresh(st, cm \cup {s.iteration}, cf, s)
<1>1. s.iteration > st
  BY RequestTypes
<1>2. s.iteration \in (cm \cup {s.iteration}) \ cf
  OBVIOUS
<1>3. s.call_idx + 1 < s.iteration
  <2>1. CASE s.call_idx >= 0
    <3>1. PICK j \in cm : j <= s.iteration /\ s.call_idx < j
      BY <2>1 DEF Queued
    <3>2. j \in Int /\ j # s.iteration
      BY <3>1
    <3> QED
      BY <3>1, <3>2, RequestTypes
  <2>2. CASE ~(s.call_idx >= 0)
    BY <2>2, RequestTypes
  <2> QED
    BY <2>1, <2>2
<1>4. s.call.iteration < s.iteration
  <2>1. CASE s.call.idx >= 0
    <3>1. s.call.iteration \in cm /\ s.call.iteration <= s.iteration
      BY <2>1 DEF Queued
    <3> QED
      BY <3>1, RequestTypes
  <2>2. CASE ~(s.call.idx >= 0)
    <3>1. s.call.iteration = 0
      BY <2>2, RequestTypes DEF Queued
    <3> QED
      BY <3>1, RequestTypes
  <2> QED
    BY <2>1, <2>2
<1>5. \A k \in 1 .. Len(s.queue) : s.queue[k].iteration < s.iteration
  <2> SUFFICES ASSUME NEW k \in 1 .. Len(s.queue) PROVE s.queue[k].iteration < s.iteration
    OBVIOUS
  <2>1. s.queue[k].iteration \in cm /\ s.queue[k].iteration <= s.iteration
    BY DEF Queued
  <2> QED
    BY <2>1, RequestTypes
<1> QED
  BY <1>1, <1>2, <1>3, <1>4, <1>5 DEF Fresh

LEMMA SaveCommonStep ==
  ASSUME IInv, NEW r \in Ranks, SaveCommon(r)
  PROVE  IInv'
<1> DEFINE s == rank[r]
           t == At(s, IF s.iteration \in common THEN "raised" ELSE "plan")
<1>1. /\ Job(conf, start, s) /\ s.pc = "common" /\ s \in RankStates
      /\ Queued(conf, start, common, config, s)
      /\ rank' = [rank EXCEPT ![r] = t] /\ common' = common \cup {s.iteration}
      /\ UNCHANGED <<conf, writer, exiting, start, restarts, deaths, shards, metadata, config,
                     tracker>>
  BY JobFacts DEF SaveCommon, Local, Set
<1>2. r = Rank0 /\ (start = 0 \/ start \in common)
  <2>1. Finalizing
    BY DEF IInv
  <2>2. s.pc \in OnlyRank0
    BY <1>1 DEF OnlyRank0
  <2> QED
    BY <2>1, <2>2 DEF Finalizing
<1>3. /\ t.pc = (IF s.iteration \in common THEN "raised" ELSE "plan")
      /\ t.ret = s.ret /\ t.iteration = s.iteration /\ t.queue = s.queue
      /\ t.call_idx = s.call_idx /\ t.call = s.call /\ t \in RankStates
  BY <1>1, AtFields DEF At, RankStates, CollectivePoints, EndPoints
<1>4. SameRequests(s, t) /\ s.iteration >= 1 /\ s.iteration \in Iterations
  BY <1>1, <1>3, RequestTypes DEF SameRequests, Job, Control, Saving, Iterations
<1>5. Control(conf, start, t)
  BY <1>1, <1>3 DEF Job, Control, Polling, Saving
<1>6. NextMeeting(conf, start, s) = <<"plan", s.ret>>
  BY <1>1 DEF NextMeeting
<1>7. Raises(r, t) \/ (t.pc # "raised" /\ SameFuture(conf, start, s, t))
  <2>1. CASE s.iteration \in common
    BY <1>3, <1>6, <2>1 DEF Raises
  <2>2. CASE s.iteration \notin common
    <3>1. Peers(s, t) /\ SameWay(conf, s, t)
      BY <1>1, <1>3, <2>2 DEF Peers, SameWay
    <3> QED
      BY <1>3, <2>2, <3>1, PeersMeet
  <2> QED
    BY <2>1, <2>2
<1>8. /\ rank'[r] = t /\ \A q \in Ranks \ {r} : rank'[q] = rank[q]
      /\ RankTypes' /\ Agreement' /\ \A q \in Ranks : Control(conf, start, rank[q])'
  <2>1. Len(t.queue) <= NumIters
    BY <1>3, TypeParts DEF IInv, RankTypes
  <2> HIDE DEF t
  <2> QED
    BY <1>1, <1>3, <1>5, <1>7, <2>1, StepParts
<1> HIDE DEF t
<1>9. FileTypes'
  BY <1>1, <1>4, TypeParts DEF IInv, FileTypes
<1>10. Ordered'
  <2> SUFFICES ASSUME NEW q \in Ranks
               PROVE  /\ Queued(conf, start, common', config, rank'[q])
                      /\ IsStarting(q, rank'[q]) => Fresh(start, common', config, rank'[q])
    BY <1>1 DEF Ordered
  <2>1. /\ Queued(conf, start, common, config, rank[q])
        /\ IsStarting(q, rank[q]) => Fresh(start, common, config, rank[q])
    BY DEF IInv, Ordered
  <2>2. CASE q = r
    <3>1. Queued(conf, start, common, config, t)
      <4>1. common \in SUBSET Int
        BY IterationTypes, TypeParts DEF IInv
      <4> QED
        BY <1>1, <1>3, <1>4, <4>1, QueuedKept DEF Called
    <3>2. Queued(conf, start, common', config, t)
      BY <1>1, <3>1, QueuedMoreFiles
    <3>3. IsStarting(r, t) => Fresh(start, common', config, t)
      <4> SUFFICES ASSUME s.iteration \notin common PROVE Fresh(start, common', config, t)
        BY <1>3 DEF IsStarting
      <4>1. common \in SUBSET Int /\ config \in SUBSET common /\ start \in Nat /\ start <= s.iteration
        BY <1>1, IterationTypes, TypeParts DEF IInv, OnlyCompleteIsPublished, Complete, FileTypes,
                                               Job, Control
      <4>2. Fresh(start, common \cup {s.iteration}, config, s)
        BY <1>1, <1>2, <1>4, <4>1, FreshIteration
      <4> QED
        BY <1>1, <1>3, <4>2, FreshPeers DEF Peers
    <3> QED
      BY <1>8, <2>2, <3>2, <3>3
  <2>3. CASE q # r
    BY <1>1, <1>8, <2>1, <2>3, QueuedMoreFiles, FreshMoreFiles
  <2> QED
    BY <2>2, <2>3
<1>11. \A q \in Ranks : Written(conf', writer', shards', q, rank'[q])
  <2> SUFFICES ASSUME NEW q \in Ranks PROVE Written(conf, writer, shards, q, rank'[q])
    BY <1>1
  <2>1. Written(conf, writer, shards, q, rank[q])
    BY DEF IInv
  <2> QED
    BY <1>1, <1>4, <1>8, <2>1, WrittenKept
<1>12. Finalizing'
  BY <1>1, <1>2, <1>3, <1>8 DEF IInv, Finalizing, OnlyRank0
<1>13. OnlyCompleteIsPublished'
  BY <1>1 DEF IInv, OnlyCompleteIsPublished, Complete
<1> QED
  BY <1>8, <1>9, <1>10, <1>11, <1>12, <1>13, TypeParts DEF IInv

(* What rank 0 finalizes is the call of all ranks, and none of them has raised. *)
LEMMA CalledIteration ==
  ASSUME IInv, NEW r \in Ranks, rank[r].pc \in Called
  PROVE  /\ rank[r].call.idx >= 0 /\ rank[r].call.iteration > start
         /\ rank[r].call.iteration \in common /\ rank[r].call.iteration \in Iterations
<1>1. Queued(conf, start, common, config, rank[r]) /\ common \subseteq Iterations
  BY JobFacts, TypeParts DEF IInv, FileTypes
<1> QED
  BY <1>1 DEF Queued

LEMMA SameCall ==
  ASSUME Agreement, NEW r \in Ranks, NEW q \in Ranks,
         rank[r].pc \in {"config", "tracker", "write_tracker"}
  PROVE  rank[q].pc # "raised" /\ rank[q].call = rank[r].call /\ rank[q].queue = rank[r].queue
<1> DEFINE at == IF rank[r].pc = "config" THEN "configured"
                 ELSE IF conf.async THEN "agree" ELSE "saved"
<1>1. /\ NextMeeting(conf, start, rank[r]) = <<at, rank[r].ret>>
      /\ NextQueue(conf, rank[r]) = rank[r].queue /\ NextCall(conf, rank[r]) = rank[r].call
  BY DEF NextMeeting, NextQueue, NextCall
<1>2. rank[q].pc # "raised"
  <2>1. at \notin {"plan", "gather"} /\ NextMeeting(conf, start, rank[r])[1] = at
    BY <1>1
  <2> QED
    BY <2>1 DEF Agreement
<1>3. SameFuture(conf, start, rank[r], rank[q])
  BY <1>2 DEF Agreement
<1>4. rank[q].pc \notin {"start", "join"}
  <2>1. NextMeeting(conf, start, rank[q])[1] = at
    BY <1>1, <1>3 DEF SameFuture
  <2>2. rank[q].pc = "join" => NextMeeting(conf, start, rank[q])[1] = "gather"
    BY DEF NextMeeting
  <2>3. rank[q].pc = "start" =>
          NextMeeting(conf, start, rank[q])[1] = IF conf.async THEN "saved" ELSE "gather"
    BY DEF NextMeeting
  <2> QED
    BY <2>1, <2>2, <2>3
<1>5. NextQueue(conf, rank[q]) = rank[q].queue /\ NextCall(conf, rank[q]) = rank[q].call
  BY <1>4 DEF NextQueue, NextCall
<1> QED
  BY <1>1, <1>2, <1>3, <1>5 DEF SameFuture

(* Rank 0 writes a file and goes on to point pc.                               *)
LEMMA FinalizeGoes ==
  ASSUME IInv, NEW r \in Ranks, NEW pc, rank' = [rank EXCEPT ![r] = At(rank[r], pc)],
         UNCHANGED <<conf, start>>,
         \/ rank[r].pc = "metadata" /\ pc = "written"
         \/ rank[r].pc = "config" /\ pc = "configured"
         \/ rank[r].pc = "tracker" /\ pc = "write_tracker"
         \/ rank[r].pc = "write_tracker" /\ pc = AfterTracker
  PROVE  /\ r = Rank0 /\ Goes(r, At(rank[r], pc))
         /\ rank'[r].pc = pc /\ rank'[r].call = rank[r].call
<1> DEFINE s == rank[r]
<1>1. Job(conf, start, s) /\ s \in RankStates /\ Finalizing
  BY JobFacts DEF IInv
<1>2. At(s, pc).pc = pc /\ Peers(s, At(s, pc)) /\ At(s, pc).blocking = s.blocking
  BY <1>1, AtFields DEF Peers
<1>3. Control(conf, start, At(s, pc))
  BY <1>1, <1>2 DEF Job, Control, Polling, Saving, Peers, AfterTracker
<1>4. NextMeeting(conf, start, At(s, pc)) = NextMeeting(conf, start, s)
  <2>1. SameWay(conf, At(s, pc), s)
    BY <1>1, <1>2 DEF SameWay, AfterTracker
  <2> QED
    BY <1>2, <2>1, PeersMeet DEF SameFuture, Peers
<1>5. Moves(conf, start, s, At(s, pc))
  BY <1>1, <1>3, <1>4, AtMoves DEF CollectivePoints, LocalPoints, AfterTracker
<1>6. Goes(r, At(s, pc))
  BY <1>5 DEF Goes
<1>7. r = Rank0
  <2>1. s.pc \in OnlyRank0
    BY DEF OnlyRank0
  <2> QED
    BY <1>1, <2>1 DEF Finalizing
<1>8. rank'[r] = At(s, pc)
  BY <1>6, GoesParts
<1> QED
  BY <1>2, <1>6, <1>7, <1>8 DEF Peers

LEMMA WriteMetadataStep ==
  ASSUME IInv, NEW r \in Ranks, WriteMetadata(r)
  PROVE  IInv'
<1> DEFINE s == rank[r]
           t == At(s, "written")
<1>1. /\ s.pc = "metadata" /\ rank' = [rank EXCEPT ![r] = t]
      /\ metadata' = metadata \cup {s.call.iteration}
      /\ UNCHANGED <<conf, writer, exiting, start, restarts, deaths, shards, common, config,
                     tracker>>
  BY DEF WriteMetadata, Local, Set
<1>2. r = Rank0 /\ Goes(r, t) /\ rank'[r].pc = "written" /\ rank'[r].call = s.call
  BY <1>1, FinalizeGoes
<1>3. s.call.iteration \in Iterations
  BY <1>1, CalledIteration DEF Called
<1> HIDE DEF t
<1>4. /\ rank'[r] = t /\ \A q \in Ranks \ {r} : rank'[q] = rank[q]
      /\ RankTypes' /\ Agreement' /\ \A q \in Ranks : Control(conf, start, rank[q])'
      /\ \A q \in Ranks : Written(conf, writer, shards, q, rank'[q])
  BY <1>2, GoesParts
<1>5. FileTypes'
  BY <1>1, <1>3, TypeParts DEF IInv, FileTypes
<1>6. Ordered'
  BY <1>1, <1>2, <1>4, GoesOrdered DEF Called, IsStarting
<1>7. Finalizing'
  BY <1>1, <1>2, <1>4 DEF IInv, Finalizing, OnlyRank0
<1>8. OnlyCompleteIsPublished'
  BY <1>1 DEF IInv, OnlyCompleteIsPublished, Complete
<1> QED
  BY <1>1, <1>4, <1>5, <1>6, <1>7, <1>8, TypeParts DEF IInv

LEMMA OpenTrackerStep ==
  ASSUME IInv, NEW r \in Ranks, OpenTracker(r)
  PROVE  IInv'
<1> DEFINE s == rank[r]
           t == At(s, "write_tracker")
<1>1. /\ s.pc = "tracker" /\ rank' = [rank EXCEPT ![r] = t] /\ tracker' = Truncated
      /\ UNCHANGED <<conf, writer, exiting, start, restarts, deaths, shards, common, metadata,
                     config>>
  BY DEF OpenTracker, Local, Set
<1>2. r = Rank0 /\ Goes(r, t) /\ rank'[r].pc = "write_tracker" /\ rank'[r].call = s.call
  BY <1>1, FinalizeGoes
<1> HIDE DEF t
<1>4. /\ rank'[r] = t /\ \A q \in Ranks \ {r} : rank'[q] = rank[q]
      /\ RankTypes' /\ Agreement' /\ \A q \in Ranks : Control(conf, start, rank[q])'
      /\ \A q \in Ranks : Written(conf, writer, shards, q, rank'[q])
  BY <1>2, GoesParts
<1>5. FileTypes'
  BY <1>1, TypeParts DEF IInv, FileTypes
<1>6. Ordered'
  BY <1>1, <1>2, <1>4, GoesOrdered DEF Called, IsStarting
<1>7. Finalizing'
  BY <1>1, <1>2, <1>4 DEF IInv, Finalizing, OnlyRank0
<1>8. OnlyCompleteIsPublished'
  BY <1>1 DEF IInv, OnlyCompleteIsPublished, Complete, Iterations, Truncated
<1> QED
  BY <1>1, <1>4, <1>5, <1>6, <1>7, <1>8, TypeParts DEF IInv

LEMMA WriteTrackerStep ==
  ASSUME IInv, NEW r \in Ranks, WriteTracker(r)
  PROVE  IInv'
<1> DEFINE s == rank[r]
           t == At(s, AfterTracker)
<1>1. /\ s.pc = "write_tracker" /\ rank' = [rank EXCEPT ![r] = t] /\ tracker' = s.call.iteration
      /\ UNCHANGED <<conf, writer, exiting, start, restarts, deaths, shards, common, metadata,
                     config>>
  BY DEF WriteTracker, Local, Set
<1>2. /\ r = Rank0 /\ Goes(r, t) /\ rank'[r].pc \in {"agree", "saved"}
      /\ rank'[r].call = s.call
  BY <1>1, FinalizeGoes DEF AfterTracker
<1>3. s.call.iteration \in Iterations /\ s.call.iteration \in config
  BY <1>1, <1>2, CalledIteration DEF Called, IInv, Finalizing
<1> HIDE DEF t
<1>4. /\ rank'[r] = t /\ \A q \in Ranks \ {r} : rank'[q] = rank[q]
      /\ RankTypes' /\ Agreement' /\ \A q \in Ranks : Control(conf, start, rank[q])'
      /\ \A q \in Ranks : Written(conf, writer, shards, q, rank'[q])
  BY <1>2, GoesParts
<1>5. FileTypes'
  BY <1>1, <1>3, TypeParts DEF IInv, FileTypes
<1>6. Ordered'
  BY <1>1, <1>2, <1>4, GoesOrdered DEF Called, IsStarting
<1>7. Finalizing'
  BY <1>1, <1>2, <1>4 DEF IInv, Finalizing, OnlyRank0
<1>8. OnlyCompleteIsPublished'
  BY <1>1, <1>3 DEF IInv, OnlyCompleteIsPublished, Complete
<1> QED
  BY <1>1, <1>4, <1>5, <1>6, <1>7, <1>8, TypeParts DEF IInv

LEMMA WriteConfigStep ==
  ASSUME IInv, NEW r \in Ranks, WriteConfig(r)
  PROVE  IInv'
<1> DEFINE s == rank[r]
           i == s.call.iteration
           t == At(s, "configured")
<1>1. /\ s.pc = "config" /\ rank' = [rank EXCEPT ![r] = t] /\ config' = config \cup {i}
      /\ UNCHANGED <<conf, writer, exiting, start, restarts, deaths, shards, common, metadata,
                     tracker>>
  BY DEF WriteConfig, Local, Set
<1>2. r = Rank0 /\ Goes(r, t) /\ rank'[r].pc = "configured" /\ rank'[r].call = s.call
  BY <1>1, FinalizeGoes
<1>3. s.call.idx >= 0 /\ i \in Iterations /\ i \in common /\ i \in metadata
  BY <1>1, <1>2, CalledIteration DEF Called, IInv, Finalizing
<1>4. \A q \in Ranks : rank[q].pc # "raised" /\ rank[q].call = s.call
  BY <1>1, SameCall DEF IInv
<1> HIDE DEF t
<1>5. /\ rank'[r] = t /\ \A q \in Ranks \ {r} : rank'[q] = rank[q]
      /\ RankTypes' /\ Agreement' /\ \A q \in Ranks : Control(conf, start, rank[q])'
      /\ \A q \in Ranks : Written(conf, writer, shards, q, rank'[q])
      /\ t \in RankStates /\ SameRequests(s, t)
  BY <1>2, GoesParts
<1>6. FileTypes'
  BY <1>1, <1>3, TypeParts DEF IInv, FileTypes
<1>7. Ordered'
  <2> SUFFICES ASSUME NEW q \in Ranks
               PROVE  /\ Queued(conf, start, common, config', rank'[q])
                      /\ ~IsStarting(q, rank'[q])
    BY <1>1 DEF Ordered
  <2>1. Queued(conf, start, common, config, rank[q]) /\ rank[q] \in RankStates
    BY JobFacts
  <2>2. Queued(conf, start, common, config', rank[q])
    BY <1>1, <1>4, <2>1, QueuedConfigured
  <2>3. CASE q = r
    <3>1. rank'[q] = t /\ t.pc = "configured" /\ common \in SUBSET Int
      BY <1>2, <1>5, <2>3, IterationTypes, TypeParts DEF IInv
    <3>2. Queued(conf, start, common, config', t)
      BY <1>1, <1>5, <2>1, <2>2, <2>3, <3>1, QueuedKept DEF Called
    <3> QED
      BY <3>1, <3>2 DEF IsStarting
  <2>4. CASE q # r
    <3>1. SameFuture(conf, start, rank[r], rank[q])
      BY <1>1, <1>4 DEF IInv, Agreement
    <3>2. NextMeeting(conf, start, rank[r])[1] = "configured"
      BY <1>1 DEF NextMeeting
    <3>3. rank[q].pc = "start" => NextMeeting(conf, start, rank[q])[1] \in {"saved", "gather"}
      BY DEF NextMeeting
    <3>4. rank[q].pc # "start"
      BY <3>1, <3>2, <3>3 DEF SameFuture
    <3> QED
      BY <1>2, <1>5, <2>2, <2>4, <3>4 DEF IsStarting
  <2> QED
    BY <2>3, <2>4
<1>8. Finalizing'
  <2>1. i \in config' /\ rank'[Rank0].call.iteration = i
    BY <1>1, <1>2
  <2> QED
    BY <1>1, <1>2, <1>3, <1>5, <2>1 DEF IInv, Finalizing, OnlyRank0
<1>9. OnlyCompleteIsPublished'
  <2>1. \A q \in conf.withData : <<q, i>> \in shards
    <3> SUFFICES ASSUME NEW q \in conf.withData PROVE <<q, i>> \in shards
      OBVIOUS
    <3>1. q \in Ranks
      BY TypeFacts DEF IInv
    <3> QED
      BY <1>3, <1>4, <3>1 DEF IInv, Written
  <2> QED
    BY <1>1, <1>3, <2>1 DEF IInv, OnlyCompleteIsPublished, Complete
<1> QED
  BY <1>1, <1>5, <1>6, <1>7, <1>8, <1>9, TypeParts DEF IInv

-----------------------------------------------------------------------------
(* The queue grows at its end and shrinks at its head.                         *)
LEMMA Enqueued ==
  ASSUME NEW S, NEW q \in Seq(S), NEW e \in S
  PROVE  /\ Append(q, e) \in Seq(S) /\ Len(Append(q, e)) = Len(q) + 1
         /\ \A k \in 1 .. Len(q) : Append(q, e)[k] = q[k]
         /\ Append(q, e)[Len(q) + 1] = e
OBVIOUS

LEMMA Dequeued ==
  ASSUME NEW S, NEW q \in Seq(S), q # <<>>
  PROVE  /\ Tail(q) \in Seq(S) /\ Len(Tail(q)) = Len(q) - 1 /\ Len(q) >= 1
         /\ \A k \in 1 .. Len(q) - 1 : Tail(q)[k] = q[k + 1]
         /\ Head(q) = q[1] /\ Head(q) \in S
OBVIOUS

(* The state of a rank after it has started its writer.                        *)
Started(c, s) ==
  IF c.async
  THEN [s EXCEPT !.pc = "saved", !.call_idx = @ + 1, !.queue = Enqueue(@, Asked(s))]
  ELSE [s EXCEPT !.pc = "join", !.queue = <<Asked(s)>>]

LEMMA StartedQueue ==
  ASSUME NEW c, NEW st \in Nat, NEW cm \in SUBSET Int, NEW cf, NEW s \in RankStates, Control(c, st, s),
         s.pc = "start", Queued(c, st, cm, cf, s), Fresh(st, cm, cf, s), c.async \in BOOLEAN
  PROVE  LET t == Started(c, s)
         IN  /\ t \in RankStates /\ t.pc = (IF c.async THEN "saved" ELSE "join")
             /\ t.ret = s.ret /\ t.iteration = s.iteration /\ t.call = s.call
             /\ t.call_idx = NextIdx(c, s) /\ Asked(s) \in Requests
             /\ t.queue = Append(s.queue, Asked(s)) /\ Len(t.queue) <= NumIters
<1> DEFINE t == Started(c, s)
<1>1. s.call_idx + 1 < s.iteration /\ s.iteration <= NumIters
  BY RequestTypes DEF Fresh
<1>2. Asked(s) \in Requests /\ s.call_idx + 1 \in -1 .. NumIters - 1
  BY <1>1, RequestTypes DEF Asked, Request, Requests
<1>3. Append(s.queue, Asked(s)) \in Seq(Requests) /\ <<Asked(s)>> \in Seq(Requests)
      /\ Len(Append(s.queue, Asked(s))) = Len(s.queue) + 1
  BY <1>2, RequestTypes, Enqueued
<1>4. ~c.async => s.queue = <<>>
  BY DEF Queued
<1>5. ~c.async => <<Asked(s)>> = Append(s.queue, Asked(s))
  BY <1>2, <1>4
<1>6. /\ t \in RankStates /\ t.pc = (IF c.async THEN "saved" ELSE "join")
      /\ t.ret = s.ret /\ t.iteration = s.iteration /\ t.call = s.call
  <2>1. CASE c.async
    BY <1>2, <1>3, <2>1 DEF Started, Enqueue, RankStates, CollectivePoints
  <2>2. CASE ~c.async
    BY <1>2, <1>3, <2>2 DEF Started, RankStates, LocalPoints
  <2> QED
    BY <2>1, <2>2
<1>7. t.queue = Append(s.queue, Asked(s)) /\ t.call_idx = NextIdx(c, s)
  <2>1. CASE c.async
    BY <2>1 DEF Started, Enqueue, RankStates, NextIdx
  <2>2. CASE ~c.async
    BY <1>5, <2>2 DEF Started, RankStates, NextIdx
  <2> QED
    BY <2>1, <2>2
<1>8. Len(s.queue) + 1 <= NumIters
  <2>1. CASE s.queue = <<>>
    BY <1>1, <2>1, RequestTypes
  <2>2. CASE s.queue # <<>>
    <3>1. 1 \in 1 .. Len(s.queue) /\ c.async
      BY <1>4, <2>2, RequestTypes
    <3>2. s.queue[1].idx = s.call_idx - Len(s.queue) + 1 /\ s.queue[1].idx >= 0
      BY <3>1 DEF Queued
    <3> QED
      BY <1>1, <3>2, RequestTypes
  <2> QED
    BY <2>1, <2>2
<1> QED
  BY <1>2, <1>3, <1>6, <1>7, <1>8

LEMMA StartedQueued ==
  ASSUME NEW c, NEW st \in Nat, NEW cm \in SUBSET Int, NEW cf, NEW s \in RankStates, NEW t \in RankStates,
         s.pc = "start", Queued(c, st, cm, cf, s), Fresh(st, cm, cf, s), c.async \in BOOLEAN,
         t.pc = (IF c.async THEN "saved" ELSE "join"), t.iteration = s.iteration,
         t.call = s.call, t.call_idx = NextIdx(c, s), t.queue = Append(s.queue, Asked(s)),
         Asked(s) \in Requests
  PROVE  Queued(c, st, cm, cf, t)
<1> DEFINE n == Len(s.queue)
<1>1. /\ n \in Nat /\ Len(t.queue) = n + 1 /\ t.queue[n + 1] = Asked(s)
      /\ \A k \in 1 .. n : t.queue[k] = s.queue[k]
  BY RequestTypes, Enqueued
<1>2. /\ Asked(s).idx = s.call_idx + 1 /\ Asked(s).iteration = s.iteration
  BY DEF Asked, Request
<1>3. c.async => t.call_idx = s.call_idx + 1
  BY DEF NextIdx
<1>4. ~c.async => t.call_idx = s.call_idx /\ s.call_idx = -1 /\ n = 0
  BY RequestTypes DEF NextIdx, Queued
<1>5. ASSUME NEW k \in 1 .. n
      PROVE  /\ c.async => t.queue[k].idx = t.call_idx - Len(t.queue) + k
             /\ t.queue[k].idx >= 0
             /\ t.queue[k].iteration > st /\ t.queue[k].iteration <= t.iteration
             /\ t.queue[k].iteration \in cm \ cf
             /\ t.queue[k].iteration > t.call.iteration
  <2>1. /\ c.async => s.queue[k].idx = s.call_idx - n + k
        /\ s.queue[k].idx >= 0
        /\ s.queue[k].iteration > st /\ s.queue[k].iteration <= s.iteration
        /\ s.queue[k].iteration \in cm \ cf
        /\ s.queue[k].iteration > s.call.iteration
    BY DEF Queued
  <2>2. c.async => s.call_idx - n + k = t.call_idx - Len(t.queue) + k
    <3>1. s.call_idx \in Int /\ n \in Int /\ k \in Int
      BY RequestTypes
    <3>2. s.call_idx - n + k = (s.call_idx + 1) - (n + 1) + k
      BY <3>1
    <3> QED
      BY <1>1, <1>3, <3>2
  <2> QED
    BY <1>1, <2>1, <2>2
<1>6. /\ c.async => t.queue[n + 1].idx = t.call_idx - Len(t.queue) + (n + 1)
      /\ t.queue[n + 1].idx >= 0
      /\ t.queue[n + 1].iteration > st /\ t.queue[n + 1].iteration <= t.iteration
      /\ t.queue[n + 1].iteration \in cm \ cf
      /\ t.queue[n + 1].iteration > t.call.iteration
  <2>1. s.iteration > st /\ s.iteration \in cm \ cf /\ s.call.iteration < s.iteration
    BY DEF Fresh
  <2> QED
    BY <1>1, <1>2, <1>3, <2>1, RequestTypes
<1>7. \A j, k \in 1 .. n + 1 : j < k => t.queue[j].iteration < t.queue[k].iteration
  <2> SUFFICES ASSUME NEW j \in 1 .. n + 1, NEW k \in 1 .. n + 1, j < k
               PROVE  t.queue[j].iteration < t.queue[k].iteration
    OBVIOUS
  <2>1. j \in 1 .. n
    BY <1>1
  <2>2. CASE k \in 1 .. n
    BY <1>1, <2>1, <2>2 DEF Queued
  <2>3. CASE k = n + 1
    BY <1>1, <1>2, <2>1, <2>3 DEF Fresh
  <2> QED
    BY <1>1, <2>2, <2>3
<1>8. t.call_idx >= 0 => \E j \in cm : j <= t.iteration /\ t.call_idx < j
  <2>1. s.iteration \in cm /\ s.call_idx + 1 < s.iteration
    BY DEF Fresh
  <2> QED
    BY <1>3, <1>4, <2>1, RequestTypes
<1>9. \A k \in 1 .. Len(t.queue) : k \in 1 .. n \/ k = n + 1
  BY <1>1
<1>10. ~c.async => Len(t.queue) <= 1 /\ t.pc = "join"
  BY <1>1, <1>4
<1> QED
  <2>1. \A k \in 1 .. Len(t.queue) :
          /\ c.async => t.queue[k].idx = t.call_idx - Len(t.queue) + k
          /\ t.queue[k].idx >= 0
          /\ t.queue[k].iteration > st /\ t.queue[k].iteration <= t.iteration
          /\ t.queue[k].iteration \in cm \ cf
          /\ t.queue[k].iteration > t.call.iteration
    BY <1>5, <1>6, <1>9
  <2>2. \A j, k \in 1 .. Len(t.queue) : j < k => t.queue[j].iteration < t.queue[k].iteration
    BY <1>1, <1>7
  <2>3. /\ t.call.idx >= 0 => t.call.iteration > st /\ t.call.iteration \in cm
        /\ t.call.idx < 0 => t.call.iteration = 0
        /\ t.call.iteration <= t.iteration
    BY DEF Queued
  <2>4. t.pc \notin Called
    BY DEF Called
  <2> HIDE DEF n
  <2> QED
    BY <1>4, <1>8, <1>10, <2>1, <2>2, <2>3, <2>4 DEF Queued

LEMMA WrittenStarted ==
  ASSUME NEW c, NEW w, NEW v, NEW sh, NEW r, NEW s \in RankStates, NEW t \in RankStates,
         w[r] \in [Iterations -> {"none", "alive", "done", "died"}],
         s.iteration \in Iterations, s.pc = "start", Written(c, w, sh, r, s),
         v[r] = (IF r \in c.withData THEN [w[r] EXCEPT ![s.iteration] = "alive"] ELSE w[r]),
         t.call = s.call, t.queue = Append(s.queue, Asked(s)), Asked(s) \in Requests
  PROVE  Written(c, v, sh, r, t)
<1> DEFINE n == Len(s.queue)
<1>1. /\ n \in Nat /\ Len(t.queue) = n + 1 /\ t.queue[n + 1].iteration = s.iteration
      /\ \A k \in 1 .. n : t.queue[k] = s.queue[k]
  BY RequestTypes, Enqueued DEF Asked, Request
<1>2. \A i \in Iterations : v[r][i] = w[r][i] \/ (r \in c.withData /\ i = s.iteration /\ v[r][i] = "alive")
  OBVIOUS
<1>3. ASSUME NEW i \in Iterations
      PROVE  /\ v[r][i] = "done" => <<r, i>> \in sh
             /\ v[r][i] # "none" =>
                  \/ i <= t.call.iteration
                  \/ \E k \in 1 .. Len(t.queue) : t.queue[k].iteration = i
  <2>1. CASE v[r][i] = w[r][i]
    <3>1. /\ w[r][i] = "done" => <<r, i>> \in sh
          /\ w[r][i] # "none" =>
               i <= s.call.iteration \/ \E k \in 1 .. n : s.queue[k].iteration = i
      BY DEF Written
    <3>2. \A k \in 1 .. n : k \in 1 .. Len(t.queue)
      BY <1>1
    <3> QED
      BY <1>1, <2>1, <3>1, <3>2
  <2>2. CASE i = s.iteration /\ v[r][i] = "alive"
    <3>1. n + 1 \in 1 .. Len(t.queue)
      BY <1>1
    <3> QED
      BY <1>1, <2>2, <3>1
  <2> QED
    BY <1>2, <2>1, <2>2
<1>4. ASSUME r \in c.withData, NEW k \in 1 .. Len(t.queue)
      PROVE  v[r][t.queue[k].iteration] # "none"
  <2>1. v[r] = [w[r] EXCEPT ![s.iteration] = "alive"]
    BY <1>4
  <2>2. CASE k = n + 1
    BY <1>1, <2>1, <2>2
  <2>3. CASE k \in 1 .. n
    <3>1. w[r][s.queue[k].iteration] # "none" /\ t.queue[k] = s.queue[k]
      BY <1>1, <1>4, <2>3 DEF Written
    <3> QED
      BY <2>1, <3>1
  <2> QED
    BY <1>1, <2>2, <2>3
<1>5. r \in c.withData /\ t.pc # "raised" /\ t.call.idx >= 0 => <<r, t.call.iteration>> \in sh
  BY DEF Written
<1> QED
  BY <1>3, <1>4, <1>5 DEF Written

LEMMA StartWriterStep ==
  ASSUME IInv, NEW r \in Ranks, StartWriter(r)
  PROVE  IInv'
<1> DEFINE s == rank[r]
           t == Started(conf, s)
<1>1. /\ Job(conf, start, s) /\ s.pc = "start" /\ s \in RankStates
      /\ Queued(conf, start, common, config, s)
  BY JobFacts DEF StartWriter, Local
<1>2. /\ writer' = IF r \in conf.withData
                   THEN [writer EXCEPT ![r][s.iteration] = "alive"] ELSE writer
      /\ rank' = [rank EXCEPT ![r] = t]
      /\ UNCHANGED <<conf, exiting, start, restarts, deaths, files>>
  BY DEF StartWriter, Set, Started, Asked
<1>3. /\ start \in Nat /\ common \in SUBSET Int /\ conf.async \in BOOLEAN
      /\ Fresh(start, common, config, s) /\ Control(conf, start, s)
  BY <1>1, IterationTypes, TypeParts, TypeFacts DEF IInv, Ordered, IsStarting, Job, FileTypes
<1>4. /\ t \in RankStates /\ t.pc = (IF conf.async THEN "saved" ELSE "join")
      /\ t.ret = s.ret /\ t.iteration = s.iteration /\ t.call = s.call
      /\ t.call_idx = NextIdx(conf, s) /\ Asked(s) \in Requests
      /\ t.queue = Append(s.queue, Asked(s)) /\ Len(t.queue) <= NumIters
  BY <1>1, <1>3, StartedQueue
<1>5. Queued(conf, start, common, config, t)
  BY <1>1, <1>3, <1>4, StartedQueued
<1> HIDE DEF t
<1>6. Control(conf, start, t)
  <2>1. t.queue # <<>>
    BY <1>1, <1>4, RequestTypes, Enqueued
  <2> QED
    BY <1>1, <1>3, <1>4, <2>1 DEF Control, Polling, Saving
<1>7. t.pc # "raised" /\ SameFuture(conf, start, s, t)
  <2>1. CASE conf.async
    BY <1>1, <1>4, <2>1 DEF SameFuture, NextMeeting, NextQueue, NextCall, NextIdx
  <2>2. CASE ~conf.async
    <3>1. s.queue = <<>>
      BY <1>1, <2>2 DEF Queued
    <3>2. t.queue # <<>> /\ Head(t.queue) = Asked(s) /\ Tail(t.queue) = <<>>
      BY <1>4, <3>1
    <3> QED
      BY <1>1, <1>4, <2>2, <3>2 DEF SameFuture, NextMeeting, NextQueue, NextCall, NextIdx
  <2> QED
    BY <2>1, <2>2
<1>8. /\ rank'[r] = t /\ \A q \in Ranks \ {r} : rank'[q] = rank[q]
      /\ RankTypes' /\ Agreement' /\ \A q \in Ranks : Control(conf, start, rank[q])'
  BY <1>1, <1>2, <1>4, <1>6, <1>7, StepParts
<1>9. s.iteration \in Iterations
  BY <1>1, <1>3, RequestTypes DEF Control, Saving, Iterations
<1>10. FileTypes'
  BY <1>2, <1>9, TypeParts DEF IInv, FileTypes, files
<1>11. Ordered'
  <2> SUFFICES ASSUME NEW q \in Ranks
               PROVE  /\ Queued(conf, start, common, config, rank'[q])
                      /\ IsStarting(q, rank'[q]) => Fresh(start, common, config, rank'[q])
    BY <1>2 DEF Ordered, files
  <2> QED
    BY <1>4, <1>5, <1>8 DEF IInv, Ordered, IsStarting
<1>12. \A q \in Ranks : Written(conf', writer', shards', q, rank'[q])
  <2> SUFFICES ASSUME NEW q \in Ranks PROVE Written(conf, writer', shards, q, rank'[q])
    BY <1>2 DEF files
  <2>1. /\ Written(conf, writer, shards, q, rank[q])
        /\ writer \in [Ranks -> [Iterations -> {"none", "alive", "done", "died"}]]
    BY TypeParts DEF IInv, FileTypes
  <2>2. CASE q = r
    <3>1. writer'[r] = IF r \in conf.withData THEN [writer[r] EXCEPT ![s.iteration] = "alive"]
                       ELSE writer[r]
      BY <1>2, <2>1
    <3>2. writer[r] \in [Iterations -> {"none", "alive", "done", "died"}]
      BY <2>1
    <3> QED
      BY <1>1, <1>4, <1>8, <1>9, <2>1, <2>2, <3>1, <3>2, WrittenStarted
  <2>3. CASE q # r
    <3>1. writer'[q] = writer[q] /\ rank'[q] = rank[q]
      BY <1>2, <1>8, <2>1, <2>3
    <3> QED
      BY <2>1, <3>1 DEF Written
  <2> QED
    BY <2>2, <2>3
<1>13. Finalizing'
  <2>1. rank'[r].call = s.call /\ rank'[r].pc \in {"saved", "join"}
    BY <1>4, <1>8
  <2> QED
    BY <1>2, <1>8, <2>1, CheckpointingAssumption DEF IInv, Finalizing, OnlyRank0, files
<1>14. OnlyCompleteIsPublished'
  BY <1>2 DEF IInv, OnlyCompleteIsPublished, Complete, files
<1> QED
  BY <1>8, <1>10, <1>11, <1>12, <1>13, <1>14, TypeParts DEF IInv

LEMMA LastDequeued ==
  ASSUME NEW S, NEW q \in Seq(S), q # <<>>, Len(q) <= 1
  PROVE  Tail(q) = <<>> /\ Len(Tail(q)) <= 1
<1> DEFINE n == Len(q)
<1>1. n \in Int /\ 1 <= n /\ n <= 1
  BY Dequeued
<1>2. \A m \in Int : 1 <= m /\ m <= 1 => m = 1
  OBVIOUS
<1>3. n = 1
  <2> HIDE DEF n
  <2> QED
    BY <1>1, <1>2
<1>4. Tail(q) \in Seq(S) /\ Len(Tail(q)) = n - 1
  BY Dequeued
<1>5. Len(Tail(q)) = 0
  BY <1>3, <1>4
<1> QED
  BY <1>4, <1>5

LEMMA JoinedQueued ==
  ASSUME NEW c, NEW st, NEW cm, NEW cf, NEW s \in RankStates, NEW t \in RankStates,
         Queued(c, st, cm, cf, s), s.queue # <<>>, t.pc \in {"gather", "raised"},
         t.iteration = s.iteration, t.call_idx = s.call_idx,
         t.queue = Tail(s.queue), t.call = Head(s.queue)
  PROVE  Queued(c, st, cm, cf, t)
<1> DEFINE n == Len(s.queue)
<1>1. /\ n \in Nat /\ n >= 1 /\ Len(t.queue) = n - 1 /\ t.call = s.queue[1]
      /\ \A k \in 1 .. n - 1 : t.queue[k] = s.queue[k + 1]
  BY RequestTypes, Dequeued
<1>2. 1 \in 1 .. n /\ \A k \in 1 .. n - 1 : k + 1 \in 1 .. n /\ 1 < k + 1 /\ k \in Int
  BY <1>1
<1>3. /\ s.queue[1].idx >= 0 /\ s.queue[1].iteration > st /\ s.queue[1].iteration \in cm
      /\ s.queue[1].iteration <= s.iteration
  BY <1>2 DEF Queued
<1>4. s.queue[1].idx \in Int
  BY <1>2, RequestTypes
<1>5. ASSUME NEW k \in 1 .. n - 1
      PROVE  /\ c.async => t.queue[k].idx = t.call_idx - Len(t.queue) + k
             /\ t.queue[k].idx >= 0
             /\ t.queue[k].iteration > st /\ t.queue[k].iteration <= t.iteration
             /\ t.queue[k].iteration \in cm \ cf
             /\ t.queue[k].iteration > t.call.iteration
  <2>1. /\ c.async => s.queue[k + 1].idx = s.call_idx - n + (k + 1)
        /\ s.queue[k + 1].idx >= 0
        /\ s.queue[k + 1].iteration > st /\ s.queue[k + 1].iteration <= s.iteration
        /\ s.queue[k + 1].iteration \in cm \ cf
        /\ s.queue[1].iteration < s.queue[k + 1].iteration
    BY <1>2 DEF Queued
  <2>2. s.call_idx - n + (k + 1) = s.call_idx - (n - 1) + k
    <3>1. s.call_idx \in Int /\ n \in Int /\ k \in Int
      BY <1>1, RequestTypes
    <3> QED
      BY <3>1
  <2>3. s.queue[1].iteration \in Int /\ s.queue[k + 1].iteration \in Int
    BY <1>2, RequestTypes
  <2> QED
    BY <1>1, <2>1, <2>2, <2>3
<1>6. \A j, k \in 1 .. n - 1 : j < k => t.queue[j].iteration < t.queue[k].iteration
  <2> SUFFICES ASSUME NEW j \in 1 .. n - 1, NEW k \in 1 .. n - 1, j < k
               PROVE  t.queue[j].iteration < t.queue[k].iteration
    OBVIOUS
  <2>1. j + 1 \in 1 .. n /\ k + 1 \in 1 .. n /\ j + 1 < k + 1
    BY <1>1
  <2>2. s.queue[j + 1].iteration < s.queue[k + 1].iteration
    BY <2>1 DEF Queued
  <2> QED
    BY <1>1, <2>2
<1>7. ~c.async => t.call_idx = -1 /\ t.queue = <<>> /\ Len(t.queue) <= 1
  <2> SUFFICES ASSUME ~c.async PROVE t.call_idx = -1 /\ t.queue = <<>> /\ Len(t.queue) <= 1
    OBVIOUS
  <2>1. s.call_idx = -1 /\ n <= 1
    BY DEF Queued
  <2>2. t.queue = <<>> /\ Len(t.queue) <= 1
    BY <2>1, RequestTypes, LastDequeued
  <2> QED
    BY <2>1, <2>2
<1>8. t.call_idx >= 0 => \E j \in cm : j <= t.iteration /\ t.call_idx < j
  BY DEF Queued
<1> QED
  <2>1. \A k \in 1 .. Len(t.queue) :
          /\ c.async => t.queue[k].idx = t.call_idx - Len(t.queue) + k
          /\ t.queue[k].idx >= 0
          /\ t.queue[k].iteration > st /\ t.queue[k].iteration <= t.iteration
          /\ t.queue[k].iteration \in cm \ cf
          /\ t.queue[k].iteration > t.call.iteration
    BY <1>1, <1>5
  <2>2. \A j, k \in 1 .. Len(t.queue) : j < k => t.queue[j].iteration < t.queue[k].iteration
    BY <1>1, <1>6
  <2>3. /\ t.call.idx >= 0 /\ ~(t.call.idx < 0) /\ t.call.iteration > st
        /\ t.call.iteration \in cm /\ t.call.iteration <= t.iteration
    BY <1>1, <1>3, <1>4
  <2> HIDE DEF n
  <2> QED
    BY <1>7, <1>8, <2>1, <2>2, <2>3 DEF Queued

LEMMA JoinedWritten ==
  ASSUME NEW c, NEW w, NEW sh, NEW r, NEW st, NEW cm, NEW cf,
         NEW s \in RankStates, NEW t \in RankStates, Written(c, w, sh, r, s),
         Queued(c, st, cm, cf, s), s.queue # <<>>, s.queue[1].iteration \in Iterations,
         Iterations \in SUBSET Int,
         w[r] \in [Iterations -> {"none", "alive", "done", "died"}],
         w[r][s.queue[1].iteration] # "alive",
         w[r][s.queue[1].iteration] = "died" => t.pc = "raised",
         t.queue = Tail(s.queue), t.call = Head(s.queue)
  PROVE  Written(c, w, sh, r, t)
<1> DEFINE n == Len(s.queue)
<1>1. /\ n \in Nat /\ n >= 1 /\ Len(t.queue) = n - 1 /\ t.call = s.queue[1]
      /\ \A k \in 1 .. n - 1 : t.queue[k] = s.queue[k + 1] /\ k + 1 \in 1 .. n
  BY RequestTypes, Dequeued
<1>2. ASSUME NEW i \in Iterations, w[r][i] # "none"
      PROVE  i <= t.call.iteration \/ \E k \in 1 .. Len(t.queue) : t.queue[k].iteration = i
  <2>1. CASE i <= s.call.iteration
    <3>1. s.call.iteration < s.queue[1].iteration
      BY <1>1 DEF Queued
    <3> QED
      BY <1>1, <2>1, <3>1, RequestTypes
  <2>2. CASE \E k \in 1 .. n : s.queue[k].iteration = i
    <3>1. PICK k \in 1 .. n : s.queue[k].iteration = i
      BY <2>2
    <3>2. CASE k = 1
      BY <1>1, <3>1, <3>2
    <3>3. CASE k # 1
      <4>1. k - 1 \in 1 .. n - 1 /\ (k - 1) + 1 = k
        BY <1>1, <3>3
      <4>2. t.queue[k - 1] = s.queue[k] /\ k - 1 \in 1 .. Len(t.queue)
        BY <1>1, <4>1
      <4> QED
        BY <3>1, <4>2
    <3> QED
      BY <3>2, <3>3
  <2> QED
    BY <1>2, <2>1, <2>2 DEF Written
<1>3. ASSUME r \in c.withData
      PROVE  /\ \A k \in 1 .. Len(t.queue) : w[r][t.queue[k].iteration] # "none"
             /\ t.pc # "raised" => <<r, t.call.iteration>> \in sh
  <2>1. \A k \in 1 .. n : w[r][s.queue[k].iteration] # "none"
    BY <1>3 DEF Written
  <2>2. t.pc # "raised" => w[r][s.queue[1].iteration] = "done"
    <3>1. w[r][s.queue[1].iteration] \in {"none", "alive", "done", "died"}
      OBVIOUS
    <3>2. w[r][s.queue[1].iteration] # "none"
      BY <1>1, <2>1
    <3> QED
      BY <3>1, <3>2
  <2>3. \A k \in 1 .. Len(t.queue) : w[r][t.queue[k].iteration] # "none"
    BY <1>1, <2>1
  <2>4. w[r][s.queue[1].iteration] = "done" => <<r, s.queue[1].iteration>> \in sh
    BY DEF Written
  <2> QED
    BY <1>1, <2>2, <2>3, <2>4
<1>4. \A i \in Iterations : w[r][i] = "done" => <<r, i>> \in sh
  BY DEF Written
<1> QED
  BY <1>2, <1>3, <1>4 DEF Written

LEMMA JoinStep ==
  ASSUME IInv, NEW r \in Ranks, Join(r)
  PROVE  IInv'
<1> DEFINE s == rank[r]
           request == Head(s.queue)
           t == [s EXCEPT !.pc = IF ResultsMissing(r, request) THEN "raised" ELSE "gather",
                          !.queue = Tail(@), !.call = request]
<1>1. /\ Job(conf, start, s) /\ s.pc = "join" /\ s \in RankStates
      /\ Queued(conf, start, common, config, s)
  BY JobFacts DEF Join, Local
<1>2. /\ writer[r][request.iteration] # "alive"
      /\ rank' = [rank EXCEPT ![r] = t]
      /\ UNCHANGED <<conf, writer, exiting, start, restarts, deaths, files>>
  BY DEF Join, Set
<1>3. s.queue # <<>>
  BY <1>1 DEF Job, Control
<1>4. /\ Tail(s.queue) \in Seq(Requests) /\ Len(Tail(s.queue)) = Len(s.queue) - 1
      /\ request = s.queue[1] /\ request \in Requests /\ 1 \in 1 .. Len(s.queue)
  BY <1>1, <1>3, RequestTypes, Dequeued
<1>5. /\ t \in RankStates /\ t.pc = (IF ResultsMissing(r, request) THEN "raised" ELSE "gather")
      /\ t.ret = s.ret /\ t.iteration = s.iteration /\ t.call_idx = s.call_idx
      /\ t.blocking = s.blocking /\ t.queue = Tail(s.queue) /\ t.call = request
  BY <1>1, <1>4 DEF RankStates, CollectivePoints, EndPoints
<1> HIDE DEF t
<1>6. Control(conf, start, t)
  BY <1>1, <1>5 DEF Job, Control, Polling, Saving
<1>7. Raises(r, t) \/ (t.pc # "raised" /\ SameFuture(conf, start, s, t))
  <2>1. NextMeeting(conf, start, s) = <<"gather", s.ret>>
    BY <1>1 DEF NextMeeting
  <2>2. CASE ResultsMissing(r, request)
    BY <1>5, <2>1, <2>2 DEF Raises
  <2>3. CASE ~ResultsMissing(r, request)
    <3>1. t.pc = "gather" /\ NextMeeting(conf, start, t) = <<"gather", s.ret>>
      BY <1>5, <2>3 DEF NextMeeting
    <3> QED
      BY <1>1, <1>5, <2>1, <3>1 DEF SameFuture, NextQueue, NextCall, NextIdx
  <2> QED
    BY <2>2, <2>3
<1>8. /\ rank'[r] = t /\ \A q \in Ranks \ {r} : rank'[q] = rank[q]
      /\ RankTypes' /\ Agreement' /\ \A q \in Ranks : Control(conf, start, rank[q])'
  <2>1. Len(t.queue) <= NumIters
    <3>1. Len(s.queue) <= NumIters
      BY TypeParts DEF IInv, RankTypes
    <3> QED
      BY <1>1, <1>4, <1>5, <3>1, RequestTypes
  <2> QED
    BY <1>1, <1>2, <1>5, <1>6, <1>7, <2>1, StepParts
<1>9. FileTypes'
  BY <1>2, TypeParts DEF IInv, FileTypes, files
<1>10. Ordered'
  <2> SUFFICES ASSUME NEW q \in Ranks
               PROVE  /\ Queued(conf, start, common, config, rank'[q])
                      /\ IsStarting(q, rank'[q]) => Fresh(start, common, config, rank'[q])
    BY <1>2 DEF Ordered, files
  <2>1. Queued(conf, start, common, config, t)
    BY <1>1, <1>3, <1>5, JoinedQueued
  <2> QED
    BY <1>5, <1>8, <2>1 DEF IInv, Ordered, IsStarting
<1>11. \A q \in Ranks : Written(conf', writer', shards', q, rank'[q])
  <2> SUFFICES ASSUME NEW q \in Ranks PROVE Written(conf, writer, shards, q, rank'[q])
    BY <1>2 DEF files
  <2>1. Written(conf, writer, shards, q, rank[q])
    BY DEF IInv
  <2>2. CASE q = r
    <3>1. writer[r] \in [Iterations -> {"none", "alive", "done", "died"}]
      BY TypeParts DEF IInv, FileTypes
    <3>2. Iterations \in SUBSET Int /\ s.queue[1].iteration \in Iterations
      <4>1. s.queue[1].iteration \in common /\ common \subseteq Iterations
        BY <1>1, <1>4, TypeParts DEF IInv, FileTypes, Queued
      <4> QED
        BY <4>1, IterationTypes, TypeParts DEF IInv
    <3>3. writer[r][s.queue[1].iteration] = "died" => t.pc = "raised"
      BY <1>4, <1>5 DEF ResultsMissing
    <3>4. Written(conf, writer, shards, r, t)
      BY <1>1, <1>2, <1>3, <1>4, <1>5, <2>1, <2>2, <3>1, <3>2, <3>3, JoinedWritten
    <3> QED
      BY <1>8, <2>2, <3>4
  <2>3. CASE q # r
    BY <1>8, <2>1, <2>3
  <2> QED
    BY <2>2, <2>3
<1>12. Finalizing'
  <2>1. rank'[r].pc \in {"gather", "raised"}
    BY <1>5, <1>8
  <2> QED
    BY <1>2, <1>8, <2>1, CheckpointingAssumption DEF IInv, Finalizing, OnlyRank0, files
<1>13. OnlyCompleteIsPublished'
  BY <1>2 DEF IInv, OnlyCompleteIsPublished, Complete, files
<1> QED
  BY <1>8, <1>9, <1>10, <1>11, <1>12, <1>13, TypeParts DEF IInv

-----------------------------------------------------------------------------
(* The collectives: every rank leaves with its requests, in state t[r].        *)
LEMMA CollectiveStep ==
  ASSUME IInv, NEW at \in CollectivePoints, Meet(at), NEW t \in [Ranks -> RankStates], rank' = t,
         UNCHANGED <<conf, writer, exiting, start, restarts, deaths, files>>,
         \A r \in Ranks : /\ t[r].pc # "raised" /\ Control(conf, start, t[r])
                          /\ SameRequests(rank[r], t[r])
                          /\ t[r].pc = "join" => conf.async
                          /\ t[r].pc \in Called => at \in Called
                          /\ IsStarting(r, t[r]) => Fresh(start, common, config, t[r])
                          /\ t[r].pc \in OnlyRank0 => r = Rank0,
         \A r, q \in Ranks : Peers(t[r], t[q]) /\ SameWay(conf, t[r], t[q]),
         t[Rank0].pc \in {"written", "config", "configured", "tracker", "write_tracker"} =>
           rank[Rank0].call.iteration \in metadata,
         t[Rank0].pc \in {"configured", "tracker", "write_tracker"} =>
           rank[Rank0].call.iteration \in config
  PROVE  IInv'
<1>1. \A r \in Ranks : rank[r].pc = at /\ rank[r].pc # "raised" /\ rank[r].pc # "join"
  BY DEF Meet, CollectivePoints
<1>2. Agreement'
  <2>1. rank' = [r \in Ranks |-> t[r]]
    OBVIOUS
  <2> QED
    BY <2>1, AgreementMet DEF IInv
<1>3. TypeOK'
  <2>1. FileTypes'
    BY TypeParts DEF IInv, FileTypes, files
  <2>2. \A r \in Ranks : rank'[r].queue = rank[r].queue
    BY DEF SameRequests
  <2>3. RankTypes'
    BY <2>2, TypeParts DEF IInv, RankTypes
  <2> QED
    BY <2>1, <2>3, TypeParts
<1>4. \A r \in Ranks : Control(conf', start', rank'[r])
  OBVIOUS
<1>5. \A r \in Ranks : Written(conf', writer', shards', r, rank'[r])
  <2> SUFFICES ASSUME NEW r \in Ranks PROVE Written(conf, writer, shards, r, rank'[r])
    BY DEF files
  <2> QED
    BY <1>1, WrittenKept DEF IInv
<1>6. Ordered'
  <2> SUFFICES ASSUME NEW r \in Ranks
               PROVE  /\ Queued(conf, start, common, config, t[r])
                      /\ IsStarting(r, t[r]) => Fresh(start, common, config, t[r])
    BY DEF Ordered, files
  <2>1. /\ Queued(conf, start, common, config, rank[r]) /\ rank[r] \in RankStates
        /\ t[r] \in RankStates /\ common \in SUBSET Int
    BY JobFacts, IterationTypes, TypeParts DEF IInv
  <2>2. t[r].pc \in Called => rank[r].pc \in Called
    BY <1>1
  <2> QED
    BY <1>1, <2>1, <2>2, QueuedKept
<1>7. Finalizing'
  <2>1. rank'[Rank0].call = rank[Rank0].call
    BY CheckpointingAssumption DEF SameRequests
  <2> QED
    BY <2>1 DEF IInv, Finalizing, files
<1>8. OnlyCompleteIsPublished'
  BY DEF IInv, OnlyCompleteIsPublished, Complete, files
<1> QED
  BY <1>2, <1>3, <1>4, <1>5, <1>6, <1>7, <1>8 DEF IInv

(* Most of them only go on to another point.                                   *)
LEMMA GoOnTogether ==
  ASSUME IInv, NEW at \in CollectivePoints, Meet(at),
         NEW p \in [Ranks -> CollectivePoints \cup LocalPoints \cup EndPoints],
         rank' = [r \in Ranks |-> At(rank[r], p[r])],
         UNCHANGED <<conf, writer, exiting, start, restarts, deaths, files>>,
         \A r \in Ranks : /\ p[r] # "raised" /\ Control(conf, start, At(rank[r], p[r]))
                          /\ p[r] = "join" => conf.async
                          /\ p[r] \in Called => at \in Called
                          /\ p[r] = "plan" => r # Rank0
                          /\ p[r] = "start" => Fresh(start, common, config, rank[r])
                          /\ p[r] \in OnlyRank0 => r = Rank0,
         \A r, q \in Ranks : SameWay(conf, At(rank[r], p[r]), At(rank[q], p[q])),
         p[Rank0] \in {"written", "config", "configured", "tracker", "write_tracker"} =>
           rank[Rank0].call.iteration \in metadata,
         p[Rank0] \in {"configured", "tracker", "write_tracker"} =>
           rank[Rank0].call.iteration \in config
  PROVE  IInv'
<1> DEFINE t == [r \in Ranks |-> At(rank[r], p[r])]
<1>1. \A r \in Ranks : rank[r] \in RankStates
  BY JobFacts
<1>2. \A r \in Ranks : /\ t[r] \in RankStates /\ t[r].pc = p[r] /\ t[r].ret = rank[r].ret
                       /\ t[r].iteration = rank[r].iteration /\ t[r].queue = rank[r].queue
                       /\ t[r].call_idx = rank[r].call_idx /\ t[r].call = rank[r].call
  BY <1>1, AtFields DEF At, RankStates
<1>3. t \in [Ranks -> RankStates]
  BY <1>2
<1>4. \A r \in Ranks : SameRequests(rank[r], t[r])
  BY <1>1, <1>2, RequestTypes DEF SameRequests
<1>5. \A r, q \in Ranks : Peers(t[r], t[q])
  BY <1>2, MetRanks DEF IInv, Peers
<1>6. \A r \in Ranks : IsStarting(r, t[r]) => Fresh(start, common, config, t[r])
  <2> SUFFICES ASSUME NEW r \in Ranks, IsStarting(r, t[r])
               PROVE  Fresh(start, common, config, t[r])
    OBVIOUS
  <2>1. p[r] = "start"
    BY <1>2 DEF IsStarting
  <2>2. Fresh(start, common, config, rank[r]) /\ Peers(rank[r], t[r])
    BY <1>2, <2>1 DEF Peers
  <2> QED
    BY <2>2, FreshPeers
<1>7. \A r \in Ranks : Control(conf, start, t[r])
  OBVIOUS
<1>8. \A r, q \in Ranks : SameWay(conf, t[r], t[q])
  OBVIOUS
<1>9. rank' = t /\ Rank0 \in Ranks
  BY CheckpointingAssumption
<1> HIDE DEF t
<1> QED
  BY <1>2, <1>3, <1>4, <1>5, <1>6, <1>7, <1>8, <1>9, CollectiveStep

LEMMA MetFacts ==
  ASSUME IInv, NEW at \in CollectivePoints, Meet(at), NEW r \in Ranks
  PROVE  /\ rank[r] \in RankStates /\ rank[r].pc = at /\ Control(conf, start, rank[r])
         /\ Queued(conf, start, common, config, rank[r])
         /\ \A q \in Ranks : Peers(rank[r], rank[q])
         /\ \A pc : At(rank[r], pc).pc = pc
BY JobFacts, MetRanks, AtFields DEF IInv, Meet, Job

LEMMA PlanStep ==
  ASSUME IInv, Plan
  PROVE  IInv'
<1> DEFINE p == [r \in Ranks |-> "start"]
<1>1. /\ Meet("plan") /\ "plan" \in CollectivePoints /\ rank' = [r \in Ranks |-> At(rank[r], p[r])]
      /\ p \in [Ranks -> CollectivePoints \cup LocalPoints \cup EndPoints]
      /\ UNCHANGED <<conf, writer, exiting, start, restarts, deaths, files>>
  BY DEF Plan, CollectivePoints, LocalPoints
<1>2. Rank0 \in Ranks /\ \A r \in Ranks : p[r] = "start"
  BY CheckpointingAssumption
<1>3. \A r \in Ranks : Control(conf, start, At(rank[r], p[r]))
  BY <1>1, <1>2, MetFacts, AtFields DEF Control, Polling, Saving
<1>4. \A r \in Ranks : Fresh(start, common, config, rank[r])
  <2>1. Fresh(start, common, config, rank[Rank0])
    BY <1>1, <1>2 DEF IInv, Ordered, IsStarting, Meet
  <2> QED
    BY <1>1, <1>2, <2>1, MetFacts, FreshPeers
<1>5. \A r, q \in Ranks : SameWay(conf, At(rank[r], p[r]), At(rank[q], p[q]))
  BY <1>1, <1>2, MetFacts DEF SameWay
<1> HIDE DEF p
<1> QED
  BY <1>1, <1>2, <1>3, <1>4, <1>5, GoOnTogether DEF Called, OnlyRank0

LEMMA SaveReturnsStep ==
  ASSUME IInv, SaveReturns
  PROVE  IInv'
<1> DEFINE p == [r \in Ranks |-> rank[r].ret]
<1>1. /\ Meet("saved") /\ "saved" \in CollectivePoints
      /\ rank' = [r \in Ranks |-> At(rank[r], rank[r].ret)]
      /\ UNCHANGED <<conf, writer, exiting, start, restarts, deaths, files>>
  BY DEF SaveReturns, CollectivePoints
<1>2. Rank0 \in Ranks /\ \A r \in Ranks : p[r] = rank[r].ret /\ p[r] \in SaveReturnPoints
  BY <1>1, MetFacts, CheckpointingAssumption DEF Control, Saving
<1>3. /\ rank' = [r \in Ranks |-> At(rank[r], p[r])]
      /\ p \in [Ranks -> CollectivePoints \cup LocalPoints \cup EndPoints]
  BY <1>1, <1>2 DEF SaveReturnPoints, CollectivePoints, LocalPoints
<1>4. \A r \in Ranks : Control(conf, start, At(rank[r], p[r]))
  BY <1>1, <1>2, MetFacts, AtFields DEF Control, Polling, Saving, SaveReturnPoints
<1>5. \A r, q \in Ranks : SameWay(conf, At(rank[r], p[r]), At(rank[q], p[q]))
  BY <1>1, <1>2, MetFacts DEF SameWay, Peers
<1> HIDE DEF p
<1> QED
  BY <1>1, <1>2, <1>3, <1>4, <1>5, GoOnTogether DEF Called, OnlyRank0, SaveReturnPoints

LEMMA AllReduceAliveStep ==
  ASSUME IInv, AllReduceAlive
  PROVE  IInv'
<1> DEFINE active == \E q \in Ranks : rank[q].flag
           p == [r \in Ranks |-> IF active /\ ~rank[r].blocking THEN rank[r].ret ELSE "join"]
<1>1. /\ Meet("alive") /\ "alive" \in CollectivePoints
      /\ rank' = [r \in Ranks |->
           At(rank[r], IF active /\ ~rank[r].blocking THEN rank[r].ret ELSE "join")]
      /\ UNCHANGED <<conf, writer, exiting, start, restarts, deaths, files>>
  BY DEF AllReduceAlive, CollectivePoints, StillActive
<1>2. \A r \in Ranks : /\ conf.async /\ rank[r].queue # <<>>
                       /\ rank[r].ret \in PollReturns
                       /\ rank[r].blocking = (rank[r].ret # "ramp_up")
                       /\ rank[r].ret = "ramp_up" => rank[r].iteration < NumIters
                       /\ rank[r].ret = "after_training" => rank[r].iteration = NumIters
                       /\ start <= rank[r].iteration
  BY <1>1, MetFacts DEF Control, Polling
<1>3. Rank0 \in Ranks /\ \A r \in Ranks :
        p[r] = IF active /\ rank[r].ret = "ramp_up" THEN "ramp_up" ELSE "join"
  BY <1>2, CheckpointingAssumption
<1>4. rank' = [r \in Ranks |-> At(rank[r], p[r])]
  BY <1>1
<1>5. p \in [Ranks -> CollectivePoints \cup LocalPoints \cup EndPoints]
  BY <1>3 DEF LocalPoints
<1> HIDE DEF p, active
<1>6. \A r \in Ranks : Control(conf, start, At(rank[r], p[r]))
  <2> SUFFICES ASSUME NEW r \in Ranks PROVE Control(conf, start, At(rank[r], p[r]))
    OBVIOUS
  <2> DEFINE s == rank[r]
             u == At(s, p[r])
  <2>1. s.pc = "alive" /\ Control(conf, start, s)
    BY <1>1, MetFacts
  <2>2. /\ u.pc = p[r] /\ u.ret = s.ret /\ u.iteration = s.iteration /\ u.queue = s.queue
        /\ u.blocking = s.blocking
    BY <1>1, MetFacts, AtFields
  <2>3. CASE p[r] = "ramp_up"
    BY <1>2, <1>3, <2>2, <2>3 DEF Control, Polling, Saving
  <2>4. CASE p[r] = "join"
    BY <1>2, <2>1, <2>2, <2>4 DEF Control, Polling, Saving
  <2> QED
    BY <1>3, <2>3, <2>4
<1>7. \A r, q \in Ranks : SameWay(conf, At(rank[r], p[r]), At(rank[q], p[q]))
  <2> SUFFICES ASSUME NEW r \in Ranks, NEW q \in Ranks
               PROVE  SameWay(conf, At(rank[r], p[r]), At(rank[q], p[q]))
    OBVIOUS
  <2>1. p[r] = p[q]
    BY <1>1, <1>3, MetFacts DEF Peers
  <2>2. At(rank[r], p[r]).pc = p[r] /\ At(rank[q], p[q]).pc = p[q]
    BY <1>1, MetFacts
  <2> QED
    BY <2>1, <2>2 DEF SameWay
<1> QED
  BY <1>1, <1>2, <1>3, <1>4, <1>5, <1>6, <1>7, GoOnTogether DEF Called, OnlyRank0

LEMMA GatherResultsStep ==
  ASSUME IInv, GatherResults
  PROVE  IInv'
<1> DEFINE p == [r \in Ranks |-> IF r = Rank0 THEN "metadata" ELSE "written"]
<1>1. /\ Meet("gather") /\ "gather" \in CollectivePoints
      /\ UNCHANGED <<conf, writer, exiting, start, restarts, deaths, files>>
  BY DEF GatherResults, CollectivePoints
<1>2. /\ rank' = [r \in Ranks |-> At(rank[r], p[r])]
      /\ p \in [Ranks -> CollectivePoints \cup LocalPoints \cup EndPoints]
  BY DEF GatherResults, CollectivePoints, LocalPoints
<1>3. Rank0 \in Ranks /\ \A r \in Ranks : p[r] = IF r = Rank0 THEN "metadata" ELSE "written"
  BY CheckpointingAssumption
<1> HIDE DEF p
<1>4. \A r \in Ranks : Control(conf, start, At(rank[r], p[r]))
  BY <1>1, <1>3, MetFacts, AtFields DEF Control, Polling, Saving
<1>5. \A r, q \in Ranks : SameWay(conf, At(rank[r], p[r]), At(rank[q], p[q]))
  BY <1>1, <1>3, MetFacts DEF SameWay
<1> QED
  BY <1>1, <1>2, <1>3, <1>4, <1>5, GoOnTogether DEF Called, OnlyRank0

LEMMA MetadataBarrierStep ==
  ASSUME IInv, MetadataBarrier
  PROVE  IInv'
<1> DEFINE p == [r \in Ranks |-> IF r = Rank0 THEN "config" ELSE "configured"]
<1>1. /\ Meet("written") /\ "written" \in CollectivePoints
      /\ UNCHANGED <<conf, writer, exiting, start, restarts, deaths, files>>
  BY DEF MetadataBarrier, CollectivePoints
<1>2. /\ rank' = [r \in Ranks |-> At(rank[r], p[r])]
      /\ p \in [Ranks -> CollectivePoints \cup LocalPoints \cup EndPoints]
  BY DEF MetadataBarrier, CollectivePoints, LocalPoints
<1>3. Rank0 \in Ranks /\ \A r \in Ranks : p[r] = IF r = Rank0 THEN "config" ELSE "configured"
  BY CheckpointingAssumption
<1>4. rank[Rank0].call.iteration \in metadata
  BY <1>1, <1>3 DEF IInv, Finalizing, Meet
<1> HIDE DEF p
<1>5. \A r \in Ranks : Control(conf, start, At(rank[r], p[r]))
  BY <1>1, <1>3, MetFacts, AtFields DEF Control, Polling, Saving
<1>6. \A r, q \in Ranks : SameWay(conf, At(rank[r], p[r]), At(rank[q], p[q]))
  BY <1>1, <1>3, MetFacts DEF SameWay
<1> QED
  BY <1>1, <1>2, <1>3, <1>4, <1>5, <1>6, GoOnTogether DEF Called, OnlyRank0

LEMMA ConfigBarrierStep ==
  ASSUME IInv, ConfigBarrier
  PROVE  IInv'
<1> DEFINE p == [r \in Ranks |-> IF r = Rank0 THEN "tracker" ELSE AfterTracker]
<1>1. /\ Meet("configured") /\ "configured" \in CollectivePoints
      /\ UNCHANGED <<conf, writer, exiting, start, restarts, deaths, files>>
  BY DEF ConfigBarrier, CollectivePoints
<1>2. /\ rank' = [r \in Ranks |-> At(rank[r], p[r])]
      /\ p \in [Ranks -> CollectivePoints \cup LocalPoints \cup EndPoints]
  BY DEF ConfigBarrier, AfterTracker, CollectivePoints, LocalPoints
<1>3. Rank0 \in Ranks /\ \A r \in Ranks :
        p[r] = IF r = Rank0 THEN "tracker" ELSE IF conf.async THEN "agree" ELSE "saved"
  BY CheckpointingAssumption DEF AfterTracker
<1>4. rank[Rank0].call.iteration \in metadata /\ rank[Rank0].call.iteration \in config
  BY <1>1, <1>3 DEF IInv, Finalizing, Meet
<1> HIDE DEF p
<1>5. \A r \in Ranks : Control(conf, start, At(rank[r], p[r]))
  <2> SUFFICES ASSUME NEW r \in Ranks PROVE Control(conf, start, At(rank[r], p[r]))
    OBVIOUS
  <2>1. rank[r] \in RankStates /\ rank[r].pc = "configured" /\ Control(conf, start, rank[r])
    BY <1>1, MetFacts
  <2> QED
    BY <1>3, <2>1, AtFields DEF Control, Polling, Saving
<1>6. \A r, q \in Ranks : SameWay(conf, At(rank[r], p[r]), At(rank[q], p[q]))
  BY <1>1, <1>3, MetFacts DEF SameWay
<1> QED
  BY <1>1, <1>2, <1>3, <1>4, <1>5, <1>6, GoOnTogether DEF Called, OnlyRank0

LEMMA AgreeOnCallStep ==
  ASSUME IInv, AgreeOnCall
  PROVE  IInv'
<1> DEFINE matched(r) == \A q \in Ranks : rank[q].call.idx <= rank[r].call.idx
           p == [r \in Ranks |-> "poll"]
<1>1. /\ Meet("agree") /\ "agree" \in CollectivePoints
      /\ rank' = [r \in Ranks |-> At(rank[r], IF matched(r) THEN "poll" ELSE "raised")]
      /\ UNCHANGED <<conf, writer, exiting, start, restarts, deaths, files>>
  BY DEF AgreeOnCall, CollectivePoints
<1>2. \A r \in Ranks : matched(r)
  <2> SUFFICES ASSUME NEW r \in Ranks, NEW q \in Ranks
               PROVE  rank[q].call.idx <= rank[r].call.idx
    OBVIOUS
  <2>1. rank[q].call = rank[r].call /\ rank[r].call.idx \in Int
    BY <1>1, MetFacts, RequestTypes DEF Peers
  <2> QED
    BY <2>1
<1>3. Rank0 \in Ranks /\ \A r \in Ranks : p[r] = "poll"
  BY CheckpointingAssumption
<1>4. /\ rank' = [r \in Ranks |-> At(rank[r], p[r])]
      /\ p \in [Ranks -> CollectivePoints \cup LocalPoints \cup EndPoints]
  BY <1>1, <1>2 DEF LocalPoints
<1> HIDE DEF p, matched
<1>5. \A r \in Ranks : Control(conf, start, At(rank[r], p[r]))
  BY <1>1, <1>3, MetFacts, AtFields DEF Control, Polling, Saving
<1>6. \A r, q \in Ranks : SameWay(conf, At(rank[r], p[r]), At(rank[q], p[q]))
  BY <1>1, <1>3, MetFacts DEF SameWay
<1> QED
  BY <1>1, <1>3, <1>4, <1>5, <1>6, GoOnTogether DEF Called, OnlyRank0

LEMMA TrainStepStep ==
  ASSUME IInv, TrainStep
  PROVE  IInv'
<1> DEFINE pc == IF conf.exit = "signal" THEN "handler" ELSE "interval"
           t == [r \in Ranks |-> [rank[r] EXCEPT !.pc = pc, !.iteration = @ + 1]]
<1>1. /\ Meet("train") /\ "train" \in CollectivePoints /\ rank' = t
      /\ UNCHANGED <<conf, writer, exiting, start, restarts, deaths, files>>
  BY DEF TrainStep, CollectivePoints
<1>2. \A r \in Ranks : /\ rank[r].iteration + 1 \in 0 .. NumIters /\ rank[r].iteration + 1 >= 1
                       /\ start <= rank[r].iteration + 1 /\ rank[r].iteration <= rank[r].iteration + 1
  <2> SUFFICES ASSUME NEW r \in Ranks
               PROVE  /\ rank[r].iteration + 1 \in 0 .. NumIters /\ rank[r].iteration + 1 >= 1
                      /\ start <= rank[r].iteration + 1 /\ rank[r].iteration <= rank[r].iteration + 1
    OBVIOUS
  <2>1. rank[r].iteration < NumIters /\ start <= rank[r].iteration /\ rank[r] \in RankStates
    BY <1>1, MetFacts DEF Control
  <2>2. start \in Int
    BY TypeParts, IterationTypes DEF IInv
  <2> QED
    BY <2>1, <2>2, RequestTypes
<1>3. \A r \in Ranks :
        /\ t[r] \in RankStates /\ t[r].pc = pc /\ t[r].ret = rank[r].ret
        /\ t[r].iteration = rank[r].iteration + 1 /\ t[r].queue = rank[r].queue
        /\ t[r].call_idx = rank[r].call_idx /\ t[r].call = rank[r].call
  <2> SUFFICES ASSUME NEW r \in Ranks
               PROVE  /\ t[r] \in RankStates /\ t[r].pc = pc /\ t[r].ret = rank[r].ret
                      /\ t[r].iteration = rank[r].iteration + 1 /\ t[r].queue = rank[r].queue
                      /\ t[r].call_idx = rank[r].call_idx /\ t[r].call = rank[r].call
    OBVIOUS
  <2>1. rank[r] \in RankStates
    BY <1>1, MetFacts
  <2> QED
    BY <1>2, <2>1 DEF RankStates, LocalPoints
<1>4. t \in [Ranks -> RankStates] /\ Rank0 \in Ranks
  BY <1>3, CheckpointingAssumption
<1> HIDE DEF t
<1>5. \A r \in Ranks : Control(conf, start, t[r])
  BY <1>2, <1>3 DEF Control, Polling, Saving
<1>6. \A r \in Ranks : SameRequests(rank[r], t[r])
  BY <1>2, <1>3 DEF SameRequests
<1>7. \A r, q \in Ranks : Peers(t[r], t[q]) /\ SameWay(conf, t[r], t[q])
  BY <1>1, <1>3, MetFacts DEF Peers, SameWay
<1>8. \A r \in Ranks : t[r].pc \in {"handler", "interval"}
  BY <1>3
<1> QED
  BY <1>1, <1>4, <1>5, <1>6, <1>7, <1>8, CollectiveStep DEF Called, OnlyRank0, IsStarting

LEMMA SaveFields ==
  ASSUME NEW s \in RankStates, NEW r
  PROVE  LET u == SaveFrom(r, s, "exit")
         IN  /\ u.pc = (IF r = Rank0 THEN "common" ELSE "plan") /\ u.ret = "exit"
             /\ u.iteration = s.iteration /\ u.queue = s.queue
             /\ u.call_idx = s.call_idx /\ u.call = s.call
BY DEF SaveFrom, RankStates

(* After a vote of all ranks they all save, or all go on at the same point.    *)
LEMMA VoteStep ==
  ASSUME IInv, NEW at \in {"signals", "durations"}, Meet(at),
         NEW t \in [Ranks -> RankStates], rank' = t,
         UNCHANGED <<conf, writer, exiting, start, restarts, deaths, files>>,
         NEW pc \in {"interval", "exit", "top"},
         \/ \A r \in Ranks : t[r] = SaveFrom(r, rank[r], "exit")
         \/ \A r \in Ranks : t[r] = At(rank[r], pc)
  PROVE  IInv'
<1>1. at \in CollectivePoints /\ Rank0 \in Ranks
  BY CheckpointingAssumption DEF CollectivePoints
<1>2. \A r \in Ranks : /\ rank[r].iteration >= 1 /\ start <= rank[r].iteration
                       /\ rank[r] \in RankStates
                       /\ \A q \in Ranks : Peers(rank[r], rank[q])
  BY <1>1, MetFacts DEF Control
<1>3. CASE \A r \in Ranks : t[r] = SaveFrom(r, rank[r], "exit")
  <2>1. \A r \in Ranks :
          /\ t[r].pc = (IF r = Rank0 THEN "common" ELSE "plan") /\ t[r].ret = "exit"
          /\ t[r].iteration = rank[r].iteration /\ t[r].queue = rank[r].queue
          /\ t[r].call_idx = rank[r].call_idx /\ t[r].call = rank[r].call
    BY <1>2, <1>3, SaveFields
  <2>2. \A r \in Ranks : Control(conf, start, t[r])
    BY <1>2, <2>1 DEF Control, Polling, Saving, SaveReturnPoints
  <2>3. \A r \in Ranks : SameRequests(rank[r], t[r])
    BY <1>2, <2>1, RequestTypes DEF SameRequests
  <2>4. \A r, q \in Ranks : Peers(t[r], t[q]) /\ SameWay(conf, t[r], t[q])
    BY <1>2, <2>1 DEF Peers, SameWay
  <2> QED
    BY <1>1, <2>1, <2>2, <2>3, <2>4, CollectiveStep DEF Called, OnlyRank0, IsStarting
<1>4. CASE \A r \in Ranks : t[r] = At(rank[r], pc)
  <2>1. \A r \in Ranks :
          /\ t[r].pc = pc /\ t[r].ret = rank[r].ret
          /\ t[r].iteration = rank[r].iteration /\ t[r].queue = rank[r].queue
          /\ t[r].call_idx = rank[r].call_idx /\ t[r].call = rank[r].call
    BY <1>2, <1>4, AtFields
  <2>2. \A r \in Ranks : Control(conf, start, t[r])
    BY <1>2, <2>1 DEF Control, Polling, Saving
  <2>3. \A r \in Ranks : SameRequests(rank[r], t[r])
    BY <1>2, <2>1, RequestTypes DEF SameRequests
  <2>4. \A r, q \in Ranks : Peers(t[r], t[q]) /\ SameWay(conf, t[r], t[q])
    BY <1>2, <2>1 DEF Peers, SameWay
  <2> QED
    BY <1>1, <2>1, <2>2, <2>3, <2>4, CollectiveStep DEF Called, OnlyRank0, IsStarting
<1> QED
  BY <1>3, <1>4

LEMMA SaveAtTypes ==
  ASSUME NEW s \in RankStates, NEW r
  PROVE  /\ SaveFrom(r, s, "exit") \in RankStates
         /\ \A pc \in {"interval", "exit", "top"} : At(s, pc) \in RankStates
BY DEF SaveFrom, At, RankStates, CollectivePoints, LocalPoints

LEMMA GatherSignalsStep ==
  ASSUME IInv, GatherSignals
  PROVE  IInv'
<1> DEFINE any == \E r \in Ranks : rank[r].flag
           t == [r \in Ranks |-> IF any THEN SaveFrom(r, rank[r], "exit") ELSE At(rank[r], "interval")]
<1>1. /\ Meet("signals") /\ rank' = t
      /\ UNCHANGED <<conf, writer, exiting, start, restarts, deaths, files>>
  BY DEF GatherSignals
<1>2. t \in [Ranks -> RankStates]
  BY JobFacts, SaveAtTypes
<1>3. \/ \A r \in Ranks : t[r] = SaveFrom(r, rank[r], "exit")
      \/ \A r \in Ranks : t[r] = At(rank[r], "interval")
  OBVIOUS
<1> HIDE DEF t
<1> QED
  BY <1>1, <1>2, <1>3, VoteStep

LEMMA AllReduceDoneStep ==
  ASSUME IInv, AllReduceDone
  PROVE  IInv'
<1> DEFINE any == \E r \in Ranks : rank[r].flag
           t == [r \in Ranks |-> IF any THEN SaveAndExit(r) ELSE At(rank[r], "top")]
<1>1. /\ Meet("durations") /\ "durations" \in CollectivePoints /\ rank' = t
      /\ UNCHANGED <<conf, writer, exiting, start, restarts, deaths, files>>
  BY DEF AllReduceDone, CollectivePoints
<1>2. t \in [Ranks -> RankStates]
  BY JobFacts, SaveAtTypes DEF SaveAndExit
<1>3. Rank0 \in Ranks /\ \A r \in Ranks : rank[r].iteration = rank[Rank0].iteration
  BY <1>1, MetFacts, CheckpointingAssumption DEF Peers
<1>4. CASE any /\ ~IsSaveInterval(rank[Rank0].iteration)
  <2>1. \A r \in Ranks : t[r] = SaveFrom(r, rank[r], "exit")
    BY <1>3, <1>4 DEF SaveAndExit
  <2> HIDE DEF t
  <2> QED
    BY <1>1, <1>2, <2>1, VoteStep
<1>5. CASE any /\ IsSaveInterval(rank[Rank0].iteration)
  <2>1. \A r \in Ranks : t[r] = At(rank[r], "exit")
    BY <1>3, <1>5 DEF SaveAndExit
  <2> HIDE DEF t
  <2> QED
    BY <1>1, <1>2, <2>1, VoteStep
<1>6. CASE ~any
  <2>1. \A r \in Ranks : t[r] = At(rank[r], "top")
    BY <1>6
  <2> HIDE DEF t
  <2> QED
    BY <1>1, <1>2, <2>1, VoteStep
<1> QED
  BY <1>4, <1>5, <1>6

-----------------------------------------------------------------------------
(* The environment, and the start of a job.                                    *)
NewState(s, i) ==
  /\ s \in RankStates /\ s.pc \in {"top", "stopped"} /\ s.ret = "top" /\ s.iteration = i
  /\ s.queue = <<>> /\ Len(s.queue) = 0 /\ s.call_idx = -1
  /\ s.call.idx = -1 /\ s.call.iteration = 0

LEMMA NewRankStates ==
  ASSUME NEW i \in 0 .. NumIters
  PROVE  NewState(NewRank(i), i) /\ NewState(At(NewRank(i), "stopped"), i)
<1>1. NoRequest \in Requests /\ NoRequest.idx = -1 /\ NoRequest.iteration = 0
  BY CheckpointingAssumption DEF NoRequest, Request, Requests
<1>2. <<>> \in Seq(Requests) /\ Len(<<>>) = 0 /\ -1 \in -1 .. NumIters - 1
  BY CheckpointingAssumption
<1>3. NewState(NewRank(i), i)
  BY <1>1, <1>2 DEF NewState, NewRank, RankStates, LocalPoints
<1>4. NewState(At(NewRank(i), "stopped"), i)
  BY <1>3, AtFields DEF NewState, At, RankStates, EndPoints
<1> QED
  BY <1>3, <1>4

(* A job starts, or stops at once, from what the tracker names.                *)
LEMMA NewJob ==
  ASSUME FileTypes', OnlyCompleteIsPublished', writer' = NoWriters, start' = 0 \/ start' \in common',
         NEW s, NewState(s, start'), rank' = [r \in Ranks |-> s]
  PROVE  IInv'
<1> DEFINE i == start'
<1>1. i \in 0 .. NumIters /\ NumIters \in Nat /\ Rank0 \in Ranks /\ i \in Int
  BY CheckpointingAssumption DEF FileTypes
<1>2. \A r \in Ranks : rank'[r] = s
  OBVIOUS
<1>3. /\ s \in RankStates /\ s.pc \in {"top", "stopped"} /\ s.ret = "top" /\ s.iteration = i
      /\ s.queue = <<>> /\ s.call_idx = -1 /\ s.call.idx = -1 /\ s.call.iteration = 0
      /\ Len(s.queue) = 0
  BY DEF NewState
<1>4. RankTypes'
  BY <1>1, <1>3 DEF RankTypes
<1>5. Agreement'
  <2>1. \A r, q \in Ranks : rank'[r] = rank'[q] /\ rank'[r].pc # "raised"
    BY <1>2, <1>3
  <2> QED
    BY <2>1, SameFutureEquivalence DEF Agreement
<1>6. \A r \in Ranks : Control(conf', start', rank'[r])
  BY <1>1, <1>2, <1>3 DEF Control, Polling, Saving
<1>7. \A r \in Ranks : Written(conf', writer', shards', r, rank'[r])
  BY <1>2, <1>3 DEF Written, NoWriters
<1>8. Ordered'
  <2> SUFFICES ASSUME NEW r \in Ranks
               PROVE  Queued(conf', start', common', config', s) /\ ~IsStarting(r, s)
    BY <1>2 DEF Ordered
  <2> QED
    BY <1>1, <1>3 DEF Queued, Called, IsStarting
<1>9. Finalizing'
  BY <1>1, <1>2, <1>3 DEF Finalizing, OnlyRank0
<1> QED
  BY <1>4, <1>5, <1>6, <1>7, <1>8, <1>9, TypeParts DEF IInv

LEMMA RestartStep ==
  ASSUME IInv, Restart
  PROVE  IInv'
<1>1. /\ restarts < MaxRestarts /\ restarts' = restarts + 1 /\ writer' = NoWriters /\ exiting' = {}
      /\ start' = IF tracker = Truncated THEN 0 ELSE tracker
      /\ rank' = [r \in Ranks |-> IF tracker = Truncated THEN At(NewRank(0), "stopped")
                                  ELSE NewRank(tracker)]
      /\ UNCHANGED <<conf, deaths, files>>
  BY DEF Restart
<1>2. FileTypes /\ NumIters \in Nat /\ OnlyCompleteIsPublished
  BY TypeParts, CheckpointingAssumption DEF IInv
<1>3. start' \in 0 .. NumIters /\ (start' = 0 \/ start' \in common')
  <2>1. tracker # Truncated => tracker = 0 \/ (tracker \in Iterations /\ tracker \in common)
    BY <1>2 DEF FileTypes, NoFile, OnlyCompleteIsPublished, Complete
  <2> QED
    BY <1>1, <1>2, <2>1 DEF Iterations, files
<1>4. FileTypes'
  <2>1. NoWriters \in [Ranks -> [Iterations -> {"none", "alive", "done", "died"}]]
    BY DEF NoWriters
  <2>2. restarts + 1 \in 0 .. MaxRestarts
    BY <1>1, <1>2, CheckpointingAssumption DEF FileTypes
  <2> QED
    BY <1>1, <1>2, <1>3, <2>1, <2>2 DEF FileTypes, files
<1>5. OnlyCompleteIsPublished'
  BY <1>1, <1>2 DEF OnlyCompleteIsPublished, Complete, files
<1>6. CASE tracker = Truncated
  <2>1. rank' = [r \in Ranks |-> At(NewRank(start'), "stopped")]
    BY <1>1, <1>6
  <2>2. NewState(At(NewRank(start'), "stopped"), start')
    BY <1>3, NewRankStates
  <2> QED
    BY <1>1, <1>3, <1>4, <1>5, <2>1, <2>2, NewJob
<1>7. CASE tracker # Truncated
  <2>1. rank' = [r \in Ranks |-> NewRank(start')]
    BY <1>1, <1>7
  <2>2. NewState(NewRank(start'), start')
    BY <1>3, NewRankStates
  <2> QED
    BY <1>1, <1>3, <1>4, <1>5, <2>1, <2>2, NewJob
<1> QED
  BY <1>6, <1>7

LEMMA InitIInv ==
  ASSUME Init
  PROVE  IInv
<1> DEFINE s == NewRank(0)
<1>1. /\ conf \in Configs /\ rank = [r \in Ranks |-> s] /\ writer = NoWriters
      /\ exiting = {} /\ start = 0 /\ restarts = 0 /\ deaths = 0
      /\ shards = {} /\ common = {} /\ metadata = {} /\ config = {} /\ tracker = NoFile
  BY DEF Init
<1>2. NumIters \in Nat /\ MaxRestarts \in Nat /\ MaxDeaths \in Nat /\ Rank0 \in Ranks
  BY CheckpointingAssumption
<1>3. /\ s \in RankStates /\ s.pc \in {"top", "stopped"} /\ s.ret = "top" /\ s.iteration = 0
      /\ s.queue = <<>> /\ s.call_idx = -1 /\ s.call.idx = -1 /\ s.call.iteration = 0
      /\ Len(s.queue) = 0
  BY <1>2, NewRankStates DEF NewState
<1>4. \A r \in Ranks : rank[r] = s
  BY <1>1
<1> HIDE DEF s
<1>5. RankTypes
  BY <1>1, <1>2, <1>3 DEF RankTypes
<1>6. FileTypes
  <2>1. NoWriters \in [Ranks -> [Iterations -> {"none", "alive", "done", "died"}]]
    BY DEF NoWriters
  <2> QED
    BY <1>1, <1>2, <2>1 DEF FileTypes
<1>7. Agreement
  <2>1. \A r, q \in Ranks : rank[r] = rank[q] /\ rank[r].pc # "raised"
    BY <1>3, <1>4
  <2> QED
    BY <2>1, SameFutureEquivalence DEF Agreement
<1>8. \A r \in Ranks : Control(conf, start, rank[r])
  <2>1. start <= s.iteration
    BY <1>1, <1>3
  <2>2. Control(conf, start, s)
    BY <1>3, <2>1 DEF Control, Polling, Saving
  <2> QED
    BY <1>4, <2>2
<1>9. \A r \in Ranks : Written(conf, writer, shards, r, rank[r])
  <2> SUFFICES ASSUME NEW r \in Ranks PROVE Written(conf, writer, shards, r, s)
    BY <1>4
  <2>1. \A i \in Iterations : writer[r][i] = "none"
    BY <1>1 DEF NoWriters
  <2> QED
    BY <1>3, <2>1 DEF Written
<1>10. Ordered
  <2> SUFFICES ASSUME NEW r \in Ranks
               PROVE  Queued(conf, start, common, config, s) /\ ~IsStarting(r, s)
    BY <1>4 DEF Ordered
  <2> QED
    BY <1>1, <1>2, <1>3 DEF Queued, Called, IsStarting
<1>11. Finalizing
  BY <1>1, <1>2, <1>3, <1>4 DEF Finalizing, OnlyRank0
<1>12. OnlyCompleteIsPublished
  BY <1>1 DEF OnlyCompleteIsPublished, NoFile, Iterations
<1> QED
  BY <1>5, <1>6, <1>7, <1>8, <1>9, <1>10, <1>11, <1>12, TypeParts DEF IInv

(* What does not touch the ranks keeps what is said about them.                *)
LEMMA RanksKept ==
  ASSUME IInv, UNCHANGED <<conf, rank, start, common, config>>
  PROVE  /\ RankTypes' /\ Agreement' /\ \A r \in Ranks : Control(conf', start', rank'[r])
         /\ Ordered'
<1>1. RankTypes'
  BY TypeParts DEF IInv, RankTypes
<1>2. Agreement'
  BY DEF IInv, Agreement
<1>3. \A r \in Ranks : Control(conf', start', rank'[r])
  BY DEF IInv
<1>4. Ordered'
  BY DEF IInv, Ordered
<1> QED
  BY <1>1, <1>2, <1>3, <1>4

LEMMA WriterEndsStep ==
  ASSUME IInv, NEW r \in Ranks, NEW i \in Iterations, WriterEnds(r, i)
  PROVE  IInv'
<1>1. /\ writer[r][i] = "alive"
      /\ UNCHANGED <<conf, rank, exiting, start, restarts, common, metadata, config, tracker>>
  BY DEF WriterEnds
<1>2. \/ /\ writer' = [writer EXCEPT ![r][i] = "done"] /\ shards' = shards \cup {<<r, i>>}
         /\ deaths' = deaths
      \/ /\ writer' = [writer EXCEPT ![r][i] = "died"] /\ shards' = shards
         /\ deaths < MaxDeaths /\ deaths' = deaths + 1
  BY DEF WriterEnds
<1>3. FileTypes
  BY TypeParts DEF IInv
<1>4. FileTypes'
  <2>1. deaths' \in 0 .. MaxDeaths
    BY <1>2, <1>3, CheckpointingAssumption DEF FileTypes
  <2>2. writer' \in [Ranks -> [Iterations -> {"none", "alive", "done", "died"}]]
    BY <1>2, <1>3 DEF FileTypes
  <2>3. shards' \subseteq Ranks \X Iterations
    BY <1>2, <1>3 DEF FileTypes
  <2> QED
    BY <1>1, <1>3, <2>1, <2>2, <2>3 DEF FileTypes
<1>5. \A q \in Ranks : Written(conf', writer', shards', q, rank'[q])
  <2> SUFFICES ASSUME NEW q \in Ranks PROVE Written(conf, writer', shards', q, rank[q])
    BY <1>1
  <2>1. /\ Written(conf, writer, shards, q, rank[q]) /\ shards \subseteq shards'
        /\ writer \in [Ranks -> [Iterations -> {"none", "alive", "done", "died"}]]
    BY <1>2, <1>3 DEF IInv, FileTypes
  <2>2. \A j \in Iterations :
          \/ writer'[q][j] = writer[q][j]
          \/ /\ writer[q][j] # "none" /\ writer'[q][j] # "none"
             /\ writer'[q][j] = "done" => <<q, j>> \in shards'
    BY <1>1, <1>2, <2>1
  <2>3. \A k \in 1 .. Len(rank[q].queue) : rank[q].queue[k].iteration \in Iterations
    BY <1>3, JobFacts DEF FileTypes, Queued
  <2> QED
    BY <2>1, <2>2, <2>3 DEF Written
<1>6. Finalizing'
  BY <1>1 DEF IInv, Finalizing
<1>7. OnlyCompleteIsPublished'
  BY <1>1, <1>2 DEF IInv, OnlyCompleteIsPublished, Complete
<1> QED
  BY <1>1, <1>4, <1>5, <1>6, <1>7, RanksKept, TypeParts DEF IInv

LEMMA ExitingKeeps ==
  ASSUME IInv, exiting' \subseteq Ranks,
         UNCHANGED <<conf, rank, writer, start, restarts, deaths, files>>
  PROVE  IInv'
<1>1. FileTypes'
  BY TypeParts DEF IInv, FileTypes, files
<1>2. \A r \in Ranks : Written(conf', writer', shards', r, rank'[r])
  BY DEF IInv, files
<1>3. Finalizing'
  BY DEF IInv, Finalizing, files
<1>4. OnlyCompleteIsPublished'
  BY DEF IInv, OnlyCompleteIsPublished, Complete, files
<1>5. RankTypes' /\ Agreement' /\ Ordered' /\ \A r \in Ranks : Control(conf', start', rank'[r])
  BY RanksKept DEF files
<1> QED
  BY <1>1, <1>2, <1>3, <1>4, <1>5, TypeParts DEF IInv

LEMMA NextIInv ==
  ASSUME IInv, [Next]_vars
  PROVE  IInv'
<1>1. ASSUME NEW r \in Ranks, Step(r) PROVE IInv'
  BY <1>1, LoopHeadStep, RampUpSaveStep, ReadSignalStep, IntervalSaveStep, ExitCheckStep,
     FinalSaveStep, ExitStep, SaveCommonStep, StartWriterStep, PollStep, JoinStep,
     WriteMetadataStep, WriteConfigStep, OpenTrackerStep, WriteTrackerStep DEF Step
<1>2. ASSUME NEW r \in Ranks, BeginExiting(r) PROVE IInv'
  BY <1>2, ExitingKeeps, TypeParts DEF BeginExiting, IInv, FileTypes
<1>3. CASE Collective
  BY <1>3, TrainStepStep, GatherSignalsStep, AllReduceDoneStep, PlanStep, SaveReturnsStep,
     AllReduceAliveStep, GatherResultsStep, MetadataBarrierStep, ConfigBarrierStep,
     AgreeOnCallStep DEF Collective
<1>4. ASSUME NEW r \in Ranks, NEW i \in Iterations, WriterEnds(r, i) PROVE IInv'
  BY <1>4, WriterEndsStep
<1>5. CASE Restart
  BY <1>5, RestartStep
<1>6. CASE UNCHANGED vars
  BY <1>6, ExitingKeeps, TypeParts DEF IInv, FileTypes, vars, volatile
<1> QED
  BY <1>1, <1>2, <1>3, <1>4, <1>5, <1>6 DEF Next

-----------------------------------------------------------------------------
(* The inductive invariant holds of every behaviour.                           *)
THEOREM Invariance == Spec => []IInv
<1>1. Init => IInv
  BY InitIInv
<1>2. IInv /\ [Next]_vars => IInv'
  BY NextIInv
<1> QED
  BY <1>1, <1>2, PTL DEF Spec

(* metadata.json and the tracker only name complete checkpoints, so a restart  *)
(* never loads a partial one, for any ranks and any number of crashes and of   *)
(* writers that die.                                                           *)
THEOREM OnlyCompleteIsPublishedThm == Spec => []OnlyCompleteIsPublished
<1>1. IInv => OnlyCompleteIsPublished
  BY DEF IInv
<1> QED
  BY <1>1, Invariance, PTL

(* Ranks that wait in collectives wait in the same one, for the same request,  *)
(* and the state keeps its types.                                              *)
THEOREM CollectivesMatchThm == Spec => []CollectivesMatch
<1>1. IInv => CollectivesMatch
  <2> SUFFICES ASSUME IInv, NEW r \in Ranks, NEW q \in Ranks,
                      rank[r].pc \in CollectivePoints, rank[q].pc \in CollectivePoints
               PROVE  /\ rank[r].pc = rank[q].pc /\ rank[r].iteration = rank[q].iteration
                      /\ rank[r].call = rank[q].call
    BY DEF IInv, CollectivesMatch
  <2>1. "raised" \notin CollectivePoints
    BY DEF CollectivePoints
  <2>2. SameFuture(conf, start, rank[r], rank[q])
    BY <2>1 DEF IInv, Agreement
  <2>3. /\ NextMeeting(conf, start, rank[r]) = <<rank[r].pc, rank[r].ret>>
        /\ NextMeeting(conf, start, rank[q]) = <<rank[q].pc, rank[q].ret>>
        /\ NextCall(conf, rank[r]) = rank[r].call /\ NextCall(conf, rank[q]) = rank[q].call
    BY CollectiveMeeting
  <2>4. <<rank[r].pc, rank[r].ret>> = <<rank[q].pc, rank[q].ret>>
    BY <2>2, <2>3 DEF SameFuture
  <2> QED
    BY <2>2, <2>3, <2>4 DEF SameFuture
<1> QED
  BY <1>1, Invariance, PTL

(* The tracker never goes back: a job sets it past what it started from, and   *)
(* to the newest checkpoint it has completed.                                  *)
THEOREM TrackerAdvancesThm == Spec => TrackerAdvances
<1> DEFINE Advance == tracker' # tracker /\ tracker' \in Iterations =>
                        /\ tracker' > start
                        /\ \A i \in config : OfThisJob(i) => i <= tracker'
<1>1. IInv /\ [Next]_vars => Advance
  <2> SUFFICES ASSUME IInv, [Next]_vars, tracker' # tracker, tracker' \in Iterations
               PROVE  Advance
    OBVIOUS
  <2>1. PICK r \in Ranks : WriteTracker(r)
    <3>1. Truncated \notin Iterations
      BY CheckpointingAssumption DEF Truncated, Iterations
    <3>2. ASSUME NEW r \in Ranks, Step(r) PROVE WriteTracker(r)
      BY <3>1, <3>2 DEF Step, LoopHead, RampUpSave, ReadSignal, IntervalSave, ExitCheck,
         FinalSave, Exit, SaveCommon, StartWriter, Poll, Join, WriteMetadata, WriteConfig,
         OpenTracker, files
    <3>3. ~Collective
      BY DEF Collective, TrainStep, GatherSignals, AllReduceDone, Plan, SaveReturns,
         AllReduceAlive, GatherResults, MetadataBarrier, ConfigBarrier, AgreeOnCall, files
    <3>4. ~Restart /\ ~UNCHANGED vars /\ \A r \in Ranks : ~BeginExiting(r)
      BY DEF Restart, BeginExiting, vars, files
    <3>5. \A r \in Ranks, i \in Iterations : ~WriterEnds(r, i)
      BY DEF WriterEnds
    <3> QED
      BY <3>2, <3>3, <3>4, <3>5 DEF Next
  <2>2. rank[r].pc = "write_tracker" /\ tracker' = rank[r].call.iteration
    BY <2>1 DEF WriteTracker, Local
  <2>3. tracker' > start
    BY <2>2, CalledIteration DEF Called
  <2>4. ASSUME NEW i \in config, OfThisJob(i) PROVE i <= tracker'
    <3>1. PICK q \in Ranks : writer[q][i] # "none"
      BY <2>4 DEF OfThisJob
    <3>2. rank[q].call = rank[r].call
      BY <2>2, SameCall DEF IInv
    <3>3. i \in Iterations
      BY TypeParts DEF IInv, FileTypes
    <3>4. \A k \in 1 .. Len(rank[q].queue) : rank[q].queue[k].iteration # i
      BY JobFacts DEF Queued
    <3>5. Written(conf, writer, shards, q, rank[q])
      BY DEF IInv
    <3> QED
      BY <2>2, <3>1, <3>2, <3>3, <3>4, <3>5 DEF Written
  <2> QED
    BY <2>3, <2>4
<1>2. [][Advance]_vars <=> TrackerAdvances
  BY PTL DEF TrackerAdvances
<1> QED
  BY <1>1, Invariance, <1>2, PTL DEF Spec
=============================================================================
