------------------------------ MODULE Schedule1F1B ------------------------------
(***************************************************************************)
(* forward_backward_pipelining_without_interleaving of                      *)
(* megatron/core/pipeline_parallel/schedules.py: the 1F1B schedule of one   *)
(* iteration for a model of one chunk per pipeline rank, a decoder-only     *)
(* model: one tensor per microbatch and link.                               *)
(*                                                                          *)
(* Every communication call blocks its rank (overlap_p2p_comm is refused),  *)
(* so a call that one rank makes and its neighbour does not, or that the    *)
(* two make in different orders, stops the pipeline.                        *)
(***************************************************************************)
EXTENDS P2PCommunication

CONSTANT Configs   \* the configurations an iteration may run with

(* An iteration has microbatches to run, and no configuration has more of    *)
(* them than all the others (there are finitely many).                       *)
ASSUME Schedule1F1BAssumption ==
  /\ Configs \subseteq [microbatches : Nat \ {0}, forwardOnly : BOOLEAN, gradSyncFunc : BOOLEAN]
  /\ \E most \in Configs : \A cf \in Configs : cf.microbatches <= most.microbatches

VARIABLES
  conf,   \* [microbatches, forwardOnly, gradSyncFunc] of this iteration
  rank    \* rank[r]: program point and local variables of pipeline rank r

vars == <<conf, rank, pend>>

M == conf.microbatches
FirstStage(r) == r = 0          \* is_pipeline_first_stage
LastStage(r) == r = P - 1       \* is_pipeline_last_stage

MinOf(a, b) == IF a < b THEN a ELSE b

NumWarmup(r) == MinOf(P - r - 1, M)
Remaining(r) == M - NumWarmup(r)

-----------------------------------------------------------------------------
(* p2p wrappers: the ends of the pipeline have no neighbour to talk to.      *)

Buffer(present) == IF present THEN Empty ELSE NoTensor
ToPrev(r, tensor) == IF FirstStage(r) THEN NoTensor ELSE tensor
MutToNext(r, tensor) == tensor
ToNext(r, tensor) == IF LastStage(r) THEN NoTensor ELSE tensor
FromPrev(r) == IF FirstStage(r) THEN NoRecv ELSE 0
FromNext(r) == IF LastStage(r) THEN NoRecv ELSE 0

Call(r, sendPrev, recvPrev, sendNext, recvNext) ==
  pend' = [pend EXCEPT ![r] =
             @ \o Communicate(TRUE, r, sendPrev, recvPrev, sendNext, recvNext, "sync")]

RecvForward(r) == Call(r, NoTensor, FromPrev(r), NoTensor, NoRecv)
RecvBackward(r) == Call(r, NoTensor, NoRecv, NoTensor, FromNext(r))
SendForward(r, t) == Call(r, NoTensor, NoRecv, ToNext(r, t), NoRecv)
SendBackward(r, g) == Call(r, ToPrev(r, g), NoRecv, NoTensor, NoRecv)
SendForwardRecvBackward(r, t) == Call(r, NoTensor, NoRecv, ToNext(r, t), FromNext(r))
SendBackwardRecvForward(r, g) == Call(r, ToPrev(r, g), FromPrev(r), NoTensor, NoRecv)

-----------------------------------------------------------------------------

(* The output of the forward step: the first rank and the loss read the next *)
(* microbatch of the data iterator, the other ranks only their input.        *)
ForwardOutput(s, r) ==
  Tensor(r, IF FirstStage(r) THEN s.drawn
            ELSE IF s.input_tensor.mb < 0 \/ (LastStage(r) /\ s.input_tensor.mb # s.drawn) THEN Mixed
            ELSE s.input_tensor.mb)

(* A forward step. Its tensors are kept only if a backward pass follows. *)
ForwardStep(s, r) ==
  LET kept(list, t) == IF conf.forwardOnly THEN list ELSE Append(list, t)
  IN  [s EXCEPT !.drawn = @ + 1,
                !.input_tensors = kept(@, s.input_tensor),
                !.output_tensors = kept(@, ForwardOutput(s, r))]

BackwardOutput(s, r) ==
  LET y == Head(s.output_tensors)
      g == s.output_tensor_grad
  IN  IF Head(s.input_tensors) = NoTensor THEN NoTensor
      ELSE Tensor(r, IF g.mb = y.mb \/ (g = NoTensor /\ LastStage(r)) THEN y.mb ELSE Mixed)

(* A backward step of the oldest tensors. The hooks hand the gradients to    *)
(* data-parallel synchronization if grad sync is enabled at this step.       *)
BackwardStep(s, r, enabled) ==
  [s EXCEPT !.bwd = @ + 1,
            !.input_tensors = Tail(@),
            !.output_tensors = Tail(@),
            !.no_sync = @ /\ ~enabled,
            !.grad_syncs = IF s.no_sync /\ ~enabled THEN @ ELSE Append(@, s.bwd + 1)]

(* enable_grad_sync() before backward pass i of n in its loop. With a        *)
(* grad_sync_func only the first rank, which has no bubble left, does so.    *)
MutEnables(r, i, n) == ~conf.gradSyncFunc \/ r = 0
Enables(r, i, n) == i = n - 1 /\ (~conf.gradSyncFunc \/ r = 0)

-----------------------------------------------------------------------------

InitRank(r) ==
  [phase |-> IF NumWarmup(r) > 0 THEN "warmup_recv" ELSE "first_recv",
   i |-> 0, input_tensor |-> NoTensor, output_tensor_grad |-> NoTensor,
   input_tensors |-> <<>>, output_tensors |-> <<>>,
   drawn |-> 0, bwd |-> 0, no_sync |-> TRUE, grad_syncs |-> <<>>]

Init ==
  /\ conf \in Configs
  /\ rank = [r \in Ranks |-> InitRank(r)]
  /\ pend = [r \in Ranks |-> <<>>]

MutReady(r, phase) ==
  /\ rank[r].phase = phase
  /\ \A n \in DOMAIN pend[r] : pend[r][n].kind # "send"
Ready(r, phase) ==
  /\ rank[r].phase = phase
  /\ Completed(r, {"sync"})

AfterWarmup(r) == IF Remaining(r) > 0 THEN "first_recv"
                  ELSE IF conf.forwardOnly THEN "done" ELSE "cooldown_recv"

WarmupRecv(r) ==
  /\ Ready(r, "warmup_recv")
  /\ rank' = [rank EXCEPT ![r].phase = "warmup_fwd",
                          ![r].input_tensor = Buffer(~FirstStage(r))]
  /\ RecvForward(r)
  /\ UNCHANGED conf

WarmupForward(r) ==
  /\ Ready(r, "warmup_fwd")
  /\ LET s == rank[r]
         final == s.i = NumWarmup(r) - 1
     IN  rank' = [rank EXCEPT ![r] =
           [ForwardStep(s, r) EXCEPT !.i = IF final THEN 0 ELSE @ + 1,
                                     !.phase = IF final THEN AfterWarmup(r) ELSE "warmup_recv"]]
  /\ SendForward(r, ForwardOutput(rank[r], r))
  /\ UNCHANGED conf

(* The input of the first steady-state microbatch, before the loop. *)
FirstRecv(r) ==
  /\ Ready(r, "first_recv")
  /\ rank' = [rank EXCEPT ![r].phase = "steady_fwd",
                          ![r].input_tensor = Buffer(~FirstStage(r))]
  /\ RecvForward(r)
  /\ UNCHANGED conf

SteadyForward(r) ==
  /\ Ready(r, "steady_fwd")
  /\ ~conf.forwardOnly
  /\ rank' = [rank EXCEPT ![r] =
       [ForwardStep(rank[r], r) EXCEPT !.phase = "steady_bwd",
                                       !.output_tensor_grad = Buffer(~LastStage(r))]]
  /\ SendForwardRecvBackward(r, ForwardOutput(rank[r], r))
  /\ UNCHANGED conf

SteadyBackward(r) ==
  /\ Ready(r, "steady_bwd")
  /\ LET s == rank[r]
         final == s.i = Remaining(r) - 1
         enabled == NumWarmup(r) = 0 /\ Enables(r, s.i, Remaining(r))
     IN  /\ rank' = [rank EXCEPT ![r] =
              [BackwardStep(s, r, enabled) EXCEPT
                 !.i = IF final THEN 0 ELSE @ + 1,
                 !.phase = IF ~final THEN "steady_fwd"
                           ELSE IF NumWarmup(r) > 0 THEN "cooldown_recv" ELSE "launch",
                 !.input_tensor = Buffer(~final /\ ~FirstStage(r))]]
         /\ IF final THEN SendBackward(r, BackwardOutput(s, r))
            ELSE SendBackwardRecvForward(r, BackwardOutput(s, r))
  /\ UNCHANGED conf

(* An iteration of the same loop when no backward passes follow. *)
EvalForward(r) ==
  /\ Ready(r, "steady_fwd")
  /\ conf.forwardOnly
  /\ LET s == rank[r]
         final == s.i = Remaining(r) - 1
     IN  rank' = [rank EXCEPT ![r] =
           [ForwardStep(s, r) EXCEPT !.i = IF final THEN 0 ELSE @ + 1,
                                     !.phase = IF final THEN "done" ELSE "first_recv"]]
  /\ SendForward(r, ForwardOutput(rank[r], r))
  /\ UNCHANGED conf

CooldownRecv(r) ==
  /\ Ready(r, "cooldown_recv")
  /\ rank' = [rank EXCEPT ![r].phase = "cooldown_bwd",
                          ![r].output_tensor_grad = Buffer(~LastStage(r))]
  /\ RecvBackward(r)
  /\ UNCHANGED conf

CooldownBackward(r) ==
  /\ Ready(r, "cooldown_bwd")
  /\ LET s == rank[r]
         final == s.i = NumWarmup(r) - 1
     IN  /\ rank' = [rank EXCEPT ![r] =
              [BackwardStep(s, r, Enables(r, s.i, NumWarmup(r))) EXCEPT
                 !.i = IF final THEN 0 ELSE @ + 1,
                 !.phase = IF final THEN "launch" ELSE "cooldown_recv"]]
         /\ SendBackward(r, BackwardOutput(s, r))
  /\ UNCHANGED conf

(* Launch any remaining grad reductions: the ranks that did not enable grad  *)
(* sync in their last backward pass call grad_sync_func here, in the bubble. *)
LaunchRemaining(r) ==
  /\ Ready(r, "launch")
  /\ rank' = [rank EXCEPT ![r] =
       [rank[r] EXCEPT !.phase = "done", !.no_sync = FALSE,
                       !.grad_syncs = IF rank[r].no_sync /\ conf.gradSyncFunc
                                      THEN Append(@, rank[r].bwd) ELSE @]]
  /\ UNCHANGED <<conf, pend>>

Transfer(i, j) ==
  \E m \in DOMAIN pend[i], n \in DOMAIN pend[j] :
    /\ Paired(TRUE, i, m, j, n)
    /\ Complete(i, m, j, n)
    /\ rank' = IF pend[j][n].list = "input"
               THEN [rank EXCEPT ![j].input_tensor = pend[i][m].data]
               ELSE [rank EXCEPT ![j].output_tensor_grad = pend[i][m].data]
    /\ UNCHANGED conf

Step(r) ==
  \/ WarmupRecv(r)
  \/ WarmupForward(r)
  \/ FirstRecv(r)
  \/ SteadyForward(r)
  \/ SteadyBackward(r)
  \/ EvalForward(r)
  \/ CooldownRecv(r)
  \/ CooldownBackward(r)
  \/ LaunchRemaining(r)

Next ==
  \/ \E r \in Ranks : Step(r)
  \/ \E i, j \in Ranks : Transfer(i, j)

(* Every rank's process keeps running, and the library completes what both   *)
(* sides have posted.                                                        *)
Fairness ==
  /\ \A r \in Ranks : WF_vars(Step(r))
  /\ \A i, j \in Ranks : WF_vars(Transfer(i, j))

Spec == Init /\ [][Next]_vars /\ Fairness

-----------------------------------------------------------------------------
(* Properties.                                                               *)

MaxMicrobatches == Max({cf.microbatches : cf \in Configs})
Tensors == [stage : Ranks, mb : {Mixed} \cup (0 .. MaxMicrobatches - 1)] \cup {NoTensor, Empty}

RankType ==
  [phase : {"warmup_recv", "warmup_fwd", "first_recv", "steady_fwd", "steady_bwd",
            "cooldown_recv", "cooldown_bwd", "launch", "done"},
   i : 0 .. M, input_tensor : Tensors, output_tensor_grad : Tensors,
   input_tensors : Seq(Tensors), output_tensors : Seq(Tensors),
   drawn : 0 .. M, bwd : 0 .. M, no_sync : BOOLEAN, grad_syncs : Seq(0 .. M)]

(* Type correctness: loop counters, saved tensors and posted operations stay *)
(* within the iteration's ranks and microbatches.                            *)
TypeOK ==
  /\ conf \in Configs
  /\ rank \in [Ranks -> RankType]
  /\ pend \in [Ranks -> Seq(OpType(MaxMicrobatches - 1, Ranks))]

(* The memory promise of 1F1B: rank r holds the activations of at most P - r *)
(* microbatches, however many an iteration has, and none in evaluation.      *)
ActivationsInFlight ==
  \A r \in Ranks :
    Len(rank[r].output_tensors) <= (IF conf.forwardOnly THEN 0 ELSE P - r)

(* The saved tensors are those of consecutive microbatches, oldest first,    *)
(* the gradient a rank holds for a backward step belongs to the oldest of    *)
(* them, and an input is that of the microbatch the rank runs next; there    *)
(* are never more of them than 1F1B promises. The state keeps its types.     *)
MicrobatchesMatch ==
  /\ TypeOK
  /\ ActivationsInFlight
  /\ \A r \in Ranks :
    LET s == rank[r]
        From(q, n) == IF q \in Ranks THEN Tensor(q, n) ELSE NoTensor
    IN  /\ s.output_tensors = [n \in 1 .. Len(s.output_tensors) |-> Tensor(r, s.bwd + n - 1)]
        /\ s.input_tensors = [n \in 1 .. Len(s.output_tensors) |-> From(r - 1, s.bwd + n - 1)]
        /\ s.phase \in {"steady_bwd", "cooldown_bwd"} =>
             s.output_tensor_grad \in {Empty, From(r + 1, s.bwd)}
        /\ s.phase \in {"warmup_fwd", "steady_fwd"} =>
             s.input_tensor \in {Empty, From(r - 1, s.drawn)}

(* The gradients of a rank go to data-parallel synchronization exactly once, *)
(* after the backward pass of the last microbatch: by the hooks of that pass *)
(* or by grad_sync_func, and never by both.                                  *)
GradSyncOnceComplete ==
  \A r \in Ranks :
    /\ rank[r].grad_syncs \in {<<>>, <<M>>}
    /\ rank[r].phase = "done" /\ ~conf.forwardOnly => rank[r].grad_syncs = <<M>>

(* Every rank finishes the iteration: the ranks never wait for one another   *)
(* forever.                                                                  *)
Termination == <>(\A r \in Ranks : rank[r].phase = "done")

(* The schedule implements the order of PipelineOrder over the P ranks. *)
Order == INSTANCE PipelineOrder WITH
  NumStages <- P,
  NumMicrobatches <- MaxMicrobatches,
  fwd <- [r \in Ranks |-> rank[r].drawn],
  bwd <- [r \in Ranks |-> rank[r].bwd]

ImplementsPipelineOrder == Order!Spec

=============================================================================
