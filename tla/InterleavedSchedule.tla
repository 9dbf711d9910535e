--------------------------- MODULE InterleavedSchedule ---------------------------
(***************************************************************************)
(* forward_backward_pipelining_with_interleaving of                         *)
(* megatron/core/pipeline_parallel/schedules.py: the interleaved 1F1B       *)
(* schedule of one training (or evaluation) iteration.                      *)
(*                                                                          *)
(* Every pipeline rank runs this function over its V model chunks; chunk c  *)
(* of rank r is virtual stage c * P + r. The ranks share nothing but the    *)
(* point-to-point channels of P2PCommunication, and each computes from its  *)
(* own loop counter which chunk to run, where to put what it receives, and  *)
(* whether its neighbours are sending at all. The model checks that these   *)
(* local computations agree.                                                *)
(***************************************************************************)
EXTENDS P2PCommunication, Functions

CONSTANTS
  V,        \* number of model chunks per rank
  Configs   \* the configurations an iteration may run with

ASSUME InterleavedAssumption ==
  /\ P > 2 /\ V \in Nat /\ V > 1
  /\ Configs \subseteq [microbatches : Nat \ {0}, forwardOnly : BOOLEAN,
                         overlap : BOOLEAN, gradSyncFunc : BOOLEAN]
  /\ \A cf \in Configs : cf.microbatches % P = 0
  /\ \E most \in Configs : \A cf \in Configs : cf.microbatches <= most.microbatches

VARIABLES
  conf,   \* [microbatches, forwardOnly, overlap, gradSyncFunc] of this iteration
  rank    \* rank[r]: program point and local variables of pipeline rank r

vars == <<conf, rank, pend>>

Chunks == 0 .. V - 1
M == conf.microbatches
Total == M * V                                    \* total_num_microbatches
StageOf(r, c) == c * P + r
FirstStage(r, c) == r = 0 /\ c = 0                \* is_pipeline_first_stage
LastStage(r, c) == r = P - 1 /\ c = V - 1         \* is_pipeline_last_stage

AllWarmup == ~conf.forwardOnly /\ M = P           \* all_warmup_microbatches

MinOf(a, b) == IF a < b THEN a ELSE b

MutNumWarmup(r) ==
  IF conf.forwardOnly \/ M = P THEN Total
  ELSE MinOf((P - r) * 2 + (V - 1) * P, Total)
NumWarmup(r) ==
  IF conf.forwardOnly \/ M = P THEN Total
  ELSE MinOf((P - r - 1) * 2 + (V - 1) * P, Total)

Remaining(r) == Total - NumWarmup(r)

(* get_model_chunk_id: also evaluated at negative ids, where % of Python and *)
(* of TLA+ agree.                                                            *)
ChunkId(id, forward) ==
  LET c == (id % (P * V)) \div P IN IF forward THEN c ELSE V - c - 1

IsFirstMicrobatch(id) == id \div (P * V) = 0 /\ (id % (P * V)) % P = 0

IsLastMicrobatch(id) ==
  /\ id \div (P * V) = Total \div (P * V) - 1
  /\ (id % (P * V)) % P = P - 1

-----------------------------------------------------------------------------
(* The two helpers every loop calls, as functions of the local state s of r. *)

(* Model chunks whose parameter synchronization is launched by iteration id. *)
ParamSyncChunks(r, id) ==
  LET at == id + r
      c == ChunkId(at, TRUE) + 1
  IN  {x \in {c} : at < Total /\ IsFirstMicrobatch(at) /\ 1 < x /\ x < V}

(* The input list of chunk c when its forward step reads the last entry. *)
ForwardInputs(s, r, c) ==
  IF FirstStage(r, c) /\ Len(s.input_tensors[c]) = Len(s.output_tensors[c])
  THEN Append(s.input_tensors[c], NoTensor)
  ELSE s.input_tensors[c]

(* The output of stage (r, c): the first stage and the loss read the next    *)
(* microbatch of the chunk's data iterator, the others only their input.     *)
ForwardOutput(s, r, c) ==
  LET input == Last(ForwardInputs(s, r, c))
  IN  Tensor(StageOf(r, c),
             IF FirstStage(r, c) THEN s.drawn[c]
             ELSE IF input.mb < 0 \/ (LastStage(r, c) /\ input.mb # s.drawn[c]) THEN Mixed
             ELSE input.mb)

ForwardStepHelper(s, r, id) ==
  LET c == ChunkId(id, TRUE)
      kept == ~conf.forwardOnly
  IN  [s EXCEPT
         !.param_syncs = [x \in Chunks |-> @[x] + (IF x \in ParamSyncChunks(r, id) THEN 1 ELSE 0)],
         !.input_tensors[c] = IF kept THEN ForwardInputs(s, r, c)
                              ELSE Front(ForwardInputs(s, r, c)),
         !.output_tensors[c] = IF kept THEN Append(@, ForwardOutput(s, r, c)) ELSE @,
         !.output_tensor = IF LastStage(r, c) THEN NoTensor ELSE ForwardOutput(s, r, c),
         !.drawn[c] = @ + 1]

(* The gradient lists of chunk c when its backward step pops the first entry. *)
BackwardGrads(s, r, c) ==
  IF LastStage(r, c) /\ s.output_tensor_grads[c] = <<>> THEN <<NoTensor>>
  ELSE s.output_tensor_grads[c]

(* The gradient of the stage's input: of one microbatch only if the incoming *)
(* gradient and the saved output belong to the same one.                     *)
BackwardOutput(s, r, c) ==
  LET x == Head(s.input_tensors[c])
      y == Head(s.output_tensors[c])
      g == Head(BackwardGrads(s, r, c))
  IN  IF x = NoTensor THEN NoTensor
      ELSE Tensor(StageOf(r, c),
                  IF g.mb = y.mb \/ (g = NoTensor /\ LastStage(r, c)) THEN y.mb ELSE Mixed)

(* Gradients of chunk c are handed to data-parallel synchronization: by the  *)
(* hooks of its backward pass when grad sync is enabled, or by a call of     *)
(* grad_sync_func. Recorded with the backward passes accumulated by then.    *)
Synced(s, chunks) ==
  [c \in Chunks |-> IF c \in chunks THEN Append(s.grad_syncs[c], s.bwd[c]) ELSE s.grad_syncs[c]]

(* The chunk whose grad_sync_func iteration id calls: rank r waits r         *)
(* iterations, so that all ranks launch at the same time.                    *)
GradSyncChunks(r, id) ==
  {c \in {ChunkId(id - r, FALSE)} :
     conf.gradSyncFunc /\ id - r >= 0 /\ IsLastMicrobatch(id - r)}

DefaultSyncChunks(id) ==
  {c \in {ChunkId(id, FALSE)} : ~conf.gradSyncFunc /\ IsLastMicrobatch(id)}

(* disable_grad_sync() ends every backward step. *)
MutNoSyncAfterBackward(s, early) == s.no_sync /\ early = {}
NoSyncAfterBackward(s, early) == TRUE

BackwardStepHelper(s, r, id) ==
  LET c == ChunkId(id, FALSE)
      early == DefaultSyncChunks(id)
      hooks == IF s.no_sync /\ early = {} THEN {} ELSE {c}
      late == GradSyncChunks(r, id)
      done == [s EXCEPT
                 !.input_tensors[c] = Tail(@),
                 !.output_tensors[c] = Tail(@),
                 !.output_tensor_grads[c] = Tail(BackwardGrads(s, r, c)),
                 !.input_tensor_grad = BackwardOutput(s, r, c),
                 !.bwd[c] = @ + 1]
      synced == [done EXCEPT !.grad_syncs = Synced(done, hooks)]
  IN  [synced EXCEPT !.grad_syncs = Synced(synced, late),
                     !.synchronized = @ \cup early \cup late,
                     !.no_sync = NoSyncAfterBackward(s, early)]

-----------------------------------------------------------------------------
(* Where a received tensor goes: the chunk, or NoRecv when none is sent.     *)

(* Warmup, after forward id: nothing for a chunk 0 of the first rank, and    *)
(* nothing after the last forward of all.                                    *)
WarmupRecvPrev(r, id) ==
  IF (r = 0 /\ ChunkId(id + 1, TRUE) = 0) \/ id = Total - 1 THEN NoRecv
  ELSE ChunkId(id + 1, TRUE)

(* Steady state, after forward id. The first rank receives what the last     *)
(* rank computed P - 1 iterations ago, for the next chunk.                   *)
MutSteadyRecvPrev(r, id) ==
  IF id = Total - 1 \/ (r = 0 /\ ChunkId(id + 1, TRUE) = 0) THEN NoRecv
  ELSE IF r = 0 THEN ChunkId(id - (P - 1), TRUE)
  ELSE ChunkId(id + 1, TRUE)
SteadyRecvPrev(r, id) ==
  LET ahead == ChunkId(id - (P - 1), TRUE)
  IN  IF id = Total - 1 \/ (r = 0 /\ ahead = V - 1) THEN NoRecv
      ELSE IF r = 0 THEN ahead + 1
      ELSE ChunkId(id + 1, TRUE)

(* Steady state, after backward id: the mirror image, at the last rank. *)
SteadyRecvNext(r, id) ==
  LET ahead == ChunkId(id - (P - 1), FALSE)
  IN  IF r = P - 1 /\ ahead = 0 THEN NoRecv
      ELSE IF r = P - 1 THEN ahead - 1
      ELSE ChunkId(id + 1, FALSE)

(* Cooldown, after backward id. *)
MutCooldownRecvNext(r, id) ==
  IF r = P - 1 /\ ChunkId(id + 1, FALSE) = V - 1 THEN NoRecv ELSE ChunkId(id + 1, FALSE)
CooldownRecvNext(r, id) ==
  IF (r = P - 1 /\ ChunkId(id + 1, FALSE) = V - 1) \/ id = Total - 1 THEN NoRecv
  ELSE ChunkId(id + 1, FALSE)

(* The list entry a call returns: the buffer of a receive, or None. *)
Received(chunk) == IF chunk = NoRecv THEN NoTensor ELSE Empty

-----------------------------------------------------------------------------

InitRank ==
  [phase |-> "first", k |-> 0,
   input_tensors |-> [c \in Chunks |-> <<>>],
   output_tensors |-> [c \in Chunks |-> <<>>],
   output_tensor_grads |-> [c \in Chunks |-> <<>>],
   output_tensor |-> NoTensor, input_tensor_grad |-> NoTensor,
   drawn |-> [c \in Chunks |-> 0], bwd |-> [c \in Chunks |-> 0],
   no_sync |-> TRUE, synchronized |-> {},
   grad_syncs |-> [c \in Chunks |-> <<>>],
   param_syncs |-> [c \in Chunks |-> IF c \in {0, 1} THEN 1 ELSE 0]]

Init ==
  /\ conf \in Configs
  /\ rank = [r \in Ranks |-> InitRank]
  /\ pend = [r \in Ranks |-> <<>>]

(* The handles whose operations a rank waits for before its next step. *)
MutWaits(phase) == {"sync"}
Waits(phase) ==
  {"sync"} \cup (IF phase \in {"warmup", "steady"} THEN {"fwd"} ELSE {})
           \cup (IF phase \in {"steady_bwd", "cooldown"} THEN {"bwd"} ELSE {})

Ready(r, phase) ==
  /\ rank[r].phase = phase
  /\ Completed(r, Waits(phase))

Post(r, ops) == pend' = [pend EXCEPT ![r] = @ \o ops]

(* The loop a rank enters after its forward passes are through. *)
AfterForward(r) ==
  IF conf.forwardOnly THEN "done" ELSE IF AllWarmup THEN "last" ELSE "cooldown"

(* recv_forward before the warmup loop. *)
RecvFirst(r) ==
  /\ Ready(r, "first")
  /\ LET recv == IF FirstStage(r, 0) THEN NoRecv ELSE 0
     IN  /\ rank' = [rank EXCEPT ![r].phase = "warmup",
                                 ![r].input_tensors[0] = Append(@, Received(recv))]
         /\ Post(r, Communicate(~conf.overlap, r, NoTensor, recv, NoTensor, NoRecv, "sync"))
  /\ UNCHANGED conf

(* One iteration of the warmup loop. The last one also starts to receive the *)
(* first gradient, unless the backward passes come after all forward passes. *)
WarmupIteration(r) ==
  /\ Ready(r, "warmup")
  /\ LET k == rank[r].k
         s == ForwardStepHelper(rank[r], r, k)
         recvPrev == WarmupRecvPrev(r, k)
         next == ChunkId(k + 1, TRUE)
         final == k = NumWarmup(r) - 1
         turn == final /\ ~conf.forwardOnly /\ ~AllWarmup
         recvNext == IF turn /\ r # P - 1 THEN V - 1 ELSE NoRecv
     IN  /\ rank' = [rank EXCEPT ![r] =
              [s EXCEPT
                 !.k = IF final /\ Remaining(r) = 0 THEN 0 ELSE k + 1,
                 !.phase = IF ~final THEN "warmup"
                           ELSE IF Remaining(r) > 0 THEN "steady" ELSE AfterForward(r),
                 !.input_tensors[next] = Append(@, Received(recvPrev)),
                 !.output_tensor_grads[V - 1] =
                    IF turn THEN Append(@, Received(recvNext)) ELSE @]]
         /\ Post(r, IF conf.overlap
                    THEN Communicate(FALSE, r, NoTensor, recvPrev, s.output_tensor, NoRecv, "fwd")
                      \o Communicate(FALSE, r, NoTensor, NoRecv, NoTensor, recvNext, "bwd")
                    ELSE Communicate(TRUE, r, NoTensor, recvPrev, s.output_tensor, recvNext, "sync"))
  /\ UNCHANGED conf

(* The forward half of a steady-state iteration. With overlap_p2p_comm its   *)
(* communication is started here and waited for in the next iteration.       *)
SteadyForward(r) ==
  /\ Ready(r, "steady")
  /\ LET s == ForwardStepHelper(rank[r], r, rank[r].k)
         recvPrev == SteadyRecvPrev(r, rank[r].k)
         placed == conf.overlap /\ recvPrev # NoRecv
     IN  /\ rank' = [rank EXCEPT ![r] =
              [s EXCEPT
                 !.phase = "steady_bwd",
                 !.input_tensors =
                    [c \in Chunks |-> IF placed /\ c = recvPrev THEN Append(@[c], Empty) ELSE @[c]]]]
         /\ IF conf.overlap
            THEN Post(r, Communicate(FALSE, r, NoTensor, recvPrev, s.output_tensor, NoRecv, "fwd"))
            ELSE UNCHANGED pend
  /\ UNCHANGED conf

(* The backward half. Without overlap all four directions are exchanged here *)
(* in one blocking call; either way the received tensors are put in place at *)
(* the end of the iteration.                                                 *)
SteadyBackward(r) ==
  /\ Ready(r, "steady_bwd")
  /\ LET id == rank[r].k - NumWarmup(r)
         s == BackwardStepHelper(rank[r], r, id)
         recvPrev == IF conf.overlap THEN NoRecv ELSE SteadyRecvPrev(r, rank[r].k)
         recvNext == SteadyRecvNext(r, id)
         final == rank[r].k = Total - 1
     IN  /\ rank' = [rank EXCEPT ![r] =
              [s EXCEPT
                 !.k = IF final THEN Remaining(r) ELSE @ + 1,
                 !.phase = IF final THEN "cooldown" ELSE "steady",
                 !.input_tensors =
                    [c \in Chunks |-> IF c = recvPrev THEN Append(@[c], Empty) ELSE @[c]],
                 !.output_tensor_grads =
                    [c \in Chunks |-> IF c = recvNext THEN Append(@[c], Empty) ELSE @[c]]]]
         /\ Post(r, IF conf.overlap
                    THEN Communicate(FALSE, r, s.input_tensor_grad, NoRecv, NoTensor, recvNext, "bwd")
                    ELSE Communicate(TRUE, r, s.input_tensor_grad, recvPrev,
                                     s.output_tensor, recvNext, "sync"))
  /\ UNCHANGED conf

(* recv_backward when all forward passes ran in the warmup loop. *)
RecvLast(r) ==
  /\ Ready(r, "last")
  /\ LET recv == IF LastStage(r, V - 1) THEN NoRecv ELSE V - 1
     IN  /\ rank' = [rank EXCEPT ![r].phase = "cooldown",
                                 ![r].output_tensor_grads[V - 1] = Append(@, Received(recv))]
         /\ Post(r, Communicate(~conf.overlap, r, NoTensor, NoRecv, NoTensor, recv, "sync"))
  /\ UNCHANGED conf

(* One iteration of the cooldown loop. *)
CooldownIteration(r) ==
  /\ Ready(r, "cooldown")
  /\ LET k == rank[r].k
         s == BackwardStepHelper(rank[r], r, k)
         recvNext == CooldownRecvNext(r, k)
         next == ChunkId(k + 1, FALSE)
     IN  /\ rank' = [rank EXCEPT ![r] =
              [s EXCEPT
                 !.k = k + 1,
                 !.phase = IF k = Total - 1 THEN "launch" ELSE "cooldown",
                 !.output_tensor_grads[next] = Append(@, Received(recvNext))]]
         /\ Post(r, Communicate(~conf.overlap, r, s.input_tensor_grad, NoRecv,
                                NoTensor, recvNext, "sync"))
  /\ UNCHANGED conf

(* Launch any remaining grad reductions. *)
RemainingChunks(s) == IF conf.gradSyncFunc THEN Chunks \ s.synchronized ELSE {}

LaunchRemaining(r) ==
  /\ Ready(r, "launch")
  /\ rank' = [rank EXCEPT ![r] =
       [rank[r] EXCEPT !.phase = "done", !.no_sync = FALSE,
                       !.grad_syncs = Synced(rank[r], RemainingChunks(rank[r])),
                       !.synchronized = @ \cup RemainingChunks(rank[r])]]
  /\ UNCHANGED <<conf, pend>>

(* The library pairs a send of rank i with a receive of rank j. *)
Transfer(i, j) ==
  \E m \in DOMAIN pend[i], n \in DOMAIN pend[j] :
    /\ Paired(~conf.overlap, i, m, j, n)
    /\ Complete(i, m, j, n)
    /\ LET data == pend[i][m].data
           c == pend[j][n].chunk
       IN  rank' = IF pend[j][n].list = "input"
                   THEN [rank EXCEPT ![j].input_tensors[c] = Fill(@, data)]
                   ELSE [rank EXCEPT ![j].output_tensor_grads[c] = Fill(@, data)]
    /\ UNCHANGED conf

Step(r) ==
  \/ RecvFirst(r)
  \/ WarmupIteration(r)
  \/ SteadyForward(r)
  \/ SteadyBackward(r)
  \/ RecvLast(r)
  \/ CooldownIteration(r)
  \/ LaunchRemaining(r)

Next ==
  \/ \E r \in Ranks : Step(r)
  \/ \E i, j \in Ranks : Transfer(i, j)

(* Every rank's process keeps running, and the library completes what both   *)
(* sides have posted.                                                        *)
Fairness ==
  /\ \A r \in Ranks : WF_vars(Step(r))
  /\ \A i, j \in Ranks : WF_vars(Transfer(i, j))

Spec == Init /\ [][Next]_vars /\ Fairness

-----------------------------------------------------------------------------
(* Properties.                                                               *)

MaxMicrobatches == Max({cf.microbatches : cf \in Configs})
StageIds == 0 .. P * V - 1
Tensors == [stage : StageIds, mb : {Mixed} \cup (0 .. MaxMicrobatches - 1)] \cup {NoTensor, Empty}

RankType ==
  [phase : {"first", "warmup", "steady", "steady_bwd", "last", "cooldown", "launch", "done"},
   k : 0 .. Total,
   input_tensors : [Chunks -> Seq(Tensors)],
   output_tensors : [Chunks -> Seq(Tensors)],
   output_tensor_grads : [Chunks -> Seq(Tensors)],
   output_tensor : Tensors, input_tensor_grad : Tensors,
   drawn : [Chunks -> 0 .. M], bwd : [Chunks -> 0 .. M],
   no_sync : BOOLEAN, synchronized : SUBSET Chunks,
   grad_syncs : [Chunks -> Seq(0 .. M)], param_syncs : [Chunks -> Nat]]

(* Type correctness of the schedule: loop counters, tensor lists and posted  *)
(* operations stay within the iteration's stages and microbatches.           *)
TypeOK ==
  /\ conf \in Configs
  /\ rank \in [Ranks -> RankType]
  /\ pend \in [Ranks -> Seq(OpType(MaxMicrobatches - 1, StageIds))]

(* The chunk and list in which a rank stores what it receives is the one its *)
(* neighbour meant: entry n of every list of virtual stage s is about the    *)
(* n-th microbatch not yet backpropagated there, inputs come from stage      *)
(* s - 1 and gradients from stage s + 1. A tensor is never consumed before   *)
(* its transfer completed, or it would show as Mixed in an output. The only  *)
(* other entries are the None placeholders of the two ends of the pipeline   *)
(* and the one that the last loop iteration leaves behind. The state keeps   *)
(* its types.                                                                *)
TensorsInOrder ==
  /\ TypeOK
  /\ \A r \in Ranks, c \in Chunks :
    LET s == rank[r]
        stage == StageOf(r, c)
        base == IF conf.forwardOnly THEN s.drawn[c] ELSE s.bwd[c]
        Is(t, from, n) == t.stage = from /\ t.mb = base + n - 1
    IN  /\ \A n \in DOMAIN s.output_tensors[c] : Is(s.output_tensors[c][n], stage, n)
        /\ \A n \in DOMAIN s.input_tensors[c] :
             LET t == s.input_tensors[c][n]
             IN  \/ t = NoTensor /\ (FirstStage(r, c) \/ base + n - 1 = M)
                 \/ t = Empty /\ n > Len(s.output_tensors[c])
                 \/ ~FirstStage(r, c) /\ Is(t, stage - 1, n)
        /\ \A n \in DOMAIN s.output_tensor_grads[c] :
             LET t == s.output_tensor_grads[c][n]
             IN  \/ t = NoTensor /\ (LastStage(r, c) \/ base + n - 1 = M)
                 \/ t = Empty
                 \/ ~LastStage(r, c) /\ Is(t, stage + 1, n)

(* The gradients of a chunk go to data-parallel synchronization exactly once *)
(* in an iteration and never before the last of its microbatches has been    *)
(* accumulated, whether the hooks or grad_sync_func launch it.               *)
GradSyncOnceComplete ==
  \A r \in Ranks, c \in Chunks :
    /\ rank[r].grad_syncs[c] \in {<<>>, <<M>>}
    /\ rank[r].phase = "done" /\ ~conf.forwardOnly => rank[r].grad_syncs[c] = <<M>>

(* A chunk's parameters are synchronized exactly once, before its first      *)
(* forward pass, although the launch is moved r iterations ahead on rank r.  *)
ParamSyncBeforeForward ==
  \A r \in Ranks, c \in Chunks :
    /\ rank[r].param_syncs[c] <= 1
    /\ rank[r].drawn[c] > 0 => rank[r].param_syncs[c] = 1

(* Both functions are called for every chunk, in time and once, although     *)
(* each rank decides by its own loop counter (schedules.py:630-720).         *)
SyncsOnceInTime == GradSyncOnceComplete /\ ParamSyncBeforeForward

(* The activations a rank keeps for the backward pass never exceed the       *)
(* pipeline's own window: 2 per later rank and P per extra chunk, plus the   *)
(* one in work; everything if all forwards come first; nothing when no       *)
(* backward follows. Layers are partially checkpointed by this window.       *)
MaxOutstanding(r) ==
  IF conf.forwardOnly THEN 0
  ELSE IF M = P THEN Total
  ELSE 2 * (P - 1 - r) + (V - 1) * P + 1

ActivationsInFlight ==
  \A r \in Ranks :
    SumFunction([c \in Chunks |-> Len(rank[r].output_tensors[c])]) <= MaxOutstanding(r)

(* Every rank finishes the iteration: the ranks never wait for one another   *)
(* forever.                                                                  *)
Termination == <>(\A r \in Ranks : rank[r].phase = "done")

(* The schedule implements the order of PipelineOrder over the P * V virtual *)
(* stages: forward needs the stage before, backward the stage behind.        *)
ChunkAt(s) == s \div P
RankAt(s) == s % P

Order == INSTANCE PipelineOrder WITH
  NumStages <- P * V,
  NumMicrobatches <- MaxMicrobatches,
  fwd <- [s \in StageIds |-> rank[RankAt(s)].drawn[ChunkAt(s)]],
  bwd <- [s \in StageIds |-> rank[RankAt(s)].bwd[ChunkAt(s)]]

ImplementsPipelineOrder == Order!Spec

=============================================================================
