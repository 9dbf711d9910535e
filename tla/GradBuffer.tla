------------------------------- MODULE GradBuffer -------------------------------
(***************************************************************************)
(* The gradients of one model chunk on one data-parallel rank, from         *)
(* zero_grad_buffer to the optimizer, over several training iterations:     *)
(* megatron/core/distributed/distributed_data_parallel.py,                  *)
(* param_and_grad_buffer.py, the gradient accumulation of                   *)
(* tensor_parallel/layers.py and the copy to the main parameters of         *)
(* optimizer/optimizer.py.                                                  *)
(*                                                                          *)
(* Backward hooks run in any order and, in the last microbatch, a bucket is *)
(* communicated by whichever of its hooks runs last. A gradient may reach   *)
(* its buffer on two ways, the fused weight-gradient GEMM of the linear     *)
(* layer and the hook; with 8-bit gradients it consists of codes and a      *)
(* scale (absmax) that are cleared in different places.                     *)
(***************************************************************************)
EXTENDS Integers

CONSTANTS
  Params,           \* parameters that require a gradient
  LinearParams,     \* weights of linear layers: the fused GEMM handles them
  TiedParams,       \* linear weights that are also the word embedding
  Buckets,
  BucketOf,         \* param_to_bucket
  MaxMicrobatches,  \* bound of the microbatches of an iteration
  MaxIterations,    \* bound of the iterations
  Configs           \* the configurations a training may run with

ASSUME GradBufferAssumption ==
  /\ TiedParams \subseteq LinearParams /\ LinearParams \subseteq Params
  /\ BucketOf \in [Params -> Buckets]
  /\ \A b \in Buckets : \E p \in Params : BucketOf[p] = b
  /\ MaxMicrobatches \in Nat /\ MaxIterations \in Nat
  /\ Configs \subseteq [fp8 : BOOLEAN, fused : BOOLEAN, sync : {"finish", "hooks", "delayed"}]

VARIABLES
  conf,          \* fp8: grad_reduce_in_fp8; fused: gradient_accumulation_fusion; sync: below
  pc,            \* where train_step is
  iteration,     \* iterations completed
  microbatches,  \* microbatches of this iteration
  mb,            \* microbatches whose backward pass is complete
  fusedDone,     \* parameters whose fused GEMM has run in this backward pass
  hooked,        \* parameters whose hook has run in this backward pass
  isLast,        \* is_last_microbatch
  added,         \* parameters with grad_added_to_main_grad
  grad,          \* grad[p][use]: microbatches in main_grad of p, per use of p
  bad,           \* parameters whose main_grad holds anything else as well
  absmax,        \* 8 bit: parameters with a nonzero quant_state.absmax
  withGrad,      \* params_with_grad of each bucket
  handle,        \* buckets with a communication_handle
  issued,        \* buckets with communication_issued
  reduced        \* times each bucket was scaled and reduced over the replicas

vars == <<conf, pc, iteration, microbatches, mb, fusedDone, hooked, isLast, added,
          grad, bad, absmax, withGrad, handle, issued, reduced>>

(* When a bucket is communicated: "finish" by finish_grad_sync, without      *)
(* overlap_grad_reduce; "hooks" by the hooks; "delayed" by the grad_sync_func *)
(* the pipeline schedule calls after the last backward pass.                 *)
Overlap == conf.sync # "finish"           \* overlap_grad_reduce

Uses == {"embedding", "layer"}
UsesOf(p) == IF p \in TiedParams THEN Uses ELSE {"layer"}

Fused(p) == conf.fused /\ p \in LinearParams

(* The uses whose gradient autograd sums in param.grad. *)
AutogradUses(p) == IF Fused(p) THEN UsesOf(p) \ {"layer"} ELSE UsesOf(p)

(* zero_out_wgrad: the dummy the fused GEMM returns is zeros, not empty. *)
ZeroOutWgrad(p) == p \in TiedParams

ParamsOf(b) == {p \in Params : BucketOf[p] = b}

NoGrad == [p \in Params |-> [u \in Uses |-> 0]]

Init ==
  /\ conf \in Configs
  /\ pc = "zero_grad"
  /\ iteration = 0 /\ microbatches = 0 /\ mb = 0
  /\ fusedDone = {} /\ hooked = {}
  /\ isLast = TRUE
  /\ added = {} /\ grad = NoGrad /\ bad = {} /\ absmax = {}
  /\ withGrad = [b \in Buckets |-> {}]
  /\ handle = {} /\ issued = {}
  /\ reduced = [b \in Buckets |-> 0]

-----------------------------------------------------------------------------
(* zero_grad_buffer: the codes are zeroed, absmax is not; code 0 decodes to   *)
(* -absmax, so what is left of the scale shows up as a gradient.              *)
MutResetBuckets ==
  /\ withGrad' = [b \in Buckets |-> {}]
  /\ handle' = {}
  /\ UNCHANGED issued
ResetBuckets ==
  /\ withGrad' = [b \in Buckets |-> {}]
  /\ handle' = {}
  /\ issued' = {}

ResetGrads ==
  /\ grad' = NoGrad
  /\ added' = {}
  /\ bad' = absmax
  /\ reduced' = [b \in Buckets |-> 0]

ZeroGrad ==
  /\ pc = "zero_grad" /\ iteration < MaxIterations
  /\ ResetGrads /\ ResetBuckets
  /\ isLast' = TRUE
  /\ microbatches' \in 1 .. MaxMicrobatches
  /\ mb' = 0
  /\ pc' = "forward"
  /\ UNCHANGED <<conf, iteration, fusedDone, hooked, absmax>>

(* The schedules hold no_sync until the last microbatch, and past it when    *)
(* they call grad_sync_func themselves. Without overlap there is no no_sync. *)
MutSyncEnabled == ~Overlap \/ (conf.sync = "hooks" /\ mb + 2 >= microbatches)
SyncEnabled == ~Overlap \/ (conf.sync = "hooks" /\ mb + 1 = microbatches)

BeginBackward ==
  /\ pc = "forward" /\ mb < microbatches
  /\ isLast' = SyncEnabled
  /\ fusedDone' = {} /\ hooked' = {}
  /\ pc' = "backward"
  /\ UNCHANGED <<conf, iteration, microbatches, mb, added, grad, bad, absmax,
                 withGrad, handle, issued, reduced>>

(* LinearWithGradAccumulationAndAsyncCommunication.backward adds to main_grad *)
(* itself and leaves a dummy in param.grad.                                   *)
FusedWgrad(p) ==
  /\ pc = "backward" /\ Fused(p) /\ p \notin fusedDone
  /\ grad' = [grad EXCEPT ![p]["layer"] = @ + 1]
  /\ bad' = IF BucketOf[p] \in issued THEN bad \cup {p} ELSE bad
  /\ added' = added \cup {p}
  /\ fusedDone' = fusedDone \cup {p}
  /\ UNCHANGED <<conf, pc, iteration, microbatches, mb, hooked, isLast, absmax,
                 withGrad, handle, issued, reduced>>

(* The hook adds param.grad to main_grad: the sum of what autograd computed   *)
(* for p and of the dummy of the fused GEMM.                                  *)
HookAdds(p) == p \notin added \/ ZeroOutWgrad(p)

Accumulate(p) ==
  IF HookAdds(p)
  THEN /\ grad' = [grad EXCEPT ![p] =
                     [u \in Uses |-> IF u \in AutogradUses(p) THEN @[u] + 1 ELSE @[u]]]
       /\ bad' = IF BucketOf[p] \in issued \/ (Fused(p) /\ ~ZeroOutWgrad(p))
                 THEN bad \cup {p} ELSE bad
       /\ absmax' = IF conf.fp8 THEN absmax \cup {p} ELSE absmax
  ELSE UNCHANGED <<grad, bad, absmax>>

(* start_grad_sync / start_grad8bit_sync of the buckets bs. The 8-bit path     *)
(* runs a2a_ag to its end and never sets communication_handle.                 *)
StartFails(bs) == bs \cap (handle \cup issued) # {}

StartGradSync(bs) ==
  /\ issued' = issued \cup bs
  /\ IF conf.fp8 \/ ~Overlap
     THEN /\ reduced' = [b \in Buckets |-> IF b \in bs THEN reduced[b] + 1 ELSE reduced[b]]
          /\ UNCHANGED handle
     ELSE handle' = handle \cup bs /\ UNCHANGED reduced

(* register_grad_ready of p's bucket, "Cannot set grad twice". *)
MutBucketReady(p) == TRUE
BucketReady(p) == withGrad[BucketOf[p]] \cup {p} = ParamsOf(BucketOf[p])

RegisterGradReady(p) ==
  LET b == BucketOf[p]
  IN  IF p \in withGrad[b] \/ (BucketReady(p) /\ StartFails({b}))
      THEN pc' = "failed" /\ UNCHANGED <<withGrad, handle, issued, reduced>>
      ELSE /\ withGrad' = [withGrad EXCEPT ![b] = @ \cup {p}]
           /\ IF BucketReady(p) THEN StartGradSync({b})
                                ELSE UNCHANGED <<handle, issued, reduced>>
           /\ UNCHANGED pc

(* The gradient accumulator of p runs once every use of p is complete. *)
ParamHook(p) ==
  /\ pc = "backward" /\ p \notin hooked
  /\ Fused(p) => p \in fusedDone
  /\ Accumulate(p)
  /\ hooked' = hooked \cup {p}
  /\ IF Overlap /\ isLast
     THEN RegisterGradReady(p)
     ELSE UNCHANGED <<pc, withGrad, handle, issued, reduced>>
  /\ UNCHANGED <<conf, iteration, microbatches, mb, fusedDone, isLast, added>>

EndBackward ==
  /\ pc = "backward" /\ hooked = Params
  /\ mb' = mb + 1
  /\ pc' = IF mb' < microbatches THEN "forward"
           ELSE IF conf.sync = "delayed" THEN "grad_sync" ELSE "finalize"
  /\ UNCHANGED <<conf, iteration, microbatches, fusedDone, hooked, isLast, added, grad,
                 bad, absmax, withGrad, handle, issued, reduced>>

(* enable_grad_sync() and the grad_sync_func of the schedule. *)
DelayedGradSync ==
  /\ pc = "grad_sync"
  /\ isLast' = TRUE
  /\ IF StartFails(Buckets)
     THEN pc' = "failed" /\ UNCHANGED <<handle, issued, reduced>>
     ELSE pc' = "finalize" /\ StartGradSync(Buckets)
  /\ UNCHANGED <<conf, iteration, microbatches, mb, fusedDone, hooked, added, grad, bad,
                 absmax, withGrad>>

(* finish_grad_sync of every bucket, called by finalize_model_grads. *)
FinishFails ==
  IF Overlap THEN ~(Buckets \subseteq handle \cap issued) ELSE StartFails(Buckets)

FinishGradSync ==
  /\ pc = "finalize"
  /\ isLast' = TRUE
  /\ IF FinishFails
     THEN pc' = "failed" /\ UNCHANGED <<handle, issued, reduced>>
     ELSE /\ pc' = "optimizer"
          /\ IF Overlap
             THEN /\ reduced' = [b \in Buckets |-> reduced[b] + 1]
                  /\ UNCHANGED <<handle, issued>>
             ELSE StartGradSync(Buckets)
  /\ UNCHANGED <<conf, iteration, microbatches, mb, fusedDone, hooked, added, grad, bad,
                 absmax, withGrad>>

(* _copy_model_grads_to_main_grads reads main_grad; with 8-bit gradients it   *)
(* then clears codes and scale, whether or not the step is skipped for an     *)
(* overflow afterwards.                                                       *)
MutClearQuantized == IF conf.fp8 THEN grad' = NoGrad /\ UNCHANGED absmax
                                 ELSE UNCHANGED <<grad, absmax>>
ClearQuantized == IF conf.fp8 THEN grad' = NoGrad /\ absmax' = {}
                              ELSE UNCHANGED <<grad, absmax>>

OptimizerStep ==
  /\ pc = "optimizer"
  /\ ClearQuantized
  /\ iteration' = iteration + 1
  /\ pc' = "zero_grad"
  /\ UNCHANGED <<conf, microbatches, mb, fusedDone, hooked, isLast, added, bad,
                 withGrad, handle, issued, reduced>>

Next ==
  \/ ZeroGrad \/ BeginBackward \/ EndBackward
  \/ DelayedGradSync \/ FinishGradSync \/ OptimizerStep
  \/ \E p \in Params : FusedWgrad(p) \/ ParamHook(p)

(* One thread runs all of it: it stops only where an assertion does.          *)
Spec == Init /\ [][Next]_vars /\ WF_vars(Next)

-----------------------------------------------------------------------------

(* Type correctness: a use of a parameter is accumulated at most once per      *)
(* microbatch, a bucket reduced at most once per iteration, and only a bucket  *)
(* whose communication was issued has a handle.                                *)
TypeOK ==
  /\ conf \in Configs
  /\ pc \in {"zero_grad", "forward", "backward", "grad_sync", "finalize", "optimizer",
             "failed"}
  /\ iteration \in 0 .. MaxIterations
  /\ microbatches \in 0 .. MaxMicrobatches /\ mb \in 0 .. microbatches
  /\ fusedDone \subseteq LinearParams /\ hooked \subseteq Params
  /\ isLast \in BOOLEAN
  /\ added \subseteq Params /\ bad \subseteq Params /\ absmax \subseteq Params
  /\ grad \in [Params -> [Uses -> 0 .. MaxMicrobatches]]
  /\ withGrad \in [Buckets -> SUBSET Params]
  /\ handle \subseteq issued /\ issued \subseteq Buckets
  /\ reduced \in [Buckets -> 0 .. 1]

(* main_grad of p holds the gradient of n microbatches, each use of p once    *)
(* per microbatch, and nothing else.                                          *)
HoldsGradOf(p, n) == p \notin bad /\ \A u \in UsesOf(p) : grad[p][u] = n

(* No bucket is communicated before the gradients of all its parameters, over *)
(* all microbatches, are in it, and none is touched afterwards: neither by a  *)
(* hook of another parameter nor by a microbatch that still runs.             *)
CommunicatesCompleteGrads ==
  pc \notin {"zero_grad", "failed"} =>
    \A p \in Params : BucketOf[p] \in issued => HoldsGradOf(p, microbatches)

(* What the optimizer copies to the main gradients is the gradient of the     *)
(* microbatches of this iteration only, reduced exactly once over the         *)
(* replicas and not still in flight, whatever the order of the hooks, the     *)
(* path of each gradient and the state the iteration before left behind.      *)
OptimizerReadsThisIteration ==
  pc = "optimizer" =>
    \A p \in Params : HoldsGradOf(p, microbatches) /\ reduced[BucketOf[p]] = 1

(* No assertion of the bucket fails: "Should not have multiple communication  *)
(* calls in flight at once", "Cannot set grad twice", "Communication call has *)
(* not been issued for this bucket".                                          *)
NoAssertionFails == pc # "failed"

(* finish_grad_sync: "When overlap_grad_reduce is set to True, waits for       *)
(* asynchronous communication call to complete": with overlap_grad_reduce, a   *)
(* finish_grad_sync after the last backward pass reaches the optimizer.        *)
FinishWaitsForCommunication ==
  [][pc = "finalize" /\ Overlap => pc' = "optimizer"]_vars

(* Every iteration completes. *)
IterationsComplete == <>(pc = "zero_grad" /\ iteration = MaxIterations)

=============================================================================
