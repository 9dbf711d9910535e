----------------------------- MODULE PipelineOrder -----------------------------
(***************************************************************************)
(* What every pipeline schedule of megatron/core/pipeline_parallel promises *)
(* about one training iteration, whatever the schedule: the model is cut    *)
(* into virtual stages 0 .. NumStages-1, each stage runs the forward and    *)
(* the backward pass of every microbatch in order, a forward pass needs the *)
(* activation of the stage before it, a backward pass needs the gradient of *)
(* the stage behind it.                                                     *)
(*                                                                          *)
(* The interleaved schedule and the 1F1B schedule are both checked to       *)
(* implement this specification.                                            *)
(***************************************************************************)
EXTENDS Integers

CONSTANTS
  NumStages,        \* number of virtual pipeline stages
  NumMicrobatches   \* an upper bound of the microbatches of an iteration

(* What the theorems about this order assume.                               *)
ProperSizes == NumStages \in Nat \ {0} /\ NumMicrobatches \in Nat

VARIABLES
  fwd,  \* fwd[s]: microbatches 0 .. fwd[s]-1 went forward through stage s
  bwd   \* bwd[s]: microbatches 0 .. bwd[s]-1 went backward through stage s

orderVars == <<fwd, bwd>>

Stages == 0 .. NumStages - 1
LastStage == NumStages - 1

Init ==
  /\ fwd = [s \in Stages |-> 0]
  /\ bwd = [s \in Stages |-> 0]

(* Stage s runs the forward pass of its next microbatch. *)
Forward(s) ==
  /\ fwd[s] < NumMicrobatches
  /\ s # 0 => fwd[s - 1] > fwd[s]
  /\ fwd' = [fwd EXCEPT ![s] = @ + 1]
  /\ UNCHANGED bwd

(* Stage s runs the backward pass of its next microbatch. *)
Backward(s) ==
  /\ fwd[s] > bwd[s]
  /\ s # LastStage => bwd[s + 1] > bwd[s]
  /\ bwd' = [bwd EXCEPT ![s] = @ + 1]
  /\ UNCHANGED fwd

Next == \E s \in Stages : Forward(s) \/ Backward(s)

Spec == Init /\ [][Next]_orderVars

-----------------------------------------------------------------------------

(* Type correctness: the counters of every stage stay within the microbatches  *)
(* of the iteration.                                                          *)
TypeOK ==
  /\ fwd \in [Stages -> 0 .. NumMicrobatches]
  /\ bwd \in [Stages -> 0 .. NumMicrobatches]

(* A stage is never ahead of a stage before it in the forward pass, nor of   *)
(* a stage behind it in the backward pass.                                   *)
Wavefront ==
  \A s, t \in Stages :
     s <= t => /\ fwd[t] <= fwd[s]
               /\ bwd[s] <= bwd[t]

(* A stage runs a microbatch forward before it runs it backward. *)
ForwardFirst == \A s \in Stages : bwd[s] <= fwd[s]

(* No stage starts the backward pass of a microbatch before every stage,     *)
(* the loss included, has run its forward pass.                              *)
BackwardAfterAllForward == \A s, t \in Stages : bwd[s] <= fwd[t]

(* The inductive form of the order: what holds between any two stages follows *)
(* from guards that compare neighbours only.                                 *)
OrderInv == TypeOK /\ Wavefront /\ ForwardFirst

=============================================================================
