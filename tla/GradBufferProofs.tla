---------------------------- MODULE GradBufferProofs ----------------------------
(***************************************************************************)
(* Proofs about the gradient buffer of one data-parallel rank, for any      *)
(* parameters, buckets, microbatches and iterations.                        *)
(***************************************************************************)
EXTENDS GradBuffer, TLAPS

(* The inductive invariant. It names what the safety properties leave out:    *)
(* how far a backward pass has got for each use of each parameter, and which  *)
(* buckets must have been communicated by then.                               *)

(* The current backward pass has added the gradient of use u to p. *)
Done(p, u) == IF u \in AutogradUses(p) THEN p \in hooked ELSE p \in fusedDone

(* main_grad counts exactly the microbatches whose gradients were computed. *)
Counting ==
  pc # "zero_grad" =>
    \A p \in Params : \A u \in Uses :
      grad[p][u] = IF u \notin UsesOf(p) THEN 0
                   ELSE IF pc = "backward" /\ Done(p, u) THEN mb + 1 ELSE mb

ProgramPoint ==
  /\ pc \in {"forward", "backward"} => mb < microbatches
  /\ pc \in {"grad_sync", "finalize", "optimizer"} => mb = microbatches
  /\ pc = "grad_sync" => conf.sync = "delayed"
  /\ pc # "zero_grad" => iteration < MaxIterations
  /\ pc = "backward" => /\ isLast = SyncEnabled
                        /\ fusedDone \subseteq added
                        /\ \A p \in hooked : Fused(p) => p \in fusedDone

(* Nothing but gradients of this iteration is in a buffer. *)
Clean ==
  /\ bad = {}
  /\ ~conf.fp8 \/ pc = "zero_grad" => absmax = {}
  /\ \A p \in added : Fused(p)

(* The hooks communicate buckets in the current backward pass. *)
HooksSync == pc = "backward" /\ conf.sync = "hooks" /\ isLast

(* The buckets that have been communicated at each program point. *)
IssuedBuckets ==
  IF HooksSync THEN {b \in Buckets : ParamsOf(b) \subseteq hooked}
  ELSE IF pc = "optimizer" \/ (pc = "finalize" /\ Overlap) THEN Buckets
  ELSE {}

Syncing ==
  pc # "zero_grad" =>
    /\ issued = IssuedBuckets
    /\ handle = IF conf.fp8 \/ ~Overlap THEN {} ELSE issued
    /\ \A b \in Buckets :
         /\ HooksSync => withGrad[b] = hooked \cap ParamsOf(b)
         /\ pc \in {"forward", "grad_sync"} \/ (pc = "backward" /\ ~HooksSync) => withGrad[b] = {}
         /\ reduced[b] = IF b \in issued /\ (b \notin handle \/ pc = "optimizer")
                         THEN 1 ELSE 0

GradInv == TypeOK /\ (pc # "failed" => Counting /\ ProgramPoint /\ Clean /\ Syncing)

(* Facts about the constants and about the uses of a parameter. *)
LEMMA UsesFacts ==
  /\ \A p \in Params : UsesOf(p) \subseteq Uses /\ AutogradUses(p) \subseteq UsesOf(p)
  /\ \A p \in Params : Fused(p) <=> AutogradUses(p) # UsesOf(p)
  /\ \A p \in Params : Fused(p) => AutogradUses(p) = UsesOf(p) \ {"layer"}
  /\ \A p \in Params : "layer" \in UsesOf(p) /\ "layer" \in Uses
  /\ \A p \in Params : BucketOf[p] \in Buckets /\ p \in ParamsOf(BucketOf[p])
  /\ \A b \in Buckets : ParamsOf(b) # {} /\ ParamsOf(b) \subseteq Params
BY GradBufferAssumption DEF UsesOf, Uses, AutogradUses, Fused, ParamsOf

(* Initially. *)
LEMMA GradInvInit == Init => GradInv
BY GradBufferAssumption
   DEF Init, GradInv, TypeOK, Counting, ProgramPoint, Clean, Syncing, NoGrad, Uses

(* zero_grad_buffer re-establishes every part of the invariant. *)
LEMMA ZeroGradInv == GradInv /\ ZeroGrad => GradInv'
<1> SUFFICES ASSUME GradInv, ZeroGrad PROVE GradInv'
  OBVIOUS
<1>1. TypeOK'
  BY GradBufferAssumption
     DEF GradInv, TypeOK, ZeroGrad, ResetGrads, ResetBuckets, NoGrad, Clean
<1>2. Counting'
  BY DEF ZeroGrad, ResetGrads, NoGrad, Counting
<1>3. ProgramPoint' /\ Clean'
  BY GradBufferAssumption
     DEF GradInv, TypeOK, ZeroGrad, ResetGrads, ProgramPoint, Clean, Fused
<1>4. Syncing'
  BY DEF ZeroGrad, ResetGrads, ResetBuckets, Syncing, HooksSync, IssuedBuckets, Overlap
<1>5. QED
  BY <1>1, <1>2, <1>3, <1>4 DEF GradInv

(* A backward pass starts with no parameter done and no bucket communicated. *)
LEMMA BeginBackwardInv == GradInv /\ BeginBackward => GradInv'
<1> SUFFICES ASSUME GradInv, BeginBackward PROVE GradInv'
  OBVIOUS
<1> USE DEF BeginBackward
<1>1. TypeOK'
  BY DEF GradInv, TypeOK, SyncEnabled, Overlap
<1>2. Counting'
  BY DEF GradInv, Counting, Done, UsesOf, AutogradUses, Fused
<1>3. ProgramPoint' /\ Clean'
  BY DEF GradInv, ProgramPoint, Clean, Fused, SyncEnabled, Overlap
<1>4. Syncing'
  <2>1. issued = {} /\ handle = {}
    BY DEF GradInv, Syncing, IssuedBuckets, HooksSync
  <2>2. \A b \in Buckets : withGrad[b] = {} /\ reduced[b] = 0
    BY <2>1 DEF GradInv, Syncing
  <2>3. issued' = IssuedBuckets'
    BY <2>1, UsesFacts DEF IssuedBuckets, HooksSync, ParamsOf
  <2>4. QED
    BY <2>1, <2>2, <2>3 DEF Syncing, HooksSync, Overlap, ParamsOf
<1>5. QED
  BY <1>1, <1>2, <1>3, <1>4 DEF GradInv

(* The fused GEMM runs before the hook, so no bucket of p is communicated. *)
LEMMA FusedWgradInv == ASSUME NEW p \in Params, GradInv, FusedWgrad(p) PROVE GradInv'
<1> USE DEF FusedWgrad
<1>1. BucketOf[p] \notin issued
  BY UsesFacts DEF GradInv, Syncing, ProgramPoint, IssuedBuckets, HooksSync, ParamsOf
<1>2. ~Done(p, "layer") /\ grad[p]["layer"] = mb
  BY UsesFacts DEF GradInv, Counting, Done
<1>3. TypeOK'
  BY <1>1, <1>2, GradBufferAssumption, UsesFacts
     DEF GradInv, TypeOK, ProgramPoint, Fused
<1>4. Counting'
  <2> SUFFICES ASSUME NEW q \in Params, NEW u \in Uses
               PROVE grad'[q][u] = IF u \notin UsesOf(q) THEN 0
                                   ELSE IF Done(q, u)' THEN mb + 1 ELSE mb
    BY DEF Counting, UsesOf
  <2>1. CASE q = p /\ u = "layer"
    BY <1>2, <2>1, UsesFacts DEF GradInv, TypeOK, Done, AutogradUses, UsesOf, Fused
  <2>2. CASE ~(q = p /\ u = "layer")
    <3>1. grad'[q][u] = grad[q][u]
      BY <2>2 DEF GradInv, TypeOK
    <3>2. u \in UsesOf(q) => (Done(q, u)' <=> Done(q, u))
      BY <2>2 DEF Done, AutogradUses, UsesOf, Fused
    <3>3. QED
      BY <3>1, <3>2 DEF GradInv, Counting
  <2>3. QED
    BY <2>1, <2>2
<1>5. ProgramPoint' /\ Clean'
  BY <1>1 DEF GradInv, ProgramPoint, Clean, Fused, SyncEnabled, Overlap
<1>6. Syncing'
  BY DEF GradInv, Syncing, IssuedBuckets, HooksSync, Overlap, ParamsOf
<1>7. QED
  BY <1>3, <1>4, <1>5, <1>6 DEF GradInv

(* What a hook leaves in main_grad: each use of p once, and nothing else. *)
LEMMA AccumulateInv ==
  ASSUME NEW p \in Params, GradInv, ParamHook(p)
  PROVE  /\ bad' = {}
         /\ \A q \in Params, u \in Uses :
              grad'[q][u] = IF u \notin UsesOf(q) THEN 0
                            ELSE IF Done(q, u)' THEN mb + 1 ELSE mb
         /\ grad' \in [Params -> [Uses -> 0 .. MaxMicrobatches]]
         /\ absmax' \subseteq Params /\ (~conf.fp8 => absmax' = {})
<1> USE DEF ParamHook
<1>1. BucketOf[p] \notin issued
  BY UsesFacts DEF GradInv, Syncing, ProgramPoint, IssuedBuckets, HooksSync, ParamsOf
<1>2. Fused(p) <=> p \in added
  BY DEF GradInv, ProgramPoint, Clean
<1>3. \A u \in AutogradUses(p) : grad[p][u] = mb
  BY UsesFacts DEF GradInv, Counting, Done
<1>4. bad' = {} /\ absmax' \subseteq Params /\ (~conf.fp8 => absmax' = {})
  BY <1>1, <1>2 DEF GradInv, TypeOK, Clean, Accumulate, HookAdds
<1>5. ~HookAdds(p) => AutogradUses(p) = {}
  BY <1>2 DEF HookAdds, ZeroOutWgrad, AutogradUses, UsesOf
<1>6. grad' = [grad EXCEPT ![p] =
                 [u \in Uses |-> IF u \in AutogradUses(p) THEN grad[p][u] + 1 ELSE grad[p][u]]]
  <2>1. CASE HookAdds(p)
    BY <2>1 DEF Accumulate
  <2>2. CASE ~HookAdds(p)
    BY <1>5, <2>2 DEF Accumulate, GradInv, TypeOK
  <2>3. QED
    BY <2>1, <2>2
<1>7. grad' \in [Params -> [Uses -> 0 .. MaxMicrobatches]]
  BY <1>3, <1>6, GradBufferAssumption DEF GradInv, TypeOK, ProgramPoint
<1>8. ASSUME NEW q \in Params, NEW u \in Uses
      PROVE grad'[q][u] = IF u \notin UsesOf(q) THEN 0
                          ELSE IF Done(q, u)' THEN mb + 1 ELSE mb
  <2>1. CASE q = p /\ u \in AutogradUses(p)
    <3>1. Done(q, u)' /\ u \in UsesOf(q)
      BY <2>1, UsesFacts DEF Done, AutogradUses, UsesOf, Fused
    <3>2. QED
      BY <1>3, <1>6, <2>1, <3>1 DEF GradInv, TypeOK
  <2>2. CASE ~(q = p /\ u \in AutogradUses(p))
    <3>1. grad'[q][u] = grad[q][u]
      BY <1>6, <2>2 DEF GradInv, TypeOK
    <3>2. Done(q, u)' <=> Done(q, u)
      BY <2>2 DEF Done, AutogradUses, UsesOf, Fused
    <3>3. QED
      BY <3>1, <3>2 DEF GradInv, Counting
  <2>3. QED
    BY <2>1, <2>2
<1>9. QED
  BY <1>4, <1>7, <1>8

(* The last hook of a bucket, and no other, communicates it; no assertion of  *)
(* register_grad_ready or start_grad_sync fails.                              *)
LEMMA RegisterInv ==
  ASSUME NEW p \in Params, GradInv, ParamHook(p), Overlap /\ isLast
  PROVE  /\ pc' = "backward"
         /\ issued' = {b \in Buckets : ParamsOf(b) \subseteq hooked'}
         /\ handle' = IF conf.fp8 THEN {} ELSE issued'
         /\ \A b \in Buckets : /\ withGrad'[b] = hooked' \cap ParamsOf(b)
                               /\ reduced'[b] = IF b \in issued' /\ b \notin handle' THEN 1 ELSE 0
         /\ withGrad' \in [Buckets -> SUBSET Params]
<1> DEFINE bp == BucketOf[p]
<1> USE DEF ParamHook
<1>1. /\ pc = "backward" /\ HooksSync /\ p \notin hooked
      /\ hooked' = hooked \cup {p} /\ RegisterGradReady(p)
  BY DEF GradInv, ProgramPoint, SyncEnabled, HooksSync
<1>2. /\ issued = {b \in Buckets : ParamsOf(b) \subseteq hooked}
      /\ handle = IF conf.fp8 THEN {} ELSE issued
      /\ \A b \in Buckets : /\ withGrad[b] = hooked \cap ParamsOf(b)
                            /\ reduced[b] = IF b \in issued /\ b \notin handle THEN 1 ELSE 0
  BY <1>1 DEF GradInv, Syncing, IssuedBuckets
<1>3. bp \in Buckets /\ p \in ParamsOf(bp) /\ bp \notin issued /\ p \notin withGrad[bp]
  BY <1>1, <1>2, UsesFacts
<1>4. \A b \in Buckets : b # bp => p \notin ParamsOf(b)
  BY DEF ParamsOf
<1>5. BucketReady(p) <=> ParamsOf(bp) \subseteq hooked'
  BY <1>1, <1>2, <1>3 DEF BucketReady
<1>6. {b \in Buckets : ParamsOf(b) \subseteq hooked'}
        = IF BucketReady(p) THEN issued \cup {bp} ELSE issued
  BY <1>1, <1>2, <1>3, <1>4, <1>5
<1>7. ~StartFails({bp})
  BY <1>2, <1>3 DEF StartFails
<1>8. /\ pc' = pc
      /\ withGrad' = [withGrad EXCEPT ![bp] = @ \cup {p}]
      /\ IF BucketReady(p) THEN StartGradSync({bp}) ELSE UNCHANGED <<handle, issued, reduced>>
  BY <1>1, <1>3, <1>7 DEF RegisterGradReady
<1>9. \A b \in Buckets : withGrad'[b] = hooked' \cap ParamsOf(b)
  BY <1>1, <1>2, <1>3, <1>4, <1>8 DEF GradInv, TypeOK
<1>10. withGrad' \in [Buckets -> SUBSET Params]
  BY <1>3, <1>8 DEF GradInv, TypeOK
<1>11. CASE BucketReady(p)
  <2>1. issued' = issued \cup {bp} /\ StartGradSync({bp})
    BY <1>8, <1>11 DEF StartGradSync
  <2>2. handle' = IF conf.fp8 THEN {} ELSE issued'
    BY <1>2, <2>1 DEF StartGradSync
  <2>3. ASSUME NEW b \in Buckets
        PROVE  reduced'[b] = IF b \in issued' /\ b \notin handle' THEN 1 ELSE 0
    <3>1. CASE conf.fp8
      BY <1>2, <1>3, <2>1, <2>2, <3>1 DEF StartGradSync
    <3>2. CASE ~conf.fp8
      BY <1>2, <2>1, <2>2, <3>2 DEF StartGradSync
    <3>3. QED
      BY <3>1, <3>2
  <2>4. QED
    BY <1>1, <1>6, <1>8, <1>9, <1>10, <1>11, <2>1, <2>2, <2>3
<1>12. CASE ~BucketReady(p)
  BY <1>1, <1>2, <1>6, <1>8, <1>9, <1>10, <1>12
<1>13. QED
  BY <1>11, <1>12

(* A hook accumulates first and registers its parameter afterwards. *)
LEMMA ParamHookInv == ASSUME NEW p \in Params, GradInv, ParamHook(p) PROVE GradInv'
<1>1. pc = "backward" /\ UNCHANGED <<conf, iteration, microbatches, mb, fusedDone, isLast, added>>
  BY DEF ParamHook
<1>2. CASE Overlap /\ isLast
  <2>1. HooksSync' /\ pc' = "backward"
    BY <1>1, <1>2, RegisterInv DEF GradInv, ProgramPoint, SyncEnabled, HooksSync
  <2>2. hooked' = hooked \cup {p} /\ (Fused(p) => p \in fusedDone)
    BY DEF ParamHook
  <2>3. issued' \subseteq Buckets /\ handle' \subseteq issued'
    BY <1>2, RegisterInv
  <2>4. reduced' \in [Buckets -> 0 .. 1]
    <3>1. DOMAIN reduced' = Buckets /\ reduced' = [b \in Buckets |-> reduced'[b]]
      BY <1>2 DEF ParamHook, RegisterGradReady, StartGradSync, GradInv, TypeOK
    <3>2. QED
      BY <1>2, <3>1, RegisterInv
  <2>5. TypeOK'
    BY <1>1, <1>2, <2>1, <2>2, <2>3, <2>4, RegisterInv, AccumulateInv DEF GradInv, TypeOK
  <2>6. Counting'
    BY <1>1, <2>1, AccumulateInv DEF Counting, UsesOf
  <2>7. ProgramPoint' /\ Clean'
    BY <1>1, <2>1, <2>2, AccumulateInv
       DEF GradInv, ProgramPoint, Clean, Fused, SyncEnabled, Overlap
  <2>8. Syncing'
    BY <1>1, <1>2, <2>1, RegisterInv DEF Syncing, IssuedBuckets, ParamsOf, Overlap
  <2>9. QED
    BY <2>5, <2>6, <2>7, <2>8 DEF GradInv
<1>3. CASE ~(Overlap /\ isLast)
  <2>1. /\ UNCHANGED <<pc, withGrad, handle, issued, reduced>>
        /\ hooked' = hooked \cup {p} /\ (Fused(p) => p \in fusedDone)
    BY <1>3 DEF ParamHook
  <2>2. ~HooksSync /\ ~HooksSync'
    BY <1>1, <1>3, <2>1 DEF HooksSync, Overlap
  <2>3. TypeOK'
    BY <1>1, <2>1, AccumulateInv DEF GradInv, TypeOK
  <2>4. Counting'
    BY <1>1, <2>1, AccumulateInv DEF Counting, UsesOf
  <2>5. ProgramPoint' /\ Clean'
    BY <1>1, <2>1, AccumulateInv
       DEF GradInv, ProgramPoint, Clean, Fused, SyncEnabled, Overlap
  <2>6. Syncing'
    BY <1>1, <2>1, <2>2 DEF GradInv, Syncing, IssuedBuckets, Overlap
  <2>7. QED
    BY <2>3, <2>4, <2>5, <2>6 DEF GradInv
<1>4. QED
  BY <1>2, <1>3

(* When every hook has run, every use of every parameter is counted for the   *)
(* microbatch that ends, and with sync enabled every bucket is communicated.  *)
LEMMA EndBackwardInv == GradInv /\ EndBackward => GradInv'
<1> SUFFICES ASSUME GradInv, EndBackward PROVE GradInv'
  OBVIOUS
<1> USE DEF EndBackward
<1>1. mb < microbatches /\ mb' = mb + 1 /\ mb' <= microbatches
      /\ pc' \in {"forward", "grad_sync", "finalize"}
      /\ (pc' = "forward" => mb' < microbatches)
      /\ (pc' \in {"grad_sync", "finalize"} => mb' = microbatches)
      /\ (pc' = "grad_sync" <=> mb' = microbatches /\ conf.sync = "delayed")
  BY GradBufferAssumption DEF GradInv, TypeOK, ProgramPoint
<1>2. TypeOK'
  BY <1>1, GradBufferAssumption DEF GradInv, TypeOK
<1>3. Counting'
  <2>1. \A p \in Params : \A u \in UsesOf(p) : Done(p, u)
    BY UsesFacts DEF GradInv, ProgramPoint, Done
  <2>2. QED
    BY <1>1, <2>1, UsesFacts DEF GradInv, Counting, UsesOf
<1>4. ProgramPoint' /\ Clean'
  BY <1>1 DEF GradInv, ProgramPoint, Clean, Fused
<1>5. Syncing'
  <2>1. CASE HooksSync
    <3>1. issued = Buckets
      BY <2>1, UsesFacts DEF GradInv, Syncing, IssuedBuckets
    <3>2. pc' = "finalize" /\ Overlap /\ isLast
      <4>1. conf.sync = "hooks" /\ isLast
        BY <2>1 DEF HooksSync
      <4>2. mb + 1 = microbatches
        BY <4>1 DEF GradInv, ProgramPoint, SyncEnabled, Overlap
      <4>3. QED
        BY <1>1, <4>1, <4>2 DEF Overlap
    <3>3. QED
      BY <3>1, <3>2 DEF GradInv, Syncing, IssuedBuckets, HooksSync, Overlap
  <2>2. CASE ~HooksSync
    <3>1. issued = {} /\ handle = {} /\ \A b \in Buckets : withGrad[b] = {} /\ reduced[b] = 0
      BY <2>2 DEF GradInv, Syncing, IssuedBuckets
    <3>2. pc' = "finalize" => ~Overlap
      <4> SUFFICES ASSUME pc' = "finalize", Overlap PROVE FALSE
        OBVIOUS
      <4>1. conf.sync = "hooks" /\ mb + 1 = microbatches
        BY <1>1, GradBufferAssumption DEF GradInv, TypeOK, Overlap
      <4>2. isLast
        BY <4>1 DEF GradInv, ProgramPoint, SyncEnabled
      <4>3. QED
        BY <2>2, <4>1, <4>2 DEF HooksSync
    <3>3. QED
      BY <1>1, <3>1, <3>2 DEF Syncing, IssuedBuckets, HooksSync, Overlap
  <2>3. QED
    BY <2>1, <2>2
<1>6. QED
  BY <1>2, <1>3, <1>4, <1>5 DEF GradInv

(* grad_sync_func starts every bucket after the last backward pass. *)
LEMMA DelayedGradSyncInv == GradInv /\ DelayedGradSync => GradInv'
<1> SUFFICES ASSUME GradInv, DelayedGradSync PROVE GradInv'
  OBVIOUS
<1> USE DEF DelayedGradSync
<1>1. /\ issued = {} /\ handle = {} /\ \A b \in Buckets : reduced[b] = 0
      /\ conf.sync = "delayed" /\ Overlap
  BY DEF GradInv, Syncing, IssuedBuckets, HooksSync, ProgramPoint, Overlap
<1>2. pc' = "finalize" /\ StartGradSync(Buckets)
  BY <1>1 DEF StartFails
<1>3. /\ issued' = Buckets /\ handle' = IF conf.fp8 THEN {} ELSE Buckets
      /\ reduced' = IF conf.fp8 THEN [b \in Buckets |-> 1] ELSE reduced
  <2>1. CASE conf.fp8
    BY <1>1, <1>2, <2>1 DEF StartGradSync
  <2>2. CASE ~conf.fp8
    BY <1>1, <1>2, <2>2 DEF StartGradSync
  <2>3. QED
    BY <2>1, <2>2
<1>4. TypeOK'
  BY <1>2, <1>3 DEF GradInv, TypeOK
<1>5. Counting' /\ ProgramPoint' /\ Clean'
  BY <1>2 DEF GradInv, Counting, ProgramPoint, Clean, Fused, UsesOf
<1>6. Syncing'
  BY <1>1, <1>2, <1>3 DEF Syncing, IssuedBuckets, HooksSync, Overlap
<1>7. QED
  BY <1>4, <1>5, <1>6 DEF GradInv

(* finish_grad_sync either fails or leaves every bucket reduced once. *)
LEMMA FinishGradSyncInv == GradInv /\ FinishGradSync => GradInv'
<1> SUFFICES ASSUME GradInv, FinishGradSync PROVE GradInv'
  OBVIOUS
<1> USE DEF FinishGradSync
<1>1. CASE FinishFails
  BY <1>1 DEF GradInv, TypeOK
<1>2. CASE ~FinishFails
  <2>1. pc' = "optimizer"
    BY <1>2
  <2>2. issued' = Buckets /\ handle' = IF conf.fp8 \/ ~Overlap THEN {} ELSE Buckets
    <3>1. CASE Overlap
      BY <1>2, <3>1 DEF GradInv, Syncing, IssuedBuckets, HooksSync
    <3>2. CASE ~Overlap
      BY <1>2, <3>2 DEF StartGradSync, GradInv, Syncing, IssuedBuckets, HooksSync
    <3>3. QED
      BY <3>1, <3>2
  <2>3. reduced' = [b \in Buckets |-> reduced[b] + 1]
    <3>1. CASE Overlap
      BY <1>2, <3>1
    <3>2. CASE ~Overlap
      BY <1>2, <3>2 DEF StartGradSync
    <3>3. QED
      BY <3>1, <3>2
  <2>4. \A b \in Buckets : reduced[b] = 0
    <3>1. CASE Overlap
      <4>1. Buckets \subseteq handle
        BY <1>2, <3>1 DEF FinishFails
      <4>2. QED
        BY <3>1, <4>1 DEF GradInv, Syncing
    <3>2. CASE ~Overlap
      BY <3>2 DEF GradInv, Syncing, IssuedBuckets, HooksSync
    <3>3. QED
      BY <3>1, <3>2
  <2>5. TypeOK'
    BY <2>1, <2>2, <2>3, <2>4 DEF GradInv, TypeOK
  <2>6. Counting' /\ ProgramPoint' /\ Clean'
    BY <2>1 DEF GradInv, Counting, ProgramPoint, Clean, Fused, UsesOf
  <2>7. Syncing'
    BY <2>1, <2>2, <2>3, <2>4 DEF Syncing, IssuedBuckets, HooksSync, Overlap
  <2>8. QED
    BY <2>5, <2>6, <2>7 DEF GradInv
<1>3. QED
  BY <1>1, <1>2

(* The copy to the main gradients clears the 8-bit codes and their scale. *)
LEMMA OptimizerStepInv == GradInv /\ OptimizerStep => GradInv'
<1> SUFFICES ASSUME GradInv, OptimizerStep PROVE GradInv'
  OBVIOUS
<1> USE DEF OptimizerStep, ClearQuantized
<1>1. TypeOK'
  BY GradBufferAssumption DEF GradInv, TypeOK, ProgramPoint, NoGrad, Uses
<1>2. Counting' /\ ProgramPoint' /\ Clean' /\ Syncing'
  BY DEF GradInv, Counting, ProgramPoint, Clean, Syncing, Fused
<1>3. QED
  BY <1>1, <1>2 DEF GradInv

(* GradInv holds in every reachable state. *)
LEMMA GradInvariant == Spec => []GradInv
<1>1. GradInv /\ [Next]_vars => GradInv'
  <2> SUFFICES ASSUME GradInv, [Next]_vars PROVE GradInv'
    OBVIOUS
  <2>1. CASE UNCHANGED vars
    BY <2>1 DEF vars, GradInv, TypeOK, Counting, ProgramPoint, Clean, Syncing, Done, UsesOf,
                AutogradUses, Fused, SyncEnabled, Overlap, IssuedBuckets, HooksSync, ParamsOf
  <2>2. CASE Next
    BY <2>2, ZeroGradInv, BeginBackwardInv, EndBackwardInv, DelayedGradSyncInv,
       FinishGradSyncInv, OptimizerStepInv, FusedWgradInv, ParamHookInv DEF Next
  <2>3. QED
    BY <2>1, <2>2
<1>2. QED
  BY <1>1, GradInvInit, PTL DEF Spec

-----------------------------------------------------------------------------

(* For any parameters, buckets, microbatches and iterations: the state keeps  *)
(* its types; no bucket is ever reduced twice, no use of a parameter counted  *)
(* more often than there are microbatches.                                    *)
THEOREM GradBufferTypeOK == Spec => []TypeOK
<1>1. GradInv => TypeOK
  BY DEF GradInv
<1>2. QED
  BY <1>1, GradInvariant, PTL

(* A bucket is communicated only when it holds the complete gradients of all  *)
(* its parameters, in whatever order the hooks run, and not touched after.    *)
THEOREM CommunicatesCompleteGradsThm == Spec => []CommunicatesCompleteGrads
<1>1. GradInv => CommunicatesCompleteGrads
  <2> SUFFICES ASSUME GradInv, pc \notin {"zero_grad", "failed"},
                      NEW p \in Params, BucketOf[p] \in issued
               PROVE  HoldsGradOf(p, microbatches)
    BY DEF CommunicatesCompleteGrads
  <2>1. p \notin bad
    BY DEF GradInv, Clean
  <2>2. ASSUME NEW u \in UsesOf(p) PROVE grad[p][u] = microbatches
    <3>1. u \in Uses /\ p \in ParamsOf(BucketOf[p])
      BY UsesFacts
    <3>2. CASE HooksSync
      <4>1. p \in hooked /\ mb + 1 = microbatches /\ pc = "backward"
        BY <3>1, <3>2
           DEF GradInv, Syncing, IssuedBuckets, HooksSync, ProgramPoint, SyncEnabled, Overlap
      <4>2. Done(p, u)
        BY <4>1, UsesFacts DEF GradInv, ProgramPoint, Done
      <4>3. QED
        BY <3>1, <4>1, <4>2 DEF GradInv, Counting
    <3>3. CASE ~HooksSync
      <4>1. pc \in {"finalize", "optimizer"} /\ mb = microbatches
        BY <3>3 DEF GradInv, Syncing, IssuedBuckets, ProgramPoint
      <4>2. QED
        BY <3>1, <4>1 DEF GradInv, Counting
    <3>4. QED
      BY <3>2, <3>3
  <2>3. QED
    BY <2>1, <2>2 DEF HoldsGradOf
<1>2. QED
  BY <1>1, GradInvariant, PTL

(* The optimizer reads the gradients of this iteration, all of them, reduced  *)
(* once: nothing of the iteration before survives in codes, scales or flags.  *)
THEOREM OptimizerReadsThisIterationThm == Spec => []OptimizerReadsThisIteration
<1>1. GradInv => OptimizerReadsThisIteration
  <2> SUFFICES ASSUME GradInv, pc = "optimizer", NEW p \in Params
               PROVE  HoldsGradOf(p, microbatches) /\ reduced[BucketOf[p]] = 1
    BY DEF OptimizerReadsThisIteration
  <2>1. reduced[BucketOf[p]] = 1
    BY UsesFacts DEF GradInv, Syncing, IssuedBuckets, HooksSync
  <2>2. mb = microbatches /\ p \notin bad
    BY DEF GradInv, ProgramPoint, Clean
  <2>3. QED
    BY <2>1, <2>2, UsesFacts DEF GradInv, Counting, HoldsGradOf
<1>2. QED
  BY <1>1, GradInvariant, PTL

(* Unless grad_reduce_in_fp8 is combined with overlap_grad_reduce, none of    *)
(* the bucket's assertions ever fails.                                        *)
THEOREM NoAssertionFailsThm ==
  ASSUME \A cf \in Configs : cf.fp8 => cf.sync = "finish"
  PROVE  Spec => []NoAssertionFails
<1> DEFINE Safe == GradInv /\ NoAssertionFails
<1>1. Init => Safe
  BY GradInvInit DEF Init, NoAssertionFails
<1>2. GradInv /\ NoAssertionFails /\ [Next]_vars => NoAssertionFails'
  <2> SUFFICES ASSUME GradInv, NoAssertionFails, [Next]_vars PROVE pc' # "failed"
    BY DEF NoAssertionFails
  <2>1. ASSUME NEW p \in Params, ParamHook(p) PROVE pc' # "failed"
    BY <2>1, RegisterInv DEF ParamHook, NoAssertionFails
  <2>2. CASE DelayedGradSync
    BY <2>2 DEF DelayedGradSync, StartFails, GradInv, Syncing, IssuedBuckets, HooksSync
  <2>3. CASE FinishGradSync
    <3>1. conf.fp8 => ~Overlap
      BY DEF GradInv, TypeOK, Overlap
    <3>2. ~FinishFails
      BY <2>3, <3>1
         DEF FinishGradSync, FinishFails, StartFails, GradInv, Syncing, IssuedBuckets, HooksSync
    <3>3. QED
      BY <2>3, <3>2 DEF FinishGradSync
  <2>4. CASE ZeroGrad \/ BeginBackward \/ EndBackward \/ OptimizerStep
    BY <2>4 DEF ZeroGrad, BeginBackward, EndBackward, OptimizerStep
  <2>5. ASSUME NEW p \in Params, FusedWgrad(p) PROVE pc' # "failed"
    BY <2>5 DEF FusedWgrad
  <2>6. CASE UNCHANGED vars
    BY <2>6 DEF vars, NoAssertionFails
  <2>7. QED
    BY <2>1, <2>2, <2>3, <2>4, <2>5, <2>6 DEF Next
<1>3. QED
  BY <1>1, <1>2, GradInvariant, PTL DEF Spec

=============================================================================
