------------------------------ MODULE MCGradBuffer ------------------------------
(***************************************************************************)
(* Small instances of GradBuffer for TLC: a tied embedding, a linear weight *)
(* and a bias or norm weight, in two buckets so that one bucket is filled   *)
(* by two hooks; every configuration the training arguments lead to.        *)
(***************************************************************************)
EXTENDS GradBuffer

CONSTANTS tied, linear, norm, other, b1, b2

MCParams == {tied, linear, norm, other}
MCLinearParams == {tied, linear}
MCTiedParams == {tied}
MCBuckets == {b1, b2}
MCBucketOf == [p \in MCParams |-> IF p \in {tied, norm} THEN b1 ELSE b2]

(* 8-bit gradients exclude the fused GEMM, which reads weight.main_grad.dtype. *)
AllSync == {"finish", "hooks", "delayed"}
MCConfigs ==
  [fp8 : {FALSE}, fused : BOOLEAN, sync : AllSync]
    \cup [fp8 : {TRUE}, fused : {FALSE}, sync : {"finish"}]

(* grad_reduce_in_fp8 together with overlap_grad_reduce. *)
MCFp8OverlapConfigs == [fp8 : {TRUE}, fused : {FALSE}, sync : {"hooks", "delayed"}]

-----------------------------------------------------------------------------
(* The 8-bit all-reduce of two ranks, with blocks of three codes: gradients of
   six codes, whose slices are whole blocks, and of four codes, whose slices cut a
   block although codes and scales divide evenly. The second rank's codes are equal,
   its scales are not. *)
AllReduce == INSTANCE QuantAllReduce WITH BlockSize <- 3

Gradients(n) ==
  [codes : [1 .. n -> {-2, 1}], absmax : [1 .. AllReduce!NumBlocks(n) -> {1, 3}]]
Constant(n) == {g \in Gradients(n) : \A e \in 1 .. n : g.codes[e] = g.codes[1]}

(* Every replica ends the 8-bit all-reduce with the same codes and scales, those of
   the sum over the replicas quantized block by block, whether the gradient is
   exchanged in slices or takes the bfloat16 path (a2a_ag). *)
A2aAgIsQuantizedSum ==
  conf.fp8 /\ iteration = 0 /\ pc = "zero_grad" =>
    \A n \in {4, 6} : \A g \in Gradients(n), h \in Constant(n) :
      AllReduce!IsQuantizedSum(<<g, h>>)

=============================================================================
