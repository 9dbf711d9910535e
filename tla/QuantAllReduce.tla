---------------------------- MODULE QuantAllReduce ----------------------------
(***************************************************************************)
(* The all-reduce of 8-bit gradients: a2a_ag of                             *)
(* core/distributed/param_and_grad_buffer.py. A gradient is a sequence of   *)
(* codes and, for each block of BlockSize codes, a scale absmax. The ranks  *)
(* exchange slices of both, each dequantizes and sums the slice it owns,    *)
(* quantizes the sum and all gather the results. Gradients whose slices     *)
(* would cut a block take the way over an all-reduce of bfloat16 values.    *)
(*                                                                          *)
(* A code is identified with its level, an integer that stands for          *)
(* level / MaxLevel; values are integers in units of 1 / MaxLevel. The      *)
(* rounding of bfloat16 sums is left out. all_to_all_single splits the      *)
(* first dimension of the gradient, which is to be divisible by the number  *)
(* of ranks whenever the guard lets it through.                             *)
(***************************************************************************)
EXTENDS Integers, Sequences, SequencesExt

CONSTANT BlockSize   \* quant_state.blocksize

MaxLevel == 2
Levels == -MaxLevel .. MaxLevel

BlockOf(e) == (e - 1) \div BlockSize + 1
NumBlocks(n) == (n + BlockSize - 1) \div BlockSize

Magnitude(v) == IF v < 0 THEN -v ELSE v

\* B_F.dequantize_blockwise
Dequantize(t) == [e \in DOMAIN t.codes |-> t.codes[e] * t.absmax[BlockOf(e)]]

Nearest(v, absmax) ==
  CHOOSE l \in Levels :
    \A k \in Levels : Magnitude(MaxLevel * v - l * absmax) <= Magnitude(MaxLevel * v - k * absmax)

\* B_F.quantize_blockwise
Quantize(values) ==
  LET absmax == [b \in 1 .. NumBlocks(Len(values)) |->
                   Max({Magnitude(values[e]) : e \in {x \in DOMAIN values : BlockOf(x) = b}})]
  IN  [absmax |-> absmax,
       codes |-> [e \in DOMAIN values |-> Nearest(values[e], absmax[BlockOf(e)])]]

\* Element by element over the ranks; ts has one gradient per rank, ranks from 1.
SumOf(ts) == [e \in DOMAIN ts[1].codes |->
                FoldLeft(LAMBDA sum, t : sum + Dequantize(t)[e], 0, ts)]

-----------------------------------------------------------------------------
\* The guard of a2a_ag: no slice cuts a block. A bug would ask only for equal slices.
MutFits(n, ranks) == n % ranks = 0
Fits(n, ranks) == n % ranks = 0 /\ (n \div ranks) % BlockSize = 0

Slice(s, r, ranks) ==
  LET size == Len(s) \div ranks
  IN  SubSeq(s, (r - 1) * size + 1, r * size)

\* What rank r receives of rank i's gradient, in the two all_to_all_single calls.
Received(ts, r) ==
  [i \in DOMAIN ts |-> [codes |-> Slice(ts[i].codes, r, Len(ts)),
                        absmax |-> Slice(ts[i].absmax, r, Len(ts))]]

Local(ts, r) == Quantize(SumOf(Received(ts, r)))

\* What rank r holds at the end: the local results of all ranks, or its own
\* quantization of the all-reduced values.
A2aAg(ts, r) ==
  IF Fits(Len(ts[r].codes), Len(ts))
  THEN [codes |-> FlattenSeq([i \in DOMAIN ts |-> Local(ts, i).codes]),
        absmax |-> FlattenSeq([i \in DOMAIN ts |-> Local(ts, i).absmax])]
  ELSE Quantize(SumOf(ts))

\* What it is for: every rank ends with the blockwise quantization of the sum.
IsQuantizedSum(ts) == \A r \in DOMAIN ts : A2aAg(ts, r) = Quantize(SumOf(ts))
=============================================================================
