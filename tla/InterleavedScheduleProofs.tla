------------------------ MODULE InterleavedScheduleProofs ------------------------
(***************************************************************************)
(* Proofs about the interleaved 1F1B schedule, for any number of pipeline   *)
(* ranks (more than two), of model chunks and of microbatches, with and     *)
(* without overlapped communication.                                        *)
(*                                                                          *)
(* Every rank computes from its own loop counter which chunk to run, where  *)
(* to put what it receives and whether to receive at all. The invariant     *)
(* states what these computations amount to: which passes of which chunk a  *)
(* rank has run, what it has asked for and what it has posted, and for each *)
(* link of the ring that as many tensors left one end as the other took. A  *)
(* loop iteration is a number with three digits (group of P microbatches,   *)
(* chunk, microbatch of the group), and all arithmetic is about them.       *)
(***************************************************************************)
EXTENDS InterleavedSchedule, FiniteSetTheorems, WellFoundedInduction, SequenceTheorems, TLAPS

(* Forward passes of chunk c among the first x forward iterations of a rank; *)
(* read from the other end, backward passes of chunk V - 1 - c.              *)
W == P * V
Clamp(x) == IF x < 0 THEN 0 ELSE IF x > P THEN P ELSE x
Fwd(c, x) == (x \div W) * P + Clamp((x % W) - c * P)
Bwd(c, x) == Fwd(V - 1 - c, x)

(* The chunk of the x-th iteration of a loop. *)
FwdChunk(x) == ChunkId(x, TRUE)
BwdChunk(x) == ChunkId(x, FALSE)

(* NumWarmup, Total and AllWarmup of configuration cf. *)
All(cf) == cf.microbatches * V
Warm(cf, r) ==
  IF cf.forwardOnly \/ cf.microbatches = P THEN All(cf)
  ELSE MinOf((P - r - 1) * 2 + (V - 1) * P, All(cf))
LastTurn(cf) == ~cf.forwardOnly /\ cf.microbatches = P

Phases == {"first", "warmup", "steady", "steady_bwd", "last", "cooldown", "launch", "done"}

(* Where the program point of a rank puts its loop counter. *)
Counter(cf, r, s) ==
  /\ s.phase \in Phases
  /\ s.phase = "first" => s.k = 0
  /\ s.phase = "warmup" => s.k \in 0 .. Warm(cf, r) - 1
  /\ s.phase \in {"steady", "steady_bwd"} =>
       ~cf.forwardOnly /\ ~LastTurn(cf) /\ s.k \in Warm(cf, r) .. All(cf) - 1
  /\ s.phase = "last" => LastTurn(cf) /\ s.k = 0
  /\ s.phase = "cooldown" =>
       ~cf.forwardOnly /\ s.k \in All(cf) - Warm(cf, r) .. All(cf) - 1
  /\ s.phase = "launch" => ~cf.forwardOnly /\ s.k = All(cf)
  /\ s.phase = "done" => s.k = IF cf.forwardOnly THEN 0 ELSE All(cf)

(* Forward and backward passes done; forward passes whose output has been    *)
(* handed to communication; forward and backward passes whose input has been *)
(* asked for.                                                                *)
FwdDone(cf, r, s) ==
  IF s.phase = "first" THEN 0
  ELSE IF s.phase \in {"warmup", "steady"} THEN s.k
  ELSE IF s.phase = "steady_bwd" THEN s.k + 1
  ELSE All(cf)
BwdDone(cf, r, s) ==
  IF s.phase \in {"steady", "steady_bwd"} THEN s.k - Warm(cf, r)
  ELSE IF s.phase = "cooldown" THEN s.k
  ELSE IF s.phase = "launch" \/ (s.phase = "done" /\ ~cf.forwardOnly) THEN All(cf)
  ELSE 0
FwdSent(cf, r, s) ==
  IF s.phase = "steady_bwd" /\ ~cf.overlap THEN s.k ELSE FwdDone(cf, r, s)
FwdAsked(cf, r, s) ==
  IF s.phase = "first" THEN 0
  ELSE IF s.phase \in {"warmup", "steady"} THEN s.k + 1
  ELSE IF s.phase = "steady_bwd"
       THEN IF cf.overlap /\ s.k # All(cf) - 1 THEN s.k + 2 ELSE s.k + 1
  ELSE All(cf)
BwdAsked(cf, r, s) ==
  IF s.phase \in {"steady", "steady_bwd", "cooldown"} THEN BwdDone(cf, r, s) + 1
  ELSE BwdDone(cf, r, s)

(* Rank r has posted an operation of this kind with this peer. *)
Has(q, kind, peer) == \E n \in DOMAIN q : q[n].kind = kind /\ q[n].peer = peer

FwdHandles(cf) == IF cf.overlap THEN {"sync", "fwd"} ELSE {"sync"}
BwdHandles(cf) == IF cf.overlap THEN {"sync", "bwd"} ELSE {"sync"}

(* The operations rank r may have posted: the output of the last forward     *)
(* pass, the gradient of the last backward pass, and the receives of the     *)
(* next ones; x is the iteration they belong to.                             *)
IsActTo(cf, r, x, op) ==
  /\ op.kind = "send" /\ op.peer = NextRank(r) /\ op.handle \in FwdHandles(cf)
  /\ x \in 0 .. All(cf) - 1 /\ ~LastStage(r, FwdChunk(x))
  /\ op.data = Tensor(StageOf(r, FwdChunk(x)), Fwd(FwdChunk(x), x))
IsGradTo(cf, r, x, op) ==
  /\ op.kind = "send" /\ op.peer = PrevRank(r) /\ op.handle \in BwdHandles(cf)
  /\ x \in 0 .. All(cf) - 1 /\ ~FirstStage(r, BwdChunk(x))
  /\ op.data = Tensor(StageOf(r, BwdChunk(x)), Bwd(BwdChunk(x), x))
IsActFrom(cf, r, x, op) ==
  /\ op.kind = "recv" /\ op.peer = PrevRank(r) /\ op.handle \in FwdHandles(cf)
  /\ x \in 0 .. All(cf) - 1 /\ ~FirstStage(r, FwdChunk(x))
  /\ op.list = "input" /\ op.chunk = FwdChunk(x)
IsGradFrom(cf, r, x, op) ==
  /\ op.kind = "recv" /\ op.peer = NextRank(r) /\ op.handle \in BwdHandles(cf)
  /\ x \in 0 .. All(cf) - 1 /\ ~LastStage(r, BwdChunk(x))
  /\ op.list = "grad" /\ op.chunk = BwdChunk(x)

(* q may be what rank r has posted when it handed over fs outputs, ran b     *)
(* backward passes and asked for fa inputs and ba gradients.                 *)
Known(cf, r, fs, b, fa, ba, op) ==
  \/ IsActTo(cf, r, fs - 1, op)
  \/ IsGradTo(cf, r, b - 1, op)
  \/ IsActFrom(cf, r, fa - 1, op)
  \/ IsGradFrom(cf, r, ba - 1, op)

Posted(cf, r, fs, b, fa, ba, q) ==
  /\ q \in Seq(OpType(MaxMicrobatches - 1, StageIds))
  /\ \A n \in DOMAIN q : Known(cf, r, fs, b, fa, ba, q[n])
  /\ \A m, n \in DOMAIN q : q[m].kind = q[n].kind /\ q[m].peer = q[n].peer => m = n

(* Entry n of a list whose microbatches base .. upto - 1 were asked for: the *)
(* last one may still be outstanding, and a placeholder may follow it.       *)
Item(from, base, upto, hole, n) ==
  IF base + n - 1 = upto THEN NoTensor
  ELSE IF hole /\ base + n = upto THEN Empty
  ELSE Tensor(from, base + n - 1)

ListIs(list, from, base, upto, hole, over) ==
  /\ Len(list) = upto - base \/ (over /\ Len(list) = upto - base + 1)
  /\ \A n \in 1 .. Len(list) : list[n] = Item(from, base, upto, hole, n)

(* Microbatches of chunk c that rank r dropped: backpropagated, or only ever *)
(* run forward.                                                              *)
Base(cf, s, c) == IF cf.forwardOnly THEN s.drawn[c] ELSE s.bwd[c]

(* The saved outputs of chunk c, its inputs, its gradients.                  *)
OutputsAre(cf, r, s, c) ==
  ListIs(s.output_tensors[c], StageOf(r, c), Base(cf, s, c), s.drawn[c], FALSE, FALSE)

InputList(r, c, list, outs, base, upto, hole, over) ==
  IF FirstStage(r, c)
  THEN (\A n \in 1 .. Len(list) : list[n] = NoTensor) /\ Len(list) >= outs
  ELSE ListIs(list, StageOf(r, c) - 1, base, upto, hole, over)

InputsAre(cf, r, s, fa, hole, over, c) ==
  InputList(r, c, s.input_tensors[c], Len(s.output_tensors[c]), Base(cf, s, c), Fwd(c, fa),
            hole /\ c = FwdChunk(fa - 1), over)

GradList(r, c, list, base, upto, hole, over) ==
  IF LastStage(r, c)
  THEN \A n \in 1 .. Len(list) : list[n] = NoTensor
  ELSE ListIs(list, StageOf(r, c) + 1, base, upto, hole, over)

GradsAre(r, s, ba, hole, over, c) ==
  GradList(r, c, s.output_tensor_grads[c], s.bwd[c], Bwd(c, ba), hole /\ c = BwdChunk(ba - 1), over)

(* Rank r ran f forward and b backward passes and asked for fa inputs and ba *)
(* gradients, the last of them outstanding if there is a hole; the last      *)
(* iteration of all may leave a placeholder.                                 *)
Counts(s, f, b) == \A c \in Chunks : s.drawn[c] = Fwd(c, f) /\ s.bwd[c] = Bwd(c, b)
Outputs(cf, r, s) == \A c \in Chunks : OutputsAre(cf, r, s, c)
Inputs(cf, r, s, fa, hole, over) == \A c \in Chunks : InputsAre(cf, r, s, fa, hole, over, c)
Grads(r, s, ba, hole, over) == \A c \in Chunks : GradsAre(r, s, ba, hole, over, c)

(* Between the two halves of an iteration the output waits to be sent. *)
OutputIs(r, s, x) ==
  s.output_tensor = IF LastStage(r, FwdChunk(x)) THEN NoTensor
                    ELSE Tensor(StageOf(r, FwdChunk(x)), Fwd(FwdChunk(x), x))

(* Which synchronizations were launched: grad_sync_func waits r iterations,  *)
(* parameters are synchronized r iterations ahead.                           *)
GradIters(cf, r, b) == IF ~cf.gradSyncFunc THEN b ELSE IF b < r THEN 0 ELSE b - r
Handed(cf, r, b, c) == Bwd(c, GradIters(cf, r, b)) = cf.microbatches

GradsHanded(cf, r, s, b) ==
  /\ s.no_sync
  /\ \A c \in Chunks :
       /\ s.grad_syncs[c] = IF Handed(cf, r, b, c) THEN <<cf.microbatches>> ELSE <<>>
       /\ cf.gradSyncFunc => (c \in s.synchronized <=> Handed(cf, r, b, c))
AllHanded(cf, s) ==
  \A c \in Chunks : s.grad_syncs[c] = <<cf.microbatches>>

ParamsLaunched(r, s, f) ==
  \A c \in Chunks :
    s.param_syncs[c] = IF c <= 1 \/ Fwd(c - 1, f + r) > 0 THEN 1 ELSE 0

LocalType(cf) ==
  [phase : Phases, k : 0 .. All(cf),
   input_tensors : [Chunks -> Seq(Tensors)],
   output_tensors : [Chunks -> Seq(Tensors)],
   output_tensor_grads : [Chunks -> Seq(Tensors)],
   output_tensor : Tensors, input_tensor_grad : Tensors,
   drawn : [Chunks -> 0 .. cf.microbatches], bwd : [Chunks -> 0 .. cf.microbatches],
   no_sync : BOOLEAN, synchronized : SUBSET Chunks,
   grad_syncs : [Chunks -> Seq(0 .. cf.microbatches)], param_syncs : [Chunks -> Nat]]

LocalInv(cf, r, s, q) ==
  /\ s \in LocalType(cf)
  /\ Counter(cf, r, s)
  /\ Counts(s, FwdDone(cf, r, s), BwdDone(cf, r, s))
  /\ Outputs(cf, r, s)
  /\ Inputs(cf, r, s, FwdAsked(cf, r, s), Has(q, "recv", PrevRank(r)),
            FwdDone(cf, r, s) = All(cf))
  /\ Grads(r, s, BwdAsked(cf, r, s), Has(q, "recv", NextRank(r)), BwdDone(cf, r, s) = All(cf))
  /\ s.phase = "steady_bwd" => OutputIs(r, s, s.k)
  /\ IF s.phase = "done" /\ ~cf.forwardOnly THEN AllHanded(cf, s)
     ELSE GradsHanded(cf, r, s, BwdDone(cf, r, s))
  /\ ParamsLaunched(r, s, FwdDone(cf, r, s))
  /\ Posted(cf, r, FwdSent(cf, r, s), BwdDone(cf, r, s), FwdAsked(cf, r, s), BwdAsked(cf, r, s), q)

(* Tensors that left an end of a link and tensors that were asked for at it: *)
(* the last chunk's are the end of the pipeline and leave no rank, the first *)
(* chunk's come from none.                                                   *)
Left(end, x) == IF end THEN x - Fwd(V - 1, x) ELSE x
Taken(end, x) == IF end THEN x - Fwd(0, x) ELSE x
One(b) == IF b THEN 1 ELSE 0

ActsOut(cf, r, s, q) == Left(r = P - 1, FwdSent(cf, r, s)) - One(Has(q, "send", NextRank(r)))
ActsIn(cf, r, s, q) == Taken(r = 0, FwdAsked(cf, r, s)) - One(Has(q, "recv", PrevRank(r)))
GradsOut(cf, r, s, q) == Left(r = 0, BwdDone(cf, r, s)) - One(Has(q, "send", PrevRank(r)))
GradsIn(cf, r, s, q) == Taken(r = P - 1, BwdAsked(cf, r, s)) - One(Has(q, "recv", NextRank(r)))

(* Between r and the next rank no tensor is lost, duplicated or made up. *)
Link(cf, r, s, q, s2, q2) ==
  /\ ActsOut(cf, r, s, q) = ActsIn(cf, NextRank(r), s2, q2)
  /\ GradsOut(cf, NextRank(r), s2, q2) = GradsIn(cf, r, s, q)

(* The inductive invariant. *)
IInv ==
  /\ TypeOK
  /\ \A r \in Ranks : LocalInv(conf, r, rank[r], pend[r])
  /\ \A r \in Ranks : Link(conf, r, rank[r], pend[r], rank[NextRank(r)], pend[NextRank(r)])

-----------------------------------------------------------------------------
(* Loop iterations, their chunks and their counts.                           *)

(* The sizes of the pipeline. *)
LEMMA SizeFacts ==
  /\ P \in Nat /\ P > 2 /\ V \in Nat /\ V > 1
  /\ W \in Nat /\ W > P
<1>1. P \in Nat /\ P > 2 /\ V \in Nat /\ V > 1
  BY PAssumption, InterleavedAssumption
<1>2. P * V >= P + P
  BY <1>1
<1>3. QED
  BY <1>1, <1>2 DEF W

(* Quotient and remainder of a division. *)
LEMMA Divided ==
  ASSUME NEW x \in Int, NEW d \in Nat \ {0}
  PROVE  /\ x \div d \in Int /\ x % d \in 0 .. d - 1
         /\ x = d * (x \div d) + (x % d)
         /\ x >= 0 => x \div d \in Nat
<1>1. /\ x \div d \in Int /\ x % d \in 0 .. d - 1
      /\ x = d * (x \div d) + (x % d)
  OBVIOUS
<1>2. PICK a \in Int, b \in 0 .. d - 1 : a = x \div d /\ b = x % d /\ x = d * a + b
  BY <1>1
<1>3. ASSUME x >= 0, a <= -1 PROVE FALSE
  <2>1. d * a <= -d
    BY <1>3
  <2>2. QED
    BY <1>2, <1>3, <2>1
<1>4. x >= 0 => a \in Nat
  BY <1>2, <1>3
<1>5. QED
  BY <1>1, <1>2, <1>4

(* a and b are quotient and remainder of x divided by d. *)
Digits(x, d, a, b) == d \in Nat \ {0} /\ a \in Int /\ b \in 0 .. d - 1 /\ x = d * a + b

(* No others are. *)
LEMMA DivUnique ==
  ASSUME NEW a, NEW d, NEW b, NEW x, Digits(x, d, a, b)
  PROVE  x \div d = a /\ x % d = b
<1> USE DEF Digits
<1> DEFINE q == x \div d
           m == x % d
<1>1. q \in Int /\ m \in 0 .. d - 1 /\ x = d * q + m
  OBVIOUS
<1> HIDE DEF q, m
<1>2. d * (q - a) = b - m
  BY <1>1
<1>3. PICK e \in Int : e = q - a
  BY <1>1
<1>4. d * e = b - m
  BY <1>2, <1>3
<1>5. e >= 1 => d * e >= d
  BY <1>3
<1>6. e <= -1 => d * e <= -d
  BY <1>3
<1>7. e = 0
  BY <1>1, <1>3, <1>4, <1>5, <1>6
<1>8. QED
  BY <1>1, <1>3, <1>7 DEF q, m

(* The iteration of digits a, b and z: the b-th chunk in the a-th group. *)
Number(a, b, z) == W * a + (P * b + z)

(* Its digits are what the schedule computes from it. *)
LEMMA NumberFacts ==
  ASSUME NEW a \in Int, NEW b \in Chunks, NEW z \in 0 .. P - 1
  PROVE  /\ P * b + z \in 0 .. W - 1
         /\ Number(a, b, z) \in Int
         /\ Number(a, b, z) \div W = a
         /\ Number(a, b, z) % W = P * b + z
         /\ (P * b + z) \div P = b
         /\ (P * b + z) % P = z
         /\ FwdChunk(Number(a, b, z)) = b
         /\ BwdChunk(Number(a, b, z)) = V - 1 - b
<1>0. /\ b \in Nat /\ V - 1 - b \in Nat
  BY SizeFacts DEF Chunks
<1>1. P * b + z \in 0 .. W - 1
  <2>1. P * (V - 1 - b) >= 0
    BY <1>0, SizeFacts
  <2>2. P * b + P * (V - 1 - b) = P * V - P
    BY <1>0, SizeFacts
  <2>3. P * b >= 0 /\ P * b \in Int
    BY <1>0, SizeFacts
  <2>4. P * b <= W - P
    BY <2>1, <2>2, <2>3, <1>0, SizeFacts DEF W
  <2>5. QED
    BY <2>3, <2>4, SizeFacts
<1>2. PICK y \in 0 .. W - 1 : y = P * b + z
  BY <1>1
<1>3. W * a \in Int
  BY SizeFacts
<1>4. Number(a, b, z) = W * a + y /\ Number(a, b, z) \in Int
  BY <1>2, <1>3, SizeFacts DEF Number
<1>5. Number(a, b, z) \div W = a /\ Number(a, b, z) % W = y
  <2>1. PICK x : x = Number(a, b, z)
    OBVIOUS
  <2>2. Digits(x, W, a, y)
    BY <1>4, <2>1, SizeFacts DEF Digits
  <2>3. x \div W = a /\ x % W = y
    BY <2>2, DivUnique, Zenon
  <2>4. QED
    BY <2>1, <2>3
<1>6. y \div P = b /\ y % P = z
  <2>1. Digits(y, P, b, z)
    BY <1>0, <1>2, SizeFacts DEF Digits
  <2>2. QED
    BY <2>1, DivUnique, Zenon
<1>7. FwdChunk(Number(a, b, z)) = b /\ BwdChunk(Number(a, b, z)) = V - b - 1
  BY <1>5, <1>6 DEF FwdChunk, BwdChunk, ChunkId, W
<1>8. V - b - 1 = V - 1 - b
  BY <1>0, SizeFacts
<1>9. QED
  BY <1>1, <1>2, <1>4, <1>5, <1>6, <1>7, <1>8

(* Every iteration has such digits. *)
LEMMA EveryNumber ==
  ASSUME NEW x \in Int
  PROVE  \E a \in Int, b \in Chunks, z \in 0 .. P - 1 :
           x = Number(a, b, z) /\ (x >= 0 => a >= 0)
<1> DEFINE a == x \div W
           y == x % W
           b == y \div P
           z == y % P
<1>1. /\ a \in Int /\ y \in 0 .. W - 1 /\ x = W * a + y /\ (x >= 0 => a \in Nat)
  BY SizeFacts, Divided
<1>2. /\ b \in Nat /\ z \in 0 .. P - 1 /\ y = P * b + z
  <2>1. y \in Int /\ y >= 0 /\ P \in Nat \ {0}
    BY <1>1, SizeFacts
  <2> HIDE DEF y
  <2>2. QED
    BY <2>1, Divided
<1> HIDE DEF a, y, b, z
<1>3. b <= V - 1
  <2>1. ASSUME b >= V PROVE FALSE
    <3>1. P * (b - V) >= 0 /\ P * (b - V) = P * b - P * V
      BY <2>1, <1>2, SizeFacts
    <3>2. P * b \in Int /\ P * V \in Int
      BY <1>2, SizeFacts
    <3>3. QED
      BY <3>1, <3>2, <1>1, <1>2, SizeFacts DEF W
  <2>2. QED
    BY <2>1, <1>2, SizeFacts
<1>4. b \in Chunks
  BY <1>2, <1>3, SizeFacts DEF Chunks
<1>5. x = Number(a, b, z)
  BY <1>1, <1>2, SizeFacts DEF Number
<1>6. QED
  BY <1>1, <1>2, <1>4, <1>5

(* The forward passes of a chunk up to the iteration of given digits. *)
LEMMA FwdOfNumber ==
  ASSUME NEW a \in Int, NEW b \in Chunks, NEW z \in 0 .. P - 1, NEW c \in Chunks
  PROVE  Fwd(c, Number(a, b, z)) = a * P + (IF c < b THEN P ELSE IF c = b THEN z ELSE 0)
<1>0. /\ b \in Nat /\ c \in Nat
  BY SizeFacts DEF Chunks
<1>1. Fwd(c, Number(a, b, z)) = a * P + Clamp((P * b + z) - c * P)
  BY NumberFacts DEF Fwd
<1>2. /\ P * b \in Int /\ c * P \in Int /\ (P * b + z) - c * P \in Int
  BY <1>0, SizeFacts
<1>3. ASSUME c < b PROVE (P * b + z) - c * P >= P
  <2>1. P * (b - c - 1) >= 0
    BY <1>0, <1>3, SizeFacts
  <2>2. P * (b - c - 1) = P * b - c * P - P
    BY <1>0, SizeFacts
  <2>3. QED
    BY <1>2, <2>1, <2>2, SizeFacts
<1>4. ASSUME c > b PROVE (P * b + z) - c * P < 0
  <2>1. P * (c - b - 1) >= 0
    BY <1>0, <1>4, SizeFacts
  <2>2. P * (c - b - 1) = c * P - P * b - P
    BY <1>0, SizeFacts
  <2>3. QED
    BY <1>2, <2>1, <2>2, SizeFacts
<1>5. ASSUME c = b PROVE (P * b + z) - c * P = z
  BY <1>0, <1>5, SizeFacts
<1>6. PICK d \in Int : d = (P * b + z) - c * P
  BY <1>2
<1>7. Clamp(d) = IF c < b THEN P ELSE IF c = b THEN z ELSE 0
  BY <1>0, <1>3, <1>4, <1>5, <1>6, SizeFacts DEF Clamp
<1>8. QED
  BY <1>1, <1>6, <1>7

(* The next iteration, the one P later and the one V - 1 chunks later. *)
LEMMA NextNumber ==
  ASSUME NEW a \in Int, NEW b \in Chunks, NEW z \in 0 .. P - 1
  PROVE  /\ z < P - 1 => Number(a, b, z) + 1 = Number(a, b, z + 1)
         /\ z = P - 1 /\ b < V - 1 => /\ Number(a, b, z) + 1 = Number(a, b + 1, 0)
                                      /\ b + 1 \in Chunks
         /\ z = P - 1 /\ b = V - 1 => Number(a, b, z) + 1 = Number(a + 1, 0, 0)
         /\ b < V - 1 => Number(a, b, z) + P = Number(a, b + 1, z) /\ b + 1 \in Chunks
         /\ b = V - 1 => Number(a, b, z) + P = Number(a + 1, 0, z)
         /\ b = 0 => Number(a, b, z) + (V - 1) * P = Number(a, V - 1, z)
         /\ b > 0 => /\ Number(a, b, z) + (V - 1) * P = Number(a + 1, b - 1, z)
                     /\ b - 1 \in Chunks
<1>1. /\ b \in Nat /\ b <= V - 1 /\ V \in Nat /\ P \in Nat /\ P > 2 /\ V > 1 /\ W \in Nat
  BY SizeFacts DEF Chunks
<1>2. PICK wa : wa = W * a
  OBVIOUS
<1>3. PICK pb : pb = P * b
  OBVIOUS
<1>4. wa \in Int /\ pb \in Int
  BY <1>1, <1>2, <1>3
<1>5. /\ W * (a + 1) = wa + W
      /\ P * (b + 1) = pb + P /\ P * (b - 1) = pb - P
      /\ (V - 1) * P = W - P /\ P * (V - 1) = W - P
      /\ P * 0 = 0
  BY <1>1, <1>2, <1>3 DEF W
<1>6. b = V - 1 => pb = W - P
  BY <1>3, <1>5
<1>7. b = 0 => pb = 0
  BY <1>3, <1>5
<1>8. /\ b < V - 1 => b + 1 \in Chunks
      /\ b > 0 => b - 1 \in Chunks
  BY <1>1 DEF Chunks
<1>9. /\ Number(a, b, z) = wa + (pb + z)
      /\ Number(a, b, z + 1) = wa + (pb + (z + 1))
      /\ Number(a, b + 1, 0) = wa + (P * (b + 1) + 0)
      /\ Number(a + 1, 0, 0) = W * (a + 1) + (P * 0 + 0)
      /\ Number(a, b + 1, z) = wa + (P * (b + 1) + z)
      /\ Number(a + 1, 0, z) = W * (a + 1) + (P * 0 + z)
      /\ Number(a, V - 1, z) = wa + (P * (V - 1) + z)
      /\ Number(a + 1, b - 1, z) = W * (a + 1) + (P * (b - 1) + z)
  BY <1>2, <1>3, Zenon DEF Number
<1>10. QED
  BY <1>1, <1>4, <1>5, <1>6, <1>7, <1>8, <1>9

(* An iteration adds one to the count of its own chunk. *)
LEMMA FwdStep ==
  ASSUME NEW x \in Int, NEW c \in Chunks
  PROVE  Fwd(c, x + 1) = Fwd(c, x) + One(c = FwdChunk(x))
<1>1. PICK a \in Int, b \in Chunks, z \in 0 .. P - 1 :
       x = Number(a, b, z) /\ (x >= 0 => a >= 0)
  BY EveryNumber, Zenon
<1>2. FwdChunk(x) = b /\ Fwd(c, x) = a * P + (IF c < b THEN P ELSE IF c = b THEN z ELSE 0)
  BY <1>1, NumberFacts, FwdOfNumber
<1>0. /\ b \in Nat /\ c \in Nat /\ b <= V - 1 /\ c <= V - 1 /\ 0 \in Chunks
      /\ 0 \in 0 .. P - 1 /\ a + 1 \in Int /\ P \in Nat /\ V \in Nat /\ P > 2
      /\ a * P \in Int /\ (a + 1) * P = a * P + P
  BY SizeFacts DEF Chunks
<1>3. CASE z < P - 1
  <2>1. x + 1 = Number(a, b, z + 1) /\ z + 1 \in 0 .. P - 1
    BY <1>0, <1>1, <1>3, NextNumber
  <2>2. Fwd(c, x + 1) = a * P + (IF c < b THEN P ELSE IF c = b THEN z + 1 ELSE 0)
    BY <2>1, FwdOfNumber
  <2>3. QED
    BY <1>0, <1>2, <2>2 DEF One
<1>4. CASE z = P - 1 /\ b < V - 1
  <2>1. x + 1 = Number(a, b + 1, 0) /\ b + 1 \in Chunks
    BY <1>1, <1>4, NextNumber
  <2>2. Fwd(c, x + 1) = a * P + (IF c < b + 1 THEN P ELSE IF c = b + 1 THEN 0 ELSE 0)
    BY <1>0, <2>1, FwdOfNumber
  <2>3. QED
    BY <1>0, <1>2, <1>4, <2>2 DEF One
<1>5. CASE z = P - 1 /\ b = V - 1
  <2>1. x + 1 = Number(a + 1, 0, 0)
    BY <1>1, <1>5, NextNumber
  <2>a. PICK a1 \in Int : a1 = a + 1
    BY <1>0
  <2>b. Fwd(c, Number(a1, 0, 0)) = a1 * P + (IF c < 0 THEN P ELSE IF c = 0 THEN 0 ELSE 0)
    BY <1>0, FwdOfNumber
  <2>2. Fwd(c, x + 1) = (a + 1) * P + (IF c < 0 THEN P ELSE IF c = 0 THEN 0 ELSE 0)
    BY <2>1, <2>a, <2>b
  <2>3. QED
    BY <1>0, <1>2, <1>5, <2>2 DEF One
<1>6. QED
  BY <1>0, <1>3, <1>4, <1>5

(* P iterations later it is the turn of the next chunk, at the same           *)
(* microbatch.                                                               *)
LEMMA FwdShift ==
  ASSUME NEW x \in Int
  PROVE  /\ FwdChunk(x + P) = IF FwdChunk(x) = V - 1 THEN 0 ELSE FwdChunk(x) + 1
         /\ \A c \in Chunks : c + 1 \in Chunks => Fwd(c + 1, x + P) = Fwd(c, x)
         /\ Fwd(0, x + P) = Fwd(V - 1, x) + P
<1>1. PICK a \in Int, b \in Chunks, z \in 0 .. P - 1 :
       x = Number(a, b, z) /\ (x >= 0 => a >= 0)
  BY EveryNumber, Zenon
<1>0. /\ b \in Nat /\ b <= V - 1 /\ 0 \in Chunks /\ V - 1 \in Chunks
      /\ a + 1 \in Int /\ P \in Nat /\ V \in Nat /\ P > 2 /\ V > 1
      /\ a * P \in Int /\ (a + 1) * P = a * P + P
  BY SizeFacts DEF Chunks
<1>2. /\ FwdChunk(x) = b
      /\ \A c \in Chunks : Fwd(c, x) = a * P + (IF c < b THEN P ELSE IF c = b THEN z ELSE 0)
  BY <1>1, NumberFacts, FwdOfNumber
<1>3. CASE b < V - 1
  <2>1. x + P = Number(a, b + 1, z) /\ b + 1 \in Chunks
    BY <1>1, <1>3, NextNumber
  <2>2. /\ FwdChunk(x + P) = b + 1
        /\ \A c \in Chunks : Fwd(c, x + P) = a * P + (IF c < b + 1 THEN P ELSE IF c = b + 1 THEN z ELSE 0)
    BY <2>1, NumberFacts, FwdOfNumber
  <2>3. ASSUME NEW c \in Chunks, c + 1 \in Chunks PROVE Fwd(c + 1, x + P) = Fwd(c, x)
    <3>1. c \in Nat
      BY DEF Chunks
    <3>2. /\ Fwd(c + 1, x + P) = a * P + (IF c + 1 < b + 1 THEN P ELSE IF c + 1 = b + 1 THEN z ELSE 0)
          /\ Fwd(c, x) = a * P + (IF c < b THEN P ELSE IF c = b THEN z ELSE 0)
      BY <1>2, <2>2, <2>3
    <3>3. QED
      BY <1>0, <3>1, <3>2
  <2>4. Fwd(0, x + P) = Fwd(V - 1, x) + P
    BY <1>0, <1>2, <1>3, <2>2
  <2>5. QED
    BY <1>0, <1>2, <1>3, <2>2, <2>3, <2>4
<1>4. CASE b = V - 1
  <2>1. x + P = Number(a + 1, 0, z)
    BY <1>1, <1>4, NextNumber
  <2>2. /\ FwdChunk(x + P) = 0
        /\ \A c \in Chunks : Fwd(c, x + P) = (a + 1) * P + (IF c < 0 THEN P ELSE IF c = 0 THEN z ELSE 0)
    BY <1>0, <2>1, NumberFacts, FwdOfNumber
  <2>3. ASSUME NEW c \in Chunks, c + 1 \in Chunks PROVE Fwd(c + 1, x + P) = Fwd(c, x)
    <3>1. c \in Nat /\ c + 1 <= V - 1
      BY <2>3, SizeFacts DEF Chunks
    <3>2. /\ Fwd(c + 1, x + P) = (a + 1) * P + (IF c + 1 < 0 THEN P ELSE IF c + 1 = 0 THEN z ELSE 0)
          /\ Fwd(c, x) = a * P + (IF c < b THEN P ELSE IF c = b THEN z ELSE 0)
      BY <1>2, <2>2, <2>3
    <3>3. QED
      BY <1>0, <1>4, <3>1, <3>2
  <2>4. Fwd(0, x + P) = Fwd(V - 1, x) + P
    BY <1>0, <1>2, <1>4, <2>2
  <2>5. QED
    BY <1>0, <1>2, <1>4, <2>2, <2>3, <2>4
<1>5. QED
  BY <1>0, <1>3, <1>4

(* The first P iterations belong to chunk 0. *)
LEMMA FwdFacts ==
  ASSUME NEW c \in Chunks
  PROVE  /\ Fwd(c, 0) = 0
         /\ \A x \in Nat : Fwd(c, x) \in Nat
         /\ \A x \in Nat : c > 0 /\ x <= P => Fwd(c, x) = 0
         /\ \A x \in Nat : c = 0 /\ x <= P => Fwd(c, x) = x
<1>0. /\ c \in Nat /\ c <= V - 1 /\ 0 \in Chunks /\ 1 \in Chunks /\ P \in Nat /\ V \in Nat
      /\ P > 2 /\ 0 \in 0 .. P - 1 /\ 0 \in Int /\ 0 * P = 0 /\ W * 0 = 0 /\ P * 0 = 0 /\ P * 1 = P
  BY SizeFacts DEF Chunks
<1>1. ASSUME NEW z \in 0 .. P - 1
      PROVE  Fwd(c, z) = IF c = 0 THEN z ELSE 0
  <2>1. z = Number(0, 0, z)
    BY <1>0 DEF Number
  <2>2. Fwd(c, Number(0, 0, z)) = 0 * P + (IF c < 0 THEN P ELSE IF c = 0 THEN z ELSE 0)
    BY <1>0, FwdOfNumber
  <2>3. QED
    BY <1>0, <2>1, <2>2
<1>2. Fwd(c, P) = IF c = 0 THEN P ELSE 0
  <2>1. P = Number(0, 1, 0)
    BY <1>0 DEF Number
  <2>2. Fwd(c, Number(0, 1, 0)) = 0 * P + (IF c < 1 THEN P ELSE IF c = 1 THEN 0 ELSE 0)
    BY <1>0, FwdOfNumber
  <2>3. QED
    BY <1>0, <2>1, <2>2
<1>3. ASSUME NEW x \in Nat PROVE Fwd(c, x) \in Nat
  <2>1. PICK a \in Int, b \in Chunks, z \in 0 .. P - 1 :
       x = Number(a, b, z) /\ (x >= 0 => a >= 0)
    <3>1. x \in Int
      OBVIOUS
    <3>2. QED
      BY <3>1, EveryNumber, Zenon
  <2>2. Fwd(c, x) = a * P + (IF c < b THEN P ELSE IF c = b THEN z ELSE 0)
    BY <2>1, FwdOfNumber
  <2>3. a \in Nat /\ a * P \in Nat
    BY <1>0, <2>1
  <2>4. QED
    BY <1>0, <2>2, <2>3
<1>4. ASSUME NEW x \in Nat, x <= P PROVE Fwd(c, x) = IF c = 0 THEN x ELSE 0
  BY <1>0, <1>1, <1>2, <1>4
<1>5. QED
  BY <1>0, <1>1, <1>3, <1>4

(* A chunk is never ahead of the chunks before it. *)
LEMMA FwdAhead ==
  ASSUME NEW x \in Int, NEW c \in Chunks, NEW d \in Chunks, c <= d
  PROVE  Fwd(d, x) <= Fwd(c, x)
<1>1. PICK a \in Int, b \in Chunks, z \in 0 .. P - 1 :
       x = Number(a, b, z) /\ (x >= 0 => a >= 0)
  BY EveryNumber, Zenon
<1>2. /\ Fwd(c, x) = a * P + (IF c < b THEN P ELSE IF c = b THEN z ELSE 0)
      /\ Fwd(d, x) = a * P + (IF d < b THEN P ELSE IF d = b THEN z ELSE 0)
  BY <1>1, FwdOfNumber
<1>3. a * P \in Int /\ b \in Nat /\ c \in Nat /\ d \in Nat
  BY SizeFacts DEF Chunks
<1>4. QED
  BY <1>2, <1>3, SizeFacts

(* V - 1 chunks of warmup put every chunk ahead of its backward passes. *)
LEMMA BwdBehind ==
  ASSUME NEW x \in Int, NEW c \in Chunks
  PROVE  Bwd(c, x) <= Fwd(c, x + (V - 1) * P)
<1>0. /\ c \in Nat /\ V - 1 - c \in Chunks /\ V - 1 - c \in Nat /\ c <= V - 1 /\ 0 \in Chunks /\ V - 1 \in Chunks
      /\ P \in Nat /\ V \in Nat /\ V > 1
  BY SizeFacts DEF Chunks
<1>1. PICK a \in Int, b \in Chunks, z \in 0 .. P - 1 :
       x = Number(a, b, z) /\ (x >= 0 => a >= 0)
  BY EveryNumber, Zenon
<1>2. Bwd(c, x) = a * P + (IF V - 1 - c < b THEN P ELSE IF V - 1 - c = b THEN z ELSE 0)
  BY <1>0, <1>1, FwdOfNumber DEF Bwd
<1>3. a * P \in Int /\ b \in Nat /\ a + 1 \in Int /\ (a + 1) * P = a * P + P
  BY <1>0 DEF Chunks
<1>4. CASE b = 0
  <2>1. x + (V - 1) * P = Number(a, V - 1, z)
    BY <1>1, <1>4, NextNumber
  <2>2. Fwd(c, x + (V - 1) * P) = a * P + (IF c < V - 1 THEN P ELSE IF c = V - 1 THEN z ELSE 0)
    BY <1>0, <2>1, FwdOfNumber
  <2>3. QED
    BY <1>0, <1>2, <1>3, <1>4, <2>2
<1>5. CASE b > 0
  <2>1. x + (V - 1) * P = Number(a + 1, b - 1, z) /\ b - 1 \in Chunks
    BY <1>1, <1>5, NextNumber
  <2>a. PICK a1 \in Int, b1 \in Chunks : a1 = a + 1 /\ b1 = b - 1
    BY <1>3, <2>1
  <2>b. Fwd(c, Number(a1, b1, z)) = a1 * P + (IF c < b1 THEN P ELSE IF c = b1 THEN z ELSE 0)
    BY <1>0, FwdOfNumber
  <2>2. Fwd(c, x + (V - 1) * P) = a * P + P + (IF c < b1 THEN P ELSE IF c = b1 THEN z ELSE 0)
    BY <1>3, <2>1, <2>a, <2>b
  <2>3. QED
    BY <1>0, <1>2, <1>3, <1>5, <2>2
<1>6. QED
  BY <1>3, <1>4, <1>5
(* A nonempty set of natural numbers has a least element. *)
LEMMA LeastNat ==
  ASSUME NEW T, T \subseteq Nat, T # {}
  PROVE  \E x \in T : \A y \in T : x <= y
<1> DEFINE R == OpToRel(<, Nat)
<1>1. \A x, y \in Nat : y < x => <<y, x>> \in R
  BY DEF OpToRel
<1>2. IsWellFoundedOn(R, Nat)
  BY NatLessThanWellFounded
<1> HIDE DEF R
<1>3. PICK x \in T : \A y \in T : ~(<<y, x>> \in R)
  BY <1>2, WFMin
<1>4. ASSUME NEW y \in T PROVE x <= y
  <2>1. x \in Nat /\ y \in Nat /\ ~(y < x)
    BY <1>1, <1>3
  <2>2. QED
    BY <2>1
<1>5. QED
  BY <1>4

(* A set of natural numbers that is closed under successor and has 0 is all *)
(* of them.                                                                  *)
LEMMA NatInductionSet ==
  ASSUME NEW T, 0 \in T, \A n \in Nat : n \in T => n + 1 \in T
  PROVE  Nat \subseteq T
<1>1. ASSUME NEW n \in Nat, n \notin T PROVE FALSE
  <2>1. PICK x \in Nat \ T : \A y \in Nat \ T : x <= y
    BY <1>1, LeastNat
  <2>2. x # 0 /\ x - 1 \in Nat
    BY <2>1
  <2>3. x - 1 \in T
    BY <2>1, <2>2
  <2>4. x \in T
    BY <2>2, <2>3
  <2>5. QED
    BY <2>1, <2>4
<1>2. QED
  BY <1>1

(* An iteration has at most MaxMicrobatches microbatches. *)
LEMMA MaxFacts ==
  /\ MaxMicrobatches \in Nat
  /\ \A cf \in Configs : cf.microbatches <= MaxMicrobatches
<1> DEFINE S == {c.microbatches : c \in Configs}
<1>1. PICK most \in Configs : \A c \in Configs : c.microbatches <= most.microbatches
  BY InterleavedAssumption
<1>2. \A c \in Configs : c.microbatches \in Nat
  BY InterleavedAssumption
<1>3. most.microbatches \in S /\ \A y \in S : most.microbatches >= y
  BY <1>1, <1>2
<1>4. Max(S) \in S /\ \A y \in S : Max(S) >= y
  BY <1>3 DEF Max
<1>5. MaxMicrobatches = Max(S)
  BY DEF MaxMicrobatches
<1>6. MaxMicrobatches \in Nat
  BY <1>2, <1>4, <1>5
<1>7. \A cf \in Configs : cf.microbatches <= MaxMicrobatches
  BY <1>2, <1>4, <1>5, <1>6
<1>8. QED
  BY <1>6, <1>7

(* The configurations an iteration may run with. *)
LEMMA ConfFacts ==
  ASSUME NEW cf \in Configs
  PROVE  /\ cf.microbatches \in Nat \ {0}
         /\ cf.microbatches >= P
         /\ cf.microbatches # P => cf.microbatches >= 2 * P
         /\ cf.forwardOnly \in BOOLEAN /\ cf.overlap \in BOOLEAN
         /\ cf.gradSyncFunc \in BOOLEAN
         /\ cf.microbatches <= MaxMicrobatches
         /\ \E q \in Nat : cf.microbatches = P * q /\ All(cf) = Number(q, 0, 0)
<1>1. /\ cf.microbatches \in Nat \ {0} /\ cf.microbatches % P = 0
      /\ cf.forwardOnly \in BOOLEAN /\ cf.overlap \in BOOLEAN
      /\ cf.gradSyncFunc \in BOOLEAN
      /\ cf.microbatches <= MaxMicrobatches
  BY MaxFacts, InterleavedAssumption
<1> DEFINE q == cf.microbatches \div P
<1>2. cf.microbatches = P * q + (cf.microbatches % P) /\ q \in Nat
  <2>1. PICK m \in Int : m = cf.microbatches /\ m >= 0
    BY <1>1
  <2>2. P \in Nat \ {0}
    BY SizeFacts
  <2>4. m \div P \in Nat /\ m = P * (m \div P) + (m % P)
    BY <2>1, <2>2, Divided, Zenon
  <2>3. QED
    BY <2>1, <2>4
<1> HIDE DEF q
<1>3. cf.microbatches = P * q
  BY <1>1, <1>2, SizeFacts
<1>4. q # 0
  BY <1>1, <1>3, SizeFacts
<1>5. P * q >= P /\ (q # 1 => P * q >= 2 * P) /\ (q = 1 => P * q = P)
  BY <1>2, <1>4, SizeFacts
<1>6. All(cf) = Number(q, 0, 0)
  <2>1. (P * q) * V = (P * V) * q
    BY <1>2, SizeFacts
  <2>2. Number(q, 0, 0) = W * q
    BY <1>2, SizeFacts DEF Number
  <2>3. QED
    BY <1>3, <2>1, <2>2 DEF All, W
<1>7. QED
  BY <1>1, <1>2, <1>3, <1>5, <1>6

(* All iterations together run every microbatch through every chunk. *)
LEMMA AllFacts ==
  ASSUME NEW cf \in Configs, NEW c \in Chunks
  PROVE  Fwd(c, All(cf)) = cf.microbatches /\ Bwd(c, All(cf)) = cf.microbatches
<1>1. PICK q \in Nat : cf.microbatches = P * q /\ All(cf) = Number(q, 0, 0)
  BY ConfFacts, Zenon
<1>2. ASSUME NEW d \in Chunks PROVE Fwd(d, Number(q, 0, 0)) = q * P
  <2>1. 0 \in Chunks /\ 0 \in 0 .. P - 1 /\ d \in Nat /\ q \in Int
    BY SizeFacts DEF Chunks
  <2>2. Fwd(d, Number(q, 0, 0)) = q * P + (IF d < 0 THEN P ELSE IF d = 0 THEN 0 ELSE 0)
    BY <2>1, FwdOfNumber
  <2>3. QED
    BY <2>1, <2>2, SizeFacts
<1>3. V - 1 - c \in Chunks
  BY SizeFacts DEF Chunks
<1>4. q * P = P * q
  BY SizeFacts
<1>5. QED
  BY <1>1, <1>2, <1>3, <1>4 DEF Bwd

(* The number of all iterations. *)
LEMMA AllSize ==
  ASSUME NEW cf \in Configs
  PROVE  /\ All(cf) \in Nat /\ All(cf) >= W /\ All(cf) > P
         /\ cf.microbatches # P => All(cf) >= 2 * W
         /\ FwdChunk(All(cf)) = 0 /\ BwdChunk(All(cf)) = V - 1
<1>1. PICK q \in Nat : cf.microbatches = P * q /\ All(cf) = Number(q, 0, 0)
  BY ConfFacts, Zenon
<1>2. /\ cf.microbatches \in Nat /\ cf.microbatches >= P
      /\ cf.microbatches # P => cf.microbatches >= 2 * P
  BY ConfFacts
<1>3. q >= 1 /\ (cf.microbatches # P => q >= 2)
  BY <1>1, <1>2, SizeFacts
<1>4. All(cf) = W * q
  BY <1>1, SizeFacts DEF Number
<1>5. W * q >= W /\ (q >= 2 => W * q >= 2 * W) /\ W * q \in Nat
  BY <1>3, SizeFacts
<1>6. FwdChunk(All(cf)) = 0 /\ BwdChunk(All(cf)) = V - 1 - 0
  <2>1. 0 \in Chunks /\ 0 \in 0 .. P - 1 /\ q \in Int
    BY SizeFacts DEF Chunks
  <2>2. QED
    BY <1>1, <2>1, NumberFacts
<1>7. QED
  BY <1>3, <1>4, <1>5, <1>6, SizeFacts

(* A loop runs the chunks of the rank; the backward passes from the last on. *)
LEMMA ChunkFacts ==
  ASSUME NEW x \in Int
  PROVE  /\ FwdChunk(x) \in Chunks /\ BwdChunk(x) \in Chunks
         /\ BwdChunk(x) = V - 1 - FwdChunk(x) /\ FwdChunk(x) = V - 1 - BwdChunk(x)
<1>1. PICK a \in Int, b \in Chunks, z \in 0 .. P - 1 :
       x = Number(a, b, z) /\ (x >= 0 => a >= 0)
  BY EveryNumber, Zenon
<1>2. FwdChunk(x) = b /\ BwdChunk(x) = V - 1 - b
  BY <1>1, NumberFacts
<1>3. b \in Nat /\ V - 1 - b \in Chunks
  BY SizeFacts DEF Chunks
<1>4. QED
  BY <1>2, <1>3, SizeFacts

(* The counts grow with the iterations and never faster. *)
LEMMA FwdGrows ==
  ASSUME NEW c \in Chunks, NEW x \in Nat, NEW y \in Nat, x <= y
  PROVE  Fwd(c, x) <= Fwd(c, y) /\ Fwd(c, y) - Fwd(c, x) <= y - x
<1> DEFINE T == {n \in Nat : Fwd(c, x) <= Fwd(c, x + n) /\ Fwd(c, x + n) - Fwd(c, x) <= n}
<1>1. \A n \in Nat : Fwd(c, n) \in Nat
  BY FwdFacts
<1>2. 0 \in T
  <2>1. x + 0 = x
    OBVIOUS
  <2>2. QED
    BY <1>1, <2>1
<1>3. ASSUME NEW n \in Nat, n \in T PROVE n + 1 \in T
  <2>1. PICK m \in Nat : m = x + n /\ m + 1 = x + (n + 1)
    OBVIOUS
  <2>2. Fwd(c, m + 1) = Fwd(c, m) + One(c = FwdChunk(m))
    BY FwdStep
  <2>3. One(c = FwdChunk(m)) \in {0, 1}
    BY DEF One
  <2>4. /\ Fwd(c, x) <= Fwd(c, m) /\ Fwd(c, m) - Fwd(c, x) <= n
    BY <1>3, <2>1
  <2>5. Fwd(c, m) \in Nat /\ Fwd(c, m + 1) \in Nat /\ Fwd(c, x) \in Nat
    BY <1>1
  <2>6. Fwd(c, x) <= Fwd(c, m + 1) /\ Fwd(c, m + 1) - Fwd(c, x) <= n + 1
    BY <2>2, <2>3, <2>4, <2>5
  <2>7. QED
    BY <2>1, <2>6
<1>4. Nat \subseteq T
  <2> HIDE DEF T
  <2>1. QED
    BY <1>2, <1>3, NatInductionSet
<1>5. PICK n \in Nat : x + n = y
  <2>1. y - x \in Nat /\ x + (y - x) = y
    OBVIOUS
  <2>2. QED
    BY <2>1
<1>6. Fwd(c, x) <= Fwd(c, x + n) /\ Fwd(c, x + n) - Fwd(c, x) <= n
  BY <1>4
<1>7. QED
  BY <1>5, <1>6

(* What the schedule takes for the first microbatch of a chunk is the first. *)
LEMMA FirstIs ==
  ASSUME NEW x \in Nat
  PROVE  IsFirstMicrobatch(x) <=> Fwd(FwdChunk(x), x) = 0
<1>1. PICK a \in Int, b \in Chunks, z \in 0 .. P - 1 :
       x = Number(a, b, z) /\ (x >= 0 => a >= 0)
  <2>1. x \in Int
    OBVIOUS
  <2>2. QED
    BY <2>1, EveryNumber, Zenon
<1>2. /\ FwdChunk(x) = b /\ x \div W = a /\ x % W = P * b + z /\ (P * b + z) % P = z
  BY <1>1, NumberFacts
<1>3. Fwd(b, x) = a * P + (IF b < b THEN P ELSE IF b = b THEN z ELSE 0)
  BY <1>1, FwdOfNumber
<1>4. a \in Nat /\ b \in Nat
  BY <1>1, SizeFacts DEF Chunks
<1>5. Fwd(b, x) = a * P + z
  BY <1>3, <1>4
<1>6. IsFirstMicrobatch(x) <=> a = 0 /\ z = 0
  BY <1>2 DEF IsFirstMicrobatch, W
<1>7. a * P + z = 0 <=> a = 0 /\ z = 0
  <2>1. a >= 1 => a * P >= P
    BY <1>4, SizeFacts
  <2>2. a = 0 => a * P = 0
    BY SizeFacts
  <2>3. a * P \in Nat
    BY <1>4, SizeFacts
  <2>4. QED
    BY <1>4, <2>1, <2>2, <2>3, SizeFacts
<1>8. QED
  BY <1>2, <1>5, <1>6, <1>7

(* What it takes for the last one is the last. *)
LEMMA LastIs ==
  ASSUME NEW x \in Nat, conf \in Configs
  PROVE  IsLastMicrobatch(x) <=> Bwd(BwdChunk(x), x) = conf.microbatches - 1
<1>1. PICK a \in Int, b \in Chunks, z \in 0 .. P - 1 :
       x = Number(a, b, z) /\ (x >= 0 => a >= 0)
  <2>1. x \in Int
    OBVIOUS
  <2>2. QED
    BY <2>1, EveryNumber, Zenon
<1>2. /\ FwdChunk(x) = b /\ x \div W = a /\ x % W = P * b + z /\ (P * b + z) % P = z
  BY <1>1, NumberFacts
<1>3. Fwd(b, x) = a * P + (IF b < b THEN P ELSE IF b = b THEN z ELSE 0)
  BY <1>1, FwdOfNumber
<1>4. a \in Nat /\ b \in Nat
  BY <1>1, SizeFacts DEF Chunks
<1>5. Fwd(b, x) = a * P + z
  BY <1>3, <1>4
<1>6. PICK q \in Nat : conf.microbatches = P * q /\ All(conf) = Number(q, 0, 0)
  BY ConfFacts, Zenon
<1>7. Total \div W = q
  <2>1. Total = Number(q, 0, 0)
    BY <1>6 DEF Total, M, All
  <2>2. 0 \in Chunks /\ 0 \in 0 .. P - 1 /\ q \in Int
    BY SizeFacts DEF Chunks
  <2>3. QED
    BY <2>1, <2>2, NumberFacts
<1>8. IsLastMicrobatch(x) <=> a = q - 1 /\ z = P - 1
  BY <1>2, <1>7 DEF IsLastMicrobatch, W
<1>9. a * P + z = P * q - 1 <=> a = q - 1 /\ z = P - 1
  <2>1. PICK e \in Int : e = q - 1 - a
    BY <1>4
  <2>2. P * q - a * P - P = P * e
    BY <1>4, <2>1, SizeFacts
  <2>3. P * q \in Int /\ a * P \in Int /\ P * e \in Int
    BY <1>4, SizeFacts
  <2>4. (e >= 1 => P * e >= P) /\ (e <= -1 => P * e <= -P) /\ (e = 0 => P * e = 0)
    BY SizeFacts
  <2>5. a * P + z = P * q - 1 <=> P * e = z - (P - 1)
    BY <2>2, <2>3, SizeFacts
  <2>6. P * e = z - (P - 1) <=> e = 0 /\ z = P - 1
    BY <2>3, <2>4, SizeFacts
  <2>7. QED
    BY <1>4, <2>1, <2>5, <2>6
<1>10. Bwd(BwdChunk(x), x) = Fwd(b, x)
  <2>1. V - 1 - BwdChunk(x) = FwdChunk(x)
    BY ChunkFacts
  <2>2. QED
    BY <1>2, <2>1 DEF Bwd
<1>11. QED
  BY <1>5, <1>6, <1>8, <1>9, <1>10

(* The same of backward passes. *)
LEMMA BwdFacts ==
  ASSUME NEW c \in Chunks
  PROVE  /\ Bwd(c, 0) = 0
         /\ \A x \in Nat : /\ Bwd(c, x) \in Nat
                           /\ Bwd(c, x + 1) = Bwd(c, x) + One(c = BwdChunk(x))
         /\ \A x, y \in Nat : x <= y => Bwd(c, x) <= Bwd(c, y) /\ Bwd(c, y) - Bwd(c, x) <= y - x
<1> DEFINE d == V - 1 - c
<1>1. d \in Chunks /\ c = V - 1 - d
  BY SizeFacts DEF Chunks
<1>2. \A x : Bwd(c, x) = Fwd(d, x)
  BY DEF Bwd
<1> HIDE DEF d
<1>3. Bwd(c, 0) = 0 /\ \A x \in Nat : Bwd(c, x) \in Nat
  BY <1>1, <1>2, FwdFacts
<1>4. ASSUME NEW x \in Nat PROVE Bwd(c, x + 1) = Bwd(c, x) + One(c = BwdChunk(x))
  <2>1. Fwd(d, x + 1) = Fwd(d, x) + One(d = FwdChunk(x))
    BY <1>1, FwdStep
  <2>2. d = FwdChunk(x) <=> c = BwdChunk(x)
    <3>1. x \in Int
      OBVIOUS
    <3>2. /\ FwdChunk(x) \in Chunks /\ BwdChunk(x) \in Chunks
          /\ BwdChunk(x) = V - 1 - FwdChunk(x) /\ FwdChunk(x) = V - 1 - BwdChunk(x)
      BY <3>1, ChunkFacts
    <3>3. QED
      BY <1>1, <3>2, SizeFacts DEF Chunks
  <2>3. QED
    BY <1>2, <2>1, <2>2
<1>5. ASSUME NEW x \in Nat, NEW y \in Nat, x <= y
      PROVE  Bwd(c, x) <= Bwd(c, y) /\ Bwd(c, y) - Bwd(c, x) <= y - x
  BY <1>1, <1>2, <1>5, FwdGrows
<1>6. QED
  BY <1>3, <1>4, <1>5

(* The warmup: all forward passes, or a little more than V - 1 chunks. *)
LEMMA WarmFacts ==
  ASSUME NEW cf \in Configs, NEW r \in Ranks
  PROVE  /\ Warm(cf, r) \in Nat /\ Warm(cf, r) >= P /\ Warm(cf, r) <= All(cf)
         /\ Warm(cf, r) = All(cf) <=> cf.forwardOnly \/ LastTurn(cf)
         /\ ~cf.forwardOnly /\ ~LastTurn(cf) =>
              /\ Warm(cf, r) = (P - r - 1) * 2 + (V - 1) * P
              /\ Warm(cf, r) >= (V - 1) * P
<1>1. /\ r \in Nat /\ r <= P - 1 /\ P \in Nat /\ P > 2 /\ W \in Nat
  BY SizeFacts DEF Ranks
<1>2. PICK vp \in Int : vp = (V - 1) * P
  BY SizeFacts
<1>3. vp = W - P /\ W >= 2 * P
  <2>1. (V - 1) * P = P * V - P /\ P * V >= P * 2
    BY SizeFacts
  <2>2. QED
    BY <1>2, <2>1, SizeFacts DEF W
<1>4. /\ All(cf) \in Nat /\ All(cf) >= W
      /\ cf.microbatches # P => All(cf) >= 2 * W
  BY AllSize
<1>5. CASE cf.forwardOnly \/ cf.microbatches = P
  <2>1. Warm(cf, r) = All(cf)
    BY <1>5 DEF Warm
  <2>2. cf.forwardOnly \/ LastTurn(cf)
    BY <1>5 DEF LastTurn
  <2>3. QED
    BY <1>1, <1>3, <1>4, <2>1, <2>2
<1>6. CASE ~cf.forwardOnly /\ cf.microbatches # P
  <2>1. (P - r - 1) * 2 + vp < All(cf)
    BY <1>1, <1>3, <1>4, <1>6
  <2>2. Warm(cf, r) = (P - r - 1) * 2 + vp
    BY <1>2, <1>6, <2>1 DEF Warm, MinOf
  <2>3. ~cf.forwardOnly /\ ~LastTurn(cf)
    BY <1>6 DEF LastTurn
  <2>4. QED
    BY <1>1, <1>2, <1>3, <1>4, <2>1, <2>2, <2>3
<1>7. QED
  BY <1>5, <1>6

(* The sizes as the model writes them. *)
LEMMA ModelSizes ==
  ASSUME NEW r \in Ranks
  PROVE  /\ Total = All(conf) /\ NumWarmup(r) = Warm(conf, r) /\ M = conf.microbatches
         /\ Remaining(r) = All(conf) - Warm(conf, r) /\ (AllWarmup <=> LastTurn(conf))
BY DEF Total, All, NumWarmup, Warm, Remaining, M, AllWarmup, LastTurn

(* What has left a rank and what was taken, one iteration after the other. *)
LEMMA LinkCounts ==
  ASSUME NEW end \in BOOLEAN, NEW x \in Nat
  PROVE  /\ Left(end, x) \in Nat /\ Taken(end, x) \in Nat
         /\ Left(end, 0) = 0 /\ Taken(end, 0) = 0
         /\ Left(end, x + 1) = Left(end, x) + One(~(end /\ FwdChunk(x) = V - 1))
         /\ Taken(end, x + 1) = Taken(end, x) + One(~(end /\ FwdChunk(x) = 0))
<1>0. 0 \in Chunks /\ V - 1 \in Chunks
  BY SizeFacts DEF Chunks
<1>1. \A c \in Chunks : /\ Fwd(c, 0) = 0 /\ Fwd(c, x) \in Nat /\ Fwd(c, x) <= x
                        /\ Fwd(c, x + 1) = Fwd(c, x) + One(c = FwdChunk(x))
  <2> SUFFICES ASSUME NEW c \in Chunks
               PROVE  /\ Fwd(c, 0) = 0 /\ Fwd(c, x) \in Nat /\ Fwd(c, x) <= x
                      /\ Fwd(c, x + 1) = Fwd(c, x) + One(c = FwdChunk(x))
    OBVIOUS
  <2>1. Fwd(c, 0) = 0 /\ Fwd(c, x) \in Nat
    BY FwdFacts
  <2>2. Fwd(c, x) - Fwd(c, 0) <= x - 0
    BY FwdGrows
  <2>3. Fwd(c, x + 1) = Fwd(c, x) + One(c = FwdChunk(x))
    BY FwdStep
  <2>4. QED
    BY <2>1, <2>2, <2>3
<1>2. CASE end
  BY <1>0, <1>1, <1>2 DEF Left, Taken, One
<1>3. CASE ~end
  BY <1>3 DEF Left, Taken, One
<1>4. QED
  BY <1>2, <1>3

(* Both only grow. *)
LEMMA LinkGrows ==
  ASSUME NEW end \in BOOLEAN, NEW x \in Nat, NEW y \in Nat, x <= y
  PROVE  Left(end, x) <= Left(end, y) /\ Taken(end, x) <= Taken(end, y)
<1>0. 0 \in Chunks /\ V - 1 \in Chunks
  BY SizeFacts DEF Chunks
<1>1. \A c \in Chunks : /\ Fwd(c, x) \in Nat /\ Fwd(c, y) \in Nat
                        /\ Fwd(c, y) - Fwd(c, x) <= y - x
  BY FwdFacts, FwdGrows
<1>2. QED
  BY <1>0, <1>1 DEF Left, Taken

(* What iteration x sends over a link is what iteration y needs: one and the *)
(* same pass within a chunk, the next chunk's at the end of the pipeline.    *)
Meets(end, x, y) == IF end THEN y = x + P ELSE y = x

(* What an iteration needs is what some iteration sends. *)
LEMMA TakenIsLeft ==
  ASSUME NEW end \in BOOLEAN, NEW y \in Nat, ~(end /\ FwdChunk(y) = 0)
  PROVE  \E x \in Nat : /\ Meets(end, x, y) /\ ~(end /\ FwdChunk(x) = V - 1)
                        /\ Left(end, x) = Taken(end, y)
<1>1. CASE ~end
  BY <1>1 DEF Meets, Left, Taken
<1>2. CASE end
  <2>1. y >= P
    <3>1. ASSUME y < P PROVE FALSE
      <4>1. 0 \in Chunks /\ y <= P /\ y + 1 <= P /\ y + 1 \in Nat
        BY <3>1, SizeFacts DEF Chunks
      <4>2. Fwd(0, y) = y /\ Fwd(0, y + 1) = y + 1
        BY <4>1, FwdFacts
      <4>3. Fwd(0, y + 1) = Fwd(0, y) + One(0 = FwdChunk(y))
        BY <4>1, FwdStep
      <4>4. QED
        BY <1>2, <4>2, <4>3 DEF One
    <3>2. QED
      BY <3>1, SizeFacts
  <2>2. PICK x \in Nat : y = x + P
    <3>1. y - P \in Nat /\ y = (y - P) + P
      BY <2>1, SizeFacts
    <3>2. QED
      BY <3>1
  <2>3. FwdChunk(x) # V - 1
    BY <1>2, <2>2, FwdShift
  <2>4. Fwd(0, y) = Fwd(V - 1, x) + P
    BY <2>2, FwdShift
  <2>5. Fwd(V - 1, x) \in Nat
    BY FwdFacts, SizeFacts DEF Chunks
  <2>6. Left(end, x) = Taken(end, y)
    BY <1>2, <2>2, <2>4, <2>5, SizeFacts DEF Left, Taken
  <2>7. QED
    BY <1>2, <2>2, <2>3, <2>6 DEF Meets
<1>3. QED
  BY <1>1, <1>2

(* Equal counts mean that a tensor meets the iteration that needs it. *)
LEMMA LeftIsTaken ==
  ASSUME NEW end \in BOOLEAN, NEW x \in Nat, NEW y \in Nat,
         ~(end /\ FwdChunk(x) = V - 1), ~(end /\ FwdChunk(y) = 0),
         Left(end, x) = Taken(end, y)
  PROVE  Meets(end, x, y)
<1>1. PICK w \in Nat : /\ Meets(end, w, y) /\ ~(end /\ FwdChunk(w) = V - 1)
                      /\ Left(end, w) = Taken(end, y)
  BY TakenIsLeft
<1>2. ASSUME NEW u \in Nat, NEW v \in Nat, u < v, ~(end /\ FwdChunk(u) = V - 1)
      PROVE  Left(end, u) < Left(end, v)
  <2>1. Left(end, u + 1) = Left(end, u) + 1
    BY <1>2, LinkCounts DEF One
  <2>2. Left(end, u + 1) <= Left(end, v)
    BY <1>2, LinkGrows
  <2>3. Left(end, u) \in Nat /\ Left(end, v) \in Nat
    BY LinkCounts
  <2>4. QED
    BY <2>1, <2>2, <2>3
<1>3. Left(end, w) = Left(end, x) /\ Left(end, w) \in Nat
  BY <1>1, LinkCounts
<1>4. ~(w < x) /\ ~(x < w)
  BY <1>1, <1>2, <1>3
<1>5. w = x
  BY <1>4
<1>6. QED
  BY <1>1, <1>5
-----------------------------------------------------------------------------
(* Lists of tensors.                                                         *)

(* Tensors are told apart from what is no tensor. *)
LEMMA TensorFacts ==
  ASSUME NEW from \in Nat, NEW n \in Int
  PROVE  /\ Tensor(from, n) # NoTensor /\ Tensor(from, n) # Empty
         /\ Tensor(from, n).stage = from /\ Tensor(from, n).mb = n
         /\ NoTensor # Empty /\ NoTensor.mb = -1 /\ NoTensor.stage = -1
BY DEF Tensor, NoTensor, Empty

(* What a list holds that is asked for one more. *)
LEMMA AskedList ==
  ASSUME NEW S, NEW l \in Seq(S), Empty \in S, NEW from, NEW base \in Int, NEW upto \in Int,
         NEW over, ListIs(l, from, base, upto, FALSE, FALSE)
  PROVE  ListIs(Append(l, Empty), from, base, upto + 1, TRUE, over)
<1> DEFINE m == Append(l, Empty)
<1>00. PICK up \in Int : up = upto + 1
  OBVIOUS
<1>1. Len(l) = upto - base /\ \A n \in 1 .. Len(l) : l[n] = Item(from, base, upto, FALSE, n)
  BY DEF ListIs
<1>2. /\ Len(m) = Len(l) + 1 /\ m[Len(l) + 1] = Empty /\ Len(l) \in Nat
      /\ \A n \in 1 .. Len(l) : m[n] = l[n]
  OBVIOUS
<1> HIDE DEF m
<1>0. Len(m) = Len(l) + 1 /\ Len(l) \in Nat
  BY <1>2
<1>3. ASSUME NEW n \in 1 .. Len(m) PROVE m[n] = Item(from, base, up, TRUE, n)
  <2>1. CASE n = Len(l) + 1
    BY <1>00, <1>1, <1>2, <2>1 DEF Item
  <2>2. CASE n \in 1 .. Len(l)
    <3>1. m[n] = Item(from, base, upto, FALSE, n)
      BY <1>1, <1>2, <2>2
    <3>2. base + n - 1 # upto /\ base + n # up /\ base + n - 1 # up
      BY <1>00, <1>1, <2>2
    <3>3. QED
      BY <3>1, <3>2 DEF Item
  <2>3. n = Len(l) + 1 \/ n \in 1 .. Len(l)
    BY <1>0
  <2>4. QED
    BY <2>1, <2>2, <2>3
<1>4. Len(m) = up - base
  BY <1>00, <1>0, <1>1
<1>5. ListIs(m, from, base, up, TRUE, over)
  BY <1>3, <1>4, Zenon DEF ListIs
<1>6. QED
  BY <1>00, <1>5 DEF m

(* What a list holds that one more tensor is added to. *)
LEMMA AddedList ==
  ASSUME NEW S, NEW l \in Seq(S), NEW from, NEW base \in Int, NEW upto \in Int,
         NEW over, Tensor(from, upto) \in S, ListIs(l, from, base, upto, FALSE, FALSE)
  PROVE  ListIs(Append(l, Tensor(from, upto)), from, base, upto + 1, FALSE, over)
<1> DEFINE m == Append(l, Tensor(from, upto))
<1>00. PICK up \in Int : up = upto + 1
  OBVIOUS
<1>1. Len(l) = upto - base /\ \A n \in 1 .. Len(l) : l[n] = Item(from, base, upto, FALSE, n)
  BY DEF ListIs
<1>2. /\ Len(m) = Len(l) + 1 /\ m[Len(l) + 1] = Tensor(from, upto) /\ Len(l) \in Nat
      /\ \A n \in 1 .. Len(l) : m[n] = l[n]
  OBVIOUS
<1> HIDE DEF m
<1>0. Len(m) = Len(l) + 1 /\ Len(l) \in Nat
  BY <1>2
<1>3. ASSUME NEW n \in 1 .. Len(m) PROVE m[n] = Item(from, base, up, FALSE, n)
  <2>1. CASE n = Len(l) + 1
    <3>1. base + n - 1 = upto /\ base + n - 1 # up
      BY <1>00, <1>1, <2>1
    <3>2. QED
      BY <1>2, <2>1, <3>1 DEF Item
  <2>2. CASE n \in 1 .. Len(l)
    <3>1. m[n] = Item(from, base, upto, FALSE, n)
      BY <1>1, <1>2, <2>2
    <3>2. base + n - 1 # upto /\ base + n - 1 # up
      BY <1>00, <1>1, <2>2
    <3>3. QED
      BY <3>1, <3>2 DEF Item
  <2>3. n = Len(l) + 1 \/ n \in 1 .. Len(l)
    BY <1>0
  <2>4. QED
    BY <2>1, <2>2, <2>3
<1>4. Len(m) = up - base
  BY <1>00, <1>0, <1>1
<1>5. ListIs(m, from, base, up, FALSE, over)
  BY <1>3, <1>4, Zenon DEF ListIs
<1>6. QED
  BY <1>00, <1>5 DEF m

(* What a list holds that gets a placeholder at its end. *)
LEMMA PaddedList ==
  ASSUME NEW S, NEW l \in Seq(S), NEW from, NEW base \in Int, NEW upto \in Int,
         NoTensor \in S, ListIs(l, from, base, upto, FALSE, FALSE)
  PROVE  ListIs(Append(l, NoTensor), from, base, upto, FALSE, TRUE)
<1> DEFINE m == Append(l, NoTensor)
<1>1. Len(l) = upto - base /\ \A n \in 1 .. Len(l) : l[n] = Item(from, base, upto, FALSE, n)
  BY DEF ListIs
<1>2. /\ Len(m) = Len(l) + 1 /\ m[Len(l) + 1] = NoTensor /\ Len(l) \in Nat
      /\ \A n \in 1 .. Len(l) : m[n] = l[n]
  OBVIOUS
<1> HIDE DEF m
<1>0. Len(m) = Len(l) + 1 /\ Len(l) \in Nat
  BY <1>2
<1>3. ASSUME NEW n \in 1 .. Len(m) PROVE m[n] = Item(from, base, upto, FALSE, n)
  <2>1. CASE n = Len(l) + 1
    BY <1>1, <1>2, <2>1 DEF Item
  <2>2. CASE n \in 1 .. Len(l)
    BY <1>1, <1>2, <2>2
  <2>3. n = Len(l) + 1 \/ n \in 1 .. Len(l)
    BY <1>0
  <2>4. QED
    BY <2>1, <2>2, <2>3
<1>4. Len(m) = upto - base + 1
  BY <1>1, <1>2
<1>5. ListIs(m, from, base, upto, FALSE, TRUE)
  BY <1>3, <1>4, Zenon DEF ListIs
<1>6. QED
  BY <1>5 DEF m

(* The oldest tensor leaves a list. *)
LEMMA ListTail ==
  ASSUME NEW S, NEW l \in Seq(S), NEW from, NEW base \in Int, NEW upto \in Int, base < upto,
         NEW hole, NEW over, ListIs(l, from, base, upto, hole, over)
  PROVE  /\ l # <<>>
         /\ ~hole => Head(l) = Tensor(from, base)
         /\ from \in Nat => Head(l) # NoTensor
         /\ ListIs(Tail(l), from, base + 1, upto, hole, over)
<1>1. /\ Len(l) = upto - base \/ (over /\ Len(l) = upto - base + 1)
      /\ \A n \in 1 .. Len(l) : l[n] = Item(from, base, upto, hole, n)
  BY DEF ListIs
<1>2. Len(l) \in Nat /\ Len(l) > 0
  BY <1>1
<1>3. l # <<>> /\ Head(l) = l[1]
  BY <1>2
<1>4. ~hole => l[1] = Tensor(from, base)
  <2>1. l[1] = Item(from, base, upto, hole, 1)
    BY <1>1, <1>2
  <2>2. base + 1 - 1 = base /\ base # upto
    OBVIOUS
  <2>3. QED
    BY <2>1, <2>2 DEF Item
<1> DEFINE m == Tail(l)
<1>5. Len(m) = Len(l) - 1 /\ \A n \in 1 .. Len(l) - 1 : m[n] = l[n + 1]
  BY <1>2, <1>3
<1> HIDE DEF m
<1>6. ASSUME NEW n \in 1 .. Len(m) PROVE m[n] = Item(from, base + 1, upto, hole, n)
  <2>1. m[n] = l[n + 1] /\ n + 1 \in 1 .. Len(l)
    BY <1>2, <1>5
  <2>2. l[n + 1] = Item(from, base, upto, hole, n + 1)
    BY <1>1, <2>1
  <2>3. base + (n + 1) - 1 = base + 1 + n - 1 /\ base + (n + 1) = base + 1 + n
    OBVIOUS
  <2>4. QED
    BY <2>1, <2>2, <2>3 DEF Item
<1>7. Len(m) = upto - (base + 1) \/ (over /\ Len(m) = upto - (base + 1) + 1)
  BY <1>1, <1>2, <1>5
<1>8. ListIs(m, from, base + 1, upto, hole, over)
  BY <1>6, <1>7 DEF ListIs
<1>9. from \in Nat => l[1] # NoTensor
  <2> SUFFICES ASSUME from \in Nat PROVE l[1] # NoTensor
    OBVIOUS
  <2>1. l[1] = Item(from, base, upto, hole, 1)
    BY <1>1, <1>2
  <2>2. base + 1 - 1 = base /\ base # upto
    OBVIOUS
  <2>3. l[1] = Tensor(from, base) \/ l[1] = Empty
    BY <2>1, <2>2 DEF Item
  <2>4. QED
    BY <2>3, TensorFacts
<1>10. QED
  BY <1>3, <1>4, <1>8, <1>9 DEF m

(* The newest tensor of a list. *)
LEMMA ListLast ==
  ASSUME NEW S, NEW l \in Seq(S), NEW from, NEW base \in Int, NEW upto \in Int, base < upto,
         ListIs(l, from, base, upto, FALSE, FALSE)
  PROVE  l # <<>> /\ Last(l) = Tensor(from, upto - 1)
<1>1. Len(l) = upto - base /\ \A n \in 1 .. Len(l) : l[n] = Item(from, base, upto, FALSE, n)
  BY DEF ListIs
<1>2. Last(l) = l[Len(l)] /\ Len(l) \in 1 .. Len(l) /\ l # <<>>
  BY <1>1 DEF Last
<1>3. l[Len(l)] = Item(from, base, upto, FALSE, Len(l))
  BY <1>1, <1>2
<1>4. base + Len(l) - 1 = upto - 1 /\ upto - 1 # upto
  BY <1>1
<1>5. QED
  BY <1>2, <1>3, <1>4 DEF Item

(* A list without its newest entry. *)
LEMMA FrontFacts ==
  ASSUME NEW S, NEW l \in Seq(S), Len(l) > 0
  PROVE  /\ Front(l) \in Seq(S) /\ Len(Front(l)) = Len(l) - 1
         /\ \A n \in 1 .. Len(l) - 1 : Front(l)[n] = l[n]
<1>1. Len(l) \in Nat
  OBVIOUS
<1>2. PICK h \in Nat : h = Len(l) - 1
  BY <1>1
<1>3. Front(l) = SubSeq(l, 1, h)
  BY <1>2 DEF Front
<1>4. /\ SubSeq(l, 1, h) \in Seq(S) /\ Len(SubSeq(l, 1, h)) = h
      /\ \A n \in 1 .. h : SubSeq(l, 1, h)[n] = l[n]
  <2>1. 1 \in 1 .. Len(l) + 1 /\ h \in 0 .. Len(l) /\ 1 <= h + 1
    BY <1>1, <1>2
  <2>2. \A n \in 1 .. h : 1 + n - 1 = n
    OBVIOUS
  <2>3. QED
    BY <1>1, <1>2, <2>1, <2>2, SubSeqProperties
<1>5. QED
  BY <1>2, <1>3, <1>4

(* The outstanding tensor arrives. *)
LEMMA FilledList ==
  ASSUME NEW S, NEW l \in Seq(S), NEW from \in Nat, NEW base \in Int, NEW upto \in Int,
         base < upto, NEW over, ListIs(l, from, base, upto, TRUE, over)
  PROVE  /\ ListIs(Fill(l, Tensor(from, upto - 1)), from, base, upto, FALSE, over)
         /\ Tensor(from, upto - 1) \in S => Fill(l, Tensor(from, upto - 1)) \in Seq(S)
<1>1. /\ Len(l) = upto - base \/ (over /\ Len(l) = upto - base + 1)
      /\ \A n \in 1 .. Len(l) : l[n] = Item(from, base, upto, TRUE, n)
  BY DEF ListIs
<1> DEFINE h == upto - base
           I == {i \in 1 .. Len(l) : l[i] = Empty}
<1>2. h \in 1 .. Len(l) /\ Len(l) \in Nat
  BY <1>1
<1>3. ASSUME NEW i \in 1 .. Len(l) PROVE l[i] = Empty <=> i = h
  <2>1. l[i] = Item(from, base, upto, TRUE, i)
    BY <1>1
  <2>2. CASE i = h
    BY <2>1, <2>2 DEF Item
  <2>3. CASE base + i - 1 = upto
    <3>1. l[i] = NoTensor
      BY <2>1, <2>3 DEF Item
    <3>2. QED
      BY <2>3, <3>1, TensorFacts
  <2>4. CASE i # h /\ base + i - 1 # upto
    <3>1. base + i # upto
      BY <2>4
    <3>2. l[i] = Tensor(from, base + i - 1)
      BY <2>1, <2>4, <3>1 DEF Item
    <3>3. QED
      BY <2>4, <3>2, TensorFacts
  <2>5. QED
    BY <2>2, <2>3, <2>4
<1>4. I = {h}
  BY <1>2, <1>3
<1>5. SelectInSeq(l, LAMBDA t : t = Empty) = h
  <2>1. SelectInSeq(l, LAMBDA t : t = Empty) = IF I # {} THEN Min(I) ELSE 0
    BY DEF SelectInSeq
  <2>2. Min({h}) = h
    <3>1. h \in Int
      OBVIOUS
    <3> HIDE DEF h
    <3>2. QED
      BY <3>1 DEF Min
  <2> HIDE DEF I
  <2>3. QED
    BY <1>4, <2>1, <2>2
<1> DEFINE x == Tensor(from, upto - 1)
           m == [l EXCEPT ![h] = x]
<1>6. Fill(l, x) = m
  <2>1. h # 0
    BY <1>2
  <2> HIDE DEF h, x
  <2>2. QED
    BY <1>5, <2>1 DEF Fill
<1>7. /\ Len(m) = Len(l) /\ m[h] = x
      /\ \A n \in 1 .. Len(l) : n # h => m[n] = l[n]
  BY <1>2
<1>8. x \in S => m \in Seq(S)
  BY <1>2
<1> HIDE DEF m
<1>9. ASSUME NEW n \in 1 .. Len(m) PROVE m[n] = Item(from, base, upto, FALSE, n)
  <2>1. CASE n = h
    <3>1. base + n - 1 = upto - 1 /\ base + n - 1 # upto
      BY <2>1
    <3>2. QED
      BY <1>7, <2>1, <3>1 DEF Item
  <2>2. CASE n # h
    <3>1. m[n] = Item(from, base, upto, TRUE, n)
      BY <1>1, <1>7, <2>2
    <3>2. base + n # upto
      BY <2>2
    <3>3. QED
      BY <3>1, <3>2 DEF Item
  <2>3. QED
    BY <2>1, <2>2
<1>10. ListIs(m, from, base, upto, FALSE, over)
  BY <1>1, <1>7, <1>9 DEF ListIs
<1>11. QED
  BY <1>6, <1>8, <1>10

(* Nothing is in a list before it is asked for. *)
LEMMA NoList ==
  ASSUME NEW from, NEW base \in Int, NEW hole, NEW over
  PROVE  ListIs(<<>>, from, base, base, hole, over)
BY DEF ListIs

(* A list without an outstanding tensor and with no placeholder. *)
LEMMA PlainList ==
  ASSUME NEW l, NEW from, NEW base, NEW upto, NEW hole, NEW over,
         hole \in BOOLEAN, over \in BOOLEAN,
         ListIs(l, from, base, upto, hole, over)
  PROVE  /\ ~hole /\ ~over => ListIs(l, from, base, upto, FALSE, FALSE)
         /\ ~over => \A o : ListIs(l, from, base, upto, hole, o)
BY Zenon DEF ListIs


-----------------------------------------------------------------------------
(* The ring of ranks and what a rank has posted.                             *)

(* Neighbours on the ring. *)
LEMMA RingFacts ==
  ASSUME NEW r \in Ranks
  PROVE  /\ PrevRank(r) = IF r = 0 THEN P - 1 ELSE r - 1
         /\ NextRank(r) = IF r = P - 1 THEN 0 ELSE r + 1
         /\ PrevRank(r) \in Ranks /\ NextRank(r) \in Ranks
         /\ PrevRank(r) # NextRank(r) /\ PrevRank(r) # r /\ NextRank(r) # r
         /\ NextRank(PrevRank(r)) = r /\ PrevRank(NextRank(r)) = r
<1>1. /\ P \in Nat /\ P > 2 /\ r \in Nat /\ r <= P - 1
  BY SizeFacts DEF Ranks
<1>2. ASSUME NEW i \in Ranks PROVE PrevRank(i) = IF i = 0 THEN P - 1 ELSE i - 1
  <2>1. Digits(i - 1, P, IF i = 0 THEN -1 ELSE 0, IF i = 0 THEN P - 1 ELSE i - 1)
    BY <1>1 DEF Digits, Ranks
  <2>2. QED
    BY <2>1, DivUnique DEF PrevRank
<1>3. ASSUME NEW i \in Ranks PROVE NextRank(i) = IF i = P - 1 THEN 0 ELSE i + 1
  <2>1. Digits(i + 1, P, IF i = P - 1 THEN 1 ELSE 0, IF i = P - 1 THEN 0 ELSE i + 1)
    BY <1>1 DEF Digits, Ranks
  <2>2. QED
    BY <2>1, DivUnique DEF NextRank
<1>4. PrevRank(r) \in Ranks /\ NextRank(r) \in Ranks
  BY <1>1, <1>2, <1>3 DEF Ranks
<1>5. /\ PrevRank(r) = IF r = 0 THEN P - 1 ELSE r - 1
      /\ NextRank(r) = IF r = P - 1 THEN 0 ELSE r + 1
      /\ NextRank(PrevRank(r)) = IF PrevRank(r) = P - 1 THEN 0 ELSE PrevRank(r) + 1
      /\ PrevRank(NextRank(r)) = IF NextRank(r) = 0 THEN P - 1 ELSE NextRank(r) - 1
  BY <1>2, <1>3, <1>4
<1> HIDE DEF PrevRank, NextRank
<1>6. QED
  BY <1>1, <1>4, <1>5

(* The set of operations as the proofs need it. *)
AnyOp == OpType(MaxMicrobatches - 1, StageIds)

(* The fields of an operation. *)
LEMMA OpFacts ==
  ASSUME NEW kind, NEW peer, NEW data, NEW list, NEW chunk, NEW handle
  PROVE  LET op == Op(kind, peer, data, list, chunk, handle)
         IN  /\ op.kind = kind /\ op.peer = peer /\ op.data = data
             /\ op.list = list /\ op.chunk = chunk /\ op.handle = handle
BY DEF Op

(* An operation a rank may post is an operation. *)
LEMMA KnownIsOp ==
  ASSUME NEW cf \in Configs, NEW r \in Ranks, NEW x, NEW kind, NEW peer, NEW data, NEW list,
         NEW chunk, NEW handle,
         LET op == Op(kind, peer, data, list, chunk, handle)
         IN  \/ IsActTo(cf, r, x, op) /\ list = "none" /\ chunk = NoRecv
             \/ IsGradTo(cf, r, x, op) /\ list = "none" /\ chunk = NoRecv
             \/ IsActFrom(cf, r, x, op) /\ data = NoTensor
             \/ IsGradFrom(cf, r, x, op) /\ data = NoTensor
  PROVE  Op(kind, peer, data, list, chunk, handle) \in AnyOp
<1> DEFINE op == Op(kind, peer, data, list, chunk, handle)
<1>1. /\ op.kind = kind /\ op.peer = peer /\ op.data = data
      /\ op.list = list /\ op.chunk = chunk /\ op.handle = handle
  BY OpFacts
<1>2. op = [kind |-> kind, peer |-> peer, data |-> data, list |-> list,
            chunk |-> chunk, handle |-> handle]
  BY DEF Op
<1> HIDE DEF op
<1>3. /\ PrevRank(r) \in Ranks /\ NextRank(r) \in Ranks
  BY RingFacts
<1>4. /\ kind \in {"send", "recv"} /\ peer \in Ranks /\ list \in {"none", "input", "grad"}
      /\ handle \in {"sync", "fwd", "bwd"} /\ x \in 0 .. All(cf) - 1
  BY <1>1, <1>3 DEF op, IsActTo, IsGradTo, IsActFrom, IsGradFrom, FwdHandles, BwdHandles
<1>5. x \in Int /\ x \in Nat
  <2>1. All(cf) \in Nat
    BY AllSize
  <2>2. QED
    BY <1>4, <2>1
<1>6. FwdChunk(x) \in Chunks /\ BwdChunk(x) \in Chunks
  BY <1>5, ChunkFacts
<1>7. \A c \in Chunks : StageOf(r, c) \in StageIds /\ c \in StageIds
  <2> SUFFICES ASSUME NEW c \in Chunks PROVE StageOf(r, c) \in StageIds /\ c \in StageIds
    OBVIOUS
  <2>1. P \in Nat /\ V \in Nat /\ P > 2 /\ r \in 0 .. P - 1 /\ c \in 0 .. V - 1
    BY SizeFacts DEF Ranks, Chunks
  <2>2. c * P \in Nat /\ c * P <= P * V - P /\ c <= c * P
    BY <2>1
  <2>3. QED
    BY <2>1, <2>2 DEF StageOf, StageIds
<1>8. chunk \in {NoRecv} \cup StageIds
  BY <1>1, <1>6, <1>7 DEF op, IsActTo, IsGradTo, IsActFrom, IsGradFrom
<1>9. ASSUME NEW c \in Chunks, NEW n \in Nat, n < cf.microbatches
      PROVE  Tensor(StageOf(r, c), n) \in [stage : StageIds, mb : 0 .. MaxMicrobatches - 1]
  <2>1. n \in 0 .. MaxMicrobatches - 1
    <3>1. MaxMicrobatches \in Nat /\ cf.microbatches <= MaxMicrobatches
      BY MaxFacts
    <3>2. cf.microbatches \in Nat
      BY ConfFacts
    <3>3. QED
      BY <1>9, <3>1, <3>2
  <2>2. QED
    BY <1>7, <2>1 DEF Tensor
<1>10. /\ Fwd(FwdChunk(x), x) \in Nat /\ Fwd(FwdChunk(x), x) < cf.microbatches
       /\ Bwd(BwdChunk(x), x) \in Nat /\ Bwd(BwdChunk(x), x) < cf.microbatches
  <2>1. /\ Fwd(FwdChunk(x), All(cf)) = cf.microbatches
        /\ Bwd(BwdChunk(x), All(cf)) = cf.microbatches
    BY <1>6, AllFacts
  <2>2. All(cf) \in Nat /\ x + 1 \in Nat /\ x + 1 <= All(cf)
    BY <1>4, <1>5, AllSize
  <2>3. Fwd(FwdChunk(x), x + 1) <= Fwd(FwdChunk(x), All(cf)) /\ Fwd(FwdChunk(x), x) \in Nat
    BY <1>5, <1>6, <2>2, FwdGrows, FwdFacts
  <2>4. Fwd(FwdChunk(x), x + 1) = Fwd(FwdChunk(x), x) + One(FwdChunk(x) = FwdChunk(x))
    BY <1>5, <1>6, FwdStep
  <2>5. /\ Bwd(BwdChunk(x), x + 1) <= Bwd(BwdChunk(x), All(cf)) /\ Bwd(BwdChunk(x), x) \in Nat
        /\ Bwd(BwdChunk(x), x + 1) = Bwd(BwdChunk(x), x) + One(BwdChunk(x) = BwdChunk(x))
    BY <1>5, <1>6, <2>2, BwdFacts
  <2>6. cf.microbatches \in Nat
    BY ConfFacts
  <2>7. QED
    BY <2>1, <2>3, <2>4, <2>5, <2>6 DEF One
<1>11. data \in [stage : StageIds, mb : 0 .. MaxMicrobatches - 1] \cup {NoTensor}
  <2>1. /\ Tensor(StageOf(r, FwdChunk(x)), Fwd(FwdChunk(x), x))
           \in [stage : StageIds, mb : 0 .. MaxMicrobatches - 1]
        /\ Tensor(StageOf(r, BwdChunk(x)), Bwd(BwdChunk(x), x))
           \in [stage : StageIds, mb : 0 .. MaxMicrobatches - 1]
    BY <1>6, <1>9, <1>10
  <2>2. QED
    BY <1>1, <2>1 DEF op, IsActTo, IsGradTo, IsActFrom, IsGradFrom
<1>12. QED
  BY <1>2, <1>4, <1>8, <1>11 DEF op, AnyOp, OpType

(* What is posted may be described by other counts of the passes that posted *)
(* nothing which is still outstanding.                                       *)
LEMMA Repoint ==
  ASSUME NEW cf, NEW r \in Ranks, NEW fs, NEW b, NEW fa, NEW ba, NEW fs2, NEW b2, NEW fa2, NEW ba2,
         NEW q, Posted(cf, r, fs, b, fa, ba, q),
         fs2 = fs \/ ~Has(q, "send", NextRank(r)), b2 = b \/ ~Has(q, "send", PrevRank(r)),
         fa2 = fa \/ ~Has(q, "recv", PrevRank(r)), ba2 = ba \/ ~Has(q, "recv", NextRank(r))
  PROVE  Posted(cf, r, fs2, b2, fa2, ba2, q)
<1>1. ASSUME NEW n \in DOMAIN q PROVE Known(cf, r, fs2, b2, fa2, ba2, q[n])
  <2>1. Known(cf, r, fs, b, fa, ba, q[n])
    BY DEF Posted
  <2>2. CASE IsActTo(cf, r, fs - 1, q[n])
    <3>1. fs2 = fs
      BY <2>2 DEF IsActTo, Has
    <3>2. QED
      BY <2>2, <3>1 DEF Known
  <2>3. CASE IsGradTo(cf, r, b - 1, q[n])
    <3>1. b2 = b
      BY <2>3 DEF IsGradTo, Has
    <3>2. QED
      BY <2>3, <3>1 DEF Known
  <2>4. CASE IsActFrom(cf, r, fa - 1, q[n])
    <3>1. fa2 = fa
      BY <2>4 DEF IsActFrom, Has
    <3>2. QED
      BY <2>4, <3>1 DEF Known
  <2>5. CASE IsGradFrom(cf, r, ba - 1, q[n])
    <3>1. ba2 = ba
      BY <2>5 DEF IsGradFrom, Has
    <3>2. QED
      BY <2>5, <3>1 DEF Known
  <2>6. QED
    BY <2>1, <2>2, <2>3, <2>4, <2>5 DEF Known
<1>2. QED
  BY <1>1 DEF Posted

(* No operation of the forward, of the backward direction is outstanding. *)
NoActs(r, q) == ~Has(q, "send", NextRank(r)) /\ ~Has(q, "recv", PrevRank(r))
NoGrads(r, q) == ~Has(q, "send", PrevRank(r)) /\ ~Has(q, "recv", NextRank(r))
Waited(q, handles) == \A n \in DOMAIN q : q[n].handle \notin handles

(* What a rank has waited for. *)
LEMMA WaitedFor ==
  ASSUME NEW cf, NEW r \in Ranks, NEW fs, NEW b, NEW fa, NEW ba, NEW q, NEW handles,
         Posted(cf, r, fs, b, fa, ba, q), Waited(q, handles), "sync" \in handles
  PROVE  /\ ~cf.overlap \/ "fwd" \in handles => NoActs(r, q)
         /\ ~cf.overlap \/ "bwd" \in handles => NoGrads(r, q)
<1>1. PrevRank(r) # NextRank(r)
  BY RingFacts
<1>2. ASSUME NEW n \in DOMAIN q
      PROVE  /\ Known(cf, r, fs, b, fa, ba, q[n]) /\ q[n].handle \notin handles
             /\ q[n].handle # "sync"
  BY DEF Posted, Waited
<1>3. ASSUME NEW n \in DOMAIN q,
             \/ q[n].kind = "send" /\ q[n].peer = NextRank(r)
             \/ q[n].kind = "recv" /\ q[n].peer = PrevRank(r)
      PROVE  cf.overlap /\ "fwd" \notin handles
  <2>1. q[n].handle \in FwdHandles(cf)
    BY <1>1, <1>2, <1>3 DEF Known, IsActTo, IsGradTo, IsActFrom, IsGradFrom
  <2>2. QED
    BY <1>2, <2>1 DEF FwdHandles
<1>4. ASSUME NEW n \in DOMAIN q,
             \/ q[n].kind = "send" /\ q[n].peer = PrevRank(r)
             \/ q[n].kind = "recv" /\ q[n].peer = NextRank(r)
      PROVE  cf.overlap /\ "bwd" \notin handles
  <2>1. q[n].handle \in BwdHandles(cf)
    BY <1>1, <1>2, <1>4 DEF Known, IsActTo, IsGradTo, IsActFrom, IsGradFrom
  <2>2. QED
    BY <1>2, <2>1 DEF BwdHandles
<1>5. QED
  BY <1>3, <1>4 DEF NoActs, NoGrads, Has

(* seg is an operation of this kind with this peer that rank r may post, or  *)
(* nothing.                                                                  *)
Adds(cf, r, fs, b, fa, ba, seg, kind, peer, on) ==
  \/ ~on /\ seg = <<>>
  \/ /\ on
     /\ \E op \in AnyOp : /\ seg = <<op>> /\ Known(cf, r, fs, b, fa, ba, op)
                          /\ op.kind = kind /\ op.peer = peer

(* Its slot is free; afterwards it is in use. *)
Free(q, kind, peer, on) == on => ~Has(q, kind, peer)
Uses(q, q2, kind, peer, on) ==
  \A k, p : Has(q2, k, p) <=> Has(q, k, p) \/ (on /\ k = kind /\ p = peer)

(* Posting one more operation. *)
LEMMA PostSeg ==
  ASSUME NEW cf, NEW r \in Ranks, NEW fs, NEW b, NEW fa, NEW ba, NEW q, NEW seg,
         NEW kind, NEW peer, NEW on \in BOOLEAN,
         Posted(cf, r, fs, b, fa, ba, q),
         Adds(cf, r, fs, b, fa, ba, seg, kind, peer, on),
         Free(q, kind, peer, on)
  PROVE  /\ Posted(cf, r, fs, b, fa, ba, q \o seg)
         /\ seg \in Seq(AnyOp)
         /\ Uses(q, q \o seg, kind, peer, on)
<1>1. /\ q \in Seq(AnyOp)
      /\ \A n \in DOMAIN q : Known(cf, r, fs, b, fa, ba, q[n])
      /\ \A m, n \in DOMAIN q : q[m].kind = q[n].kind /\ q[m].peer = q[n].peer => m = n
  BY DEF Posted, AnyOp
<1>2. CASE ~on
  <2>1. seg = <<>>
    BY <1>2 DEF Adds
  <2>2. q \o seg = q /\ seg \in Seq(AnyOp)
    BY <1>1, <2>1
  <2>3. QED
    BY <1>2, <2>2 DEF Uses
<1>3. CASE on
  <2>1. PICK op \in AnyOp : /\ seg = <<op>> /\ Known(cf, r, fs, b, fa, ba, op)
                            /\ op.kind = kind /\ op.peer = peer
    BY <1>3 DEF Adds
  <2> DEFINE m == q \o seg
             h == Len(q) + 1
  <2>2. /\ m \in Seq(AnyOp) /\ seg \in Seq(AnyOp)
        /\ Len(q) \in Nat /\ Len(m) = Len(q) + 1 /\ m[Len(q) + 1] = op
        /\ \A n \in 1 .. Len(q) : m[n] = q[n]
    BY <1>1, <2>1
  <2>3. DOMAIN m = 1 .. h /\ DOMAIN q = 1 .. Len(q) /\ h \in Nat /\ m[h] = op
    BY <1>1, <2>2
  <2> HIDE DEF m
  <2>4. \A n \in DOMAIN m : n = h \/ (n # h /\ n \in DOMAIN q /\ m[n] = q[n])
    BY <2>2, <2>3
  <2>5. \A n \in DOMAIN q : n \in DOMAIN m /\ m[n] = q[n]
    BY <2>2, <2>3
  <2>6. h \in DOMAIN m
    BY <2>3
  <2> HIDE DEF h
  <2>7. \A n \in DOMAIN m : Known(cf, r, fs, b, fa, ba, m[n])
    BY <1>1, <2>1, <2>3, <2>4
  <2>8. \A n \in DOMAIN q : ~(q[n].kind = kind /\ q[n].peer = peer)
    BY <1>3 DEF Has, Free
  <2>9. ASSUME NEW i \in DOMAIN m, NEW j \in DOMAIN m, m[i].kind = m[j].kind, m[i].peer = m[j].peer
        PROVE  i = j
    <3>1. CASE i = h /\ j = h
      BY <3>1
    <3>2. CASE i = h /\ j # h
      BY <2>1, <2>3, <2>4, <2>8, <2>9, <3>2
    <3>3. CASE i # h /\ j = h
      BY <2>1, <2>3, <2>4, <2>8, <2>9, <3>3
    <3>4. CASE i # h /\ j # h
      BY <1>1, <2>4, <2>9, <3>4
    <3>5. QED
      BY <3>1, <3>2, <3>3, <3>4
  <2>10. Posted(cf, r, fs, b, fa, ba, m)
    BY <2>2, <2>7, <2>9 DEF Posted, AnyOp
  <2>11. ASSUME NEW k2, NEW p2
         PROVE  Has(m, k2, p2) <=> Has(q, k2, p2) \/ (k2 = kind /\ p2 = peer)
    <3>1. ASSUME Has(q, k2, p2) PROVE Has(m, k2, p2)
      BY <2>5, <3>1 DEF Has
    <3>2. ASSUME k2 = kind, p2 = peer PROVE Has(m, k2, p2)
      BY <2>1, <2>3, <2>6, <3>2 DEF Has
    <3>3. ASSUME Has(m, k2, p2) PROVE Has(q, k2, p2) \/ (k2 = kind /\ p2 = peer)
      <4>1. PICK n \in DOMAIN m : m[n].kind = k2 /\ m[n].peer = p2
        BY <3>3 DEF Has
      <4>2. CASE n = h
        BY <2>1, <2>3, <4>1, <4>2
      <4>3. CASE n \in DOMAIN q /\ m[n] = q[n]
        BY <4>1, <4>3 DEF Has
      <4>4. QED
        BY <2>4, <4>2, <4>3
    <3>4. QED
      BY <3>1, <3>2, <3>3
  <2>12. QED
    BY <1>3, <2>2, <2>10, <2>11 DEF m, Uses
<1>4. QED
  BY <1>2, <1>3

(* Two kinds of operation that are not the same slot. *)
Apart(k1, p1, k2, p2) == ~(k1 = k2 /\ p1 = p2)

(* A free slot stays free when another one is used. *)
LEMMA StillFree ==
  ASSUME NEW q, NEW q2, NEW k, NEW p, NEW on \in BOOLEAN, NEW kind, NEW peer, NEW used \in BOOLEAN,
         Free(q, k, p, on), Uses(q, q2, kind, peer, used), Apart(kind, peer, k, p)
  PROVE  Free(q2, k, p, on)
<1>1. Has(q2, k, p) => Has(q, k, p)
  BY DEF Uses, Apart
<1>2. QED
  BY <1>1 DEF Free

(* After four slots were used. *)
FourUsed(q, q2, k1, p1, on1, k2, p2, on2, k3, p3, on3, k4, p4, on4) ==
  \A k, p : Has(q2, k, p) <=>
               \/ Has(q, k, p)
               \/ (on1 /\ k = k1 /\ p = p1) \/ (on2 /\ k = k2 /\ p = p2)
               \/ (on3 /\ k = k3 /\ p = p3) \/ (on4 /\ k = k4 /\ p = p4)

(* Posting up to four operations, each of another kind or with another peer. *)
LEMMA PostFour ==
  ASSUME NEW cf, NEW r \in Ranks, NEW fs, NEW b, NEW fa, NEW ba, NEW q,
         Posted(cf, r, fs, b, fa, ba, q),
         NEW s1, NEW k1, NEW p1, NEW on1 \in BOOLEAN, NEW s2, NEW k2, NEW p2, NEW on2 \in BOOLEAN,
         NEW s3, NEW k3, NEW p3, NEW on3 \in BOOLEAN, NEW s4, NEW k4, NEW p4, NEW on4 \in BOOLEAN,
         Adds(cf, r, fs, b, fa, ba, s1, k1, p1, on1), Free(q, k1, p1, on1),
         Adds(cf, r, fs, b, fa, ba, s2, k2, p2, on2), Free(q, k2, p2, on2),
         Adds(cf, r, fs, b, fa, ba, s3, k3, p3, on3), Free(q, k3, p3, on3),
         Adds(cf, r, fs, b, fa, ba, s4, k4, p4, on4), Free(q, k4, p4, on4),
         Apart(k1, p1, k2, p2), Apart(k1, p1, k3, p3), Apart(k1, p1, k4, p4),
         Apart(k2, p2, k3, p3), Apart(k2, p2, k4, p4), Apart(k3, p3, k4, p4)
  PROVE  /\ Posted(cf, r, fs, b, fa, ba, q \o (s1 \o s2 \o s3 \o s4))
         /\ FourUsed(q, q \o (s1 \o s2 \o s3 \o s4),
                     k1, p1, on1, k2, p2, on2, k3, p3, on3, k4, p4, on4)
         /\ s1 \o s2 \o s3 \o s4 \in Seq(AnyOp)
<1> DEFINE q1 == q \o s1
           q2 == q1 \o s2
           q3 == q2 \o s3
           q4 == q3 \o s4
<1>q. q \in Seq(AnyOp)
  BY DEF Posted, AnyOp
<1>1. Posted(cf, r, fs, b, fa, ba, q1) /\ s1 \in Seq(AnyOp) /\ Uses(q, q1, k1, p1, on1)
  BY PostSeg
<1> HIDE DEF q1
<1>2. Free(q1, k2, p2, on2)
  BY <1>1, StillFree
<1>3. Posted(cf, r, fs, b, fa, ba, q2) /\ s2 \in Seq(AnyOp) /\ Uses(q1, q2, k2, p2, on2)
  BY <1>1, <1>2, PostSeg
<1> HIDE DEF q2
<1>4. Free(q2, k3, p3, on3)
  <2>1. Free(q1, k3, p3, on3)
    BY <1>1, StillFree
  <2>2. QED
    BY <1>3, <2>1, StillFree
<1>5. Posted(cf, r, fs, b, fa, ba, q3) /\ s3 \in Seq(AnyOp) /\ Uses(q2, q3, k3, p3, on3)
  BY <1>3, <1>4, PostSeg
<1> HIDE DEF q3
<1>6. Free(q3, k4, p4, on4)
  <2>1. Free(q1, k4, p4, on4)
    BY <1>1, StillFree
  <2>2. Free(q2, k4, p4, on4)
    BY <1>3, <2>1, StillFree
  <2>3. QED
    BY <1>5, <2>2, StillFree
<1>7. Posted(cf, r, fs, b, fa, ba, q4) /\ s4 \in Seq(AnyOp) /\ Uses(q3, q4, k4, p4, on4)
  BY <1>5, <1>6, PostSeg
<1>8. q \o (s1 \o s2 \o s3 \o s4) = q4
  <2>1. s1 \o s2 \in Seq(AnyOp) /\ s1 \o s2 \o s3 \in Seq(AnyOp)
    BY <1>1, <1>3, <1>5
  <2>2. (q \o s1) \o s2 = q \o (s1 \o s2)
    BY <1>q, <1>1, <1>3, ConcatAssociative
  <2>3. (q \o (s1 \o s2)) \o s3 = q \o (s1 \o s2 \o s3)
    BY <1>q, <1>5, <2>1, ConcatAssociative
  <2>4. (q \o (s1 \o s2 \o s3)) \o s4 = q \o (s1 \o s2 \o s3 \o s4)
    <3>1. PICK u : u = s1 \o s2 \o s3
      OBVIOUS
    <3> HIDE DEF q4
    <3>a. u \in Seq(AnyOp) /\ s4 \in Seq(AnyOp)
      BY <1>7, <2>1, <3>1
    <3>2. (q \o u) \o s4 = q \o (u \o s4)
      BY <1>q, <3>a, ConcatAssociative
    <3>3. QED
      BY <3>1, <3>2, Zenon
  <2>5. q2 = q \o (s1 \o s2)
    BY <2>2 DEF q1, q2
  <2>6. q3 = q \o (s1 \o s2 \o s3)
    BY <2>3, <2>5 DEF q3
  <2>7. QED
    BY <2>4, <2>6
<1> HIDE DEF q4
<1>9. FourUsed(q, q4, k1, p1, on1, k2, p2, on2, k3, p3, on3, k4, p4, on4)
  BY <1>1, <1>3, <1>5, <1>7, Zenon DEF Uses, FourUsed
<1>10. s1 \o s2 \o s3 \o s4 \in Seq(AnyOp)
  BY <1>1, <1>3, <1>5, <1>7
<1>11. QED
  BY <1>7, <1>8, <1>9, <1>10

(* What a call of communicate posts: sends of tensors, receives for chunks. *)
CallIs(cf, r, fs, b, fa, ba, q, sp, rp, sn, rn, h) ==
  /\ sp # NoTensor => /\ ~Has(q, "send", PrevRank(r))
                      /\ IsGradTo(cf, r, b - 1, Op("send", PrevRank(r), sp, "none", NoRecv, h))
  /\ rp # NoRecv => /\ ~Has(q, "recv", PrevRank(r))
                    /\ IsActFrom(cf, r, fa - 1, Op("recv", PrevRank(r), NoTensor, "input", rp, h))
  /\ sn # NoTensor => /\ ~Has(q, "send", NextRank(r))
                      /\ IsActTo(cf, r, fs - 1, Op("send", NextRank(r), sn, "none", NoRecv, h))
  /\ rn # NoRecv => /\ ~Has(q, "recv", NextRank(r))
                    /\ IsGradFrom(cf, r, ba - 1, Op("recv", NextRank(r), NoTensor, "grad", rn, h))

(* Which slots are in use after a call. *)
SlotsAfter(r, q, q2, sp, rp, sn, rn) ==
  /\ Has(q2, "send", PrevRank(r)) <=> Has(q, "send", PrevRank(r)) \/ sp # NoTensor
  /\ Has(q2, "recv", PrevRank(r)) <=> Has(q, "recv", PrevRank(r)) \/ rp # NoRecv
  /\ Has(q2, "send", NextRank(r)) <=> Has(q, "send", NextRank(r)) \/ sn # NoTensor
  /\ Has(q2, "recv", NextRank(r)) <=> Has(q, "recv", NextRank(r)) \/ rn # NoRecv

(* A call, batched or one operation at a time. *)
LEMMA PostCall ==
  ASSUME NEW cf \in Configs, NEW r \in Ranks, NEW fs, NEW b, NEW fa, NEW ba, NEW q,
         NEW batched \in BOOLEAN, NEW sp, NEW rp, NEW sn, NEW rn, NEW h,
         Posted(cf, r, fs, b, fa, ba, q),
         CallIs(cf, r, fs, b, fa, ba, q, sp, rp, sn, rn, h)
  PROVE  /\ Posted(cf, r, fs, b, fa, ba, q \o Communicate(batched, r, sp, rp, sn, rn, h))
         /\ SlotsAfter(r, q, q \o Communicate(batched, r, sp, rp, sn, rn, h), sp, rp, sn, rn)
         /\ Communicate(batched, r, sp, rp, sn, rn, h) \in Seq(AnyOp)
<1> DEFINE prev == PrevRank(r)
           next == NextRank(r)
           segSP == SendOp(prev, sp, h)
           segRP == RecvOp(prev, "input", rp, h)
           segSN == SendOp(next, sn, h)
           segRN == RecvOp(next, "grad", rn, h)
           onSP == sp # NoTensor
           onRP == rp # NoRecv
           onSN == sn # NoTensor
           onRN == rn # NoRecv
           A(seg, kind, peer, on) == Adds(cf, r, fs, b, fa, ba, seg, kind, peer, on)
<1>1. prev # next
  BY RingFacts
<1>2. A(segSP, "send", prev, onSP)
  <2>1. CASE ~onSP
    BY <2>1, Zenon DEF SendOp, Adds
  <2>2. CASE onSP
    <3> DEFINE op == Op("send", prev, sp, "none", NoRecv, h)
    <3>1. segSP = <<op>>
      BY <2>2 DEF SendOp
    <3>2. IsGradTo(cf, r, b - 1, op)
      BY <2>2 DEF CallIs
    <3>3. op \in AnyOp
      BY <3>2, KnownIsOp
    <3>4. op.kind = "send" /\ op.peer = prev
      BY OpFacts
    <3> HIDE DEF op
    <3>5. QED
      BY <2>2, <3>1, <3>2, <3>3, <3>4, Zenon DEF Adds, Known
  <2>3. QED
    BY <2>1, <2>2
<1>3. A(segRP, "recv", prev, onRP)
  <2>1. CASE ~onRP
    BY <2>1, Zenon DEF RecvOp, Adds
  <2>2. CASE onRP
    <3> DEFINE op == Op("recv", prev, NoTensor, "input", rp, h)
    <3>1. segRP = <<op>>
      BY <2>2 DEF RecvOp
    <3>2. IsActFrom(cf, r, fa - 1, op)
      BY <2>2 DEF CallIs
    <3>3. op \in AnyOp
      BY <3>2, KnownIsOp
    <3>4. op.kind = "recv" /\ op.peer = prev
      BY OpFacts
    <3> HIDE DEF op
    <3>5. QED
      BY <2>2, <3>1, <3>2, <3>3, <3>4, Zenon DEF Adds, Known
  <2>3. QED
    BY <2>1, <2>2
<1>4. A(segSN, "send", next, onSN)
  <2>1. CASE ~onSN
    BY <2>1, Zenon DEF SendOp, Adds
  <2>2. CASE onSN
    <3> DEFINE op == Op("send", next, sn, "none", NoRecv, h)
    <3>1. segSN = <<op>>
      BY <2>2 DEF SendOp
    <3>2. IsActTo(cf, r, fs - 1, op)
      BY <2>2 DEF CallIs
    <3>3. op \in AnyOp
      BY <3>2, KnownIsOp
    <3>4. op.kind = "send" /\ op.peer = next
      BY OpFacts
    <3> HIDE DEF op
    <3>5. QED
      BY <2>2, <3>1, <3>2, <3>3, <3>4, Zenon DEF Adds, Known
  <2>3. QED
    BY <2>1, <2>2
<1>5. A(segRN, "recv", next, onRN)
  <2>1. CASE ~onRN
    BY <2>1, Zenon DEF RecvOp, Adds
  <2>2. CASE onRN
    <3> DEFINE op == Op("recv", next, NoTensor, "grad", rn, h)
    <3>1. segRN = <<op>>
      BY <2>2 DEF RecvOp
    <3>2. IsGradFrom(cf, r, ba - 1, op)
      BY <2>2 DEF CallIs
    <3>3. op \in AnyOp
      BY <3>2, KnownIsOp
    <3>4. op.kind = "recv" /\ op.peer = next
      BY OpFacts
    <3> HIDE DEF op
    <3>5. QED
      BY <2>2, <3>1, <3>2, <3>3, <3>4, Zenon DEF Adds, Known
  <2>3. QED
    BY <2>1, <2>2
<1>6. /\ Free(q, "send", prev, onSP) /\ Free(q, "recv", prev, onRP)
      /\ Free(q, "send", next, onSN) /\ Free(q, "recv", next, onRN)
  BY DEF CallIs, Free
<1>7. /\ onSP \in BOOLEAN /\ onRP \in BOOLEAN /\ onSN \in BOOLEAN /\ onRN \in BOOLEAN
  OBVIOUS
<1>8. /\ Apart("send", prev, "recv", prev) /\ Apart("recv", prev, "send", prev)
      /\ Apart("send", next, "recv", next) /\ Apart("recv", next, "send", next)
      /\ Apart("send", prev, "send", next) /\ Apart("send", next, "send", prev)
      /\ Apart("send", prev, "recv", next) /\ Apart("recv", next, "send", prev)
      /\ Apart("recv", prev, "send", next) /\ Apart("send", next, "recv", prev)
      /\ Apart("recv", prev, "recv", next)
  BY <1>1 DEF Apart
<1>9. /\ "send" # "recv" /\ prev # next
  BY <1>1
<1> HIDE DEF prev, next, segSP, segRP, segSN, segRN, onSP, onRP, onSN, onRN
<1> DEFINE Good(ops) ==
             /\ ops \in Seq(AnyOp)
             /\ Posted(cf, r, fs, b, fa, ba, q \o ops)
             /\ \A k, p : Has(q \o ops, k, p) <=>
                  \/ Has(q, k, p)
                  \/ (onSP /\ k = "send" /\ p = prev) \/ (onRP /\ k = "recv" /\ p = prev)
                  \/ (onSN /\ k = "send" /\ p = next) \/ (onRN /\ k = "recv" /\ p = next)
<1>10. Good(segSP \o segRP \o segSN \o segRN)
  <2> DEFINE ops == segSP \o segRP \o segSN \o segRN
  <2>1. /\ ops \in Seq(AnyOp)
        /\ Posted(cf, r, fs, b, fa, ba, q \o ops)
        /\ FourUsed(q, q \o ops, "send", prev, onSP, "recv", prev, onRP,
                    "send", next, onSN, "recv", next, onRN)
    BY <1>2, <1>3, <1>4, <1>5, <1>6, <1>7, <1>8, PostFour
  <2> HIDE DEF ops
  <2>2. QED
    BY <2>1, Zenon DEF ops, FourUsed
<1>11. Good(segSN \o segRP \o segSP \o segRN)
  <2> DEFINE ops == segSN \o segRP \o segSP \o segRN
  <2>1. /\ ops \in Seq(AnyOp)
        /\ Posted(cf, r, fs, b, fa, ba, q \o ops)
        /\ FourUsed(q, q \o ops, "send", next, onSN, "recv", prev, onRP,
                    "send", prev, onSP, "recv", next, onRN)
    BY <1>2, <1>3, <1>4, <1>5, <1>6, <1>7, <1>8, PostFour
  <2> HIDE DEF ops
  <2>2. QED
    BY <2>1, Zenon DEF ops, FourUsed
<1>12. Good(segRP \o segSN \o segRN \o segSP)
  <2> DEFINE ops == segRP \o segSN \o segRN \o segSP
  <2>1. /\ ops \in Seq(AnyOp)
        /\ Posted(cf, r, fs, b, fa, ba, q \o ops)
        /\ FourUsed(q, q \o ops, "recv", prev, onRP, "send", next, onSN,
                    "recv", next, onRN, "send", prev, onSP)
    BY <1>2, <1>3, <1>4, <1>5, <1>6, <1>7, <1>8, PostFour
  <2> HIDE DEF ops
  <2>2. QED
    BY <2>1, Zenon DEF ops, FourUsed
<1> DEFINE call == Communicate(batched, r, sp, rp, sn, rn, h)
<1>13. \/ call = segSP \o segRP \o segSN \o segRN
       \/ call = segSN \o segRP \o segSP \o segRN
       \/ call = segRP \o segSN \o segRN \o segSP
  BY Zenon DEF Communicate, BatchedOps, EvenOddOps, segSP, segRP, segSN, segRN, prev, next
<1> HIDE DEF call
<1>14. Good(call)
  <2> HIDE DEF Good
  <2>1. QED
    BY <1>10, <1>11, <1>12, <1>13, Zenon
<1>15. SlotsAfter(r, q, q \o call, sp, rp, sn, rn)
  <2>1. \A k, p : Has(q \o call, k, p) <=>
              \/ Has(q, k, p)
              \/ (onSP /\ k = "send" /\ p = prev) \/ (onRP /\ k = "recv" /\ p = prev)
              \/ (onSN /\ k = "send" /\ p = next) \/ (onRN /\ k = "recv" /\ p = next)
    BY <1>14, Zenon
  <2>2. /\ Has(q \o call, "send", prev) <=> Has(q, "send", prev) \/ onSP
        /\ Has(q \o call, "recv", prev) <=> Has(q, "recv", prev) \/ onRP
        /\ Has(q \o call, "send", next) <=> Has(q, "send", next) \/ onSN
        /\ Has(q \o call, "recv", next) <=> Has(q, "recv", next) \/ onRN
    <3>1. ASSUME NEW k, NEW p, Has(q \o call, k, p)
          PROVE  \/ Has(q, k, p)
                 \/ (onSP /\ k = "send" /\ p = prev) \/ (onRP /\ k = "recv" /\ p = prev)
                 \/ (onSN /\ k = "send" /\ p = next) \/ (onRN /\ k = "recv" /\ p = next)
      BY <2>1, <3>1, Zenon
    <3>2. Has(q \o call, "send", prev) <=> Has(q, "send", prev) \/ onSP
      BY <1>9, <2>1, <3>1, Zenon
    <3>3. Has(q \o call, "recv", prev) <=> Has(q, "recv", prev) \/ onRP
      <4>1. ASSUME Has(q \o call, "recv", prev) PROVE Has(q, "recv", prev) \/ onRP
        BY <1>9, <3>1, <4>1
      <4>2. ASSUME Has(q, "recv", prev) \/ onRP PROVE Has(q \o call, "recv", prev)
        BY <2>1, <4>2, Zenon
      <4>3. QED
        BY <4>1, <4>2
    <3>4. Has(q \o call, "send", next) <=> Has(q, "send", next) \/ onSN
      <4>1. ASSUME Has(q \o call, "send", next) PROVE Has(q, "send", next) \/ onSN
        BY <1>9, <3>1, <4>1
      <4>2. ASSUME Has(q, "send", next) \/ onSN PROVE Has(q \o call, "send", next)
        BY <2>1, <4>2, Zenon
      <4>3. QED
        BY <4>1, <4>2
    <3>5. Has(q \o call, "recv", next) <=> Has(q, "recv", next) \/ onRN
      BY <1>9, <2>1, <3>1, Zenon
    <3>6. QED
      BY <3>2, <3>3, <3>4, <3>5
  <2>3. QED
    BY <2>2, Zenon DEF SlotsAfter, prev, next, onSP, onRP, onSN, onRN
<1>16. QED
  BY <1>14, <1>15, Zenon DEF call

-----------------------------------------------------------------------------
(* The two helpers.                                                          *)

(* The type of a rank is that of its configuration. *)
LEMMA LocalTypeIsRankType == RankType = LocalType(conf)
BY DEF RankType, LocalType, M, Total, All, Phases

(* The fields of a rank's state. *)
LEMMA TypeFacts ==
  ASSUME NEW cf \in Configs, NEW s \in LocalType(cf)
  PROVE  /\ s.input_tensors \in [Chunks -> Seq(Tensors)]
         /\ s.output_tensors \in [Chunks -> Seq(Tensors)]
         /\ s.output_tensor_grads \in [Chunks -> Seq(Tensors)]
         /\ s.output_tensor \in Tensors /\ s.input_tensor_grad \in Tensors
         /\ s.drawn \in [Chunks -> 0 .. cf.microbatches]
         /\ s.bwd \in [Chunks -> 0 .. cf.microbatches]
         /\ s.no_sync \in BOOLEAN /\ s.synchronized \in SUBSET Chunks
         /\ s.grad_syncs \in [Chunks -> Seq(0 .. cf.microbatches)]
         /\ s.param_syncs \in [Chunks -> Nat]
         /\ s.phase \in Phases /\ s.k \in 0 .. All(cf)
BY DEF LocalType

(* Tensors of the stages of a rank and their neighbours. *)
LEMMA StageTensors ==
  ASSUME NEW cf \in Configs, NEW r \in Ranks, NEW c \in Chunks, NEW n \in Int,
         0 <= n, n < cf.microbatches
  PROVE  /\ StageOf(r, c) \in Nat
         /\ Tensor(StageOf(r, c), n) \in Tensors
         /\ ~FirstStage(r, c) => /\ StageOf(r, c) - 1 \in Nat
                                 /\ Tensor(StageOf(r, c) - 1, n) \in Tensors
         /\ ~LastStage(r, c) => /\ StageOf(r, c) + 1 \in Nat
                                /\ Tensor(StageOf(r, c) + 1, n) \in Tensors
<1>1. P \in Nat /\ V \in Nat /\ P > 2 /\ V > 1 /\ r \in 0 .. P - 1 /\ c \in 0 .. V - 1
  BY SizeFacts DEF Ranks, Chunks
<1>2. PICK m \in Nat : m = c * P
  BY <1>1
<1>3. PICK w \in Nat : w = P * V
  BY <1>1
<1>4. /\ m <= w - P /\ (c # 0 => m >= P) /\ (c # V - 1 => m + P <= w - P)
  BY <1>1, <1>2, <1>3
<1>5. StageOf(r, c) = m + r /\ StageIds = 0 .. w - 1
  BY <1>2, <1>3 DEF StageOf, StageIds
<1>6. /\ StageOf(r, c) \in StageIds
      /\ ~FirstStage(r, c) => StageOf(r, c) - 1 \in StageIds
      /\ ~LastStage(r, c) => StageOf(r, c) + 1 \in StageIds
  BY <1>1, <1>4, <1>5 DEF FirstStage, LastStage
<1>7. StageIds \subseteq Nat
  BY <1>5
<1>8. n \in {Mixed} \cup (0 .. MaxMicrobatches - 1)
  <2>1. MaxMicrobatches \in Nat /\ cf.microbatches <= MaxMicrobatches /\ cf.microbatches \in Nat
    BY MaxFacts, ConfFacts
  <2>2. QED
    BY <2>1
<1>9. ASSUME NEW g \in StageIds PROVE Tensor(g, n) \in Tensors
  BY <1>8 DEF Tensor, Tensors
<1>10. QED
  BY <1>6, <1>7, <1>9

(* What a forward step writes. *)
ForwardWrote(s, t, c, ins, outs, out, params) ==
  /\ t = [s EXCEPT !.param_syncs = params,
                   !.input_tensors = [s.input_tensors EXCEPT ![c] = ins],
                   !.output_tensors = [s.output_tensors EXCEPT ![c] = outs],
                   !.output_tensor = out,
                   !.drawn = [s.drawn EXCEPT ![c] = s.drawn[c] + 1]]
  /\ t.phase = s.phase /\ t.k = s.k /\ t.output_tensor_grads = s.output_tensor_grads
  /\ t.input_tensor_grad = s.input_tensor_grad /\ t.bwd = s.bwd
  /\ t.no_sync = s.no_sync /\ t.synchronized = s.synchronized
  /\ t.grad_syncs = s.grad_syncs
  /\ t.param_syncs = params
  /\ t.input_tensors = [s.input_tensors EXCEPT ![c] = ins]
  /\ t.output_tensors = [s.output_tensors EXCEPT ![c] = outs]
  /\ t.output_tensor = out
  /\ t.drawn = [s.drawn EXCEPT ![c] = s.drawn[c] + 1]

(* It writes nothing else. *)
LEMMA ForwardFields ==
  ASSUME NEW cf \in Configs, NEW r \in Ranks, NEW s \in LocalType(cf), NEW k \in Int
  PROVE  ForwardWrote(s, ForwardStepHelper(s, r, k), FwdChunk(k),
           IF ~conf.forwardOnly THEN ForwardInputs(s, r, FwdChunk(k))
           ELSE Front(ForwardInputs(s, r, FwdChunk(k))),
           IF ~conf.forwardOnly
           THEN Append(s.output_tensors[FwdChunk(k)], ForwardOutput(s, r, FwdChunk(k)))
           ELSE s.output_tensors[FwdChunk(k)],
           IF LastStage(r, FwdChunk(k)) THEN NoTensor ELSE ForwardOutput(s, r, FwdChunk(k)),
           [x \in Chunks |-> s.param_syncs[x] + (IF x \in ParamSyncChunks(r, k) THEN 1 ELSE 0)])
<1> DEFINE c == FwdChunk(k)
           t == ForwardStepHelper(s, r, k)
           ins == IF ~conf.forwardOnly THEN ForwardInputs(s, r, c)
                  ELSE Front(ForwardInputs(s, r, c))
           outs == IF ~conf.forwardOnly THEN Append(s.output_tensors[c], ForwardOutput(s, r, c))
                   ELSE s.output_tensors[c]
           params == [x \in Chunks |->
                        s.param_syncs[x] + (IF x \in ParamSyncChunks(r, k) THEN 1 ELSE 0)]
           out == IF LastStage(r, c) THEN NoTensor ELSE ForwardOutput(s, r, c)
<1>1. ChunkId(k, TRUE) = c
  BY Zenon DEF FwdChunk
<1> HIDE DEF c
<1>2. t = [s EXCEPT !.param_syncs = params,
                    !.input_tensors = [s.input_tensors EXCEPT ![c] = ins],
                    !.output_tensors = [s.output_tensors EXCEPT ![c] = outs],
                    !.output_tensor = out,
                    !.drawn = [s.drawn EXCEPT ![c] = s.drawn[c] + 1]]
  BY <1>1, Zenon DEF ForwardStepHelper
<1> HIDE DEF ins, outs, params, out, t
<1>3. /\ t.phase = s.phase /\ t.k = s.k /\ t.output_tensor_grads = s.output_tensor_grads
      /\ t.input_tensor_grad = s.input_tensor_grad /\ t.bwd = s.bwd
      /\ t.no_sync = s.no_sync /\ t.synchronized = s.synchronized
      /\ t.grad_syncs = s.grad_syncs
      /\ t.param_syncs = params
      /\ t.input_tensors = [s.input_tensors EXCEPT ![c] = ins]
      /\ t.output_tensors = [s.output_tensors EXCEPT ![c] = outs]
      /\ t.output_tensor = out
      /\ t.drawn = [s.drawn EXCEPT ![c] = s.drawn[c] + 1]
  BY <1>2 DEF LocalType
<1>4. ForwardWrote(s, t, c, ins, outs, out, params)
  BY <1>2, <1>3, Zenon DEF ForwardWrote
<1>5. QED
  BY <1>4, Zenon DEF ins, outs, params, out, t, c

(* Passes of a chunk below the total are passes of a microbatch. *)
LEMMA PassFacts ==
  ASSUME NEW cf \in Configs, NEW x \in 0 .. All(cf) - 1
  PROVE  /\ x \in Nat /\ x \in Int /\ x + 1 \in Nat /\ x + 1 <= All(cf)
         /\ FwdChunk(x) \in Chunks /\ BwdChunk(x) \in Chunks
         /\ Fwd(FwdChunk(x), x) \in Nat /\ Fwd(FwdChunk(x), x) < cf.microbatches
         /\ Bwd(BwdChunk(x), x) \in Nat /\ Bwd(BwdChunk(x), x) < cf.microbatches
         /\ \A c \in Chunks : /\ Fwd(c, x) \in Nat /\ Bwd(c, x) \in Nat
                              /\ Fwd(c, x + 1) = IF c = FwdChunk(x) THEN Fwd(c, x) + 1
                                                 ELSE Fwd(c, x)
                              /\ Bwd(c, x + 1) = IF c = BwdChunk(x) THEN Bwd(c, x) + 1
                                                 ELSE Bwd(c, x)
                              /\ Fwd(c, x + 1) <= cf.microbatches
                              /\ Bwd(c, x + 1) <= cf.microbatches
<1>1. x \in Nat /\ x \in Int /\ x + 1 \in Nat /\ x + 1 <= All(cf) /\ All(cf) \in Nat
  BY AllSize
<1>2. FwdChunk(x) \in Chunks /\ BwdChunk(x) \in Chunks
  BY <1>1, ChunkFacts
<1>3. ASSUME NEW c \in Chunks
      PROVE  /\ Fwd(c, x) \in Nat /\ Bwd(c, x) \in Nat
             /\ Fwd(c, x + 1) = IF c = FwdChunk(x) THEN Fwd(c, x) + 1 ELSE Fwd(c, x)
             /\ Bwd(c, x + 1) = IF c = BwdChunk(x) THEN Bwd(c, x) + 1 ELSE Bwd(c, x)
             /\ Fwd(c, x + 1) <= cf.microbatches
             /\ Bwd(c, x + 1) <= cf.microbatches
  <2>1. Fwd(c, All(cf)) = cf.microbatches /\ Bwd(c, All(cf)) = cf.microbatches
    BY AllFacts
  <2>2. Fwd(c, x + 1) <= Fwd(c, All(cf)) /\ Fwd(c, x) \in Nat
    BY <1>1, FwdGrows, FwdFacts
  <2>3. Fwd(c, x + 1) = Fwd(c, x) + One(c = FwdChunk(x))
    BY <1>1, FwdStep
  <2>4. /\ Bwd(c, x + 1) <= Bwd(c, All(cf)) /\ Bwd(c, x) \in Nat
        /\ Bwd(c, x + 1) = Bwd(c, x) + One(c = BwdChunk(x))
    BY <1>1, BwdFacts
  <2>5. QED
    BY <2>1, <2>2, <2>3, <2>4 DEF One
<1>4. cf.microbatches \in Nat
  BY ConfFacts
<1>5. QED
  BY <1>1, <1>2, <1>3, <1>4

(* The list a forward pass reads from, at the first stage and at the others. *)
FirstReads(s, c, list) ==
  /\ list \in Seq(Tensors)
  /\ \A n \in 1 .. Len(list) : list[n] = NoTensor
  /\ Len(s.input_tensors[c]) >= Len(s.output_tensors[c]) => Len(list) >= Len(s.output_tensors[c]) + 1
OtherReads(cf, r, s, c, x, list) ==
  /\ list = s.input_tensors[c]
  /\ ListIs(list, StageOf(r, c) - 1, Base(cf, s, c), x + 1, FALSE, FALSE)
  /\ Base(cf, s, c) \in Nat /\ Base(cf, s, c) <= x

(* The input that a forward pass reads is there. *)
LEMMA ForwardReads ==
  ASSUME conf \in Configs, NEW r \in Ranks, NEW s \in LocalType(conf),
         NEW k \in 0 .. All(conf) - 1, NEW b \in Nat, NEW c, c = FwdChunk(k),
         \A d \in Chunks : Bwd(d, b) <= Fwd(d, k),
         Counts(s, k, b), Inputs(conf, r, s, k + 1, FALSE, FALSE)
  PROVE  /\ ForwardOutput(s, r, c) = Tensor(StageOf(r, c), Fwd(c, k))
         /\ FirstStage(r, c) => FirstReads(s, c, ForwardInputs(s, r, c))
         /\ ~FirstStage(r, c) => OtherReads(conf, r, s, c, Fwd(c, k), ForwardInputs(s, r, c))
<1>1. /\ k \in Nat /\ k \in Int /\ c \in Chunks
      /\ Fwd(c, k) \in Nat /\ Fwd(c, k) < conf.microbatches
      /\ Fwd(c, k + 1) = Fwd(c, k) + 1
  BY PassFacts
<1>2. s.drawn[c] = Fwd(c, k) /\ s.bwd[c] = Bwd(c, b)
  BY <1>1 DEF Counts
<1>3. s.input_tensors[c] \in Seq(Tensors) /\ s.output_tensors[c] \in Seq(Tensors)
  BY <1>1, TypeFacts
<1> DEFINE l == s.input_tensors[c]
           o == s.output_tensors[c]
           m == ForwardInputs(s, r, c)
<1>4. m = IF FirstStage(r, c) /\ Len(l) = Len(o) THEN Append(l, NoTensor) ELSE l
  BY DEF ForwardInputs
<1>5. ForwardOutput(s, r, c) =
        Tensor(StageOf(r, c),
               IF FirstStage(r, c) THEN s.drawn[c]
               ELSE IF Last(m).mb < 0 \/ (LastStage(r, c) /\ Last(m).mb # s.drawn[c]) THEN Mixed
               ELSE Last(m).mb)
  BY DEF ForwardOutput
<1> HIDE DEF l, o, m
<1>6. CASE FirstStage(r, c)
  <2>1. /\ \A n \in 1 .. Len(l) : l[n] = NoTensor
    BY <1>1, <1>6 DEF Inputs, InputsAre, InputList, l
  <2>2. l \in Seq(Tensors) /\ o \in Seq(Tensors) /\ NoTensor \in Tensors
    BY <1>3 DEF l, o, Tensors
  <2>3. m \in Seq(Tensors) /\ \A n \in 1 .. Len(m) : m[n] = NoTensor
    <3>1. CASE Len(l) = Len(o)
      <4>1. m = Append(l, NoTensor)
        BY <1>4, <1>6, <3>1
      <4>2. QED
        BY <2>1, <2>2, <4>1
    <3>2. CASE Len(l) # Len(o)
      BY <1>4, <2>1, <2>2, <3>2
    <3>3. QED
      BY <3>1, <3>2
  <2>4. Len(l) >= Len(o) => Len(m) >= Len(o) + 1
    <3>1. CASE Len(l) = Len(o)
      <4>1. m = Append(l, NoTensor)
        BY <1>4, <1>6, <3>1
      <4>2. Len(m) = Len(l) + 1
        BY <2>2, <4>1
      <4>3. QED
        BY <2>2, <3>1, <4>2
    <3>2. CASE Len(l) # Len(o)
      <4>1. m = l
        BY <1>4, <3>2
      <4>2. Len(l) \in Nat /\ Len(o) \in Nat
        BY <2>2
      <4>3. QED
        BY <3>2, <4>1, <4>2
    <3>3. QED
      BY <3>1, <3>2
  <2>5. ForwardOutput(s, r, c) = Tensor(StageOf(r, c), Fwd(c, k))
    BY <1>2, <1>5, <1>6
  <2>6. QED
    BY <1>6, <2>3, <2>4, <2>5 DEF l, o, m, FirstReads
<1>7. CASE ~FirstStage(r, c)
  <2>1. m = l
    BY <1>4, <1>7
  <2>2. ListIs(l, StageOf(r, c) - 1, Base(conf, s, c), Fwd(c, k) + 1, FALSE, FALSE)
    <3>1. InputsAre(conf, r, s, k + 1, FALSE, FALSE, c)
      BY <1>1 DEF Inputs
    <3>2. ListIs(l, StageOf(r, c) - 1, Base(conf, s, c), Fwd(c, k) + 1,
                 FALSE /\ c = FwdChunk(k + 1 - 1), FALSE)
      BY <1>1, <1>7, <3>1 DEF InputsAre, InputList, l
    <3>3. (FALSE /\ c = FwdChunk(k + 1 - 1)) = FALSE
      OBVIOUS
    <3>4. QED
      BY <3>2, <3>3
  <2>3. Base(conf, s, c) \in Nat /\ Base(conf, s, c) <= Fwd(c, k)
    <3>1. Bwd(c, b) \in Nat /\ Bwd(c, b) <= Fwd(c, k)
      BY <1>1, BwdFacts
    <3>2. QED
      BY <1>1, <1>2, <3>1 DEF Base
  <2>4. Last(l) = Tensor(StageOf(r, c) - 1, Fwd(c, k))
    <3>1. PICK u \in Int : u = Fwd(c, k) + 1
      BY <1>1
    <3>2. /\ Base(conf, s, c) \in Int /\ Base(conf, s, c) < u /\ u - 1 = Fwd(c, k)
      BY <1>1, <2>3, <3>1
    <3>3. ListIs(l, StageOf(r, c) - 1, Base(conf, s, c), u, FALSE, FALSE)
      BY <2>2, <3>1
    <3>4. l \in Seq(Tensors)
      BY <1>3 DEF l
    <3>5. Last(l) = Tensor(StageOf(r, c) - 1, u - 1)
      BY <3>2, <3>3, <3>4, ListLast
    <3>6. QED
      BY <3>2, <3>5
  <2>5. Last(l).mb = Fwd(c, k)
    BY <2>4 DEF Tensor
  <2>6. ForwardOutput(s, r, c) = Tensor(StageOf(r, c), Fwd(c, k))
    BY <1>1, <1>2, <1>5, <1>7, <2>1, <2>5
  <2>7. OtherReads(conf, r, s, c, Fwd(c, k), m)
    BY <2>1, <2>2, <2>3, Zenon DEF OtherReads, l
  <2>8. QED
    BY <1>7, <2>6, <2>7, Zenon DEF m
<1>8. QED
  BY <1>6, <1>7

(* What a forward step of iteration k does to the state s of a rank. *)
ForwardDoes(r, s, k, b, t) ==
  /\ t \in LocalType(conf)
  /\ t.phase = s.phase /\ t.k = s.k /\ t.output_tensor_grads = s.output_tensor_grads
  /\ t.input_tensor_grad = s.input_tensor_grad /\ t.bwd = s.bwd
  /\ t.no_sync = s.no_sync /\ t.synchronized = s.synchronized
  /\ t.grad_syncs = s.grad_syncs
  /\ t.param_syncs = [x \in Chunks |->
                        s.param_syncs[x] + (IF x \in ParamSyncChunks(r, k) THEN 1 ELSE 0)]
  /\ Counts(t, k + 1, b) /\ Outputs(conf, r, t) /\ Inputs(conf, r, t, k + 1, FALSE, FALSE)
  /\ OutputIs(r, t, k)

(* A forward step runs the next microbatch of its chunk and of no other. *)
LEMMA ForwardStepFacts ==
  ASSUME conf \in Configs, NEW r \in Ranks, NEW s \in LocalType(conf),
         NEW k \in 0 .. All(conf) - 1, NEW b \in Nat,
         \A d \in Chunks : Bwd(d, b) <= Fwd(d, k),
         Counts(s, k, b), Outputs(conf, r, s), Inputs(conf, r, s, k + 1, FALSE, FALSE),
         NEW t, t = ForwardStepHelper(s, r, k)
  PROVE  ForwardDoes(r, s, k, b, t)
<1> DEFINE c == FwdChunk(k)
           x == Fwd(c, k)
           fin == ForwardInputs(s, r, c)
           y == ForwardOutput(s, r, c)
           ins == IF ~conf.forwardOnly THEN fin ELSE Front(fin)
           outs == IF ~conf.forwardOnly THEN Append(s.output_tensors[c], y)
                   ELSE s.output_tensors[c]
           params == [z \in Chunks |->
                        s.param_syncs[z] + (IF z \in ParamSyncChunks(r, k) THEN 1 ELSE 0)]
           out == IF LastStage(r, c) THEN NoTensor ELSE y
<1>1. /\ k \in Nat /\ k \in Int /\ c \in Chunks /\ x \in Nat /\ x < conf.microbatches
      /\ x \in Int /\ 0 <= x /\ StageOf(r, c) \in Nat
  BY PassFacts, StageTensors
<1>2. y = Tensor(StageOf(r, c), x)
  BY ForwardReads
<1>3. y \in Tensors
  BY <1>1, <1>2, StageTensors
<1>4. ForwardWrote(s, t, c, ins, outs, out, params)
  <2>1. ForwardWrote(s, ForwardStepHelper(s, r, k), c, ins, outs, out, params)
    BY <1>1, ForwardFields, Zenon
  <2> HIDE DEF c, ins, outs, out, params
  <2>2. QED
    BY <2>1, Zenon
<1> HIDE DEF y
<1>5. /\ s.drawn[c] = x /\ s.bwd[c] \in Nat /\ s.bwd[c] <= x
      /\ Base(conf, s, c) = IF conf.forwardOnly THEN x ELSE s.bwd[c]
  <2>1. s.drawn[c] = x /\ s.bwd[c] = Bwd(c, b) /\ Bwd(c, b) <= x
    BY <1>1 DEF Counts
  <2>2. Bwd(c, b) \in Nat
    BY <1>1, BwdFacts
  <2>3. QED
    BY <2>1, <2>2 DEF Base
<1>6. /\ s.input_tensors[c] \in Seq(Tensors) /\ s.output_tensors[c] \in Seq(Tensors)
      /\ s.input_tensors \in [Chunks -> Seq(Tensors)]
      /\ s.output_tensors \in [Chunks -> Seq(Tensors)]
      /\ s.drawn \in [Chunks -> 0 .. conf.microbatches]
      /\ s.param_syncs \in [Chunks -> Nat]
  BY <1>1, TypeFacts
<1>7. OutputsAre(conf, r, s, c)
  BY <1>1 DEF Outputs
<1>8. ListIs(s.output_tensors[c], StageOf(r, c), Base(conf, s, c), x, FALSE, FALSE)
  BY <1>5, <1>7 DEF OutputsAre
<1>9. /\ FirstStage(r, c) => FirstReads(s, c, fin)
      /\ ~FirstStage(r, c) => OtherReads(conf, r, s, c, x, fin)
  BY ForwardReads
<1>10. FirstStage(r, c) => Len(s.input_tensors[c]) >= Len(s.output_tensors[c])
  BY <1>1 DEF Inputs, InputsAre, InputList
<1>11. /\ fin \in Seq(Tensors) /\ Len(fin) > 0 /\ Len(fin) \in Nat
       /\ Len(s.output_tensors[c]) \in Nat
  <2>1. CASE FirstStage(r, c)
    BY <1>6, <1>9, <1>10, <2>1 DEF FirstReads
  <2>2. CASE ~FirstStage(r, c)
    <3>0. ListIs(fin, StageOf(r, c) - 1, Base(conf, s, c), x + 1, FALSE, FALSE)
      BY <1>9, <2>2, Zenon DEF OtherReads
    <3> HIDE DEF fin, x
    <3>1. Len(fin) = (x + 1) - Base(conf, s, c)
      BY <3>0, Zenon DEF ListIs
    <3>2. QED
      BY <1>1, <1>5, <1>6, <1>9, <2>2, <3>1 DEF OtherReads
  <2>3. QED
    BY <2>1, <2>2
<1>12. ins \in Seq(Tensors)
  BY <1>11, FrontFacts
<1>13. outs \in Seq(Tensors)
  BY <1>3, <1>6
<1>14. conf.forwardOnly \in BOOLEAN /\ conf.microbatches \in Nat
  BY ConfFacts
<1> DEFINE base2 == IF conf.forwardOnly THEN x + 1 ELSE s.bwd[c]
<1>15. ListIs(outs, StageOf(r, c), base2, x + 1, FALSE, FALSE)
  <2>1. CASE conf.forwardOnly
    <3>1. Len(s.output_tensors[c]) = x - x
      BY <1>5, <1>8, <2>1 DEF ListIs
    <3>2. Len(outs) = (x + 1) - (x + 1) /\ \A n \in 1 .. Len(outs) : FALSE
      BY <1>1, <2>1, <3>1
    <3>3. QED
      BY <2>1, <3>2 DEF ListIs
  <2>2. CASE ~conf.forwardOnly
    <3>1. ListIs(s.output_tensors[c], StageOf(r, c), s.bwd[c], x, FALSE, FALSE)
      BY <1>5, <1>8, <2>2
    <3>2. s.bwd[c] \in Int
      BY <1>5
    <3>3. ListIs(Append(s.output_tensors[c], y), StageOf(r, c), s.bwd[c], x + 1, FALSE, FALSE)
      BY <1>1, <1>2, <1>3, <1>6, <3>1, <3>2, AddedList
    <3>4. QED
      BY <2>2, <3>3
  <2>3. QED
    BY <2>1, <2>2
<1>16. ~FirstStage(r, c) => ListIs(ins, StageOf(r, c) - 1, base2, x + 1, FALSE, FALSE)
  <2> SUFFICES ASSUME ~FirstStage(r, c)
               PROVE  ListIs(ins, StageOf(r, c) - 1, base2, x + 1, FALSE, FALSE)
    OBVIOUS
  <2>1. CASE conf.forwardOnly
    <3>1. Len(fin) = x + 1 - x
      BY <1>5, <1>9, <2>1 DEF OtherReads, ListIs
    <3>2. Len(Front(fin)) = Len(fin) - 1
      BY <1>11, FrontFacts
    <3>3. Len(ins) = (x + 1) - (x + 1) /\ \A n \in 1 .. Len(ins) : FALSE
      BY <1>1, <2>1, <3>1, <3>2
    <3>4. QED
      BY <2>1, <3>3 DEF ListIs
  <2>2. CASE ~conf.forwardOnly
    BY <1>5, <1>9, <2>2 DEF OtherReads
  <2>3. QED
    BY <2>1, <2>2
<1>17. FirstStage(r, c) => /\ \A n \in 1 .. Len(ins) : ins[n] = NoTensor
                           /\ Len(ins) >= Len(outs)
  <2> SUFFICES ASSUME FirstStage(r, c)
               PROVE  (\A n \in 1 .. Len(ins) : ins[n] = NoTensor) /\ Len(ins) >= Len(outs)
    OBVIOUS
  <2>0. Len(fin) >= Len(s.output_tensors[c]) + 1 /\ \A n \in 1 .. Len(fin) : fin[n] = NoTensor
    BY <1>9, <1>10 DEF FirstReads
  <2>1. CASE conf.forwardOnly
    <3>1. /\ Len(Front(fin)) = Len(fin) - 1
          /\ \A n \in 1 .. Len(fin) - 1 : Front(fin)[n] = fin[n]
      BY <1>11, FrontFacts
    <3>2. ins = Front(fin) /\ outs = s.output_tensors[c]
      BY <2>1
    <3> HIDE DEF ins, outs
    <3>3. QED
      BY <1>11, <2>0, <3>1, <3>2
  <2>2. CASE ~conf.forwardOnly
    <3>1. Len(Append(s.output_tensors[c], y)) = Len(s.output_tensors[c]) + 1
      BY <1>6
    <3>2. ins = fin /\ outs = Append(s.output_tensors[c], y)
      BY <2>2
    <3> HIDE DEF ins, outs
    <3>3. QED
      BY <1>11, <2>0, <3>1, <3>2
  <2>3. QED
    BY <2>1, <2>2
<1> HIDE DEF ins, outs, params, out, fin
<1> USE DEF ForwardWrote
<1>18. t \in LocalType(conf)
  <2>1. [s.input_tensors EXCEPT ![c] = ins] \in [Chunks -> Seq(Tensors)]
    BY <1>1, <1>6, <1>12
  <2>2. [s.output_tensors EXCEPT ![c] = outs] \in [Chunks -> Seq(Tensors)]
    BY <1>1, <1>6, <1>13
  <2>3. [s.drawn EXCEPT ![c] = s.drawn[c] + 1] \in [Chunks -> 0 .. conf.microbatches]
    <3>1. s.drawn[c] + 1 \in 0 .. conf.microbatches
      BY <1>1, <1>5, <1>14
    <3>2. QED
      BY <1>1, <1>6, <3>1
  <2>4. params \in [Chunks -> Nat]
    BY <1>6 DEF params
  <2>5. out \in Tensors
    BY <1>3 DEF out, Tensors
  <2>6. QED
    BY <1>4, <2>1, <2>2, <2>3, <2>4, <2>5 DEF LocalType
<1>19. ASSUME NEW d \in Chunks, d # c
       PROVE  /\ t.input_tensors[d] = s.input_tensors[d] /\ t.output_tensors[d] = s.output_tensors[d]
              /\ t.drawn[d] = s.drawn[d] /\ t.bwd[d] = s.bwd[d]
  BY <1>1, <1>4, <1>6, <1>19
<1>20. /\ t.input_tensors[c] = ins /\ t.output_tensors[c] = outs
       /\ t.drawn[c] = x + 1 /\ t.bwd[c] = s.bwd[c]
  BY <1>1, <1>4, <1>5, <1>6
<1>21. ASSUME NEW d \in Chunks
       PROVE  /\ Fwd(d, k + 1) = IF d = c THEN Fwd(d, k) + 1 ELSE Fwd(d, k)
              /\ s.drawn[d] = Fwd(d, k) /\ s.bwd[d] = Bwd(d, b)
  BY PassFacts DEF Counts
<1>22. Counts(t, k + 1, b)
  <2> SUFFICES ASSUME NEW d \in Chunks PROVE t.drawn[d] = Fwd(d, k + 1) /\ t.bwd[d] = Bwd(d, b)
    BY DEF Counts
  <2>1. CASE d = c
    BY <1>20, <1>21, <2>1
  <2>2. CASE d # c
    BY <1>19, <1>21, <2>2
  <2>3. QED
    BY <2>1, <2>2
<1>23. Base(conf, t, c) = base2 /\ \A d \in Chunks : d # c => Base(conf, t, d) = Base(conf, s, d)
  BY <1>19, <1>20 DEF Base
<1> HIDE DEF base2
<1>24. Outputs(conf, r, t)
  <2> SUFFICES ASSUME NEW d \in Chunks PROVE OutputsAre(conf, r, t, d)
    BY DEF Outputs
  <2>1. CASE d = c
    BY <1>15, <1>20, <1>23, <2>1 DEF OutputsAre
  <2>2. CASE d # c
    <3>1. OutputsAre(conf, r, s, d)
      BY DEF Outputs
    <3>2. QED
      BY <1>19, <1>23, <2>2, <3>1 DEF OutputsAre
  <2>3. QED
    BY <2>1, <2>2
<1>25. Inputs(conf, r, t, k + 1, FALSE, FALSE)
  <2> SUFFICES ASSUME NEW d \in Chunks PROVE InputsAre(conf, r, t, k + 1, FALSE, FALSE, d)
    BY DEF Inputs
  <2>1. CASE d = c /\ FirstStage(r, c)
    BY <1>17, <1>20, <2>1 DEF InputsAre, InputList
  <2>2. CASE d = c /\ ~FirstStage(r, c)
    <3>1. Fwd(c, k + 1) = x + 1
      BY <1>1, <1>21
    <3>2. (FALSE /\ c = FwdChunk(k + 1 - 1)) = FALSE
      OBVIOUS
    <3>3. ListIs(ins, StageOf(r, c) - 1, Base(conf, t, c), Fwd(c, k + 1),
                 FALSE /\ c = FwdChunk(k + 1 - 1), FALSE)
      BY <1>16, <1>23, <2>2, <3>1, <3>2
    <3>4. QED
      BY <1>20, <2>2, <3>3 DEF InputsAre, InputList
  <2>3. CASE d # c
    <3>1. InputsAre(conf, r, s, k + 1, FALSE, FALSE, d)
      BY DEF Inputs
    <3>2. QED
      BY <1>19, <1>23, <2>3, <3>1 DEF InputsAre, InputList
  <2>4. QED
    BY <2>1, <2>2, <2>3
<1>26. OutputIs(r, t, k)
  <2>1. t.output_tensor = IF LastStage(r, c) THEN NoTensor ELSE y
    BY <1>4, Zenon DEF out
  <2>2. QED
    BY <1>2, <2>1, Zenon DEF OutputIs, x
<1>27. QED
  BY <1>4, <1>18, <1>22, <1>24, <1>25, <1>26, Zenon DEF params, ForwardDoes

(* What a backward step writes. *)
SyncedLists(s, bwd, hooks, late) ==
  [d \in Chunks |->
     IF d \in late
     THEN Append(IF d \in hooks THEN Append(s.grad_syncs[d], bwd[d]) ELSE s.grad_syncs[d], bwd[d])
     ELSE IF d \in hooks THEN Append(s.grad_syncs[d], bwd[d]) ELSE s.grad_syncs[d]]

BackwardWrote(s, t, c, grads, out, bwd, syncs, early, late) ==
  /\ t = [s EXCEPT !.input_tensors = [s.input_tensors EXCEPT ![c] = Tail(s.input_tensors[c])],
                   !.output_tensors = [s.output_tensors EXCEPT ![c] = Tail(s.output_tensors[c])],
                   !.output_tensor_grads = [s.output_tensor_grads EXCEPT ![c] = Tail(grads)],
                   !.input_tensor_grad = out, !.bwd = bwd, !.grad_syncs = syncs,
                   !.synchronized = (s.synchronized \cup early) \cup late, !.no_sync = TRUE]
  /\ t.phase = s.phase /\ t.k = s.k /\ t.output_tensor = s.output_tensor
  /\ t.drawn = s.drawn /\ t.param_syncs = s.param_syncs
  /\ t.input_tensors = [s.input_tensors EXCEPT ![c] = Tail(s.input_tensors[c])]
  /\ t.output_tensors = [s.output_tensors EXCEPT ![c] = Tail(s.output_tensors[c])]
  /\ t.output_tensor_grads = [s.output_tensor_grads EXCEPT ![c] = Tail(grads)]
  /\ t.input_tensor_grad = out
  /\ t.bwd = bwd
  /\ t.grad_syncs = syncs
  /\ t.synchronized = (s.synchronized \cup early) \cup late
  /\ t.no_sync = TRUE

(* The chunk whose hooks are let run. *)
Hooks(s, k) == IF s.no_sync /\ DefaultSyncChunks(k) = {} THEN {} ELSE {BwdChunk(k)}

(* It writes nothing else. *)
LEMMA BackwardFields ==
  ASSUME NEW cf \in Configs, NEW r \in Ranks, NEW s \in LocalType(cf), NEW k \in Int
  PROVE  BackwardWrote(s, BackwardStepHelper(s, r, k), BwdChunk(k),
           BackwardGrads(s, r, BwdChunk(k)), BackwardOutput(s, r, BwdChunk(k)),
           [s.bwd EXCEPT ![BwdChunk(k)] = s.bwd[BwdChunk(k)] + 1],
           SyncedLists(s, [s.bwd EXCEPT ![BwdChunk(k)] = s.bwd[BwdChunk(k)] + 1],
                       Hooks(s, k), GradSyncChunks(r, k)),
           DefaultSyncChunks(k), GradSyncChunks(r, k))
<1> DEFINE c == ChunkId(k, FALSE)
           t == BackwardStepHelper(s, r, k)
           early == DefaultSyncChunks(k)
           hooks == IF s.no_sync /\ early = {} THEN {} ELSE {c}
           late == GradSyncChunks(r, k)
           grads == BackwardGrads(s, r, c)
           out == BackwardOutput(s, r, c)
           ins2 == [s.input_tensors EXCEPT ![c] = Tail(s.input_tensors[c])]
           outs2 == [s.output_tensors EXCEPT ![c] = Tail(s.output_tensors[c])]
           grads2 == [s.output_tensor_grads EXCEPT ![c] = Tail(grads)]
           bwd2 == [s.bwd EXCEPT ![c] = s.bwd[c] + 1]
           done == [s EXCEPT !.input_tensors = ins2, !.output_tensors = outs2,
                             !.output_tensor_grads = grads2, !.input_tensor_grad = out,
                             !.bwd = bwd2]
           synced == [done EXCEPT !.grad_syncs = Synced(done, hooks)]
           last == [synced EXCEPT !.grad_syncs = Synced(synced, late),
                                  !.synchronized = (synced.synchronized \cup early) \cup late,
                                  !.no_sync = TRUE]
           syncs == SyncedLists(s, bwd2, hooks, late)
<1>0. NoSyncAfterBackward(s, early) = TRUE
  BY DEF NoSyncAfterBackward
<1>2. t = last
  <2> DEFINE free == NoSyncAfterBackward(s, early)
             last0 == [synced EXCEPT !.grad_syncs = Synced(synced, late),
                                     !.synchronized = (synced.synchronized \cup early) \cup late,
                                     !.no_sync = free]
  <2>1. t = last0
    BY Zenon DEF BackwardStepHelper
  <2>2. free = TRUE
    BY <1>0
  <2> HIDE DEF free, synced, late, early, t
  <2>3. QED
    BY <2>1, <2>2, Zenon
<1> HIDE DEF c, early, hooks, late, grads, out, ins2, outs2, grads2, bwd2, t
<1>3. /\ done.phase = s.phase /\ done.k = s.k /\ done.output_tensor = s.output_tensor
      /\ done.drawn = s.drawn /\ done.param_syncs = s.param_syncs
      /\ done.input_tensors = ins2 /\ done.output_tensors = outs2
      /\ done.output_tensor_grads = grads2 /\ done.input_tensor_grad = out
      /\ done.bwd = bwd2 /\ done.grad_syncs = s.grad_syncs
      /\ done.synchronized = s.synchronized /\ done.no_sync = s.no_sync
  BY DEF LocalType
<1> DEFINE syncs1 == Synced(done, hooks)
<1>4. \A d \in Chunks : syncs1[d] = IF d \in hooks THEN Append(s.grad_syncs[d], bwd2[d])
                                    ELSE s.grad_syncs[d]
  <2> HIDE DEF done
  <2>1. QED
    BY <1>3 DEF Synced
<1> HIDE DEF syncs1
<1>5. /\ synced = [s EXCEPT !.input_tensors = ins2, !.output_tensors = outs2,
                            !.output_tensor_grads = grads2, !.input_tensor_grad = out,
                            !.bwd = bwd2, !.grad_syncs = syncs1]
      /\ synced.bwd = bwd2 /\ synced.grad_syncs = syncs1
      /\ synced.synchronized = s.synchronized
  <2>1. synced = [done EXCEPT !.grad_syncs = syncs1]
    BY DEF syncs1
  <2>2. QED
    BY <2>1 DEF LocalType
<1>6. Synced(synced, late) = syncs
  <2> HIDE DEF synced
  <2>1. Synced(synced, late) =
          [d \in Chunks |-> IF d \in late THEN Append(syncs1[d], bwd2[d]) ELSE syncs1[d]]
    BY <1>5 DEF Synced
  <2>2. QED
    BY <1>4, <2>1 DEF SyncedLists
<1> HIDE DEF syncs
<1>7. t = [s EXCEPT !.input_tensors = ins2, !.output_tensors = outs2,
                    !.output_tensor_grads = grads2, !.input_tensor_grad = out,
                    !.bwd = bwd2, !.grad_syncs = syncs,
                    !.synchronized = (s.synchronized \cup early) \cup late, !.no_sync = TRUE]
  <2> DEFINE u == (s.synchronized \cup early) \cup late
  <2>1. t = [synced EXCEPT !.grad_syncs = syncs, !.synchronized = u, !.no_sync = TRUE]
    BY <1>2, <1>5, <1>6
  <2> HIDE DEF u
  <2>2. t = [s EXCEPT !.input_tensors = ins2, !.output_tensors = outs2,
                    !.output_tensor_grads = grads2, !.input_tensor_grad = out,
                    !.bwd = bwd2, !.grad_syncs = syncs,
                    !.synchronized = u, !.no_sync = TRUE]
    <3> HIDE DEF synced
    <3>1. QED
      BY <1>5, <2>1 DEF LocalType
  <2>3. QED
    BY <2>2 DEF u
<1> HIDE DEF synced, done
<1>8. /\ t.phase = s.phase /\ t.k = s.k /\ t.output_tensor = s.output_tensor
      /\ t.drawn = s.drawn /\ t.param_syncs = s.param_syncs
      /\ t.input_tensors = ins2 /\ t.output_tensors = outs2
      /\ t.output_tensor_grads = grads2
      /\ t.input_tensor_grad = out
      /\ t.bwd = bwd2
      /\ t.grad_syncs = syncs
      /\ t.synchronized = (s.synchronized \cup early) \cup late
      /\ t.no_sync = TRUE
  BY <1>7 DEF LocalType
<1>9. BackwardWrote(s, t, c, grads, out, bwd2, syncs, early, late)
  BY <1>7, <1>8, Zenon DEF BackwardWrote, ins2, outs2, grads2
<1>10. QED
  BY <1>9, Zenon DEF early, hooks, late, grads, out, bwd2, t, c, syncs, Hooks, BwdChunk

(* The oldest input leaves a list: none at the first stage. *)
LEMMA InputTail ==
  ASSUME NEW S, NEW r \in Ranks, NEW c \in Chunks, NEW l \in Seq(S), NEW outs \in Nat, outs > 0,
         NEW base \in Int, NEW upto \in Int, base < upto, NEW hole, NEW over,
         InputList(r, c, l, outs, base, upto, hole, over)
  PROVE  /\ l # <<>> /\ (Head(l) = NoTensor <=> FirstStage(r, c))
         /\ InputList(r, c, Tail(l), outs - 1, base + 1, upto, hole, over)
<1>1. CASE FirstStage(r, c)
  <2>0. (\A n \in 1 .. Len(l) : l[n] = NoTensor) /\ Len(l) >= outs
    BY <1>1 DEF InputList
  <2>1. Len(l) \in Nat /\ Len(l) > 0 /\ l # <<>> /\ Head(l) = l[1]
    BY <2>0
  <2>2. Head(l) = NoTensor
    BY <2>0, <2>1
  <2>3. Len(Tail(l)) = Len(l) - 1 /\ \A n \in 1 .. Len(l) - 1 : Tail(l)[n] = l[n + 1]
    BY <2>1
  <2>4. \A n \in 1 .. Len(Tail(l)) : Tail(l)[n] = NoTensor
    <3> SUFFICES ASSUME NEW n \in 1 .. Len(Tail(l)) PROVE Tail(l)[n] = NoTensor
      OBVIOUS
    <3>1. Tail(l)[n] = l[n + 1] /\ n + 1 \in 1 .. Len(l)
      BY <2>1, <2>3
    <3>2. QED
      BY <2>0, <3>1
  <2>5. Len(Tail(l)) >= outs - 1
    BY <2>0, <2>1, <2>3
  <2>6. QED
    BY <1>1, <2>1, <2>2, <2>4, <2>5 DEF InputList
<1>2. CASE ~FirstStage(r, c)
  <2>1. ListIs(l, StageOf(r, c) - 1, base, upto, hole, over)
    BY <1>2 DEF InputList
  <2>2. StageOf(r, c) - 1 \in Nat
    <3>1. PICK cf \in Configs : TRUE
      BY InterleavedAssumption
    <3>2. cf.microbatches \in Nat \ {0}
      BY ConfFacts
    <3>3. QED
      BY <1>2, <3>2, StageTensors
  <2>3. /\ l # <<>> /\ Head(l) # NoTensor
        /\ ListIs(Tail(l), StageOf(r, c) - 1, base + 1, upto, hole, over)
    BY <2>1, <2>2, ListTail
  <2>4. InputList(r, c, Tail(l), outs - 1, base + 1, upto, hole, over)
    BY <1>2, <2>3, Zenon DEF InputList
  <2>5. QED
    BY <1>2, <2>3, <2>4, Zenon
<1>3. QED
  BY <1>1, <1>2

(* The oldest gradient leaves a list: the last stage makes its own. *)
LEMMA GradTail ==
  ASSUME NEW r \in Ranks, NEW c \in Chunks, NEW l \in Seq(Tensors),
         NEW base \in Int, GradList(r, c, l, base, base + 1, FALSE, FALSE),
         NEW m, m = IF LastStage(r, c) /\ l = <<>> THEN <<NoTensor>> ELSE l
  PROVE  /\ m \in Seq(Tensors) /\ m # <<>>
         /\ Head(m).mb = base \/ (Head(m) = NoTensor /\ LastStage(r, c))
         /\ GradList(r, c, Tail(m), base + 1, base + 1, FALSE, FALSE)
<1>0. NoTensor \in Tensors
  BY DEF Tensors
<1>1. CASE LastStage(r, c)
  <2>1. \A n \in 1 .. Len(l) : l[n] = NoTensor
    BY <1>1 DEF GradList
  <2>2. m \in Seq(Tensors) /\ m # <<>> /\ \A n \in 1 .. Len(m) : m[n] = NoTensor
    BY <1>0, <1>1, <2>1
  <2>3. Len(m) \in Nat /\ Len(m) > 0 /\ Head(m) = m[1]
    BY <2>2
  <2>4. Head(m) = NoTensor
    BY <2>2, <2>3
  <2>5. Len(Tail(m)) = Len(m) - 1 /\ \A n \in 1 .. Len(m) - 1 : Tail(m)[n] = m[n + 1]
    BY <2>2, <2>3
  <2>6. \A n \in 1 .. Len(Tail(m)) : Tail(m)[n] = NoTensor
    <3> SUFFICES ASSUME NEW n \in 1 .. Len(Tail(m)) PROVE Tail(m)[n] = NoTensor
      OBVIOUS
    <3>1. Tail(m)[n] = m[n + 1] /\ n + 1 \in 1 .. Len(m)
      BY <2>3, <2>5
    <3>2. QED
      BY <2>2, <3>1
  <2>7. QED
    BY <1>1, <2>2, <2>4, <2>6 DEF GradList
<1>2. CASE ~LastStage(r, c)
  <2>1. ListIs(l, StageOf(r, c) + 1, base, base + 1, FALSE, FALSE) /\ m = l
    BY <1>2 DEF GradList
  <2>2. PICK u \in Int : u = base + 1
    OBVIOUS
  <2>3. base < u /\ ListIs(l, StageOf(r, c) + 1, base, u, FALSE, FALSE)
    <3>1. base < u
      BY <2>2
    <3>2. ListIs(l, StageOf(r, c) + 1, base, u, FALSE, FALSE)
      BY <2>1, <2>2, Zenon
    <3>3. QED
      BY <3>1, <3>2, Zenon
  <2>4. /\ l # <<>> /\ Head(l) = Tensor(StageOf(r, c) + 1, base)
        /\ ListIs(Tail(l), StageOf(r, c) + 1, base + 1, u, FALSE, FALSE)
    BY <2>3, ListTail
  <2>5. Head(l).mb = base
    BY <2>4 DEF Tensor
  <2>6. GradList(r, c, Tail(m), base + 1, base + 1, FALSE, FALSE)
    BY <1>2, <2>1, <2>2, <2>4 DEF GradList
  <2>7. QED
    BY <2>1, <2>4, <2>5, <2>6
<1>3. QED
  BY <1>1, <1>2

(* What a backward pass of chunk c finds and leaves. *)
BackwardRead(r, s, k, f, fa, hf, over, c) ==
  /\ BackwardGrads(s, r, c) \in Seq(Tensors) /\ BackwardGrads(s, r, c) # <<>>
  /\ s.input_tensors[c] # <<>> /\ s.output_tensors[c] # <<>>
  /\ BackwardOutput(s, r, c) = IF FirstStage(r, c) THEN NoTensor
                                      ELSE Tensor(StageOf(r, c), Bwd(c, k))
  /\ ListIs(Tail(s.output_tensors[c]), StageOf(r, c), Bwd(c, k) + 1, Fwd(c, f), FALSE, FALSE)
  /\ InputList(r, c, Tail(s.input_tensors[c]), Len(s.output_tensors[c]) - 1,
               Bwd(c, k) + 1, Fwd(c, fa), hf /\ c = FwdChunk(fa - 1), over)
  /\ GradList(r, c, Tail(BackwardGrads(s, r, c)), Bwd(c, k) + 1, Bwd(c, k) + 1, FALSE, FALSE)

(* What a backward pass returns: nothing at the first stage, elsewhere the   *)
(* gradient of its microbatch.                                               *)
LEMMA BackwardReads ==
  ASSUME conf \in Configs, ~conf.forwardOnly, NEW r \in Ranks, NEW s \in LocalType(conf),
         NEW k \in 0 .. All(conf) - 1, NEW f \in Nat, NEW fa \in Nat, f <= fa,
         NEW hf, NEW over,
         \A d \in Chunks : Bwd(d, k + 1) <= Fwd(d, f),
         Counts(s, f, k), Outputs(conf, r, s), Inputs(conf, r, s, fa, hf, over),
         Grads(r, s, k + 1, FALSE, FALSE),
         NEW c, c = BwdChunk(k)
  PROVE  BackwardRead(r, s, k, f, fa, hf, over, c)
<1> DEFINE x == Bwd(c, k)
           y == Fwd(c, f)
           z == Fwd(c, fa)
           l == s.input_tensors[c]
           o == s.output_tensors[c]
           g == s.output_tensor_grads[c]
           g2 == BackwardGrads(s, r, c)
           h == hf /\ c = FwdChunk(fa - 1)
           out == BackwardOutput(s, r, c)
<1>1. /\ c \in Chunks /\ x \in Nat /\ x < conf.microbatches /\ Bwd(c, k + 1) = x + 1
      /\ x \in Int /\ StageOf(r, c) \in Nat
  BY PassFacts, StageTensors
<1>2. y \in Nat /\ z \in Nat /\ x < y /\ x < z /\ y <= z /\ y \in Int /\ z \in Int
  <2>1. y \in Nat /\ z \in Nat /\ y <= z
    BY <1>1, FwdFacts, FwdGrows
  <2>2. x + 1 <= y
    BY <1>1
  <2>3. QED
    BY <1>1, <2>1, <2>2
<1>3. s.bwd[c] = x /\ Base(conf, s, c) = x /\ s.drawn[c] = y
  BY <1>1 DEF Counts, Base
<1>4. l \in Seq(Tensors) /\ o \in Seq(Tensors) /\ g \in Seq(Tensors)
  BY <1>1, TypeFacts
<1>5. ListIs(o, StageOf(r, c), x, y, FALSE, FALSE)
  <2>1. OutputsAre(conf, r, s, c)
    BY <1>1 DEF Outputs
  <2>2. QED
    BY <1>3, <2>1, Zenon DEF OutputsAre
<1>6. InputList(r, c, l, Len(o), x, z, h, over)
  <2>1. InputsAre(conf, r, s, fa, hf, over, c)
    BY <1>1 DEF Inputs
  <2>2. QED
    BY <1>3, <2>1, Zenon DEF InputsAre
<1>7. GradList(r, c, g, x, x + 1, FALSE, FALSE)
  <2>1. GradsAre(r, s, k + 1, FALSE, FALSE, c)
    BY <1>1 DEF Grads
  <2>2. GradList(r, c, g, s.bwd[c], Bwd(c, k + 1), FALSE /\ c = BwdChunk((k + 1) - 1), FALSE)
    BY <2>1, Zenon DEF GradsAre
  <2>3. (FALSE /\ c = BwdChunk((k + 1) - 1)) = FALSE
    OBVIOUS
  <2>4. QED
    BY <1>1, <1>3, <2>2, <2>3
<1>8. g2 = IF LastStage(r, c) /\ g = <<>> THEN <<NoTensor>> ELSE g
  BY DEF BackwardGrads
<1>9. out = IF Head(l) = NoTensor THEN NoTensor
            ELSE Tensor(StageOf(r, c),
                        IF Head(g2).mb = Head(o).mb \/ (Head(g2) = NoTensor /\ LastStage(r, c))
                        THEN Head(o).mb ELSE Mixed)
  BY Zenon DEF BackwardOutput
<1> HIDE DEF l, o, g, g2, h, out, x, y, z
<1>10. /\ o # <<>> /\ Head(o) = Tensor(StageOf(r, c), x)
       /\ ListIs(Tail(o), StageOf(r, c), x + 1, y, FALSE, FALSE)
  BY <1>1, <1>2, <1>4, <1>5, ListTail
<1>11. Len(o) \in Nat /\ Len(o) > 0
  BY <1>4, <1>10
<1>12. Head(o).mb = x
  BY <1>10 DEF Tensor
<1>13. /\ l # <<>> /\ (Head(l) = NoTensor <=> FirstStage(r, c))
       /\ InputList(r, c, Tail(l), Len(o) - 1, x + 1, z, h, over)
  BY <1>1, <1>2, <1>4, <1>6, <1>11, InputTail
<1>14. /\ g2 \in Seq(Tensors) /\ g2 # <<>>
       /\ Head(g2).mb = x \/ (Head(g2) = NoTensor /\ LastStage(r, c))
       /\ GradList(r, c, Tail(g2), x + 1, x + 1, FALSE, FALSE)
  BY <1>1, <1>4, <1>7, <1>8, GradTail
<1>15. out = IF FirstStage(r, c) THEN NoTensor ELSE Tensor(StageOf(r, c), x)
  BY <1>9, <1>12, <1>13, <1>14
<1>16. QED
  BY <1>10, <1>13, <1>14, <1>15, Zenon DEF l, o, g, g2, h, out, x, y, z, BackwardRead

(* Iteration y completes the gradients of its chunk or of none. *)
LEMMA HandOver ==
  ASSUME conf \in Configs, NEW y \in 0 .. All(conf) - 1, NEW d \in Chunks
  PROVE  /\ Bwd(d, y + 1) = conf.microbatches
              <=> Bwd(d, y) = conf.microbatches \/ (d = BwdChunk(y) /\ IsLastMicrobatch(y))
         /\ d = BwdChunk(y) /\ IsLastMicrobatch(y) => Bwd(d, y) # conf.microbatches
<1>1. /\ y \in Nat /\ Bwd(d, y) \in Nat
      /\ Bwd(d, y + 1) = IF d = BwdChunk(y) THEN Bwd(d, y) + 1 ELSE Bwd(d, y)
      /\ Bwd(d, y + 1) <= conf.microbatches
  BY PassFacts
<1>2. IsLastMicrobatch(y) <=> Bwd(BwdChunk(y), y) = conf.microbatches - 1
  BY <1>1, LastIs
<1>3. conf.microbatches \in Nat
  BY ConfFacts
<1> HIDE DEF Bwd, BwdChunk, IsLastMicrobatch
<1>4. CASE d = BwdChunk(y)
  BY <1>1, <1>2, <1>3, <1>4
<1>5. CASE d # BwdChunk(y)
  BY <1>1, <1>3, <1>5
<1>6. QED
  BY <1>4, <1>5

(* Synchronization after one more backward pass. *)
LEMMA SyncStep ==
  ASSUME conf \in Configs, NEW r \in Ranks, NEW s, NEW t, NEW k \in 0 .. All(conf) - 1,
         GradsHanded(conf, r, s, k),
         \A d \in Chunks : t.bwd[d] = Bwd(d, k + 1),
         t.no_sync = TRUE,
         t.synchronized = (s.synchronized \cup DefaultSyncChunks(k)) \cup GradSyncChunks(r, k),
         t.grad_syncs = SyncedLists(s, t.bwd, Hooks(s, k), GradSyncChunks(r, k))
  PROVE  GradsHanded(conf, r, t, k + 1)
<1> DEFINE late == GradSyncChunks(r, k)
           hooks == Hooks(s, k)
           m == conf.microbatches
<1>1. /\ k \in Nat /\ r \in Nat /\ k \in Int /\ conf.gradSyncFunc \in BOOLEAN
      /\ All(conf) \in Nat /\ m \in Nat
  BY PassFacts, ConfFacts, AllSize DEF Ranks
<1>2. s.no_sync
  BY DEF GradsHanded
<1>3. ASSUME NEW d \in Chunks, NEW y \in 0 .. k, GradIters(conf, r, k + 1) = y + 1,
             GradIters(conf, r, k) = y,
             d \in late \/ d \in hooks <=> d = BwdChunk(y) /\ IsLastMicrobatch(y),
             ~(d \in late /\ d \in hooks),
             conf.gradSyncFunc => (d \in late <=> d = BwdChunk(y) /\ IsLastMicrobatch(y)),
             conf.gradSyncFunc => DefaultSyncChunks(k) = {}
      PROVE  /\ t.grad_syncs[d] = IF Handed(conf, r, k + 1, d) THEN <<m>> ELSE <<>>
             /\ conf.gradSyncFunc => (d \in t.synchronized <=> Handed(conf, r, k + 1, d))
  <2>1. y \in 0 .. All(conf) - 1 /\ y \in Nat /\ y + 1 \in Nat /\ y + 1 <= k + 1 /\ k + 1 \in Nat
    BY <1>1
  <2>2. /\ Handed(conf, r, k + 1, d) <=> Handed(conf, r, k, d) \/ (d = BwdChunk(y) /\ IsLastMicrobatch(y))
        /\ d = BwdChunk(y) /\ IsLastMicrobatch(y) => ~Handed(conf, r, k, d)
    BY <1>3, <2>1, HandOver DEF Handed
  <2>3. d = BwdChunk(y) /\ IsLastMicrobatch(y) => t.bwd[d] = m
    <3> SUFFICES ASSUME d = BwdChunk(y) /\ IsLastMicrobatch(y) PROVE t.bwd[d] = m
      OBVIOUS
    <3>1. Bwd(d, y + 1) = m
      BY <2>1, HandOver
    <3>2. Bwd(d, y + 1) <= Bwd(d, k + 1) /\ Bwd(d, k + 1) \in Nat
      BY <2>1, BwdFacts
    <3>3. Bwd(d, k + 1) <= m
      BY PassFacts
    <3>4. QED
      BY <1>1, <3>1, <3>2, <3>3
  <2>4. /\ s.grad_syncs[d] = IF Handed(conf, r, k, d) THEN <<m>> ELSE <<>>
        /\ conf.gradSyncFunc => (d \in s.synchronized <=> Handed(conf, r, k, d))
    BY DEF GradsHanded
  <2>5. t.grad_syncs[d] = IF d \in late
                          THEN Append(IF d \in hooks THEN Append(s.grad_syncs[d], t.bwd[d])
                                      ELSE s.grad_syncs[d], t.bwd[d])
                          ELSE IF d \in hooks THEN Append(s.grad_syncs[d], t.bwd[d])
                          ELSE s.grad_syncs[d]
    <3> HIDE DEF late, hooks
    <3>1. t.grad_syncs = SyncedLists(s, t.bwd, hooks, late)
      BY DEF late, hooks
    <3>2. QED
      BY <3>1 DEF SyncedLists
  <2> HIDE DEF late, hooks, m
  <2>6. t.grad_syncs[d] = IF Handed(conf, r, k + 1, d) THEN <<m>> ELSE <<>>
    <3>1. CASE d = BwdChunk(y) /\ IsLastMicrobatch(y)
      <4>1. t.grad_syncs[d] = Append(s.grad_syncs[d], t.bwd[d])
        BY <1>3, <2>5, <3>1
      <4>2. s.grad_syncs[d] = <<>> /\ t.bwd[d] = m
        BY <2>2, <2>3, <2>4, <3>1
      <4>3. t.grad_syncs[d] = <<m>>
        BY <4>1, <4>2
      <4>4. QED
        BY <2>2, <3>1, <4>3
    <3>2. CASE ~(d = BwdChunk(y) /\ IsLastMicrobatch(y))
      <4>1. t.grad_syncs[d] = s.grad_syncs[d]
        BY <1>3, <2>5, <3>2
      <4>2. QED
        BY <2>2, <2>4, <3>2, <4>1
    <3>3. QED
      BY <3>1, <3>2
  <2>7. conf.gradSyncFunc => (d \in t.synchronized <=> Handed(conf, r, k + 1, d))
    BY <1>3, <2>2, <2>4 DEF late
  <2>8. QED
    BY <2>6, <2>7 DEF m
<1>4. CASE ~conf.gradSyncFunc
  <2>1. late = {} /\ GradIters(conf, r, k + 1) = k + 1 /\ GradIters(conf, r, k) = k
    BY <1>4 DEF GradSyncChunks, GradIters
  <2>2. hooks = {d \in {BwdChunk(k)} : IsLastMicrobatch(k)}
    BY <1>2, <1>4 DEF Hooks, DefaultSyncChunks, BwdChunk
  <2>3. k \in 0 .. k
    BY <1>1
  <2> HIDE DEF late, hooks
  <2>4. \A d \in Chunks : /\ d \in late \/ d \in hooks <=> d = BwdChunk(k) /\ IsLastMicrobatch(k)
                          /\ ~(d \in late /\ d \in hooks)
    BY <2>1, <2>2
  <2>5. QED
    BY <1>3, <1>4, <2>1, <2>3, <2>4 DEF GradsHanded
<1>5. CASE conf.gradSyncFunc
  <2>0. DefaultSyncChunks(k) = {} /\ hooks = {}
    BY <1>2, <1>5 DEF Hooks, DefaultSyncChunks
  <2>1. CASE k < r
    <3>1. late = {} /\ GradIters(conf, r, k + 1) = 0 /\ GradIters(conf, r, k) = 0
      <4>1. ~(k - r >= 0)
        BY <1>1, <2>1
      <4>2. late = {}
        BY <4>1 DEF GradSyncChunks
      <4>3. GradIters(conf, r, k + 1) = 0 /\ GradIters(conf, r, k) = 0
        BY <1>1, <1>5, <2>1 DEF GradIters
      <4>4. QED
        BY <4>2, <4>3
    <3>2. \A d \in Chunks : Handed(conf, r, k + 1, d) <=> Handed(conf, r, k, d)
      BY <3>1 DEF Handed
    <3> HIDE DEF late, hooks
    <3>3. t.synchronized = s.synchronized
      BY <2>0, <3>1 DEF late
    <3>4. t.grad_syncs = SyncedLists(s, t.bwd, hooks, late)
      BY DEF late, hooks
    <3>5. \A d \in Chunks : t.grad_syncs[d] = s.grad_syncs[d]
      BY <2>0, <3>1, <3>4 DEF SyncedLists
    <3>6. QED
      BY <3>2, <3>3, <3>5 DEF GradsHanded
  <2>2. CASE k >= r
    <3>1. PICK y \in 0 .. k : y = k - r
      <4>1. k - r \in 0 .. k
        BY <1>1, <2>2
      <4>2. QED
        BY <4>1
    <3>2. GradIters(conf, r, k + 1) = y + 1 /\ GradIters(conf, r, k) = y
      BY <1>1, <1>5, <2>2, <3>1 DEF GradIters
    <3>3. late = {d \in {BwdChunk(y)} : IsLastMicrobatch(y)}
      <4> DEFINE u == k - r
      <4>1. u = y /\ u >= 0
        BY <1>1, <2>2, <3>1
      <4>2. late = {d \in {BwdChunk(u)} : conf.gradSyncFunc /\ u >= 0 /\ IsLastMicrobatch(u)}
        BY Zenon DEF GradSyncChunks, BwdChunk
      <4> HIDE DEF u, late
      <4>3. QED
        BY <1>5, <4>1, <4>2
    <3> HIDE DEF late, hooks
    <3>4. \A d \in Chunks : /\ d \in late <=> d = BwdChunk(y) /\ IsLastMicrobatch(y)
                            /\ ~(d \in late /\ d \in hooks)
                            /\ d \in late \/ d \in hooks <=> d = BwdChunk(y) /\ IsLastMicrobatch(y)
      BY <2>0, <3>3
    <3>5. QED
      BY <1>3, <2>0, <3>2, <3>4 DEF GradsHanded
  <2>3. QED
    BY <1>1, <2>1, <2>2
<1>6. QED
  BY <1>1, <1>4, <1>5

(* Parameters after one more forward pass. *)
LEMMA ParamStep ==
  ASSUME conf \in Configs, NEW r \in Ranks, NEW s, NEW t, NEW k \in 0 .. All(conf) - 1,
         ParamsLaunched(r, s, k),
         t.param_syncs = [x \in Chunks |->
                            s.param_syncs[x] + (IF x \in ParamSyncChunks(r, k) THEN 1 ELSE 0)]
  PROVE  ParamsLaunched(r, t, k + 1)
<1>1. PICK y \in Nat : y = k + r
  <2>1. k \in Nat /\ r \in Nat
    BY PassFacts DEF Ranks
  <2>2. k + r \in Nat
    BY <2>1
  <2>3. QED
    BY <2>2
<1>2. (k + 1) + r = y + 1
  BY <1>1, PassFacts DEF Ranks
<1> SUFFICES ASSUME NEW c \in Chunks
             PROVE  t.param_syncs[c] = IF c <= 1 \/ Fwd(c - 1, y + 1) > 0 THEN 1 ELSE 0
  BY <1>2 DEF ParamsLaunched
<1>3. s.param_syncs[c] = IF c <= 1 \/ Fwd(c - 1, y) > 0 THEN 1 ELSE 0
  BY <1>1 DEF ParamsLaunched
<1>4. t.param_syncs[c] = s.param_syncs[c] + (IF c \in ParamSyncChunks(r, k) THEN 1 ELSE 0)
  OBVIOUS
<1>5. c \in ParamSyncChunks(r, k) <=> /\ c = FwdChunk(y) + 1 /\ y < All(conf)
                                      /\ IsFirstMicrobatch(y) /\ 1 < c /\ c < V
  BY <1>1, ModelSizes DEF ParamSyncChunks, FwdChunk
<1>6. c \in Nat /\ c < V
  BY SizeFacts DEF Chunks
<1>7. CASE c <= 1
  <2>1. c \notin ParamSyncChunks(r, k)
    BY <1>5, <1>6, <1>7
  <2>2. QED
    BY <1>3, <1>4, <1>7, <2>1
<1>8. CASE c > 1
  <2>1. PICK d \in Chunks : d = c - 1
    <3>1. c - 1 \in Chunks
      BY <1>6, <1>8, SizeFacts DEF Chunks
    <3>2. QED
      BY <3>1
  <2>2. Fwd(d, y) \in Nat /\ Fwd(d, y + 1) = Fwd(d, y) + One(d = FwdChunk(y))
    BY FwdFacts, FwdStep
  <2>3. FwdChunk(y) \in Nat
    BY ChunkFacts DEF Chunks
  <2>4. d \in Nat /\ (c = FwdChunk(y) + 1 <=> d = FwdChunk(y))
    BY <1>6, <1>8, <2>1, <2>3
  <2>5. IsFirstMicrobatch(y) <=> Fwd(FwdChunk(y), y) = 0
    BY FirstIs
  <2>6. Fwd(d, y) = 0 => y < All(conf)
    <3> SUFFICES ASSUME ~(y < All(conf)) PROVE Fwd(d, y) # 0
      OBVIOUS
    <3>1. All(conf) \in Nat /\ All(conf) <= y
      BY AllSize
    <3>2. Fwd(d, All(conf)) <= Fwd(d, y) /\ Fwd(d, All(conf)) = conf.microbatches
      BY <3>1, FwdGrows, AllFacts
    <3>3. QED
      BY <2>2, <3>2, ConfFacts
  <2> HIDE DEF Fwd, FwdChunk, IsFirstMicrobatch, ParamSyncChunks
  <2>7. ~(c <= 1) /\ c - 1 = d
    BY <1>6, <1>8, <2>1
  <2>8. CASE d = FwdChunk(y) /\ Fwd(d, y) = 0
    <3>1. c \in ParamSyncChunks(r, k)
      BY <1>5, <1>6, <1>8, <2>4, <2>5, <2>6, <2>8
    <3>2. s.param_syncs[c] = 0 /\ Fwd(d, y + 1) = 1
      BY <1>3, <2>2, <2>7, <2>8 DEF One
    <3>3. QED
      BY <1>4, <2>7, <3>1, <3>2
  <2>9. CASE ~(d = FwdChunk(y) /\ Fwd(d, y) = 0)
    <3>1. c \notin ParamSyncChunks(r, k)
      BY <1>5, <2>4, <2>5, <2>9
    <3>2. Fwd(d, y + 1) > 0 <=> Fwd(d, y) > 0
      BY <2>2, <2>9 DEF One
    <3>3. s.param_syncs[c] \in Nat
      BY <1>3
    <3>4. t.param_syncs[c] = s.param_syncs[c]
      BY <1>4, <3>1, <3>3
    <3>5. QED
      BY <1>3, <2>7, <3>2, <3>4
  <2>10. QED
    BY <2>8, <2>9
<1>9. QED
  BY <1>6, <1>7, <1>8

(* Launching what remains hands over every chunk. *)
LEMMA LaunchStep ==
  ASSUME conf \in Configs, NEW r \in Ranks, NEW s, GradsHanded(conf, r, s, All(conf)),
         \A d \in Chunks : s.bwd[d] = Bwd(d, All(conf)),
         NEW t, t.grad_syncs = Synced(s, RemainingChunks(s))
  PROVE  AllHanded(conf, t)
<1> SUFFICES ASSUME NEW c \in Chunks PROVE t.grad_syncs[c] = <<conf.microbatches>>
  BY DEF AllHanded
<1>1. /\ s.grad_syncs[c] = IF Handed(conf, r, All(conf), c) THEN <<conf.microbatches>> ELSE <<>>
      /\ conf.gradSyncFunc => (c \in s.synchronized <=> Handed(conf, r, All(conf), c))
  BY DEF GradsHanded
<1>2. s.bwd[c] = conf.microbatches
  BY AllFacts
<1>3. t.grad_syncs[c] = IF c \in RemainingChunks(s) THEN Append(s.grad_syncs[c], s.bwd[c])
                        ELSE s.grad_syncs[c]
  BY DEF Synced
<1>4. c \in RemainingChunks(s) <=> ~Handed(conf, r, All(conf), c)
  <2>1. CASE conf.gradSyncFunc
    BY <1>1, <2>1 DEF RemainingChunks
  <2>2. CASE ~conf.gradSyncFunc
    <3>1. Handed(conf, r, All(conf), c)
      BY <2>2, AllFacts DEF Handed, GradIters
    <3>2. QED
      BY <2>2, <3>1 DEF RemainingChunks
  <2>3. QED
    BY <2>1, <2>2
<1>5. CASE Handed(conf, r, All(conf), c)
  BY <1>1, <1>3, <1>4, <1>5
<1>6. CASE ~Handed(conf, r, All(conf), c)
  <2>1. t.grad_syncs[c] = Append(<<>>, conf.microbatches)
    BY <1>1, <1>2, <1>3, <1>4, <1>6
  <2>2. QED
    BY <2>1
<1>7. QED
  BY <1>5, <1>6

(* A rank never runs a backward pass whose forward pass it has not run. *)
Trails(cf, f, b) ==
  b = 0 \/ b + (V - 1) * P <= f \/ (f = All(cf) /\ b <= All(cf))

(* Hence no chunk is ahead backward of where it is forward. *)
LEMMA Trailing ==
  ASSUME NEW cf \in Configs, NEW f \in Nat, NEW b \in Nat, Trails(cf, f, b)
  PROVE  \A c \in Chunks : Bwd(c, b) <= Fwd(c, f)
<1> SUFFICES ASSUME NEW c \in Chunks PROVE Bwd(c, b) <= Fwd(c, f)
  OBVIOUS
<1>0. Fwd(c, f) \in Nat /\ Bwd(c, b) \in Nat /\ Bwd(c, 0) = 0
  BY FwdFacts, BwdFacts
<1>1. CASE b = 0
  BY <1>0, <1>1
<1>2. CASE b + (V - 1) * P <= f
  <2>1. PICK y \in Nat : y = b + (V - 1) * P
    <3>1. V - 1 \in Nat /\ P \in Nat
      BY SizeFacts
    <3>2. (V - 1) * P \in Nat
      BY <3>1
    <3>3. QED
      BY <3>2
  <2>2. Bwd(c, b) <= Fwd(c, y)
    BY <2>1, BwdBehind
  <2>3. Fwd(c, y) <= Fwd(c, f) /\ Fwd(c, y) \in Nat
    BY <1>2, <2>1, FwdGrows, FwdFacts
  <2>4. QED
    BY <1>0, <2>2, <2>3
<1>3. CASE f = All(cf) /\ b <= All(cf)
  <2>1. Fwd(c, f) = cf.microbatches /\ Bwd(c, All(cf)) = cf.microbatches /\ All(cf) \in Nat
    BY <1>3, AllFacts, AllSize
  <2>2. Bwd(c, b) <= Bwd(c, All(cf))
    BY <1>3, <2>1, BwdFacts
  <2>3. QED
    BY <2>1, <2>2
<1>4. QED
  BY <1>1, <1>2, <1>3 DEF Trails

(* A backward step takes the oldest microbatch of its chunk and of no other. *)
LEMMA BackwardStepFacts ==
  ASSUME conf \in Configs, ~conf.forwardOnly, NEW r \in Ranks, NEW s \in LocalType(conf),
         NEW k \in 0 .. All(conf) - 1, NEW f \in Nat, NEW fa \in Nat, f <= fa,
         NEW hf, NEW over,
         \A d \in Chunks : Bwd(d, k + 1) <= Fwd(d, f),
         Counts(s, f, k), Outputs(conf, r, s), Inputs(conf, r, s, fa, hf, over),
         Grads(r, s, k + 1, FALSE, FALSE),
         GradsHanded(conf, r, s, k),
         NEW t, t = BackwardStepHelper(s, r, k)
  PROVE  /\ t \in LocalType(conf)
         /\ t.phase = s.phase /\ t.k = s.k /\ t.output_tensor = s.output_tensor
         /\ t.drawn = s.drawn /\ t.param_syncs = s.param_syncs
         /\ t.input_tensor_grad = IF FirstStage(r, BwdChunk(k)) THEN NoTensor
                                  ELSE Tensor(StageOf(r, BwdChunk(k)), Bwd(BwdChunk(k), k))
         /\ Counts(t, f, k + 1) /\ Outputs(conf, r, t) /\ Inputs(conf, r, t, fa, hf, over)
         /\ Grads(r, t, k + 1, FALSE, FALSE)
         /\ GradsHanded(conf, r, t, k + 1)
<1> DEFINE c == BwdChunk(k)
           x == Bwd(c, k)
           l == s.input_tensors[c]
           o == s.output_tensors[c]
           g2 == BackwardGrads(s, r, c)
           out == BackwardOutput(s, r, c)
           bwd2 == [s.bwd EXCEPT ![c] = s.bwd[c] + 1]
           late == GradSyncChunks(r, k)
           early == DefaultSyncChunks(k)
           hooks == Hooks(s, k)
           syncs == SyncedLists(s, bwd2, hooks, late)
<1>1. /\ c \in Chunks /\ x \in Nat /\ x < conf.microbatches /\ k \in Int /\ k \in Nat
      /\ conf.microbatches \in Nat /\ c = BwdChunk(k)
  BY PassFacts, ConfFacts
<1>2. BackwardWrote(s, t, c, g2, out, bwd2, syncs, early, late)
  <2>1. BackwardWrote(s, BackwardStepHelper(s, r, k), c, g2, out, bwd2, syncs, early, late)
    BY <1>1, BackwardFields, Zenon
  <2> HIDE DEF c, g2, out, bwd2, syncs, early, late
  <2>2. QED
    BY <2>1, Zenon
<1>3. /\ g2 \in Seq(Tensors) /\ g2 # <<>> /\ l # <<>> /\ o # <<>>
      /\ out = IF FirstStage(r, c) THEN NoTensor ELSE Tensor(StageOf(r, c), x)
      /\ ListIs(Tail(o), StageOf(r, c), x + 1, Fwd(c, f), FALSE, FALSE)
      /\ InputList(r, c, Tail(l), Len(o) - 1, x + 1, Fwd(c, fa), hf /\ c = FwdChunk(fa - 1), over)
      /\ GradList(r, c, Tail(g2), x + 1, x + 1, FALSE, FALSE)
  <2> HIDE DEF c
  <2>1. BackwardRead(r, s, k, f, fa, hf, over, c)
    BY <1>1, BackwardReads, Zenon
  <2>2. QED
    BY <2>1, Zenon DEF BackwardRead, x
<1>4. /\ l \in Seq(Tensors) /\ o \in Seq(Tensors)
      /\ s.input_tensors \in [Chunks -> Seq(Tensors)]
      /\ s.output_tensors \in [Chunks -> Seq(Tensors)]
      /\ s.output_tensor_grads \in [Chunks -> Seq(Tensors)]
      /\ s.bwd \in [Chunks -> 0 .. conf.microbatches]
      /\ s.no_sync \in BOOLEAN /\ s.synchronized \in SUBSET Chunks
      /\ s.grad_syncs \in [Chunks -> Seq(0 .. conf.microbatches)]
  BY <1>1, TypeFacts
<1>5. s.bwd[c] = x
  BY <1>1 DEF Counts
<1>6. Tail(l) \in Seq(Tensors) /\ Tail(o) \in Seq(Tensors) /\ Tail(g2) \in Seq(Tensors)
      /\ Len(Tail(o)) = Len(o) - 1
  BY <1>3, <1>4
<1>7. bwd2 \in [Chunks -> 0 .. conf.microbatches]
  BY <1>1, <1>4, <1>5
<1>8. out \in Tensors
  BY <1>1, <1>3, StageTensors DEF Tensors
<1>9. syncs \in [Chunks -> Seq(0 .. conf.microbatches)]
  <2> HIDE DEF bwd2, hooks, late
  <2>1. \A d \in Chunks : s.grad_syncs[d] \in Seq(0 .. conf.microbatches)
    BY <1>4
  <2>2. \A d \in Chunks : bwd2[d] \in 0 .. conf.microbatches
    BY <1>7
  <2>3. ASSUME NEW d \in Chunks PROVE syncs[d] \in Seq(0 .. conf.microbatches)
    <3>1. syncs[d] \in {s.grad_syncs[d], Append(s.grad_syncs[d], bwd2[d]),
                       Append(Append(s.grad_syncs[d], bwd2[d]), bwd2[d])}
      BY DEF SyncedLists
    <3>2. s.grad_syncs[d] \in Seq(0 .. conf.microbatches) /\ bwd2[d] \in 0 .. conf.microbatches
      BY <2>1, <2>2
    <3>3. Append(s.grad_syncs[d], bwd2[d]) \in Seq(0 .. conf.microbatches)
      BY <3>2
    <3>4. Append(Append(s.grad_syncs[d], bwd2[d]), bwd2[d]) \in Seq(0 .. conf.microbatches)
      BY <3>2, <3>3
    <3> HIDE DEF bwd2, syncs
    <3>5. QED
      BY <3>1, <3>2, <3>3, <3>4
  <2>4. syncs = [d \in Chunks |-> syncs[d]]
    BY DEF SyncedLists
  <2>5. QED
    BY <2>3, <2>4
<1>10. early \in SUBSET Chunks /\ late \in SUBSET Chunks
  <2>1. k - r \in Int
    BY <1>1, SizeFacts DEF Ranks
  <2>2. BwdChunk(k - r) \in Chunks
    BY <2>1, ChunkFacts
  <2>3. QED
    BY <1>1, <2>2 DEF DefaultSyncChunks, GradSyncChunks, BwdChunk
<1> HIDE DEF c, x, l, o, g2, out, bwd2, late, early, hooks, syncs
<1> USE DEF BackwardWrote
<1>11. t \in LocalType(conf)
  <2>1. [s.input_tensors EXCEPT ![c] = Tail(s.input_tensors[c])] \in [Chunks -> Seq(Tensors)]
    BY <1>1, <1>4, <1>6 DEF l
  <2>2. [s.output_tensors EXCEPT ![c] = Tail(s.output_tensors[c])] \in [Chunks -> Seq(Tensors)]
    BY <1>1, <1>4, <1>6 DEF o
  <2>3. [s.output_tensor_grads EXCEPT ![c] = Tail(g2)] \in [Chunks -> Seq(Tensors)]
    BY <1>1, <1>4, <1>6
  <2>4. (s.synchronized \cup early) \cup late \in SUBSET Chunks
    BY <1>4, <1>10
  <2>5. QED
    BY <1>2, <1>7, <1>8, <1>9, <2>1, <2>2, <2>3, <2>4 DEF LocalType
<1>12. ASSUME NEW d \in Chunks, d # c
       PROVE  /\ t.input_tensors[d] = s.input_tensors[d] /\ t.output_tensors[d] = s.output_tensors[d]
              /\ t.output_tensor_grads[d] = s.output_tensor_grads[d]
              /\ t.bwd[d] = s.bwd[d] /\ t.drawn[d] = s.drawn[d]
  BY <1>1, <1>2, <1>4, <1>12 DEF bwd2
<1>13. /\ t.input_tensors[c] = Tail(l) /\ t.output_tensors[c] = Tail(o)
       /\ t.output_tensor_grads[c] = Tail(g2)
       /\ t.bwd[c] = x + 1 /\ t.drawn[c] = s.drawn[c]
  BY <1>1, <1>2, <1>4, <1>5 DEF bwd2, l, o
<1>14. ASSUME NEW d \in Chunks
       PROVE  /\ Bwd(d, k + 1) = IF d = c THEN Bwd(d, k) + 1 ELSE Bwd(d, k)
              /\ s.drawn[d] = Fwd(d, f) /\ s.bwd[d] = Bwd(d, k)
  BY PassFacts DEF Counts, c
<1>15. Bwd(c, k + 1) = x + 1 /\ s.drawn[c] = Fwd(c, f)
  BY <1>1, <1>14 DEF x
<1>16. Counts(t, f, k + 1)
  <2> SUFFICES ASSUME NEW d \in Chunks PROVE t.drawn[d] = Fwd(d, f) /\ t.bwd[d] = Bwd(d, k + 1)
    BY DEF Counts
  <2>1. CASE d = c
    BY <1>13, <1>15, <2>1
  <2>2. CASE d # c
    BY <1>12, <1>14, <2>2
  <2>3. QED
    BY <2>1, <2>2
<1>17. Base(conf, t, c) = x + 1 /\ \A d \in Chunks : d # c => Base(conf, t, d) = Base(conf, s, d)
  BY <1>12, <1>13 DEF Base
<1>18. Outputs(conf, r, t)
  <2> SUFFICES ASSUME NEW d \in Chunks PROVE OutputsAre(conf, r, t, d)
    BY DEF Outputs
  <2>1. CASE d = c
    BY <1>3, <1>13, <1>15, <1>17, <2>1 DEF OutputsAre
  <2>2. CASE d # c
    <3>1. OutputsAre(conf, r, s, d)
      BY DEF Outputs
    <3>2. QED
      BY <1>12, <1>17, <2>2, <3>1 DEF OutputsAre
  <2>3. QED
    BY <2>1, <2>2
<1>19. Inputs(conf, r, t, fa, hf, over)
  <2> SUFFICES ASSUME NEW d \in Chunks PROVE InputsAre(conf, r, t, fa, hf, over, d)
    BY DEF Inputs
  <2>1. CASE d = c
    <3>1. Len(t.output_tensors[c]) = Len(o) - 1
      BY <1>6, <1>13
    <3>2. InputList(r, c, t.input_tensors[c], Len(t.output_tensors[c]), Base(conf, t, c), Fwd(c, fa),
                    hf /\ c = FwdChunk(fa - 1), over)
      BY <1>3, <1>13, <1>17, <3>1, Zenon
    <3>3. QED
      BY <2>1, <3>2, Zenon DEF InputsAre
  <2>2. CASE d # c
    <3>1. InputsAre(conf, r, s, fa, hf, over, d)
      BY DEF Inputs
    <3>2. QED
      BY <1>12, <1>17, <2>2, <3>1, Zenon DEF InputsAre
  <2>3. QED
    BY <2>1, <2>2
<1>20. Grads(r, t, k + 1, FALSE, FALSE)
  <2> SUFFICES ASSUME NEW d \in Chunks PROVE GradsAre(r, t, k + 1, FALSE, FALSE, d)
    BY DEF Grads
  <2>0. (FALSE /\ d = BwdChunk((k + 1) - 1)) = FALSE
    OBVIOUS
  <2>1. CASE d = c
    <3>1. GradList(r, c, t.output_tensor_grads[c], t.bwd[c], Bwd(c, k + 1), FALSE, FALSE)
      BY <1>3, <1>13, <1>15, Zenon
    <3>2. QED
      BY <2>0, <2>1, <3>1, Zenon DEF GradsAre
  <2>2. CASE d # c
    <3>1. GradsAre(r, s, k + 1, FALSE, FALSE, d)
      BY DEF Grads
    <3>2. QED
      BY <1>12, <2>2, <3>1, Zenon DEF GradsAre
  <2>3. QED
    BY <2>1, <2>2
<1>21. \A d \in Chunks : t.bwd[d] = Bwd(d, k + 1)
  BY <1>16 DEF Counts
<1>22. GradsHanded(conf, r, t, k + 1)
  <2>1. /\ t.no_sync = TRUE /\ t.synchronized = (s.synchronized \cup early) \cup late
        /\ t.grad_syncs = syncs /\ t.bwd = bwd2
    BY <1>2
  <2>2. t.grad_syncs = SyncedLists(s, t.bwd, Hooks(s, k), GradSyncChunks(r, k))
    BY <2>1, Zenon DEF syncs, hooks, late
  <2>3. QED
    BY <1>21, <2>1, <2>2, SyncStep DEF early, late
<1>23. QED
  BY <1>2, <1>3, <1>11, <1>16, <1>18, <1>19, <1>20, <1>22, Zenon DEF out, c, x

-----------------------------------------------------------------------------
(* Asking for the next input and the next gradient.                          *)

(* One list is asked for one more entry, unless this end of the pipeline     *)
(* gets none: then it may be padded. Or every list may be padded.            *)
AskedAt(lists, lists2, c, end) ==
  \A d \in Chunks :
    IF d = c
    THEN IF end THEN lists2[d] = lists[d] \/ lists2[d] = Append(lists[d], NoTensor)
         ELSE lists2[d] = Append(lists[d], Empty)
    ELSE lists2[d] = lists[d]
PaddedAt(lists, lists2) ==
  \A d \in Chunks : lists2[d] = lists[d] \/ lists2[d] = Append(lists[d], NoTensor)

(* A list of placeholders stays one. *)
LEMMA Placeholders ==
  ASSUME NEW l \in Seq(Tensors), \A n \in 1 .. Len(l) : l[n] = NoTensor,
         NEW m, m = l \/ m = Append(l, NoTensor)
  PROVE  (\A n \in 1 .. Len(m) : m[n] = NoTensor) /\ Len(m) >= Len(l) /\ Len(m) \in Nat
<1>1. CASE m = l
  BY <1>1
<1>2. CASE m = Append(l, NoTensor)
  <2>1. Len(m) = Len(l) + 1 /\ Len(l) \in Nat
    BY <1>2
  <2>2. \A n \in 1 .. Len(l) : m[n] = l[n]
    BY <1>2
  <2>3. m[Len(l) + 1] = NoTensor
    BY <1>2
  <2>4. QED
    BY <2>1, <2>2, <2>3
<1>3. QED
  BY <1>1, <1>2

(* The inputs of the first stage are placeholders. *)
LEMMA InputFirst ==
  ASSUME NEW r, NEW c, NEW l \in Seq(Tensors), NEW outs \in Nat, NEW base, NEW upto,
         NEW hole, NEW over, InputList(r, c, l, outs, base, upto, hole, over), FirstStage(r, c),
         NEW m, m = l \/ m = Append(l, NoTensor), NEW upto2, NEW hole2, NEW over2
  PROVE  InputList(r, c, m, outs, base, upto2, hole2, over2)
<1>1. (\A n \in 1 .. Len(l) : l[n] = NoTensor) /\ Len(l) >= outs /\ Len(l) \in Nat
  BY DEF InputList
<1>2. (\A n \in 1 .. Len(m) : m[n] = NoTensor) /\ Len(m) >= Len(l) /\ Len(m) \in Nat
  BY <1>1, Placeholders
<1>3. Len(m) >= outs
  BY <1>1, <1>2
<1>4. QED
  BY <1>2, <1>3, Zenon DEF InputList

(* An input list that is asked for one more. *)
LEMMA InputAsked ==
  ASSUME NEW r, NEW c, NEW l \in Seq(Tensors), NEW outs, NEW base \in Int,
         NEW upto \in Int, NEW over, ~FirstStage(r, c),
         InputList(r, c, l, outs, base, upto, FALSE, FALSE)
  PROVE  InputList(r, c, Append(l, Empty), outs, base, upto + 1, TRUE, over)
<1>0. Empty \in Tensors
  BY DEF Tensors
<1>1. ListIs(l, StageOf(r, c) - 1, base, upto, FALSE, FALSE)
  BY DEF InputList
<1>2. ListIs(Append(l, Empty), StageOf(r, c) - 1, base, upto + 1, TRUE, over)
  BY <1>0, <1>1, AskedList
<1>3. QED
  BY <1>2, Zenon DEF InputList

(* An input list that no input is added to. *)
LEMMA InputAdded ==
  ASSUME NEW r, NEW c, NEW l \in Seq(Tensors), NEW outs \in Nat, NEW base \in Int,
         NEW upto \in Int, NEW over \in BOOLEAN,
         InputList(r, c, l, outs, base, upto, FALSE, FALSE)
  PROVE  /\ InputList(r, c, l, outs, base, upto, FALSE, over)
         /\ InputList(r, c, Append(l, NoTensor), outs, base, upto, FALSE, TRUE)
<1>0. NoTensor \in Tensors
  BY DEF Tensors
<1>1. CASE FirstStage(r, c)
  BY <1>1, InputFirst, Zenon
<1>2. CASE ~FirstStage(r, c)
  <2>1. ListIs(l, StageOf(r, c) - 1, base, upto, FALSE, FALSE)
    BY <1>2 DEF InputList
  <2>2. ListIs(l, StageOf(r, c) - 1, base, upto, FALSE, over)
    BY <2>1, PlainList
  <2>4. ListIs(Append(l, NoTensor), StageOf(r, c) - 1, base, upto, FALSE, TRUE)
    BY <1>0, <2>1, PaddedList
  <2>5. QED
    BY <1>2, <2>2, <2>4, Zenon DEF InputList
<1>3. QED
  BY <1>1, <1>2

(* One gradient list after another. *)
LEMMA GradAdded ==
  ASSUME NEW r, NEW c, NEW l \in Seq(Tensors), NEW base \in Int,
         NEW upto \in Int, NEW over \in BOOLEAN,
         GradList(r, c, l, base, upto, FALSE, FALSE)
  PROVE  /\ GradList(r, c, l, base, upto, FALSE, over)
         /\ ~LastStage(r, c) => GradList(r, c, Append(l, Empty), base, upto + 1, TRUE, over)
         /\ LastStage(r, c) =>
              \A m, upto2, hole2 : m = l \/ m = Append(l, NoTensor)
                                     => GradList(r, c, m, base, upto2, hole2, over)
         /\ GradList(r, c, Append(l, NoTensor), base, upto, FALSE, TRUE)
<1>0. Empty \in Tensors /\ NoTensor \in Tensors
  BY DEF Tensors
<1>1. CASE LastStage(r, c)
  <2>1. (\A n \in 1 .. Len(l) : l[n] = NoTensor) /\ Len(l) \in Nat
    BY <1>1 DEF GradList
  <2>2. ASSUME NEW m, NEW upto2, NEW hole2, NEW over2, m = l \/ m = Append(l, NoTensor)
        PROVE  GradList(r, c, m, base, upto2, hole2, over2)
    <3>1. \A n \in 1 .. Len(m) : m[n] = NoTensor
      BY <2>1, <2>2, Placeholders
    <3>2. QED
      BY <1>1, <3>1, Zenon DEF GradList
  <2>3. QED
    BY <1>1, <2>2, Zenon
<1>2. CASE ~LastStage(r, c)
  <2>1. ListIs(l, StageOf(r, c) + 1, base, upto, FALSE, FALSE)
    BY <1>2 DEF GradList
  <2>2. ListIs(l, StageOf(r, c) + 1, base, upto, FALSE, over)
    BY <2>1, PlainList
  <2>3. ListIs(Append(l, Empty), StageOf(r, c) + 1, base, upto + 1, TRUE, over)
    BY <1>0, <2>1, AskedList
  <2>4. ListIs(Append(l, NoTensor), StageOf(r, c) + 1, base, upto, FALSE, TRUE)
    BY <1>0, <2>1, PaddedList
  <2>5. QED
    BY <1>2, <2>2, <2>3, <2>4, Zenon DEF GradList
<1>3. QED
  BY <1>1, <1>2

(* The lists of chunk c of a state. *)
LEMMA ListTypes ==
  ASSUME NEW cf \in Configs, NEW s \in LocalType(cf), NEW c \in Chunks
  PROVE  /\ s.input_tensors[c] \in Seq(Tensors) /\ s.output_tensor_grads[c] \in Seq(Tensors)
         /\ Len(s.output_tensors[c]) \in Nat /\ Base(cf, s, c) \in Int /\ s.bwd[c] \in Int
<1>1. cf.microbatches \in Nat
  BY ConfFacts
<1>2. s.bwd[c] \in 0 .. cf.microbatches /\ s.drawn[c] \in 0 .. cf.microbatches
  BY TypeFacts
<1>3. s.bwd[c] \in Int /\ s.drawn[c] \in Int
  BY <1>1, <1>2
<1>4. s.output_tensors[c] \in Seq(Tensors)
  BY TypeFacts
<1>5. QED
  BY <1>3, <1>4, TypeFacts DEF Base

(* The input of iteration fa is asked for. *)
LEMMA AskInput ==
  ASSUME NEW cf \in Configs, NEW r \in Ranks, NEW s \in LocalType(cf), NEW t, NEW fa \in Nat,
         NEW over \in BOOLEAN,
         t.drawn = s.drawn, t.bwd = s.bwd, t.output_tensors = s.output_tensors,
         Inputs(cf, r, s, fa, FALSE, FALSE),
         AskedAt(s.input_tensors, t.input_tensors, FwdChunk(fa), FirstStage(r, FwdChunk(fa)))
  PROVE  Inputs(cf, r, t, fa + 1, ~FirstStage(r, FwdChunk(fa)), over)
<1> DEFINE c == FwdChunk(fa)
<1> SUFFICES ASSUME NEW d \in Chunks
             PROVE  InputsAre(cf, r, t, fa + 1, ~FirstStage(r, c), over, d)
  BY DEF Inputs
<1> DEFINE l == s.input_tensors[d]
           m == t.input_tensors[d]
           outs == Len(s.output_tensors[d])
           base == Base(cf, s, d)
           upto == Fwd(d, fa)
<1>1. fa \in Int /\ (fa + 1) - 1 = fa
  OBVIOUS
<1>2. l \in Seq(Tensors) /\ outs \in Nat /\ base \in Int
  BY ListTypes
<1>3. upto \in Nat /\ upto \in Int /\ Fwd(d, fa + 1) = upto + One(d = c)
  BY <1>1, FwdStep, FwdFacts
<1>4. InputList(r, d, l, outs, base, upto, FALSE, FALSE)
  <2>1. InputsAre(cf, r, s, fa, FALSE, FALSE, d)
    BY DEF Inputs
  <2>2. (FALSE /\ d = FwdChunk(fa - 1)) = FALSE
    OBVIOUS
  <2>3. QED
    BY <2>1, <2>2, Zenon DEF InputsAre
<1>5. base = Base(cf, t, d) /\ outs = Len(t.output_tensors[d])
  BY DEF Base
<1>6. IF d = c
      THEN IF FirstStage(r, c) THEN m = l \/ m = Append(l, NoTensor) ELSE m = Append(l, Empty)
      ELSE m = l
  BY DEF AskedAt
<1> DEFINE h == ~FirstStage(r, c) /\ d = FwdChunk((fa + 1) - 1)
<1>7. InputList(r, d, m, outs, base, Fwd(d, fa + 1), h, over)
  <2> HIDE DEF c, l, m, outs, base, upto
  <2>1. CASE d # c
    <3>1. h = FALSE
      BY <1>1, <2>1 DEF c
    <3>2. Fwd(d, fa + 1) = upto
      BY <1>3, <2>1 DEF One
    <3>3. InputList(r, d, l, outs, base, upto, FALSE, over)
      BY <1>2, <1>3, <1>4, InputAdded
    <3>4. QED
      BY <1>6, <2>1, <3>1, <3>2, <3>3
  <2>2. CASE d = c /\ ~FirstStage(r, d)
    <3>1. h = TRUE
      BY <1>1, <2>2 DEF c, FirstStage
    <3>2. Fwd(d, fa + 1) = upto + 1
      BY <1>3, <2>2 DEF One
    <3>3. InputList(r, d, Append(l, Empty), outs, base, upto + 1, TRUE, over)
      BY <1>2, <1>3, <1>4, <2>2, InputAsked, Zenon
    <3>4. QED
      BY <1>6, <2>2, <3>1, <3>2, <3>3
  <2>3. CASE d = c /\ FirstStage(r, d)
    <3>1. m = l \/ m = Append(l, NoTensor)
      BY <1>6, <2>3
    <3>2. QED
      BY <1>2, <1>3, <1>4, <2>3, <3>1, InputFirst, Zenon
  <2>4. QED
    BY <2>1, <2>2, <2>3
<1>8. QED
  BY <1>5, <1>7, Zenon DEF InputsAre, l, m, outs, base

(* Nothing more is asked for. *)
LEMMA PadInput ==
  ASSUME NEW cf \in Configs, NEW r \in Ranks, NEW s \in LocalType(cf), NEW t, NEW fa \in Nat,
         NEW over \in BOOLEAN,
         t.drawn = s.drawn, t.bwd = s.bwd, t.output_tensors = s.output_tensors,
         Inputs(cf, r, s, fa, FALSE, FALSE),
         \/ t.input_tensors = s.input_tensors
         \/ over /\ PaddedAt(s.input_tensors, t.input_tensors)
  PROVE  Inputs(cf, r, t, fa, FALSE, over)
<1> SUFFICES ASSUME NEW d \in Chunks PROVE InputsAre(cf, r, t, fa, FALSE, over, d)
  BY DEF Inputs
<1> DEFINE l == s.input_tensors[d]
           m == t.input_tensors[d]
           outs == Len(s.output_tensors[d])
           base == Base(cf, s, d)
           upto == Fwd(d, fa)
<1>2. l \in Seq(Tensors) /\ outs \in Nat /\ base \in Int
  BY ListTypes
<1>3. upto \in Int
  BY FwdFacts
<1>0. (FALSE /\ d = FwdChunk(fa - 1)) = FALSE
  OBVIOUS
<1>4. InputList(r, d, l, outs, base, upto, FALSE, FALSE)
  <2>1. InputsAre(cf, r, s, fa, FALSE, FALSE, d)
    BY DEF Inputs
  <2>3. QED
    BY <1>0, <2>1, Zenon DEF InputsAre
<1>5. base = Base(cf, t, d) /\ outs = Len(t.output_tensors[d])
  BY DEF Base
<1>6. m = l \/ (over /\ m = Append(l, NoTensor))
  BY DEF PaddedAt
<1>7. InputList(r, d, m, outs, base, upto, FALSE, over)
  <2> HIDE DEF l, m, outs, base, upto
  <2>1. CASE m = l
    BY <1>2, <1>3, <1>4, <2>1, InputAdded
  <2>2. CASE over /\ m = Append(l, NoTensor)
    <3>1. over = TRUE
      BY <2>2
    <3>2. InputList(r, d, Append(l, NoTensor), outs, base, upto, FALSE, TRUE)
      BY <1>2, <1>3, <1>4, InputAdded
    <3>3. QED
      BY <2>2, <3>1, <3>2
  <2>3. QED
    BY <1>6, <2>1, <2>2
<1>8. QED
  BY <1>0, <1>5, <1>7, Zenon DEF InputsAre, l, m, outs, base, upto

(* The gradient of iteration ba is asked for. *)
LEMMA AskGradient ==
  ASSUME NEW cf \in Configs, NEW r \in Ranks, NEW s \in LocalType(cf), NEW t, NEW ba \in Nat,
         NEW over \in BOOLEAN, t.bwd = s.bwd,
         Grads(r, s, ba, FALSE, FALSE),
         AskedAt(s.output_tensor_grads, t.output_tensor_grads, BwdChunk(ba),
                 LastStage(r, BwdChunk(ba)))
  PROVE  Grads(r, t, ba + 1, ~LastStage(r, BwdChunk(ba)), over)
<1> DEFINE c == BwdChunk(ba)
<1> SUFFICES ASSUME NEW d \in Chunks
             PROVE  GradsAre(r, t, ba + 1, ~LastStage(r, c), over, d)
  BY DEF Grads
<1> DEFINE l == s.output_tensor_grads[d]
           m == t.output_tensor_grads[d]
           base == s.bwd[d]
           upto == Bwd(d, ba)
<1>1. ba \in Int /\ (ba + 1) - 1 = ba
  OBVIOUS
<1>2. l \in Seq(Tensors) /\ base \in Int
  BY ListTypes
<1>3. upto \in Nat /\ upto \in Int /\ Bwd(d, ba + 1) = upto + One(d = c)
  BY <1>1, BwdFacts
<1>4. GradList(r, d, l, base, upto, FALSE, FALSE)
  <2>1. GradsAre(r, s, ba, FALSE, FALSE, d)
    BY DEF Grads
  <2>2. (FALSE /\ d = BwdChunk(ba - 1)) = FALSE
    OBVIOUS
  <2>3. QED
    BY <2>1, <2>2, Zenon DEF GradsAre
<1>6. IF d = c
      THEN IF LastStage(r, c) THEN m = l \/ m = Append(l, NoTensor) ELSE m = Append(l, Empty)
      ELSE m = l
  BY DEF AskedAt
<1> DEFINE h == ~LastStage(r, c) /\ d = BwdChunk((ba + 1) - 1)
<1>7. GradList(r, d, m, base, Bwd(d, ba + 1), h, over)
  <2> HIDE DEF c, l, m, base, upto
  <2>1. CASE d # c
    <3>1. h = FALSE
      BY <1>1, <2>1 DEF c
    <3>2. Bwd(d, ba + 1) = upto
      BY <1>3, <2>1 DEF One
    <3>3. GradList(r, d, l, base, upto, FALSE, over)
      BY <1>2, <1>3, <1>4, GradAdded
    <3>4. QED
      BY <1>6, <2>1, <3>1, <3>2, <3>3
  <2>2. CASE d = c /\ ~LastStage(r, d)
    <3>1. h = TRUE
      BY <1>1, <2>2 DEF c, LastStage
    <3>2. Bwd(d, ba + 1) = upto + 1
      BY <1>3, <2>2 DEF One
    <3>3. GradList(r, d, Append(l, Empty), base, upto + 1, TRUE, over)
      BY <1>2, <1>3, <1>4, <2>2, GradAdded
    <3>4. QED
      BY <1>6, <2>2, <3>1, <3>2, <3>3
  <2>3. CASE d = c /\ LastStage(r, d)
    <3>1. m = l \/ m = Append(l, NoTensor)
      BY <1>6, <2>3
    <3>2. QED
      BY <1>2, <1>3, <1>4, <2>3, <3>1, GradAdded
  <2>4. QED
    BY <2>1, <2>2, <2>3
<1>8. QED
  BY <1>7, Zenon DEF GradsAre, l, m, base

(* No more gradients are asked for. *)
LEMMA PadGradient ==
  ASSUME NEW cf \in Configs, NEW r \in Ranks, NEW s \in LocalType(cf), NEW t, NEW ba \in Nat,
         NEW over \in BOOLEAN, t.bwd = s.bwd,
         Grads(r, s, ba, FALSE, FALSE),
         \/ t.output_tensor_grads = s.output_tensor_grads
         \/ over /\ PaddedAt(s.output_tensor_grads, t.output_tensor_grads)
  PROVE  Grads(r, t, ba, FALSE, over)
<1> SUFFICES ASSUME NEW d \in Chunks PROVE GradsAre(r, t, ba, FALSE, over, d)
  BY DEF Grads
<1> DEFINE l == s.output_tensor_grads[d]
           m == t.output_tensor_grads[d]
           base == s.bwd[d]
           upto == Bwd(d, ba)
<1>2. l \in Seq(Tensors) /\ base \in Int
  BY ListTypes
<1>3. upto \in Int
  BY BwdFacts
<1>0. (FALSE /\ d = BwdChunk(ba - 1)) = FALSE
  OBVIOUS
<1>4. GradList(r, d, l, base, upto, FALSE, FALSE)
  <2>1. GradsAre(r, s, ba, FALSE, FALSE, d)
    BY DEF Grads
  <2>3. QED
    BY <1>0, <2>1, Zenon DEF GradsAre
<1>6. m = l \/ (over /\ m = Append(l, NoTensor))
  BY DEF PaddedAt
<1>7. GradList(r, d, m, base, upto, FALSE, over)
  <2> HIDE DEF l, m, base, upto
  <2>1. CASE m = l
    BY <1>2, <1>3, <1>4, <2>1, GradAdded
  <2>2. CASE over /\ m = Append(l, NoTensor)
    <3>1. over = TRUE
      BY <2>2
    <3>2. GradList(r, d, Append(l, NoTensor), base, upto, FALSE, TRUE)
      BY <1>2, <1>3, <1>4, GradAdded
    <3>3. QED
      BY <2>2, <3>1, <3>2
  <2>3. QED
    BY <1>6, <2>1, <2>2
<1>8. QED
  BY <1>0, <1>7, Zenon DEF GradsAre, l, m, base, upto

-----------------------------------------------------------------------------
(* One call of communicate.                                                  *)

(* What belongs to iteration x of rank r: its output, its gradient, where    *)
(* its input goes and where its gradient goes.                               *)
OutOf(r, x) == IF LastStage(r, FwdChunk(x)) THEN NoTensor
               ELSE Tensor(StageOf(r, FwdChunk(x)), Fwd(FwdChunk(x), x))
GradOf(r, x) == IF FirstStage(r, BwdChunk(x)) THEN NoTensor
                ELSE Tensor(StageOf(r, BwdChunk(x)), Bwd(BwdChunk(x), x))
AskAct(r, x) == IF FirstStage(r, FwdChunk(x)) THEN NoRecv ELSE FwdChunk(x)
AskGrad(r, x) == IF LastStage(r, BwdChunk(x)) THEN NoRecv ELSE BwdChunk(x)

(* A call hands over the output of iteration fs and the gradient of b and    *)
(* asks for the input of fa and the gradient of ba, or does without.         *)
Turn(cf, q, kind, peer, x, x2, value, none, due, h, handles) ==
  \/ x2 = x /\ value = none
  \/ /\ x2 = x + 1 /\ x \in 0 .. All(cf) - 1 /\ value = due
     /\ ~Has(q, kind, peer) /\ h \in handles
Ports(cf, r, fs, b, fa, ba, fs2, b2, fa2, ba2, q, sp, rp, sn, rn, h) ==
  /\ Turn(cf, q, "send", NextRank(r), fs, fs2, sn, NoTensor, OutOf(r, fs), h, FwdHandles(cf))
  /\ Turn(cf, q, "send", PrevRank(r), b, b2, sp, NoTensor, GradOf(r, b), h, BwdHandles(cf))
  /\ Turn(cf, q, "recv", PrevRank(r), fa, fa2, rp, NoRecv, AskAct(r, fa), h, FwdHandles(cf))
  /\ Turn(cf, q, "recv", NextRank(r), ba, ba2, rn, NoRecv, AskGrad(r, ba), h, BwdHandles(cf))

(* The slot of a counter after the call: in use unless the end of the        *)
(* pipeline needs no transfer.                                               *)
Slot(q, q2, kind, peer, x, x2, end) ==
  \/ x2 = x /\ (Has(q2, kind, peer) <=> Has(q, kind, peer))
  \/ x2 = x + 1 /\ ~Has(q, kind, peer) /\ (Has(q2, kind, peer) <=> ~end)
Slots(r, fs, b, fa, ba, fs2, b2, fa2, ba2, q, q2) ==
  /\ Slot(q, q2, "send", NextRank(r), fs, fs2, LastStage(r, FwdChunk(fs)))
  /\ Slot(q, q2, "send", PrevRank(r), b, b2, FirstStage(r, BwdChunk(b)))
  /\ Slot(q, q2, "recv", PrevRank(r), fa, fa2, FirstStage(r, FwdChunk(fa)))
  /\ Slot(q, q2, "recv", NextRank(r), ba, ba2, LastStage(r, BwdChunk(ba)))

(* The values of an iteration are there unless its end needs none. *)
LEMMA ValueFacts ==
  ASSUME NEW cf \in Configs, NEW r \in Ranks, NEW x \in 0 .. All(cf) - 1
  PROVE  /\ OutOf(r, x) # NoTensor <=> ~LastStage(r, FwdChunk(x))
         /\ GradOf(r, x) # NoTensor <=> ~FirstStage(r, BwdChunk(x))
         /\ AskAct(r, x) # NoRecv <=> ~FirstStage(r, FwdChunk(x))
         /\ AskGrad(r, x) # NoRecv <=> ~LastStage(r, BwdChunk(x))
<1>1. /\ FwdChunk(x) \in Chunks /\ BwdChunk(x) \in Chunks
      /\ Fwd(FwdChunk(x), x) \in Int /\ Bwd(BwdChunk(x), x) \in Int
      /\ Fwd(FwdChunk(x), x) \in Nat /\ Bwd(BwdChunk(x), x) \in Nat
      /\ Fwd(FwdChunk(x), x) < cf.microbatches /\ Bwd(BwdChunk(x), x) < cf.microbatches
  BY PassFacts
<1>2. StageOf(r, FwdChunk(x)) \in Nat /\ StageOf(r, BwdChunk(x)) \in Nat
  BY <1>1, StageTensors
<1>3. FwdChunk(x) # NoRecv /\ BwdChunk(x) # NoRecv
  BY <1>1, SizeFacts DEF Chunks, NoRecv
<1>4. QED
  BY <1>1, <1>2, <1>3, TensorFacts DEF OutOf, GradOf, AskAct, AskGrad

(* The operations of such a call are those a rank may post. *)
LEMMA PortsAreCalls ==
  ASSUME NEW cf \in Configs, NEW r \in Ranks, NEW fs \in Nat, NEW b \in Nat, NEW fa \in Nat,
         NEW ba \in Nat, NEW fs2, NEW b2, NEW fa2, NEW ba2, NEW q,
         NEW sp, NEW rp, NEW sn, NEW rn, NEW h,
         Ports(cf, r, fs, b, fa, ba, fs2, b2, fa2, ba2, q, sp, rp, sn, rn, h)
  PROVE  CallIs(cf, r, fs2, b2, fa2, ba2, q, sp, rp, sn, rn, h)
<1>1. ASSUME sp # NoTensor
      PROVE  /\ ~Has(q, "send", PrevRank(r))
             /\ IsGradTo(cf, r, b2 - 1, Op("send", PrevRank(r), sp, "none", NoRecv, h))
  <2>1. /\ b2 = b + 1 /\ b \in 0 .. All(cf) - 1 /\ sp = GradOf(r, b)
        /\ ~Has(q, "send", PrevRank(r)) /\ h \in BwdHandles(cf)
    BY <1>1 DEF Ports, Turn
  <2>2. b2 - 1 = b
    BY <2>1
  <2>3. ~FirstStage(r, BwdChunk(b))
    BY <1>1, <2>1, ValueFacts
  <2>4. sp = Tensor(StageOf(r, BwdChunk(b)), Bwd(BwdChunk(b), b))
    BY <2>1, <2>3 DEF GradOf
  <2>5. IsGradTo(cf, r, b, Op("send", PrevRank(r), sp, "none", NoRecv, h))
    BY <2>1, <2>3, <2>4, OpFacts DEF IsGradTo
  <2>6. QED
    BY <2>1, <2>2, <2>5
<1>2. ASSUME rp # NoRecv
      PROVE  /\ ~Has(q, "recv", PrevRank(r))
             /\ IsActFrom(cf, r, fa2 - 1, Op("recv", PrevRank(r), NoTensor, "input", rp, h))
  <2>1. /\ fa2 = fa + 1 /\ fa \in 0 .. All(cf) - 1 /\ rp = AskAct(r, fa)
        /\ ~Has(q, "recv", PrevRank(r)) /\ h \in FwdHandles(cf)
    BY <1>2 DEF Ports, Turn
  <2>2. fa2 - 1 = fa
    BY <2>1
  <2>3. ~FirstStage(r, FwdChunk(fa))
    BY <1>2, <2>1, ValueFacts
  <2>4. rp = FwdChunk(fa)
    BY <2>1, <2>3 DEF AskAct
  <2>5. IsActFrom(cf, r, fa, Op("recv", PrevRank(r), NoTensor, "input", rp, h))
    BY <2>1, <2>3, <2>4, OpFacts DEF IsActFrom
  <2>6. QED
    BY <2>1, <2>2, <2>5
<1>3. ASSUME sn # NoTensor
      PROVE  /\ ~Has(q, "send", NextRank(r))
             /\ IsActTo(cf, r, fs2 - 1, Op("send", NextRank(r), sn, "none", NoRecv, h))
  <2>1. /\ fs2 = fs + 1 /\ fs \in 0 .. All(cf) - 1 /\ sn = OutOf(r, fs)
        /\ ~Has(q, "send", NextRank(r)) /\ h \in FwdHandles(cf)
    BY <1>3 DEF Ports, Turn
  <2>2. fs2 - 1 = fs
    BY <2>1
  <2>3. ~LastStage(r, FwdChunk(fs))
    BY <1>3, <2>1, ValueFacts
  <2>4. sn = Tensor(StageOf(r, FwdChunk(fs)), Fwd(FwdChunk(fs), fs))
    BY <2>1, <2>3 DEF OutOf
  <2>5. IsActTo(cf, r, fs, Op("send", NextRank(r), sn, "none", NoRecv, h))
    BY <2>1, <2>3, <2>4, OpFacts DEF IsActTo
  <2>6. QED
    BY <2>1, <2>2, <2>5
<1>4. ASSUME rn # NoRecv
      PROVE  /\ ~Has(q, "recv", NextRank(r))
             /\ IsGradFrom(cf, r, ba2 - 1, Op("recv", NextRank(r), NoTensor, "grad", rn, h))
  <2>1. /\ ba2 = ba + 1 /\ ba \in 0 .. All(cf) - 1 /\ rn = AskGrad(r, ba)
        /\ ~Has(q, "recv", NextRank(r)) /\ h \in BwdHandles(cf)
    BY <1>4 DEF Ports, Turn
  <2>2. ba2 - 1 = ba
    BY <2>1
  <2>3. ~LastStage(r, BwdChunk(ba))
    BY <1>4, <2>1, ValueFacts
  <2>4. rn = BwdChunk(ba)
    BY <2>1, <2>3 DEF AskGrad
  <2>5. IsGradFrom(cf, r, ba, Op("recv", NextRank(r), NoTensor, "grad", rn, h))
    BY <2>1, <2>3, <2>4, OpFacts DEF IsGradFrom
  <2>6. QED
    BY <2>1, <2>2, <2>5
<1>5. QED
  BY <1>1, <1>2, <1>3, <1>4, Zenon DEF CallIs

(* What a rank has posted and which slots are in use after such a call. *)
LEMMA Exchange ==
  ASSUME NEW cf \in Configs, NEW r \in Ranks, NEW fs \in Nat, NEW b \in Nat, NEW fa \in Nat,
         NEW ba \in Nat, NEW fs2, NEW b2, NEW fa2, NEW ba2, NEW q,
         NEW batched \in BOOLEAN, NEW sp, NEW rp, NEW sn, NEW rn, NEW h,
         Posted(cf, r, fs, b, fa, ba, q),
         Ports(cf, r, fs, b, fa, ba, fs2, b2, fa2, ba2, q, sp, rp, sn, rn, h)
  PROVE  /\ Posted(cf, r, fs2, b2, fa2, ba2, q \o Communicate(batched, r, sp, rp, sn, rn, h))
         /\ Slots(r, fs, b, fa, ba, fs2, b2, fa2, ba2, q,
                  q \o Communicate(batched, r, sp, rp, sn, rn, h))
         /\ Communicate(batched, r, sp, rp, sn, rn, h) \in Seq(AnyOp)
<1> DEFINE call == Communicate(batched, r, sp, rp, sn, rn, h)
           u == q \o call
<1>1. Posted(cf, r, fs2, b2, fa2, ba2, q)
  <2>1. /\ fs2 = fs \/ ~Has(q, "send", NextRank(r))
        /\ b2 = b \/ ~Has(q, "send", PrevRank(r))
        /\ fa2 = fa \/ ~Has(q, "recv", PrevRank(r))
        /\ ba2 = ba \/ ~Has(q, "recv", NextRank(r))
    BY DEF Ports, Turn
  <2>2. QED
    BY <2>1, Repoint, Zenon
<1>2. CallIs(cf, r, fs2, b2, fa2, ba2, q, sp, rp, sn, rn, h)
  BY PortsAreCalls, Zenon
<1>3. /\ Posted(cf, r, fs2, b2, fa2, ba2, u)
      /\ SlotsAfter(r, q, u, sp, rp, sn, rn)
      /\ call \in Seq(AnyOp)
  BY <1>1, <1>2, PostCall, Zenon
<1> HIDE DEF call, u
<1>4. Slot(q, u, "send", NextRank(r), fs, fs2, LastStage(r, FwdChunk(fs)))
  <2>1. Turn(cf, q, "send", NextRank(r), fs, fs2, sn, NoTensor, OutOf(r, fs), h, FwdHandles(cf))
    BY DEF Ports
  <2>2. Has(u, "send", NextRank(r)) <=> Has(q, "send", NextRank(r)) \/ sn # NoTensor
    BY <1>3 DEF SlotsAfter
  <2>3. CASE fs2 = fs /\ sn = NoTensor
    BY <2>2, <2>3 DEF Slot
  <2>4. CASE /\ fs2 = fs + 1 /\ fs \in 0 .. All(cf) - 1 /\ sn = OutOf(r, fs)
             /\ ~Has(q, "send", NextRank(r))
    <3>1. sn # NoTensor <=> ~LastStage(r, FwdChunk(fs))
      BY <2>4, ValueFacts
    <3>2. QED
      BY <2>2, <2>4, <3>1 DEF Slot
  <2>5. QED
    BY <2>1, <2>3, <2>4 DEF Turn
<1>5. Slot(q, u, "send", PrevRank(r), b, b2, FirstStage(r, BwdChunk(b)))
  <2>1. Turn(cf, q, "send", PrevRank(r), b, b2, sp, NoTensor, GradOf(r, b), h, BwdHandles(cf))
    BY DEF Ports
  <2>2. Has(u, "send", PrevRank(r)) <=> Has(q, "send", PrevRank(r)) \/ sp # NoTensor
    BY <1>3 DEF SlotsAfter
  <2>3. CASE b2 = b /\ sp = NoTensor
    BY <2>2, <2>3 DEF Slot
  <2>4. CASE /\ b2 = b + 1 /\ b \in 0 .. All(cf) - 1 /\ sp = GradOf(r, b)
             /\ ~Has(q, "send", PrevRank(r))
    <3>1. sp # NoTensor <=> ~FirstStage(r, BwdChunk(b))
      BY <2>4, ValueFacts
    <3>2. QED
      BY <2>2, <2>4, <3>1 DEF Slot
  <2>5. QED
    BY <2>1, <2>3, <2>4 DEF Turn
<1>6. Slot(q, u, "recv", PrevRank(r), fa, fa2, FirstStage(r, FwdChunk(fa)))
  <2>1. Turn(cf, q, "recv", PrevRank(r), fa, fa2, rp, NoRecv, AskAct(r, fa), h, FwdHandles(cf))
    BY DEF Ports
  <2>2. Has(u, "recv", PrevRank(r)) <=> Has(q, "recv", PrevRank(r)) \/ rp # NoRecv
    BY <1>3 DEF SlotsAfter
  <2>3. CASE fa2 = fa /\ rp = NoRecv
    BY <2>2, <2>3 DEF Slot
  <2>4. CASE /\ fa2 = fa + 1 /\ fa \in 0 .. All(cf) - 1 /\ rp = AskAct(r, fa)
             /\ ~Has(q, "recv", PrevRank(r))
    <3>1. rp # NoRecv <=> ~FirstStage(r, FwdChunk(fa))
      BY <2>4, ValueFacts
    <3>2. QED
      BY <2>2, <2>4, <3>1 DEF Slot
  <2>5. QED
    BY <2>1, <2>3, <2>4 DEF Turn
<1>7. Slot(q, u, "recv", NextRank(r), ba, ba2, LastStage(r, BwdChunk(ba)))
  <2>1. Turn(cf, q, "recv", NextRank(r), ba, ba2, rn, NoRecv, AskGrad(r, ba), h, BwdHandles(cf))
    BY DEF Ports
  <2>2. Has(u, "recv", NextRank(r)) <=> Has(q, "recv", NextRank(r)) \/ rn # NoRecv
    BY <1>3 DEF SlotsAfter
  <2>3. CASE ba2 = ba /\ rn = NoRecv
    BY <2>2, <2>3 DEF Slot
  <2>4. CASE /\ ba2 = ba + 1 /\ ba \in 0 .. All(cf) - 1 /\ rn = AskGrad(r, ba)
             /\ ~Has(q, "recv", NextRank(r))
    <3>1. rn # NoRecv <=> ~LastStage(r, BwdChunk(ba))
      BY <2>4, ValueFacts
    <3>2. QED
      BY <2>2, <2>4, <3>1 DEF Slot
  <2>5. QED
    BY <2>1, <2>3, <2>4 DEF Turn
<1>8. QED
  BY <1>3, <1>4, <1>5, <1>6, <1>7, Zenon DEF Slots, u, call

(* A slot that no iteration may use is free. *)
LEMMA Unused ==
  ASSUME NEW cf \in Configs, NEW r \in Ranks, NEW fs, NEW b, NEW fa, NEW ba, NEW q,
         Posted(cf, r, fs, b, fa, ba, q)
  PROVE  /\ fs = 0 => ~Has(q, "send", NextRank(r))
         /\ b = 0 => ~Has(q, "send", PrevRank(r))
         /\ fa = 0 => ~Has(q, "recv", PrevRank(r))
         /\ ba = 0 => ~Has(q, "recv", NextRank(r))
<1>1. PrevRank(r) # NextRank(r) /\ All(cf) \in Nat
  BY RingFacts, AllSize
<1>2. ASSUME NEW n \in DOMAIN q PROVE Known(cf, r, fs, b, fa, ba, q[n])
  BY DEF Posted
<1>3. QED
  BY <1>1, <1>2 DEF Has, Known, IsActTo, IsGradTo, IsActFrom, IsGradFrom

(* The four counters of the links of a rank. *)
Balance(r, fs, b, fa, ba, q) ==
  << Left(r = P - 1, fs) - One(Has(q, "send", NextRank(r))),
     Taken(r = 0, fa) - One(Has(q, "recv", PrevRank(r))),
     Left(r = 0, b) - One(Has(q, "send", PrevRank(r))),
     Taken(r = P - 1, ba) - One(Has(q, "recv", NextRank(r))) >>

(* A slot of an end where tensors leave, of one where they are taken. *)
LeavesAt(q, q2, kind, peer, x, x2, end) ==
  Slot(q, q2, kind, peer, x, x2, end /\ FwdChunk(x) = V - 1)
TakesAt(q, q2, kind, peer, x, x2, end) ==
  Slot(q, q2, kind, peer, x, x2, end /\ FwdChunk(x) = 0)
SameLeft(q, q2, kind, peer, x, x2, end) ==
  Left(end, x2) - One(Has(q2, kind, peer)) = Left(end, x) - One(Has(q, kind, peer))
SameTaken(q, q2, kind, peer, x, x2, end) ==
  Taken(end, x2) - One(Has(q2, kind, peer)) = Taken(end, x) - One(Has(q, kind, peer))

(* Posting an operation does not change what has left. *)
LEMMA LeftKept ==
  ASSUME NEW q, NEW q2, NEW kind, NEW peer, NEW x \in Nat, NEW x2, NEW end \in BOOLEAN,
         LeavesAt(q, q2, kind, peer, x, x2, end)
  PROVE  SameLeft(q, q2, kind, peer, x, x2, end)
<1>1. Left(end, x) \in Nat /\ Left(end, x + 1) = Left(end, x) + One(~(end /\ FwdChunk(x) = V - 1))
  BY LinkCounts
<1>2. CASE x2 = x /\ (Has(q2, kind, peer) <=> Has(q, kind, peer))
  BY <1>2 DEF One, SameLeft
<1>3. CASE /\ x2 = x + 1 /\ ~Has(q, kind, peer)
           /\ (Has(q2, kind, peer) <=> ~(end /\ FwdChunk(x) = V - 1))
  <2>1. One(Has(q, kind, peer)) = 0
        /\ One(Has(q2, kind, peer)) = One(~(end /\ FwdChunk(x) = V - 1))
    BY <1>3 DEF One
  <2>2. One(~(end /\ FwdChunk(x) = V - 1)) \in Nat
    BY DEF One
  <2>3. QED
    BY <1>1, <1>3, <2>1, <2>2 DEF SameLeft
<1>4. QED
  BY <1>2, <1>3 DEF Slot, LeavesAt

(* Nor what was taken. *)
LEMMA TakenKept ==
  ASSUME NEW q, NEW q2, NEW kind, NEW peer, NEW x \in Nat, NEW x2, NEW end \in BOOLEAN,
         TakesAt(q, q2, kind, peer, x, x2, end)
  PROVE  SameTaken(q, q2, kind, peer, x, x2, end)
<1>1. Taken(end, x) \in Nat /\ Taken(end, x + 1) = Taken(end, x) + One(~(end /\ FwdChunk(x) = 0))
  BY LinkCounts
<1>2. CASE x2 = x /\ (Has(q2, kind, peer) <=> Has(q, kind, peer))
  BY <1>2 DEF One, SameTaken
<1>3. CASE /\ x2 = x + 1 /\ ~Has(q, kind, peer)
           /\ (Has(q2, kind, peer) <=> ~(end /\ FwdChunk(x) = 0))
  <2>1. One(Has(q, kind, peer)) = 0
        /\ One(Has(q2, kind, peer)) = One(~(end /\ FwdChunk(x) = 0))
    BY <1>3 DEF One
  <2>2. One(~(end /\ FwdChunk(x) = 0)) \in Nat
    BY DEF One
  <2>3. QED
    BY <1>1, <1>3, <2>1, <2>2 DEF SameTaken
<1>4. QED
  BY <1>2, <1>3 DEF Slot, TakesAt

(* Posting an operation is not completing it. *)
LEMMA Balanced ==
  ASSUME NEW cf \in Configs, NEW r \in Ranks, NEW fs \in Nat, NEW b \in Nat, NEW fa \in Nat,
         NEW ba \in Nat, NEW fs2, NEW b2, NEW fa2, NEW ba2, NEW q, NEW q2,
         Slots(r, fs, b, fa, ba, fs2, b2, fa2, ba2, q, q2)
  PROVE  Balance(r, fs2, b2, fa2, ba2, q2) = Balance(r, fs, b, fa, ba, q)
<1>0. /\ (r = P - 1) \in BOOLEAN /\ (r = 0) \in BOOLEAN
  OBVIOUS
<1>1. ASSUME NEW x \in Nat
      PROVE  /\ LastStage(r, FwdChunk(x)) <=> (r = P - 1) /\ FwdChunk(x) = V - 1
             /\ FirstStage(r, FwdChunk(x)) <=> (r = 0) /\ FwdChunk(x) = 0
             /\ FirstStage(r, BwdChunk(x)) <=> (r = 0) /\ FwdChunk(x) = V - 1
             /\ LastStage(r, BwdChunk(x)) <=> (r = P - 1) /\ FwdChunk(x) = 0
  <2>1. /\ FwdChunk(x) \in Nat /\ BwdChunk(x) \in Nat /\ BwdChunk(x) = V - 1 - FwdChunk(x)
    BY ChunkFacts DEF Chunks
  <2>2. QED
    BY <2>1, SizeFacts DEF LastStage, FirstStage
<1>4. SameLeft(q, q2, "send", NextRank(r), fs, fs2, r = P - 1)
  <2>1. LastStage(r, FwdChunk(fs)) = ((r = P - 1) /\ FwdChunk(fs) = V - 1)
    BY <1>1 DEF LastStage, FirstStage
  <2>2. Slot(q, q2, "send", NextRank(r), fs, fs2, ((r = P - 1) /\ FwdChunk(fs) = V - 1))
    BY <2>1 DEF Slots
  <2>3. LeavesAt(q, q2, "send", NextRank(r), fs, fs2, r = P - 1)
    BY <2>2, Zenon DEF LeavesAt
  <2>4. QED
    BY <1>0, <2>3, LeftKept, Zenon
<1>5. SameTaken(q, q2, "recv", PrevRank(r), fa, fa2, r = 0)
  <2>1. FirstStage(r, FwdChunk(fa)) = ((r = 0) /\ FwdChunk(fa) = 0)
    BY <1>1 DEF LastStage, FirstStage
  <2>2. Slot(q, q2, "recv", PrevRank(r), fa, fa2, ((r = 0) /\ FwdChunk(fa) = 0))
    BY <2>1 DEF Slots
  <2>3. TakesAt(q, q2, "recv", PrevRank(r), fa, fa2, r = 0)
    BY <2>2, Zenon DEF TakesAt
  <2>4. QED
    BY <1>0, <2>3, TakenKept, Zenon
<1>6. SameLeft(q, q2, "send", PrevRank(r), b, b2, r = 0)
  <2>1. FirstStage(r, BwdChunk(b)) = ((r = 0) /\ FwdChunk(b) = V - 1)
    BY <1>1 DEF LastStage, FirstStage
  <2>2. Slot(q, q2, "send", PrevRank(r), b, b2, ((r = 0) /\ FwdChunk(b) = V - 1))
    BY <2>1 DEF Slots
  <2>3. LeavesAt(q, q2, "send", PrevRank(r), b, b2, r = 0)
    BY <2>2, Zenon DEF LeavesAt
  <2>4. QED
    BY <1>0, <2>3, LeftKept, Zenon
<1>7. SameTaken(q, q2, "recv", NextRank(r), ba, ba2, r = P - 1)
  <2>1. LastStage(r, BwdChunk(ba)) = ((r = P - 1) /\ FwdChunk(ba) = 0)
    BY <1>1 DEF LastStage, FirstStage
  <2>2. Slot(q, q2, "recv", NextRank(r), ba, ba2, ((r = P - 1) /\ FwdChunk(ba) = 0))
    BY <2>1 DEF Slots
  <2>3. TakesAt(q, q2, "recv", NextRank(r), ba, ba2, r = P - 1)
    BY <2>2, Zenon DEF TakesAt
  <2>4. QED
    BY <1>0, <2>3, TakenKept, Zenon
<1>8. QED
  BY <1>4, <1>5, <1>6, <1>7, Zenon DEF Balance, SameLeft, SameTaken

-----------------------------------------------------------------------------
(* The parts of a step.                                                      *)

(* Where a receive goes. *)
LEMMA RecvValues ==
  ASSUME NEW r \in Ranks, NEW k \in Nat
  PROVE  /\ WarmupRecvPrev(r, k) = IF k = Total - 1 THEN NoRecv ELSE AskAct(r, k + 1)
         /\ SteadyRecvPrev(r, k) = IF k = Total - 1 THEN NoRecv ELSE AskAct(r, k + 1)
         /\ SteadyRecvNext(r, k) = AskGrad(r, k + 1)
         /\ CooldownRecvNext(r, k) = IF k = Total - 1 THEN NoRecv ELSE AskGrad(r, k + 1)
<1>0. P \in Nat /\ P > 2 /\ V \in Nat /\ V > 1
  BY SizeFacts
<1>1. PICK y \in Int : y = k + 1
  OBVIOUS
<1>2. PICK x \in Int : x = k - (P - 1)
  BY <1>0
<1>3. x + P = y
  BY <1>0, <1>1, <1>2
<1>4. /\ FwdChunk(y) = IF FwdChunk(x) = V - 1 THEN 0 ELSE FwdChunk(x) + 1
      /\ FwdChunk(x) \in Chunks /\ FwdChunk(y) \in Chunks
      /\ BwdChunk(x) = V - 1 - FwdChunk(x) /\ BwdChunk(y) = V - 1 - FwdChunk(y)
  BY <1>3, FwdShift, ChunkFacts
<1>5. /\ ChunkId(k + 1, TRUE) = FwdChunk(y) /\ ChunkId(k - (P - 1), TRUE) = FwdChunk(x)
      /\ ChunkId(k + 1, FALSE) = BwdChunk(y) /\ ChunkId(k - (P - 1), FALSE) = BwdChunk(x)
  BY <1>1, <1>2 DEF FwdChunk, BwdChunk
<1>6. FwdChunk(x) \in Nat /\ FwdChunk(y) \in Nat
  BY <1>4 DEF Chunks
<1> HIDE DEF FwdChunk, BwdChunk
<1>7. WarmupRecvPrev(r, k) = IF k = Total - 1 THEN NoRecv ELSE AskAct(r, y)
  BY <1>5, Zenon DEF WarmupRecvPrev, AskAct, FirstStage
<1>8. SteadyRecvPrev(r, k) = IF k = Total - 1 THEN NoRecv ELSE AskAct(r, y)
  <2>1. SteadyRecvPrev(r, k) = IF k = Total - 1 \/ (r = 0 /\ FwdChunk(x) = V - 1) THEN NoRecv
                               ELSE IF r = 0 THEN FwdChunk(x) + 1 ELSE FwdChunk(y)
    BY <1>5, Zenon DEF SteadyRecvPrev
  <2>2. AskAct(r, y) = IF r = 0 /\ FwdChunk(y) = 0 THEN NoRecv ELSE FwdChunk(y)
    BY DEF AskAct, FirstStage
  <2>3. (FwdChunk(x) = V - 1 <=> FwdChunk(y) = 0)
        /\ (FwdChunk(x) # V - 1 => FwdChunk(y) = FwdChunk(x) + 1)
    BY <1>0, <1>4, <1>6
  <2>4. QED
    BY <2>1, <2>2, <2>3
<1>9. SteadyRecvNext(r, k) = AskGrad(r, y)
  <2>1. SteadyRecvNext(r, k) = IF r = P - 1 /\ BwdChunk(x) = 0 THEN NoRecv
                               ELSE IF r = P - 1 THEN BwdChunk(x) - 1 ELSE BwdChunk(y)
    BY <1>5, Zenon DEF SteadyRecvNext
  <2>2. AskGrad(r, y) = IF r = P - 1 /\ BwdChunk(y) = V - 1 THEN NoRecv ELSE BwdChunk(y)
    BY DEF AskGrad, LastStage
  <2>3. (BwdChunk(x) = 0 <=> BwdChunk(y) = V - 1)
        /\ (BwdChunk(x) # 0 => BwdChunk(y) = BwdChunk(x) - 1)
    BY <1>0, <1>4, <1>6
  <2>4. QED
    BY <2>1, <2>2, <2>3
<1>10. CooldownRecvNext(r, k) = IF k = Total - 1 THEN NoRecv ELSE AskGrad(r, y)
  <2>1. CooldownRecvNext(r, k) = IF (r = P - 1 /\ BwdChunk(y) = V - 1) \/ k = Total - 1
                                 THEN NoRecv ELSE BwdChunk(y)
    BY <1>5, Zenon DEF CooldownRecvNext
  <2>2. AskGrad(r, y) = IF r = P - 1 /\ BwdChunk(y) = V - 1 THEN NoRecv ELSE BwdChunk(y)
    BY DEF AskGrad, LastStage
  <2>3. QED
    BY <2>1, <2>2
<1>11. QED
  BY <1>1, <1>7, <1>8, <1>9, <1>10

(* Two ways to put a received tensor, or a placeholder, into its list. *)
PutAt(lists, c, recv) == [lists EXCEPT ![c] = Append(lists[c], Received(recv))]
SetAt(lists, recv) == [d \in Chunks |-> IF d = recv THEN Append(lists[d], Empty) ELSE lists[d]]
AskedTo(lists, lists2, c, end) ==
  lists2 \in [Chunks -> Seq(Tensors)] /\ AskedAt(lists, lists2, c, end)

(* A placeholder for nothing, a buffer for a tensor. *)
LEMMA ReceivedFacts ==
  /\ Empty \in Tensors /\ NoTensor \in Tensors
  /\ Received(NoRecv) = NoTensor
  /\ \A c \in Chunks : c # NoRecv /\ Received(c) = Empty
<1>1. \A c \in Chunks : c # NoRecv
  BY SizeFacts DEF Chunks, NoRecv
<1>2. QED
  BY <1>1 DEF Tensors, Received

(* The first way. *)
LEMMA PutList ==
  ASSUME NEW lists \in [Chunks -> Seq(Tensors)], NEW c \in Chunks, NEW end \in BOOLEAN,
         NEW recv, recv = (IF end THEN NoRecv ELSE c)
  PROVE  AskedTo(lists, PutAt(lists, c, recv), c, end)
<1>1. Received(recv) = (IF end THEN NoTensor ELSE Empty) /\ Received(recv) \in Tensors
  BY ReceivedFacts
<1>2. Append(lists[c], Received(recv)) \in Seq(Tensors)
  <2>1. lists[c] \in Seq(Tensors)
    OBVIOUS
  <2>2. QED
    BY <1>1, <2>1
<1>3. /\ PutAt(lists, c, recv) \in [Chunks -> Seq(Tensors)]
      /\ \A d \in Chunks : PutAt(lists, c, recv)[d]
                            = IF d = c THEN Append(lists[c], Received(recv)) ELSE lists[d]
  BY <1>2 DEF PutAt
<1>4. AskedAt(lists, PutAt(lists, c, recv), c, end)
  BY <1>1, <1>3 DEF AskedAt
<1>5. QED
  BY <1>3, <1>4 DEF AskedTo

(* The second way. *)
LEMMA SetList ==
  ASSUME NEW lists \in [Chunks -> Seq(Tensors)], NEW c \in Chunks, NEW end \in BOOLEAN,
         NEW recv, recv = (IF end THEN NoRecv ELSE c)
  PROVE  AskedTo(lists, SetAt(lists, recv), c, end)
<1>1. \A d \in Chunks : lists[d] \in Seq(Tensors) /\ Append(lists[d], Empty) \in Seq(Tensors)
  <2> SUFFICES ASSUME NEW d \in Chunks
               PROVE  lists[d] \in Seq(Tensors) /\ Append(lists[d], Empty) \in Seq(Tensors)
    OBVIOUS
  <2>1. lists[d] \in Seq(Tensors)
    OBVIOUS
  <2>2. QED
    BY <2>1, ReceivedFacts
<1>2. SetAt(lists, recv) \in [Chunks -> Seq(Tensors)]
  BY <1>1 DEF SetAt
<1>3. AskedAt(lists, SetAt(lists, recv), c, end)
  BY ReceivedFacts DEF SetAt, AskedAt
<1>4. QED
  BY <1>2, <1>3 DEF AskedTo

(* And for nothing. *)
LEMMA PutNothing ==
  ASSUME NEW lists \in [Chunks -> Seq(Tensors)], NEW c \in Chunks
  PROVE  /\ PutAt(lists, c, NoRecv) \in [Chunks -> Seq(Tensors)]
         /\ PaddedAt(lists, PutAt(lists, c, NoRecv))
         /\ SetAt(lists, NoRecv) = lists
<1>1. lists[c] \in Seq(Tensors)
  OBVIOUS
<1>2. Append(lists[c], Received(NoRecv)) \in Seq(Tensors)
  BY <1>1, ReceivedFacts
<1>3. PutAt(lists, c, NoRecv) \in [Chunks -> Seq(Tensors)]
  BY <1>2 DEF PutAt
<1>4. PaddedAt(lists, PutAt(lists, c, NoRecv))
  BY ReceivedFacts DEF PutAt, PaddedAt
<1>5. SetAt(lists, NoRecv) = lists
  <2>1. \A d \in Chunks : (IF d = NoRecv THEN Append(lists[d], Empty) ELSE lists[d]) = lists[d]
    BY ReceivedFacts
  <2>2. lists = [d \in Chunks |-> lists[d]]
    OBVIOUS
  <2>3. QED
    BY <2>1, <2>2 DEF SetAt
<1>6. QED
  BY <1>3, <1>4, <1>5

(* What a rank holds when it ran f forward and b backward passes and asked   *)
(* for fa inputs and ba gradients.                                           *)
Core(cf, r, s, f, b, fa, ba, hf, hb, of, ob) ==
  /\ s \in LocalType(cf) /\ Counts(s, f, b) /\ Outputs(cf, r, s)
  /\ Inputs(cf, r, s, fa, hf, of) /\ Grads(r, s, ba, hb, ob)
  /\ GradsHanded(cf, r, s, b) /\ ParamsLaunched(r, s, f)

(* The counters of a rank's program point. *)
PointsAre(cf, r, s, f, fs, b, fa, ba) ==
  /\ FwdDone(cf, r, s) = f /\ FwdSent(cf, r, s) = fs /\ BwdDone(cf, r, s) = b
  /\ FwdAsked(cf, r, s) = fa /\ BwdAsked(cf, r, s) = ba

(* A rank with the iteration before it. *)
LEMMA Opens ==
  ASSUME NEW cf, NEW r, NEW s, NEW q, LocalInv(cf, r, s, q), s.phase # "done",
         NEW f, NEW fs, NEW b, NEW fa, NEW ba, PointsAre(cf, r, s, f, fs, b, fa, ba)
  PROVE  /\ Core(cf, r, s, f, b, fa, ba, Has(q, "recv", PrevRank(r)), Has(q, "recv", NextRank(r)),
                 f = All(cf), b = All(cf))
         /\ Posted(cf, r, fs, b, fa, ba, q) /\ Counter(cf, r, s)
         /\ s.phase = "steady_bwd" => OutputIs(r, s, s.k)
BY Zenon DEF LocalInv, Core, PointsAre

(* A rank after the iteration. *)
LEMMA Closes ==
  ASSUME NEW cf, NEW r, NEW t, NEW q, NEW f, NEW fs, NEW b, NEW fa, NEW ba,
         NEW hf, NEW hb, NEW of, NEW ob,
         PointsAre(cf, r, t, f, fs, b, fa, ba), Core(cf, r, t, f, b, fa, ba, hf, hb, of, ob),
         Posted(cf, r, fs, b, fa, ba, q), Counter(cf, r, t),
         ~(t.phase = "done" /\ ~cf.forwardOnly),
         t.phase = "steady_bwd" => OutputIs(r, t, t.k),
         hf = Has(q, "recv", PrevRank(r)), hb = Has(q, "recv", NextRank(r)),
         of = (f = All(cf)), ob = (b = All(cf))
  PROVE  LocalInv(cf, r, t, q)
BY Zenon DEF LocalInv, Core, PointsAre

(* What a step of a rank may change: it runs one pass at most, whose tensor  *)
(* has arrived.                                                              *)
Advances(cf, r, s, q, t, q2) ==
  /\ LocalInv(cf, r, t, q2)
  /\ ActsOut(cf, r, t, q2) = ActsOut(cf, r, s, q) /\ ActsIn(cf, r, t, q2) = ActsIn(cf, r, s, q)
  /\ GradsOut(cf, r, t, q2) = GradsOut(cf, r, s, q) /\ GradsIn(cf, r, t, q2) = GradsIn(cf, r, s, q)
  /\ \/ FwdDone(cf, r, t) = FwdDone(cf, r, s) /\ BwdDone(cf, r, t) = BwdDone(cf, r, s)
     \/ /\ FwdDone(cf, r, t) = FwdDone(cf, r, s) + 1 /\ BwdDone(cf, r, t) = BwdDone(cf, r, s)
        /\ FwdDone(cf, r, s) \in 0 .. All(cf) - 1
        /\ FwdAsked(cf, r, s) = FwdDone(cf, r, s) + 1 /\ ~Has(q, "recv", PrevRank(r))
     \/ /\ FwdDone(cf, r, t) = FwdDone(cf, r, s) /\ BwdDone(cf, r, t) = BwdDone(cf, r, s) + 1
        /\ BwdDone(cf, r, s) \in 0 .. All(cf) - 1
        /\ BwdAsked(cf, r, s) = BwdDone(cf, r, s) + 1 /\ ~Has(q, "recv", NextRank(r))
        /\ FwdDone(cf, r, s) \in Nat
        /\ Trails(cf, FwdDone(cf, r, s), BwdDone(cf, r, s) + 1)
Moves(r) ==
  /\ conf' = conf
  /\ rank' = [rank EXCEPT ![r] = rank'[r]]
  /\ pend' = [pend EXCEPT ![r] = pend'[r]]
  /\ Advances(conf, r, rank[r], pend[r], rank'[r], pend'[r])

(* A step that posts in free slots and keeps the rank's own invariant. *)
LEMMA StepAdvances ==
  ASSUME NEW cf \in Configs, NEW r \in Ranks, NEW s, NEW q, NEW t, NEW q2,
         NEW f \in Nat, NEW fs \in Nat, NEW b \in Nat, NEW fa \in Nat, NEW ba \in Nat,
         NEW f2, NEW fs2, NEW b2, NEW fa2, NEW ba2,
         PointsAre(cf, r, s, f, fs, b, fa, ba), PointsAre(cf, r, t, f2, fs2, b2, fa2, ba2),
         LocalInv(cf, r, t, q2), Slots(r, fs, b, fa, ba, fs2, b2, fa2, ba2, q, q2),
         \/ f2 = f /\ b2 = b
         \/ /\ f2 = f + 1 /\ b2 = b /\ f \in 0 .. All(cf) - 1
            /\ fa = f + 1 /\ ~Has(q, "recv", PrevRank(r))
         \/ /\ f2 = f /\ b2 = b + 1 /\ b \in 0 .. All(cf) - 1
            /\ ba = b + 1 /\ ~Has(q, "recv", NextRank(r)) /\ Trails(cf, f, b + 1)
  PROVE  Advances(cf, r, s, q, t, q2)
<1>1. Balance(r, fs2, b2, fa2, ba2, q2) = Balance(r, fs, b, fa, ba, q)
  BY Balanced
<1>2. /\ <<ActsOut(cf, r, s, q), ActsIn(cf, r, s, q), GradsOut(cf, r, s, q), GradsIn(cf, r, s, q)>>
           = Balance(r, fs, b, fa, ba, q)
      /\ <<ActsOut(cf, r, t, q2), ActsIn(cf, r, t, q2), GradsOut(cf, r, t, q2), GradsIn(cf, r, t, q2)>>
           = Balance(r, fs2, b2, fa2, ba2, q2)
  BY Zenon DEF Balance, PointsAre, ActsOut, ActsIn, GradsOut, GradsIn
<1>3. /\ ActsOut(cf, r, t, q2) = ActsOut(cf, r, s, q) /\ ActsIn(cf, r, t, q2) = ActsIn(cf, r, s, q)
      /\ GradsOut(cf, r, t, q2) = GradsOut(cf, r, s, q) /\ GradsIn(cf, r, t, q2) = GradsIn(cf, r, s, q)
  BY <1>1, <1>2
<1>4. QED
  BY <1>3, Zenon DEF Advances, PointsAre

(* t is s at another program point and with other lists of what it received. *)
Relists(s, t) ==
  /\ t.output_tensors = s.output_tensors /\ t.output_tensor = s.output_tensor
  /\ t.input_tensor_grad = s.input_tensor_grad
  /\ t.drawn = s.drawn /\ t.bwd = s.bwd /\ t.no_sync = s.no_sync
  /\ t.synchronized = s.synchronized /\ t.grad_syncs = s.grad_syncs
  /\ t.param_syncs = s.param_syncs
Relisted(s, p, k, ins, gs) ==
  [s EXCEPT !.k = k, !.phase = p, !.input_tensors = ins, !.output_tensor_grads = gs]

RelistsTo(cf, s, t, p, k, ins, gs) ==
  /\ t \in LocalType(cf) /\ Relists(s, t) /\ t.phase = p /\ t.k = k
  /\ t.input_tensors = ins /\ t.output_tensor_grads = gs

(* It keeps its type. *)
LEMMA RelistedFacts ==
  ASSUME NEW cf, NEW s \in LocalType(cf), NEW p \in Phases, NEW k \in 0 .. All(cf),
         NEW ins \in [Chunks -> Seq(Tensors)], NEW gs \in [Chunks -> Seq(Tensors)]
  PROVE  RelistsTo(cf, s, Relisted(s, p, k, ins, gs), p, k, ins, gs)
BY DEF Relisted, Relists, RelistsTo, LocalType

(* One forward pass. *)
LEMMA CoreForward ==
  ASSUME conf \in Configs, NEW r \in Ranks, NEW s, NEW k \in 0 .. All(conf) - 1, NEW b \in Nat,
         NEW ba, NEW hb, NEW ob,
         Core(conf, r, s, k, b, k + 1, ba, FALSE, hb, FALSE, ob), Trails(conf, k, b)
  PROVE  /\ Core(conf, r, ForwardStepHelper(s, r, k), k + 1, b, k + 1, ba, FALSE, hb, FALSE, ob)
         /\ OutputIs(r, ForwardStepHelper(s, r, k), k)
         /\ ForwardStepHelper(s, r, k).phase = s.phase /\ ForwardStepHelper(s, r, k).k = s.k
         /\ ForwardStepHelper(s, r, k).output_tensor = OutOf(r, k)
<1> DEFINE t == ForwardStepHelper(s, r, k)
<1>1. /\ s \in LocalType(conf) /\ Counts(s, k, b) /\ Outputs(conf, r, s)
      /\ Inputs(conf, r, s, k + 1, FALSE, FALSE) /\ Grads(r, s, ba, hb, ob)
      /\ GradsHanded(conf, r, s, b) /\ ParamsLaunched(r, s, k)
  BY DEF Core
<1>2. k \in Nat /\ \A d \in Chunks : Bwd(d, b) <= Fwd(d, k)
  BY PassFacts, Trailing
<1>3. ForwardDoes(r, s, k, b, t)
  BY <1>1, <1>2, ForwardStepFacts
<1> HIDE DEF t
<1>9. /\ t \in LocalType(conf) /\ OutputIs(r, t, k) /\ t.phase = s.phase /\ t.k = s.k
      /\ Counts(t, k + 1, b) /\ Outputs(conf, r, t) /\ Inputs(conf, r, t, k + 1, FALSE, FALSE)
  BY <1>3 DEF ForwardDoes
<1>4. Grads(r, t, ba, hb, ob)
  BY <1>1, <1>3 DEF Grads, GradsAre, ForwardDoes
<1>5. GradsHanded(conf, r, t, b)
  BY <1>1, <1>3 DEF GradsHanded, ForwardDoes
<1>6. ParamsLaunched(r, t, k + 1)
  BY <1>1, <1>3, ParamStep DEF ForwardDoes
<1>7. t.output_tensor = OutOf(r, k)
  BY <1>3 DEF OutputIs, OutOf, ForwardDoes
<1>8. QED
  BY <1>9, <1>4, <1>5, <1>6, <1>7, Zenon DEF Core, t

(* One backward pass. *)
LEMMA CoreBackward ==
  ASSUME conf \in Configs, ~conf.forwardOnly, NEW r \in Ranks, NEW s,
         NEW k \in 0 .. All(conf) - 1, NEW f \in Nat, NEW fa \in Nat, f <= fa,
         NEW hf, NEW of,
         Core(conf, r, s, f, k, fa, k + 1, hf, FALSE, of, FALSE), Trails(conf, f, k + 1)
  PROVE  /\ Core(conf, r, BackwardStepHelper(s, r, k), f, k + 1, fa, k + 1, hf, FALSE, of, FALSE)
         /\ BackwardStepHelper(s, r, k).phase = s.phase /\ BackwardStepHelper(s, r, k).k = s.k
         /\ BackwardStepHelper(s, r, k).input_tensor_grad = GradOf(r, k)
         /\ BackwardStepHelper(s, r, k).output_tensor = s.output_tensor
<1> DEFINE t == BackwardStepHelper(s, r, k)
<1>1. /\ s \in LocalType(conf) /\ Counts(s, f, k) /\ Outputs(conf, r, s)
      /\ Inputs(conf, r, s, fa, hf, of) /\ Grads(r, s, k + 1, FALSE, FALSE)
      /\ GradsHanded(conf, r, s, k) /\ ParamsLaunched(r, s, f)
  BY DEF Core
<1>2. \A d \in Chunks : Bwd(d, k + 1) <= Fwd(d, f)
  <2>1. k + 1 \in Nat
    BY PassFacts
  <2>2. QED
    BY <2>1, Trailing
<1>3. /\ t \in LocalType(conf)
      /\ t.phase = s.phase /\ t.k = s.k /\ t.output_tensor = s.output_tensor
      /\ t.drawn = s.drawn /\ t.param_syncs = s.param_syncs
      /\ t.input_tensor_grad = IF FirstStage(r, BwdChunk(k)) THEN NoTensor
                               ELSE Tensor(StageOf(r, BwdChunk(k)), Bwd(BwdChunk(k), k))
      /\ Counts(t, f, k + 1) /\ Outputs(conf, r, t) /\ Inputs(conf, r, t, fa, hf, of)
      /\ Grads(r, t, k + 1, FALSE, FALSE)
      /\ GradsHanded(conf, r, t, k + 1)
  BY <1>1, <1>2, BackwardStepFacts
<1> HIDE DEF t
<1>4. ParamsLaunched(r, t, f)
  BY <1>1, <1>3 DEF ParamsLaunched
<1>5. t.input_tensor_grad = GradOf(r, k)
  BY <1>3 DEF GradOf
<1>6. QED
  BY <1>3, <1>4, <1>5, Zenon DEF Core, t

-----------------------------------------------------------------------------
(* The steps of a rank.                                                      *)

(* The counters at each program point. *)
LEMMA Points ==
  ASSUME NEW cf, NEW r, NEW s
  PROVE  /\ s.phase = "first" => PointsAre(cf, r, s, 0, 0, 0, 0, 0)
         /\ s.phase = "warmup" => PointsAre(cf, r, s, s.k, s.k, 0, s.k + 1, 0)
         /\ s.phase = "steady" => PointsAre(cf, r, s, s.k, s.k, s.k - Warm(cf, r), s.k + 1,
                                            (s.k - Warm(cf, r)) + 1)
         /\ s.phase = "steady_bwd" =>
              PointsAre(cf, r, s, s.k + 1, IF cf.overlap THEN s.k + 1 ELSE s.k,
                        s.k - Warm(cf, r),
                        IF cf.overlap /\ s.k # All(cf) - 1 THEN s.k + 2 ELSE s.k + 1,
                        (s.k - Warm(cf, r)) + 1)
         /\ s.phase = "last" => PointsAre(cf, r, s, All(cf), All(cf), 0, All(cf), 0)
         /\ s.phase = "cooldown" => PointsAre(cf, r, s, All(cf), All(cf), s.k, All(cf), s.k + 1)
         /\ s.phase = "launch" => PointsAre(cf, r, s, All(cf), All(cf), All(cf), All(cf), All(cf))
         /\ s.phase = "done" /\ cf.forwardOnly =>
              PointsAre(cf, r, s, All(cf), All(cf), 0, All(cf), 0)
         /\ s.phase = "done" /\ ~cf.forwardOnly =>
              PointsAre(cf, r, s, All(cf), All(cf), All(cf), All(cf), All(cf))
<1> USE DEF PointsAre, FwdDone, FwdSent, BwdDone, FwdAsked, BwdAsked
<1>1. CASE s.phase \in {"first", "warmup", "steady"}
  BY <1>1
<1>2. CASE s.phase = "steady_bwd"
  BY <1>2
<1>3. CASE s.phase \in {"last", "cooldown", "launch"}
  BY <1>3
<1>4. CASE s.phase = "done"
  BY <1>4
<1>5. QED
  BY <1>1, <1>2, <1>3, <1>4

(* The inputs after a call that asks for the next one, after one that asks   *)
(* for none and may pad, and while nothing is done to them.                  *)
InputsTurn(r, s, t, fa, fa2, q, of, of2) ==
  \/ /\ fa2 = fa + 1 /\ ~Has(q, "recv", PrevRank(r)) /\ ~of
     /\ AskedAt(s.input_tensors, t.input_tensors, FwdChunk(fa), FirstStage(r, FwdChunk(fa)))
  \/ /\ fa2 = fa /\ ~Has(q, "recv", PrevRank(r)) /\ ~of
     /\ \/ t.input_tensors = s.input_tensors
        \/ of2 /\ PaddedAt(s.input_tensors, t.input_tensors)
  \/ fa2 = fa /\ t.input_tensors = s.input_tensors /\ of2 = of
GradsTurn(r, s, t, ba, ba2, q, ob, ob2) ==
  \/ /\ ba2 = ba + 1 /\ ~Has(q, "recv", NextRank(r)) /\ ~ob
     /\ AskedAt(s.output_tensor_grads, t.output_tensor_grads, BwdChunk(ba),
                LastStage(r, BwdChunk(ba)))
  \/ /\ ba2 = ba /\ ~Has(q, "recv", NextRank(r)) /\ ~ob
     /\ \/ t.output_tensor_grads = s.output_tensor_grads
        \/ ob2 /\ PaddedAt(s.output_tensor_grads, t.output_tensor_grads)
  \/ ba2 = ba /\ t.output_tensor_grads = s.output_tensor_grads /\ ob2 = ob

(* The lists as the posted receives say, and the slots of these receives.    *)
InputsHave(cf, r, s, fa, q, of) == Inputs(cf, r, s, fa, Has(q, "recv", PrevRank(r)), of)
GradsHave(r, s, ba, q, ob) == Grads(r, s, ba, Has(q, "recv", NextRank(r)), ob)
CoreHave(cf, r, s, f, b, fa, ba, q, of, ob) ==
  Core(cf, r, s, f, b, fa, ba, Has(q, "recv", PrevRank(r)), Has(q, "recv", NextRank(r)), of, ob)
InputSlot(r, fa, fa2, q, q2) ==
  Slot(q, q2, "recv", PrevRank(r), fa, fa2, FirstStage(r, FwdChunk(fa)))
GradSlot(r, ba, ba2, q, q2) ==
  Slot(q, q2, "recv", NextRank(r), ba, ba2, LastStage(r, BwdChunk(ba)))

(* The inputs of a rank after it posted. *)
LEMMA InputsAfter ==
  ASSUME NEW cf \in Configs, NEW r \in Ranks, NEW s \in LocalType(cf), NEW t, NEW fa \in Nat,
         NEW fa2, NEW q, NEW q2, NEW of \in BOOLEAN, NEW of2 \in BOOLEAN, Relists(s, t),
         InputsHave(cf, r, s, fa, q, of), InputSlot(r, fa, fa2, q, q2),
         InputsTurn(r, s, t, fa, fa2, q, of, of2)
  PROVE  InputsHave(cf, r, t, fa2, q2, of2)
<1> USE DEF InputsHave, InputSlot
<1>0. /\ t.drawn = s.drawn /\ t.bwd = s.bwd /\ t.output_tensors = s.output_tensors
  BY DEF Relists
<1>1. CASE /\ fa2 = fa + 1 /\ ~Has(q, "recv", PrevRank(r)) /\ ~of
           /\ AskedAt(s.input_tensors, t.input_tensors, FwdChunk(fa), FirstStage(r, FwdChunk(fa)))
  <2>1. Has(q, "recv", PrevRank(r)) = FALSE /\ of = FALSE
    BY <1>1 DEF Has
  <2>2. Inputs(cf, r, s, fa, FALSE, FALSE)
    BY <2>1
  <2>3. Inputs(cf, r, t, fa + 1, ~FirstStage(r, FwdChunk(fa)), of2)
    BY <1>0, <1>1, <2>2, AskInput
  <2>4. Has(q2, "recv", PrevRank(r)) = ~FirstStage(r, FwdChunk(fa))
    <3>1. Has(q2, "recv", PrevRank(r)) <=> ~FirstStage(r, FwdChunk(fa))
      BY <1>1 DEF Slot
    <3>2. CASE FirstStage(r, FwdChunk(fa))
      <4>1. Has(q2, "recv", PrevRank(r)) = FALSE /\ (~FirstStage(r, FwdChunk(fa))) = FALSE
        BY <3>1, <3>2 DEF Has
      <4>2. QED
        BY <4>1
    <3>3. CASE ~FirstStage(r, FwdChunk(fa))
      <4>1. Has(q2, "recv", PrevRank(r)) = TRUE /\ (~FirstStage(r, FwdChunk(fa))) = TRUE
        BY <3>1, <3>3 DEF Has
      <4>2. QED
        BY <4>1
    <3>4. QED
      BY <3>2, <3>3
  <2>5. QED
    BY <1>1, <2>3, <2>4
<1>2. CASE /\ fa2 = fa /\ ~Has(q, "recv", PrevRank(r)) /\ ~of
           /\ \/ t.input_tensors = s.input_tensors
              \/ of2 /\ PaddedAt(s.input_tensors, t.input_tensors)
  <2>1. Has(q, "recv", PrevRank(r)) = FALSE /\ of = FALSE
    BY <1>2 DEF Has
  <2>2. Inputs(cf, r, s, fa, FALSE, FALSE)
    BY <2>1
  <2>3. Inputs(cf, r, t, fa, FALSE, of2)
    BY <1>0, <1>2, <2>2, PadInput
  <2>4. Has(q2, "recv", PrevRank(r)) = FALSE
    BY <1>2 DEF Slot, Has
  <2>5. QED
    BY <1>2, <2>3, <2>4
<1>3. CASE fa2 = fa /\ t.input_tensors = s.input_tensors /\ of2 = of
  <2>1. Inputs(cf, r, t, fa, Has(q, "recv", PrevRank(r)), of2)
    BY <1>0, <1>3 DEF Inputs, InputsAre, Base
  <2>2. Has(q2, "recv", PrevRank(r)) = Has(q, "recv", PrevRank(r))
    BY <1>3 DEF Slot, Has
  <2>3. QED
    BY <1>3, <2>1, <2>2
<1>4. QED
  BY <1>1, <1>2, <1>3, Zenon DEF InputsTurn

(* Its gradients. *)
LEMMA GradsAfter ==
  ASSUME NEW cf \in Configs, NEW r \in Ranks, NEW s \in LocalType(cf), NEW t, NEW ba \in Nat,
         NEW ba2, NEW q, NEW q2, NEW ob \in BOOLEAN, NEW ob2 \in BOOLEAN, Relists(s, t),
         GradsHave(r, s, ba, q, ob), GradSlot(r, ba, ba2, q, q2),
         GradsTurn(r, s, t, ba, ba2, q, ob, ob2)
  PROVE  GradsHave(r, t, ba2, q2, ob2)
<1> USE DEF GradsHave, GradSlot
<1>0. t.bwd = s.bwd
  BY DEF Relists
<1>1. CASE /\ ba2 = ba + 1 /\ ~Has(q, "recv", NextRank(r)) /\ ~ob
           /\ AskedAt(s.output_tensor_grads, t.output_tensor_grads, BwdChunk(ba),
                      LastStage(r, BwdChunk(ba)))
  <2>1. Has(q, "recv", NextRank(r)) = FALSE /\ ob = FALSE
    BY <1>1 DEF Has
  <2>2. Grads(r, s, ba, FALSE, FALSE)
    BY <2>1
  <2>3. Grads(r, t, ba + 1, ~LastStage(r, BwdChunk(ba)), ob2)
    BY <1>0, <1>1, <2>2, AskGradient
  <2>4. Has(q2, "recv", NextRank(r)) = ~LastStage(r, BwdChunk(ba))
    <3>1. Has(q2, "recv", NextRank(r)) <=> ~LastStage(r, BwdChunk(ba))
      BY <1>1 DEF Slot
    <3>2. CASE LastStage(r, BwdChunk(ba))
      <4>1. Has(q2, "recv", NextRank(r)) = FALSE /\ (~LastStage(r, BwdChunk(ba))) = FALSE
        BY <3>1, <3>2 DEF Has
      <4>2. QED
        BY <4>1
    <3>3. CASE ~LastStage(r, BwdChunk(ba))
      <4>1. Has(q2, "recv", NextRank(r)) = TRUE /\ (~LastStage(r, BwdChunk(ba))) = TRUE
        BY <3>1, <3>3 DEF Has
      <4>2. QED
        BY <4>1
    <3>4. QED
      BY <3>2, <3>3
  <2>5. QED
    BY <1>1, <2>3, <2>4
<1>2. CASE /\ ba2 = ba /\ ~Has(q, "recv", NextRank(r)) /\ ~ob
           /\ \/ t.output_tensor_grads = s.output_tensor_grads
              \/ ob2 /\ PaddedAt(s.output_tensor_grads, t.output_tensor_grads)
  <2>1. Has(q, "recv", NextRank(r)) = FALSE /\ ob = FALSE
    BY <1>2 DEF Has
  <2>2. Grads(r, s, ba, FALSE, FALSE)
    BY <2>1
  <2>3. Grads(r, t, ba, FALSE, ob2)
    BY <1>0, <1>2, <2>2, PadGradient
  <2>4. Has(q2, "recv", NextRank(r)) = FALSE
    BY <1>2 DEF Slot, Has
  <2>5. QED
    BY <1>2, <2>3, <2>4
<1>3. CASE ba2 = ba /\ t.output_tensor_grads = s.output_tensor_grads /\ ob2 = ob
  <2>1. Grads(r, t, ba, Has(q, "recv", NextRank(r)), ob2)
    BY <1>0, <1>3 DEF Grads, GradsAre
  <2>2. Has(q2, "recv", NextRank(r)) = Has(q, "recv", NextRank(r))
    BY <1>3 DEF Slot, Has
  <2>3. QED
    BY <1>3, <2>1, <2>2
<1>4. QED
  BY <1>1, <1>2, <1>3, Zenon DEF GradsTurn

(* What it holds but for these lists. *)
LEMMA RelistedCore ==
  ASSUME NEW cf, NEW r, NEW s, NEW t \in LocalType(cf), NEW f, NEW b, NEW fa, NEW ba, NEW q,
         NEW of, NEW ob, NEW fa2, NEW ba2, NEW q2, NEW of2, NEW ob2,
         CoreHave(cf, r, s, f, b, fa, ba, q, of, ob), Relists(s, t),
         InputsHave(cf, r, t, fa2, q2, of2), GradsHave(r, t, ba2, q2, ob2)
  PROVE  CoreHave(cf, r, t, f, b, fa2, ba2, q2, of2, ob2)
<1>0. /\ Counts(s, f, b) /\ Outputs(cf, r, s) /\ GradsHanded(cf, r, s, b)
      /\ ParamsLaunched(r, s, f)
  BY Zenon DEF CoreHave, Core
<1>1. Counts(t, f, b)
  BY <1>0 DEF Counts, Relists
<1>2. Outputs(cf, r, t)
  BY <1>0 DEF Relists, Outputs, OutputsAre, Base
<1>3. GradsHanded(cf, r, t, b)
  BY <1>0 DEF Relists, GradsHanded
<1>4. ParamsLaunched(r, t, f)
  BY <1>0 DEF Relists, ParamsLaunched
<1>5. QED
  BY <1>1, <1>2, <1>3, <1>4, Zenon DEF CoreHave, Core, InputsHave, GradsHave

(* The pass of a step: none, or the next one, whose tensor has arrived. *)
PassOf(cf, r, q, f, b, fa, ba, f2, b2) ==
  \/ f2 = f /\ b2 = b
  \/ /\ f2 = f + 1 /\ b2 = b /\ f \in 0 .. All(cf) - 1
     /\ fa = f + 1 /\ ~Has(q, "recv", PrevRank(r))
  \/ /\ f2 = f /\ b2 = b + 1 /\ b \in 0 .. All(cf) - 1
     /\ ba = b + 1 /\ ~Has(q, "recv", NextRank(r)) /\ Trails(cf, f, b + 1)

(* Whether x iterations are all of them. *)
Over(cf, x, over) == over \in BOOLEAN /\ over = (x = All(cf))

(* A step of a rank: from s, a pass leads to p, and what is received to t. *)
LEMMA Finished ==
  ASSUME NEW cf \in Configs, NEW r \in Ranks, NEW s, NEW q, NEW p, NEW t \in LocalType(cf), NEW q2,
         NEW f \in Nat, NEW fs \in Nat, NEW b \in Nat, NEW fa \in Nat, NEW ba \in Nat,
         NEW f2, NEW fs2, NEW b2, NEW fa2, NEW ba2, NEW of \in BOOLEAN,
         NEW ob \in BOOLEAN, NEW of2, NEW ob2, Over(cf, f2, of2), Over(cf, b2, ob2),
         PointsAre(cf, r, s, f, fs, b, fa, ba), PointsAre(cf, r, t, f2, fs2, b2, fa2, ba2),
         CoreHave(cf, r, p, f2, b2, fa, ba, q, of, ob),
         Relists(p, t), Counter(cf, r, t), ~(t.phase = "done" /\ ~cf.forwardOnly),
         t.phase = "steady_bwd" => OutputIs(r, p, t.k),
         Slots(r, fs, b, fa, ba, fs2, b2, fa2, ba2, q, q2), Posted(cf, r, fs2, b2, fa2, ba2, q2),
         InputsTurn(r, p, t, fa, fa2, q, of, of2),
         GradsTurn(r, p, t, ba, ba2, q, ob, ob2),
         PassOf(cf, r, q, f, b, fa, ba, f2, b2)
  PROVE  Advances(cf, r, s, q, t, q2)
<1>0. /\ of2 \in BOOLEAN /\ ob2 \in BOOLEAN
      /\ of2 = (f2 = All(cf)) /\ ob2 = (b2 = All(cf))
  BY DEF Over
<1>1. InputSlot(r, fa, fa2, q, q2) /\ GradSlot(r, ba, ba2, q, q2)
  BY DEF Slots, InputSlot, GradSlot
<1>2. /\ p \in LocalType(cf) /\ InputsHave(cf, r, p, fa, q, of) /\ GradsHave(r, p, ba, q, ob)
  BY Zenon DEF CoreHave, Core, InputsHave, GradsHave
<1>3. InputsHave(cf, r, t, fa2, q2, of2)
  BY <1>0, <1>1, <1>2, InputsAfter, Zenon
<1>4. GradsHave(r, t, ba2, q2, ob2)
  BY <1>0, <1>1, <1>2, GradsAfter, Zenon
<1>5. CoreHave(cf, r, t, f2, b2, fa2, ba2, q2, of2, ob2)
  BY <1>3, <1>4, RelistedCore, Zenon
<1>6. t.phase = "steady_bwd" => OutputIs(r, t, t.k)
  BY DEF Relists, OutputIs
<1>7. LocalInv(cf, r, t, q2)
  BY <1>0, <1>5, <1>6, Closes, Zenon DEF CoreHave
<1>8. QED
  BY <1>7, StepAdvances, Zenon DEF PassOf

(* A rank with the iteration before it, in these terms. *)
LEMMA Opened ==
  ASSUME NEW cf, NEW r, NEW s, NEW q, LocalInv(cf, r, s, q), s.phase # "done",
         NEW f, NEW fs, NEW b, NEW fa, NEW ba, PointsAre(cf, r, s, f, fs, b, fa, ba),
         NEW of, NEW ob, Over(cf, f, of), Over(cf, b, ob)
  PROVE  CoreHave(cf, r, s, f, b, fa, ba, q, of, ob) /\ Posted(cf, r, fs, b, fa, ba, q)
BY Zenon DEF LocalInv, Core, CoreHave, PointsAre, Over

(* One forward pass. *)
LEMMA ForwardPass ==
  ASSUME conf \in Configs, NEW r \in Ranks, NEW s, NEW k \in 0 .. All(conf) - 1, NEW b \in Nat,
         NEW ba, NEW q, NEW ob,
         CoreHave(conf, r, s, k, b, k + 1, ba, q, FALSE, ob), ~Has(q, "recv", PrevRank(r)),
         Trails(conf, k, b)
  PROVE  /\ CoreHave(conf, r, ForwardStepHelper(s, r, k), k + 1, b, k + 1, ba, q, FALSE, ob)
         /\ OutputIs(r, ForwardStepHelper(s, r, k), k)
         /\ ForwardStepHelper(s, r, k).phase = s.phase /\ ForwardStepHelper(s, r, k).k = s.k
         /\ ForwardStepHelper(s, r, k).output_tensor = OutOf(r, k)
<1>1. Has(q, "recv", PrevRank(r)) = FALSE
  BY DEF Has
<1>2. PICK hb : hb = Has(q, "recv", NextRank(r))
  OBVIOUS
<1>3. Core(conf, r, s, k, b, k + 1, ba, FALSE, hb, FALSE, ob)
  BY <1>1, <1>2 DEF CoreHave
<1>4. /\ Core(conf, r, ForwardStepHelper(s, r, k), k + 1, b, k + 1, ba, FALSE, hb, FALSE, ob)
      /\ OutputIs(r, ForwardStepHelper(s, r, k), k)
      /\ ForwardStepHelper(s, r, k).phase = s.phase /\ ForwardStepHelper(s, r, k).k = s.k
      /\ ForwardStepHelper(s, r, k).output_tensor = OutOf(r, k)
  BY <1>3, CoreForward, Zenon
<1>5. QED
  BY <1>1, <1>2, <1>4 DEF CoreHave

(* One backward pass. *)
LEMMA BackwardPass ==
  ASSUME conf \in Configs, ~conf.forwardOnly, NEW r \in Ranks, NEW s,
         NEW k \in 0 .. All(conf) - 1, NEW f \in Nat, NEW fa \in Nat, f <= fa,
         NEW q, NEW of,
         CoreHave(conf, r, s, f, k, fa, k + 1, q, of, FALSE), ~Has(q, "recv", NextRank(r)),
         Trails(conf, f, k + 1)
  PROVE  /\ CoreHave(conf, r, BackwardStepHelper(s, r, k), f, k + 1, fa, k + 1, q, of, FALSE)
         /\ BackwardStepHelper(s, r, k).phase = s.phase /\ BackwardStepHelper(s, r, k).k = s.k
         /\ BackwardStepHelper(s, r, k).input_tensor_grad = GradOf(r, k)
         /\ BackwardStepHelper(s, r, k).output_tensor = s.output_tensor
<1>1. Has(q, "recv", NextRank(r)) = FALSE
  BY DEF Has
<1>2. PICK hf : hf = Has(q, "recv", PrevRank(r))
  OBVIOUS
<1>3. Core(conf, r, s, f, k, fa, k + 1, hf, FALSE, of, FALSE)
  BY <1>1, <1>2 DEF CoreHave
<1>4. /\ Core(conf, r, BackwardStepHelper(s, r, k), f, k + 1, fa, k + 1, hf, FALSE, of, FALSE)
      /\ BackwardStepHelper(s, r, k).phase = s.phase /\ BackwardStepHelper(s, r, k).k = s.k
      /\ BackwardStepHelper(s, r, k).input_tensor_grad = GradOf(r, k)
      /\ BackwardStepHelper(s, r, k).output_tensor = s.output_tensor
  BY <1>3, CoreBackward, Zenon
<1>5. QED
  BY <1>1, <1>2, <1>4 DEF CoreHave

(* The loops begin with the first and with the last chunk. *)
LEMMA ZeroChunks == FwdChunk(0) = 0 /\ BwdChunk(0) = V - 1
<1>1. V \in Nat /\ V > 1 /\ P \in Nat /\ P > 2 /\ W \in Nat
  BY SizeFacts
<1>2. 0 \in Chunks /\ 0 \in 0 .. P - 1 /\ 0 \in Int
  BY <1>1 DEF Chunks
<1>3. Number(0, 0, 0) = 0
  BY <1>1 DEF Number
<1>4. FwdChunk(Number(0, 0, 0)) = 0 /\ BwdChunk(Number(0, 0, 0)) = V - 1 - 0
  BY <1>2, NumberFacts
<1>5. QED
  BY <1>1, <1>3, <1>4

(* The handles of the two directions. *)
LEMMA Handles ==
  ASSUME NEW cf
  PROVE  /\ "sync" \in FwdHandles(cf) /\ "sync" \in BwdHandles(cf)
         /\ cf.overlap => "fwd" \in FwdHandles(cf) /\ "bwd" \in BwdHandles(cf)
BY DEF FwdHandles, BwdHandles

(* What is posted after seg was, and which slots it uses. *)
Exchanged(cf, r, fs, b, fa, ba, fs2, b2, fa2, ba2, q, seg) ==
  /\ seg \in Seq(AnyOp)
  /\ Posted(cf, r, fs2, b2, fa2, ba2, q \o seg)
  /\ Slots(r, fs, b, fa, ba, fs2, b2, fa2, ba2, q, q \o seg)

(* One call. *)
LEMMA OneExchange ==
  ASSUME NEW cf \in Configs, NEW r \in Ranks, NEW fs \in Nat, NEW b \in Nat, NEW fa \in Nat,
         NEW ba \in Nat, NEW fs2, NEW b2, NEW fa2, NEW ba2, NEW q,
         NEW batched \in BOOLEAN, NEW sp, NEW rp, NEW sn, NEW rn, NEW h,
         Posted(cf, r, fs, b, fa, ba, q),
         Ports(cf, r, fs, b, fa, ba, fs2, b2, fa2, ba2, q, sp, rp, sn, rn, h)
  PROVE  Exchanged(cf, r, fs, b, fa, ba, fs2, b2, fa2, ba2, q,
                   Communicate(batched, r, sp, rp, sn, rn, h))
BY Exchange DEF Exchanged

(* A counter that one of two calls moves. *)
LEMMA SlotThen ==
  ASSUME NEW q, NEW q1, NEW q2, NEW kind, NEW peer, NEW x \in Nat, NEW x1, NEW x2,
         NEW end, NEW end1, x1 = x => end1 = end, x1 = x \/ x2 = x1,
         Slot(q, q1, kind, peer, x, x1, end), Slot(q1, q2, kind, peer, x1, x2, end1)
  PROVE  Slot(q, q2, kind, peer, x, x2, end)
<1>1. x + 1 # x /\ x1 # x => x1 = x + 1
  BY DEF Slot
<1>2. CASE x1 = x
  <2>1. Has(q1, kind, peer) <=> Has(q, kind, peer)
    BY <1>1, <1>2 DEF Slot
  <2>2. end1 = end
    BY <1>2
  <2>3. QED
    BY <1>2, <2>1, <2>2 DEF Slot
<1>3. CASE x1 # x
  <2>1. x2 = x1 /\ x1 = x + 1 /\ x1 + 1 # x1
    BY <1>1, <1>3
  <2>2. Has(q2, kind, peer) <=> Has(q1, kind, peer)
    BY <2>1 DEF Slot
  <2>3. ~Has(q, kind, peer) /\ (Has(q1, kind, peer) <=> ~end)
    BY <1>3 DEF Slot
  <2>4. QED
    BY <2>1, <2>2, <2>3 DEF Slot
<1>4. QED
  BY <1>2, <1>3

(* Two calls, of which each moves other counters. *)
LEMMA TwoExchanges ==
  ASSUME NEW cf, NEW r, NEW fs \in Nat, NEW b \in Nat, NEW fa \in Nat, NEW ba \in Nat,
         NEW fs1, NEW b1, NEW fa1, NEW ba1, NEW fs2, NEW b2, NEW fa2, NEW ba2,
         NEW q \in Seq(AnyOp), NEW seg, NEW seg2,
         Exchanged(cf, r, fs, b, fa, ba, fs1, b1, fa1, ba1, q, seg),
         Exchanged(cf, r, fs1, b1, fa1, ba1, fs2, b2, fa2, ba2, q \o seg, seg2),
         fs1 = fs \/ fs2 = fs1, b1 = b \/ b2 = b1, fa1 = fa \/ fa2 = fa1, ba1 = ba \/ ba2 = ba1
  PROVE  Exchanged(cf, r, fs, b, fa, ba, fs2, b2, fa2, ba2, q, seg \o seg2)
<1>1. seg \in Seq(AnyOp) /\ seg2 \in Seq(AnyOp)
  BY DEF Exchanged
<1>2. /\ q \o (seg \o seg2) = (q \o seg) \o seg2
      /\ seg \o seg2 \in Seq(AnyOp)
  <2>1. seg \o seg2 \in Seq(AnyOp)
    BY <1>1, ConcatProperties, Zenon
  <2>2. (q \o seg) \o seg2 = q \o (seg \o seg2)
    <3>1. q \in Seq(AnyOp) /\ seg \in Seq(AnyOp) /\ seg2 \in Seq(AnyOp)
      BY <1>1
    <3> HIDE DEF AnyOp
    <3>2. QED
      BY ONLY <3>1, ConcatAssociative
  <2>3. QED
    BY <2>1, <2>2
<1>3. /\ Posted(cf, r, fs2, b2, fa2, ba2, (q \o seg) \o seg2)
      /\ Slots(r, fs, b, fa, ba, fs1, b1, fa1, ba1, q, q \o seg)
      /\ Slots(r, fs1, b1, fa1, ba1, fs2, b2, fa2, ba2, q \o seg, (q \o seg) \o seg2)
  BY Zenon DEF Exchanged
<1> DEFINE q1 == q \o seg
           q2 == (q \o seg) \o seg2
<1> HIDE DEF q1, q2
<1>4. /\ Slots(r, fs, b, fa, ba, fs1, b1, fa1, ba1, q, q1)
      /\ Slots(r, fs1, b1, fa1, ba1, fs2, b2, fa2, ba2, q1, q2)
  BY <1>3 DEF q1, q2
<1>5. Slot(q, q2, "send", NextRank(r), fs, fs2, LastStage(r, FwdChunk(fs)))
  <2>1. PICK e : e = LastStage(r, FwdChunk(fs))
    OBVIOUS
  <2>2. PICK e1 : e1 = LastStage(r, FwdChunk(fs1))
    OBVIOUS
  <2>3. /\ Slot(q, q1, "send", NextRank(r), fs, fs1, e)
        /\ Slot(q1, q2, "send", NextRank(r), fs1, fs2, e1)
    BY <1>4, <2>1, <2>2 DEF Slots
  <2>4. fs1 = fs => e1 = e
    BY <2>1, <2>2
  <2>5. QED
    BY <2>1, <2>3, <2>4, SlotThen
<1>6. Slot(q, q2, "send", PrevRank(r), b, b2, FirstStage(r, BwdChunk(b)))
  <2>1. PICK e : e = FirstStage(r, BwdChunk(b))
    OBVIOUS
  <2>2. PICK e1 : e1 = FirstStage(r, BwdChunk(b1))
    OBVIOUS
  <2>3. /\ Slot(q, q1, "send", PrevRank(r), b, b1, e)
        /\ Slot(q1, q2, "send", PrevRank(r), b1, b2, e1)
    BY <1>4, <2>1, <2>2 DEF Slots
  <2>4. b1 = b => e1 = e
    BY <2>1, <2>2
  <2>5. QED
    BY <2>1, <2>3, <2>4, SlotThen
<1>7. Slot(q, q2, "recv", PrevRank(r), fa, fa2, FirstStage(r, FwdChunk(fa)))
  <2>1. PICK e : e = FirstStage(r, FwdChunk(fa))
    OBVIOUS
  <2>2. PICK e1 : e1 = FirstStage(r, FwdChunk(fa1))
    OBVIOUS
  <2>3. /\ Slot(q, q1, "recv", PrevRank(r), fa, fa1, e)
        /\ Slot(q1, q2, "recv", PrevRank(r), fa1, fa2, e1)
    BY <1>4, <2>1, <2>2 DEF Slots
  <2>4. fa1 = fa => e1 = e
    BY <2>1, <2>2
  <2>5. QED
    BY <2>1, <2>3, <2>4, SlotThen
<1>8. Slot(q, q2, "recv", NextRank(r), ba, ba2, LastStage(r, BwdChunk(ba)))
  <2>1. PICK e : e = LastStage(r, BwdChunk(ba))
    OBVIOUS
  <2>2. PICK e1 : e1 = LastStage(r, BwdChunk(ba1))
    OBVIOUS
  <2>3. /\ Slot(q, q1, "recv", NextRank(r), ba, ba1, e)
        /\ Slot(q1, q2, "recv", NextRank(r), ba1, ba2, e1)
    BY <1>4, <2>1, <2>2 DEF Slots
  <2>4. ba1 = ba => e1 = e
    BY <2>1, <2>2
  <2>5. QED
    BY <2>1, <2>3, <2>4, SlotThen
<1>9. Slots(r, fs, b, fa, ba, fs2, b2, fa2, ba2, q, q2)
  BY <1>5, <1>6, <1>7, <1>8 DEF Slots
<1>10. QED
  BY <1>2, <1>3, <1>9, Zenon DEF Exchanged, q2

(* Nothing is posted. *)
LEMMA NoExchange ==
  ASSUME NEW cf, NEW r, NEW fs, NEW b, NEW fa, NEW ba, NEW q, Posted(cf, r, fs, b, fa, ba, q)
  PROVE  Slots(r, fs, b, fa, ba, fs, b, fa, ba, q, q)
BY DEF Slots, Slot

(* A step of one rank. *)
LEMMA Moved ==
  ASSUME NEW S, rank \in [Ranks -> S], NEW Q, pend \in [Ranks -> Q], conf' = conf,
         NEW r \in Ranks, NEW t, NEW q2, rank' = [rank EXCEPT ![r] = t],
         pend' = [pend EXCEPT ![r] = q2], Advances(conf, r, rank[r], pend[r], t, q2)
  PROVE  Moves(r)
<1>1. rank'[r] = t /\ pend'[r] = q2
  OBVIOUS
<1>2. QED
  BY <1>1, Zenon DEF Moves

(* The types of the state, as the proofs use them. *)
LEMMA StateTypes ==
  ASSUME TypeOK
  PROVE  /\ conf \in Configs /\ rank \in [Ranks -> LocalType(conf)]
         /\ pend \in [Ranks -> Seq(AnyOp)]
BY LocalTypeIsRankType, Zenon DEF TypeOK, AnyOp

(* What a rank that may go on has waited for. *)
LEMMA ReadyFacts ==
  ASSUME NEW r, NEW phase, Ready(r, phase)
  PROVE  /\ rank[r].phase = phase /\ "sync" \in Waits(phase) /\ Waited(pend[r], Waits(phase))
         /\ phase \in {"warmup", "steady"} => "fwd" \in Waits(phase)
         /\ phase \in {"steady_bwd", "cooldown"} => "bwd" \in Waits(phase)
<1>1. rank[r].phase = phase /\ Waited(pend[r], Waits(phase))
  BY DEF Ready, Completed, Waited
<1>2. QED
  BY <1>1 DEF Waits

(* Receiving before the loops. *)
LEMMA MovesRecvFirst ==
  ASSUME TypeOK, NEW r \in Ranks, LocalInv(conf, r, rank[r], pend[r]), RecvFirst(r)
  PROVE  Moves(r)
<1> DEFINE s == rank[r]
           q == pend[r]
           recv == IF FirstStage(r, 0) THEN NoRecv ELSE 0
           ins == PutAt(s.input_tensors, 0, recv)
           t == Relisted(s, "warmup", s.k, ins, s.output_tensor_grads)
           seg == Communicate(~conf.overlap, r, NoTensor, recv, NoTensor, NoRecv, "sync")
<1>1. /\ conf \in Configs /\ rank \in [Ranks -> LocalType(conf)] /\ pend \in [Ranks -> Seq(AnyOp)]
      /\ s \in LocalType(conf) /\ q \in Seq(AnyOp)
  BY StateTypes
<1>2. s.phase = "first" /\ s.k = 0
  <2>1. s.phase = "first"
    BY ReadyFacts DEF RecvFirst
  <2>2. Counter(conf, r, s)
    BY Zenon DEF LocalInv
  <2>3. QED
    BY <2>1, <2>2 DEF Counter
<1>3. P \in Nat /\ P > 2 /\ V \in Nat /\ V > 1 /\ All(conf) \in Nat /\ All(conf) > P /\ 0 \in Chunks
      /\ Warm(conf, r) \in Nat /\ Warm(conf, r) >= P
  BY <1>1, SizeFacts, AllSize, WarmFacts DEF Chunks
<1>4. PointsAre(conf, r, s, 0, 0, 0, 0, 0)
  BY <1>2, Points
<1>o. Over(conf, 0, FALSE)
  BY <1>3 DEF Over
<1>5. /\ CoreHave(conf, r, s, 0, 0, 0, 0, q, FALSE, FALSE)
      /\ Posted(conf, r, 0, 0, 0, 0, q)
  <2>1. s.phase # "done"
    BY <1>2
  <2>2. QED
    BY <1>o, <1>4, <2>1, Opened
<1>6. /\ ~Has(q, "send", NextRank(r)) /\ ~Has(q, "send", PrevRank(r))
      /\ ~Has(q, "recv", PrevRank(r)) /\ ~Has(q, "recv", NextRank(r))
  BY <1>1, <1>5, Unused
<1>7. ins \in [Chunks -> Seq(Tensors)] /\ AskedAt(s.input_tensors, ins, 0, FirstStage(r, 0))
  <2>1. s.input_tensors \in [Chunks -> Seq(Tensors)]
    BY <1>1, TypeFacts
  <2>2. FirstStage(r, 0) \in BOOLEAN
    BY DEF FirstStage
  <2>3. PICK e \in BOOLEAN : e = FirstStage(r, 0)
    BY <2>2
  <2>4. recv = IF e THEN NoRecv ELSE 0
    BY <2>3
  <2> HIDE DEF recv
  <2>5. QED
    BY <1>3, <2>1, <2>3, <2>4, PutList DEF AskedTo
<1>8. /\ t \in LocalType(conf) /\ Relists(s, t) /\ t.phase = "warmup" /\ t.k = 0
      /\ t.input_tensors = ins /\ t.output_tensor_grads = s.output_tensor_grads
  <2>1. /\ "warmup" \in Phases /\ s.k \in 0 .. All(conf)
        /\ s.output_tensor_grads \in [Chunks -> Seq(Tensors)]
    BY <1>1, TypeFacts DEF Phases
  <2> HIDE DEF s, ins
  <2>2. RelistsTo(conf, s, t, "warmup", s.k, ins, s.output_tensor_grads)
    BY <1>1, <1>7, <2>1, RelistedFacts
  <2> HIDE DEF t
  <2>3. QED
    BY <1>2, <2>2 DEF RelistsTo
<1>9. Exchanged(conf, r, 0, 0, 0, 0, 0, 0, 1, 0, q, seg)
  <2>1. recv = AskAct(r, 0)
    BY ZeroChunks DEF AskAct
  <2>2. 1 = 0 + 1 /\ 0 \in 0 .. All(conf) - 1
    BY <1>3
  <2> HIDE DEF recv
  <2>3. Ports(conf, r, 0, 0, 0, 0, 0, 0, 1, 0, q, NoTensor, recv, NoTensor, NoRecv, "sync")
    BY <1>6, <2>1, <2>2, Handles DEF Ports, Turn
  <2>4. (~conf.overlap) \in BOOLEAN
    OBVIOUS
  <2>5. PICK o \in BOOLEAN : o = (~conf.overlap)
    BY <2>4
  <2>6. Exchanged(conf, r, 0, 0, 0, 0, 0, 0, 1, 0, q,
                  Communicate(o, r, NoTensor, recv, NoTensor, NoRecv, "sync"))
    BY <1>1, <1>5, <2>3, OneExchange
  <2>7. QED
    BY <2>5, <2>6
<1>10. PointsAre(conf, r, t, 0, 0, 0, 1, 0)
  <2>1. PointsAre(conf, r, t, t.k, t.k, 0, t.k + 1, 0)
    BY <1>8, Points
  <2>2. t.k + 1 = 1
    BY <1>8
  <2>3. QED
    BY <1>8, <2>1, <2>2
<1>11. Counter(conf, r, t)
  BY <1>3, <1>8 DEF Counter, Phases
<1>12. Advances(conf, r, s, q, t, q \o seg)
  <2> HIDE DEF s, q, t, seg, ins, recv
  <2>2. InputsTurn(r, s, t, 0, 1, q, FALSE, FALSE)
    <3>1. AskedAt(s.input_tensors, t.input_tensors, FwdChunk(0), FirstStage(r, FwdChunk(0)))
      BY <1>7, <1>8, ZeroChunks
    <3>2. QED
      BY <1>6, <3>1 DEF InputsTurn
  <2>3. GradsTurn(r, s, t, 0, 0, q, FALSE, FALSE)
    BY <1>8 DEF GradsTurn
  <2>4. PassOf(conf, r, q, 0, 0, 0, 0, 0, 0)
    BY DEF PassOf
  <2>5. /\ Slots(r, 0, 0, 0, 0, 0, 0, 1, 0, q, q \o seg) /\ Posted(conf, r, 0, 0, 1, 0, q \o seg)
    BY <1>9, Zenon DEF Exchanged
  <2>6. ~(t.phase = "done" /\ ~conf.forwardOnly) /\ t.phase # "steady_bwd"
    BY <1>8
  <2>7. 0 \in Nat /\ FALSE \in BOOLEAN
    OBVIOUS
  <2>8. QED
    BY <1>1, <1>4, <1>5, <1>8, <1>10, <1>11, <1>o, <2>2, <2>3, <2>4, <2>5, <2>6, <2>7,
       Finished, Zenon
<1>13. /\ rank' = [rank EXCEPT ![r] = t] /\ pend' = [pend EXCEPT ![r] = q \o seg] /\ conf' = conf
  <2>1. /\ rank' = [rank EXCEPT ![r].phase = "warmup",
                                ![r].input_tensors[0] = Append(@, Received(recv))]
        /\ pend' = [pend EXCEPT ![r] = q \o seg] /\ conf' = conf
    BY Zenon DEF RecvFirst, Post
  <2>2. rank' = [rank EXCEPT ![r] = [rank[r] EXCEPT !.phase = "warmup", !.input_tensors = ins]]
    BY <1>1, <2>1 DEF PutAt
  <2>3. [s EXCEPT !.phase = "warmup", !.input_tensors = ins] = t
    <3> HIDE DEF ins
    <3>1. QED
      BY <1>1 DEF Relisted, LocalType
  <2>4. QED
    BY <2>1, <2>2, <2>3
<1>14. QED
  <2> HIDE DEF t, seg
  <2>1. QED
    BY <1>1, <1>12, <1>13, Moved

(* Receiving before the cooldown loop, when all forward passes come first. *)
LEMMA MovesRecvLast ==
  ASSUME TypeOK, NEW r \in Ranks, LocalInv(conf, r, rank[r], pend[r]), RecvLast(r)
  PROVE  Moves(r)
<1> DEFINE s == rank[r]
           q == pend[r]
           N == All(conf)
           recv == IF LastStage(r, V - 1) THEN NoRecv ELSE V - 1
           gs == PutAt(s.output_tensor_grads, V - 1, recv)
           t == Relisted(s, "cooldown", s.k, s.input_tensors, gs)
           seg == Communicate(~conf.overlap, r, NoTensor, NoRecv, NoTensor, recv, "sync")
<1>1. /\ conf \in Configs /\ rank \in [Ranks -> LocalType(conf)] /\ pend \in [Ranks -> Seq(AnyOp)]
      /\ s \in LocalType(conf) /\ q \in Seq(AnyOp)
  BY StateTypes
<1>2. s.phase = "last" /\ s.k = 0 /\ LastTurn(conf)
  <2>1. s.phase = "last"
    BY ReadyFacts DEF RecvLast
  <2>2. Counter(conf, r, s)
    BY Zenon DEF LocalInv
  <2>3. QED
    BY <2>1, <2>2 DEF Counter
<1>3. P \in Nat /\ P > 2 /\ V \in Nat /\ V > 1 /\ N \in Nat /\ N > P /\ V - 1 \in Chunks
      /\ Warm(conf, r) = N /\ ~conf.forwardOnly
  BY <1>1, <1>2, SizeFacts, AllSize, WarmFacts DEF Chunks, LastTurn
<1> HIDE DEF N
<1>4. PointsAre(conf, r, s, N, N, 0, N, 0)
  BY <1>2, Points DEF N
<1>o. Over(conf, N, TRUE) /\ Over(conf, 0, FALSE)
  BY <1>3 DEF Over, N
<1>5. /\ CoreHave(conf, r, s, N, 0, N, 0, q, TRUE, FALSE)
      /\ Posted(conf, r, N, 0, N, 0, q)
  <2>1. s.phase # "done"
    BY <1>2
  <2>2. QED
    BY <1>o, <1>4, <2>1, Opened
<1>6. ~Has(q, "send", PrevRank(r)) /\ ~Has(q, "recv", NextRank(r))
  BY <1>1, <1>5, Unused
<1>7. gs \in [Chunks -> Seq(Tensors)] /\ AskedAt(s.output_tensor_grads, gs, V - 1, LastStage(r, V - 1))
  <2>1. s.output_tensor_grads \in [Chunks -> Seq(Tensors)]
    BY <1>1, TypeFacts
  <2>2. LastStage(r, V - 1) \in BOOLEAN
    BY DEF LastStage
  <2>3. PICK e \in BOOLEAN : e = LastStage(r, V - 1)
    BY <2>2
  <2>4. recv = IF e THEN NoRecv ELSE V - 1
    BY <2>3
  <2> HIDE DEF recv
  <2>5. QED
    BY <1>3, <2>1, <2>3, <2>4, PutList DEF AskedTo
<1>8. /\ t \in LocalType(conf) /\ Relists(s, t) /\ t.phase = "cooldown" /\ t.k = 0
      /\ t.input_tensors = s.input_tensors /\ t.output_tensor_grads = gs
  <2>1. /\ "cooldown" \in Phases /\ s.k \in 0 .. All(conf)
        /\ s.input_tensors \in [Chunks -> Seq(Tensors)]
    BY <1>1, TypeFacts DEF Phases
  <2> HIDE DEF s, gs
  <2>2. RelistsTo(conf, s, t, "cooldown", s.k, s.input_tensors, gs)
    BY <1>1, <1>7, <2>1, RelistedFacts
  <2> HIDE DEF t
  <2>3. QED
    BY <1>2, <2>2 DEF RelistsTo
<1>9. Exchanged(conf, r, N, 0, N, 0, N, 0, N, 1, q, seg)
  <2>1. recv = AskGrad(r, 0)
    BY ZeroChunks DEF AskGrad
  <2>2. 1 = 0 + 1 /\ 0 \in 0 .. All(conf) - 1
    BY <1>3 DEF N
  <2> HIDE DEF recv
  <2>3. Ports(conf, r, N, 0, N, 0, N, 0, N, 1, q, NoTensor, NoRecv, NoTensor, recv, "sync")
    BY <1>6, <2>1, <2>2, Handles DEF Ports, Turn
  <2>4. (~conf.overlap) \in BOOLEAN
    OBVIOUS
  <2>5. PICK o \in BOOLEAN : o = (~conf.overlap)
    BY <2>4
  <2>6. Exchanged(conf, r, N, 0, N, 0, N, 0, N, 1, q,
                  Communicate(o, r, NoTensor, NoRecv, NoTensor, recv, "sync"))
    BY <1>1, <1>3, <1>5, <2>3, OneExchange
  <2>7. QED
    BY <2>5, <2>6
<1>10. PointsAre(conf, r, t, N, N, 0, N, 1)
  <2>1. PointsAre(conf, r, t, N, N, t.k, N, t.k + 1)
    BY <1>8, Points DEF N
  <2>2. t.k + 1 = 1
    BY <1>8
  <2>3. QED
    BY <1>8, <2>1, <2>2
<1>11. Counter(conf, r, t)
  BY <1>3, <1>8 DEF Counter, Phases, N
<1>12. Advances(conf, r, s, q, t, q \o seg)
  <2> HIDE DEF s, q, t, seg, gs, recv
  <2>2. GradsTurn(r, s, t, 0, 1, q, FALSE, FALSE)
    <3>1. AskedAt(s.output_tensor_grads, t.output_tensor_grads, BwdChunk(0),
                  LastStage(r, BwdChunk(0)))
      BY <1>7, <1>8, ZeroChunks
    <3>2. QED
      BY <1>6, <3>1 DEF GradsTurn
  <2>3. InputsTurn(r, s, t, N, N, q, TRUE, TRUE)
    BY <1>8 DEF InputsTurn
  <2>4. PassOf(conf, r, q, N, 0, N, 0, N, 0)
    BY DEF PassOf
  <2>5. /\ Slots(r, N, 0, N, 0, N, 0, N, 1, q, q \o seg) /\ Posted(conf, r, N, 0, N, 1, q \o seg)
    BY <1>9, Zenon DEF Exchanged
  <2>6. ~(t.phase = "done" /\ ~conf.forwardOnly) /\ t.phase # "steady_bwd"
    BY <1>8
  <2>7. 0 \in Nat /\ FALSE \in BOOLEAN /\ TRUE \in BOOLEAN /\ N \in Nat
    BY <1>3
  <2>8. QED
    BY <1>1, <1>4, <1>5, <1>8, <1>10, <1>11, <1>o, <2>2, <2>3, <2>4, <2>5, <2>6, <2>7,
       Finished, Zenon
<1>13. /\ rank' = [rank EXCEPT ![r] = t] /\ pend' = [pend EXCEPT ![r] = q \o seg] /\ conf' = conf
  <2>1. /\ rank' = [rank EXCEPT ![r].phase = "cooldown",
                                ![r].output_tensor_grads[V - 1] = Append(@, Received(recv))]
        /\ pend' = [pend EXCEPT ![r] = q \o seg] /\ conf' = conf
    BY Zenon DEF RecvLast, Post
  <2>2. rank' = [rank EXCEPT ![r] = [rank[r] EXCEPT !.phase = "cooldown",
                                                    !.output_tensor_grads = gs]]
    BY <1>1, <2>1 DEF PutAt
  <2>3. [s EXCEPT !.phase = "cooldown", !.output_tensor_grads = gs] = t
    <3> HIDE DEF gs
    <3>1. QED
      BY <1>1 DEF Relisted, LocalType
  <2>4. QED
    BY <2>1, <2>2, <2>3
<1>14. QED
  <2> HIDE DEF t, seg
  <2>1. QED
    BY <1>1, <1>12, <1>13, Moved

(* What is received goes to the list of the next iteration. *)
InputPut(r, x, lists, lists2) ==
  AskedTo(lists, lists2, FwdChunk(x), FirstStage(r, FwdChunk(x)))
GradPut(r, x, lists, lists2) ==
  AskedTo(lists, lists2, BwdChunk(x), LastStage(r, BwdChunk(x)))

(* Each chunk's list is as before or gets the received tensor. *)
LEMMA ReceivedPut ==
  ASSUME NEW lists \in [Chunks -> Seq(Tensors)], NEW r \in Ranks, NEW x \in Nat
  PROVE  /\ InputPut(r, x, lists, PutAt(lists, FwdChunk(x), AskAct(r, x)))
         /\ InputPut(r, x, lists, SetAt(lists, AskAct(r, x)))
         /\ GradPut(r, x, lists, PutAt(lists, BwdChunk(x), AskGrad(r, x)))
         /\ GradPut(r, x, lists, SetAt(lists, AskGrad(r, x)))
<1>0. FwdChunk(x) \in Chunks /\ BwdChunk(x) \in Chunks
  <2>1. x \in Int
    OBVIOUS
  <2>2. QED
    BY <2>1, ChunkFacts
<1>1. PICK e \in BOOLEAN : e = FirstStage(r, FwdChunk(x))
  <2>1. FirstStage(r, FwdChunk(x)) \in BOOLEAN
    BY DEF FirstStage
  <2>2. QED
    BY <2>1
<1>2. PICK d \in BOOLEAN : d = LastStage(r, BwdChunk(x))
  <2>1. LastStage(r, BwdChunk(x)) \in BOOLEAN
    BY DEF LastStage
  <2>2. QED
    BY <2>1
<1>3. /\ AskAct(r, x) = IF e THEN NoRecv ELSE FwdChunk(x)
      /\ AskGrad(r, x) = IF d THEN NoRecv ELSE BwdChunk(x)
  BY <1>1, <1>2 DEF AskAct, AskGrad
<1>4. PICK a, g, c1, c2 : a = AskAct(r, x) /\ g = AskGrad(r, x) /\ c1 = FwdChunk(x) /\ c2 = BwdChunk(x)
  OBVIOUS
<1>5. /\ AskedTo(lists, PutAt(lists, c1, a), c1, e) /\ AskedTo(lists, SetAt(lists, a), c1, e)
      /\ AskedTo(lists, PutAt(lists, c2, g), c2, d) /\ AskedTo(lists, SetAt(lists, g), c2, d)
  <2>1. c1 \in Chunks /\ c2 \in Chunks /\ a = (IF e THEN NoRecv ELSE c1)
        /\ g = (IF d THEN NoRecv ELSE c2)
    BY <1>0, <1>3, <1>4
  <2>2. QED
    BY <2>1, PutList, SetList
<1>6. QED
  BY <1>1, <1>2, <1>4, <1>5 DEF InputPut, GradPut

(* A rank that asks for what comes in iteration x, or for nothing. *)
Asks(cf, x, x2, value, ask) ==
  \/ x2 = x + 1 /\ x \in 0 .. All(cf) - 1 /\ value = ask
  \/ x2 = x /\ value = NoRecv

(* The calls of a warmup iteration. *)
WarmupSegment(overlap, r, rp, out, rn) ==
  IF overlap
  THEN Communicate(FALSE, r, NoTensor, rp, out, NoRecv, "fwd")
         \o Communicate(FALSE, r, NoTensor, NoRecv, NoTensor, rn, "bwd")
  ELSE Communicate(TRUE, r, NoTensor, rp, out, rn, "sync")

(* What a warm-up iteration posts is what the rank may have posted after it. *)
LEMMA WarmupCalls ==
  ASSUME NEW cf \in Configs, NEW r \in Ranks, NEW k \in 0 .. All(cf) - 1,
         NEW fa \in Nat, fa = k + 1, NEW q \in Seq(AnyOp), Posted(cf, r, k, 0, fa, 0, q),
         NoActs(r, q), NoGrads(r, q),
         NEW fa2, NEW rp, Asks(cf, fa, fa2, rp, AskAct(r, fa)),
         NEW ba2, NEW rn, Asks(cf, 0, ba2, rn, AskGrad(r, 0))
  PROVE  Exchanged(cf, r, k, 0, fa, 0, fa, 0, fa2, ba2, q,
                   WarmupSegment(cf.overlap, r, rp, OutOf(r, k), rn))
<1>1. /\ ~Has(q, "send", NextRank(r)) /\ ~Has(q, "recv", PrevRank(r))
      /\ ~Has(q, "send", PrevRank(r)) /\ ~Has(q, "recv", NextRank(r))
  BY DEF NoActs, NoGrads
<1>2. k \in Nat /\ All(cf) \in Nat /\ TRUE \in BOOLEAN /\ FALSE \in BOOLEAN /\ 0 \in Nat
  BY AllSize
<1>3. CASE ~cf.overlap
  <2>1. Ports(cf, r, k, 0, fa, 0, fa, 0, fa2, ba2, q, NoTensor, rp, OutOf(r, k), rn, "sync")
    BY <1>1, Handles, Zenon DEF Ports, Turn, Asks
  <2>2. Exchanged(cf, r, k, 0, fa, 0, fa, 0, fa2, ba2, q,
                  Communicate(TRUE, r, NoTensor, rp, OutOf(r, k), rn, "sync"))
    BY <1>2, <2>1, OneExchange, Zenon
  <2>3. QED
    BY <1>3, <2>2 DEF WarmupSegment
<1>4. CASE cf.overlap
  <2> DEFINE seg == Communicate(FALSE, r, NoTensor, rp, OutOf(r, k), NoRecv, "fwd")
  <2>1. Ports(cf, r, k, 0, fa, 0, fa, 0, fa2, 0, q, NoTensor, rp, OutOf(r, k), NoRecv, "fwd")
    BY <1>1, <1>4, Handles, Zenon DEF Ports, Turn, Asks
  <2>2. Exchanged(cf, r, k, 0, fa, 0, fa, 0, fa2, 0, q, seg)
    BY <1>2, <2>1, OneExchange, Zenon
  <2> HIDE DEF seg
  <2>3. Posted(cf, r, fa, 0, fa2, 0, q \o seg) /\ ~Has(q \o seg, "recv", NextRank(r))
    <3>1. /\ Posted(cf, r, fa, 0, fa2, 0, q \o seg)
          /\ Slots(r, k, 0, fa, 0, fa, 0, fa2, 0, q, q \o seg)
      BY <2>2, Zenon DEF Exchanged
    <3>2. Slot(q, q \o seg, "recv", NextRank(r), 0, 0, LastStage(r, BwdChunk(0)))
      BY <3>1, Zenon DEF Slots
    <3>3. 0 + 1 # 0
      OBVIOUS
    <3>4. QED
      BY <1>1, <3>1, <3>2, <3>3, Zenon DEF Slot
  <2>4. Ports(cf, r, fa, 0, fa2, 0, fa, 0, fa2, ba2, q \o seg, NoTensor, NoRecv, NoTensor, rn, "bwd")
    BY <1>4, <2>3, Handles, Zenon DEF Ports, Turn, Asks
  <2>5. fa2 \in Nat
    BY DEF Asks
  <2>6. Exchanged(cf, r, fa, 0, fa2, 0, fa, 0, fa2, ba2, q \o seg,
                  Communicate(FALSE, r, NoTensor, NoRecv, NoTensor, rn, "bwd"))
    BY <1>2, <2>3, <2>4, <2>5, OneExchange, Zenon
  <2>7. Exchanged(cf, r, k, 0, fa, 0, fa, 0, fa2, ba2, q,
                  seg \o Communicate(FALSE, r, NoTensor, NoRecv, NoTensor, rn, "bwd"))
    BY <1>2, <2>2, <2>6, TwoExchanges, Zenon
  <2>8. QED
    BY <1>4, <2>7 DEF WarmupSegment, seg
<1>5. QED
  BY <1>3, <1>4

(* One iteration of the warmup loop. *)
LEMMA MovesWarmup ==
  ASSUME TypeOK, NEW r \in Ranks, LocalInv(conf, r, rank[r], pend[r]), WarmupIteration(r)
  PROVE  Moves(r)
<1> DEFINE s == rank[r]
           q == pend[r]
           k == s.k
           N == All(conf)
           p == ForwardStepHelper(s, r, k)
           rp == WarmupRecvPrev(r, k)
           final == k = NumWarmup(r) - 1
           turn == final /\ ~conf.forwardOnly /\ ~AllWarmup
           rn == IF turn /\ r # P - 1 THEN V - 1 ELSE NoRecv
           ins == PutAt(p.input_tensors, ChunkId(k + 1, TRUE), rp)
           gs == [p.output_tensor_grads EXCEPT
                    ![V - 1] = IF turn THEN Append(@, Received(rn)) ELSE @]
           k2 == IF final /\ Remaining(r) = 0 THEN 0 ELSE k + 1
           ph == IF ~final THEN "warmup"
                 ELSE IF Remaining(r) > 0 THEN "steady" ELSE AfterForward(r)
           t == Relisted(p, ph, k2, ins, gs)
           seg == WarmupSegment(conf.overlap, r, rp, p.output_tensor, rn)
<1>1. /\ conf \in Configs /\ rank \in [Ranks -> LocalType(conf)] /\ pend \in [Ranks -> Seq(AnyOp)]
      /\ s \in LocalType(conf) /\ q \in Seq(AnyOp)
  BY StateTypes
<1>2. s.phase = "warmup" /\ k \in 0 .. Warm(conf, r) - 1
  <2>1. s.phase = "warmup"
    BY ReadyFacts DEF WarmupIteration
  <2>2. Counter(conf, r, s)
    BY Zenon DEF LocalInv
  <2>3. QED
    BY <2>1, <2>2 DEF Counter
<1>3. P \in Nat /\ P > 2 /\ V \in Nat /\ V > 1 /\ N \in Nat /\ N > P /\ V - 1 \in Chunks
      /\ Warm(conf, r) \in Nat /\ Warm(conf, r) <= N /\ k \in 0 .. N - 1 /\ k \in Nat
      /\ conf.forwardOnly \in BOOLEAN /\ conf.overlap \in BOOLEAN
  <2>1. Warm(conf, r) \in Nat /\ Warm(conf, r) <= N
    BY <1>1, WarmFacts
  <2>2. N \in Nat /\ N > P
    BY <1>1, AllSize
  <2>3. QED
    BY <1>1, <1>2, <2>1, <2>2, SizeFacts, ConfFacts DEF Chunks
<1>4. /\ Warm(conf, r) = N <=> conf.forwardOnly \/ LastTurn(conf)
      /\ NumWarmup(r) = Warm(conf, r) /\ Remaining(r) = N - Warm(conf, r)
      /\ (AllWarmup <=> LastTurn(conf)) /\ Total = N
  BY <1>1, WarmFacts, ModelSizes
<1> HIDE DEF N
<1>5. PICK fa \in Nat : fa = k + 1
  BY <1>3
<1>6. PointsAre(conf, r, s, k, k, 0, fa, 0)
  BY <1>2, <1>5, Points
<1>o. Over(conf, k, FALSE) /\ Over(conf, 0, FALSE)
  BY <1>3 DEF Over, N
<1>7. CoreHave(conf, r, s, k, 0, fa, 0, q, FALSE, FALSE) /\ Posted(conf, r, k, 0, fa, 0, q)
  <2>1. s.phase # "done"
    BY <1>2
  <2>2. QED
    BY <1>o, <1>6, <2>1, Opened
<1>8. NoActs(r, q) /\ NoGrads(r, q)
  <2>1. NoGrads(r, q)
    BY <1>1, <1>7, Unused DEF NoGrads
  <2>2. Ready(r, "warmup")
    BY Zenon DEF WarmupIteration
  <2>3. "sync" \in Waits("warmup") /\ "fwd" \in Waits("warmup") /\ Waited(q, Waits("warmup"))
    BY <2>2, ReadyFacts
  <2>4. NoActs(r, q)
    BY <1>7, <2>3, WaitedFor
  <2>5. QED
    BY <2>1, <2>4
<1>9. /\ CoreHave(conf, r, p, fa, 0, fa, 0, q, FALSE, FALSE) /\ p.output_tensor = OutOf(r, k)
  <2>1. ~Has(q, "recv", PrevRank(r)) /\ Trails(conf, k, 0) /\ 0 \in Nat
    BY <1>8 DEF NoActs, Trails
  <2>2. CoreHave(conf, r, s, k, 0, k + 1, 0, q, FALSE, FALSE)
    BY <1>5, <1>7
  <2>3. k \in 0 .. All(conf) - 1
    BY <1>3 DEF N
  <2> HIDE DEF s, q, k
  <2>4. /\ CoreHave(conf, r, p, k + 1, 0, k + 1, 0, q, FALSE, FALSE)
        /\ p.output_tensor = OutOf(r, k)
    BY <1>1, <2>1, <2>2, <2>3, ForwardPass
  <2> HIDE DEF p
  <2>5. QED
    BY <1>5, <2>4
<1>10. p \in LocalType(conf)
  BY <1>9, Zenon DEF CoreHave, Core
<1> HIDE DEF p
<1>11. /\ p.input_tensors \in [Chunks -> Seq(Tensors)]
       /\ p.output_tensor_grads \in [Chunks -> Seq(Tensors)]
  BY <1>1, <1>10, TypeFacts
<1>12. rp = IF k = N - 1 THEN NoRecv ELSE AskAct(r, fa)
  BY <1>3, <1>4, <1>5, RecvValues
<1>13. ins = PutAt(p.input_tensors, FwdChunk(fa), rp)
  BY <1>5 DEF FwdChunk
<1> HIDE DEF rp, ins
<1>14. PICK fa2 : fa2 = IF k = N - 1 THEN fa ELSE fa + 1
  OBVIOUS
<1>15. Asks(conf, fa, fa2, rp, AskAct(r, fa))
  BY <1>3, <1>5, <1>12, <1>14 DEF Asks, N
<1>16. /\ ins \in [Chunks -> Seq(Tensors)]
       /\ k # N - 1 => AskedAt(p.input_tensors, ins, FwdChunk(fa), FirstStage(r, FwdChunk(fa)))
       /\ k = N - 1 => PaddedAt(p.input_tensors, ins)
  <2>1. CASE k # N - 1
    <3>1. InputPut(r, fa, p.input_tensors, PutAt(p.input_tensors, FwdChunk(fa), AskAct(r, fa)))
      BY <1>11, ReceivedPut
    <3>2. InputPut(r, fa, p.input_tensors, ins)
      BY <1>12, <1>13, <2>1, <3>1
    <3>3. QED
      BY <2>1, <3>2 DEF InputPut, AskedTo
  <2>2. CASE k = N - 1
    <3>1. rp = NoRecv /\ FwdChunk(fa) \in Chunks
      <4>1. fa \in Int
        OBVIOUS
      <4>2. QED
        BY <1>12, <2>2, <4>1, ChunkFacts
    <3>2. QED
      BY <1>11, <1>13, <2>2, <3>1, PutNothing
  <2>3. QED
    BY <2>1, <2>2
<1>17. rn = IF turn THEN AskGrad(r, 0) ELSE NoRecv
  BY ZeroChunks DEF AskGrad, LastStage
<1> HIDE DEF rn
<1>18. gs = IF turn THEN PutAt(p.output_tensor_grads, V - 1, rn) ELSE p.output_tensor_grads
  <2>1. CASE turn
    BY <2>1 DEF PutAt
  <2>2. CASE ~turn
    <3>1. gs = [p.output_tensor_grads EXCEPT ![V - 1] = @]
      BY <2>2
    <3> HIDE DEF gs
    <3>2. QED
      BY <1>3, <1>11, <2>2, <3>1
  <2>3. QED
    BY <2>1, <2>2
<1> HIDE DEF gs
<1>19. PICK ba2 : ba2 = IF turn THEN 1 ELSE 0
  OBVIOUS
<1>20. Asks(conf, 0, ba2, rn, AskGrad(r, 0))
  <2>1. 1 = 0 + 1 /\ 0 \in 0 .. All(conf) - 1
    BY <1>3 DEF N
  <2> HIDE DEF turn
  <2>2. QED
    BY <1>17, <1>19, <2>1 DEF Asks
<1>21. /\ gs \in [Chunks -> Seq(Tensors)]
       /\ turn => AskedAt(p.output_tensor_grads, gs, BwdChunk(0), LastStage(r, BwdChunk(0)))
       /\ ~turn => gs = p.output_tensor_grads
  <2> HIDE DEF turn
  <2>1. CASE turn
    <3>1. 0 \in Nat
      OBVIOUS
    <3>2. GradPut(r, 0, p.output_tensor_grads,
                  PutAt(p.output_tensor_grads, BwdChunk(0), AskGrad(r, 0)))
      BY <1>11, <3>1, ReceivedPut
    <3>3. GradPut(r, 0, p.output_tensor_grads, gs)
      BY <1>17, <1>18, <2>1, <3>2, ZeroChunks
    <3>4. QED
      BY <2>1, <3>3 DEF GradPut, AskedTo
  <2>2. CASE ~turn
    BY <1>11, <1>18, <2>2
  <2>3. QED
    BY <2>1, <2>2
(* Where the loop goes on. *)
<1>22. /\ ph \in Phases /\ k2 \in 0 .. N
       /\ ph = "done" => conf.forwardOnly
       /\ ph # "steady_bwd"
  BY <1>3, <1>4 DEF AfterForward, Phases
<1>23. t \in LocalType(conf) /\ RelistsTo(conf, p, t, ph, k2, ins, gs)
  <2> HIDE DEF ph, k2
  <2>1. k2 \in 0 .. All(conf)
    BY <1>22 DEF N
  <2>2. RelistsTo(conf, p, t, ph, k2, ins, gs)
    BY <1>10, <1>16, <1>21, <1>22, <2>1, RelistedFacts, Zenon
  <2> HIDE DEF t
  <2>3. QED
    BY <2>2 DEF RelistsTo
<1> HIDE DEF t
<1>24. Counter(conf, r, t) /\ PointsAre(conf, r, t, fa, fa, 0, fa2, ba2)
  <2>0. t.phase = ph /\ t.k = k2
    BY <1>23 DEF RelistsTo
  <2>1. CASE ~final
    <3>1. t.phase = "warmup" /\ t.k = fa /\ fa \in 0 .. Warm(conf, r) - 1
          /\ fa2 = fa + 1 /\ ba2 = 0
      BY <1>2, <1>3, <1>4, <1>5, <1>14, <1>19, <2>0, <2>1
    <3>2. PointsAre(conf, r, t, fa, fa, 0, fa + 1, 0)
      BY <3>1, Points
    <3>3. QED
      BY <3>1, <3>2 DEF Counter, Phases
  <2>2. CASE final /\ Remaining(r) > 0
    <3>1. t.phase = "steady" /\ t.k = fa /\ fa = Warm(conf, r) /\ fa < N
          /\ ~conf.forwardOnly /\ ~LastTurn(conf)
          /\ fa2 = fa + 1 /\ ba2 = 1
      BY <1>2, <1>3, <1>4, <1>5, <1>14, <1>19, <2>0, <2>2
    <3>2. PointsAre(conf, r, t, fa, fa, fa - Warm(conf, r), fa + 1, (fa - Warm(conf, r)) + 1)
      BY <3>1, Points
    <3>3. fa - Warm(conf, r) = 0 /\ (fa - Warm(conf, r)) + 1 = 1
      BY <1>3, <3>1
    <3>4. Counter(conf, r, t)
      BY <1>3, <3>1 DEF Counter, Phases, N
    <3>5. QED
      BY <3>1, <3>2, <3>3, <3>4
  <2>3. CASE final /\ ~(Remaining(r) > 0)
    <3>1. /\ t.k = 0 /\ fa = N /\ fa2 = fa /\ ba2 = 0
          /\ t.phase = IF conf.forwardOnly THEN "done" ELSE "last"
          /\ conf.forwardOnly \/ LastTurn(conf)
      BY <1>2, <1>3, <1>4, <1>5, <1>14, <1>19, <2>0, <2>3 DEF AfterForward
    <3>2. PointsAre(conf, r, t, N, N, 0, N, 0)
      BY <3>1, Points DEF N
    <3>3. Counter(conf, r, t)
      BY <1>3, <3>1 DEF Counter, Phases
    <3>4. QED
      BY <3>1, <3>2, <3>3
  <2>4. QED
    BY <2>1, <2>2, <2>3
<1>25. Exchanged(conf, r, k, 0, fa, 0, fa, 0, fa2, ba2, q, seg)
  <2>1. k \in 0 .. All(conf) - 1
    BY <1>3 DEF N
  <2> HIDE DEF s, q, k
  <2>2. Exchanged(conf, r, k, 0, fa, 0, fa, 0, fa2, ba2, q,
                  WarmupSegment(conf.overlap, r, rp, OutOf(r, k), rn))
    BY <1>1, <1>5, <1>7, <1>8, <1>15, <1>20, <2>1, WarmupCalls
  <2>3. QED
    BY <1>9, <2>2
<1> HIDE DEF seg
<1>26. Advances(conf, r, s, q, t, q \o seg)
  <2>1. PICK of2 : Over(conf, fa, of2)
    <3>1. Over(conf, fa, TRUE) \/ Over(conf, fa, FALSE)
      BY <1>3 DEF Over
    <3>2. QED
      BY <3>1
  <2>2. t.input_tensors = ins /\ t.output_tensor_grads = gs /\ t.phase = ph /\ Relists(p, t)
    BY <1>23 DEF RelistsTo
  <2>3. InputsTurn(r, p, t, fa, fa2, q, FALSE, of2)
    <3>1. ~Has(q, "recv", PrevRank(r))
      BY <1>8 DEF NoActs
    <3>2. CASE k # N - 1
      BY <1>14, <1>16, <2>2, <3>1, <3>2 DEF InputsTurn
    <3>3. CASE k = N - 1
      <4>1. of2 = TRUE
        <5>1. fa = N
          BY <1>3, <1>5, <3>3
        <5>2. QED
          BY <2>1, <5>1, Zenon DEF Over, N
      <4>2. QED
        BY <1>14, <1>16, <2>2, <3>1, <3>3, <4>1 DEF InputsTurn
    <3>4. QED
      BY <3>2, <3>3
  <2>4. GradsTurn(r, p, t, 0, ba2, q, FALSE, FALSE)
    <3>1. ~Has(q, "recv", NextRank(r)) /\ 1 = 0 + 1
      BY <1>8 DEF NoGrads
    <3> HIDE DEF turn
    <3>2. CASE turn
      BY <1>19, <1>21, <2>2, <3>1, <3>2 DEF GradsTurn
    <3>3. CASE ~turn
      BY <1>19, <1>21, <2>2, <3>1, <3>3 DEF GradsTurn
    <3>4. QED
      BY <3>2, <3>3
  <2>5. PassOf(conf, r, q, k, 0, fa, 0, fa, 0)
    BY <1>3, <1>5, <1>8 DEF PassOf, NoActs, N
  <2>6. /\ Slots(r, k, 0, fa, 0, fa, 0, fa2, ba2, q, q \o seg)
        /\ Posted(conf, r, fa, 0, fa2, ba2, q \o seg)
    BY <1>25, Zenon DEF Exchanged
  <2>7. ~(t.phase = "done" /\ ~conf.forwardOnly) /\ t.phase # "steady_bwd"
    BY <1>22, <2>2
  <2>8. 0 \in Nat /\ FALSE \in BOOLEAN /\ k \in Nat /\ t \in LocalType(conf)
    BY <1>3, <1>23
  <2> HIDE DEF s, q, k, ph
  <2>9. QED
    BY <1>1, <1>6, <1>9, <1>o, <1>24, <2>1, <2>2, <2>3, <2>4, <2>5, <2>6, <2>7, <2>8,
       Finished, Zenon
<1>27. /\ rank' = [rank EXCEPT ![r] = t] /\ pend' = [pend EXCEPT ![r] = q \o seg] /\ conf' = conf
  <2>1. /\ rank' = [rank EXCEPT ![r] =
              [p EXCEPT !.k = k2, !.phase = ph,
                 !.input_tensors[ChunkId(k + 1, TRUE)] = Append(@, Received(rp)),
                 !.output_tensor_grads[V - 1] = IF turn THEN Append(@, Received(rn)) ELSE @]]
        /\ pend' = [pend EXCEPT ![r] = q \o seg] /\ conf' = conf
    BY Zenon DEF WarmupIteration, Post, p, rp, rn, seg, WarmupSegment
  <2>2. QED
    BY <2>1 DEF t, ins, gs, PutAt, Relisted
<1>28. QED
  BY <1>1, <1>26, <1>27, Moved

(* The steady state of a rank: where its loop counter is. *)
LEMMA SteadyFacts ==
  ASSUME NEW cf \in Configs, NEW r \in Ranks, NEW s, Counter(cf, r, s),
         s.phase \in {"steady", "steady_bwd"}
  PROVE  /\ ~cf.forwardOnly /\ ~LastTurn(cf) /\ s.k \in Nat /\ s.k \in 0 .. All(cf) - 1
         /\ s.k >= Warm(cf, r) /\ All(cf) \in Nat /\ Warm(cf, r) \in Nat /\ Warm(cf, r) > 1
         /\ s.k - Warm(cf, r) \in Nat /\ (s.k - Warm(cf, r)) + 1 \in 0 .. All(cf) - 1
         /\ Trails(cf, s.k, s.k - Warm(cf, r))
         /\ Trails(cf, s.k + 1, (s.k - Warm(cf, r)) + 1)
         /\ (s.k - Warm(cf, r)) + 1 + Warm(cf, r) = s.k + 1
<1>1. /\ ~cf.forwardOnly /\ ~LastTurn(cf) /\ s.k \in Warm(cf, r) .. All(cf) - 1
  BY DEF Counter
<1>2. All(cf) \in Nat
  BY AllSize
<1>3. PICK w \in Nat : w = Warm(cf, r) /\ w >= P /\ w >= (V - 1) * P
  BY <1>1, WarmFacts
<1>4. P \in Nat /\ P > 2 /\ V \in Nat
  BY SizeFacts
<1>5. PICK u \in Int : u = (V - 1) * P
  BY <1>4
<1>6. PICK n \in Nat : n = s.k /\ n >= w /\ n < All(cf)
  BY <1>1, <1>2, <1>3
<1>7. PICK b \in Nat : b = n - w
  BY <1>6
<1>8. b + u <= n /\ (b + 1) + u <= n + 1
  BY <1>3, <1>5, <1>6, <1>7
<1>9. Trails(cf, n, b) /\ Trails(cf, n + 1, b + 1)
  BY <1>5, <1>8 DEF Trails
<1>10. QED
  BY <1>1, <1>2, <1>3, <1>4, <1>6, <1>7, <1>9

(* The forward half of a steady-state iteration. *)
LEMMA MovesSteadyForward ==
  ASSUME TypeOK, NEW r \in Ranks, LocalInv(conf, r, rank[r], pend[r]), SteadyForward(r)
  PROVE  Moves(r)
<1> DEFINE s == rank[r]
           q == pend[r]
           k == s.k
           N == All(conf)
           p == ForwardStepHelper(s, r, k)
           rp == SteadyRecvPrev(r, k)
           placed == conf.overlap /\ rp # NoRecv
           ins == [c \in Chunks |-> IF placed /\ c = rp THEN Append(p.input_tensors[c], Empty)
                                    ELSE p.input_tensors[c]]
           t == Relisted(p, "steady_bwd", p.k, ins, p.output_tensor_grads)
           seg == Communicate(FALSE, r, NoTensor, rp, p.output_tensor, NoRecv, "fwd")
           q2 == IF conf.overlap THEN q \o seg ELSE q
<1>1. /\ conf \in Configs /\ rank \in [Ranks -> LocalType(conf)] /\ pend \in [Ranks -> Seq(AnyOp)]
      /\ s \in LocalType(conf) /\ q \in Seq(AnyOp)
  BY StateTypes
<1>2. s.phase = "steady" /\ Counter(conf, r, s)
  <2>1. s.phase = "steady"
    BY ReadyFacts DEF SteadyForward
  <2>2. Counter(conf, r, s)
    BY Zenon DEF LocalInv
  <2>3. QED
    BY <2>1, <2>2
<1>3. /\ ~conf.forwardOnly /\ ~LastTurn(conf) /\ k \in Nat /\ k \in 0 .. N - 1
      /\ N \in Nat /\ Warm(conf, r) \in Nat /\ k >= Warm(conf, r)
      /\ k - Warm(conf, r) \in Nat /\ (k - Warm(conf, r)) + 1 \in 0 .. N - 1
      /\ Trails(conf, k, k - Warm(conf, r))
      /\ conf.overlap \in BOOLEAN /\ Total = N
  BY <1>1, <1>2, SteadyFacts, ConfFacts, ModelSizes
<1> HIDE DEF N
<1>4. PICK b \in Nat : b = k - Warm(conf, r) /\ b < N /\ Trails(conf, k, b)
  BY <1>3
<1>5. PICK fa \in Nat, ba \in Nat : fa = k + 1 /\ ba = b + 1
  BY <1>3, <1>4
<1>6. PointsAre(conf, r, s, k, k, b, fa, ba)
  BY <1>2, <1>4, <1>5, Points
<1>o. Over(conf, k, FALSE) /\ Over(conf, b, FALSE)
  BY <1>3, <1>4 DEF Over, N
<1>7. CoreHave(conf, r, s, k, b, fa, ba, q, FALSE, FALSE) /\ Posted(conf, r, k, b, fa, ba, q)
  <2>1. s.phase # "done"
    BY <1>2
  <2>2. QED
    BY <1>o, <1>6, <2>1, Opened
<1>8. ~Has(q, "send", NextRank(r)) /\ ~Has(q, "recv", PrevRank(r))
  <2>1. Ready(r, "steady")
    BY Zenon DEF SteadyForward
  <2>2. "sync" \in Waits("steady") /\ "fwd" \in Waits("steady") /\ Waited(q, Waits("steady"))
    BY <2>1, ReadyFacts
  <2>3. NoActs(r, q)
    BY <1>7, <2>2, WaitedFor
  <2>4. QED
    BY <2>3 DEF NoActs
<1>9. /\ CoreHave(conf, r, p, fa, b, fa, ba, q, FALSE, FALSE) /\ p.output_tensor = OutOf(r, k)
      /\ OutputIs(r, p, k) /\ p.k = k
  <2>1. CoreHave(conf, r, s, k, b, k + 1, ba, q, FALSE, FALSE)
    BY <1>5, <1>7
  <2>2. k \in 0 .. All(conf) - 1
    BY <1>3 DEF N
  <2> HIDE DEF s, q, k
  <2>3. /\ CoreHave(conf, r, p, k + 1, b, k + 1, ba, q, FALSE, FALSE)
        /\ p.output_tensor = OutOf(r, k) /\ OutputIs(r, p, k) /\ p.k = s.k
    BY <1>1, <1>4, <1>8, <2>1, <2>2, ForwardPass
  <2> HIDE DEF p
  <2>4. QED
    BY <1>5, <2>3 DEF k
<1>10. p \in LocalType(conf)
  BY <1>9, Zenon DEF CoreHave, Core
<1> HIDE DEF p
<1>11. /\ p.input_tensors \in [Chunks -> Seq(Tensors)]
       /\ p.output_tensor_grads \in [Chunks -> Seq(Tensors)]
  BY <1>1, <1>10, TypeFacts
<1>12. rp = IF k = N - 1 THEN NoRecv ELSE AskAct(r, fa)
  BY <1>3, <1>5, RecvValues
<1> HIDE DEF rp
<1>13. ins = IF conf.overlap THEN SetAt(p.input_tensors, rp) ELSE p.input_tensors
  <2>1. CASE conf.overlap
    <3>1. \A c \in Chunks : placed /\ c = rp <=> c = rp
      BY <2>1, ReceivedFacts
    <3> HIDE DEF placed
    <3>2. QED
      BY <2>1, <3>1 DEF SetAt
  <2>2. CASE ~conf.overlap
    <3>1. p.input_tensors = [c \in Chunks |-> p.input_tensors[c]]
      BY <1>11
    <3>2. QED
      BY <2>2, <3>1
  <2>3. QED
    BY <2>1, <2>2
<1> HIDE DEF ins
<1>14. PICK fs2, fa2 : /\ fs2 = IF conf.overlap THEN fa ELSE k
                       /\ fa2 = IF conf.overlap /\ k # N - 1 THEN fa + 1 ELSE fa
  OBVIOUS
<1>15. /\ ins \in [Chunks -> Seq(Tensors)]
       /\ conf.overlap /\ k # N - 1 =>
            AskedAt(p.input_tensors, ins, FwdChunk(fa), FirstStage(r, FwdChunk(fa)))
       /\ ~(conf.overlap /\ k # N - 1) => ins = p.input_tensors
  <2>1. CASE conf.overlap /\ k # N - 1
    <3>1. InputPut(r, fa, p.input_tensors, SetAt(p.input_tensors, AskAct(r, fa)))
      BY <1>11, ReceivedPut
    <3>2. InputPut(r, fa, p.input_tensors, ins)
      BY <1>12, <1>13, <2>1, <3>1
    <3>3. QED
      BY <2>1, <3>2 DEF InputPut, AskedTo
  <2>2. CASE conf.overlap /\ k = N - 1
    <3>1. rp = NoRecv /\ FwdChunk(fa) \in Chunks
      <4>1. fa \in Int
        OBVIOUS
      <4>2. QED
        BY <1>12, <2>2, <4>1, ChunkFacts
    <3>2. QED
      BY <1>11, <1>13, <2>2, <3>1, PutNothing
  <2>3. CASE ~conf.overlap
    BY <1>11, <1>13, <2>3
  <2>4. QED
    BY <2>1, <2>2, <2>3
<1>16. t \in LocalType(conf) /\ RelistsTo(conf, p, t, "steady_bwd", k, ins, p.output_tensor_grads)
  <2>1. k \in 0 .. All(conf) /\ "steady_bwd" \in Phases
    BY <1>3 DEF N, Phases
  <2> HIDE DEF k
  <2>2. RelistsTo(conf, p, t, "steady_bwd", k, ins, p.output_tensor_grads)
    BY <1>9, <1>10, <1>11, <1>15, <2>1, RelistedFacts
  <2> HIDE DEF t
  <2>3. QED
    BY <2>2 DEF RelistsTo
<1> HIDE DEF t
<1>17. t.phase = "steady_bwd" /\ t.k = k
  BY <1>16 DEF RelistsTo
<1>18. Counter(conf, r, t)
  BY <1>3, <1>17 DEF Counter, Phases, N
<1>19. PointsAre(conf, r, t, fa, fs2, b, fa2, ba)
  <2>1. PointsAre(conf, r, t, t.k + 1, IF conf.overlap THEN t.k + 1 ELSE t.k,
                  t.k - Warm(conf, r),
                  IF conf.overlap /\ t.k # All(conf) - 1 THEN t.k + 2 ELSE t.k + 1,
                  (t.k - Warm(conf, r)) + 1)
    BY <1>17, Points
  <2>2. /\ t.k + 1 = fa /\ (IF conf.overlap THEN t.k + 1 ELSE t.k) = fs2
        /\ t.k - Warm(conf, r) = b /\ (t.k - Warm(conf, r)) + 1 = ba
        /\ (IF conf.overlap /\ t.k # All(conf) - 1 THEN t.k + 2 ELSE t.k + 1) = fa2
    BY <1>3, <1>4, <1>5, <1>14, <1>17 DEF N
  <2>3. QED
    BY <2>1, <2>2
<1>20. Posted(conf, r, fs2, b, fa2, ba, q2) /\ Slots(r, k, b, fa, ba, fs2, b, fa2, ba, q, q2)
  <2>1. CASE conf.overlap
    <3>1. k \in 0 .. All(conf) - 1 /\ fa2 = fa + 1 => fa \in 0 .. All(conf) - 1
      BY <1>3, <1>5, <1>14 DEF N
    <3> HIDE DEF s, q, k
    <3>2. Ports(conf, r, k, b, fa, ba, fs2, b, fa2, ba, q,
                NoTensor, rp, OutOf(r, k), NoRecv, "fwd")
      <4>1. /\ fs2 = k + 1 /\ k \in 0 .. All(conf) - 1
            /\ \/ fa2 = fa + 1 /\ fa \in 0 .. All(conf) - 1 /\ rp = AskAct(r, fa)
               \/ fa2 = fa /\ rp = NoRecv
        <5>1. CASE k = N - 1
          BY <1>3, <1>5, <1>12, <1>14, <2>1, <5>1 DEF N
        <5>2. CASE k # N - 1
          <6>1. fa \in 0 .. N - 1
            BY <1>3, <1>5, <5>2
          <6>2. QED
            BY <1>3, <1>5, <1>12, <1>14, <2>1, <5>2, <6>1 DEF N
        <5>3. QED
          BY <5>1, <5>2
      <4>2. QED
        BY <1>8, <2>1, <4>1, Handles, Zenon DEF Ports, Turn
    <3>3. Exchanged(conf, r, k, b, fa, ba, fs2, b, fa2, ba, q, seg)
      <4>1. FALSE \in BOOLEAN
        OBVIOUS
      <4>2. QED
        BY <1>1, <1>3, <1>7, <1>9, <3>2, <4>1, OneExchange, Zenon
    <3> HIDE DEF seg
    <3>4. q2 = q \o seg
      BY <2>1
    <3>5. QED
      BY <3>3, <3>4 DEF Exchanged
  <2>2. CASE ~conf.overlap
    BY <1>7, <1>14, <2>2, NoExchange
  <2>3. QED
    BY <2>1, <2>2, <1>3
<1> HIDE DEF seg, q2
<1>21. Advances(conf, r, s, q, t, q2)
  <2>1. PICK of2 : Over(conf, fa, of2)
    <3>1. Over(conf, fa, TRUE) \/ Over(conf, fa, FALSE)
      BY <1>3 DEF Over
    <3>2. QED
      BY <3>1
  <2>2. /\ t.input_tensors = ins /\ t.output_tensor_grads = p.output_tensor_grads
        /\ Relists(p, t)
    BY <1>16 DEF RelistsTo
  <2>3. InputsTurn(r, p, t, fa, fa2, q, FALSE, of2)
    BY <1>8, <1>14, <1>15, <2>2 DEF InputsTurn
  <2>4. GradsTurn(r, p, t, ba, ba, q, FALSE, FALSE)
    BY <2>2 DEF GradsTurn
  <2>5. PassOf(conf, r, q, k, b, fa, ba, fa, b)
    BY <1>3, <1>5, <1>8 DEF PassOf, N
  <2>6. ~(t.phase = "done" /\ ~conf.forwardOnly) /\ (t.phase = "steady_bwd" => OutputIs(r, p, t.k))
    BY <1>9, <1>17
  <2>7. FALSE \in BOOLEAN /\ k \in Nat /\ t \in LocalType(conf)
    BY <1>3, <1>16
  <2> HIDE DEF s, q, k
  <2>8. QED
    BY <1>1, <1>6, <1>9, <1>o, <1>18, <1>19, <1>20, <2>1, <2>2, <2>3, <2>4, <2>5, <2>6, <2>7,
       Finished, Zenon
<1>22. /\ rank' = [rank EXCEPT ![r] = t] /\ pend' = [pend EXCEPT ![r] = q2] /\ conf' = conf
  <2>1. /\ rank' = [rank EXCEPT ![r] =
              [p EXCEPT !.phase = "steady_bwd", !.input_tensors =
                 [c \in Chunks |-> IF placed /\ c = rp THEN Append(@[c], Empty) ELSE @[c]]]]
        /\ IF conf.overlap THEN pend' = [pend EXCEPT ![r] = q \o seg] ELSE pend' = pend
        /\ conf' = conf
    BY Zenon DEF SteadyForward, Post, p, rp, seg
  <2>2. t = [p EXCEPT !.phase = "steady_bwd", !.input_tensors = ins]
    BY <1>10 DEF t, Relisted, LocalType
  <2>3. pend' = [pend EXCEPT ![r] = q2]
    BY <1>1, <2>1 DEF q2
  <2>4. QED
    BY <2>1, <2>2, <2>3 DEF ins
<1>23. QED
  BY <1>1, <1>21, <1>22, Moved

(* The call of a steady-state iteration: of the backward half alone, or of   *)
(* both halves.                                                              *)
SteadySegment(overlap, r, grad, rp, out, rn) ==
  IF overlap THEN Communicate(FALSE, r, grad, NoRecv, NoTensor, rn, "bwd")
  ELSE Communicate(TRUE, r, grad, rp, out, rn, "sync")

(* What it posts is what the rank may have posted after the iteration. *)
LEMMA SteadyCall ==
  ASSUME NEW cf \in Configs, cf.overlap \in BOOLEAN, NEW r \in Ranks, NEW k \in 0 .. All(cf) - 1,
         NEW b \in 0 .. All(cf) - 1, NEW f \in Nat, f = k + 1, NEW ba \in 0 .. All(cf) - 1,
         NEW fs \in Nat, fs = IF cf.overlap THEN f ELSE k,
         NEW fa \in Nat, NEW q \in Seq(AnyOp), Posted(cf, r, fs, b, fa, ba, q),
         NoGrads(r, q), ~cf.overlap => NoActs(r, q) /\ fa = f,
         NEW fa2, NEW rp, Asks(cf, fa, fa2, rp, AskAct(r, f)), cf.overlap => fa2 = fa,
         NEW b2, b2 = b + 1, NEW ba2, ba2 = ba + 1
  PROVE  Exchanged(cf, r, fs, b, fa, ba, f, b2, fa2, ba2, q,
                   SteadySegment(cf.overlap, r, GradOf(r, b), rp, OutOf(r, k), AskGrad(r, ba)))
<1>1. ~Has(q, "send", PrevRank(r)) /\ ~Has(q, "recv", NextRank(r))
  BY DEF NoGrads
<1>2. b \in Nat /\ ba \in Nat /\ All(cf) \in Nat /\ TRUE \in BOOLEAN /\ FALSE \in BOOLEAN
  BY AllSize
<1>3. CASE ~cf.overlap
  <2>1. fs = k /\ fa = f /\ ~Has(q, "send", NextRank(r)) /\ ~Has(q, "recv", PrevRank(r))
    BY <1>3 DEF NoActs
  <2>2. Ports(cf, r, fs, b, fa, ba, f, b2, fa2, ba2, q,
              GradOf(r, b), rp, OutOf(r, k), AskGrad(r, ba), "sync")
    BY <1>1, <2>1, Handles, Zenon DEF Ports, Turn, Asks
  <2>3. Exchanged(cf, r, fs, b, fa, ba, f, b2, fa2, ba2, q,
                  Communicate(TRUE, r, GradOf(r, b), rp, OutOf(r, k), AskGrad(r, ba), "sync"))
    BY <1>2, <2>2, OneExchange, Zenon
  <2>4. QED
    BY <1>3, <2>3 DEF SteadySegment
<1>4. CASE cf.overlap
  <2>1. fs = f /\ fa2 = fa
    BY <1>4
  <2>2. Ports(cf, r, fs, b, fa, ba, f, b2, fa2, ba2, q,
              GradOf(r, b), NoRecv, NoTensor, AskGrad(r, ba), "bwd")
    BY <1>1, <1>4, <2>1, Handles, Zenon DEF Ports, Turn
  <2>3. Exchanged(cf, r, fs, b, fa, ba, f, b2, fa2, ba2, q,
                  Communicate(FALSE, r, GradOf(r, b), NoRecv, NoTensor, AskGrad(r, ba), "bwd"))
    BY <1>2, <2>2, OneExchange, Zenon
  <2>4. QED
    BY <1>4, <2>3 DEF SteadySegment
<1>5. QED
  BY <1>3, <1>4

(* The backward half of a steady-state iteration. *)
LEMMA MovesSteadyBackward ==
  ASSUME TypeOK, NEW r \in Ranks, LocalInv(conf, r, rank[r], pend[r]), SteadyBackward(r)
  PROVE  Moves(r)
<1> DEFINE s == rank[r]
           q == pend[r]
           k == s.k
           N == All(conf)
           id == k - NumWarmup(r)
           p == BackwardStepHelper(s, r, id)
           rp == IF conf.overlap THEN NoRecv ELSE SteadyRecvPrev(r, k)
           rn == SteadyRecvNext(r, id)
           final == k = Total - 1
           k2 == IF final THEN Remaining(r) ELSE p.k + 1
           ph == IF final THEN "cooldown" ELSE "steady"
           ins == SetAt(p.input_tensors, rp)
           gs == SetAt(p.output_tensor_grads, rn)
           t == Relisted(p, ph, k2, ins, gs)
           seg == SteadySegment(conf.overlap, r, p.input_tensor_grad, rp, p.output_tensor, rn)
<1>1. /\ conf \in Configs /\ rank \in [Ranks -> LocalType(conf)] /\ pend \in [Ranks -> Seq(AnyOp)]
      /\ s \in LocalType(conf) /\ q \in Seq(AnyOp)
  BY StateTypes
<1>2. s.phase = "steady_bwd" /\ Counter(conf, r, s) /\ OutputIs(r, s, k)
  <2>1. s.phase = "steady_bwd"
    BY ReadyFacts DEF SteadyBackward
  <2>2. Counter(conf, r, s) /\ (s.phase = "steady_bwd" => OutputIs(r, s, k))
    BY Zenon DEF LocalInv
  <2>3. QED
    BY <2>1, <2>2
<1>3. /\ ~conf.forwardOnly /\ ~LastTurn(conf) /\ k \in Nat /\ k \in 0 .. N - 1
      /\ N \in Nat /\ Warm(conf, r) \in Nat /\ Warm(conf, r) > 1 /\ k >= Warm(conf, r)
      /\ k - Warm(conf, r) \in Nat /\ (k - Warm(conf, r)) + 1 \in 0 .. N - 1
      /\ Trails(conf, k + 1, (k - Warm(conf, r)) + 1)
      /\ conf.overlap \in BOOLEAN /\ Total = N /\ NumWarmup(r) = Warm(conf, r)
      /\ Remaining(r) = N - Warm(conf, r)
  BY <1>1, <1>2, SteadyFacts, ConfFacts, ModelSizes
<1> HIDE DEF N
<1>4. PICK b \in Nat : b = k - Warm(conf, r) /\ b < N /\ b \in 0 .. N - 1 /\ id = b
  BY <1>3
<1>5. PICK f \in Nat, ba \in Nat : f = k + 1 /\ ba = b + 1 /\ ba \in 0 .. N - 1
                                   /\ Trails(conf, f, ba)
  BY <1>3, <1>4
<1> HIDE DEF id
<1>6. PICK fs \in Nat, fa \in Nat : /\ fs = IF conf.overlap THEN f ELSE k
                                    /\ fa = IF conf.overlap /\ k # N - 1 THEN f + 1 ELSE f
  BY <1>3, <1>5
<1>7. PointsAre(conf, r, s, f, fs, b, fa, ba)
  <2>1. PointsAre(conf, r, s, k + 1, IF conf.overlap THEN k + 1 ELSE k,
                  k - Warm(conf, r),
                  IF conf.overlap /\ k # N - 1 THEN k + 2 ELSE k + 1,
                  (k - Warm(conf, r)) + 1)
    BY <1>2, Points DEF N
  <2>2. (IF conf.overlap /\ k # N - 1 THEN k + 2 ELSE k + 1) = fa
    BY <1>3, <1>5, <1>6
  <2>3. QED
    BY <1>4, <1>5, <1>6, <2>1, <2>2
<1>8. PICK of \in BOOLEAN : Over(conf, f, of) /\ of = (f = N)
  BY DEF Over, N
<1>o. Over(conf, b, FALSE) /\ Over(conf, ba, FALSE)
  BY <1>3, <1>4, <1>5 DEF Over, N
<1>9. CoreHave(conf, r, s, f, b, fa, ba, q, of, FALSE) /\ Posted(conf, r, fs, b, fa, ba, q)
  <2>1. s.phase # "done"
    BY <1>2
  <2>2. QED
    BY <1>o, <1>7, <1>8, <2>1, Opened
<1>10. NoGrads(r, q) /\ (~conf.overlap => NoActs(r, q))
  <2>1. Ready(r, "steady_bwd")
    BY Zenon DEF SteadyBackward
  <2>2. /\ "sync" \in Waits("steady_bwd") /\ "bwd" \in Waits("steady_bwd")
        /\ Waited(q, Waits("steady_bwd"))
    BY <2>1, ReadyFacts
  <2>3. QED
    BY <1>9, <2>2, WaitedFor
<1>11. /\ CoreHave(conf, r, p, f, ba, fa, ba, q, of, FALSE)
       /\ p.input_tensor_grad = GradOf(r, b) /\ p.output_tensor = OutOf(r, k) /\ p.k = k
  <2>1. /\ CoreHave(conf, r, s, f, b, fa, b + 1, q, of, FALSE) /\ Trails(conf, f, b + 1)
        /\ f <= fa /\ b \in 0 .. All(conf) - 1
    <3>1. ba = b + 1 /\ f <= fa /\ b \in 0 .. N - 1
      BY <1>4, <1>5, <1>6
    <3>2. CoreHave(conf, r, s, f, b, fa, b + 1, q, of, FALSE) /\ Trails(conf, f, b + 1)
      BY <1>5, <1>9, <3>1, Zenon
    <3>3. QED
      BY <3>1, <3>2 DEF N
  <2>2. ~Has(q, "recv", NextRank(r))
    BY <1>10 DEF NoGrads
  <2>3. PICK p1 : p1 = BackwardStepHelper(s, r, b)
    OBVIOUS
  <2>4. p1 = p
    BY <1>4, <2>3
  <2> HIDE DEF s, q, k, p
  <2>5. /\ CoreHave(conf, r, p1, f, b + 1, fa, b + 1, q, of, FALSE)
        /\ p1.input_tensor_grad = GradOf(r, b) /\ p1.output_tensor = s.output_tensor /\ p1.k = s.k
    BY <1>1, <1>3, <2>1, <2>2, <2>3, BackwardPass
  <2>6. s.output_tensor = OutOf(r, k)
    BY <1>2 DEF OutputIs, OutOf
  <2>7. QED
    BY <1>5, <2>4, <2>5, <2>6 DEF k
<1>12. p \in LocalType(conf)
  BY <1>11, Zenon DEF CoreHave, Core
<1> HIDE DEF p
<1>13. /\ p.input_tensors \in [Chunks -> Seq(Tensors)]
       /\ p.output_tensor_grads \in [Chunks -> Seq(Tensors)]
  BY <1>1, <1>12, TypeFacts
<1>14. /\ rp = IF conf.overlap \/ k = N - 1 THEN NoRecv ELSE AskAct(r, f)
       /\ rn = AskGrad(r, ba)
  <2>1. SteadyRecvPrev(r, k) = IF k = N - 1 THEN NoRecv ELSE AskAct(r, k + 1)
    BY <1>3, RecvValues
  <2>2. SteadyRecvNext(r, b) = AskGrad(r, b + 1)
    BY RecvValues
  <2>3. QED
    BY <1>3, <1>4, <1>5, <2>1, <2>2
<1> HIDE DEF rp, rn
<1>15. PICK fa2, ba2 : /\ fa2 = IF conf.overlap \/ k = N - 1 THEN fa ELSE fa + 1
                       /\ ba2 = ba + 1
  OBVIOUS
<1>16. /\ ins \in [Chunks -> Seq(Tensors)]
       /\ ~(conf.overlap \/ k = N - 1) =>
            AskedAt(p.input_tensors, ins, FwdChunk(f), FirstStage(r, FwdChunk(f)))
       /\ conf.overlap \/ k = N - 1 => ins = p.input_tensors
  <2>1. CASE ~(conf.overlap \/ k = N - 1)
    <3>1. InputPut(r, f, p.input_tensors, SetAt(p.input_tensors, AskAct(r, f)))
      BY <1>13, ReceivedPut
    <3>2. InputPut(r, f, p.input_tensors, ins)
      BY <1>14, <2>1, <3>1
    <3>3. QED
      BY <2>1, <3>2 DEF InputPut, AskedTo
  <2>2. CASE conf.overlap \/ k = N - 1
    <3>1. rp = NoRecv /\ FwdChunk(f) \in Chunks
      <4>1. f \in Int
        OBVIOUS
      <4>2. QED
        BY <1>14, <2>2, <4>1, ChunkFacts
    <3>2. ins = p.input_tensors
      BY <1>13, <3>1, PutNothing
    <3>3. QED
      BY <1>13, <2>2, <3>2
  <2>3. QED
    BY <2>1, <2>2
<1>17. /\ gs \in [Chunks -> Seq(Tensors)]
       /\ AskedAt(p.output_tensor_grads, gs, BwdChunk(ba), LastStage(r, BwdChunk(ba)))
  <2>1. GradPut(r, ba, p.output_tensor_grads, SetAt(p.output_tensor_grads, AskGrad(r, ba)))
    BY <1>13, ReceivedPut
  <2>2. GradPut(r, ba, p.output_tensor_grads, gs)
    BY <1>14, <2>1
  <2>3. QED
    BY <2>2 DEF GradPut, AskedTo
<1> HIDE DEF ins, gs
<1>18. ph \in Phases /\ k2 \in 0 .. N
  BY <1>3, <1>11 DEF Phases
<1>19. t \in LocalType(conf) /\ RelistsTo(conf, p, t, ph, k2, ins, gs)
  <2> HIDE DEF ph, k2
  <2>1. k2 \in 0 .. All(conf)
    BY <1>18 DEF N
  <2>2. RelistsTo(conf, p, t, ph, k2, ins, gs)
    BY <1>12, <1>16, <1>17, <1>18, <2>1, RelistedFacts, Zenon
  <2> HIDE DEF t
  <2>3. QED
    BY <2>2 DEF RelistsTo
<1> HIDE DEF t
<1>20. Counter(conf, r, t) /\ PointsAre(conf, r, t, f, f, ba, fa2, ba2) /\ t.phase = ph
  <2>0. t.phase = ph /\ t.k = k2
    BY <1>19 DEF RelistsTo
  <2>1. CASE final
    <3>1. t.phase = "cooldown" /\ t.k = N - Warm(conf, r) /\ k = N - 1
      BY <1>3, <2>0, <2>1
    <3>2. t.k = ba /\ f = N /\ fa2 = N /\ ba2 = ba + 1
      BY <1>3, <1>4, <1>5, <1>6, <1>15, <3>1
    <3>3. PointsAre(conf, r, t, N, N, t.k, N, t.k + 1)
      BY <3>1, Points DEF N
    <3>4. Counter(conf, r, t)
      BY <1>3, <3>1 DEF Counter, Phases, N
    <3>5. QED
      BY <2>0, <3>2, <3>3, <3>4
  <2>2. CASE ~final
    <3>1. t.phase = "steady" /\ t.k = f /\ k # N - 1
      BY <1>3, <1>5, <1>11, <2>0, <2>2
    <3>2. PointsAre(conf, r, t, f, f, f - Warm(conf, r), f + 1, (f - Warm(conf, r)) + 1)
      BY <3>1, Points
    <3>3. f - Warm(conf, r) = ba /\ (f - Warm(conf, r)) + 1 = ba2 /\ fa2 = f + 1
      BY <1>3, <1>4, <1>5, <1>6, <1>15, <3>1
    <3>4. Counter(conf, r, t)
      BY <1>3, <1>5, <3>1 DEF Counter, Phases, N
    <3>5. QED
      BY <2>0, <3>2, <3>3, <3>4
  <2>3. QED
    BY <2>1, <2>2
<1>21. Exchanged(conf, r, fs, b, fa, ba, f, ba, fa2, ba2, q, seg)
  <2>1. k \in 0 .. All(conf) - 1 /\ b \in 0 .. All(conf) - 1 /\ ba \in 0 .. All(conf) - 1
    BY <1>3, <1>4, <1>5 DEF N
  <2>2. Asks(conf, fa, fa2, rp, AskAct(r, f)) /\ (conf.overlap => fa2 = fa)
        /\ (~conf.overlap => NoActs(r, q) /\ fa = f)
    <3>1. CASE conf.overlap \/ k = N - 1
      BY <1>6, <1>10, <1>14, <1>15, <3>1 DEF Asks
    <3>2. CASE ~(conf.overlap \/ k = N - 1)
      <4>1. fa = f /\ f \in 0 .. N - 1
        BY <1>3, <1>5, <1>6, <3>2
      <4>2. QED
        BY <1>10, <1>14, <1>15, <3>2, <4>1 DEF Asks, N
    <3>3. QED
      BY <3>1, <3>2
  <2> HIDE DEF s, q, k
  <2>3. Exchanged(conf, r, fs, b, fa, ba, f, ba, fa2, ba2, q,
                  SteadySegment(conf.overlap, r, GradOf(r, b), rp, OutOf(r, k), AskGrad(r, ba)))
    BY <1>1, <1>3, <1>5, <1>6, <1>9, <1>10, <1>15, <2>1, <2>2, SteadyCall
  <2>4. QED
    BY <1>11, <1>14, <2>3
<1> HIDE DEF seg
<1>22. Advances(conf, r, s, q, t, q \o seg)
  <2>1. t.input_tensors = ins /\ t.output_tensor_grads = gs /\ Relists(p, t)
    BY <1>19 DEF RelistsTo
  <2>2. InputsTurn(r, p, t, fa, fa2, q, of, of)
    <3>1. CASE conf.overlap \/ k = N - 1
      BY <1>15, <1>16, <2>1, <3>1 DEF InputsTurn
    <3>2. CASE ~(conf.overlap \/ k = N - 1)
      <4>1. fa = f /\ ~Has(q, "recv", PrevRank(r)) /\ f # N
        BY <1>3, <1>5, <1>6, <1>10, <3>2 DEF NoActs
      <4>2. ~of
        BY <1>8, <4>1
      <4>3. QED
        BY <1>15, <1>16, <2>1, <3>2, <4>1, <4>2 DEF InputsTurn
    <3>3. QED
      BY <3>1, <3>2
  <2>3. GradsTurn(r, p, t, ba, ba2, q, FALSE, FALSE)
    BY <1>10, <1>15, <1>17, <2>1 DEF GradsTurn, NoGrads
  <2>4. PassOf(conf, r, q, f, b, fa, ba, f, ba)
    BY <1>4, <1>5, <1>10 DEF PassOf, NoGrads, N
  <2>5. /\ Slots(r, fs, b, fa, ba, f, ba, fa2, ba2, q, q \o seg)
        /\ Posted(conf, r, f, ba, fa2, ba2, q \o seg)
    BY <1>21, Zenon DEF Exchanged
  <2>6. ~(t.phase = "done" /\ ~conf.forwardOnly) /\ t.phase # "steady_bwd"
    BY <1>20
  <2>7. FALSE \in BOOLEAN /\ t \in LocalType(conf)
    BY <1>19
  <2> HIDE DEF s, q, k
  <2>8. QED
    BY <1>1, <1>7, <1>8, <1>11, <1>o, <1>20, <2>1, <2>2, <2>3, <2>4, <2>5, <2>6, <2>7,
       Finished, Zenon
<1>23. /\ rank' = [rank EXCEPT ![r] = t] /\ pend' = [pend EXCEPT ![r] = q \o seg] /\ conf' = conf
  <2>1. /\ rank' = [rank EXCEPT ![r] =
              [p EXCEPT
                 !.k = IF final THEN Remaining(r) ELSE @ + 1,
                 !.phase = IF final THEN "cooldown" ELSE "steady",
                 !.input_tensors =
                    [c \in Chunks |-> IF c = rp THEN Append(@[c], Empty) ELSE @[c]],
                 !.output_tensor_grads =
                    [c \in Chunks |-> IF c = rn THEN Append(@[c], Empty) ELSE @[c]]]]
        /\ pend' = [pend EXCEPT ![r] = q \o seg] /\ conf' = conf
    BY Zenon DEF SteadyBackward, Post, p, rp, rn, seg, SteadySegment, id
  <2>2. QED
    BY <2>1, Zenon DEF t, ins, gs, SetAt, Relisted
<1>24. QED
  BY <1>1, <1>22, <1>23, Moved

(* One iteration of the cooldown loop. *)
LEMMA MovesCooldown ==
  ASSUME TypeOK, NEW r \in Ranks, LocalInv(conf, r, rank[r], pend[r]), CooldownIteration(r)
  PROVE  Moves(r)
<1> DEFINE s == rank[r]
           q == pend[r]
           k == s.k
           N == All(conf)
           p == BackwardStepHelper(s, r, k)
           rn == CooldownRecvNext(r, k)
           k2 == k + 1
           ph == IF k = Total - 1 THEN "launch" ELSE "cooldown"
           gs == PutAt(p.output_tensor_grads, ChunkId(k + 1, FALSE), rn)
           t == Relisted(p, ph, k2, p.input_tensors, gs)
           seg == Communicate(~conf.overlap, r, p.input_tensor_grad, NoRecv, NoTensor, rn, "sync")
<1>1. /\ conf \in Configs /\ rank \in [Ranks -> LocalType(conf)] /\ pend \in [Ranks -> Seq(AnyOp)]
      /\ s \in LocalType(conf) /\ q \in Seq(AnyOp)
  BY StateTypes
<1>2. s.phase = "cooldown" /\ Counter(conf, r, s)
  <2>1. s.phase = "cooldown"
    BY ReadyFacts DEF CooldownIteration
  <2>2. Counter(conf, r, s)
    BY Zenon DEF LocalInv
  <2>3. QED
    BY <2>1, <2>2
<1>3. /\ ~conf.forwardOnly /\ k \in 0 .. N - 1 /\ k \in Nat /\ N \in Nat /\ N > 0
      /\ Warm(conf, r) \in Nat /\ Warm(conf, r) <= N /\ k >= N - Warm(conf, r)
      /\ Total = N
  <2>1. ~conf.forwardOnly /\ k \in N - Warm(conf, r) .. N - 1
    BY <1>2 DEF Counter
  <2>2. Warm(conf, r) \in Nat /\ Warm(conf, r) <= N
    BY <1>1, WarmFacts
  <2>3. N \in Nat /\ N > P /\ P \in Nat /\ Total = N
    BY <1>1, AllSize, SizeFacts, ModelSizes
  <2> HIDE DEF N, k
  <2>4. QED
    BY <2>1, <2>2, <2>3
<1> HIDE DEF N
<1>4. PICK ba \in Nat : ba = k + 1
  BY <1>3
<1>5. Trails(conf, N, ba)
  BY <1>3, <1>4 DEF Trails, N
<1>6. PointsAre(conf, r, s, N, N, k, N, ba)
  BY <1>2, <1>4, Points DEF N
<1>o. Over(conf, N, TRUE) /\ Over(conf, k, FALSE)
  BY <1>3 DEF Over, N
<1>7. CoreHave(conf, r, s, N, k, N, ba, q, TRUE, FALSE) /\ Posted(conf, r, N, k, N, ba, q)
  <2>1. s.phase # "done"
    BY <1>2
  <2>2. QED
    BY <1>o, <1>6, <2>1, Opened
<1>8. ~Has(q, "send", PrevRank(r)) /\ ~Has(q, "recv", NextRank(r))
  <2>1. Ready(r, "cooldown")
    BY Zenon DEF CooldownIteration
  <2>2. "sync" \in Waits("cooldown") /\ "bwd" \in Waits("cooldown") /\ Waited(q, Waits("cooldown"))
    BY <2>1, ReadyFacts
  <2>3. NoGrads(r, q)
    BY <1>7, <2>2, WaitedFor
  <2>4. QED
    BY <2>3 DEF NoGrads
<1>9. /\ CoreHave(conf, r, p, N, ba, N, ba, q, TRUE, FALSE)
      /\ p.input_tensor_grad = GradOf(r, k)
  <2>1. CoreHave(conf, r, s, N, k, N, k + 1, q, TRUE, FALSE) /\ Trails(conf, N, k + 1)
    BY <1>4, <1>5, <1>7
  <2>2. k \in 0 .. All(conf) - 1 /\ N <= N
    BY <1>3 DEF N
  <2> HIDE DEF s, q, k
  <2>3. /\ CoreHave(conf, r, p, N, k + 1, N, k + 1, q, TRUE, FALSE)
        /\ p.input_tensor_grad = GradOf(r, k)
    BY <1>1, <1>3, <1>8, <2>1, <2>2, BackwardPass
  <2> HIDE DEF p
  <2>4. QED
    BY <1>4, <2>3
<1>10. p \in LocalType(conf)
  BY <1>9, Zenon DEF CoreHave, Core
<1> HIDE DEF p
<1>11. /\ p.input_tensors \in [Chunks -> Seq(Tensors)]
       /\ p.output_tensor_grads \in [Chunks -> Seq(Tensors)]
  BY <1>1, <1>10, TypeFacts
<1>12. rn = IF k = N - 1 THEN NoRecv ELSE AskGrad(r, ba)
  BY <1>3, <1>4, RecvValues
<1>13. gs = PutAt(p.output_tensor_grads, BwdChunk(ba), rn)
  BY <1>4 DEF BwdChunk
<1> HIDE DEF rn, gs
<1>14. PICK ba2 : ba2 = IF k = N - 1 THEN ba ELSE ba + 1
  OBVIOUS
<1>15. /\ gs \in [Chunks -> Seq(Tensors)]
       /\ k # N - 1 =>
            AskedAt(p.output_tensor_grads, gs, BwdChunk(ba), LastStage(r, BwdChunk(ba)))
       /\ k = N - 1 => PaddedAt(p.output_tensor_grads, gs)
  <2>1. CASE k # N - 1
    <3>1. GradPut(r, ba, p.output_tensor_grads,
                  PutAt(p.output_tensor_grads, BwdChunk(ba), AskGrad(r, ba)))
      BY <1>11, ReceivedPut
    <3>2. GradPut(r, ba, p.output_tensor_grads, gs)
      BY <1>12, <1>13, <2>1, <3>1
    <3>3. QED
      BY <2>1, <3>2 DEF GradPut, AskedTo
  <2>2. CASE k = N - 1
    <3>1. rn = NoRecv /\ BwdChunk(ba) \in Chunks
      <4>1. ba \in Int
        OBVIOUS
      <4>2. QED
        BY <1>12, <2>2, <4>1, ChunkFacts
    <3>2. QED
      BY <1>11, <1>13, <2>2, <3>1, PutNothing
  <2>3. QED
    BY <2>1, <2>2
<1>16. ph \in Phases /\ k2 \in 0 .. N
  BY <1>3 DEF Phases
<1>17. t \in LocalType(conf) /\ RelistsTo(conf, p, t, ph, k2, p.input_tensors, gs)
  <2> HIDE DEF ph, k2
  <2>1. k2 \in 0 .. All(conf)
    BY <1>16 DEF N
  <2>2. RelistsTo(conf, p, t, ph, k2, p.input_tensors, gs)
    BY <1>10, <1>11, <1>15, <1>16, <2>1, RelistedFacts
  <2> HIDE DEF t
  <2>3. QED
    BY <2>2 DEF RelistsTo
<1> HIDE DEF t
<1>18. Counter(conf, r, t) /\ PointsAre(conf, r, t, N, N, ba, N, ba2) /\ t.phase = ph
  <2>0. t.phase = ph /\ t.k = k2
    BY <1>17 DEF RelistsTo
  <2>1. CASE k = N - 1
    <3>1. t.phase = "launch" /\ t.k = N /\ ba = N /\ ba2 = N
      BY <1>3, <1>4, <1>14, <2>0, <2>1
    <3>2. PointsAre(conf, r, t, N, N, N, N, N)
      BY <3>1, Points DEF N
    <3>3. Counter(conf, r, t)
      BY <1>3, <3>1 DEF Counter, Phases, N
    <3>4. QED
      BY <2>0, <3>1, <3>2, <3>3
  <2>2. CASE k # N - 1
    <3>1. t.phase = "cooldown" /\ t.k = ba /\ ba2 = ba + 1
      BY <1>3, <1>4, <1>14, <2>0, <2>2
    <3>2. PointsAre(conf, r, t, N, N, t.k, N, t.k + 1)
      BY <3>1, Points DEF N
    <3>3. Counter(conf, r, t)
      BY <1>3, <1>4, <2>2, <3>1 DEF Counter, Phases, N
    <3>4. QED
      BY <2>0, <3>1, <3>2, <3>3
  <2>3. QED
    BY <2>1, <2>2
<1>19. Exchanged(conf, r, N, k, N, ba, N, ba, N, ba2, q, seg)
  <2>1. k \in 0 .. All(conf) - 1 /\ ba = k + 1
        /\ (\/ ba2 = ba + 1 /\ ba \in 0 .. All(conf) - 1 /\ rn = AskGrad(r, ba)
            \/ ba2 = ba /\ rn = NoRecv)
    <3>1. CASE k = N - 1
      BY <1>3, <1>4, <1>12, <1>14, <3>1 DEF N
    <3>2. CASE k # N - 1
      <4>1. ba \in 0 .. N - 1
        BY <1>3, <1>4, <3>2
      <4>2. QED
        BY <1>3, <1>4, <1>12, <1>14, <3>2, <4>1 DEF N
    <3>3. QED
      BY <3>1, <3>2
  <2> HIDE DEF s, q, k
  <2>2. Ports(conf, r, N, k, N, ba, N, ba, N, ba2, q, GradOf(r, k), NoRecv, NoTensor, rn, "sync")
    BY <1>8, <2>1, Handles, Zenon DEF Ports, Turn
  <2>3. PICK o \in BOOLEAN : o = (~conf.overlap)
    OBVIOUS
  <2>4. Exchanged(conf, r, N, k, N, ba, N, ba, N, ba2, q,
                  Communicate(o, r, GradOf(r, k), NoRecv, NoTensor, rn, "sync"))
    BY <1>1, <1>3, <1>7, <2>2, OneExchange, Zenon
  <2>5. QED
    BY <1>9, <2>3, <2>4
<1> HIDE DEF seg
<1>20. Advances(conf, r, s, q, t, q \o seg)
  <2>1. PICK ob2 : Over(conf, ba, ob2)
    <3>1. Over(conf, ba, TRUE) \/ Over(conf, ba, FALSE)
      BY <1>3 DEF Over
    <3>2. QED
      BY <3>1
  <2>2. t.input_tensors = p.input_tensors /\ t.output_tensor_grads = gs /\ Relists(p, t)
    BY <1>17 DEF RelistsTo
  <2>3. InputsTurn(r, p, t, N, N, q, TRUE, TRUE)
    BY <2>2 DEF InputsTurn
  <2>4. GradsTurn(r, p, t, ba, ba2, q, FALSE, ob2)
    <3>1. CASE k # N - 1
      BY <1>8, <1>14, <1>15, <2>2, <3>1 DEF GradsTurn
    <3>2. CASE k = N - 1
      <4>1. ob2 = TRUE
        <5>1. ba = N
          BY <1>3, <1>4, <3>2
        <5>2. QED
          BY <2>1, <5>1, Zenon DEF Over, N
      <4>2. QED
        BY <1>8, <1>14, <1>15, <2>2, <3>2, <4>1 DEF GradsTurn
    <3>3. QED
      BY <3>1, <3>2
  <2>5. PassOf(conf, r, q, N, k, N, ba, N, ba)
    BY <1>3, <1>4, <1>5, <1>8 DEF PassOf, N
  <2>6. /\ Slots(r, N, k, N, ba, N, ba, N, ba2, q, q \o seg)
        /\ Posted(conf, r, N, ba, N, ba2, q \o seg)
    BY <1>19, Zenon DEF Exchanged
  <2>7. ~(t.phase = "done" /\ ~conf.forwardOnly) /\ t.phase # "steady_bwd"
    BY <1>18
  <2>8. FALSE \in BOOLEAN /\ TRUE \in BOOLEAN /\ t \in LocalType(conf) /\ k \in Nat /\ N \in Nat
    BY <1>3, <1>17
  <2> HIDE DEF s, q, k
  <2>9. QED
    BY <1>1, <1>6, <1>9, <1>o, <1>18, <2>1, <2>2, <2>3, <2>4, <2>5, <2>6, <2>7, <2>8,
       Finished, Zenon
<1>21. /\ rank' = [rank EXCEPT ![r] = t] /\ pend' = [pend EXCEPT ![r] = q \o seg] /\ conf' = conf
  <2>1. /\ rank' = [rank EXCEPT ![r] =
              [p EXCEPT !.k = k2, !.phase = ph,
                 !.output_tensor_grads[ChunkId(k + 1, FALSE)] = Append(@, Received(rn))]]
        /\ pend' = [pend EXCEPT ![r] = q \o seg] /\ conf' = conf
    BY Zenon DEF CooldownIteration, Post, p, rn, seg
  <2>2. [p EXCEPT !.k = k2, !.phase = ph,
                  !.output_tensor_grads[ChunkId(k + 1, FALSE)] = Append(@, Received(rn))]
          = [p EXCEPT !.k = k2, !.phase = ph, !.output_tensor_grads = gs]
    BY DEF gs, PutAt
  <2>3. [p EXCEPT !.k = k2, !.phase = ph, !.output_tensor_grads = gs] = t
    <3> HIDE DEF k2, ph
    <3>1. QED
      BY <1>10 DEF t, Relisted, LocalType
  <2>4. QED
    BY <2>1, <2>2, <2>3
<1>22. QED
  BY <1>1, <1>20, <1>21, Moved

(* Launching the remaining gradient synchronizations. *)
LEMMA MovesLaunch ==
  ASSUME TypeOK, NEW r \in Ranks, LocalInv(conf, r, rank[r], pend[r]), LaunchRemaining(r)
  PROVE  Moves(r)
<1> DEFINE s == rank[r]
           q == pend[r]
           N == All(conf)
           gs == Synced(s, RemainingChunks(s))
           sy == s.synchronized \cup RemainingChunks(s)
           t == [s EXCEPT !.phase = "done", !.no_sync = FALSE, !.grad_syncs = gs,
                          !.synchronized = sy]
<1>1. /\ conf \in Configs /\ rank \in [Ranks -> LocalType(conf)] /\ pend \in [Ranks -> Seq(AnyOp)]
      /\ s \in LocalType(conf) /\ q \in Seq(AnyOp)
  BY StateTypes
<1>2. s.phase = "launch" /\ Counter(conf, r, s)
  <2>1. s.phase = "launch"
    BY ReadyFacts DEF LaunchRemaining
  <2>2. Counter(conf, r, s)
    BY Zenon DEF LocalInv
  <2>3. QED
    BY <2>1, <2>2
<1>3. ~conf.forwardOnly /\ s.k = N /\ N \in Nat /\ N > 0
  <2>1. N \in Nat /\ N > P /\ P \in Nat
    BY <1>1, AllSize, SizeFacts
  <2>2. ~conf.forwardOnly /\ s.k = N
    BY <1>2 DEF Counter
  <2> HIDE DEF N
  <2>3. QED
    BY <2>1, <2>2
<1>4. PointsAre(conf, r, s, N, N, N, N, N)
  BY <1>2, Points
<1> HIDE DEF N
<1>5. PICK hf, hb : hf = Has(q, "recv", PrevRank(r)) /\ hb = Has(q, "recv", NextRank(r))
  OBVIOUS
<1>o. Over(conf, N, TRUE)
  BY DEF Over, N
<1>6. CoreHave(conf, r, s, N, N, N, N, q, TRUE, TRUE) /\ Posted(conf, r, N, N, N, N, q)
  <2>1. s.phase # "done"
    BY <1>2
  <2>2. QED
    BY <1>4, <1>o, <2>1, Opened
<1>7. /\ Counts(s, N, N) /\ Outputs(conf, r, s) /\ GradsHanded(conf, r, s, N)
      /\ InputsHave(conf, r, s, N, q, TRUE) /\ GradsHave(r, s, N, q, TRUE)
      /\ ParamsLaunched(r, s, N)
  BY <1>6, Zenon DEF CoreHave, Core, InputsHave, GradsHave
<1>8. gs \in [Chunks -> Seq(0 .. conf.microbatches)] /\ sy \in SUBSET Chunks
  <2>1. /\ s.grad_syncs \in [Chunks -> Seq(0 .. conf.microbatches)]
        /\ s.bwd \in [Chunks -> 0 .. conf.microbatches] /\ s.synchronized \in SUBSET Chunks
    BY <1>1, TypeFacts
  <2>2. ASSUME NEW c \in Chunks
        PROVE  /\ Append(s.grad_syncs[c], s.bwd[c]) \in Seq(0 .. conf.microbatches)
               /\ s.grad_syncs[c] \in Seq(0 .. conf.microbatches)
    <3>1. s.grad_syncs[c] \in Seq(0 .. conf.microbatches) /\ s.bwd[c] \in 0 .. conf.microbatches
      BY <2>1
    <3>2. QED
      BY <3>1
  <2>3. gs \in [Chunks -> Seq(0 .. conf.microbatches)]
    BY <2>2 DEF Synced
  <2>4. QED
    BY <2>1, <2>3 DEF RemainingChunks
<1>9. AllHanded(conf, t)
  <2>1. t.grad_syncs = Synced(s, RemainingChunks(s))
    BY <1>1 DEF LocalType
  <2>2. \A d \in Chunks : s.bwd[d] = Bwd(d, All(conf))
    BY <1>7 DEF Counts, N
  <2>3. GradsHanded(conf, r, s, All(conf))
    BY <1>7 DEF N
  <2> HIDE DEF s, t
  <2>4. QED
    BY <1>1, <2>1, <2>2, <2>3, LaunchStep
<1> HIDE DEF gs, sy
<1>10. /\ t \in LocalType(conf) /\ t.phase = "done" /\ t.k = s.k
       /\ t.input_tensors = s.input_tensors /\ t.output_tensors = s.output_tensors
       /\ t.output_tensor_grads = s.output_tensor_grads
       /\ t.drawn = s.drawn /\ t.bwd = s.bwd /\ t.param_syncs = s.param_syncs
  BY <1>1, <1>8 DEF LocalType, Phases
<1> HIDE DEF t
<1>11. PointsAre(conf, r, t, N, N, N, N, N)
  BY <1>3, <1>10, Points DEF N
<1>12. Counter(conf, r, t)
  BY <1>3, <1>10 DEF Counter, Phases, N
<1>13. /\ Counts(t, N, N) /\ Outputs(conf, r, t) /\ ParamsLaunched(r, t, N)
  BY <1>7, <1>10 DEF Counts, Outputs, OutputsAre, Base, ParamsLaunched
<1>14. InputsHave(conf, r, t, N, q, TRUE) /\ GradsHave(r, t, N, q, TRUE)
  BY <1>7, <1>10 DEF InputsHave, Inputs, InputsAre, Base, GradsHave, Grads, GradsAre
<1>15. LocalInv(conf, r, t, q)
  <2>1. (N = All(conf)) = TRUE
    BY DEF N
  <2>2. /\ Inputs(conf, r, t, FwdAsked(conf, r, t), Has(q, "recv", PrevRank(r)),
                  FwdDone(conf, r, t) = All(conf))
        /\ Grads(r, t, BwdAsked(conf, r, t), Has(q, "recv", NextRank(r)),
                 BwdDone(conf, r, t) = All(conf))
    BY <1>11, <1>14, <2>1 DEF PointsAre, InputsHave, GradsHave
  <2> HIDE DEF s, q
  <2>3. QED
    BY <1>3, <1>6, <1>9, <1>10, <1>11, <1>12, <1>13, <2>2, Zenon DEF LocalInv, PointsAre
<1>16. Advances(conf, r, s, q, t, q)
  <2>1. Slots(r, N, N, N, N, N, N, N, N, q, q)
    BY <1>6, NoExchange
  <2> HIDE DEF s, q
  <2>2. QED
    BY <1>1, <1>3, <1>4, <1>11, <1>15, <2>1, StepAdvances, Zenon
<1>17. rank' = [rank EXCEPT ![r] = t] /\ pend' = [pend EXCEPT ![r] = q] /\ conf' = conf
  <2>1. rank' = [rank EXCEPT ![r] = t] /\ conf' = conf /\ pend' = pend
    <3>1. /\ rank' = [rank EXCEPT ![r] =
              [rank[r] EXCEPT !.phase = "done", !.no_sync = FALSE, !.grad_syncs = gs,
                              !.synchronized = rank[r].synchronized \cup RemainingChunks(rank[r])]]
          /\ conf' = conf /\ pend' = pend
      BY DEF LaunchRemaining, gs
    <3>2. QED
      BY <3>1 DEF t, sy
  <2>2. QED
    BY <1>1, <2>1
<1>18. QED
  BY <1>1, <1>16, <1>17, Moved

(* A step of a rank. *)
LEMMA StepMoves ==
  ASSUME TypeOK, NEW r \in Ranks, LocalInv(conf, r, rank[r], pend[r]), Step(r)
  PROVE  Moves(r)
BY MovesRecvFirst, MovesWarmup, MovesSteadyForward, MovesSteadyBackward, MovesRecvLast,
   MovesCooldown, MovesLaunch, Zenon DEF Step

-----------------------------------------------------------------------------
(* A transfer.                                                               *)

(* An operation of a rank completed, and nothing else of what it posted. *)
Freed(q, u, kind, peer) ==
  /\ Has(q, kind, peer) /\ ~Has(u, kind, peer)
  /\ \A k, p : k # kind \/ p # peer => (Has(u, k, p) <=> Has(q, k, p))

(* What completing an operation leaves. *)
LEMMA Removed ==
  ASSUME NEW cf, NEW r, NEW fs, NEW b, NEW fa, NEW ba, NEW q,
         Posted(cf, r, fs, b, fa, ba, q), NEW m \in DOMAIN q
  PROVE  /\ Posted(cf, r, fs, b, fa, ba, RemoveAt(q, m))
         /\ Freed(q, RemoveAt(q, m), q[m].kind, q[m].peer)
<1> DEFINE u == RemoveAt(q, m)
<1>1. /\ q \in Seq(AnyOp)
      /\ \A n \in DOMAIN q : Known(cf, r, fs, b, fa, ba, q[n])
      /\ \A i, n \in DOMAIN q : q[i].kind = q[n].kind /\ q[i].peer = q[n].peer => i = n
  BY DEF Posted, AnyOp
<1>2. /\ m \in 1 .. Len(q) /\ Len(q) \in Nat /\ DOMAIN q = 1 .. Len(q)
  BY <1>1
<1>3. /\ u \in Seq(AnyOp) /\ Len(u) = Len(q) - 1
      /\ \A n \in 1 .. Len(u) : u[n] = IF n < m THEN q[n] ELSE q[n + 1]
  <2> DEFINE a == SubSeq(q, 1, m - 1)
             z == SubSeq(q, m + 1, Len(q))
  <2>1. u = a \o z
    BY DEF RemoveAt
  <2>2. /\ a \in Seq(AnyOp) /\ Len(a) = m - 1
        /\ \A n \in 1 .. m - 1 : a[n] = q[n]
    BY <1>1, <1>2
  <2>3. /\ z \in Seq(AnyOp) /\ Len(z) = Len(q) - m
        /\ \A n \in 1 .. Len(q) - m : z[n] = q[n + m]
    BY <1>1, <1>2
  <2> HIDE DEF u, a, z
  <2>4. Len(u) = Len(q) - 1 /\ u \in Seq(AnyOp)
    <3>1. u \in Seq(AnyOp) /\ Len(u) = Len(a) + Len(z)
      <4>1. a \in Seq(AnyOp) /\ z \in Seq(AnyOp)
        BY <2>2, <2>3
      <4>2. QED
        BY <2>1, <4>1
    <3>2. Len(a) = m - 1 /\ Len(z) = Len(q) - m
      BY <2>2, <2>3
    <3>3. QED
      BY <1>2, <3>1, <3>2
  <2>5. \A n \in 1 .. Len(u) : u[n] = IF n < m THEN a[n] ELSE z[n - (m - 1)]
    BY <1>2, <2>1, <2>2, <2>3, <2>4
  <2>6. ASSUME NEW n \in 1 .. Len(u) PROVE u[n] = IF n < m THEN q[n] ELSE q[n + 1]
    <3>1. CASE n < m
      BY <1>2, <2>2, <2>5, <3>1
    <3>2. CASE ~(n < m)
      <4>1. PICK j \in Int : j = n - (m - 1)
        BY <1>2, <2>4
      <4>2. j \in 1 .. Len(q) - m /\ j + m = n + 1
        BY <1>2, <2>4, <3>2, <4>1
      <4>3. z[j] = q[n + 1]
        BY <2>3, <4>2
      <4>4. QED
        BY <2>5, <3>2, <4>1, <4>3
    <3>3. QED
      BY <3>1, <3>2
  <2>7. QED
    BY <2>4, <2>6
<1> HIDE DEF u
<1> DEFINE at(n) == IF n < m THEN n ELSE n + 1
<1>4. DOMAIN u = 1 .. Len(u) /\ Len(u) \in Nat
  BY <1>3
<1>5. ASSUME NEW n \in DOMAIN u
      PROVE  at(n) \in DOMAIN q /\ at(n) # m /\ u[n] = q[at(n)] /\ n \in Int
  BY <1>2, <1>3, <1>4
<1>6. ASSUME NEW n \in DOMAIN q, n # m PROVE \E i \in DOMAIN u : at(i) = n
  <2>1. CASE n < m
    <3>1. n \in DOMAIN u /\ at(n) = n
      BY <1>2, <1>3, <1>4, <2>1
    <3>2. QED
      BY <3>1
  <2>2. CASE n > m
    <3>1. n - 1 \in DOMAIN u /\ at(n - 1) = n
      BY <1>2, <1>3, <1>4, <2>2
    <3>2. QED
      BY <3>1
  <2>3. QED
    BY <1>2, <1>6, <2>1, <2>2
<1>7. ASSUME NEW i \in DOMAIN u, NEW n \in DOMAIN u, at(i) = at(n) PROVE i = n
  BY <1>2, <1>5, <1>7
<1> HIDE DEF at
<1>8. \A n \in DOMAIN u : Known(cf, r, fs, b, fa, ba, u[n])
  BY <1>1, <1>5
<1>9. \A i, n \in DOMAIN u : u[i].kind = u[n].kind /\ u[i].peer = u[n].peer => i = n
  BY <1>1, <1>5, <1>7
<1>10. Posted(cf, r, fs, b, fa, ba, u)
  BY <1>3, <1>8, <1>9 DEF Posted, AnyOp
<1>11. Has(q, q[m].kind, q[m].peer) /\ ~Has(u, q[m].kind, q[m].peer)
  BY <1>1, <1>5 DEF Has
<1>12. ASSUME NEW k, NEW p, k # q[m].kind \/ p # q[m].peer
       PROVE  Has(u, k, p) <=> Has(q, k, p)
  <2>1. Has(u, k, p) => Has(q, k, p)
    BY <1>5 DEF Has
  <2>2. ASSUME Has(q, k, p) PROVE Has(u, k, p)
    <3>1. PICK n \in DOMAIN q : q[n].kind = k /\ q[n].peer = p
      BY <2>2 DEF Has
    <3>2. n # m
      BY <1>12, <3>1
    <3>3. PICK i \in DOMAIN u : at(i) = n
      BY <1>6, <3>2
    <3>4. u[i] = q[n]
      BY <1>5, <3>3
    <3>5. QED
      BY <3>1, <3>4 DEF Has
  <2>3. QED
    BY <2>1, <2>2
<1>13. QED
  BY <1>10, <1>11, <1>12 DEF Freed, u

(* The tensor that was outstanding is filled in; a list that waits for none  *)
(* stays.                                                                    *)
LEMMA ArrivedInList ==
  ASSUME NEW S, NEW l \in Seq(S), NEW from \in Nat, NEW base \in Int, NEW upto \in Int, NEW over,
         ListIs(l, from, base, upto, TRUE, over), Tensor(from, upto - 1) \in S
  PROVE  /\ ListIs(Fill(l, Tensor(from, upto - 1)), from, base, upto, FALSE, over)
         /\ Fill(l, Tensor(from, upto - 1)) \in Seq(S)
         /\ Len(Fill(l, Tensor(from, upto - 1))) = Len(l)
<1> DEFINE x == Tensor(from, upto - 1)
<1>1. Len(Fill(l, x)) = Len(l)
  <2> DEFINE h == SelectInSeq(l, LAMBDA t : t = Empty)
  <2>1. Fill(l, x) = IF h = 0 THEN l ELSE [l EXCEPT ![h] = x]
    BY DEF Fill
  <2> HIDE DEF h
  <2>2. Len([l EXCEPT ![h] = x]) = Len(l)
    OBVIOUS
  <2>3. QED
    BY <2>1, <2>2
<1>2. CASE base < upto
  BY <1>1, <1>2, FilledList
<1>3. CASE ~(base < upto)
  <2>1. /\ Len(l) = upto - base \/ (over /\ Len(l) = upto - base + 1)
        /\ \A n \in 1 .. Len(l) : l[n] = Item(from, base, upto, TRUE, n)
    BY DEF ListIs
  <2>6. Len(l) \in Nat
    OBVIOUS
  <2>2. ASSUME NEW n \in 1 .. Len(l) PROVE l[n] = NoTensor /\ base + n - 1 = upto
    <3>1. base + n - 1 = upto
      BY <1>3, <2>1, <2>6
    <3>2. QED
      BY <2>1, <3>1 DEF Item
  <2>3. Fill(l, x) = l
    <3> DEFINE I == {i \in 1 .. Len(l) : l[i] = Empty}
    <3>1. I = {}
      BY <2>2, TensorFacts
    <3>2. SelectInSeq(l, LAMBDA t : t = Empty) = IF I # {} THEN Min(I) ELSE 0
      BY DEF SelectInSeq
    <3> HIDE DEF I
    <3>3. SelectInSeq(l, LAMBDA t : t = Empty) = 0
      BY <3>1, <3>2
    <3>4. QED
      BY <3>3 DEF Fill
  <2>4. ListIs(l, from, base, upto, FALSE, over)
    BY <2>1, <2>2 DEF ListIs, Item
  <2>5. QED
    BY <2>3, <2>4
<1>4. QED
  BY <1>2, <1>3

(* A rank whose input for iteration y arrived. *)
ArrivedInput(r, s, y) ==
  [s EXCEPT !.input_tensors = [s.input_tensors EXCEPT ![FwdChunk(y)] =
     Fill(s.input_tensors[FwdChunk(y)],
          Tensor(StageOf(r, FwdChunk(y)) - 1, Fwd(FwdChunk(y), y)))]]
ArrivedGrad(r, s, y) ==
  [s EXCEPT !.output_tensor_grads = [s.output_tensor_grads EXCEPT ![BwdChunk(y)] =
     Fill(s.output_tensor_grads[BwdChunk(y)],
          Tensor(StageOf(r, BwdChunk(y)) + 1, Bwd(BwdChunk(y), y)))]]

(* What a rank may hold counts in microbatches. *)
LEMMA BaseFacts ==
  ASSUME NEW cf \in Configs, NEW s \in LocalType(cf), NEW c \in Chunks
  PROVE  Base(cf, s, c) \in Int /\ s.bwd[c] \in Int
<1>1. s.drawn[c] \in 0 .. cf.microbatches /\ s.bwd[c] \in 0 .. cf.microbatches
  BY TypeFacts
<1>2. QED
  BY <1>1, ConfFacts DEF Base

(* Its other lists stay. *)
LEMMA InputArrives ==
  ASSUME NEW cf \in Configs, NEW r \in Ranks, NEW s \in LocalType(cf), NEW y \in 0 .. All(cf) - 1,
         ~FirstStage(r, FwdChunk(y)), NEW over, Inputs(cf, r, s, y + 1, TRUE, over)
  PROVE  /\ ArrivedInput(r, s, y) \in LocalType(cf)
         /\ Inputs(cf, r, ArrivedInput(r, s, y), y + 1, FALSE, over)
         /\ ArrivedInput(r, s, y).output_tensor_grads = s.output_tensor_grads
         /\ Relists(s, ArrivedInput(r, s, y))
         /\ ArrivedInput(r, s, y).phase = s.phase /\ ArrivedInput(r, s, y).k = s.k
<1> DEFINE c == FwdChunk(y)
           g == StageOf(r, c) - 1
           l == s.input_tensors[c]
           x == Tensor(g, Fwd(c, y))
           ins == [s.input_tensors EXCEPT ![c] = Fill(l, x)]
           t == ArrivedInput(r, s, y)
<1>1. /\ y \in Nat /\ c \in Chunks /\ Fwd(c, y) \in Nat /\ Fwd(c, y) < cf.microbatches
      /\ Fwd(c, y + 1) = Fwd(c, y) + 1
  BY PassFacts
<1>2. g \in Nat /\ x \in Tensors
  <2>1. Fwd(c, y) \in Int /\ 0 <= Fwd(c, y)
    BY <1>1
  <2> HIDE DEF c
  <2>2. QED
    BY <1>1, <2>1, StageTensors DEF c
<1>3. (y + 1) - 1 = y
  BY <1>1
<1>4. InputsAre(cf, r, s, y + 1, TRUE, over, c)
  BY <1>1 DEF Inputs
<1>5. ListIs(l, g, Base(cf, s, c), Fwd(c, y) + 1, TRUE, over)
  <2>1. InputList(r, c, l, Len(s.output_tensors[c]), Base(cf, s, c), Fwd(c, y + 1), TRUE, over)
    BY <1>3, <1>4 DEF InputsAre
  <2>2. QED
    BY <1>1, <2>1 DEF InputList
<1>6. l \in Seq(Tensors) /\ s.input_tensors \in [Chunks -> Seq(Tensors)]
  BY <1>1, TypeFacts
<1>7. PICK up \in Int : up = Fwd(c, y) + 1
  BY <1>1
<1>8. /\ ListIs(Fill(l, x), g, Base(cf, s, c), Fwd(c, y) + 1, FALSE, over)
      /\ Fill(l, x) \in Seq(Tensors)
  <2>1. Base(cf, s, c) \in Int
    BY <1>1, BaseFacts
  <2>2. up - 1 = Fwd(c, y)
    BY <1>1, <1>7
  <2>3. x = Tensor(g, up - 1)
    BY <2>2
  <2>4. ListIs(l, g, Base(cf, s, c), up, TRUE, over)
    BY <1>5, <1>7
  <2> HIDE DEF x, g, l, c
  <2>5. /\ ListIs(Fill(l, Tensor(g, up - 1)), g, Base(cf, s, c), up, FALSE, over)
        /\ Fill(l, Tensor(g, up - 1)) \in Seq(Tensors)
    <3>1. Tensor(g, up - 1) \in Tensors
      BY <1>2, <2>3
    <3>2. QED
      BY <1>2, <1>6, <2>1, <2>4, <3>1, ArrivedInList
  <2>6. QED
    BY <1>7, <2>3, <2>5
<1>9. ins \in [Chunks -> Seq(Tensors)]
  BY <1>6, <1>8
<1>10. t = [s EXCEPT !.input_tensors = ins]
  BY DEF ArrivedInput
<1> HIDE DEF ins, t
<1>11. /\ t \in LocalType(cf) /\ Relists(s, t) /\ t.input_tensors = ins
       /\ t.output_tensor_grads = s.output_tensor_grads /\ t.phase = s.phase /\ t.k = s.k
  BY <1>9, <1>10 DEF LocalType, Relists
<1>12. ASSUME NEW d \in Chunks PROVE InputsAre(cf, r, t, y + 1, FALSE, over, d)
  <2>1. Base(cf, t, d) = Base(cf, s, d) /\ t.output_tensors = s.output_tensors
    BY <1>11 DEF Relists, Base
  <2>2. CASE d = c
    <3>1. t.input_tensors[c] = Fill(l, x)
      BY <1>1, <1>6, <1>11 DEF ins
    <3>2. InputList(r, c, Fill(l, x), Len(s.output_tensors[c]), Base(cf, s, c), Fwd(c, y + 1),
                    FALSE, over)
      BY <1>1, <1>8 DEF InputList
    <3>3. QED
      BY <2>1, <2>2, <3>1, <3>2 DEF InputsAre
  <2>3. CASE d # c
    <3>1. t.input_tensors[d] = s.input_tensors[d]
      BY <1>6, <1>11, <2>3 DEF ins
    <3>2. InputsAre(cf, r, s, y + 1, TRUE, over, d)
      BY DEF Inputs
    <3>3. (TRUE /\ d = FwdChunk((y + 1) - 1)) = FALSE /\ (FALSE /\ d = FwdChunk((y + 1) - 1)) = FALSE
      BY <1>3, <2>3
    <3>4. QED
      BY <2>1, <3>1, <3>2, <3>3 DEF InputsAre
  <2>4. QED
    BY <2>2, <2>3
<1>13. QED
  BY <1>11, <1>12 DEF t, Inputs

(* The same of a gradient. *)
LEMMA GradArrives ==
  ASSUME NEW cf \in Configs, NEW r \in Ranks, NEW s \in LocalType(cf), NEW y \in 0 .. All(cf) - 1,
         ~LastStage(r, BwdChunk(y)), NEW over, Grads(r, s, y + 1, TRUE, over)
  PROVE  /\ ArrivedGrad(r, s, y) \in LocalType(cf)
         /\ Grads(r, ArrivedGrad(r, s, y), y + 1, FALSE, over)
         /\ ArrivedGrad(r, s, y).input_tensors = s.input_tensors
         /\ Relists(s, ArrivedGrad(r, s, y))
         /\ ArrivedGrad(r, s, y).phase = s.phase /\ ArrivedGrad(r, s, y).k = s.k
<1> DEFINE c == BwdChunk(y)
           g == StageOf(r, c) + 1
           l == s.output_tensor_grads[c]
           x == Tensor(g, Bwd(c, y))
           gs == [s.output_tensor_grads EXCEPT ![c] = Fill(l, x)]
           t == ArrivedGrad(r, s, y)
<1>1. /\ y \in Nat /\ c \in Chunks /\ Bwd(c, y) \in Nat /\ Bwd(c, y) < cf.microbatches
      /\ Bwd(c, y + 1) = Bwd(c, y) + 1
  BY PassFacts
<1>2. g \in Nat /\ x \in Tensors
  <2>1. Bwd(c, y) \in Int /\ 0 <= Bwd(c, y)
    BY <1>1
  <2> HIDE DEF c
  <2>2. QED
    BY <1>1, <2>1, StageTensors DEF c
<1>3. (y + 1) - 1 = y
  BY <1>1
<1>4. GradsAre(r, s, y + 1, TRUE, over, c)
  BY <1>1 DEF Grads
<1>5. ListIs(l, g, s.bwd[c], Bwd(c, y) + 1, TRUE, over)
  <2>1. GradList(r, c, l, s.bwd[c], Bwd(c, y + 1), TRUE, over)
    BY <1>3, <1>4 DEF GradsAre
  <2>2. QED
    BY <1>1, <2>1 DEF GradList
<1>6. l \in Seq(Tensors) /\ s.output_tensor_grads \in [Chunks -> Seq(Tensors)]
  BY <1>1, TypeFacts
<1>7. PICK up \in Int : up = Bwd(c, y) + 1
  BY <1>1
<1>8. /\ ListIs(Fill(l, x), g, s.bwd[c], Bwd(c, y) + 1, FALSE, over)
      /\ Fill(l, x) \in Seq(Tensors)
  <2>1. s.bwd[c] \in Int
    BY <1>1, BaseFacts
  <2>2. up - 1 = Bwd(c, y)
    BY <1>1, <1>7
  <2>3. x = Tensor(g, up - 1)
    BY <2>2
  <2>4. ListIs(l, g, s.bwd[c], up, TRUE, over)
    BY <1>5, <1>7
  <2> HIDE DEF x, g, l, c
  <2>5. /\ ListIs(Fill(l, Tensor(g, up - 1)), g, s.bwd[c], up, FALSE, over)
        /\ Fill(l, Tensor(g, up - 1)) \in Seq(Tensors)
    <3>1. Tensor(g, up - 1) \in Tensors
      BY <1>2, <2>3
    <3>2. QED
      BY <1>2, <1>6, <2>1, <2>4, <3>1, ArrivedInList
  <2>6. QED
    BY <1>7, <2>3, <2>5
<1>9. gs \in [Chunks -> Seq(Tensors)]
  BY <1>6, <1>8
<1>10. t = [s EXCEPT !.output_tensor_grads = gs]
  BY DEF ArrivedGrad
<1> HIDE DEF gs, t
<1>11. /\ t \in LocalType(cf) /\ Relists(s, t) /\ t.output_tensor_grads = gs
       /\ t.input_tensors = s.input_tensors /\ t.phase = s.phase /\ t.k = s.k
  BY <1>9, <1>10 DEF LocalType, Relists
<1>12. ASSUME NEW d \in Chunks PROVE GradsAre(r, t, y + 1, FALSE, over, d)
  <2>1. t.bwd = s.bwd
    BY <1>11 DEF Relists
  <2>2. CASE d = c
    <3>1. t.output_tensor_grads[c] = Fill(l, x)
      BY <1>1, <1>6, <1>11 DEF gs
    <3>2. GradList(r, c, Fill(l, x), s.bwd[c], Bwd(c, y + 1), FALSE, over)
      BY <1>1, <1>8 DEF GradList
    <3>3. QED
      BY <2>1, <2>2, <3>1, <3>2 DEF GradsAre
  <2>3. CASE d # c
    <3>1. t.output_tensor_grads[d] = s.output_tensor_grads[d]
      BY <1>6, <1>11, <2>3 DEF gs
    <3>2. GradsAre(r, s, y + 1, TRUE, over, d)
      BY DEF Grads
    <3>3. (TRUE /\ d = BwdChunk((y + 1) - 1)) = FALSE /\ (FALSE /\ d = BwdChunk((y + 1) - 1)) = FALSE
      BY <1>3, <2>3
    <3>4. QED
      BY <2>1, <3>1, <3>2, <3>3 DEF GradsAre
  <2>4. QED
    BY <2>2, <2>3
<1>13. QED
  BY <1>11, <1>12 DEF t, Grads

(* Two states of a rank at the same point of its program. *)
SamePoint(cf, r, s, t) ==
  /\ FwdDone(cf, r, t) = FwdDone(cf, r, s) /\ FwdSent(cf, r, t) = FwdSent(cf, r, s)
  /\ BwdDone(cf, r, t) = BwdDone(cf, r, s)
  /\ FwdAsked(cf, r, t) = FwdAsked(cf, r, s) /\ BwdAsked(cf, r, t) = BwdAsked(cf, r, s)
ListsHave(cf, r, t, u) ==
  /\ Inputs(cf, r, t, FwdAsked(cf, r, t), Has(u, "recv", PrevRank(r)), FwdDone(cf, r, t) = All(cf))
  /\ Grads(r, t, BwdAsked(cf, r, t), Has(u, "recv", NextRank(r)), BwdDone(cf, r, t) = All(cf))
MayPost(cf, r, s, u) ==
  Posted(cf, r, FwdSent(cf, r, s), BwdDone(cf, r, s), FwdAsked(cf, r, s), BwdAsked(cf, r, s), u)

(* A rank keeps its invariant when only what it receives changes. *)
LEMMA StaysPut ==
  ASSUME NEW cf, NEW r, NEW s, NEW q, NEW t \in LocalType(cf), NEW u, LocalInv(cf, r, s, q),
         Relists(s, t), t.phase = s.phase, t.k = s.k, MayPost(cf, r, s, u), ListsHave(cf, r, t, u)
  PROVE  LocalInv(cf, r, t, u) /\ SamePoint(cf, r, s, t)
<1>1. SamePoint(cf, r, s, t)
  BY DEF SamePoint, FwdDone, FwdSent, BwdDone, FwdAsked, BwdAsked
<1>2. /\ Counter(cf, r, s) /\ Counts(s, FwdDone(cf, r, s), BwdDone(cf, r, s)) /\ Outputs(cf, r, s)
      /\ s.phase = "steady_bwd" => OutputIs(r, s, s.k)
      /\ IF s.phase = "done" /\ ~cf.forwardOnly THEN AllHanded(cf, s)
         ELSE GradsHanded(cf, r, s, BwdDone(cf, r, s))
      /\ ParamsLaunched(r, s, FwdDone(cf, r, s))
  BY Zenon DEF LocalInv
<1>3. Counter(cf, r, t)
  BY <1>2 DEF Counter
<1>4. Counts(t, FwdDone(cf, r, t), BwdDone(cf, r, t))
  BY <1>1, <1>2 DEF SamePoint, Counts, Relists
<1>5. Outputs(cf, r, t)
  BY <1>2 DEF Outputs, OutputsAre, Base, Relists
<1>6. t.phase = "steady_bwd" => OutputIs(r, t, t.k)
  BY <1>2 DEF OutputIs, Relists
<1>7. /\ t.no_sync = s.no_sync /\ t.grad_syncs = s.grad_syncs /\ t.synchronized = s.synchronized
      /\ t.param_syncs = s.param_syncs
  BY DEF Relists
<1>8. IF t.phase = "done" /\ ~cf.forwardOnly THEN AllHanded(cf, t)
      ELSE GradsHanded(cf, r, t, BwdDone(cf, r, t))
  <2>1. AllHanded(cf, s) => AllHanded(cf, t)
    BY <1>7 DEF AllHanded
  <2>2. GradsHanded(cf, r, s, BwdDone(cf, r, s)) => GradsHanded(cf, r, t, BwdDone(cf, r, s))
    BY <1>7 DEF GradsHanded
  <2>3. BwdDone(cf, r, t) = BwdDone(cf, r, s)
    BY <1>1 DEF SamePoint
  <2>4. QED
    BY <1>2, <2>1, <2>2, <2>3
<1>9. ParamsLaunched(r, t, FwdDone(cf, r, t))
  <2>1. ParamsLaunched(r, t, FwdDone(cf, r, s))
    BY <1>2, <1>7 DEF ParamsLaunched
  <2>2. QED
    BY <1>1, <2>1 DEF SamePoint
<1>10. MayPost(cf, r, t, u)
  BY <1>1 DEF SamePoint, MayPost
<1>11. QED
  BY <1>1, <1>3, <1>4, <1>5, <1>6, <1>8, <1>9, <1>10, Zenon DEF LocalInv, ListsHave, MayPost

(* The same rank with other operations posted. *)
LEMMA SenderKeeps ==
  ASSUME NEW cf \in Configs, NEW r \in Ranks, NEW s, NEW q, LocalInv(cf, r, s, q),
         NEW m \in DOMAIN q, q[m].kind = "send"
  PROVE  LocalInv(cf, r, s, RemoveAt(q, m)) /\ Freed(q, RemoveAt(q, m), "send", q[m].peer)
<1> DEFINE u == RemoveAt(q, m)
<1>1. /\ MayPost(cf, r, s, q) /\ s \in LocalType(cf) /\ ListsHave(cf, r, s, q)
  BY Zenon DEF LocalInv, MayPost, ListsHave
<1>2. MayPost(cf, r, s, u) /\ Freed(q, u, "send", q[m].peer)
  BY <1>1, Removed DEF MayPost
<1> HIDE DEF u
<1>3. ASSUME NEW p PROVE Has(u, "recv", p) = Has(q, "recv", p)
  <2>1. Has(u, "recv", p) <=> Has(q, "recv", p)
    BY <1>2 DEF Freed
  <2>2. QED
    BY <2>1 DEF Has
<1>4. ListsHave(cf, r, s, u)
  BY <1>1, <1>3, Zenon DEF ListsHave
<1>5. Relists(s, s)
  BY DEF Relists
<1>6. LocalInv(cf, r, s, u)
  BY <1>1, <1>2, <1>4, <1>5, StaysPut, Zenon
<1>7. QED
  BY <1>2, <1>6 DEF u

(* A rank that receives an input. *)
LEMMA ReceiverKeepsInput ==
  ASSUME NEW cf \in Configs, NEW r \in Ranks, NEW s, NEW q, LocalInv(cf, r, s, q),
         NEW n \in DOMAIN q, NEW y, IsActFrom(cf, r, y, q[n]), FwdAsked(cf, r, s) = y + 1
  PROVE  /\ LocalInv(cf, r, ArrivedInput(r, s, y), RemoveAt(q, n))
         /\ SamePoint(cf, r, s, ArrivedInput(r, s, y))
         /\ Freed(q, RemoveAt(q, n), "recv", PrevRank(r))
<1> DEFINE u == RemoveAt(q, n)
           t == ArrivedInput(r, s, y)
<1>1. /\ MayPost(cf, r, s, q) /\ s \in LocalType(cf) /\ ListsHave(cf, r, s, q)
  BY Zenon DEF LocalInv, MayPost, ListsHave
<1>2. /\ y \in 0 .. All(cf) - 1 /\ ~FirstStage(r, FwdChunk(y))
      /\ q[n].kind = "recv" /\ q[n].peer = PrevRank(r)
  BY DEF IsActFrom
<1>3. MayPost(cf, r, s, u) /\ Freed(q, u, "recv", PrevRank(r))
  BY <1>1, <1>2, Removed DEF MayPost
<1> HIDE DEF u
<1>4. PICK over : over = (FwdDone(cf, r, s) = All(cf))
  OBVIOUS
<1>5. /\ Has(q, "recv", PrevRank(r)) = TRUE /\ Has(u, "recv", PrevRank(r)) = FALSE
      /\ Has(u, "recv", NextRank(r)) = Has(q, "recv", NextRank(r))
  <2>1. NextRank(r) # PrevRank(r)
    BY RingFacts
  <2>2. /\ Has(q, "recv", PrevRank(r)) /\ ~Has(u, "recv", PrevRank(r))
        /\ Has(u, "recv", NextRank(r)) <=> Has(q, "recv", NextRank(r))
    BY <1>3, <2>1 DEF Freed
  <2>3. QED
    BY <2>2 DEF Has
<1>6. Inputs(cf, r, s, y + 1, TRUE, over)
  BY <1>1, <1>4, <1>5 DEF ListsHave
<1>7. /\ t \in LocalType(cf) /\ Inputs(cf, r, t, y + 1, FALSE, over)
      /\ t.output_tensor_grads = s.output_tensor_grads /\ Relists(s, t)
      /\ t.phase = s.phase /\ t.k = s.k
  BY <1>1, <1>2, <1>6, InputArrives
<1> HIDE DEF t
<1>8. SamePoint(cf, r, s, t)
  BY <1>7 DEF SamePoint, FwdDone, FwdSent, BwdDone, FwdAsked, BwdAsked
<1>9. Grads(r, t, BwdAsked(cf, r, s), Has(q, "recv", NextRank(r)), BwdDone(cf, r, s) = All(cf))
  <2>1. Grads(r, s, BwdAsked(cf, r, s), Has(q, "recv", NextRank(r)), BwdDone(cf, r, s) = All(cf))
    BY <1>1 DEF ListsHave
  <2>2. t.bwd = s.bwd
    BY <1>7 DEF Relists
  <2>3. QED
    BY <1>7, <2>1, <2>2 DEF Grads, GradsAre
<1>10. ListsHave(cf, r, t, u)
  BY <1>4, <1>5, <1>7, <1>8, <1>9 DEF ListsHave, SamePoint
<1>11. LocalInv(cf, r, t, u)
  BY <1>3, <1>7, <1>10, StaysPut, Zenon
<1>12. QED
  BY <1>3, <1>8, <1>11 DEF t, u

(* A rank that receives a gradient. *)
LEMMA ReceiverKeepsGrad ==
  ASSUME NEW cf \in Configs, NEW r \in Ranks, NEW s, NEW q, LocalInv(cf, r, s, q),
         NEW n \in DOMAIN q, NEW y, IsGradFrom(cf, r, y, q[n]), BwdAsked(cf, r, s) = y + 1
  PROVE  /\ LocalInv(cf, r, ArrivedGrad(r, s, y), RemoveAt(q, n))
         /\ SamePoint(cf, r, s, ArrivedGrad(r, s, y))
         /\ Freed(q, RemoveAt(q, n), "recv", NextRank(r))
<1> DEFINE u == RemoveAt(q, n)
           t == ArrivedGrad(r, s, y)
<1>1. /\ MayPost(cf, r, s, q) /\ s \in LocalType(cf) /\ ListsHave(cf, r, s, q)
  BY Zenon DEF LocalInv, MayPost, ListsHave
<1>2. /\ y \in 0 .. All(cf) - 1 /\ ~LastStage(r, BwdChunk(y))
      /\ q[n].kind = "recv" /\ q[n].peer = NextRank(r)
  BY DEF IsGradFrom
<1>3. MayPost(cf, r, s, u) /\ Freed(q, u, "recv", NextRank(r))
  BY <1>1, <1>2, Removed DEF MayPost
<1> HIDE DEF u
<1>4. PICK over : over = (BwdDone(cf, r, s) = All(cf))
  OBVIOUS
<1>5. /\ Has(q, "recv", NextRank(r)) = TRUE /\ Has(u, "recv", NextRank(r)) = FALSE
      /\ Has(u, "recv", PrevRank(r)) = Has(q, "recv", PrevRank(r))
  <2>1. PrevRank(r) # NextRank(r)
    BY RingFacts
  <2>2. /\ Has(q, "recv", NextRank(r)) /\ ~Has(u, "recv", NextRank(r))
        /\ Has(u, "recv", PrevRank(r)) <=> Has(q, "recv", PrevRank(r))
    BY <1>3, <2>1 DEF Freed
  <2>3. QED
    BY <2>2 DEF Has
<1>6. Grads(r, s, y + 1, TRUE, over)
  BY <1>1, <1>4, <1>5 DEF ListsHave
<1>7. /\ t \in LocalType(cf) /\ Grads(r, t, y + 1, FALSE, over)
      /\ t.input_tensors = s.input_tensors /\ Relists(s, t)
      /\ t.phase = s.phase /\ t.k = s.k
  BY <1>1, <1>2, <1>6, GradArrives
<1> HIDE DEF t
<1>8. SamePoint(cf, r, s, t)
  BY <1>7 DEF SamePoint, FwdDone, FwdSent, BwdDone, FwdAsked, BwdAsked
<1>9. Inputs(cf, r, t, FwdAsked(cf, r, s), Has(q, "recv", PrevRank(r)), FwdDone(cf, r, s) = All(cf))
  <2>1. Inputs(cf, r, s, FwdAsked(cf, r, s), Has(q, "recv", PrevRank(r)),
               FwdDone(cf, r, s) = All(cf))
    BY <1>1 DEF ListsHave
  <2>2. /\ t.bwd = s.bwd /\ t.drawn = s.drawn /\ t.output_tensors = s.output_tensors
    BY <1>7 DEF Relists
  <2>3. QED
    BY <1>7, <2>1, <2>2 DEF Inputs, InputsAre, Base
<1>10. ListsHave(cf, r, t, u)
  BY <1>4, <1>5, <1>7, <1>8, <1>9 DEF ListsHave, SamePoint
<1>11. LocalInv(cf, r, t, u)
  BY <1>3, <1>7, <1>10, StaysPut, Zenon
<1>12. QED
  BY <1>3, <1>8, <1>11 DEF t, u

(* Which passes of which chunks meet on a link. *)
LEMMA PassesMeet ==
  ASSUME NEW end \in BOOLEAN, NEW x \in Nat, NEW y \in Nat,
         ~(end /\ FwdChunk(x) = V - 1), ~(end /\ FwdChunk(y) = 0),
         Left(end, x + 1) = Taken(end, y + 1)
  PROVE  /\ Meets(end, x, y) /\ Left(end, x) = Taken(end, y)
         /\ Fwd(FwdChunk(y), y) = Fwd(FwdChunk(x), x)
         /\ FwdChunk(y) = FwdChunk(x) + One(end)
<1>1. /\ Left(end, x) \in Nat /\ Taken(end, y) \in Nat
      /\ Left(end, x + 1) = Left(end, x) + One(~(end /\ FwdChunk(x) = V - 1))
      /\ Taken(end, y + 1) = Taken(end, y) + One(~(end /\ FwdChunk(y) = 0))
  BY LinkCounts
<1>2. One(~(end /\ FwdChunk(x) = V - 1)) = 1 /\ One(~(end /\ FwdChunk(y) = 0)) = 1
  BY DEF One
<1>3. Left(end, x) = Taken(end, y)
  BY <1>1, <1>2
<1>4. Meets(end, x, y)
  BY <1>3, LeftIsTaken
<1>5. /\ FwdChunk(x) \in Chunks /\ FwdChunk(x) \in Nat /\ FwdChunk(x) <= V - 1 /\ x \in Int
  <2>1. x \in Int
    OBVIOUS
  <2>2. FwdChunk(x) \in Chunks
    BY <2>1, ChunkFacts
  <2>3. QED
    BY <2>1, <2>2, SizeFacts DEF Chunks
<1>6. CASE end
  <2>1. y = x + P /\ FwdChunk(x) # V - 1
    BY <1>4, <1>6 DEF Meets
  <2>2. FwdChunk(y) = FwdChunk(x) + 1
    BY <1>5, <2>1, FwdShift
  <2>3. FwdChunk(x) + 1 \in Chunks
    BY <1>5, <2>1, SizeFacts DEF Chunks
  <2>4. Fwd(FwdChunk(x) + 1, x + P) = Fwd(FwdChunk(x), x)
    BY <1>5, <2>3, FwdShift
  <2>5. QED
    BY <1>3, <1>4, <1>6, <2>1, <2>2, <2>4 DEF One
<1>7. CASE ~end
  BY <1>3, <1>4, <1>5, <1>7 DEF Meets, One
<1>8. QED
  BY <1>6, <1>7

(* The end of the pipeline is where the ring closes. *)
LEMMA EndFacts ==
  ASSUME NEW r \in Ranks, NEW x \in Int
  PROVE  /\ LastStage(r, FwdChunk(x)) <=> (r = P - 1) /\ FwdChunk(x) = V - 1
         /\ FirstStage(r, FwdChunk(x)) <=> (r = 0) /\ FwdChunk(x) = 0
         /\ FirstStage(r, BwdChunk(x)) <=> (r = 0) /\ FwdChunk(x) = V - 1
         /\ LastStage(r, BwdChunk(x)) <=> (r = P - 1) /\ FwdChunk(x) = 0
<1>1. /\ FwdChunk(x) \in Nat /\ BwdChunk(x) \in Nat /\ BwdChunk(x) = V - 1 - FwdChunk(x)
  BY ChunkFacts DEF Chunks
<1>2. QED
  BY <1>1, SizeFacts DEF LastStage, FirstStage

(* The activation that iteration x of rank i sends is the one that iteration *)
(* y of the next rank needs.                                                 *)
LEMMA ActMeets ==
  ASSUME NEW i \in Ranks, NEW j \in Ranks, j = NextRank(i), NEW x \in Nat, NEW y \in Nat,
         ~LastStage(i, FwdChunk(x)), ~FirstStage(j, FwdChunk(y)),
         NEW end \in BOOLEAN, end = (i = P - 1), Left(end, x + 1) = Taken(end, y + 1)
  PROVE  Tensor(StageOf(i, FwdChunk(x)), Fwd(FwdChunk(x), x))
           = Tensor(StageOf(j, FwdChunk(y)) - 1, Fwd(FwdChunk(y), y))
<1>1. /\ i \in Nat /\ i <= P - 1 /\ P \in Nat /\ P > 2
      /\ j = (IF end THEN 0 ELSE i + 1) /\ (j = 0 <=> end) /\ (i = P - 1 <=> end)
  <2>1. i \in Nat /\ i <= P - 1 /\ P \in Nat /\ P > 2
    BY SizeFacts DEF Ranks
  <2>2. j = (IF i = P - 1 THEN 0 ELSE i + 1)
    BY RingFacts
  <2>3. i = P - 1 <=> end
    OBVIOUS
  <2>4. QED
    BY <2>1, <2>2, <2>3
<1>2. x \in Int /\ y \in Int
  OBVIOUS
<1>3. ~(end /\ FwdChunk(x) = V - 1) /\ ~(end /\ FwdChunk(y) = 0)
  BY <1>1, <1>2, EndFacts
<1>4. /\ Fwd(FwdChunk(y), y) = Fwd(FwdChunk(x), x)
      /\ FwdChunk(y) = FwdChunk(x) + One(end)
  BY <1>3, PassesMeet
<1>5. FwdChunk(x) \in Nat
  BY <1>2, ChunkFacts, SizeFacts DEF Chunks
<1>6. PICK c \in Nat : c = FwdChunk(x)
  BY <1>5
<1>7. StageOf(i, c) = StageOf(j, c + One(end)) - 1
  <2>1. c * P \in Nat /\ (c + 1) * P = c * P + P
    BY <1>1
  <2>2. CASE end
    <3>1. StageOf(j, c + 1) = c * P + P /\ StageOf(i, c) = c * P + (P - 1)
      BY <1>1, <2>1, <2>2 DEF StageOf
    <3>2. QED
      BY <1>1, <2>1, <2>2, <3>1 DEF One
  <2>3. CASE ~end
    <3>1. StageOf(j, c) = c * P + (i + 1) /\ StageOf(i, c) = c * P + i
      BY <1>1, <2>1, <2>3 DEF StageOf
    <3>2. c + 0 = c
      OBVIOUS
    <3>3. QED
      BY <1>1, <2>1, <2>3, <3>1, <3>2 DEF One
  <2>4. QED
    BY <2>2, <2>3
<1>8. QED
  BY <1>4, <1>6, <1>7

(* The same of a gradient. *)
LEMMA GradMeets ==
  ASSUME NEW i \in Ranks, NEW j \in Ranks, j = PrevRank(i), NEW x \in Nat, NEW y \in Nat,
         ~FirstStage(i, BwdChunk(x)), ~LastStage(j, BwdChunk(y)),
         NEW end \in BOOLEAN, end = (i = 0), Left(end, x + 1) = Taken(end, y + 1)
  PROVE  Tensor(StageOf(i, BwdChunk(x)), Bwd(BwdChunk(x), x))
           = Tensor(StageOf(j, BwdChunk(y)) + 1, Bwd(BwdChunk(y), y))
<1>1. /\ i \in Nat /\ i <= P - 1 /\ P \in Nat /\ P > 2 /\ V \in Nat
      /\ j = (IF end THEN P - 1 ELSE i - 1) /\ (j = P - 1 <=> end) /\ (i = 0 <=> end)
  <2>1. i \in Nat /\ i <= P - 1 /\ P \in Nat /\ P > 2 /\ V \in Nat
    BY SizeFacts DEF Ranks
  <2>2. j = (IF i = 0 THEN P - 1 ELSE i - 1)
    BY RingFacts
  <2>3. i = 0 <=> end
    OBVIOUS
  <2>4. QED
    BY <2>1, <2>2, <2>3
<1>2. x \in Int /\ y \in Int
  OBVIOUS
<1>3. ~(end /\ FwdChunk(x) = V - 1) /\ ~(end /\ FwdChunk(y) = 0)
  BY <1>1, <1>2, EndFacts
<1>4. /\ Fwd(FwdChunk(y), y) = Fwd(FwdChunk(x), x)
      /\ FwdChunk(y) = FwdChunk(x) + One(end)
  BY <1>3, PassesMeet
<1>5. /\ FwdChunk(x) \in Int /\ FwdChunk(y) \in Int
      /\ BwdChunk(x) = V - 1 - FwdChunk(x) /\ FwdChunk(x) = V - 1 - BwdChunk(x)
      /\ BwdChunk(y) = V - 1 - FwdChunk(y) /\ FwdChunk(y) = V - 1 - BwdChunk(y)
      /\ BwdChunk(x) \in Int /\ BwdChunk(y) \in Int
  BY <1>2, ChunkFacts, SizeFacts DEF Chunks
<1>6. PICK c \in Int : c = BwdChunk(y)
  BY <1>5
<1>7. BwdChunk(x) = c + One(end)
  BY <1>1, <1>4, <1>5, <1>6 DEF One
<1>8. Bwd(BwdChunk(y), y) = Bwd(BwdChunk(x), x)
  BY <1>4, <1>5 DEF Bwd
<1>9. StageOf(i, c + One(end)) = StageOf(j, c) + 1
  <2>1. c * P \in Int /\ (c + 1) * P = c * P + P
    BY <1>1
  <2>2. CASE end
    <3>1. StageOf(i, c + 1) = c * P + P /\ StageOf(j, c) = c * P + (P - 1)
      BY <1>1, <2>1, <2>2 DEF StageOf
    <3>2. QED
      BY <1>1, <2>1, <2>2, <3>1 DEF One
  <2>3. CASE ~end
    <3>1. StageOf(j, c) = c * P + (i - 1) /\ StageOf(i, c) = c * P + i
      BY <1>1, <2>1, <2>3 DEF StageOf
    <3>2. c + 0 = c
      OBVIOUS
    <3>3. QED
      BY <1>1, <2>1, <2>3, <3>1, <3>2 DEF One
  <2>4. QED
    BY <2>2, <2>3
<1>10. QED
  BY <1>6, <1>7, <1>8, <1>9

(* The counters of a rank are numbers. *)
LEMMA PointTypes ==
  ASSUME NEW cf \in Configs, NEW r \in Ranks, NEW s, NEW q, LocalInv(cf, r, s, q)
  PROVE  /\ FwdDone(cf, r, s) \in Nat /\ FwdSent(cf, r, s) \in Nat /\ BwdDone(cf, r, s) \in Nat
         /\ FwdAsked(cf, r, s) \in Nat /\ BwdAsked(cf, r, s) \in Nat
<1>1. s \in LocalType(cf) /\ Counter(cf, r, s)
  BY Zenon DEF LocalInv
<1>2. All(cf) \in Nat /\ Warm(cf, r) \in Nat
  BY AllSize, WarmFacts
<1>3. s.k \in Nat /\ s.phase \in Phases
  BY <1>1, <1>2, TypeFacts
<1>4. s.phase \in {"steady", "steady_bwd"} => s.k - Warm(cf, r) \in Nat
  BY <1>1, <1>2, <1>3 DEF Counter
<1>5. QED
  BY <1>2, <1>3, <1>4 DEF FwdDone, FwdSent, BwdDone, FwdAsked, BwdAsked, Phases

(* What a rank sends to and receives from its neighbours. *)
LEMMA PostedTo ==
  ASSUME NEW cf \in Configs, NEW r \in Ranks, NEW s, NEW q, LocalInv(cf, r, s, q),
         NEW n \in DOMAIN q
  PROVE  /\ q[n].kind = "send" /\ q[n].peer = NextRank(r) =>
              IsActTo(cf, r, FwdSent(cf, r, s) - 1, q[n])
         /\ q[n].kind = "send" /\ q[n].peer = PrevRank(r) =>
              IsGradTo(cf, r, BwdDone(cf, r, s) - 1, q[n])
         /\ q[n].kind = "recv" /\ q[n].peer = PrevRank(r) =>
              IsActFrom(cf, r, FwdAsked(cf, r, s) - 1, q[n])
         /\ q[n].kind = "recv" /\ q[n].peer = NextRank(r) =>
              IsGradFrom(cf, r, BwdAsked(cf, r, s) - 1, q[n])
         /\ q[n].peer \in {PrevRank(r), NextRank(r)}
<1>1. Known(cf, r, FwdSent(cf, r, s), BwdDone(cf, r, s), FwdAsked(cf, r, s), BwdAsked(cf, r, s), q[n])
  BY DEF LocalInv, Posted
<1>2. PrevRank(r) # NextRank(r)
  BY RingFacts
<1>3. QED
  BY <1>1, <1>2 DEF Known, IsActTo, IsGradTo, IsActFrom, IsGradFrom

(* An activation that the library pairs with a receive is the one needed. *)
LEMMA ActFits ==
  ASSUME NEW cf \in Configs, NEW i \in Ranks, NEW s, NEW q, LocalInv(cf, i, s, q),
         NEW s2, NEW q2, LocalInv(cf, NextRank(i), s2, q2),
         ActsOut(cf, i, s, q) = ActsIn(cf, NextRank(i), s2, q2),
         NEW m \in DOMAIN q, q[m].kind = "send", q[m].peer = NextRank(i),
         NEW n \in DOMAIN q2, q2[n].kind = "recv", q2[n].peer = i
  PROVE  \E y \in Nat : /\ FwdAsked(cf, NextRank(i), s2) = y + 1
                        /\ IsActFrom(cf, NextRank(i), y, q2[n])
                        /\ q[m].data = Tensor(StageOf(NextRank(i), FwdChunk(y)) - 1,
                                              Fwd(FwdChunk(y), y))
<1> DEFINE j == NextRank(i)
<1>0. j \in Ranks /\ PrevRank(j) = i
  BY RingFacts
<1> HIDE DEF j
<1>00. j = NextRank(i)
  BY DEF j
<1>1. All(cf) \in Nat /\ FwdSent(cf, i, s) \in Nat /\ FwdAsked(cf, j, s2) \in Nat
  BY <1>0, <1>00, AllSize, PointTypes
<1>2. PICK x \in Int : x = FwdSent(cf, i, s) - 1
  BY <1>1
<1>3. PICK y \in Int : y = FwdAsked(cf, j, s2) - 1
  BY <1>1
<1>4. IsActTo(cf, i, x, q[m])
  BY <1>2, PostedTo
<1>5. IsActFrom(cf, j, y, q2[n])
  <2>1. LocalInv(cf, j, s2, q2) /\ q2[n].peer = PrevRank(j)
    BY <1>0, <1>00
  <2>2. QED
    BY <1>0, <1>3, <2>1, PostedTo
<1>6. /\ x \in 0 .. All(cf) - 1 /\ ~LastStage(i, FwdChunk(x))
      /\ q[m].data = Tensor(StageOf(i, FwdChunk(x)), Fwd(FwdChunk(x), x))
      /\ y \in 0 .. All(cf) - 1 /\ ~FirstStage(j, FwdChunk(y))
  BY <1>4, <1>5 DEF IsActTo, IsActFrom
<1>7. x \in Nat /\ y \in Nat /\ FwdSent(cf, i, s) = x + 1 /\ FwdAsked(cf, j, s2) = y + 1
  BY <1>1, <1>2, <1>3, <1>6
<1>8. (i = P - 1) \in BOOLEAN /\ (j = 0 <=> i = P - 1)
  <2>1. j = (IF i = P - 1 THEN 0 ELSE i + 1)
    BY <1>00, RingFacts
  <2>2. QED
    BY <2>1, SizeFacts DEF Ranks
<1>9. PICK end \in BOOLEAN : end = (i = P - 1)
  BY <1>8
<1>10. (j = 0) = end
  BY <1>8, <1>9
<1>11. Has(q, "send", NextRank(i)) /\ Has(q2, "recv", PrevRank(j))
  BY <1>0 DEF Has
<1>12. ActsOut(cf, i, s, q) = Left(end, x + 1) - 1 /\ ActsIn(cf, j, s2, q2) = Taken(end, y + 1) - 1
  <2>1. One(Has(q, "send", NextRank(i))) = 1 /\ One(Has(q2, "recv", PrevRank(j))) = 1
    BY <1>11 DEF One
  <2>2. QED
    BY <1>7, <1>9, <1>10, <2>1 DEF ActsOut, ActsIn
<1>13. Left(end, x + 1) = Taken(end, y + 1)
  <2>1. x + 1 \in Nat /\ y + 1 \in Nat
    BY <1>7
  <2>2. Left(end, x + 1) \in Nat /\ Taken(end, y + 1) \in Nat
    BY <2>1, LinkCounts
  <2>3. ActsOut(cf, i, s, q) = ActsIn(cf, j, s2, q2)
    BY <1>00
  <2>4. QED
    BY <1>12, <2>2, <2>3
<1>14. Tensor(StageOf(i, FwdChunk(x)), Fwd(FwdChunk(x), x))
         = Tensor(StageOf(j, FwdChunk(y)) - 1, Fwd(FwdChunk(y), y))
  BY <1>0, <1>00, <1>6, <1>7, <1>9, <1>13, ActMeets
<1>15. QED
  BY <1>5, <1>6, <1>7, <1>14 DEF j

(* And so is a gradient. *)
LEMMA GradFits ==
  ASSUME NEW cf \in Configs, NEW i \in Ranks, NEW s, NEW q, LocalInv(cf, i, s, q),
         NEW s2, NEW q2, LocalInv(cf, PrevRank(i), s2, q2),
         GradsOut(cf, i, s, q) = GradsIn(cf, PrevRank(i), s2, q2),
         NEW m \in DOMAIN q, q[m].kind = "send", q[m].peer = PrevRank(i),
         NEW n \in DOMAIN q2, q2[n].kind = "recv", q2[n].peer = i
  PROVE  \E y \in Nat : /\ BwdAsked(cf, PrevRank(i), s2) = y + 1
                        /\ IsGradFrom(cf, PrevRank(i), y, q2[n])
                        /\ q[m].data = Tensor(StageOf(PrevRank(i), BwdChunk(y)) + 1,
                                              Bwd(BwdChunk(y), y))
<1> DEFINE j == PrevRank(i)
<1>0. j \in Ranks /\ NextRank(j) = i
  BY RingFacts
<1> HIDE DEF j
<1>00. j = PrevRank(i)
  BY DEF j
<1>1. All(cf) \in Nat /\ BwdDone(cf, i, s) \in Nat /\ BwdAsked(cf, j, s2) \in Nat
  BY <1>0, <1>00, AllSize, PointTypes
<1>2. PICK x \in Int : x = BwdDone(cf, i, s) - 1
  BY <1>1
<1>3. PICK y \in Int : y = BwdAsked(cf, j, s2) - 1
  BY <1>1
<1>4. IsGradTo(cf, i, x, q[m])
  BY <1>2, PostedTo
<1>5. IsGradFrom(cf, j, y, q2[n])
  <2>1. LocalInv(cf, j, s2, q2) /\ q2[n].peer = NextRank(j)
    BY <1>0, <1>00
  <2>2. QED
    BY <1>0, <1>3, <2>1, PostedTo
<1>6. /\ x \in 0 .. All(cf) - 1 /\ ~FirstStage(i, BwdChunk(x))
      /\ q[m].data = Tensor(StageOf(i, BwdChunk(x)), Bwd(BwdChunk(x), x))
      /\ y \in 0 .. All(cf) - 1 /\ ~LastStage(j, BwdChunk(y))
  BY <1>4, <1>5 DEF IsGradTo, IsGradFrom
<1>7. x \in Nat /\ y \in Nat /\ BwdDone(cf, i, s) = x + 1 /\ BwdAsked(cf, j, s2) = y + 1
  BY <1>1, <1>2, <1>3, <1>6
<1>8. (i = 0) \in BOOLEAN /\ (j = P - 1 <=> i = 0)
  <2>1. j = (IF i = 0 THEN P - 1 ELSE i - 1)
    BY <1>00, RingFacts
  <2>2. QED
    BY <2>1, SizeFacts DEF Ranks
<1>9. PICK end \in BOOLEAN : end = (i = 0)
  BY <1>8
<1>10. (j = P - 1) = end
  BY <1>8, <1>9
<1>11. Has(q, "send", PrevRank(i)) /\ Has(q2, "recv", NextRank(j))
  BY <1>0 DEF Has
<1>12. GradsOut(cf, i, s, q) = Left(end, x + 1) - 1 /\ GradsIn(cf, j, s2, q2) = Taken(end, y + 1) - 1
  <2>1. One(Has(q, "send", PrevRank(i))) = 1 /\ One(Has(q2, "recv", NextRank(j))) = 1
    BY <1>11 DEF One
  <2>2. QED
    BY <1>7, <1>9, <1>10, <2>1 DEF GradsOut, GradsIn
<1>13. Left(end, x + 1) = Taken(end, y + 1)
  <2>1. x + 1 \in Nat /\ y + 1 \in Nat
    BY <1>7
  <2>2. Left(end, x + 1) \in Nat /\ Taken(end, y + 1) \in Nat
    BY <2>1, LinkCounts
  <2>3. GradsOut(cf, i, s, q) = GradsIn(cf, j, s2, q2)
    BY <1>00
  <2>4. QED
    BY <1>12, <2>2, <2>3
<1>14. Tensor(StageOf(i, BwdChunk(x)), Bwd(BwdChunk(x), x))
         = Tensor(StageOf(j, BwdChunk(y)) + 1, Bwd(BwdChunk(y), y))
  BY <1>0, <1>00, <1>6, <1>7, <1>9, <1>13, GradMeets
<1>15. QED
  BY <1>5, <1>6, <1>7, <1>14 DEF j

(* A transfer completes an activation or a gradient between two neighbours,  *)
(* and it is the one the receiver's iteration needs.                         *)
Delivers(i, j) ==
  /\ conf' = conf
  /\ rank' = [rank EXCEPT ![j] = rank'[j]]
  /\ pend' = [pend EXCEPT ![i] = pend'[i], ![j] = pend'[j]]
  /\ LocalInv(conf, i, rank[i], pend'[i])
  /\ LocalInv(conf, j, rank'[j], pend'[j])
  /\ SamePoint(conf, j, rank[j], rank'[j])
  /\ \/ /\ j = NextRank(i)
        /\ Freed(pend[i], pend'[i], "send", NextRank(i))
        /\ Freed(pend[j], pend'[j], "recv", PrevRank(j))
     \/ /\ j = PrevRank(i)
        /\ Freed(pend[i], pend'[i], "send", PrevRank(i))
        /\ Freed(pend[j], pend'[j], "recv", NextRank(j))

(* What a transfer writes. *)
Writes(i, m, j, n, t) ==
  /\ rank' = [rank EXCEPT ![j] = rank'[j]] /\ rank'[j] = t
  /\ pend' = [pend EXCEPT ![i] = pend'[i], ![j] = pend'[j]]
  /\ pend'[i] = RemoveAt(pend[i], m) /\ pend'[j] = RemoveAt(pend[j], n)

(* Both ranks lose the operation, the receiver's list is filled. *)
LEMMA TransferWrites ==
  ASSUME TypeOK, NEW i \in Ranks, NEW j \in Ranks, i # j, NEW m \in DOMAIN pend[i],
         NEW n \in DOMAIN pend[j], Complete(i, m, j, n), NEW t,
         rank' = [rank EXCEPT ![j] = t]
  PROVE  Writes(i, m, j, n, t)
<1>1. rank \in [Ranks -> LocalType(conf)] /\ pend \in [Ranks -> Seq(AnyOp)]
  BY StateTypes
<1>2. rank'[j] = t
  BY <1>1
<1> DEFINE u == RemoveAt(pend[i], m)
           u2 == RemoveAt(pend[j], n)
<1>3. pend' = [pend EXCEPT ![i] = u, ![j] = u2]
  BY <1>1 DEF Complete
<1> HIDE DEF u, u2
<1>4. pend'[i] = u /\ pend'[j] = u2
  BY <1>1, <1>3
<1>5. QED
  BY <1>2, <1>3, <1>4 DEF u, u2, Writes

(* An activation. *)
LEMMA ActDelivers ==
  ASSUME IInv, NEW i \in Ranks, NEW j \in Ranks, j = NextRank(i), conf' = conf,
         NEW m \in DOMAIN pend[i], pend[i][m].kind = "send", pend[i][m].peer = j,
         NEW n \in DOMAIN pend[j], pend[j][n].kind = "recv", pend[j][n].peer = i,
         Complete(i, m, j, n),
         rank' = IF pend[j][n].list = "input"
                 THEN [rank EXCEPT ![j].input_tensors[pend[j][n].chunk] = Fill(@, pend[i][m].data)]
                 ELSE [rank EXCEPT ![j].output_tensor_grads[pend[j][n].chunk] =
                         Fill(@, pend[i][m].data)]
  PROVE  Delivers(i, j)
<1>1. /\ TypeOK /\ conf \in Configs /\ LocalInv(conf, i, rank[i], pend[i])
      /\ LocalInv(conf, j, rank[j], pend[j])
      /\ ActsOut(conf, i, rank[i], pend[i]) = ActsIn(conf, j, rank[j], pend[j])
  BY StateTypes DEF IInv, Link
<1>2. PICK y \in Nat : /\ FwdAsked(conf, j, rank[j]) = y + 1
                       /\ IsActFrom(conf, j, y, pend[j][n])
                       /\ pend[i][m].data = Tensor(StageOf(j, FwdChunk(y)) - 1,
                                                   Fwd(FwdChunk(y), y))
  <2> DEFINE s == rank[i]
             q == pend[i]
             s2 == rank[j]
             q2 == pend[j]
  <2>1. /\ LocalInv(conf, i, s, q) /\ LocalInv(conf, NextRank(i), s2, q2)
        /\ ActsOut(conf, i, s, q) = ActsIn(conf, NextRank(i), s2, q2)
        /\ m \in DOMAIN q /\ q[m].kind = "send" /\ q[m].peer = NextRank(i)
        /\ n \in DOMAIN q2 /\ q2[n].kind = "recv" /\ q2[n].peer = i
    BY <1>1
  <2> HIDE DEF s, q, s2, q2
  <2>2. \E y \in Nat : /\ FwdAsked(conf, NextRank(i), s2) = y + 1
                       /\ IsActFrom(conf, NextRank(i), y, q2[n])
                       /\ q[m].data = Tensor(StageOf(NextRank(i), FwdChunk(y)) - 1,
                                             Fwd(FwdChunk(y), y))
    BY <1>1, <2>1, ActFits
  <2>3. QED
    BY <2>2 DEF s, q, s2, q2
<1>3. /\ pend[j][n].list = "input" /\ pend[j][n].chunk = FwdChunk(y)
  BY <1>2 DEF IsActFrom
<1>4. i # j /\ i = PrevRank(j)
  BY RingFacts
<1> DEFINE t == ArrivedInput(j, rank[j], y)
<1>5. rank' = [rank EXCEPT ![j] = t]
  <2>1. rank' = [rank EXCEPT ![j].input_tensors[FwdChunk(y)] =
                   Fill(@, Tensor(StageOf(j, FwdChunk(y)) - 1, Fwd(FwdChunk(y), y)))]
    BY <1>2, <1>3
  <2>2. QED
    BY <2>1 DEF ArrivedInput
<1>6. /\ LocalInv(conf, j, t, RemoveAt(pend[j], n)) /\ SamePoint(conf, j, rank[j], t)
      /\ Freed(pend[j], RemoveAt(pend[j], n), "recv", PrevRank(j))
  BY <1>1, <1>2, ReceiverKeepsInput
<1>7. /\ LocalInv(conf, i, rank[i], RemoveAt(pend[i], m))
      /\ Freed(pend[i], RemoveAt(pend[i], m), "send", NextRank(i))
  BY <1>1, SenderKeeps
<1> HIDE DEF t
<1>8. Writes(i, m, j, n, t)
  BY <1>1, <1>4, <1>5, TransferWrites, Zenon
<1>9. QED
  BY <1>6, <1>7, <1>8, Zenon DEF Delivers, Writes

(* A gradient. *)
LEMMA GradDelivers ==
  ASSUME IInv, NEW i \in Ranks, NEW j \in Ranks, j = PrevRank(i), conf' = conf,
         NEW m \in DOMAIN pend[i], pend[i][m].kind = "send", pend[i][m].peer = j,
         NEW n \in DOMAIN pend[j], pend[j][n].kind = "recv", pend[j][n].peer = i,
         Complete(i, m, j, n),
         rank' = IF pend[j][n].list = "input"
                 THEN [rank EXCEPT ![j].input_tensors[pend[j][n].chunk] = Fill(@, pend[i][m].data)]
                 ELSE [rank EXCEPT ![j].output_tensor_grads[pend[j][n].chunk] =
                         Fill(@, pend[i][m].data)]
  PROVE  Delivers(i, j)
<1>0. i = NextRank(j) /\ i # j
  BY RingFacts
<1>1. /\ TypeOK /\ conf \in Configs /\ LocalInv(conf, i, rank[i], pend[i])
      /\ LocalInv(conf, j, rank[j], pend[j])
      /\ GradsOut(conf, i, rank[i], pend[i]) = GradsIn(conf, j, rank[j], pend[j])
  BY <1>0, StateTypes DEF IInv, Link
<1>2. PICK y \in Nat : /\ BwdAsked(conf, j, rank[j]) = y + 1
                       /\ IsGradFrom(conf, j, y, pend[j][n])
                       /\ pend[i][m].data = Tensor(StageOf(j, BwdChunk(y)) + 1,
                                                   Bwd(BwdChunk(y), y))
  <2> DEFINE s == rank[i]
             q == pend[i]
             s2 == rank[j]
             q2 == pend[j]
  <2>1. /\ LocalInv(conf, i, s, q) /\ LocalInv(conf, PrevRank(i), s2, q2)
        /\ GradsOut(conf, i, s, q) = GradsIn(conf, PrevRank(i), s2, q2)
        /\ m \in DOMAIN q /\ q[m].kind = "send" /\ q[m].peer = PrevRank(i)
        /\ n \in DOMAIN q2 /\ q2[n].kind = "recv" /\ q2[n].peer = i
    BY <1>1
  <2> HIDE DEF s, q, s2, q2
  <2>2. \E y \in Nat : /\ BwdAsked(conf, PrevRank(i), s2) = y + 1
                       /\ IsGradFrom(conf, PrevRank(i), y, q2[n])
                       /\ q[m].data = Tensor(StageOf(PrevRank(i), BwdChunk(y)) + 1,
                                             Bwd(BwdChunk(y), y))
    BY <1>1, <2>1, GradFits
  <2>3. QED
    BY <2>2 DEF s, q, s2, q2
<1>3. /\ pend[j][n].list # "input" /\ pend[j][n].chunk = BwdChunk(y)
  BY <1>2 DEF IsGradFrom
<1> DEFINE t == ArrivedGrad(j, rank[j], y)
<1>5. rank' = [rank EXCEPT ![j] = t]
  <2>1. rank' = [rank EXCEPT ![j].output_tensor_grads[BwdChunk(y)] =
                   Fill(@, Tensor(StageOf(j, BwdChunk(y)) + 1, Bwd(BwdChunk(y), y)))]
    BY <1>2, <1>3
  <2>2. QED
    BY <2>1 DEF ArrivedGrad
<1>6. /\ LocalInv(conf, j, t, RemoveAt(pend[j], n)) /\ SamePoint(conf, j, rank[j], t)
      /\ Freed(pend[j], RemoveAt(pend[j], n), "recv", NextRank(j))
  BY <1>1, <1>2, ReceiverKeepsGrad
<1>7. /\ LocalInv(conf, i, rank[i], RemoveAt(pend[i], m))
      /\ Freed(pend[i], RemoveAt(pend[i], m), "send", PrevRank(i))
  BY <1>1, SenderKeeps
<1> HIDE DEF t
<1>8. Writes(i, m, j, n, t)
  BY <1>0, <1>1, <1>5, TransferWrites, Zenon
<1>9. QED
  BY <1>6, <1>7, <1>8, Zenon DEF Delivers, Writes

(* The pairing by order alone finds the right tensor. *)
LEMMA TransferDelivers ==
  ASSUME IInv, NEW i \in Ranks, NEW j \in Ranks, Transfer(i, j)
  PROVE  Delivers(i, j)
<1>1. conf' = conf
  BY DEF Transfer
<1>2. PICK m \in DOMAIN pend[i], n \in DOMAIN pend[j] :
        /\ Paired(~conf.overlap, i, m, j, n)
        /\ Complete(i, m, j, n)
        /\ rank' = IF pend[j][n].list = "input"
                   THEN [rank EXCEPT ![j].input_tensors[pend[j][n].chunk] =
                           Fill(@, pend[i][m].data)]
                   ELSE [rank EXCEPT ![j].output_tensor_grads[pend[j][n].chunk] =
                           Fill(@, pend[i][m].data)]
  BY Zenon DEF Transfer
<1>3. /\ pend[i][m].kind = "send" /\ pend[i][m].peer = j
      /\ pend[j][n].kind = "recv" /\ pend[j][n].peer = i
  BY <1>2 DEF Paired, IsFirst, Channel
<1>4. LocalInv(conf, i, rank[i], pend[i]) /\ conf \in Configs
  BY StateTypes DEF IInv
<1>5. pend[i][m].peer \in {PrevRank(i), NextRank(i)}
  BY <1>4, PostedTo
<1>6. CASE j = NextRank(i)
  BY <1>1, <1>2, <1>3, <1>6, ActDelivers
<1>7. CASE j = PrevRank(i)
  BY <1>1, <1>2, <1>3, <1>7, GradDelivers
<1>8. QED
  BY <1>3, <1>5, <1>6, <1>7

-----------------------------------------------------------------------------
(* The inductive invariant.                                                  *)

(* Types follow from the local invariants. *)
LEMMA TypesFromLocal ==
  ASSUME NEW cf \in Configs, NEW rk, NEW pd,
         rk = [k \in Ranks |-> rk[k]], pd = [k \in Ranks |-> pd[k]],
         \A k \in Ranks : LocalInv(cf, k, rk[k], pd[k])
  PROVE  rk \in [Ranks -> LocalType(cf)] /\ pd \in [Ranks -> Seq(AnyOp)]
<1>1. \A k \in Ranks : rk[k] \in LocalType(cf) /\ pd[k] \in Seq(AnyOp)
  BY DEF LocalInv, Posted, AnyOp
<1>2. QED
  BY <1>1

(* Local invariants and links make up the invariant. *)
LEMMA Reassembled ==
  ASSUME conf \in Configs, conf' = conf,
         rank' = [k \in Ranks |-> rank'[k]], pend' = [k \in Ranks |-> pend'[k]],
         \A k \in Ranks : LocalInv(conf, k, rank'[k], pend'[k]),
         \A k \in Ranks : Link(conf, k, rank'[k], pend'[k], rank'[NextRank(k)], pend'[NextRank(k)])
  PROVE  IInv'
<1>1. rank' \in [Ranks -> LocalType(conf)] /\ pend' \in [Ranks -> Seq(AnyOp)]
  BY TypesFromLocal
<1>2. LocalType(conf') = RankType'
  BY DEF RankType, LocalType, M, Total, All, Phases
<1>3. TypeOK'
  BY <1>1, <1>2 DEF TypeOK, AnyOp
<1>4. QED
  BY <1>3 DEF IInv

(* The parts of the invariant that the steps use. *)
LEMMA IInvParts ==
  ASSUME IInv
  PROVE  /\ conf \in Configs /\ rank \in [Ranks -> LocalType(conf)]
         /\ pend \in [Ranks -> Seq(AnyOp)]
         /\ \A k \in Ranks : LocalInv(conf, k, rank[k], pend[k])
         /\ \A k \in Ranks : Link(conf, k, rank[k], pend[k], rank[NextRank(k)], pend[NextRank(k)])
BY StateTypes DEF IInv

(* The step of a rank keeps the invariant. *)
LEMMA MovesKeepIInv ==
  ASSUME IInv, NEW r \in Ranks, Moves(r)
  PROVE  IInv'
<1>1. /\ conf \in Configs /\ rank \in [Ranks -> LocalType(conf)] /\ pend \in [Ranks -> Seq(AnyOp)]
      /\ \A k \in Ranks : LocalInv(conf, k, rank[k], pend[k])
      /\ \A k \in Ranks : Link(conf, k, rank[k], pend[k], rank[NextRank(k)], pend[NextRank(k)])
  BY IInvParts
<1>2. /\ conf' = conf
      /\ rank' = [rank EXCEPT ![r] = rank'[r]] /\ pend' = [pend EXCEPT ![r] = pend'[r]]
      /\ LocalInv(conf, r, rank'[r], pend'[r])
  BY DEF Moves, Advances
<1>3. \A k \in Ranks : k # r => rank'[k] = rank[k] /\ pend'[k] = pend[k]
  BY <1>1, <1>2
<1>4. rank' = [k \in Ranks |-> rank'[k]] /\ pend' = [k \in Ranks |-> pend'[k]]
  BY <1>1, <1>2
<1>5. \A k \in Ranks : LocalInv(conf, k, rank'[k], pend'[k])
  BY <1>1, <1>2, <1>3, Zenon
<1>6. ASSUME NEW k \in Ranks
      PROVE  /\ ActsOut(conf, k, rank'[k], pend'[k]) = ActsOut(conf, k, rank[k], pend[k])
             /\ ActsIn(conf, k, rank'[k], pend'[k]) = ActsIn(conf, k, rank[k], pend[k])
             /\ GradsOut(conf, k, rank'[k], pend'[k]) = GradsOut(conf, k, rank[k], pend[k])
             /\ GradsIn(conf, k, rank'[k], pend'[k]) = GradsIn(conf, k, rank[k], pend[k])
  <2>1. CASE k = r
    BY <2>1, Zenon DEF Moves, Advances
  <2>2. CASE k # r
    BY <1>3, <2>2, Zenon
  <2>3. QED
    BY <2>1, <2>2
<1>7. ASSUME NEW k \in Ranks
      PROVE  Link(conf, k, rank'[k], pend'[k], rank'[NextRank(k)], pend'[NextRank(k)])
  <2>1. NextRank(k) \in Ranks
    BY RingFacts
  <2>2. Link(conf, k, rank[k], pend[k], rank[NextRank(k)], pend[NextRank(k)])
    BY <1>1
  <2>3. QED
    BY <1>6, <2>1, <2>2, Zenon DEF Link
<1>8. QED
  BY <1>1, <1>2, <1>4, <1>5, <1>7, Reassembled

(* The four ends of a rank's links after its posted operations changed.      *)
EndsGain(cf, r, s, q, u, ao, ai, go, gi) ==
  /\ ActsOut(cf, r, s, u) = ActsOut(cf, r, s, q) + ao
  /\ ActsIn(cf, r, s, u) = ActsIn(cf, r, s, q) + ai
  /\ GradsOut(cf, r, s, u) = GradsOut(cf, r, s, q) + go
  /\ GradsIn(cf, r, s, u) = GradsIn(cf, r, s, q) + gi

(* A completed operation counts at its own end. *)
LEMMA FreedGains ==
  ASSUME NEW cf \in Configs, NEW r \in Ranks, NEW s, NEW q, LocalInv(cf, r, s, q),
         NEW u, NEW kind, NEW peer, Freed(q, u, kind, peer)
  PROVE  EndsGain(cf, r, s, q, u, One(kind = "send" /\ peer = NextRank(r)),
                  One(kind = "recv" /\ peer = PrevRank(r)),
                  One(kind = "send" /\ peer = PrevRank(r)),
                  One(kind = "recv" /\ peer = NextRank(r)))
<1>1. ASSUME NEW k, NEW p
      PROVE  /\ One(Has(u, k, p)) = One(Has(q, k, p)) - One(kind = k /\ peer = p)
             /\ One(Has(u, k, p)) \in Int /\ One(Has(q, k, p)) \in Int
             /\ One(kind = k /\ peer = p) \in Int
  <2>1. CASE kind = k /\ peer = p
    <3>1. Has(q, k, p) /\ ~Has(u, k, p)
      BY <2>1 DEF Freed
    <3>2. One(Has(u, k, p)) = 0 /\ One(Has(q, k, p)) = 1 /\ One(kind = k /\ peer = p) = 1
      BY <2>1, <3>1 DEF One
    <3>3. QED
      BY <3>2
  <2>2. CASE ~(kind = k /\ peer = p)
    <3>1. Has(u, k, p) <=> Has(q, k, p)
      BY <2>2 DEF Freed
    <3>2. One(kind = k /\ peer = p) = 0
      BY <2>2 DEF One
    <3>3. CASE Has(q, k, p)
      <4>1. One(Has(u, k, p)) = 1 /\ One(Has(q, k, p)) = 1
        BY <3>1, <3>3 DEF One
      <4>2. QED
        BY <3>2, <4>1
    <3>4. CASE ~Has(q, k, p)
      <4>1. One(Has(u, k, p)) = 0 /\ One(Has(q, k, p)) = 0
        BY <3>1, <3>4 DEF One
      <4>2. QED
        BY <3>2, <4>1
    <3>5. QED
      BY <3>3, <3>4
  <2>3. QED
    BY <2>1, <2>2
<1>2. /\ Left(r = P - 1, FwdSent(cf, r, s)) \in Nat /\ Taken(r = 0, FwdAsked(cf, r, s)) \in Nat
      /\ Left(r = 0, BwdDone(cf, r, s)) \in Nat /\ Taken(r = P - 1, BwdAsked(cf, r, s)) \in Nat
  <2>1. (r = P - 1) \in BOOLEAN /\ (r = 0) \in BOOLEAN
    OBVIOUS
  <2>2. /\ FwdSent(cf, r, s) \in Nat /\ FwdAsked(cf, r, s) \in Nat
        /\ BwdDone(cf, r, s) \in Nat /\ BwdAsked(cf, r, s) \in Nat
    BY PointTypes
  <2>3. QED
    BY <2>1, <2>2, LinkCounts, Zenon
<1>3. ASSUME NEW l \in Int, NEW a \in Int, NEW z \in Int, NEW o \in Int, a = z - o
      PROVE  l - a = (l - z) + o
  BY <1>3
<1>4. ActsOut(cf, r, s, u) = ActsOut(cf, r, s, q) + One(kind = "send" /\ peer = NextRank(r))
  BY <1>1, <1>2, <1>3 DEF ActsOut
<1>5. ActsIn(cf, r, s, u) = ActsIn(cf, r, s, q) + One(kind = "recv" /\ peer = PrevRank(r))
  BY <1>1, <1>2, <1>3 DEF ActsIn
<1>6. GradsOut(cf, r, s, u) = GradsOut(cf, r, s, q) + One(kind = "send" /\ peer = PrevRank(r))
  BY <1>1, <1>2, <1>3 DEF GradsOut
<1>7. GradsIn(cf, r, s, u) = GradsIn(cf, r, s, q) + One(kind = "recv" /\ peer = NextRank(r))
  BY <1>1, <1>2, <1>3 DEF GradsIn
<1>8. QED
  BY <1>4, <1>5, <1>6, <1>7 DEF EndsGain

(* What a rank contributes to its links is a number. *)
LEMMA EndsAreInts ==
  ASSUME NEW cf \in Configs, NEW r \in Ranks, NEW s, NEW q, LocalInv(cf, r, s, q)
  PROVE  /\ ActsOut(cf, r, s, q) \in Int /\ ActsIn(cf, r, s, q) \in Int
         /\ GradsOut(cf, r, s, q) \in Int /\ GradsIn(cf, r, s, q) \in Int
<1>1. /\ Left(r = P - 1, FwdSent(cf, r, s)) \in Nat /\ Taken(r = 0, FwdAsked(cf, r, s)) \in Nat
      /\ Left(r = 0, BwdDone(cf, r, s)) \in Nat /\ Taken(r = P - 1, BwdAsked(cf, r, s)) \in Nat
  <2>1. (r = P - 1) \in BOOLEAN /\ (r = 0) \in BOOLEAN
    OBVIOUS
  <2>2. /\ FwdSent(cf, r, s) \in Nat /\ FwdAsked(cf, r, s) \in Nat
        /\ BwdDone(cf, r, s) \in Nat /\ BwdAsked(cf, r, s) \in Nat
    BY PointTypes
  <2>3. QED
    BY <2>1, <2>2, LinkCounts, Zenon
<1>2. ASSUME NEW k, NEW p PROVE One(Has(q, k, p)) \in Int
  BY DEF One
<1>3. ASSUME NEW l \in Int, NEW a \in Int PROVE l - a \in Int
  BY <1>3
<1>4. QED
  BY <1>1, <1>2, <1>3 DEF ActsOut, ActsIn, GradsOut, GradsIn

(* The links of a rank that received: its own counters did not move.         *)
LEMMA SamePointEnds ==
  ASSUME NEW cf, NEW r, NEW s, NEW t, NEW q, SamePoint(cf, r, s, t)
  PROVE  /\ ActsOut(cf, r, t, q) = ActsOut(cf, r, s, q) /\ ActsIn(cf, r, t, q) = ActsIn(cf, r, s, q)
         /\ GradsOut(cf, r, t, q) = GradsOut(cf, r, s, q)
         /\ GradsIn(cf, r, t, q) = GradsIn(cf, r, s, q)
BY Zenon DEF SamePoint, ActsOut, ActsIn, GradsOut, GradsIn

(* One unit, at the sender's end and at the receiver's end of one link. *)
Gained(k, ao, ai, go, gi) ==
  /\ ActsOut(conf, k, rank'[k], pend'[k]) = ActsOut(conf, k, rank[k], pend[k]) + ao
  /\ ActsIn(conf, k, rank'[k], pend'[k]) = ActsIn(conf, k, rank[k], pend[k]) + ai
  /\ GradsOut(conf, k, rank'[k], pend'[k]) = GradsOut(conf, k, rank[k], pend[k]) + go
  /\ GradsIn(conf, k, rank'[k], pend'[k]) = GradsIn(conf, k, rank[k], pend[k]) + gi

(* A transfer moves one unit over one link. *)
LEMMA DeliversGains ==
  ASSUME IInv, NEW i \in Ranks, NEW j \in Ranks, Delivers(i, j), NEW k \in Ranks
  PROVE  Gained(k, One(j = NextRank(i) /\ k = i), One(j = NextRank(i) /\ k = j),
                One(j = PrevRank(i) /\ k = i), One(j = PrevRank(i) /\ k = j))
<1>1. /\ conf \in Configs /\ rank \in [Ranks -> LocalType(conf)] /\ pend \in [Ranks -> Seq(AnyOp)]
      /\ LocalInv(conf, k, rank[k], pend[k])
  BY IInvParts
<1>2. /\ i # j /\ PrevRank(i) # NextRank(i) /\ PrevRank(j) # NextRank(j)
      /\ j = NextRank(i) <=> i = PrevRank(j)
      /\ j = PrevRank(i) <=> i = NextRank(j)
      /\ j = NextRank(i) \/ j = PrevRank(i)
  BY RingFacts DEF Delivers
<1>3. CASE k = i
  <2>1. rank'[k] = rank[k]
    BY <1>1, <1>2, <1>3 DEF Delivers
  <2>2. CASE j = NextRank(i)
    <3>1. Freed(pend[k], pend'[k], "send", NextRank(k))
      BY <1>2, <1>3, <2>2 DEF Delivers
    <3>2. EndsGain(conf, k, rank[k], pend[k], pend'[k], 1, 0, 0, 0)
      <4>1. /\ One("send" = "send" /\ NextRank(k) = NextRank(k)) = 1
            /\ One("send" = "recv" /\ NextRank(k) = PrevRank(k)) = 0
            /\ One("send" = "send" /\ NextRank(k) = PrevRank(k)) = 0
            /\ One("send" = "recv" /\ NextRank(k) = NextRank(k)) = 0
        BY <1>2, <1>3 DEF One
      <4>2. QED
        BY <1>1, <3>1, <4>1, FreedGains, Zenon
    <3>3. /\ One(j = NextRank(i) /\ k = i) = 1 /\ One(j = NextRank(i) /\ k = j) = 0
          /\ One(j = PrevRank(i) /\ k = i) = 0 /\ One(j = PrevRank(i) /\ k = j) = 0
      BY <1>2, <1>3, <2>2 DEF One
    <3>4. QED
      BY <2>1, <3>2, <3>3, Zenon DEF EndsGain, Gained
  <2>3. CASE j = PrevRank(i)
    <3>1. Freed(pend[k], pend'[k], "send", PrevRank(k))
      BY <1>2, <1>3, <2>3 DEF Delivers
    <3>2. EndsGain(conf, k, rank[k], pend[k], pend'[k], 0, 0, 1, 0)
      <4>1. /\ One("send" = "send" /\ PrevRank(k) = NextRank(k)) = 0
            /\ One("send" = "recv" /\ PrevRank(k) = PrevRank(k)) = 0
            /\ One("send" = "send" /\ PrevRank(k) = PrevRank(k)) = 1
            /\ One("send" = "recv" /\ PrevRank(k) = NextRank(k)) = 0
        BY <1>2, <1>3 DEF One
      <4>2. QED
        BY <1>1, <3>1, <4>1, FreedGains, Zenon
    <3>3. /\ One(j = NextRank(i) /\ k = i) = 0 /\ One(j = NextRank(i) /\ k = j) = 0
          /\ One(j = PrevRank(i) /\ k = i) = 1 /\ One(j = PrevRank(i) /\ k = j) = 0
      BY <1>2, <1>3, <2>3 DEF One
    <3>4. QED
      BY <2>1, <3>2, <3>3, Zenon DEF EndsGain, Gained
  <2>4. QED
    BY <1>2, <2>2, <2>3
<1>4. CASE k = j
  <2>1. SamePoint(conf, k, rank[k], rank'[k])
    BY <1>4 DEF Delivers
  <2>e. /\ ActsOut(conf, k, rank'[k], pend'[k]) = ActsOut(conf, k, rank[k], pend'[k])
        /\ ActsIn(conf, k, rank'[k], pend'[k]) = ActsIn(conf, k, rank[k], pend'[k])
        /\ GradsOut(conf, k, rank'[k], pend'[k]) = GradsOut(conf, k, rank[k], pend'[k])
        /\ GradsIn(conf, k, rank'[k], pend'[k]) = GradsIn(conf, k, rank[k], pend'[k])
    BY <2>1, SamePointEnds
  <2>2. CASE j = NextRank(i)
    <3>1. Freed(pend[k], pend'[k], "recv", PrevRank(k))
      BY <1>2, <1>4, <2>2 DEF Delivers
    <3>2. EndsGain(conf, k, rank[k], pend[k], pend'[k], 0, 1, 0, 0)
      <4>1. /\ One("recv" = "send" /\ PrevRank(k) = NextRank(k)) = 0
            /\ One("recv" = "recv" /\ PrevRank(k) = PrevRank(k)) = 1
            /\ One("recv" = "send" /\ PrevRank(k) = PrevRank(k)) = 0
            /\ One("recv" = "recv" /\ PrevRank(k) = NextRank(k)) = 0
        BY <1>2, <1>4 DEF One
      <4>2. QED
        BY <1>1, <3>1, <4>1, FreedGains, Zenon
    <3>3. /\ One(j = NextRank(i) /\ k = i) = 0 /\ One(j = NextRank(i) /\ k = j) = 1
          /\ One(j = PrevRank(i) /\ k = i) = 0 /\ One(j = PrevRank(i) /\ k = j) = 0
      BY <1>2, <1>4, <2>2 DEF One
    <3>4. QED
      BY <2>e, <3>2, <3>3, Zenon DEF EndsGain, Gained
  <2>3. CASE j = PrevRank(i)
    <3>1. Freed(pend[k], pend'[k], "recv", NextRank(k))
      BY <1>2, <1>4, <2>3 DEF Delivers
    <3>2. EndsGain(conf, k, rank[k], pend[k], pend'[k], 0, 0, 0, 1)
      <4>1. /\ One("recv" = "send" /\ NextRank(k) = NextRank(k)) = 0
            /\ One("recv" = "recv" /\ NextRank(k) = PrevRank(k)) = 0
            /\ One("recv" = "send" /\ NextRank(k) = PrevRank(k)) = 0
            /\ One("recv" = "recv" /\ NextRank(k) = NextRank(k)) = 1
        BY <1>2, <1>4 DEF One
      <4>2. QED
        BY <1>1, <3>1, <4>1, FreedGains, Zenon
    <3>3. /\ One(j = NextRank(i) /\ k = i) = 0 /\ One(j = NextRank(i) /\ k = j) = 0
          /\ One(j = PrevRank(i) /\ k = i) = 0 /\ One(j = PrevRank(i) /\ k = j) = 1
      BY <1>2, <1>4, <2>3 DEF One
    <3>4. QED
      BY <2>e, <3>2, <3>3, Zenon DEF EndsGain, Gained
  <2>4. QED
    BY <1>2, <2>2, <2>3
<1>5. CASE k # i /\ k # j
  <2>1. rank'[k] = rank[k] /\ pend'[k] = pend[k]
    BY <1>1, <1>5 DEF Delivers
  <2>2. /\ One(j = NextRank(i) /\ k = i) = 0 /\ One(j = NextRank(i) /\ k = j) = 0
        /\ One(j = PrevRank(i) /\ k = i) = 0 /\ One(j = PrevRank(i) /\ k = j) = 0
    BY <1>5 DEF One
  <2>3. /\ ActsOut(conf, k, rank[k], pend[k]) \in Int /\ ActsIn(conf, k, rank[k], pend[k]) \in Int
        /\ GradsOut(conf, k, rank[k], pend[k]) \in Int /\ GradsIn(conf, k, rank[k], pend[k]) \in Int
    BY <1>1, EndsAreInts
  <2>4. \A a \in Int : a = a + 0
    OBVIOUS
  <2>5. QED
    BY <2>1, <2>2, <2>3, <2>4, Zenon DEF Gained
<1>6. QED
  BY <1>3, <1>4, <1>5

(* A transfer keeps the invariant. *)
LEMMA DeliversKeepsIInv ==
  ASSUME IInv, NEW i \in Ranks, NEW j \in Ranks, Delivers(i, j)
  PROVE  IInv'
<1>1. /\ conf \in Configs /\ rank \in [Ranks -> LocalType(conf)] /\ pend \in [Ranks -> Seq(AnyOp)]
      /\ \A k \in Ranks : LocalInv(conf, k, rank[k], pend[k])
      /\ \A k \in Ranks : Link(conf, k, rank[k], pend[k], rank[NextRank(k)], pend[NextRank(k)])
  BY IInvParts
<1>2. i # j
  BY RingFacts DEF Delivers
<1>4. /\ \A k \in Ranks : k # j => rank'[k] = rank[k]
      /\ \A k \in Ranks : k # j /\ k # i => pend'[k] = pend[k]
      /\ rank' = [k \in Ranks |-> rank'[k]] /\ pend' = [k \in Ranks |-> pend'[k]]
  BY <1>1, <1>2 DEF Delivers
<1>5. ASSUME NEW k \in Ranks PROVE LocalInv(conf, k, rank'[k], pend'[k])
  <2>1. CASE k = i
    BY <1>2, <1>4, <2>1, Zenon DEF Delivers
  <2>2. CASE k = j
    BY <2>2, Zenon DEF Delivers
  <2>3. CASE k # i /\ k # j
    BY <1>1, <1>4, <2>3, Zenon
  <2>4. QED
    BY <2>1, <2>2, <2>3
<1>7. ASSUME NEW k \in Ranks
      PROVE  Link(conf, k, rank'[k], pend'[k], rank'[NextRank(k)], pend'[NextRank(k)])
  <2> DEFINE n == NextRank(k)
  <2>1. n \in Ranks
    BY RingFacts
  <2>2. /\ ActsOut(conf, k, rank[k], pend[k]) = ActsIn(conf, n, rank[n], pend[n])
        /\ GradsOut(conf, n, rank[n], pend[n]) = GradsIn(conf, k, rank[k], pend[k])
    BY <1>1, Zenon DEF Link
  <2>3. /\ j = NextRank(i) => (k = i <=> n = j)
        /\ j = PrevRank(i) => (k = j <=> n = i)
    BY RingFacts
  <2>4. /\ One(j = NextRank(i) /\ k = i) = One(j = NextRank(i) /\ n = j)
        /\ One(j = PrevRank(i) /\ n = i) = One(j = PrevRank(i) /\ k = j)
    BY <2>3 DEF One
  <2> HIDE DEF n
  <2>5. Gained(k, One(j = NextRank(i) /\ k = i), One(j = NextRank(i) /\ k = j),
                One(j = PrevRank(i) /\ k = i), One(j = PrevRank(i) /\ k = j))
    BY DeliversGains
  <2>6. Gained(n, One(j = NextRank(i) /\ n = i), One(j = NextRank(i) /\ n = j),
                One(j = PrevRank(i) /\ n = i), One(j = PrevRank(i) /\ n = j))
    BY <2>1, DeliversGains
  <2>7. /\ ActsOut(conf, k, rank'[k], pend'[k]) = ActsIn(conf, n, rank'[n], pend'[n])
        /\ GradsOut(conf, n, rank'[n], pend'[n]) = GradsIn(conf, k, rank'[k], pend'[k])
    BY <2>2, <2>4, <2>5, <2>6, Zenon DEF Gained
  <2>8. QED
    BY <2>7 DEF Link, n
<1>8. conf' = conf
  BY DEF Delivers
<1>9. QED
  BY <1>1, <1>4, <1>5, <1>7, <1>8, Reassembled

(* What a rank starts with. *)
LEMMA InitLocal ==
  ASSUME NEW cf \in Configs, NEW r \in Ranks
  PROVE  LocalInv(cf, r, InitRank, <<>>)
<1> DEFINE s == InitRank
           q == <<>>
<1>1. /\ s.phase = "first" /\ s.k = 0 /\ s.input_tensors = [c \in Chunks |-> <<>>]
      /\ s.output_tensors = [c \in Chunks |-> <<>>]
      /\ s.output_tensor_grads = [c \in Chunks |-> <<>>]
      /\ s.drawn = [c \in Chunks |-> 0] /\ s.bwd = [c \in Chunks |-> 0]
      /\ s.no_sync = TRUE /\ s.synchronized = {} /\ s.grad_syncs = [c \in Chunks |-> <<>>]
      /\ s.param_syncs = [c \in Chunks |-> IF c \in {0, 1} THEN 1 ELSE 0]
  BY DEF InitRank
<1>2. s \in LocalType(cf)
  <2>1. All(cf) \in Nat /\ cf.microbatches \in Nat
    BY AllSize, ConfFacts
  <2>2. NoTensor \in Tensors
    BY DEF Tensors
  <2>3. <<>> \in Seq(Tensors) /\ <<>> \in Seq(0 .. cf.microbatches)
    OBVIOUS
  <2> DEFINE empty == [c \in Chunks |-> <<>>]
             zero == [c \in Chunks |-> 0]
             ps == [c \in Chunks |-> IF c \in {0, 1} THEN 1 ELSE 0]
  <2>4. /\ empty \in [Chunks -> Seq(Tensors)] /\ empty \in [Chunks -> Seq(0 .. cf.microbatches)]
        /\ zero \in [Chunks -> 0 .. cf.microbatches] /\ ps \in [Chunks -> Nat]
    BY <2>1, <2>3
  <2>5. 0 \in 0 .. All(cf) /\ "first" \in Phases
    BY <2>1 DEF Phases
  <2>6. InitRank = [phase |-> "first", k |-> 0, input_tensors |-> empty, output_tensors |-> empty,
                    output_tensor_grads |-> empty, output_tensor |-> NoTensor,
                    input_tensor_grad |-> NoTensor, drawn |-> zero, bwd |-> zero,
                    no_sync |-> TRUE, synchronized |-> {}, grad_syncs |-> empty,
                    param_syncs |-> ps]
    BY Zenon DEF InitRank
  <2> HIDE DEF empty, zero, ps
  <2>7. QED
    BY <2>2, <2>4, <2>5, <2>6 DEF LocalType
<1> HIDE DEF s
<1>3. PointsAre(cf, r, s, 0, 0, 0, 0, 0)
  BY <1>1, Points
<1>4. Counter(cf, r, s)
  BY <1>1 DEF Counter, Phases
<1>5. Counts(s, 0, 0)
  BY <1>1, FwdFacts, BwdFacts DEF Counts
<1>6. ASSUME NEW p PROVE Has(q, "recv", p) = FALSE
  BY DEF Has
<1>7. ASSUME NEW from, NEW hole, NEW over PROVE ListIs(<<>>, from, 0, 0, hole, over)
  BY DEF ListIs
<1>8. ASSUME NEW c \in Chunks
      PROVE  /\ OutputsAre(cf, r, s, c)
             /\ InputsAre(cf, r, s, 0, FALSE, 0 = All(cf), c)
             /\ GradsAre(r, s, 0, FALSE, 0 = All(cf), c)
  <2>1. Base(cf, s, c) = 0 /\ s.drawn[c] = 0 /\ s.bwd[c] = 0 /\ Fwd(c, 0) = 0 /\ Bwd(c, 0) = 0
    BY <1>1, FwdFacts, BwdFacts DEF Base
  <2>2. s.output_tensors[c] = <<>> /\ s.input_tensors[c] = <<>> /\ s.output_tensor_grads[c] = <<>>
    BY <1>1
  <2>3. OutputsAre(cf, r, s, c)
    BY <1>7, <2>1, <2>2, Zenon DEF OutputsAre
  <2>4. InputsAre(cf, r, s, 0, FALSE, 0 = All(cf), c)
    <3>1. CASE FirstStage(r, c)
      <4>1. /\ \A n \in 1 .. Len(s.input_tensors[c]) : s.input_tensors[c][n] = NoTensor
            /\ Len(s.input_tensors[c]) >= Len(s.output_tensors[c])
        BY <2>2
      <4>2. QED
        BY <3>1, <4>1 DEF InputsAre, InputList
    <3>2. CASE ~FirstStage(r, c)
      BY <1>7, <2>1, <2>2, <3>2, Zenon DEF InputsAre, InputList
    <3>3. QED
      BY <3>1, <3>2
  <2>5. GradsAre(r, s, 0, FALSE, 0 = All(cf), c)
    <3>1. CASE LastStage(r, c)
      <4>1. \A n \in 1 .. Len(s.output_tensor_grads[c]) : s.output_tensor_grads[c][n] = NoTensor
        BY <2>2
      <4>2. QED
        BY <3>1, <4>1 DEF GradsAre, GradList
    <3>2. CASE ~LastStage(r, c)
      BY <1>7, <2>1, <2>2, <3>2, Zenon DEF GradsAre, GradList
    <3>3. QED
      BY <3>1, <3>2
  <2>6. QED
    BY <2>3, <2>4, <2>5
<1>9. /\ Outputs(cf, r, s)
      /\ Inputs(cf, r, s, 0, Has(q, "recv", PrevRank(r)), 0 = All(cf))
      /\ Grads(r, s, 0, Has(q, "recv", NextRank(r)), 0 = All(cf))
  BY <1>6, <1>8, Zenon DEF Outputs, Inputs, Grads
<1>10. GradsHanded(cf, r, s, 0)
  <2>1. GradIters(cf, r, 0) = 0
    BY SizeFacts DEF GradIters, Ranks
  <2>2. \A c \in Chunks : ~Handed(cf, r, 0, c)
    BY <2>1, BwdFacts, ConfFacts DEF Handed
  <2>3. QED
    BY <1>1, <2>2 DEF GradsHanded
<1>11. ParamsLaunched(r, s, 0)
  <2> SUFFICES ASSUME NEW c \in Chunks
               PROVE  s.param_syncs[c] = IF c <= 1 \/ Fwd(c - 1, 0 + r) > 0 THEN 1 ELSE 0
    BY DEF ParamsLaunched
  <2>1. c \in Nat /\ (c <= 1 <=> c \in {0, 1})
    BY SizeFacts DEF Chunks
  <2>2. c > 1 => Fwd(c - 1, 0 + r) = 0
    <3>1. r \in Nat /\ r <= P /\ 0 + r = r
      BY SizeFacts DEF Ranks
    <3>2. c > 1 => c - 1 \in Chunks /\ c - 1 > 0
      BY SizeFacts DEF Chunks
    <3>3. QED
      BY <3>1, <3>2, FwdFacts
  <2>3. QED
    BY <1>1, <2>1, <2>2
<1>12. Posted(cf, r, 0, 0, 0, 0, q)
  BY DEF Posted
<1>13. s.phase # "steady_bwd" /\ s.phase # "done"
  BY <1>1
<1> HIDE DEF q
<1>14. LocalInv(cf, r, s, q)
  BY <1>2, <1>3, <1>4, <1>5, <1>9, <1>10, <1>11, <1>12, <1>13, Zenon DEF LocalInv, PointsAre
<1>15. QED
  BY <1>14 DEF s, q

(* The invariant holds when an iteration starts. *)
LEMMA InitIInv == Init => IInv
<1> SUFFICES ASSUME Init PROVE IInv
  OBVIOUS
<1>1. conf \in Configs /\ rank = [r \in Ranks |-> InitRank] /\ pend = [r \in Ranks |-> <<>>]
  BY DEF Init
<1>2. \A r \in Ranks : LocalInv(conf, r, rank[r], pend[r])
  <2>1. \A r \in Ranks : rank[r] = InitRank /\ pend[r] = <<>>
    BY <1>1
  <2>2. QED
    BY <1>1, <2>1, InitLocal, Zenon
<1>3. ASSUME NEW r \in Ranks
      PROVE  /\ ActsOut(conf, r, rank[r], pend[r]) = 0 /\ ActsIn(conf, r, rank[r], pend[r]) = 0
             /\ GradsOut(conf, r, rank[r], pend[r]) = 0 /\ GradsIn(conf, r, rank[r], pend[r]) = 0
  <2>1. rank[r].phase = "first" /\ pend[r] = <<>>
    BY <1>1 DEF InitRank
  <2>2. PointsAre(conf, r, rank[r], 0, 0, 0, 0, 0)
    BY <2>1, Points
  <2>3. ASSUME NEW k, NEW p PROVE One(Has(pend[r], k, p)) = 0
    BY <2>1 DEF Has, One
  <2>4. /\ Left(r = P - 1, 0) = 0 /\ Taken(r = 0, 0) = 0 /\ Left(r = 0, 0) = 0
        /\ Taken(r = P - 1, 0) = 0
    <3>1. (r = P - 1) \in BOOLEAN /\ (r = 0) \in BOOLEAN /\ 0 \in Nat
      OBVIOUS
    <3>2. QED
      BY <3>1, LinkCounts, Zenon
  <2>5. 0 - 0 = 0
    OBVIOUS
  <2>6. QED
    BY <2>2, <2>3, <2>4, <2>5, Zenon DEF PointsAre, ActsOut, ActsIn, GradsOut, GradsIn
<1>4. \A k \in Ranks : Link(conf, k, rank[k], pend[k], rank[NextRank(k)], pend[NextRank(k)])
  BY <1>3, RingFacts, Zenon DEF Link
<1>5. rank = [k \in Ranks |-> rank[k]] /\ pend = [k \in Ranks |-> pend[k]]
  BY <1>1
<1>6. rank \in [Ranks -> LocalType(conf)] /\ pend \in [Ranks -> Seq(AnyOp)]
  BY <1>1, <1>2, <1>5, TypesFromLocal
<1>7. TypeOK
  BY <1>1, <1>6, LocalTypeIsRankType DEF TypeOK, AnyOp
<1>8. QED
  BY <1>2, <1>4, <1>7 DEF IInv

(* Every step keeps the invariant. *)
LEMMA NextIInv == IInv /\ [Next]_vars => IInv'
<1> SUFFICES ASSUME IInv, [Next]_vars PROVE IInv'
  OBVIOUS
<1>1. ASSUME NEW r \in Ranks, Step(r) PROVE IInv'
  <2>1. TypeOK /\ LocalInv(conf, r, rank[r], pend[r])
    BY DEF IInv
  <2>2. Moves(r)
    BY <1>1, <2>1, StepMoves
  <2>3. QED
    BY <2>2, MovesKeepIInv
<1>2. ASSUME NEW i \in Ranks, NEW j \in Ranks, Transfer(i, j) PROVE IInv'
  BY <1>2, TransferDelivers, DeliversKeepsIInv
<1>3. CASE UNCHANGED vars
  <2>1. RankType' = RankType
    BY <1>3 DEF vars, RankType, M, Total
  <2>2. QED
    BY <1>3, <2>1 DEF vars, IInv, TypeOK
<1>4. QED
  BY <1>1, <1>2, <1>3 DEF Next

(* The inductive invariant holds in every reachable state. *)
THEOREM Invariance == Spec => []IInv
BY InitIInv, NextIInv, PTL DEF Spec

-----------------------------------------------------------------------------
(* The tensors of a rank.                                                    *)

(* Where a rank's counters are relative to each other. *)
LEMMA PointOrder ==
  ASSUME NEW cf \in Configs, NEW r \in Ranks, NEW s, NEW q, LocalInv(cf, r, s, q)
  PROVE  /\ FwdDone(cf, r, s) <= FwdAsked(cf, r, s) /\ FwdDone(cf, r, s) <= All(cf)
         /\ FwdSent(cf, r, s) <= FwdDone(cf, r, s)
         /\ FwdDone(cf, r, s) = All(cf) => FwdAsked(cf, r, s) = All(cf)
         /\ BwdDone(cf, r, s) = All(cf) => BwdAsked(cf, r, s) = All(cf)
         /\ cf.forwardOnly => BwdDone(cf, r, s) = 0 /\ BwdAsked(cf, r, s) = 0
<1>1. s \in LocalType(cf) /\ Counter(cf, r, s)
  BY Zenon DEF LocalInv
<1>2. /\ All(cf) \in Nat /\ Warm(cf, r) \in Nat /\ Warm(cf, r) <= All(cf) /\ Warm(cf, r) >= P
      /\ P \in Nat /\ P > 2
  BY AllSize, WarmFacts, SizeFacts
<1>3. s.k \in Nat /\ s.phase \in Phases
  BY <1>1, <1>2, TypeFacts
<1>4. /\ s.phase = "warmup" => s.k <= All(cf) - 1
      /\ s.phase \in {"steady", "steady_bwd"} =>
            s.k <= All(cf) - 1 /\ s.k - Warm(cf, r) < All(cf) /\ s.k - Warm(cf, r) >= 0
      /\ s.phase = "cooldown" => s.k <= All(cf) - 1
      /\ s.phase \in {"steady", "steady_bwd", "last", "cooldown", "launch"} => ~cf.forwardOnly
  BY <1>1, <1>2, <1>3 DEF Counter, LastTurn
<1>5. QED
  BY <1>2, <1>3, <1>4 DEF FwdDone, FwdSent, BwdDone, FwdAsked, BwdAsked, Phases

(* Every input a rank's forward passes used had come out of its link.        *)
Arrived ==
  \A r \in Ranks : Taken(r = 0, FwdDone(conf, r, rank[r])) <= ActsIn(conf, r, rank[r], pend[r])

(* No input is used before it arrived. *)
LEMMA MovesKeepArrived ==
  ASSUME IInv, Arrived, NEW r \in Ranks, Moves(r)
  PROVE  Arrived'
<1>1. /\ conf \in Configs /\ rank \in [Ranks -> LocalType(conf)] /\ pend \in [Ranks -> Seq(AnyOp)]
      /\ LocalInv(conf, r, rank[r], pend[r])
  BY IInvParts
<1>2. conf' = conf
  BY DEF Moves
<1>3. \A k \in Ranks : k # r => rank'[k] = rank[k] /\ pend'[k] = pend[k]
  BY <1>1 DEF Moves
<1>4. Advances(conf, r, rank[r], pend[r], rank'[r], pend'[r])
  BY DEF Moves
<1> DEFINE f == FwdDone(conf, r, rank[r])
           f2 == FwdDone(conf, r, rank'[r])
<1>5. ActsIn(conf, r, rank'[r], pend'[r]) = ActsIn(conf, r, rank[r], pend[r])
  BY <1>4, Zenon DEF Advances
<1>6. Taken(r = 0, f2) <= ActsIn(conf, r, rank'[r], pend'[r])
  <2>1. CASE f2 = f
    BY <1>5, <2>1 DEF Arrived
  <2>2. CASE f2 # f
    <3>1. f2 = f + 1 /\ FwdAsked(conf, r, rank[r]) = f + 1 /\ ~Has(pend[r], "recv", PrevRank(r))
      BY <1>4, <2>2 DEF Advances
    <3>2. One(Has(pend[r], "recv", PrevRank(r))) = 0
      BY <3>1 DEF One
    <3>3. ActsIn(conf, r, rank[r], pend[r]) = Taken(r = 0, f + 1) - 0
      BY <3>1, <3>2 DEF ActsIn
    <3>4. Taken(r = 0, f + 1) \in Nat
      <4>1. f + 1 \in Nat /\ (r = 0) \in BOOLEAN
        BY <1>1, PointTypes
      <4>2. QED
        BY <4>1, LinkCounts, Zenon
    <3>5. \A a \in Nat : a <= a - 0
      OBVIOUS
    <3> HIDE DEF f, f2
    <3>6. QED
      BY <1>5, <3>1, <3>3, <3>4, <3>5
  <2>3. QED
    BY <2>1, <2>2
<1>7. ASSUME NEW k \in Ranks
      PROVE  Taken(k = 0, FwdDone(conf, k, rank'[k])) <= ActsIn(conf, k, rank'[k], pend'[k])
  <2>1. CASE k = r
    BY <1>6, <2>1
  <2>2. CASE k # r
    BY <1>3, <2>2 DEF Arrived
  <2>3. QED
    BY <2>1, <2>2
<1>8. QED
  BY <1>2, <1>7 DEF Arrived

(* A transfer only adds to what arrived. *)
LEMMA DeliversKeepsArrived ==
  ASSUME IInv, Arrived, NEW i \in Ranks, NEW j \in Ranks, Delivers(i, j)
  PROVE  Arrived'
<1>1. /\ conf \in Configs /\ rank \in [Ranks -> LocalType(conf)] /\ pend \in [Ranks -> Seq(AnyOp)]
      /\ \A k \in Ranks : LocalInv(conf, k, rank[k], pend[k])
  BY IInvParts
<1>2. conf' = conf
  BY DEF Delivers
<1>3. ASSUME NEW k \in Ranks
      PROVE  Taken(k = 0, FwdDone(conf, k, rank'[k])) <= ActsIn(conf, k, rank'[k], pend'[k])
  <2>1. FwdDone(conf, k, rank'[k]) = FwdDone(conf, k, rank[k])
    <3>1. CASE k = j
      BY <3>1 DEF Delivers, SamePoint
    <3>2. CASE k # j
      BY <1>1, <3>2 DEF Delivers
    <3>3. QED
      BY <3>1, <3>2
  <2> DEFINE o == One(j = NextRank(i) /\ k = j)
  <2>2. ActsIn(conf, k, rank'[k], pend'[k]) = ActsIn(conf, k, rank[k], pend[k]) + o
    BY DeliversGains DEF Gained
  <2>3. o \in Nat
    BY DEF One
  <2> HIDE DEF o
  <2>4. ActsIn(conf, k, rank[k], pend[k]) \in Int
    BY <1>1, EndsAreInts
  <2>5. Taken(k = 0, FwdDone(conf, k, rank[k])) \in Int
    <3>1. FwdDone(conf, k, rank[k]) \in Nat /\ (k = 0) \in BOOLEAN
      BY <1>1, PointTypes
    <3>2. Taken(k = 0, FwdDone(conf, k, rank[k])) \in Nat
      BY <3>1, LinkCounts, Zenon
    <3>3. QED
      BY <3>2
  <2>6. Taken(k = 0, FwdDone(conf, k, rank[k])) <= ActsIn(conf, k, rank[k], pend[k])
    BY DEF Arrived
  <2>7. QED
    BY <2>1, <2>2, <2>3, <2>4, <2>5, <2>6
<1>4. QED
  BY <1>2, <1>3 DEF Arrived

(* Initially nothing arrived and nothing was used. *)
LEMMA InitIsArrived == Init => Arrived
<1> SUFFICES ASSUME Init, NEW r \in Ranks
             PROVE  Taken(r = 0, FwdDone(conf, r, rank[r])) <= ActsIn(conf, r, rank[r], pend[r])
  BY DEF Arrived
<1>1. rank[r].phase = "first" /\ pend[r] = <<>>
  BY DEF Init, InitRank
<1>2. PointsAre(conf, r, rank[r], 0, 0, 0, 0, 0)
  BY <1>1, Points
<1>3. One(Has(pend[r], "recv", PrevRank(r))) = 0
  BY <1>1 DEF Has, One
<1>4. Taken(r = 0, 0) = 0
  <2>1. (r = 0) \in BOOLEAN /\ 0 \in Nat
    OBVIOUS
  <2>2. QED
    BY <2>1, LinkCounts, Zenon
<1>5. /\ FwdDone(conf, r, rank[r]) = 0
      /\ ActsIn(conf, r, rank[r], pend[r]) = Taken(r = 0, 0) - 0
  BY <1>2, <1>3, Zenon DEF PointsAre, ActsIn
<1>6. QED
  BY <1>4, <1>5

(* Inputs are used after they arrived. *)
THEOREM ArrivedThm == Spec => [](IInv /\ Arrived)
<1>1. Init => IInv /\ Arrived
  BY InitIInv, InitIsArrived
<1>2. (IInv /\ Arrived) /\ [Next]_vars => (IInv /\ Arrived)'
  <2> SUFFICES ASSUME IInv, Arrived, [Next]_vars PROVE Arrived'
    BY NextIInv
  <2>1. ASSUME NEW r \in Ranks, Step(r) PROVE Arrived'
    <3>1. TypeOK /\ LocalInv(conf, r, rank[r], pend[r])
      BY DEF IInv
    <3>2. Moves(r)
      BY <2>1, <3>1, StepMoves
    <3>3. QED
      BY <3>2, MovesKeepArrived
  <2>2. ASSUME NEW i \in Ranks, NEW j \in Ranks, Transfer(i, j) PROVE Arrived'
    BY <2>2, TransferDelivers, DeliversKeepsArrived
  <2>3. CASE UNCHANGED vars
    BY <2>3 DEF vars, Arrived
  <2>4. QED
    BY <2>1, <2>2, <2>3 DEF Next
<1>3. QED
  BY <1>1, <1>2, PTL DEF Spec

EntryIs(list, from, base, upto, hole, over, n) ==
  \/ list[n] = Tensor(from, base + n - 1)
  \/ list[n] = NoTensor /\ over /\ base + n - 1 = upto
  \/ list[n] = Empty /\ hole /\ base + n = upto

(* What an entry of a list is. *)
LEMMA ListEntry ==
  ASSUME NEW list, NEW from, NEW base \in Int, NEW upto \in Int, NEW hole \in BOOLEAN,
         NEW over \in BOOLEAN, ListIs(list, from, base, upto, hole, over), NEW n \in 1 .. Len(list),
         Len(list) \in Nat
  PROVE  EntryIs(list, from, base, upto, hole, over, n)
<1>1. list[n] = Item(from, base, upto, hole, n)
  BY DEF ListIs
<1>2. CASE base + n - 1 = upto
  <2>1. over
    <3>1. Len(list) = upto - base \/ (over /\ Len(list) = upto - base + 1)
      BY DEF ListIs
    <3>2. Len(list) # upto - base
      BY <1>2
    <3>3. QED
      BY <3>1, <3>2
  <2>2. QED
    BY <1>1, <1>2, <2>1 DEF Item, EntryIs
<1>3. CASE base + n - 1 # upto
  BY <1>1, <1>3 DEF Item, EntryIs
<1>4. QED
  BY <1>2, <1>3

(* A list without holes. *)
LEMMA OutputsInOrder ==
  ASSUME IInv, NEW r \in Ranks, NEW c \in Chunks, NEW n \in DOMAIN rank[r].output_tensors[c]
  PROVE  /\ rank[r].output_tensors[c][n].stage = StageOf(r, c)
         /\ rank[r].output_tensors[c][n].mb = Base(conf, rank[r], c) + n - 1
<1> DEFINE s == rank[r]
           list == s.output_tensors[c]
<1>1. conf \in Configs /\ s \in LocalType(conf) /\ Outputs(conf, r, s)
  BY IInvParts DEF LocalInv
<1> HIDE DEF s
<1>2. Base(conf, s, c) \in Int /\ s.drawn[c] \in Int /\ list \in Seq(Tensors)
  <2>1. /\ conf.microbatches \in Nat /\ s.drawn \in [Chunks -> 0 .. conf.microbatches]
        /\ s.output_tensors \in [Chunks -> Seq(Tensors)]
    BY <1>1, ConfFacts, TypeFacts
  <2>2. QED
    BY <1>1, <2>1, BaseFacts
<1>3. ListIs(list, StageOf(r, c), Base(conf, s, c), s.drawn[c], FALSE, FALSE)
  BY <1>1 DEF Outputs, OutputsAre
<1>4. Len(list) \in Nat /\ n \in 1 .. Len(list)
  <2>1. list \in Seq(Tensors) /\ n \in DOMAIN list
    BY <1>2 DEF s
  <2> HIDE DEF list
  <2>2. QED
    BY <2>1
<1> HIDE DEF list
<1>5. list[n] = Tensor(StageOf(r, c), Base(conf, s, c) + n - 1)
  <2>1. FALSE \in BOOLEAN
    OBVIOUS
  <2>2. QED
    BY <1>2, <1>3, <1>4, <2>1, ListEntry DEF EntryIs
<1>6. list[n].stage = StageOf(r, c) /\ list[n].mb = Base(conf, s, c) + n - 1
  BY <1>5 DEF Tensor
<1>7. QED
  BY <1>6 DEF s, list

(* An input that has not arrived is not among those the chunk has used. *)
LEMMA HoleIsAhead ==
  ASSUME IInv, Arrived, NEW r \in Ranks, Has(pend[r], "recv", PrevRank(r))
  PROVE  /\ FwdDone(conf, r, rank[r]) <= FwdAsked(conf, r, rank[r]) - 1
         /\ FwdAsked(conf, r, rank[r]) - 1 \in 0 .. All(conf) - 1
<1> DEFINE s == rank[r]
           q == pend[r]
           f == FwdDone(conf, r, s)
           fa == FwdAsked(conf, r, s)
<1>1. conf \in Configs /\ LocalInv(conf, r, s, q)
  BY IInvParts
<1>2. f \in Nat /\ fa \in Nat /\ f <= fa /\ All(conf) \in Nat
  BY <1>1, PointTypes, PointOrder, AllSize
<1>3. PICK n \in DOMAIN q : q[n].kind = "recv" /\ q[n].peer = PrevRank(r)
  BY DEF Has
<1>4. IsActFrom(conf, r, fa - 1, q[n])
  BY <1>1, <1>3, PostedTo
<1>5. fa - 1 \in 0 .. All(conf) - 1
  BY <1>4 DEF IsActFrom
<1>6. f # fa
  <2>1. Taken(r = 0, f) <= ActsIn(conf, r, s, q)
    BY DEF Arrived
  <2>2. One(Has(q, "recv", PrevRank(r))) = 1
    BY DEF One
  <2>3. ActsIn(conf, r, s, q) = Taken(r = 0, fa) - 1
    BY <2>2 DEF ActsIn
  <2>4. Taken(r = 0, f) \in Nat
    <3>1. (r = 0) \in BOOLEAN
      OBVIOUS
    <3>2. QED
      BY <1>2, <3>1, LinkCounts, Zenon
  <2> HIDE DEF f, fa, s, q
  <2>5. ASSUME f = fa PROVE FALSE
    <3>1. ActsIn(conf, r, s, q) = Taken(r = 0, f) - 1
      BY <2>3, <2>5
    <3>2. QED
      BY <2>1, <2>4, <3>1
  <2>6. QED
    BY <2>5
<1> HIDE DEF f, fa, s, q
<1>7. f <= fa - 1
  BY <1>2, <1>6
<1>8. QED
  BY <1>5, <1>7 DEF f, fa, s

(* The inputs of a chunk. *)
LEMMA InputsInOrder ==
  ASSUME IInv, Arrived, NEW r \in Ranks, NEW c \in Chunks, NEW n \in DOMAIN rank[r].input_tensors[c]
  PROVE  LET t == rank[r].input_tensors[c][n]
         IN  \/ t = NoTensor /\ (FirstStage(r, c) \/ Base(conf, rank[r], c) + n - 1 = conf.microbatches)
             \/ t = Empty /\ n > Len(rank[r].output_tensors[c])
             \/ /\ ~FirstStage(r, c)
                /\ t.stage = StageOf(r, c) - 1 /\ t.mb = Base(conf, rank[r], c) + n - 1
<1> DEFINE s == rank[r]
           q == pend[r]
           list == s.input_tensors[c]
           outs == s.output_tensors[c]
           f == FwdDone(conf, r, s)
           fa == FwdAsked(conf, r, s)
           hole == Has(q, "recv", PrevRank(r)) /\ c = FwdChunk(fa - 1)
           over == f = All(conf)
           base == Base(conf, s, c)
<1>1. /\ conf \in Configs /\ LocalInv(conf, r, s, q) /\ s \in LocalType(conf)
      /\ Inputs(conf, r, s, fa, Has(q, "recv", PrevRank(r)), over) /\ Outputs(conf, r, s)
      /\ Counts(s, f, BwdDone(conf, r, s))
  BY IInvParts, Zenon DEF LocalInv
<1>2. InputList(r, c, list, Len(outs), base, Fwd(c, fa), hole, over)
  BY <1>1 DEF Inputs, InputsAre
<1>3. /\ Has(q, "recv", PrevRank(r)) => f <= fa - 1 /\ fa - 1 \in 0 .. All(conf) - 1
      /\ over => fa = All(conf)
  BY <1>1, HoleIsAhead, PointOrder
<1>h. hole \in BOOLEAN /\ over \in BOOLEAN
  BY DEF Has
<1>4. /\ list \in Seq(Tensors) /\ outs \in Seq(Tensors) /\ n \in DOMAIN list
      /\ s.drawn[c] \in Int /\ base \in Int
  <2>1. /\ conf.microbatches \in Nat /\ s.drawn \in [Chunks -> 0 .. conf.microbatches]
        /\ s.output_tensors \in [Chunks -> Seq(Tensors)]
        /\ s.input_tensors \in [Chunks -> Seq(Tensors)]
    BY <1>1, ConfFacts, TypeFacts
  <2>2. QED
    BY <1>1, <2>1, BaseFacts
<1>5. f \in Nat /\ fa \in Nat /\ Fwd(c, fa) \in Int /\ All(conf) \in Nat /\ Fwd(c, f) \in Int
  <2>1. f \in Nat /\ fa \in Nat
    BY <1>1, PointTypes
  <2>2. Fwd(c, fa) \in Nat /\ Fwd(c, f) \in Nat
    BY <2>1, FwdFacts
  <2>3. QED
    BY <1>1, <2>1, <2>2, AllSize
<1>6. s.drawn[c] = Fwd(c, f)
  BY <1>1 DEF Counts
<1>7. ListIs(outs, StageOf(r, c), base, s.drawn[c], FALSE, FALSE)
  BY <1>1 DEF Outputs, OutputsAre
<1>8. Len(outs) = s.drawn[c] - base
  BY <1>7 DEF ListIs
<1>9. hole => Fwd(c, f) < Fwd(c, fa)
  <2> SUFFICES ASSUME hole PROVE Fwd(c, f) < Fwd(c, fa)
    OBVIOUS
  <2>1. /\ c = FwdChunk(fa - 1) /\ Has(q, "recv", PrevRank(r))
    OBVIOUS
  <2>2. f <= fa - 1 /\ fa - 1 \in 0 .. All(conf) - 1
    BY <1>3, <2>1
  <2>c. c = FwdChunk(fa - 1)
    BY <2>1
  <2> HIDE DEF f, fa, s, q, hole
  <2>3. PICK x \in Nat : x = fa - 1
    BY <1>5, <2>2
  <2>4. x + 1 = fa /\ f <= x /\ x \in 0 .. All(conf) - 1 /\ c = FwdChunk(x)
    BY <1>5, <2>2, <2>c, <2>3
  <2>5. Fwd(c, f) <= Fwd(c, x)
    BY <1>5, <2>4, FwdGrows
  <2>6. Fwd(c, x + 1) = Fwd(c, x) + 1 /\ Fwd(c, x) \in Nat
    BY <1>1, <2>4, PassFacts
  <2>7. QED
    BY <1>5, <2>4, <2>5, <2>6
<1>10. over => Fwd(c, fa) = conf.microbatches
  BY <1>1, <1>3, AllFacts
<1> HIDE DEF s, q, f, fa, list, outs, base, hole, over
<1>11. Len(list) \in Nat /\ Len(outs) \in Nat /\ n \in 1 .. Len(list) /\ n \in Int
  BY <1>4
<1> DEFINE t == list[n]
<1>12. \/ t = NoTensor /\ (FirstStage(r, c) \/ base + n - 1 = conf.microbatches)
       \/ t = Empty /\ n > Len(outs)
       \/ ~FirstStage(r, c) /\ t.stage = StageOf(r, c) - 1 /\ t.mb = base + n - 1
  <2>1. CASE FirstStage(r, c)
    BY <1>2, <1>11, <2>1 DEF InputList
  <2>2. CASE ~FirstStage(r, c)
    <3>1. ListIs(list, StageOf(r, c) - 1, base, Fwd(c, fa), hole, over)
      BY <1>2, <2>2 DEF InputList
    <3>2. \/ t = Tensor(StageOf(r, c) - 1, base + n - 1)
          \/ t = NoTensor /\ over /\ base + n - 1 = Fwd(c, fa)
          \/ t = Empty /\ hole /\ base + n = Fwd(c, fa)
      <4>1. EntryIs(list, StageOf(r, c) - 1, base, Fwd(c, fa), hole, over, n)
        BY <1>h, <1>4, <1>5, <1>11, <3>1, ListEntry, Zenon
      <4>2. QED
        BY <4>1 DEF EntryIs
    <3>3. CASE t = Tensor(StageOf(r, c) - 1, base + n - 1)
      BY <2>2, <3>3 DEF Tensor
    <3>4. CASE t = NoTensor /\ over /\ base + n - 1 = Fwd(c, fa)
      BY <1>10, <3>4
    <3>5. CASE t = Empty /\ hole /\ base + n = Fwd(c, fa)
      <4>1. n > Len(outs)
        BY <1>4, <1>5, <1>6, <1>8, <1>9, <1>11, <3>5
      <4>2. QED
        BY <3>5, <4>1
    <3>6. QED
      BY <3>2, <3>3, <3>4, <3>5
  <2>3. QED
    BY <2>1, <2>2
<1>13. QED
  BY <1>12 DEF t, list, outs, base, s

(* The gradients of a chunk. *)
LEMMA GradsInOrder ==
  ASSUME IInv, NEW r \in Ranks, NEW c \in Chunks, NEW n \in DOMAIN rank[r].output_tensor_grads[c]
  PROVE  LET t == rank[r].output_tensor_grads[c][n]
         IN  \/ t = NoTensor /\ (LastStage(r, c) \/ Base(conf, rank[r], c) + n - 1 = conf.microbatches)
             \/ t = Empty
             \/ /\ ~LastStage(r, c)
                /\ t.stage = StageOf(r, c) + 1 /\ t.mb = Base(conf, rank[r], c) + n - 1
<1> DEFINE s == rank[r]
           q == pend[r]
           list == s.output_tensor_grads[c]
           b == BwdDone(conf, r, s)
           ba == BwdAsked(conf, r, s)
           hole == Has(q, "recv", NextRank(r)) /\ c = BwdChunk(ba - 1)
           over == b = All(conf)
           base == Base(conf, s, c)
<1>1. /\ conf \in Configs /\ LocalInv(conf, r, s, q) /\ s \in LocalType(conf)
      /\ Grads(r, s, ba, Has(q, "recv", NextRank(r)), over)
  BY IInvParts, Zenon DEF LocalInv
<1>2. GradList(r, c, list, s.bwd[c], Bwd(c, ba), hole, over)
  BY <1>1 DEF Grads, GradsAre
<1>c. Counts(s, FwdDone(conf, r, s), b)
  BY <1>1 DEF LocalInv
<1>3. /\ over => ba = All(conf)
      /\ conf.forwardOnly => b = 0 /\ ba = 0
  BY <1>1, PointOrder
<1>h. hole \in BOOLEAN /\ over \in BOOLEAN
  BY DEF Has
<1>4. list \in Seq(Tensors) /\ n \in DOMAIN list /\ s.bwd[c] \in Int /\ base \in Int
  <2>1. s.output_tensor_grads \in [Chunks -> Seq(Tensors)]
    BY <1>1, TypeFacts
  <2>2. QED
    BY <1>1, <2>1, BaseFacts
<1>5. ba \in Nat /\ Bwd(c, ba) \in Int /\ All(conf) \in Nat /\ All(conf) > 0
  <2>1. ba \in Nat
    BY <1>1, PointTypes
  <2>2. Bwd(c, ba) \in Nat
    BY <2>1, BwdFacts
  <2>3. QED
    BY <1>1, <2>1, <2>2, AllSize, SizeFacts
<1>6. over => Bwd(c, ba) = conf.microbatches
  BY <1>1, <1>3, AllFacts
<1>7. ~conf.forwardOnly => base = s.bwd[c]
  BY DEF Base
<1>8. conf.forwardOnly => ~over /\ Bwd(c, ba) = 0 /\ s.bwd[c] = 0
  <2>1. Bwd(c, 0) = 0
    BY BwdFacts
  <2>2. s.bwd[c] = Bwd(c, b)
    BY <1>c DEF Counts
  <2> HIDE DEF b, ba
  <2>3. QED
    BY <1>3, <1>5, <2>1, <2>2
<1> HIDE DEF s, q, b, ba, list, base, hole, over
<1>9. Len(list) \in Nat /\ n \in 1 .. Len(list) /\ n \in Int
  BY <1>4
<1> DEFINE t == list[n]
<1>10. \/ t = NoTensor /\ (LastStage(r, c) \/ base + n - 1 = conf.microbatches)
       \/ t = Empty
       \/ ~LastStage(r, c) /\ t.stage = StageOf(r, c) + 1 /\ t.mb = base + n - 1
  <2>1. CASE LastStage(r, c)
    BY <1>2, <1>9, <2>1 DEF GradList
  <2>2. CASE ~LastStage(r, c)
    <3>1. ListIs(list, StageOf(r, c) + 1, s.bwd[c], Bwd(c, ba), hole, over)
      BY <1>2, <2>2 DEF GradList
    <3>2. ~conf.forwardOnly
      <4>1. ASSUME conf.forwardOnly PROVE Len(list) = 0
        <5>1. Len(list) = Bwd(c, ba) - s.bwd[c]
          BY <1>8, <3>1, <4>1 DEF ListIs
        <5>2. QED
          BY <1>8, <4>1, <5>1
      <4>2. QED
        BY <1>9, <4>1
    <3>3. \/ t = Tensor(StageOf(r, c) + 1, s.bwd[c] + n - 1)
          \/ t = NoTensor /\ over /\ s.bwd[c] + n - 1 = Bwd(c, ba)
          \/ t = Empty /\ hole /\ s.bwd[c] + n = Bwd(c, ba)
      <4>1. EntryIs(list, StageOf(r, c) + 1, s.bwd[c], Bwd(c, ba), hole, over, n)
        BY <1>h, <1>4, <1>5, <1>9, <3>1, ListEntry, Zenon
      <4>2. QED
        BY <4>1 DEF EntryIs
    <3>4. CASE t = Tensor(StageOf(r, c) + 1, s.bwd[c] + n - 1)
      BY <1>7, <2>2, <3>2, <3>4 DEF Tensor
    <3>5. CASE t = NoTensor /\ over /\ s.bwd[c] + n - 1 = Bwd(c, ba)
      BY <1>6, <1>7, <3>2, <3>5
    <3>6. CASE t = Empty
      BY <3>6
    <3>7. QED
      BY <3>3, <3>4, <3>5, <3>6
  <2>3. QED
    BY <2>1, <2>2
<1>11. QED
  BY <1>10 DEF t, list, base, s

(* The invariant is stronger than what is promised of the tensors. *)
LEMMA InvTensors == IInv /\ Arrived => TensorsInOrder
<1> SUFFICES ASSUME IInv, Arrived PROVE TensorsInOrder
  OBVIOUS
<1>1. TypeOK
  BY DEF IInv
<1>2. ASSUME NEW r \in Ranks, NEW c \in Chunks
      PROVE  LET s == rank[r]
                 stage == StageOf(r, c)
                 base == IF conf.forwardOnly THEN s.drawn[c] ELSE s.bwd[c]
                 Is(t, from, n) == t.stage = from /\ t.mb = base + n - 1
             IN  /\ \A n \in DOMAIN s.output_tensors[c] : Is(s.output_tensors[c][n], stage, n)
                 /\ \A n \in DOMAIN s.input_tensors[c] :
                      LET t == s.input_tensors[c][n]
                      IN  \/ t = NoTensor /\ (FirstStage(r, c) \/ base + n - 1 = M)
                          \/ t = Empty /\ n > Len(s.output_tensors[c])
                          \/ ~FirstStage(r, c) /\ Is(t, stage - 1, n)
                 /\ \A n \in DOMAIN s.output_tensor_grads[c] :
                      LET t == s.output_tensor_grads[c][n]
                      IN  \/ t = NoTensor /\ (LastStage(r, c) \/ base + n - 1 = M)
                          \/ t = Empty
                          \/ ~LastStage(r, c) /\ Is(t, stage + 1, n)
  <2> DEFINE s == rank[r]
             base == IF conf.forwardOnly THEN s.drawn[c] ELSE s.bwd[c]
  <2>1. base = Base(conf, s, c)
    BY DEF Base
  <2>2. ASSUME NEW n \in DOMAIN s.output_tensors[c]
        PROVE  /\ s.output_tensors[c][n].stage = StageOf(r, c)
               /\ s.output_tensors[c][n].mb = base + n - 1
    BY <2>1, <2>2, OutputsInOrder
  <2>3. ASSUME NEW n \in DOMAIN s.input_tensors[c]
        PROVE  \/ /\ s.input_tensors[c][n] = NoTensor
                  /\ FirstStage(r, c) \/ base + n - 1 = M
               \/ s.input_tensors[c][n] = Empty /\ n > Len(s.output_tensors[c])
               \/ /\ ~FirstStage(r, c) /\ s.input_tensors[c][n].stage = StageOf(r, c) - 1
                  /\ s.input_tensors[c][n].mb = base + n - 1
    BY <2>1, <2>3, InputsInOrder DEF M
  <2>4. ASSUME NEW n \in DOMAIN s.output_tensor_grads[c]
        PROVE  \/ /\ s.output_tensor_grads[c][n] = NoTensor
                  /\ LastStage(r, c) \/ base + n - 1 = M
               \/ s.output_tensor_grads[c][n] = Empty
               \/ /\ ~LastStage(r, c) /\ s.output_tensor_grads[c][n].stage = StageOf(r, c) + 1
                  /\ s.output_tensor_grads[c][n].mb = base + n - 1
    BY <2>1, <2>4, GradsInOrder DEF M
  <2> HIDE DEF base
  <2>5. QED
    BY <2>2, <2>3, <2>4 DEF base
<1>3. QED
  BY <1>1, <1>2, Zenon DEF TensorsInOrder

(* What a rank receives is put where its next pass needs it, for every       *)
(* number of ranks, chunks and microbatches.                                 *)
THEOREM TensorsInOrderThm == Spec => []TensorsInOrder
BY ArrivedThm, InvTensors, PTL

-----------------------------------------------------------------------------
(* Synchronization.                                                          *)

(* The local invariants are stronger than what is promised of the gradients. *)
LEMMA InvGradSyncs == IInv => GradSyncOnceComplete
<1> SUFFICES ASSUME IInv, NEW r \in Ranks, NEW c \in Chunks
             PROVE  /\ rank[r].grad_syncs[c] \in {<<>>, <<M>>}
                    /\ rank[r].phase = "done" /\ ~conf.forwardOnly => rank[r].grad_syncs[c] = <<M>>
  BY DEF GradSyncOnceComplete
<1>1. IF rank[r].phase = "done" /\ ~conf.forwardOnly THEN AllHanded(conf, rank[r])
      ELSE GradsHanded(conf, r, rank[r], BwdDone(conf, r, rank[r]))
  BY IInvParts, Zenon DEF LocalInv
<1>2. CASE rank[r].phase = "done" /\ ~conf.forwardOnly
  BY <1>1, <1>2 DEF AllHanded, M
<1>3. CASE ~(rank[r].phase = "done" /\ ~conf.forwardOnly)
  BY <1>1, <1>3 DEF GradsHanded, M
<1>4. QED
  BY <1>2, <1>3

(* Chunks run in turn: the chunk before one that has run has run, too. *)
LEMMA ChunkBeforeRan ==
  ASSUME NEW c \in Chunks, c > 1, NEW f \in Nat, NEW r \in Ranks, Fwd(c, f) > 0
  PROVE  Fwd(c - 1, f + r) > 0
<1>1. P \in Nat /\ V \in Nat /\ r \in Nat
  BY SizeFacts DEF Ranks
<1>2. c - 1 \in Chunks /\ (c - 1) + 1 \in Chunks /\ (c - 1) + 1 = c
  BY <1>1 DEF Chunks
<1>3. f + P \in Nat /\ f <= f + P /\ f \in Int /\ f + r \in Nat /\ f <= f + r
  BY <1>1
<1>4. Fwd(c, f) <= Fwd(c, f + P)
  BY <1>3, FwdGrows
<1>5. Fwd(c, f + P) = Fwd(c - 1, f)
  <2> DEFINE d == c - 1
  <2>1. d \in Chunks /\ d + 1 \in Chunks /\ d + 1 = c
    BY <1>2
  <2> HIDE DEF d
  <2>2. Fwd(d + 1, f + P) = Fwd(d, f)
    BY <1>3, <2>1, FwdShift
  <2>3. Fwd(c, f + P) = Fwd(d, f)
    BY <2>1, <2>2
  <2>4. QED
    BY <2>3 DEF d
<1>6. Fwd(c - 1, f) <= Fwd(c - 1, f + r)
  BY <1>2, <1>3, FwdGrows
<1>7. Fwd(c, f) \in Nat /\ Fwd(c - 1, f) \in Nat /\ Fwd(c - 1, f + r) \in Nat
  BY <1>2, <1>3, FwdFacts
<1>8. QED
  BY <1>4, <1>5, <1>6, <1>7

(* And of the parameters. *)
LEMMA InvParamSyncs == IInv => ParamSyncBeforeForward
<1> SUFFICES ASSUME IInv, NEW r \in Ranks, NEW c \in Chunks
             PROVE  /\ rank[r].param_syncs[c] <= 1
                    /\ rank[r].drawn[c] > 0 => rank[r].param_syncs[c] = 1
  BY DEF ParamSyncBeforeForward
<1> DEFINE s == rank[r]
           f == FwdDone(conf, r, s)
<1>1. /\ conf \in Configs /\ LocalInv(conf, r, s, pend[r]) /\ s \in LocalType(conf)
      /\ Counts(s, f, BwdDone(conf, r, s)) /\ ParamsLaunched(r, s, f)
  BY IInvParts, Zenon DEF LocalInv
<1>2. f \in Nat
  BY <1>1, PointTypes
<1>3. s.drawn[c] = Fwd(c, f)
  BY <1>1 DEF Counts
<1>4. s.param_syncs[c] = IF c <= 1 \/ Fwd(c - 1, f + r) > 0 THEN 1 ELSE 0
  BY <1>1 DEF ParamsLaunched
<1>5. c \in Int
  BY SizeFacts DEF Chunks
<1> HIDE DEF f, s
<1>6. s.drawn[c] > 0 => s.param_syncs[c] = 1
  BY <1>2, <1>3, <1>4, <1>5, ChunkBeforeRan
<1>7. s.param_syncs[c] <= 1
  BY <1>4
<1>8. QED
  BY <1>6, <1>7 DEF s

(* Gradients and parameters of every chunk are synchronized once and in time *)
(* on every rank, for every number of ranks, chunks and microbatches.        *)
THEOREM SyncsOnceInTimeThm == Spec => []SyncsOnceInTime
<1>1. IInv => SyncsOnceInTime
  BY InvGradSyncs, InvParamSyncs DEF SyncsOnceInTime
<1>2. QED
  BY <1>1, Invariance, PTL

-----------------------------------------------------------------------------
(* Activations in flight.                                                    *)

(* What a sum over a finite set is computed with. *)
SumIter(f, g) ==
  g = [s \in SUBSET (DOMAIN f) |-> IF s = {} THEN 0
                                   ELSE LET x == CHOOSE x \in s : TRUE IN f[x] + g[s \ {x}]]

(* A total, whichever element is left out first. *)
Totals(f, t) ==
  /\ t[{}] = 0
  /\ \A s \in SUBSET (DOMAIN f) : \A x \in s : t[s] = f[x] + t[s \ {x}]

(* A total is the sum. *)
LEMMA SumIsTotal ==
  ASSUME NEW f, IsFiniteSet(DOMAIN f), NEW t, t = [s \in SUBSET (DOMAIN f) |-> t[s]], Totals(f, t)
  PROVE  SumFunction(f) = t[DOMAIN f]
<1> DEFINE D == DOMAIN f
           g == CHOOSE g : SumIter(f, g)
<1>1. SumFunction(f) = g[D]
  BY DEF SumFunction, SumFunctionOnSet, FoldFunctionOnSet, MapThenFoldSet, SumIter
<1>2. SumIter(f, t)
  <2>1. ASSUME NEW s \in SUBSET D
        PROVE  t[s] = IF s = {} THEN 0 ELSE LET x == CHOOSE x \in s : TRUE IN f[x] + t[s \ {x}]
    <3>1. CASE s = {}
      BY <3>1 DEF Totals
    <3>2. CASE s # {}
      <4> DEFINE x == CHOOSE x \in s : TRUE
      <4>1. x \in s
        BY <3>2
      <4>2. t[s] = f[x] + t[s \ {x}]
        BY <4>1 DEF Totals
      <4>3. QED
        BY <3>2, <4>2
    <3>3. QED
      BY <3>1, <3>2
  <2>2. t = [s \in SUBSET D |-> IF s = {} THEN 0
                                ELSE LET x == CHOOSE x \in s : TRUE IN f[x] + t[s \ {x}]]
    BY <2>1, Zenon
  <2>3. QED
    BY <2>2 DEF SumIter
<1>3. SumIter(f, g)
  BY <1>2
<1> HIDE DEF g
<1> DEFINE T == {n \in Nat : \A s \in SUBSET D : Cardinality(s) = n => g[s] = t[s]}
<1>4. IsFiniteSet(D) /\ \A s \in SUBSET D : IsFiniteSet(s) /\ Cardinality(s) \in Nat
  BY FS_Subset, FS_CardinalityType
<1>5. g[{}] = 0 /\ t[{}] = 0
  <2>1. {} \in SUBSET D
    OBVIOUS
  <2>2. g[{}] = 0
    BY <1>3, <2>1, Zenon DEF SumIter
  <2>3. QED
    BY <2>2 DEF Totals
<1>6. 0 \in T
  <2>1. \A s \in SUBSET D : Cardinality(s) = 0 => s = {}
    BY <1>4, FS_EmptySet
  <2>2. QED
    BY <1>5, <2>1
<1>7. ASSUME NEW n \in Nat, n \in T PROVE n + 1 \in T
  <2>1. ASSUME NEW s \in SUBSET D, Cardinality(s) = n + 1 PROVE g[s] = t[s]
    <3>1. s # {}
      <4>1. Cardinality({}) = 0 /\ n + 1 # 0
        BY FS_EmptySet
      <4>2. QED
        BY <2>1, <4>1
    <3> DEFINE x == CHOOSE x \in s : TRUE
    <3>2. x \in s
      BY <3>1
    <3>3. g[s] = f[x] + g[s \ {x}]
      BY <1>3, <3>1, Zenon DEF SumIter
    <3>4. t[s] = f[x] + t[s \ {x}]
      BY <3>2, Zenon DEF Totals
    <3> HIDE DEF x
    <3>5. Cardinality(s \ {x}) = n
      <4>1. Cardinality(s \ {x}) = Cardinality(s) - 1
        BY <1>4, <3>2, FS_RemoveElement
      <4>2. QED
        BY <2>1, <4>1
    <3>6. s \ {x} \in SUBSET D
      OBVIOUS
    <3>7. g[s \ {x}] = t[s \ {x}]
      BY <1>7, <3>5, <3>6
    <3>8. QED
      BY <3>3, <3>4, <3>7, Zenon
  <2>2. n + 1 \in Nat
    OBVIOUS
  <2>3. QED
    BY <2>1, <2>2, Zenon
<1>8. Nat \subseteq T
  <2> HIDE DEF T
  <2>1. QED
    BY <1>6, <1>7, NatInductionSet
<1>9. g[D] = t[D]
  BY <1>4, <1>8
<1>10. QED
  BY <1>1, <1>9

(* The first x iterations whose chunk is in s, if g gives the chunks. *)
Ran(g, x, s) == {y \in 0 .. x - 1 : g[y] \in s}

Counted(g, x, s, c) ==
  /\ c \in s => Cardinality(Ran(g, x, s))
                  = Cardinality(Ran(g, x, {c})) + Cardinality(Ran(g, x, s \ {c}))
  /\ Cardinality(Ran(g, 0, {c})) = 0
  /\ Cardinality(Ran(g, x + 1, {c})) = Cardinality(Ran(g, x, {c})) + One(c = g[x])

(* They are counted chunk by chunk. *)
LEMMA RanFacts ==
  ASSUME NEW g \in [Nat -> Chunks], NEW x \in Nat
  PROVE  /\ \A s : Cardinality(Ran(g, x, s)) \in Nat
         /\ Cardinality(Ran(g, x, {})) = 0 /\ Cardinality(Ran(g, x, Chunks)) = x
         /\ \A s, c : Counted(g, x, s, c)
<1>1. IsFiniteSet(0 .. x - 1) /\ Cardinality(0 .. x - 1) = x
  <2>1. x - 1 \in Int /\ 0 \in Int
    OBVIOUS
  <2>2. /\ IsFiniteSet(0 .. x - 1)
        /\ Cardinality(0 .. x - 1) = IF 0 > x - 1 THEN 0 ELSE (x - 1) - 0 + 1
    BY <2>1, FS_Interval
  <2>3. QED
    BY <2>2
<1>2. ASSUME NEW s PROVE IsFiniteSet(Ran(g, x, s)) /\ Cardinality(Ran(g, x, s)) \in Nat
  <2>1. Ran(g, x, s) \in SUBSET (0 .. x - 1)
    BY DEF Ran
  <2>2. QED
    BY <1>1, <2>1, FS_Subset, FS_CardinalityType
<1>3. Ran(g, x, {}) = {} /\ \A s : Ran(g, 0, s) = {}
  BY DEF Ran
<1>4. Ran(g, x, Chunks) = 0 .. x - 1
  BY DEF Ran
<1>5. ASSUME NEW s, NEW c \in s
      PROVE  Cardinality(Ran(g, x, s))
               = Cardinality(Ran(g, x, {c})) + Cardinality(Ran(g, x, s \ {c}))
  <2> DEFINE A == Ran(g, x, {c})
             B == Ran(g, x, s \ {c})
  <2>1. Ran(g, x, s) = A \cup B /\ A \cap B = {}
    BY DEF Ran
  <2>2. IsFiniteSet(A) /\ IsFiniteSet(B) /\ Cardinality(A) \in Nat /\ Cardinality(B) \in Nat
    BY <1>2
  <2> HIDE DEF A, B
  <2>3. Cardinality(A \cup B) = Cardinality(A) + Cardinality(B) - Cardinality(A \cap B)
    BY <2>2, FS_Union
  <2>4. Cardinality({}) = 0
    BY FS_EmptySet
  <2>5. Cardinality(A \cup B) = Cardinality(A) + Cardinality(B)
    <3>1. Cardinality(A \cap B) = 0
      BY <2>1, <2>4
    <3>2. PICK a \in Nat, b \in Nat : a = Cardinality(A) /\ b = Cardinality(B)
      BY <2>2
    <3>3. Cardinality(A \cup B) = a + b - 0
      BY <2>3, <3>1, <3>2, Zenon
    <3>4. a + b - 0 = a + b
      OBVIOUS
    <3>5. QED
      BY <3>2, <3>3, <3>4, Zenon
  <2>6. QED
    BY <2>1, <2>5 DEF A, B
<1>6. ASSUME NEW c
      PROVE  Cardinality(Ran(g, x + 1, {c})) = Cardinality(Ran(g, x, {c})) + One(c = g[x])
  <2>1. 0 .. (x + 1) - 1 = (0 .. x - 1) \cup {x} /\ x \notin 0 .. x - 1
    OBVIOUS
  <2>2. CASE c = g[x]
    <3>1. Ran(g, x + 1, {c}) = Ran(g, x, {c}) \cup {x} /\ x \notin Ran(g, x, {c})
      BY <2>1, <2>2 DEF Ran
    <3>2. Cardinality(Ran(g, x, {c}) \cup {x}) = Cardinality(Ran(g, x, {c})) + 1
      BY <1>2, <3>1, FS_AddElement
    <3>3. QED
      BY <2>2, <3>1, <3>2 DEF One
  <2>3. CASE c # g[x]
    <3>1. Ran(g, x + 1, {c}) = Ran(g, x, {c})
      BY <2>1, <2>3 DEF Ran
    <3>2. One(c = g[x]) = 0
      BY <2>3 DEF One
    <3>3. QED
      BY <1>2, <3>1, <3>2
  <2>4. QED
    BY <2>2, <2>3
<1>7. Cardinality({}) = 0
  BY FS_EmptySet
<1>8. /\ \A s : Cardinality(Ran(g, x, s)) \in Nat
      /\ Cardinality(Ran(g, x, {})) = 0 /\ Cardinality(Ran(g, x, Chunks)) = x
      /\ \A c : Cardinality(Ran(g, 0, {c})) = 0
  BY <1>1, <1>2, <1>3, <1>4, <1>7
<1>9. \A s, c : Counted(g, x, s, c)
  BY <1>5, <1>6, <1>8, Zenon DEF Counted
<1>10. QED
  BY <1>8, <1>9

(* The chunks of the iterations. *)
FwdTurns == [y \in Nat |-> FwdChunk(y)]
BwdTurns == [y \in Nat |-> BwdChunk(y)]

(* So many passes of a chunk did the first iterations run. *)
LEMMA RanIsCount ==
  ASSUME NEW c \in Chunks, NEW x \in Nat
  PROVE  /\ Cardinality(Ran(FwdTurns, x, {c})) = Fwd(c, x)
         /\ Cardinality(Ran(BwdTurns, x, {c})) = Bwd(c, x)
<1>1. FwdTurns \in [Nat -> Chunks] /\ BwdTurns \in [Nat -> Chunks]
  BY ChunkFacts DEF FwdTurns, BwdTurns
<1> DEFINE T == {n \in Nat : /\ Cardinality(Ran(FwdTurns, n, {c})) = Fwd(c, n)
                             /\ Cardinality(Ran(BwdTurns, n, {c})) = Bwd(c, n)}
<1>c. \A n \in Nat : Counted(FwdTurns, n, {c}, c) /\ Counted(BwdTurns, n, {c}, c)
  BY <1>1, RanFacts
<1>2. 0 \in T
  <2>1. Cardinality(Ran(FwdTurns, 0, {c})) = 0 /\ Cardinality(Ran(BwdTurns, 0, {c})) = 0
    BY <1>c, Zenon DEF Counted
  <2>2. Fwd(c, 0) = 0 /\ Bwd(c, 0) = 0
    BY FwdFacts, BwdFacts
  <2>3. QED
    BY <2>1, <2>2
<1>3. ASSUME NEW n \in Nat, n \in T PROVE n + 1 \in T
  <2>1. /\ Cardinality(Ran(FwdTurns, n + 1, {c}))
             = Cardinality(Ran(FwdTurns, n, {c})) + One(c = FwdTurns[n])
        /\ Cardinality(Ran(BwdTurns, n + 1, {c}))
             = Cardinality(Ran(BwdTurns, n, {c})) + One(c = BwdTurns[n])
    BY <1>c DEF Counted
  <2>2. FwdTurns[n] = FwdChunk(n) /\ BwdTurns[n] = BwdChunk(n)
    BY DEF FwdTurns, BwdTurns
  <2>3. Fwd(c, n + 1) = Fwd(c, n) + One(c = FwdChunk(n))
    BY FwdStep
  <2>4. Bwd(c, n + 1) = Bwd(c, n) + One(c = BwdChunk(n))
    BY BwdFacts
  <2>5. /\ Cardinality(Ran(FwdTurns, n, {c})) = Fwd(c, n)
        /\ Cardinality(Ran(BwdTurns, n, {c})) = Bwd(c, n)
    BY <1>3
  <2>6. QED
    BY <2>1, <2>2, <2>3, <2>4, <2>5
<1>4. Nat \subseteq T
  <2> HIDE DEF T
  <2>1. QED
    BY <1>2, <1>3, NatInductionSet
<1>5. QED
  BY <1>4

(* The window of a rank. *)
LEMMA WindowFacts ==
  ASSUME NEW r \in Ranks, NEW s, NEW q, LocalInv(conf, r, s, q), conf \in Configs, ~conf.forwardOnly
  PROVE  FwdDone(conf, r, s) - BwdDone(conf, r, s) <= MaxOutstanding(r)
<1>1. s \in LocalType(conf) /\ Counter(conf, r, s)
  BY Zenon DEF LocalInv
<1>2. /\ All(conf) \in Nat /\ Warm(conf, r) \in Nat /\ Warm(conf, r) <= All(conf)
      /\ P \in Nat /\ V \in Nat
  BY AllSize, WarmFacts, SizeFacts
<1>3. s.k \in Nat /\ s.phase \in Phases
  BY <1>1, <1>2, TypeFacts
<1>4. MaxOutstanding(r) = IF conf.microbatches = P THEN All(conf)
                          ELSE 2 * (P - 1 - r) + (V - 1) * P + 1
  BY DEF MaxOutstanding, M, Total, All
<1>5. CASE conf.microbatches = P
  <2>1. FwdDone(conf, r, s) <= All(conf) /\ FwdDone(conf, r, s) \in Nat /\ BwdDone(conf, r, s) \in Nat
    BY PointTypes, PointOrder
  <2>2. QED
    BY <1>2, <1>4, <1>5, <2>1
<1>6. CASE conf.microbatches # P
  <2>1. ~LastTurn(conf)
    BY <1>6 DEF LastTurn
  <2>2. Warm(conf, r) = (P - r - 1) * 2 + (V - 1) * P
    BY <2>1, WarmFacts
  <2>3. PICK e \in Nat : e = (V - 1) * P
    BY <1>2, SizeFacts
  <2>4. Warm(conf, r) + 1 = MaxOutstanding(r)
    <3>1. r \in Nat
      BY DEF Ranks
    <3>2. QED
      BY <1>2, <1>4, <1>6, <2>2, <2>3, <3>1
  <2>5. /\ s.phase = "warmup" => s.k <= Warm(conf, r) - 1
        /\ s.phase = "cooldown" => s.k >= All(conf) - Warm(conf, r)
        /\ s.phase # "last"
    BY <1>1, <1>2, <1>3, <2>1 DEF Counter
  <2>6. FwdDone(conf, r, s) - BwdDone(conf, r, s) <= Warm(conf, r) + 1
    BY <1>2, <1>3, <2>5 DEF FwdDone, BwdDone, Phases
  <2>7. QED
    BY <2>4, <2>6
<1>7. QED
  BY <1>5, <1>6

(* The invariant bounds the activations a rank keeps. *)
LEMMA InvInFlight == IInv => ActivationsInFlight
<1> SUFFICES ASSUME IInv, NEW r \in Ranks
             PROVE  SumFunction([c \in Chunks |-> Len(rank[r].output_tensors[c])])
                      <= MaxOutstanding(r)
  BY DEF ActivationsInFlight
<1> DEFINE s == rank[r]
           f == FwdDone(conf, r, s)
           b == BwdDone(conf, r, s)
           lens == [c \in Chunks |-> Len(s.output_tensors[c])]
<1>1. /\ conf \in Configs /\ LocalInv(conf, r, s, pend[r])
      /\ Counts(s, f, b) /\ Outputs(conf, r, s)
  BY IInvParts, Zenon DEF LocalInv
<1>2. f \in Nat /\ b \in Nat
  BY <1>1, PointTypes
<1>3. \A c \in Chunks : lens[c] = s.drawn[c] - Base(conf, s, c)
  BY <1>1 DEF Outputs, OutputsAre, ListIs
<1>4. \A c \in Chunks : s.drawn[c] = Fwd(c, f) /\ s.bwd[c] = Bwd(c, b)
  BY <1>1 DEF Counts
<1>5. DOMAIN lens = Chunks /\ IsFiniteSet(Chunks)
  <2>1. 0 \in Int /\ V - 1 \in Int
    BY SizeFacts
  <2>2. QED
    BY <2>1, FS_Interval DEF Chunks
<1>6. \A c \in Chunks : Fwd(c, f) \in Nat /\ Bwd(c, b) \in Nat
  BY <1>2, FwdFacts, BwdFacts
<1>7. ~conf.forwardOnly => f - b <= MaxOutstanding(r)
  BY <1>1, WindowFacts
<1> HIDE DEF f, b, s
<1>8. CASE conf.forwardOnly
  <2> DEFINE t == [u \in SUBSET Chunks |-> 0]
  <2>1. \A c \in Chunks : lens[c] = 0
    BY <1>3, <1>4, <1>6, <1>8 DEF Base
  <2> HIDE DEF lens
  <2>2. Totals(lens, t)
    <3>1. t[{}] = 0
      OBVIOUS
    <3>2. ASSUME NEW u \in SUBSET Chunks, NEW x \in u PROVE t[u] = lens[x] + t[u \ {x}]
      <4>1. lens[x] = 0 /\ t[u] = 0 /\ t[u \ {x}] = 0
        BY <2>1
      <4>2. QED
        BY <4>1
    <3> HIDE DEF t
    <3>3. QED
      BY <1>5, <3>1, <3>2 DEF Totals
  <2>3. t = [u \in SUBSET (DOMAIN lens) |-> t[u]]
    BY <1>5
  <2>4. t[DOMAIN lens] = 0
    BY <1>5
  <2>5. SumFunction(lens) = t[DOMAIN lens]
    <3> HIDE DEF t
    <3>1. QED
      BY <1>5, <2>2, <2>3, SumIsTotal
  <2>6. MaxOutstanding(r) = 0
    BY <1>8 DEF MaxOutstanding
  <2>7. QED
    BY <2>4, <2>5, <2>6 DEF lens, s
<1>9. CASE ~conf.forwardOnly
  <2> DEFINE a(u) == Cardinality(Ran(FwdTurns, f, u))
             z(u) == Cardinality(Ran(BwdTurns, b, u))
             t == [u \in SUBSET Chunks |-> a(u) - z(u)]
  <2>1. FwdTurns \in [Nat -> Chunks] /\ BwdTurns \in [Nat -> Chunks]
    BY ChunkFacts DEF FwdTurns, BwdTurns
  <2>2. \A u : a(u) \in Nat /\ z(u) \in Nat
    BY <1>2, <2>1, RanFacts
  <2>3. a({}) = 0 /\ z({}) = 0 /\ a(Chunks) = f /\ z(Chunks) = b
    BY <1>2, <2>1, RanFacts
  <2>4. \A u : \A c \in u : a(u) = a({c}) + a(u \ {c}) /\ z(u) = z({c}) + z(u \ {c})
    <3>1. \A u, c : Counted(FwdTurns, f, u, c) /\ Counted(BwdTurns, b, u, c)
      BY <1>2, <2>1, RanFacts, Zenon
    <3>2. QED
      BY <3>1, Zenon DEF Counted
  <2>5. \A c \in Chunks : lens[c] = a({c}) - z({c})
    BY <1>2, <1>3, <1>4, <1>9, RanIsCount DEF Base
  <2> HIDE DEF lens, a, z
  <2>6. Totals(lens, t)
    <3>1. t[{}] = 0
      BY <2>3
    <3>2. ASSUME NEW u \in SUBSET Chunks, NEW x \in u PROVE t[u] = lens[x] + t[u \ {x}]
      <4>1. /\ t[u] = a(u) - z(u) /\ t[u \ {x}] = a(u \ {x}) - z(u \ {x})
            /\ lens[x] = a({x}) - z({x})
        BY <2>5
      <4>2. /\ a(u) = a({x}) + a(u \ {x}) /\ z(u) = z({x}) + z(u \ {x})
            /\ a({x}) \in Nat /\ z({x}) \in Nat /\ a(u \ {x}) \in Nat /\ z(u \ {x}) \in Nat
        BY <2>2, <2>4
      <4>3. QED
        BY <4>1, <4>2
    <3> HIDE DEF t
    <3>3. QED
      BY <1>5, <3>1, <3>2 DEF Totals
  <2>7. t = [u \in SUBSET (DOMAIN lens) |-> t[u]]
    BY <1>5
  <2>8. t[DOMAIN lens] = f - b
    BY <1>5, <2>3
  <2>9. SumFunction(lens) = t[DOMAIN lens]
    <3> HIDE DEF t
    <3>1. QED
      BY <1>5, <2>6, <2>7, SumIsTotal
  <2>10. SumFunction(lens) <= MaxOutstanding(r)
    BY <1>7, <1>9, <2>8, <2>9
  <2>11. QED
    BY <2>10 DEF lens, s
<1>10. QED
  BY <1>8, <1>9

(* A rank never keeps more activations than its own window of the pipeline. *)
THEOREM ActivationsInFlightThm == Spec => []ActivationsInFlight
BY Invariance, InvInFlight, PTL

-----------------------------------------------------------------------------
(* The refinement of PipelineOrder.                                          *)

(* A virtual stage is a rank and a chunk. *)
LEMMA StageFacts ==
  /\ StageIds = 0 .. P * V - 1 /\ P * V \in Nat /\ P * V > 2
  /\ \A s \in StageIds : RankAt(s) \in Ranks /\ ChunkAt(s) \in Chunks
                         /\ s = StageOf(RankAt(s), ChunkAt(s))
  /\ \A r \in Ranks, c \in Chunks : /\ StageOf(r, c) \in StageIds
                                    /\ RankAt(StageOf(r, c)) = r /\ ChunkAt(StageOf(r, c)) = c
<1>1. P \in Nat /\ P > 2 /\ V \in Nat /\ V > 1 /\ P * V \in Nat /\ P * V > 2
  <2>1. P \in Nat /\ P > 2 /\ V \in Nat /\ V > 1 /\ P * V \in Nat /\ P * V > P
    BY SizeFacts DEF W
  <2>2. QED
    BY <2>1
<1>2. ASSUME NEW r \in Ranks, NEW c \in Chunks
      PROVE  /\ StageOf(r, c) \in StageIds
             /\ RankAt(StageOf(r, c)) = r /\ ChunkAt(StageOf(r, c)) = c
  <2>1. r \in 0 .. P - 1 /\ c \in 0 .. V - 1
    BY DEF Ranks, Chunks
  <2>2. Digits(StageOf(r, c), P, c, r)
    <3>1. c * P + r = P * c + r
      BY <1>1, <2>1
    <3>2. QED
      BY <1>1, <2>1, <3>1 DEF StageOf, Digits
  <2>3. StageOf(r, c) % P = r /\ StageOf(r, c) \div P = c
    BY <2>2, DivUnique
  <2>4. StageOf(r, c) \in 0 .. P * V - 1
    <3>1. PICK e \in Nat : e = (V - 1) - c
      BY <1>1, <2>1
    <3>2. c * P + r + 1 + ((P - 1 - r) + e * P) = P * V /\ e * P \in Nat /\ c * P \in Nat
      <4>1. V = c + 1 + e
        BY <1>1, <2>1, <3>1
      <4>2. PICK m \in Nat, n \in Nat : m = c * P /\ n = e * P
        BY <1>1, <2>1
      <4>3. P * V = m + P + n
        <5>1. P * (c + 1 + e) = c * P + P + e * P
          BY <1>1, <2>1
        <5>2. QED
          BY <4>1, <4>2, <5>1
      <4>4. QED
        BY <1>1, <2>1, <4>2, <4>3
    <3>3. QED
      BY <1>1, <2>1, <3>2 DEF StageOf
  <2>5. QED
    BY <2>3, <2>4 DEF RankAt, ChunkAt, StageIds
<1>3. ASSUME NEW s \in StageIds
      PROVE  RankAt(s) \in Ranks /\ ChunkAt(s) \in Chunks /\ s = StageOf(RankAt(s), ChunkAt(s))
  <2>1. s \in 0 .. P * V - 1
    BY DEF StageIds
  <2>2. PICK a, b : a = s \div P /\ b = s % P
    OBVIOUS
  <2>3. a \in Int /\ b \in 0 .. P - 1 /\ s = P * a + b
    BY <1>1, <2>1, <2>2
  <2>4. a >= 0 /\ a <= V - 1
    <3>1. ASSUME a < 0 PROVE FALSE
      <4>1. P * a <= -P
        BY <1>1, <2>3, <3>1
      <4>2. QED
        BY <1>1, <2>1, <2>3, <4>1
    <3>2. ASSUME a > V - 1 PROVE FALSE
      <4>1. P * a >= P * V
        BY <1>1, <2>3, <3>2
      <4>2. QED
        BY <1>1, <2>1, <2>3, <4>1
    <3>3. QED
      BY <1>1, <2>3, <3>1, <3>2
  <2>5. s = a * P + b
    BY <1>1, <2>3
  <2>6. QED
    BY <2>2, <2>3, <2>4, <2>5 DEF RankAt, ChunkAt, StageOf, Ranks, Chunks
<1>4. QED
  BY <1>1, <1>2, <1>3 DEF StageIds

(* The stages next to a stage. *)
LEMMA StageNeighbours ==
  ASSUME NEW r \in Ranks, NEW c \in Chunks
  PROVE  /\ ~FirstStage(r, c) => /\ c - One(r = 0) \in Chunks
                                 /\ StageOf(r, c) - 1 = StageOf(PrevRank(r), c - One(r = 0))
         /\ ~LastStage(r, c) => /\ c + One(r = P - 1) \in Chunks
                                /\ StageOf(r, c) + 1 = StageOf(NextRank(r), c + One(r = P - 1))
         /\ StageOf(r, c) = 0 <=> FirstStage(r, c)
         /\ StageOf(r, c) = P * V - 1 <=> LastStage(r, c)
<1>1. P \in Nat /\ P > 2 /\ V \in Nat /\ V > 1 /\ r \in 0 .. P - 1 /\ c \in 0 .. V - 1
  BY SizeFacts DEF Ranks, Chunks
<1>2. ASSUME ~FirstStage(r, c)
      PROVE  /\ c - One(r = 0) \in Chunks
             /\ StageOf(r, c) - 1 = StageOf(PrevRank(r), c - One(r = 0))
  <2>1. CASE r = 0
    <3>1. c - 1 \in Chunks /\ PrevRank(r) = P - 1
      BY <1>1, <1>2, <2>1, RingFacts DEF FirstStage, Chunks
    <3>2. (c * P + r) - 1 = (c - 1) * P + (P - 1)
      BY <1>1, <2>1
    <3>3. One(r = 0) = 1
      BY <2>1 DEF One
    <3>4. StageOf(r, c) - 1 = StageOf(PrevRank(r), c - 1)
      BY <3>1, <3>2, Zenon DEF StageOf
    <3>5. QED
      BY <3>1, <3>3, <3>4, Zenon
  <2>2. CASE r # 0
    <3>1. PrevRank(r) = r - 1 /\ c - 0 = c
      BY <1>1, <2>2, RingFacts
    <3>2. (c * P + r) - 1 = (c - 0) * P + (r - 1)
      BY <1>1
    <3>3. One(r = 0) = 0
      BY <2>2 DEF One
    <3>4. StageOf(r, c) - 1 = StageOf(PrevRank(r), c - 0)
      BY <3>1, <3>2, Zenon DEF StageOf
    <3>5. QED
      BY <3>1, <3>3, <3>4, Zenon
  <2>3. QED
    BY <2>1, <2>2
<1>3. ASSUME ~LastStage(r, c)
      PROVE  /\ c + One(r = P - 1) \in Chunks
             /\ StageOf(r, c) + 1 = StageOf(NextRank(r), c + One(r = P - 1))
  <2>1. CASE r = P - 1
    <3>1. c + 1 \in Chunks /\ NextRank(r) = 0
      BY <1>1, <1>3, <2>1, RingFacts DEF LastStage, Chunks
    <3>2. c * P + r + 1 = (c + 1) * P + 0
      BY <1>1, <2>1
    <3>3. One(r = P - 1) = 1
      BY <2>1 DEF One
    <3>4. StageOf(r, c) + 1 = StageOf(NextRank(r), c + 1)
      BY <3>1, <3>2, Zenon DEF StageOf
    <3>5. QED
      BY <3>1, <3>3, <3>4, Zenon
  <2>2. CASE r # P - 1
    <3>1. NextRank(r) = r + 1 /\ c + 0 = c
      BY <1>1, <2>2, RingFacts
    <3>2. c * P + r + 1 = c * P + (r + 1)
      BY <1>1
    <3>3. One(r = P - 1) = 0
      BY <2>2 DEF One
    <3>4. StageOf(r, c) + 1 = StageOf(NextRank(r), c + 0)
      BY <3>1, <3>2, Zenon DEF StageOf
    <3>5. QED
      BY <3>1, <3>3, <3>4, Zenon
  <2>3. QED
    BY <2>1, <2>2
<1>4. StageOf(r, c) = 0 <=> FirstStage(r, c)
  <2>1. Digits(0, P, 0, 0) /\ Digits(StageOf(r, c), P, c, r)
    <3>1. c * P + r = P * c + r /\ 0 = P * 0 + 0
      BY <1>1
    <3>2. QED
      BY <1>1, <3>1 DEF StageOf, Digits
  <2>2. /\ 0 \div P = 0 /\ 0 % P = 0
        /\ StageOf(r, c) \div P = c /\ StageOf(r, c) % P = r
    BY <2>1, DivUnique
  <2>3. StageOf(r, c) = 0 => r = 0 /\ c = 0
    BY <2>2
  <2>4. r = 0 /\ c = 0 => StageOf(r, c) = 0
    BY <1>1 DEF StageOf
  <2>5. QED
    BY <2>3, <2>4 DEF FirstStage
<1>5. StageOf(r, c) = P * V - 1 <=> LastStage(r, c)
  <2>1. Digits(P * V - 1, P, V - 1, P - 1) /\ Digits(StageOf(r, c), P, c, r)
    <3>1. c * P + r = P * c + r /\ P * V - 1 = P * (V - 1) + (P - 1)
      BY <1>1
    <3>2. QED
      BY <1>1, <3>1 DEF StageOf, Digits
  <2>2. /\ (P * V - 1) \div P = V - 1 /\ (P * V - 1) % P = P - 1
        /\ StageOf(r, c) \div P = c /\ StageOf(r, c) % P = r
    BY <2>1, DivUnique
  <2>3. StageOf(r, c) = P * V - 1 => r = P - 1 /\ c = V - 1
    BY <2>2
  <2>4. r = P - 1 /\ c = V - 1 => StageOf(r, c) = P * V - 1
    <3>1. (V - 1) * P + (P - 1) = P * V - 1
      BY <1>1
    <3>2. QED
      BY <3>1 DEF StageOf
  <2>5. QED
    BY <2>3, <2>4 DEF LastStage
<1>6. QED
  BY <1>2, <1>3, <1>4, <1>5

(* A pass whose input arrived: its neighbour had run the one before. *)
LEMMA PassBefore ==
  ASSUME NEW end \in BOOLEAN, NEW y \in Nat, NEW g \in Nat, ~(end /\ FwdChunk(y) = 0),
         Taken(end, y + 1) <= Left(end, g)
  PROVE  \E d \in Chunks : FwdChunk(y) = d + One(end) /\ Fwd(d, g) > Fwd(FwdChunk(y), y)
<1>1. PICK x \in Nat : /\ Meets(end, x, y) /\ ~(end /\ FwdChunk(x) = V - 1)
                       /\ Left(end, x) = Taken(end, y)
  BY TakenIsLeft
<1>2. /\ Left(end, x) \in Nat /\ Left(end, x + 1) = Left(end, x) + One(~(end /\ FwdChunk(x) = V - 1))
      /\ Taken(end, y) \in Nat /\ Taken(end, y + 1) = Taken(end, y) + One(~(end /\ FwdChunk(y) = 0))
      /\ Left(end, g) \in Nat
  BY LinkCounts, Zenon
<1>3. One(~(end /\ FwdChunk(x) = V - 1)) = 1 /\ One(~(end /\ FwdChunk(y) = 0)) = 1
  BY <1>1 DEF One
<1>4. Left(end, x + 1) = Taken(end, y + 1) /\ Left(end, g) >= Left(end, x) + 1
  BY <1>1, <1>2, <1>3
<1>5. /\ Fwd(FwdChunk(y), y) = Fwd(FwdChunk(x), x)
      /\ FwdChunk(y) = FwdChunk(x) + One(end)
  BY <1>1, <1>4, PassesMeet, Zenon
<1>6. g > x
  <2>1. ASSUME g <= x PROVE Left(end, g) <= Left(end, x)
    BY <2>1, LinkGrows, Zenon
  <2>2. QED
    BY <1>2, <1>4, <2>1
<1> DEFINE d == FwdChunk(x)
<1>7. d \in Chunks /\ x \in Int
  BY ChunkFacts
<1>8. Fwd(d, x + 1) = Fwd(d, x) + 1
  <2>1. Fwd(d, x + 1) = Fwd(d, x) + One(d = FwdChunk(x))
    BY <1>7, FwdStep
  <2>2. QED
    BY <2>1 DEF One
<1>9. x + 1 \in Nat /\ x + 1 <= g
  BY <1>6
<1> HIDE DEF d
<1>10. Fwd(d, x + 1) <= Fwd(d, g)
  BY <1>7, <1>9, FwdGrows
<1>11. Fwd(d, x) \in Nat /\ Fwd(d, g) \in Nat
  BY <1>7, FwdFacts
<1>12. Fwd(d, g) > Fwd(d, x)
  BY <1>8, <1>10, <1>11
<1>13. QED
  BY <1>5, <1>7, <1>12 DEF d

(* A forward pass runs after the one of the stage before it. *)
LEMMA ForwardAfter ==
  ASSUME IInv, NEW r \in Ranks, NEW f \in Nat, f = FwdDone(conf, r, rank[r]),
         FwdAsked(conf, r, rank[r]) = f + 1, ~Has(pend[r], "recv", PrevRank(r)),
         ~FirstStage(r, FwdChunk(f))
  PROVE  rank[PrevRank(r)].drawn[FwdChunk(f) - One(r = 0)] > rank[r].drawn[FwdChunk(f)]
<1> DEFINE p == PrevRank(r)
           g == FwdDone(conf, p, rank[p])
           fs == FwdSent(conf, p, rank[p])
<1>1. p \in Ranks /\ NextRank(p) = r /\ (p = P - 1 <=> r = 0)
  <2>1. PrevRank(r) = (IF r = 0 THEN P - 1 ELSE r - 1)
    BY RingFacts
  <2>2. QED
    BY <2>1, RingFacts, SizeFacts DEF Ranks
<1>2. /\ conf \in Configs
      /\ LocalInv(conf, r, rank[r], pend[r]) /\ LocalInv(conf, p, rank[p], pend[p])
      /\ ActsOut(conf, p, rank[p], pend[p]) = ActsIn(conf, r, rank[r], pend[r])
  BY <1>1, IInvParts, Zenon DEF Link
<1>3. PICK end \in BOOLEAN : end = (r = 0)
  OBVIOUS
<1>4. (p = P - 1) = end
  BY <1>1, <1>3
<1>5. f \in Nat /\ g \in Nat /\ fs \in Nat /\ fs <= g
  BY <1>1, <1>2, PointTypes, PointOrder
<1>6. ActsIn(conf, r, rank[r], pend[r]) = Taken(end, f + 1) - 0
  <2>1. One(Has(pend[r], "recv", PrevRank(r))) = 0
    BY DEF One
  <2>2. QED
    BY <1>3, <2>1 DEF ActsIn
<1>7. \/ ActsOut(conf, p, rank[p], pend[p]) = Left(end, fs) - 0
      \/ ActsOut(conf, p, rank[p], pend[p]) = Left(end, fs) - 1
  <2>1. \/ One(Has(pend[p], "send", NextRank(p))) = 0 \/ One(Has(pend[p], "send", NextRank(p))) = 1
    BY DEF One
  <2>2. QED
    BY <1>4, <2>1, Zenon DEF ActsOut
<1> HIDE DEF p, g, fs
<1>8. Left(end, fs) <= Left(end, g) /\ Left(end, fs) \in Nat /\ Left(end, g) \in Nat
  BY <1>5, LinkGrows, LinkCounts, Zenon
<1>9. f + 1 \in Nat /\ Taken(end, f + 1) \in Nat
  <2>1. f + 1 \in Nat
    BY <1>5
  <2>2. QED
    BY <2>1, LinkCounts, Zenon
<1>10. Taken(end, f + 1) <= Left(end, g)
  BY <1>2, <1>6, <1>7, <1>8, <1>9
<1>11. ~(end /\ FwdChunk(f) = 0)
  BY <1>3 DEF FirstStage
<1>12. PICK d \in Chunks : FwdChunk(f) = d + One(end) /\ Fwd(d, g) > Fwd(FwdChunk(f), f)
  BY <1>5, <1>10, <1>11, PassBefore, Zenon
<1>13. FwdChunk(f) - One(r = 0) = d
  <2>1. FwdChunk(f) = d + One(r = 0)
    BY <1>3, <1>12, Zenon
  <2>2. One(r = 0) \in Int /\ d \in Int
    BY SizeFacts DEF One, Chunks
  <2>3. QED
    BY <2>1, <2>2
<1>14. rank[p].drawn[d] = Fwd(d, g)
  <2>1. Counts(rank[p], g, BwdDone(conf, p, rank[p]))
    BY <1>2, Zenon DEF LocalInv, g
  <2>2. QED
    BY <2>1 DEF Counts
<1>15. rank[r].drawn[FwdChunk(f)] = Fwd(FwdChunk(f), f)
  <2>1. Counts(rank[r], f, BwdDone(conf, r, rank[r]))
    BY <1>2, Zenon DEF LocalInv
  <2>2. FwdChunk(f) \in Chunks
    BY ChunkFacts
  <2>3. QED
    BY <2>1, <2>2 DEF Counts
<1>16. QED
  BY <1>12, <1>13, <1>14, <1>15 DEF p

(* A backward pass runs after the one of the stage behind it. *)
LEMMA BackwardAfter ==
  ASSUME IInv, NEW r \in Ranks, NEW b \in Nat, b = BwdDone(conf, r, rank[r]),
         BwdAsked(conf, r, rank[r]) = b + 1, ~Has(pend[r], "recv", NextRank(r)),
         ~LastStage(r, BwdChunk(b))
  PROVE  rank[NextRank(r)].bwd[BwdChunk(b) + One(r = P - 1)] > rank[r].bwd[BwdChunk(b)]
<1> DEFINE p == NextRank(r)
           g == BwdDone(conf, p, rank[p])
<1>1. p \in Ranks /\ PrevRank(p) = r /\ (p = 0 <=> r = P - 1)
  <2>1. NextRank(r) = (IF r = P - 1 THEN 0 ELSE r + 1)
    BY RingFacts
  <2>2. QED
    BY <2>1, RingFacts, SizeFacts DEF Ranks
<1>2. /\ conf \in Configs
      /\ LocalInv(conf, r, rank[r], pend[r]) /\ LocalInv(conf, p, rank[p], pend[p])
      /\ GradsOut(conf, p, rank[p], pend[p]) = GradsIn(conf, r, rank[r], pend[r])
  BY <1>1, IInvParts, Zenon DEF Link
<1>3. PICK end \in BOOLEAN : end = (r = P - 1)
  OBVIOUS
<1>4. (p = 0) = end
  BY <1>1, <1>3
<1>5. b \in Nat /\ g \in Nat
  BY <1>1, <1>2, PointTypes
<1>6. GradsIn(conf, r, rank[r], pend[r]) = Taken(end, b + 1) - 0
  <2>1. One(Has(pend[r], "recv", NextRank(r))) = 0
    BY DEF One
  <2>2. QED
    BY <1>3, <2>1 DEF GradsIn
<1>7. \/ GradsOut(conf, p, rank[p], pend[p]) = Left(end, g) - 0
      \/ GradsOut(conf, p, rank[p], pend[p]) = Left(end, g) - 1
  <2>1. \/ One(Has(pend[p], "send", PrevRank(p))) = 0 \/ One(Has(pend[p], "send", PrevRank(p))) = 1
    BY DEF One
  <2>2. QED
    BY <1>4, <2>1, Zenon DEF GradsOut
<1> HIDE DEF p, g
<1>8. Left(end, g) \in Nat
  BY <1>5, LinkCounts, Zenon
<1>9. b + 1 \in Nat /\ Taken(end, b + 1) \in Nat
  <2>1. b + 1 \in Nat
    BY <1>5
  <2>2. QED
    BY <2>1, LinkCounts, Zenon
<1>10. Taken(end, b + 1) <= Left(end, g)
  BY <1>2, <1>6, <1>7, <1>8, <1>9
<1>c. /\ BwdChunk(b) = V - 1 - FwdChunk(b) /\ FwdChunk(b) = V - 1 - BwdChunk(b)
      /\ BwdChunk(b) \in Chunks /\ FwdChunk(b) \in Chunks /\ V \in Nat
  BY ChunkFacts, SizeFacts
<1>11. ~(end /\ FwdChunk(b) = 0)
  <2>1. end => r = P - 1
    BY <1>3, Zenon
  <2>2. FwdChunk(b) = 0 => BwdChunk(b) = V - 1
    BY <1>c
  <2>3. QED
    BY <2>1, <2>2 DEF LastStage
<1>12. PICK d \in Chunks : FwdChunk(b) = d + One(end) /\ Fwd(d, g) > Fwd(FwdChunk(b), b)
  BY <1>5, <1>10, <1>11, PassBefore, Zenon
<1>13. /\ V - 1 - d \in Chunks /\ V - 1 - (V - 1 - d) = d
       /\ BwdChunk(b) + One(r = P - 1) = V - 1 - d
  <2>1. FwdChunk(b) = d + One(r = P - 1)
    BY <1>3, <1>12, Zenon
  <2>2. One(r = P - 1) \in Int /\ d \in 0 .. V - 1
    BY DEF One, Chunks
  <2>3. QED
    BY <1>c, <2>1, <2>2 DEF Chunks
<1>14. rank[p].bwd[V - 1 - d] = Fwd(d, g)
  <2>1. Counts(rank[p], FwdDone(conf, p, rank[p]), g)
    BY <1>2, Zenon DEF LocalInv, g
  <2>2. rank[p].bwd[V - 1 - d] = Bwd(V - 1 - d, g)
    BY <1>13, <2>1, Zenon DEF Counts
  <2>3. QED
    BY <1>13, <2>2 DEF Bwd
<1>15. rank[r].bwd[BwdChunk(b)] = Fwd(FwdChunk(b), b)
  <2>1. Counts(rank[r], FwdDone(conf, r, rank[r]), b)
    BY <1>2, Zenon DEF LocalInv
  <2>2. rank[r].bwd[BwdChunk(b)] = Bwd(BwdChunk(b), b)
    BY <1>c, <2>1, Zenon DEF Counts
  <2>3. QED
    BY <1>c, <2>2 DEF Bwd
<1>16. QED
  BY <1>12, <1>13, <1>14, <1>15 DEF p

(* The counters of an iteration's start are those of the order's. *)
LEMMA OrderInit == Init => Order!Init
<1> SUFFICES ASSUME Init PROVE Order!Init
  OBVIOUS
<1>1. \A r \in Ranks, c \in Chunks : rank[r].drawn[c] = 0 /\ rank[r].bwd[c] = 0
  BY DEF Init, InitRank
<1>2. Order!Stages = StageIds
  BY StageFacts DEF Order!Stages
<1>3. QED
  BY <1>1, <1>2, StageFacts DEF Order!Init

(* What the order counts at a virtual stage, and what a step makes of it. *)
Forwards == [s \in StageIds |-> rank[RankAt(s)].drawn[ChunkAt(s)]]
Backwards == [s \in StageIds |-> rank[RankAt(s)].bwd[ChunkAt(s)]]

(* The forward passes a rank counts are those its loop counter tells. *)
LEMMA RankCounts ==
  ASSUME NEW cf, NEW r, NEW s, NEW q, LocalInv(cf, r, s, q)
  PROVE  Counts(s, FwdDone(cf, r, s), BwdDone(cf, r, s))
BY Zenon DEF LocalInv

(* A step that runs no pass moves no counter of the order. *)
LEMMA NoPass ==
  ASSUME \A k \in Ranks, c \in Chunks : /\ rank'[k].drawn[c] = rank[k].drawn[c]
                                         /\ rank'[k].bwd[c] = rank[k].bwd[c]
  PROVE  [Order!Next]_Order!orderVars
<1>1. Forwards' = Forwards /\ Backwards' = Backwards
  BY StageFacts DEF Forwards, Backwards
<1>2. QED
  BY <1>1 DEF Order!orderVars, Forwards, Backwards

(* A forward pass of a rank is one of the order. *)
LEMMA ForwardInOrder ==
  ASSUME IInv, NEW r \in Ranks, Moves(r), NEW f \in 0 .. All(conf) - 1,
         f = FwdDone(conf, r, rank[r]),
         FwdDone(conf, r, rank'[r]) = f + 1,
         BwdDone(conf, r, rank'[r]) = BwdDone(conf, r, rank[r]),
         FwdAsked(conf, r, rank[r]) = f + 1, ~Has(pend[r], "recv", PrevRank(r))
  PROVE  Order!Next
<1> DEFINE c == FwdChunk(f)
           v == StageOf(r, c)
<1>1. /\ conf \in Configs /\ rank \in [Ranks -> LocalType(conf)]
      /\ LocalInv(conf, r, rank[r], pend[r]) /\ LocalInv(conf, r, rank'[r], pend'[r])
      /\ \A k \in Ranks : k # r => rank'[k] = rank[k]
  <2>1. conf \in Configs /\ rank \in [Ranks -> LocalType(conf)] /\ LocalInv(conf, r, rank[r], pend[r])
    BY IInvParts
  <2>2. QED
    BY <2>1 DEF Moves, Advances
<1>2. /\ f \in Nat /\ c \in Chunks /\ Fwd(c, f) \in Nat /\ Fwd(c, f) < conf.microbatches
      /\ conf.microbatches \in Nat /\ conf.microbatches <= MaxMicrobatches /\ MaxMicrobatches \in Nat
      /\ \A d \in Chunks : Fwd(d, f + 1) = IF d = c THEN Fwd(d, f) + 1 ELSE Fwd(d, f)
  BY <1>1, PassFacts, MaxFacts, ConfFacts
<1>3. \A d \in Chunks : /\ rank[r].drawn[d] = Fwd(d, f)
                        /\ rank'[r].drawn[d] = Fwd(d, f + 1)
                        /\ rank'[r].bwd[d] = rank[r].bwd[d]
  BY <1>1, RankCounts DEF Counts
<1>4. v \in StageIds /\ RankAt(v) = r /\ ChunkAt(v) = c
  BY <1>2, StageFacts
<1> HIDE DEF c, v
<1>5. ASSUME NEW s \in StageIds
      PROVE  /\ Forwards'[s] = IF s = v THEN Forwards[s] + 1 ELSE Forwards[s]
             /\ Backwards'[s] = Backwards[s]
  <2>1. RankAt(s) \in Ranks /\ ChunkAt(s) \in Chunks /\ s = StageOf(RankAt(s), ChunkAt(s))
    BY StageFacts
  <2>2. /\ Forwards[s] = rank[RankAt(s)].drawn[ChunkAt(s)]
        /\ Forwards'[s] = rank'[RankAt(s)].drawn[ChunkAt(s)]
        /\ Backwards[s] = rank[RankAt(s)].bwd[ChunkAt(s)]
        /\ Backwards'[s] = rank'[RankAt(s)].bwd[ChunkAt(s)]
    BY DEF Forwards, Backwards
  <2>3. CASE RankAt(s) = r /\ ChunkAt(s) = c
    <3>1. s = v
      BY <2>1, <2>3 DEF v
    <3>2. QED
      BY <1>2, <1>3, <2>2, <2>3, <3>1
  <2>4. CASE RankAt(s) = r /\ ChunkAt(s) # c
    <3>1. s # v
      BY <1>4, <2>4
    <3>2. QED
      BY <1>2, <1>3, <2>1, <2>2, <2>4, <3>1
  <2>5. CASE RankAt(s) # r
    <3>1. s # v
      BY <1>4, <2>5
    <3>2. QED
      BY <1>1, <2>1, <2>2, <2>5, <3>1
  <2>6. QED
    BY <2>3, <2>4, <2>5
<1>6. Forwards' = [Forwards EXCEPT ![v] = @ + 1] /\ Backwards' = Backwards
  <2>1. /\ Forwards' = [s \in StageIds |-> Forwards'[s]]
        /\ Backwards' = [s \in StageIds |-> Backwards'[s]]
        /\ Forwards = [s \in StageIds |-> Forwards[s]]
        /\ Backwards = [s \in StageIds |-> Backwards[s]]
    BY DEF Forwards, Backwards
  <2>2. QED
    BY <1>4, <1>5, <2>1
<1>7. Forwards[v] = Fwd(c, f) /\ Forwards[v] < MaxMicrobatches
  BY <1>2, <1>3, <1>4 DEF Forwards
<1>8. v # 0 => Forwards[v - 1] > Forwards[v]
  <2> SUFFICES ASSUME v # 0 PROVE Forwards[v - 1] > Forwards[v]
    OBVIOUS
  <2>1. ~FirstStage(r, c)
    BY <1>2, StageNeighbours DEF v
  <2>2. c - One(r = 0) \in Chunks /\ v - 1 = StageOf(PrevRank(r), c - One(r = 0))
    BY <1>2, <2>1, StageNeighbours DEF v
  <2>3. PrevRank(r) \in Ranks
    BY RingFacts
  <2>4. v - 1 \in StageIds /\ RankAt(v - 1) = PrevRank(r) /\ ChunkAt(v - 1) = c - One(r = 0)
    <3>1. PICK d \in Chunks, u \in Int :
            d = c - One(r = 0) /\ u = v - 1 /\ u = StageOf(PrevRank(r), d)
      BY <1>4, <2>2, StageFacts
    <3>2. u \in StageIds /\ RankAt(u) = PrevRank(r) /\ ChunkAt(u) = d
      BY <2>3, <3>1, StageFacts
    <3>3. QED
      BY <3>1, <3>2
  <2>5. Forwards[v - 1] = rank[PrevRank(r)].drawn[c - One(r = 0)]
    BY <2>4, Zenon DEF Forwards
  <2>6. Forwards[v] = rank[r].drawn[c]
    BY <1>4, Zenon DEF Forwards
  <2>7. rank[PrevRank(r)].drawn[c - One(r = 0)] > rank[r].drawn[c]
    BY <1>2, <2>1, ForwardAfter, Zenon DEF c
  <2>8. QED
    BY <2>5, <2>6, <2>7
<1>9. Order!Forward(v)
  BY <1>6, <1>7, <1>8 DEF Order!Forward, Forwards, Backwards
<1>10. v \in Order!Stages
  BY <1>4, StageFacts DEF Order!Stages
<1>11. QED
  BY <1>9, <1>10 DEF Order!Next

(* A backward pass of a rank is one of the order. *)
LEMMA BackwardInOrder ==
  ASSUME IInv, NEW r \in Ranks, Moves(r), NEW b \in 0 .. All(conf) - 1, NEW f \in Nat,
         b = BwdDone(conf, r, rank[r]), f = FwdDone(conf, r, rank[r]),
         FwdDone(conf, r, rank'[r]) = f, BwdDone(conf, r, rank'[r]) = b + 1,
         BwdAsked(conf, r, rank[r]) = b + 1, ~Has(pend[r], "recv", NextRank(r)),
         Trails(conf, f, b + 1)
  PROVE  Order!Next
<1> DEFINE c == BwdChunk(b)
           v == StageOf(r, c)
<1>1. /\ conf \in Configs /\ rank \in [Ranks -> LocalType(conf)]
      /\ LocalInv(conf, r, rank[r], pend[r]) /\ LocalInv(conf, r, rank'[r], pend'[r])
      /\ \A k \in Ranks : k # r => rank'[k] = rank[k]
  <2>1. conf \in Configs /\ rank \in [Ranks -> LocalType(conf)] /\ LocalInv(conf, r, rank[r], pend[r])
    BY IInvParts
  <2>2. QED
    BY <2>1 DEF Moves, Advances
<1>2. /\ b \in Nat /\ b + 1 \in Nat /\ c \in Chunks /\ Bwd(c, b) \in Nat
      /\ \A d \in Chunks : Bwd(d, b + 1) = IF d = c THEN Bwd(d, b) + 1 ELSE Bwd(d, b)
  BY <1>1, PassFacts
<1>3. \A d \in Chunks : /\ rank[r].drawn[d] = Fwd(d, f) /\ rank[r].bwd[d] = Bwd(d, b)
                        /\ rank'[r].drawn[d] = rank[r].drawn[d]
                        /\ rank'[r].bwd[d] = Bwd(d, b + 1)
  BY <1>1, RankCounts DEF Counts
<1>4. v \in StageIds /\ RankAt(v) = r /\ ChunkAt(v) = c
  BY <1>2, StageFacts
<1> HIDE DEF c, v
<1>5. ASSUME NEW s \in StageIds
      PROVE  /\ Backwards'[s] = IF s = v THEN Backwards[s] + 1 ELSE Backwards[s]
             /\ Forwards'[s] = Forwards[s]
  <2>1. RankAt(s) \in Ranks /\ ChunkAt(s) \in Chunks /\ s = StageOf(RankAt(s), ChunkAt(s))
    BY StageFacts
  <2>2. /\ Forwards[s] = rank[RankAt(s)].drawn[ChunkAt(s)]
        /\ Forwards'[s] = rank'[RankAt(s)].drawn[ChunkAt(s)]
        /\ Backwards[s] = rank[RankAt(s)].bwd[ChunkAt(s)]
        /\ Backwards'[s] = rank'[RankAt(s)].bwd[ChunkAt(s)]
    BY DEF Forwards, Backwards
  <2>3. CASE RankAt(s) = r /\ ChunkAt(s) = c
    <3>1. s = v
      BY <2>1, <2>3 DEF v
    <3>2. QED
      BY <1>2, <1>3, <2>2, <2>3, <3>1
  <2>4. CASE RankAt(s) = r /\ ChunkAt(s) # c
    <3>1. s # v
      BY <1>4, <2>4
    <3>2. QED
      BY <1>2, <1>3, <2>1, <2>2, <2>4, <3>1
  <2>5. CASE RankAt(s) # r
    <3>1. s # v
      BY <1>4, <2>5
    <3>2. QED
      BY <1>1, <2>1, <2>2, <2>5, <3>1
  <2>6. QED
    BY <2>3, <2>4, <2>5
<1>6. Backwards' = [Backwards EXCEPT ![v] = @ + 1] /\ Forwards' = Forwards
  <2>1. /\ Forwards' = [s \in StageIds |-> Forwards'[s]]
        /\ Backwards' = [s \in StageIds |-> Backwards'[s]]
        /\ Forwards = [s \in StageIds |-> Forwards[s]]
        /\ Backwards = [s \in StageIds |-> Backwards[s]]
    BY DEF Forwards, Backwards
  <2>2. QED
    BY <1>4, <1>5, <2>1
<1>7. Forwards[v] > Backwards[v]
  <2>1. Bwd(c, b + 1) <= Fwd(c, f)
    BY <1>1, <1>2, Trailing
  <2>2. Fwd(c, f) \in Nat
    BY <1>2, FwdFacts
  <2>3. Bwd(c, b + 1) = Bwd(c, b) + 1
    BY <1>2
  <2>4. Forwards[v] = Fwd(c, f) /\ Backwards[v] = Bwd(c, b)
    BY <1>2, <1>3, <1>4 DEF Forwards, Backwards
  <2>5. QED
    BY <1>2, <2>1, <2>2, <2>3, <2>4
<1>8. v # P * V - 1 => Backwards[v + 1] > Backwards[v]
  <2> SUFFICES ASSUME v # P * V - 1 PROVE Backwards[v + 1] > Backwards[v]
    OBVIOUS
  <2>1. ~LastStage(r, c)
    BY <1>2, StageNeighbours DEF v
  <2>2. c + One(r = P - 1) \in Chunks /\ v + 1 = StageOf(NextRank(r), c + One(r = P - 1))
    BY <1>2, <2>1, StageNeighbours DEF v
  <2>3. NextRank(r) \in Ranks
    BY RingFacts
  <2>4. v + 1 \in StageIds /\ RankAt(v + 1) = NextRank(r) /\ ChunkAt(v + 1) = c + One(r = P - 1)
    BY <2>2, <2>3, StageFacts, Zenon
  <2>5. Backwards[v + 1] = rank[NextRank(r)].bwd[c + One(r = P - 1)]
    BY <2>4, Zenon DEF Backwards
  <2>6. Backwards[v] = rank[r].bwd[c]
    BY <1>4, Zenon DEF Backwards
  <2>7. rank[NextRank(r)].bwd[c + One(r = P - 1)] > rank[r].bwd[c]
    BY <1>2, <2>1, BackwardAfter, Zenon DEF c
  <2>8. QED
    BY <2>5, <2>6, <2>7
<1>9. Order!Backward(v)
  BY <1>6, <1>7, <1>8 DEF Order!Backward, Order!LastStage, Forwards, Backwards
<1>10. v \in Order!Stages
  BY <1>4, StageFacts DEF Order!Stages
<1>11. QED
  BY <1>9, <1>10 DEF Order!Next

(* A step of a rank runs its next forward or backward pass, if the order     *)
(* lets it, or moves no counter.                                             *)
LEMMA MovesInOrder ==
  ASSUME IInv, NEW r \in Ranks, Moves(r)
  PROVE  [Order!Next]_Order!orderVars
<1>1. /\ conf \in Configs /\ rank \in [Ranks -> LocalType(conf)]
      /\ LocalInv(conf, r, rank[r], pend[r]) /\ LocalInv(conf, r, rank'[r], pend'[r])
      /\ \A k \in Ranks : k # r => rank'[k] = rank[k]
      /\ Advances(conf, r, rank[r], pend[r], rank'[r], pend'[r])
  <2>1. conf \in Configs /\ rank \in [Ranks -> LocalType(conf)] /\ LocalInv(conf, r, rank[r], pend[r])
    BY IInvParts
  <2>2. QED
    BY <2>1 DEF Moves, Advances
<1>2. CASE /\ FwdDone(conf, r, rank'[r]) = FwdDone(conf, r, rank[r])
           /\ BwdDone(conf, r, rank'[r]) = BwdDone(conf, r, rank[r])
  <2>1. \A d \in Chunks : /\ rank'[r].drawn[d] = rank[r].drawn[d]
                          /\ rank'[r].bwd[d] = rank[r].bwd[d]
    BY <1>1, <1>2, RankCounts DEF Counts
  <2>2. \A k \in Ranks, d \in Chunks : /\ rank'[k].drawn[d] = rank[k].drawn[d]
                                       /\ rank'[k].bwd[d] = rank[k].bwd[d]
    BY <1>1, <2>1
  <2>3. QED
    BY <2>2, NoPass
<1>3. QED
  BY <1>1, <1>2, ForwardInOrder, BackwardInOrder, Zenon DEF Advances

(* Every step is one of the order, or stutters. *)
LEMMA NextInOrder == IInv /\ [Next]_vars => [Order!Next]_Order!orderVars
<1> SUFFICES ASSUME IInv, [Next]_vars PROVE [Order!Next]_Order!orderVars
  OBVIOUS
<1>1. ASSUME NEW r \in Ranks, Step(r) PROVE [Order!Next]_Order!orderVars
  <2>1. TypeOK /\ LocalInv(conf, r, rank[r], pend[r])
    BY DEF IInv
  <2>2. Moves(r)
    BY <1>1, <2>1, StepMoves
  <2>3. QED
    BY <2>2, MovesInOrder
<1>2. ASSUME NEW i \in Ranks, NEW j \in Ranks, Transfer(i, j)
      PROVE  [Order!Next]_Order!orderVars
  <2>1. Delivers(i, j)
    BY <1>2, TransferDelivers
  <2>2. /\ rank \in [Ranks -> LocalType(conf)]
        /\ LocalInv(conf, j, rank[j], pend[j]) /\ LocalInv(conf, j, rank'[j], pend'[j])
        /\ SamePoint(conf, j, rank[j], rank'[j])
    BY <2>1, IInvParts DEF Delivers
  <2>3. \A d \in Chunks : /\ rank'[j].drawn[d] = rank[j].drawn[d]
                          /\ rank'[j].bwd[d] = rank[j].bwd[d]
    BY <2>2, RankCounts DEF Counts, SamePoint
  <2>4. \A k \in Ranks : k # j => rank'[k] = rank[k]
    BY <2>1, <2>2 DEF Delivers
  <2>5. \A k \in Ranks, d \in Chunks : /\ rank'[k].drawn[d] = rank[k].drawn[d]
                                       /\ rank'[k].bwd[d] = rank[k].bwd[d]
    BY <2>3, <2>4
  <2>6. QED
    BY <2>5, NoPass
<1>3. CASE UNCHANGED vars
  BY <1>3 DEF vars, Order!orderVars
<1>4. QED
  BY <1>1, <1>2, <1>3 DEF Next

(* The schedule implements the order every pipeline schedule promises: no    *)
(* pass runs before the passes it needs, on any rank and chunk, for any      *)
(* configuration.                                                            *)
THEOREM ImplementsPipelineOrderThm == Spec => ImplementsPipelineOrder
<1>1. Init => Order!Init
  BY OrderInit
<1>2. IInv /\ [Next]_vars => [Order!Next]_Order!orderVars
  BY NextInOrder
<1>3. QED
  BY <1>1, <1>2, Invariance, PTL DEF Spec, ImplementsPipelineOrder, Order!Spec

=============================================================================
