--------------------------- MODULE Schedule1F1BProofs ---------------------------
(***************************************************************************)
(* Proofs about the 1F1B schedule, for any number of pipeline ranks and of  *)
(* microbatches: the memory promise, the gradient synchronization, that     *)
(* every tensor is that of the microbatch it is used for, and that the      *)
(* schedule implements PipelineOrder.                                       *)
(*                                                                          *)
(* Operations carry no tag, so the tensor a transfer delivers is the right  *)
(* one only because the two ends count alike. The invariant says, for every *)
(* rank, where its program point puts its counters and what it has posted,  *)
(* and for every link, that as many tensors left one end as the other took. *)
(***************************************************************************)
EXTENDS Schedule1F1B, TLAPS

(* Warmup and steady-state microbatches of rank r under configuration cf. *)
Warm(cf, r) == MinOf(P - r - 1, cf.microbatches)
Steady(cf, r) == cf.microbatches - Warm(cf, r)

(* The tensor of microbatch n that rank q sends its neighbour, if there is q. *)
From(q, n) == IF q \in Ranks THEN Tensor(q, n) ELSE NoTensor

(* k consecutive tensors of rank q, from microbatch b on. *)
Run(q, b, k) == [n \in 1 .. k |-> From(q, b + n - 1)]

PendType == [Ranks -> Seq(OpType(MaxMicrobatches - 1, Ranks))]

(* The state s of a rank has its type. *)
LocalType(cf) ==
  [phase : {"warmup_recv", "warmup_fwd", "first_recv", "steady_fwd", "steady_bwd",
            "cooldown_recv", "cooldown_bwd", "launch", "done"},
   i : 0 .. cf.microbatches, input_tensor : Tensors, output_tensor_grad : Tensors,
   input_tensors : Seq(Tensors), output_tensors : Seq(Tensors),
   drawn : 0 .. cf.microbatches, bwd : 0 .. cf.microbatches,
   no_sync : BOOLEAN, grad_syncs : Seq(0 .. cf.microbatches)]

(* Where the program point puts the counters. *)
Counters(cf, r, s) ==
  /\ s.phase \in {"warmup_recv", "warmup_fwd"} =>
       s.i < Warm(cf, r) /\ s.drawn = s.i /\ s.bwd = 0
  /\ s.phase = "first_recv" =>
       /\ s.i < Steady(cf, r) /\ s.drawn = Warm(cf, r) + s.i /\ s.bwd = 0
       /\ ~cf.forwardOnly => s.i = 0
  /\ s.phase = "steady_fwd" =>
       /\ s.i < Steady(cf, r) /\ s.drawn = Warm(cf, r) + s.i
       /\ s.bwd = IF cf.forwardOnly THEN 0 ELSE s.i
  /\ s.phase = "steady_bwd" =>
       /\ ~cf.forwardOnly /\ s.i < Steady(cf, r)
       /\ s.drawn = Warm(cf, r) + s.i + 1 /\ s.bwd = s.i
  /\ s.phase \in {"cooldown_recv", "cooldown_bwd"} =>
       /\ ~cf.forwardOnly /\ s.i < Warm(cf, r)
       /\ s.drawn = cf.microbatches /\ s.bwd = Steady(cf, r) + s.i
  /\ s.phase = "launch" =>
       ~cf.forwardOnly /\ s.drawn = cf.microbatches /\ s.bwd = cf.microbatches
  /\ s.phase = "done" =>
       /\ s.drawn = cf.microbatches
       /\ s.bwd = IF cf.forwardOnly THEN 0 ELSE cf.microbatches

(* The saved tensors are those of the microbatches between the counters. *)
Saved(cf, r, s) ==
  LET kept == IF cf.forwardOnly THEN 0 ELSE s.drawn - s.bwd
  IN  /\ s.output_tensors = Run(r, s.bwd, kept)
      /\ s.input_tensors = Run(r - 1, s.bwd, kept)

(* The operations rank r may have posted in state s. *)
ActTo(r, s) == Op("send", r + 1, Tensor(r, s.drawn - 1), "none", NoRecv, "sync")
GradTo(r, s) == Op("send", r - 1, Tensor(r, s.bwd - 1), "none", NoRecv, "sync")
ActFrom(r) == Op("recv", r - 1, NoTensor, "input", 0, "sync")
GradFrom(r) == Op("recv", r + 1, NoTensor, "grad", 0, "sync")

Posted(r, s, q) ==
  \/ q = <<>>
  \/ /\ r < P - 1 /\ s.drawn > 0 /\ q = <<ActTo(r, s)>>
     /\ s.phase \in {"warmup_recv", "first_recv", "steady_bwd", "cooldown_recv", "done"}
  \/ /\ r > 0 /\ s.bwd > 0 /\ q = <<GradTo(r, s)>>
     /\ s.phase \in {"steady_fwd", "cooldown_recv", "launch"}
  \/ /\ r > 0 /\ q = <<ActFrom(r)>>
     /\ s.phase \in {"warmup_fwd", "steady_fwd"}
  \/ /\ r < P - 1 /\ q = <<GradFrom(r)>>
     /\ s.phase \in {"steady_bwd", "cooldown_bwd"}
  \/ /\ r < P - 1 /\ s.drawn > 0 /\ q = <<ActTo(r, s), GradFrom(r)>>
     /\ s.phase = "steady_bwd"
  \/ /\ r > 0 /\ s.bwd > 0 /\ q = <<GradTo(r, s), ActFrom(r)>>
     /\ s.phase = "steady_fwd"

Sends(q, peer) == \E n \in DOMAIN q : q[n].kind = "send" /\ q[n].peer = peer
Recvs(q, peer) == \E n \in DOMAIN q : q[n].kind = "recv" /\ q[n].peer = peer

(* The buffer a pass reads: filled unless its receive is outstanding. *)
Held(r, s, q) ==
  /\ s.phase \in {"warmup_fwd", "steady_fwd"} =>
       s.input_tensor = IF Recvs(q, r - 1) THEN Empty ELSE From(r - 1, s.drawn)
  /\ s.phase \in {"steady_bwd", "cooldown_bwd"} =>
       s.output_tensor_grad = IF Recvs(q, r + 1) THEN Empty ELSE From(r + 1, s.bwd)

(* Who handed the gradients over by now. *)
ByHooks(cf, r) == ~cf.gradSyncFunc \/ r = 0
Synced(cf, r, s) ==
  IF s.phase = "launch" /\ ByHooks(cf, r)
  THEN s.no_sync = FALSE /\ s.grad_syncs = <<cf.microbatches>>
  ELSE IF s.phase = "done" /\ ~cf.forwardOnly
  THEN s.grad_syncs = <<cf.microbatches>>
  ELSE s.no_sync = TRUE /\ s.grad_syncs = <<>>

LocalInv(cf, r, s, q) ==
  /\ s \in LocalType(cf)
  /\ Counters(cf, r, s)
  /\ Saved(cf, r, s)
  /\ Posted(r, s, q)
  /\ Held(r, s, q)
  /\ Synced(cf, r, s)

(* What left rank r and what it took in, of each direction. *)
ActsOut(r, s, q) == s.drawn - (IF Sends(q, r + 1) THEN 1 ELSE 0)
GradsOut(r, s, q) == s.bwd - (IF Sends(q, r - 1) THEN 1 ELSE 0)
ActsIn(r, s, q) ==
  s.drawn + (IF s.phase \in {"warmup_fwd", "steady_fwd"} /\ ~Recvs(q, r - 1) THEN 1 ELSE 0)
GradsIn(r, s, q) ==
  s.bwd + (IF s.phase \in {"steady_bwd", "cooldown_bwd"} /\ ~Recvs(q, r + 1) THEN 1 ELSE 0)

(* Between r and r + 1 no tensor is lost, duplicated or made up. *)
Link(r, s, q, s2, q2) ==
  /\ ActsOut(r, s, q) = ActsIn(r + 1, s2, q2)
  /\ GradsOut(r + 1, s2, q2) = GradsIn(r, s, q)

(* The inductive invariant. *)
IInv ==
  /\ TypeOK
  /\ \A r \in Ranks : LocalInv(conf, r, rank[r], pend[r])
  /\ \A r \in Ranks : r + 1 \in Ranks => Link(r, rank[r], pend[r], rank[r + 1], pend[r + 1])

-----------------------------------------------------------------------------
(* Facts about the constants and the operators of the model.                 *)

(* An iteration has at most MaxMicrobatches microbatches. *)
LEMMA MaxFacts ==
  /\ MaxMicrobatches \in Nat
  /\ \A cf \in Configs : cf.microbatches <= MaxMicrobatches
<1> DEFINE S == {c.microbatches : c \in Configs}
<1>1. PICK most \in Configs : \A c \in Configs : c.microbatches <= most.microbatches
  BY Schedule1F1BAssumption
<1>2. \A c \in Configs : c.microbatches \in Nat
  BY Schedule1F1BAssumption
<1>3. most.microbatches \in S /\ \A y \in S : most.microbatches >= y
  BY <1>1, <1>2
<1>4. Max(S) \in S /\ \A y \in S : Max(S) >= y
  BY <1>3 DEF Max
<1>5. MaxMicrobatches = Max(S)
  BY DEF MaxMicrobatches
<1>6. MaxMicrobatches \in Nat
  BY <1>2, <1>4, <1>5
<1>7. \A cf \in Configs : cf.microbatches <= MaxMicrobatches
  BY <1>2, <1>4, <1>5, <1>6
<1>8. QED
  BY <1>6, <1>7

(* The configurations an iteration may run with. *)
LEMMA ConfFacts ==
  ASSUME NEW cf \in Configs
  PROVE  /\ cf.microbatches \in Nat \ {0}
         /\ cf.forwardOnly \in BOOLEAN
         /\ cf.gradSyncFunc \in BOOLEAN
         /\ cf.microbatches <= MaxMicrobatches
BY MaxFacts, Schedule1F1BAssumption

(* Every rank runs a forward pass before its first backward pass for each    *)
(* rank behind it, as far as there are microbatches; only the last has no    *)
(* warmup.                                                                   *)
LEMMA WarmFacts ==
  ASSUME NEW cf \in Configs, NEW r \in Ranks
  PROVE  /\ Warm(cf, r) \in Nat /\ Warm(cf, r) <= cf.microbatches
         /\ Warm(cf, r) <= P - r - 1
         /\ Steady(cf, r) \in Nat /\ Steady(cf, r) = cf.microbatches - Warm(cf, r)
         /\ Steady(cf, r) <= cf.microbatches
         /\ Warm(cf, r) = 0 <=> r = P - 1
BY ConfFacts, PAssumption DEF Warm, Steady, MinOf, Ranks

(* The two writings of the warmup agree. *)
LEMMA WarmIsNumWarmup ==
  ASSUME NEW r \in Ranks
  PROVE  NumWarmup(r) = Warm(conf, r) /\ Remaining(r) = Steady(conf, r)
BY DEF NumWarmup, Warm, Remaining, Steady, M

(* Tensors of consecutive microbatches: the first one leaves, one joins. *)
LEMMA RunFacts ==
  ASSUME NEW q \in Int, NEW b \in Int, NEW k \in Nat
  PROVE  /\ Len(Run(q, b, k)) = k
         /\ Run(q, b, k) \in Seq({From(q, b + n - 1) : n \in 1 .. k})
         /\ k = 0 => Run(q, b, k) = <<>>
         /\ k > 0 => Run(q, b, k) # <<>> /\ Head(Run(q, b, k)) = From(q, b)
<1> DEFINE T == {From(q, b + n - 1) : n \in 1 .. k}
<1>1. Run(q, b, k) \in [1 .. k -> T]
  BY DEF Run
<1>2. Run(q, b, k) \in Seq(T) /\ Len(Run(q, b, k)) = k
  <2> HIDE DEF T
  <2>1. Run(q, b, k) \in Seq(T)
    BY <1>1
  <2>2. DOMAIN Run(q, b, k) = 1 .. k
    BY <1>1
  <2>3. QED
    BY <2>1, <2>2
<1>3. ASSUME k = 0 PROVE Run(q, b, k) = <<>>
  BY <1>2, <1>3
<1>4. ASSUME k > 0 PROVE Run(q, b, k) # <<>> /\ Head(Run(q, b, k)) = From(q, b)
  <2>1. Run(q, b, k)[1] = From(q, b)
    BY <1>4 DEF Run
  <2>2. QED
    BY <1>2, <1>4, <2>1
<1>5. QED
  BY <1>2, <1>3, <1>4

(* The next tensor joins a run at its end. *)
LEMMA RunAppend ==
  ASSUME NEW q \in Int, NEW b \in Int, NEW k \in Nat
  PROVE  Append(Run(q, b, k), From(q, b + k)) = Run(q, b, k + 1)
BY DEF Run

(* The oldest tensor leaves a run. *)
LEMMA RunTail ==
  ASSUME NEW q \in Int, NEW b \in Int, NEW k \in Nat, k > 0
  PROVE  Tail(Run(q, b, k)) = Run(q, b + 1, k - 1)
<1>1. Len(Run(q, b, k)) = k
  BY RunFacts
<1>2. Tail(Run(q, b, k)) = [n \in 1 .. k - 1 |-> Run(q, b, k)[n + 1]]
  BY <1>1 DEF Run
<1>3. \A n \in 1 .. k - 1 : Run(q, b, k)[n + 1] = From(q, (b + 1) + n - 1)
  BY DEF Run
<1>4. QED
  BY <1>2, <1>3 DEF Run

(* What a tensor of a neighbour is. *)
LEMMA FromFacts ==
  ASSUME NEW q \in Int, NEW n \in Int
  PROVE  /\ q \in Ranks => From(q, n) = Tensor(q, n) /\ From(q, n) # NoTensor
                           /\ From(q, n) # Empty /\ From(q, n).mb = n
         /\ q \notin Ranks => From(q, n) = NoTensor
         /\ n >= 0 /\ n < MaxMicrobatches => From(q, n) \in Tensors
<1>1. ASSUME q \in Ranks
      PROVE  /\ From(q, n) = Tensor(q, n) /\ From(q, n) # NoTensor
             /\ From(q, n) # Empty /\ From(q, n).mb = n
  <2>1. From(q, n) = Tensor(q, n)
    BY <1>1 DEF From
  <2>2. From(q, n).stage = q /\ From(q, n).mb = n
    BY <2>1 DEF Tensor
  <2>3. NoTensor.stage = -1 /\ Empty.stage = -2
    BY DEF NoTensor, Empty, Tensor
  <2>4. q # -1 /\ q # -2
    BY <1>1 DEF Ranks
  <2>5. QED
    BY <2>1, <2>2, <2>3, <2>4
<1>2. ASSUME q \notin Ranks PROVE From(q, n) = NoTensor
  BY <1>2 DEF From
<1>3. ASSUME n >= 0, n < MaxMicrobatches PROVE From(q, n) \in Tensors
  <2>1. n \in 0 .. MaxMicrobatches - 1
    BY <1>3, MaxFacts
  <2>2. CASE q \in Ranks
    <3>1. From(q, n) \in [stage : Ranks, mb : {Mixed} \cup (0 .. MaxMicrobatches - 1)]
      BY <2>1, <2>2, <1>1 DEF Tensor
    <3>2. QED
      BY <3>1 DEF Tensors
  <2>3. CASE q \notin Ranks
    BY <2>3, <1>2 DEF Tensors
  <2>4. QED
    BY <2>2, <2>3
<1>4. QED
  BY <1>1, <1>2, <1>3

(* The operations of a queue of at most two. *)
LEMMA QueueFacts ==
  ASSUME NEW a, NEW b, NEW peer
  PROVE  /\ ~Sends(<<>>, peer) /\ ~Recvs(<<>>, peer)
         /\ Sends(<<a>>, peer) <=> a.kind = "send" /\ a.peer = peer
         /\ Recvs(<<a>>, peer) <=> a.kind = "recv" /\ a.peer = peer
         /\ Sends(<<a, b>>, peer) <=> \/ a.kind = "send" /\ a.peer = peer
                                      \/ b.kind = "send" /\ b.peer = peer
         /\ Recvs(<<a, b>>, peer) <=> \/ a.kind = "recv" /\ a.peer = peer
                                      \/ b.kind = "recv" /\ b.peer = peer
BY DEF Sends, Recvs

(* A queue of one operation. *)
LEMMA SingletonSeq ==
  ASSUME NEW S, NEW q \in Seq(S), Len(q) = 1
  PROVE  q = <<q[1]>>
<1>1. q \in [1 .. 1 -> S] /\ q[1] \in S
  OBVIOUS
<1>2. <<q[1]>> \in [1 .. 1 -> S]
  BY <1>1
<1>3. \A n \in 1 .. 1 : q[n] = <<q[1]>>[n]
  <2>1. \A n \in 1 .. 1 : n = 1
    OBVIOUS
  <2>2. QED
    BY <2>1
<1>4. QED
  BY <1>1, <1>2, <1>3

(* Completing an operation of a queue of at most two. *)
LEMMA RemoveFacts ==
  ASSUME NEW a, NEW b
  PROVE  /\ RemoveAt(<<a>>, 1) = <<>>
         /\ RemoveAt(<<a, b>>, 1) = <<b>>
         /\ RemoveAt(<<a, b>>, 2) = <<a>>
<1>1. RemoveAt(<<a>>, 1) = SubSeq(<<a>>, 1, 0) \o SubSeq(<<a>>, 2, 1)
  BY DEF RemoveAt
<1>2. RemoveAt(<<a, b>>, 1) = SubSeq(<<a, b>>, 1, 0) \o SubSeq(<<a, b>>, 2, 2)
  BY DEF RemoveAt
<1>3. RemoveAt(<<a, b>>, 2) = SubSeq(<<a, b>>, 1, 1) \o SubSeq(<<a, b>>, 3, 2)
  BY DEF RemoveAt
<1>4. <<a>> \in Seq({a}) /\ <<a, b>> \in Seq({a, b}) /\ <<b>> \in Seq({b}) /\ <<>> \in Seq({a})
  OBVIOUS
<1>5. SubSeq(<<a>>, 1, 0) = <<>> /\ SubSeq(<<a>>, 2, 1) = <<>>
  BY <1>4
<1>6. SubSeq(<<a, b>>, 1, 0) = <<>> /\ SubSeq(<<a, b>>, 3, 2) = <<>>
  BY <1>4
<1>7. SubSeq(<<a, b>>, 2, 2) = <<b>>
  <2>1. SubSeq(<<a, b>>, 2, 2) \in Seq({a, b}) /\ Len(SubSeq(<<a, b>>, 2, 2)) = 1
    BY <1>4
  <2>2. SubSeq(<<a, b>>, 2, 2)[1] = <<a, b>>[2]
    BY <1>4
  <2>3. QED
    BY <2>1, <2>2, SingletonSeq
<1>8. SubSeq(<<a, b>>, 1, 1) = <<a>>
  <2>1. SubSeq(<<a, b>>, 1, 1) \in Seq({a, b}) /\ Len(SubSeq(<<a, b>>, 1, 1)) = 1
    BY <1>4
  <2>2. SubSeq(<<a, b>>, 1, 1)[1] = <<a, b>>[1]
    BY <1>4
  <2>3. QED
    BY <2>1, <2>2, SingletonSeq
<1>9. <<>> \o <<>> = <<>> /\ <<>> \o <<b>> = <<b>> /\ <<a>> \o <<>> = <<a>>
  BY <1>4
<1>10. QED
  BY <1>1, <1>2, <1>3, <1>5, <1>6, <1>7, <1>8, <1>9

(* The ends of the operations a rank posts are its neighbours, of one kind   *)
(* each.                                                                     *)
LEMMA OpFacts ==
  ASSUME NEW r \in Ranks, NEW s
  PROVE  /\ ActTo(r, s).kind = "send" /\ ActTo(r, s).peer = r + 1
         /\ ActTo(r, s).data = Tensor(r, s.drawn - 1)
         /\ GradTo(r, s).kind = "send" /\ GradTo(r, s).peer = r - 1
         /\ GradTo(r, s).data = Tensor(r, s.bwd - 1)
         /\ ActFrom(r).kind = "recv" /\ ActFrom(r).peer = r - 1
         /\ ActFrom(r).list = "input"
         /\ GradFrom(r).kind = "recv" /\ GradFrom(r).peer = r + 1
         /\ GradFrom(r).list = "grad"
         /\ ActTo(r, s).handle = "sync" /\ GradTo(r, s).handle = "sync"
         /\ ActFrom(r).handle = "sync" /\ GradFrom(r).handle = "sync"
BY DEF ActTo, GradTo, ActFrom, GradFrom, Op

(* A posted operation has its type. *)
LEMMA PostedType ==
  ASSUME NEW cf \in Configs, NEW r \in Ranks, NEW s \in LocalType(cf), NEW q, Posted(r, s, q)
  PROVE  q \in Seq(OpType(MaxMicrobatches - 1, Ranks))
<1> DEFINE T == OpType(MaxMicrobatches - 1, Ranks)
           D == [stage : Ranks, mb : 0 .. MaxMicrobatches - 1] \cup {NoTensor}
<1>1. s.drawn \in 0 .. MaxMicrobatches /\ s.bwd \in 0 .. MaxMicrobatches
  <2>1. s.drawn \in 0 .. cf.microbatches /\ s.bwd \in 0 .. cf.microbatches
    BY DEF LocalType
  <2>2. QED
    BY <2>1, ConfFacts, MaxFacts
<1>2. ASSUME NEW n \in Int, n > 0, n <= MaxMicrobatches PROVE Tensor(r, n - 1) \in D
  BY <1>2, MaxFacts DEF Tensor
<1>3. \A kind \in {"send", "recv"}, peer \in Ranks, data \in D, list \in {"none", "input", "grad"},
         chunk \in {NoRecv} \cup Ranks : Op(kind, peer, data, list, chunk, "sync") \in T
  BY DEF OpType, Op
<1> HIDE DEF T, D
<1>4. NoTensor \in D /\ 0 \in {NoRecv} \cup Ranks /\ NoRecv \in {NoRecv} \cup Ranks
  BY PAssumption DEF D, Ranks
<1>5. r < P - 1 => r + 1 \in Ranks
  BY PAssumption DEF Ranks
<1>6. r > 0 => r - 1 \in Ranks
  BY PAssumption DEF Ranks
<1>7. r < P - 1 /\ s.drawn > 0 => ActTo(r, s) \in T
  BY <1>1, <1>2, <1>3, <1>4, <1>5, MaxFacts DEF ActTo
<1>8. r > 0 /\ s.bwd > 0 => GradTo(r, s) \in T
  BY <1>1, <1>2, <1>3, <1>4, <1>6, MaxFacts DEF GradTo
<1>9. r > 0 => ActFrom(r) \in T
  BY <1>3, <1>4, <1>6 DEF ActFrom
<1>10. r < P - 1 => GradFrom(r) \in T
  BY <1>3, <1>4, <1>5 DEF GradFrom
<1>11. \A x \in T, y \in T : <<x>> \in Seq(T) /\ <<x, y>> \in Seq(T)
  OBVIOUS
<1>12. <<>> \in Seq(T)
  OBVIOUS
<1>13. /\ r < P - 1 /\ s.drawn > 0 => <<ActTo(r, s)>> \in Seq(T)
       /\ r > 0 /\ s.bwd > 0 => <<GradTo(r, s)>> \in Seq(T)
       /\ r > 0 => <<ActFrom(r)>> \in Seq(T)
       /\ r < P - 1 => <<GradFrom(r)>> \in Seq(T)
       /\ r < P - 1 /\ s.drawn > 0 => <<ActTo(r, s), GradFrom(r)>> \in Seq(T)
       /\ r > 0 /\ s.bwd > 0 => <<GradTo(r, s), ActFrom(r)>> \in Seq(T)
  BY <1>7, <1>8, <1>9, <1>10, <1>11, Zenon
<1>14. q \in Seq(T)
  BY <1>12, <1>13, Zenon DEF Posted
<1>15. QED
  BY <1>14 DEF T

(* While an operation is posted, its caller waits for it. *)
LEMMA ReadyIsIdle ==
  ASSUME NEW r \in Ranks, NEW phase, Ready(r, phase), Posted(r, rank[r], pend[r])
  PROVE  pend[r] = <<>> /\ rank[r].phase = phase
<1> DEFINE q == pend[r]
<1>1. \A n \in DOMAIN q : q[n].handle # "sync"
  BY DEF Ready, Completed
<1>2. rank[r].phase = phase
  BY DEF Ready
<1>3. Posted(r, rank[r], q)
  OBVIOUS
<1> HIDE DEF q
<1>4. ASSUME NEW a, NEW b, a.handle = "sync"
      PROVE  q # <<a>> /\ q # <<a, b>>
  <2>1. ASSUME q = <<a>> PROVE FALSE
    BY <1>1, <1>4, <2>1
  <2>2. ASSUME q = <<a, b>> PROVE FALSE
    BY <1>1, <1>4, <2>2
  <2>3. QED
    BY <2>1, <2>2
<1>5. /\ ActTo(r, rank[r]).handle = "sync" /\ GradTo(r, rank[r]).handle = "sync"
      /\ ActFrom(r).handle = "sync" /\ GradFrom(r).handle = "sync"
  BY OpFacts
<1>6. /\ q # <<ActTo(r, rank[r])>> /\ q # <<ActTo(r, rank[r]), GradFrom(r)>>
      /\ q # <<GradTo(r, rank[r])>> /\ q # <<GradTo(r, rank[r]), ActFrom(r)>>
      /\ q # <<ActFrom(r)>> /\ q # <<GradFrom(r)>>
  BY <1>4, <1>5, Zenon
<1>7. q = <<>>
  BY <1>3, <1>6, Zenon DEF Posted
<1>8. QED
  BY <1>2, <1>7 DEF q

(* The neighbours of the ring are the neighbours of the pipeline.            *)
LEMMA PeerFacts ==
  ASSUME NEW r \in Ranks
  PROVE  /\ r > 0 => PrevRank(r) = r - 1
         /\ r < P - 1 => NextRank(r) = r + 1
         /\ r = 0 <=> FirstStage(r)
         /\ r = P - 1 <=> LastStage(r)
         /\ r \in Int
<1>1. r \in Int /\ 0 <= r /\ r <= P - 1 /\ P \in Int /\ P > 1
  BY PAssumption DEF Ranks
<1>2. r > 0 => PrevRank(r) = r - 1
  BY <1>1 DEF PrevRank
<1>3. r < P - 1 => NextRank(r) = r + 1
  BY <1>1 DEF NextRank
<1>4. QED
  BY <1>1, <1>2, <1>3 DEF FirstStage, LastStage

(* What each call of the schedule posts. *)
LEMMA NothingPosted ==
  ASSUME NEW peer, NEW list
  PROVE  SendOp(peer, NoTensor, "sync") = <<>> /\ RecvOp(peer, list, NoRecv, "sync") = <<>>
BY DEF SendOp, RecvOp

(* Short queues joined. *)
LEMMA JoinFacts ==
  ASSUME NEW a, NEW b
  PROVE  /\ <<>> \o <<>> = <<>>
         /\ <<>> \o <<a>> = <<a>>
         /\ <<a>> \o <<>> = <<a>>
         /\ <<a>> \o <<b>> = <<a, b>>
         /\ <<a, b>> \o <<>> = <<a, b>> /\ <<>> \o <<a, b>> = <<a, b>>
<1> DEFINE S == {a, b}
           q == <<a>> \o <<b>>
<1>1. <<a>> \in Seq(S) /\ <<b>> \in Seq(S) /\ <<>> \in Seq(S) /\ <<a, b>> \in Seq(S)
  OBVIOUS
<1>2. q[1] = a /\ q[2] = b /\ Len(q) = 2
  OBVIOUS
<1> HIDE DEF S
<1>3. q \in Seq(S)
  BY <1>1
<1> HIDE DEF q
<1>4. q = <<a, b>>
  BY <1>2, <1>3
<1>5. QED
  BY <1>1, <1>4 DEF q

(* The receive of an activation, if there is a rank before. *)
LEMMA ActAsked ==
  ASSUME NEW r \in Ranks
  PROVE  RecvOp(PrevRank(r), "input", FromPrev(r), "sync")
           = IF r > 0 THEN <<ActFrom(r)>> ELSE <<>>
<1>1. CASE r > 0
  BY <1>1, PeerFacts DEF RecvOp, FromPrev, NoRecv, ActFrom
<1>2. CASE r = 0
  BY <1>2, PeerFacts DEF RecvOp, FromPrev, NoRecv
<1>3. QED
  BY <1>1, <1>2, PAssumption DEF Ranks

(* The receive of a gradient, if there is a rank behind. *)
LEMMA GradAsked ==
  ASSUME NEW r \in Ranks
  PROVE  RecvOp(NextRank(r), "grad", FromNext(r), "sync")
           = IF r < P - 1 THEN <<GradFrom(r)>> ELSE <<>>
<1>1. CASE r < P - 1
  BY <1>1, PeerFacts, PAssumption DEF RecvOp, FromNext, NoRecv, GradFrom, Ranks
<1>2. CASE r = P - 1
  BY <1>2, PeerFacts, PAssumption DEF RecvOp, FromNext, NoRecv
<1>3. QED
  BY <1>1, <1>2, PAssumption DEF Ranks

(* What each p2p call posts on an idle rank. *)
LEMMA RecvForwardPosts ==
  ASSUME NEW r \in Ranks, RecvForward(r), pend[r] = <<>>
  PROVE  pend' = [pend EXCEPT ![r] = IF r > 0 THEN <<ActFrom(r)>> ELSE <<>>]
<1>1. pend' = [pend EXCEPT ![r] =
         <<>> \o Communicate(TRUE, r, NoTensor, FromPrev(r), NoTensor, NoRecv, "sync")]
  BY DEF RecvForward, Call
<1>2. Communicate(TRUE, r, NoTensor, FromPrev(r), NoTensor, NoRecv, "sync")
        = SendOp(PrevRank(r), NoTensor, "sync")
            \o RecvOp(PrevRank(r), "input", FromPrev(r), "sync")
            \o SendOp(NextRank(r), NoTensor, "sync")
            \o RecvOp(NextRank(r), "grad", NoRecv, "sync")
  BY DEF Communicate, BatchedOps
<1>3. CASE r > 0
  <2>1. Communicate(TRUE, r, NoTensor, FromPrev(r), NoTensor, NoRecv, "sync")
          = <<>> \o <<ActFrom(r)>> \o <<>> \o <<>>
    BY <1>2, <1>3, ActAsked, NothingPosted, Zenon
  <2>2. QED
    BY <1>1, <1>3, <2>1, JoinFacts, Zenon
<1>4. CASE ~(r > 0)
  <2>1. Communicate(TRUE, r, NoTensor, FromPrev(r), NoTensor, NoRecv, "sync")
          = <<>> \o <<>> \o <<>> \o <<>>
    BY <1>2, <1>4, ActAsked, NothingPosted, Zenon
  <2>2. QED
    BY <1>1, <1>4, <2>1, JoinFacts, Zenon
<1>5. QED
  BY <1>3, <1>4

(* The receive of a gradient alone. *)
LEMMA RecvBackwardPosts ==
  ASSUME NEW r \in Ranks, RecvBackward(r), pend[r] = <<>>
  PROVE  pend' = [pend EXCEPT ![r] = IF r < P - 1 THEN <<GradFrom(r)>> ELSE <<>>]
<1>1. pend' = [pend EXCEPT ![r] =
         <<>> \o Communicate(TRUE, r, NoTensor, NoRecv, NoTensor, FromNext(r), "sync")]
  BY DEF RecvBackward, Call
<1>2. Communicate(TRUE, r, NoTensor, NoRecv, NoTensor, FromNext(r), "sync")
        = SendOp(PrevRank(r), NoTensor, "sync")
            \o RecvOp(PrevRank(r), "input", NoRecv, "sync")
            \o SendOp(NextRank(r), NoTensor, "sync")
            \o RecvOp(NextRank(r), "grad", FromNext(r), "sync")
  BY DEF Communicate, BatchedOps
<1>3. CASE r < P - 1
  <2>1. Communicate(TRUE, r, NoTensor, NoRecv, NoTensor, FromNext(r), "sync")
          = <<>> \o <<>> \o <<>> \o <<GradFrom(r)>>
    BY <1>2, <1>3, GradAsked, NothingPosted, Zenon
  <2>2. QED
    BY <1>1, <1>3, <2>1, JoinFacts, Zenon
<1>4. CASE ~(r < P - 1)
  <2>1. Communicate(TRUE, r, NoTensor, NoRecv, NoTensor, FromNext(r), "sync")
          = <<>> \o <<>> \o <<>> \o <<>>
    BY <1>2, <1>4, GradAsked, NothingPosted, Zenon
  <2>2. QED
    BY <1>1, <1>4, <2>1, JoinFacts, Zenon
<1>5. QED
  BY <1>3, <1>4

(* A rank's own tensors are never None. *)
LEMMA OwnTensor ==
  ASSUME NEW r \in Ranks, NEW n
  PROVE  Tensor(r, n) # NoTensor
<1>1. Tensor(r, n).stage = r /\ NoTensor.stage = -1
  BY DEF Tensor, NoTensor
<1>2. QED
  BY <1>1, PAssumption DEF Ranks

(* The send of an activation, if there is a rank behind. *)
LEMMA ActSent ==
  ASSUME NEW r \in Ranks, NEW t, t.drawn \in Int
  PROVE  SendOp(NextRank(r), ToNext(r, Tensor(r, t.drawn - 1)), "sync")
           = IF r < P - 1 THEN <<ActTo(r, t)>> ELSE <<>>
<1>1. CASE r < P - 1
  BY <1>1, PeerFacts, OwnTensor, PAssumption DEF SendOp, ToNext, ActTo, Ranks
<1>2. CASE r = P - 1
  BY <1>2, PeerFacts, PAssumption DEF SendOp, ToNext
<1>3. QED
  BY <1>1, <1>2, PAssumption DEF Ranks

(* The send of a gradient, if there is a rank before. *)
LEMMA GradSent ==
  ASSUME NEW r \in Ranks, NEW t, t.bwd \in Int, NEW g, r > 0 => g = Tensor(r, t.bwd - 1)
  PROVE  SendOp(PrevRank(r), ToPrev(r, g), "sync")
           = IF r > 0 THEN <<GradTo(r, t)>> ELSE <<>>
<1>1. CASE r > 0
  BY <1>1, PeerFacts, OwnTensor, PAssumption DEF SendOp, ToPrev, GradTo, Ranks
<1>2. CASE r = 0
  BY <1>2, PeerFacts, PAssumption DEF SendOp, ToPrev
<1>3. QED
  BY <1>1, <1>2, PAssumption DEF Ranks

(* The send of an activation alone. *)
LEMMA SendForwardPosts ==
  ASSUME NEW r \in Ranks, NEW t, t.drawn \in Int, pend[r] = <<>>,
         SendForward(r, Tensor(r, t.drawn - 1))
  PROVE  pend' = [pend EXCEPT ![r] = IF r < P - 1 THEN <<ActTo(r, t)>> ELSE <<>>]
<1>1. pend' = [pend EXCEPT ![r] =
         <<>> \o Communicate(TRUE, r, NoTensor, NoRecv,
                             ToNext(r, Tensor(r, t.drawn - 1)), NoRecv, "sync")]
  BY DEF SendForward, Call
<1>2. Communicate(TRUE, r, NoTensor, NoRecv, ToNext(r, Tensor(r, t.drawn - 1)), NoRecv, "sync")
        = SendOp(PrevRank(r), NoTensor, "sync")
            \o RecvOp(PrevRank(r), "input", NoRecv, "sync")
            \o SendOp(NextRank(r), ToNext(r, Tensor(r, t.drawn - 1)), "sync")
            \o RecvOp(NextRank(r), "grad", NoRecv, "sync")
  BY DEF Communicate, BatchedOps
<1>3. CASE r < P - 1
  <2>1. Communicate(TRUE, r, NoTensor, NoRecv, ToNext(r, Tensor(r, t.drawn - 1)), NoRecv, "sync")
          = <<>> \o <<>> \o <<ActTo(r, t)>> \o <<>>
    BY <1>2, <1>3, ActSent, NothingPosted, Zenon
  <2>2. QED
    BY <1>1, <1>3, <2>1, JoinFacts, Zenon
<1>4. CASE ~(r < P - 1)
  <2>1. Communicate(TRUE, r, NoTensor, NoRecv, ToNext(r, Tensor(r, t.drawn - 1)), NoRecv, "sync")
          = <<>> \o <<>> \o <<>> \o <<>>
    BY <1>2, <1>4, ActSent, NothingPosted, Zenon
  <2>2. QED
    BY <1>1, <1>4, <2>1, JoinFacts, Zenon
<1>5. QED
  BY <1>3, <1>4

(* The send of an activation with the receive of a gradient. *)
LEMMA SendForwardRecvBackwardPosts ==
  ASSUME NEW r \in Ranks, NEW t, t.drawn \in Int, pend[r] = <<>>,
         SendForwardRecvBackward(r, Tensor(r, t.drawn - 1))
  PROVE  pend' = [pend EXCEPT ![r] = IF r < P - 1 THEN <<ActTo(r, t), GradFrom(r)>> ELSE <<>>]
<1>1. pend' = [pend EXCEPT ![r] =
         <<>> \o Communicate(TRUE, r, NoTensor, NoRecv,
                             ToNext(r, Tensor(r, t.drawn - 1)), FromNext(r), "sync")]
  BY DEF SendForwardRecvBackward, Call
<1>2. Communicate(TRUE, r, NoTensor, NoRecv, ToNext(r, Tensor(r, t.drawn - 1)), FromNext(r), "sync")
        = SendOp(PrevRank(r), NoTensor, "sync")
            \o RecvOp(PrevRank(r), "input", NoRecv, "sync")
            \o SendOp(NextRank(r), ToNext(r, Tensor(r, t.drawn - 1)), "sync")
            \o RecvOp(NextRank(r), "grad", FromNext(r), "sync")
  BY DEF Communicate, BatchedOps
<1>3. CASE r < P - 1
  <2>1. Communicate(TRUE, r, NoTensor, NoRecv, ToNext(r, Tensor(r, t.drawn - 1)), FromNext(r), "sync")
          = <<>> \o <<>> \o <<ActTo(r, t)>> \o <<GradFrom(r)>>
    BY <1>2, <1>3, GradAsked, ActSent, NothingPosted, Zenon
  <2>2. <<>> \o <<>> = <<>> /\ <<>> \o <<ActTo(r, t)>> = <<ActTo(r, t)>>
    BY JoinFacts
  <2>3. <<ActTo(r, t)>> \o <<GradFrom(r)>> = <<ActTo(r, t), GradFrom(r)>>
    BY JoinFacts
  <2>4. <<>> \o <<ActTo(r, t), GradFrom(r)>> = <<ActTo(r, t), GradFrom(r)>>
    BY JoinFacts
  <2>5. QED
    BY <1>1, <1>3, <2>1, <2>2, <2>3, <2>4, Zenon
<1>4. CASE ~(r < P - 1)
  <2>1. Communicate(TRUE, r, NoTensor, NoRecv, ToNext(r, Tensor(r, t.drawn - 1)), FromNext(r), "sync")
          = <<>> \o <<>> \o <<>> \o <<>>
    BY <1>2, <1>4, GradAsked, ActSent, NothingPosted, Zenon
  <2>2. QED
    BY <1>1, <1>4, <2>1, JoinFacts, Zenon
<1>5. QED
  BY <1>3, <1>4

(* The send of a gradient alone. *)
LEMMA SendBackwardPosts ==
  ASSUME NEW r \in Ranks, NEW t, t.bwd \in Int, NEW g, r > 0 => g = Tensor(r, t.bwd - 1),
         pend[r] = <<>>, SendBackward(r, g)
  PROVE  pend' = [pend EXCEPT ![r] = IF r > 0 THEN <<GradTo(r, t)>> ELSE <<>>]
<1>1. pend' = [pend EXCEPT ![r] =
         <<>> \o Communicate(TRUE, r, ToPrev(r, g), NoRecv, NoTensor, NoRecv, "sync")]
  BY DEF SendBackward, Call
<1>2. Communicate(TRUE, r, ToPrev(r, g), NoRecv, NoTensor, NoRecv, "sync")
        = SendOp(PrevRank(r), ToPrev(r, g), "sync")
            \o RecvOp(PrevRank(r), "input", NoRecv, "sync")
            \o SendOp(NextRank(r), NoTensor, "sync")
            \o RecvOp(NextRank(r), "grad", NoRecv, "sync")
  BY DEF Communicate, BatchedOps
<1>3. CASE r > 0
  <2>1. Communicate(TRUE, r, ToPrev(r, g), NoRecv, NoTensor, NoRecv, "sync")
          = <<GradTo(r, t)>> \o <<>> \o <<>> \o <<>>
    BY <1>2, <1>3, GradSent, NothingPosted, Zenon
  <2>2. QED
    BY <1>1, <1>3, <2>1, JoinFacts, Zenon
<1>4. CASE ~(r > 0)
  <2>1. Communicate(TRUE, r, ToPrev(r, g), NoRecv, NoTensor, NoRecv, "sync")
          = <<>> \o <<>> \o <<>> \o <<>>
    BY <1>2, <1>4, GradSent, NothingPosted, Zenon
  <2>2. QED
    BY <1>1, <1>4, <2>1, JoinFacts, Zenon
<1>5. QED
  BY <1>3, <1>4

(* The send of a gradient with the receive of an activation. *)
LEMMA SendBackwardRecvForwardPosts ==
  ASSUME NEW r \in Ranks, NEW t, t.bwd \in Int, NEW g, r > 0 => g = Tensor(r, t.bwd - 1),
         pend[r] = <<>>, SendBackwardRecvForward(r, g)
  PROVE  pend' = [pend EXCEPT ![r] = IF r > 0 THEN <<GradTo(r, t), ActFrom(r)>> ELSE <<>>]
<1>1. pend' = [pend EXCEPT ![r] =
         <<>> \o Communicate(TRUE, r, ToPrev(r, g), FromPrev(r), NoTensor, NoRecv, "sync")]
  BY DEF SendBackwardRecvForward, Call
<1>2. Communicate(TRUE, r, ToPrev(r, g), FromPrev(r), NoTensor, NoRecv, "sync")
        = SendOp(PrevRank(r), ToPrev(r, g), "sync")
            \o RecvOp(PrevRank(r), "input", FromPrev(r), "sync")
            \o SendOp(NextRank(r), NoTensor, "sync")
            \o RecvOp(NextRank(r), "grad", NoRecv, "sync")
  BY DEF Communicate, BatchedOps
<1>3. CASE r > 0
  <2>1. Communicate(TRUE, r, ToPrev(r, g), FromPrev(r), NoTensor, NoRecv, "sync")
          = <<GradTo(r, t)>> \o <<ActFrom(r)>> \o <<>> \o <<>>
    BY <1>2, <1>3, ActAsked, GradSent, NothingPosted, Zenon
  <2>2. <<GradTo(r, t)>> \o <<ActFrom(r)>> = <<GradTo(r, t), ActFrom(r)>>
    BY JoinFacts
  <2>3. <<GradTo(r, t), ActFrom(r)>> \o <<>> = <<GradTo(r, t), ActFrom(r)>>
    BY JoinFacts
  <2>4. /\ <<>> \o <<GradTo(r, t), ActFrom(r)>> = <<GradTo(r, t), ActFrom(r)>>
        /\ <<>> \o <<>> = <<>>
    BY JoinFacts
  <2>5. QED
    BY <1>1, <1>3, <2>1, <2>2, <2>3, <2>4, Zenon
<1>4. CASE ~(r > 0)
  <2>1. Communicate(TRUE, r, ToPrev(r, g), FromPrev(r), NoTensor, NoRecv, "sync")
          = <<>> \o <<>> \o <<>> \o <<>>
    BY <1>2, <1>4, ActAsked, GradSent, NothingPosted, Zenon
  <2>2. QED
    BY <1>1, <1>4, <2>1, JoinFacts, Zenon
<1>5. QED
  BY <1>3, <1>4

-----------------------------------------------------------------------------
(* The forward and the backward step of a rank that holds the right tensors. *)

(* The type of a rank is that of its configuration. *)
LEMMA LocalTypeIsRankType == RankType = LocalType(conf)
BY DEF RankType, LocalType, M

(* A forward step on the right input makes the tensor of its microbatch. *)
LEMMA ForwardOutputFacts ==
  ASSUME conf \in Configs, NEW r \in Ranks, NEW s \in LocalType(conf),
         s.input_tensor = From(r - 1, s.drawn)
  PROVE  ForwardOutput(s, r) = Tensor(r, s.drawn)
<1>1. s.drawn \in Nat
  BY ConfFacts DEF LocalType
<1>2. CASE r = 0
  BY <1>2, PeerFacts DEF ForwardOutput
<1>3. CASE r # 0
  <2>1. r - 1 \in Ranks
    BY <1>3, PAssumption DEF Ranks
  <2>2. s.input_tensor.mb = s.drawn
    <3>1. s.drawn \in Int /\ r - 1 \in Int
      BY <1>1, PeerFacts
    <3>2. From(r - 1, s.drawn).mb = s.drawn
      BY <2>1, <3>1, FromFacts, Zenon
    <3>3. QED
      BY <3>2
  <2>3. ~FirstStage(r)
    BY <1>3, PeerFacts
  <2>4. ~(s.input_tensor.mb < 0 \/ (LastStage(r) /\ s.input_tensor.mb # s.drawn))
    BY <1>1, <2>2
  <2>5. QED
    BY <2>2, <2>3, <2>4 DEF ForwardOutput
<1>4. QED
  BY <1>2, <1>3

(* A forward step keeps types and saves the tensors of its microbatch. *)
LEMMA ForwardStepFacts ==
  ASSUME conf \in Configs, NEW r \in Ranks, NEW s \in LocalType(conf),
         s.drawn < conf.microbatches, s.bwd <= s.drawn,
         s.input_tensor = From(r - 1, s.drawn), Saved(conf, r, s),
         NEW f, f = ForwardStep(s, r)
  PROVE  /\ f \in LocalType(conf)
         /\ f.drawn = s.drawn + 1 /\ f.bwd = s.bwd /\ f.phase = s.phase /\ f.i = s.i
         /\ f.input_tensor = s.input_tensor /\ f.output_tensor_grad = s.output_tensor_grad
         /\ f.no_sync = s.no_sync /\ f.grad_syncs = s.grad_syncs
         /\ Saved(conf, r, f)
<1> DEFINE ins == IF conf.forwardOnly THEN s.input_tensors
                  ELSE Append(s.input_tensors, s.input_tensor)
           outs == IF conf.forwardOnly THEN s.output_tensors
                   ELSE Append(s.output_tensors, ForwardOutput(s, r))
<1>1. f = [s EXCEPT !.drawn = s.drawn + 1, !.input_tensors = ins, !.output_tensors = outs]
  BY DEF ForwardStep
<1>2. s.drawn \in 0 .. conf.microbatches /\ s.drawn \in Nat /\ s.bwd \in Nat /\ s.bwd \in Int
  BY ConfFacts DEF LocalType
<1>3. r \in Int /\ r - 1 \in Int /\ From(r, s.drawn) = Tensor(r, s.drawn)
  BY PeerFacts DEF From
<1>4. From(r, s.drawn) \in Tensors
  BY <1>2, <1>3, FromFacts, ConfFacts, MaxFacts
<1>5. s.input_tensors \in Seq(Tensors) /\ s.output_tensors \in Seq(Tensors)
      /\ s.input_tensor \in Tensors
  BY DEF LocalType
<1>6. outs = IF conf.forwardOnly THEN s.output_tensors
             ELSE Append(s.output_tensors, From(r, s.drawn))
  BY <1>3, ForwardOutputFacts
<1>7. ins \in Seq(Tensors) /\ outs \in Seq(Tensors)
  <2>1. Append(s.input_tensors, s.input_tensor) \in Seq(Tensors)
    BY <1>5
  <2>2. Append(s.output_tensors, From(r, s.drawn)) \in Seq(Tensors)
    BY <1>4, <1>5
  <2>3. QED
    BY <2>1, <2>2, <1>5, <1>6
<1>8. s.drawn + 1 \in 0 .. conf.microbatches
  BY <1>2, ConfFacts
<1>9. ASSUME ~conf.forwardOnly
      PROVE  /\ ins = Run(r - 1, s.bwd, s.drawn + 1 - s.bwd)
             /\ outs = Run(r, s.bwd, s.drawn + 1 - s.bwd)
  <2> DEFINE k == s.drawn - s.bwd
  <2>1. k \in Nat /\ s.bwd + k = s.drawn /\ k + 1 = s.drawn + 1 - s.bwd
    BY <1>2
  <2>2. s.output_tensors = Run(r, s.bwd, k) /\ s.input_tensors = Run(r - 1, s.bwd, k)
    BY <1>9 DEF Saved
  <2> HIDE DEF k
  <2>3. Append(Run(r, s.bwd, k), From(r, s.bwd + k)) = Run(r, s.bwd, k + 1)
    BY <1>2, <1>3, <2>1, RunAppend, Zenon
  <2>4. Append(Run(r - 1, s.bwd, k), From(r - 1, s.bwd + k)) = Run(r - 1, s.bwd, k + 1)
    BY <1>2, <1>3, <2>1, RunAppend, Zenon
  <2>5. QED
    BY <1>6, <1>9, <2>1, <2>2, <2>3, <2>4
<1>10. ASSUME conf.forwardOnly
       PROVE  ins = Run(r - 1, s.bwd, 0) /\ outs = Run(r, s.bwd, 0)
  BY <1>10 DEF Saved
<1> HIDE DEF ins, outs
<1>11. /\ f.drawn = s.drawn + 1 /\ f.bwd = s.bwd /\ f.phase = s.phase /\ f.i = s.i
       /\ f.input_tensor = s.input_tensor /\ f.output_tensor_grad = s.output_tensor_grad
       /\ f.no_sync = s.no_sync /\ f.grad_syncs = s.grad_syncs
       /\ f.input_tensors = ins /\ f.output_tensors = outs
  BY <1>1 DEF LocalType
<1>12. f \in LocalType(conf)
  BY <1>1, <1>7, <1>8 DEF LocalType
<1>13. Saved(conf, r, f)
  <2>1. CASE conf.forwardOnly
    BY <1>10, <1>11, <2>1 DEF Saved
  <2>2. CASE ~conf.forwardOnly
    <3>1. f.drawn - f.bwd = s.drawn + 1 - s.bwd /\ f.bwd = s.bwd
      BY <1>2, <1>11
    <3>2. /\ f.output_tensors = Run(r, f.bwd, f.drawn - f.bwd)
          /\ f.input_tensors = Run(r - 1, f.bwd, f.drawn - f.bwd)
      BY <3>1, <1>9, <1>11, <2>2, Zenon
    <3> DEFINE kept == IF conf.forwardOnly THEN 0 ELSE f.drawn - f.bwd
    <3>3. kept = f.drawn - f.bwd
      BY <2>2
    <3>4. Saved(conf, r, f) <=> /\ f.output_tensors = Run(r, f.bwd, kept)
                                /\ f.input_tensors = Run(r - 1, f.bwd, kept)
      BY DEF Saved
    <3> HIDE DEF kept
    <3>5. QED
      BY <3>2, <3>3, <3>4
  <2>3. QED
    BY <2>1, <2>2
<1>14. QED
  BY <1>11, <1>12, <1>13

(* A backward step on the right gradient makes that of its microbatch. *)
LEMMA BackwardOutputFacts ==
  ASSUME conf \in Configs, NEW r \in Ranks, NEW s \in LocalType(conf),
         ~conf.forwardOnly, s.bwd < s.drawn,
         s.output_tensor_grad = From(r + 1, s.bwd), Saved(conf, r, s)
  PROVE  r > 0 => BackwardOutput(s, r) = Tensor(r, s.bwd)
<1> SUFFICES ASSUME r > 0 PROVE BackwardOutput(s, r) = Tensor(r, s.bwd)
  OBVIOUS
<1> DEFINE k == s.drawn - s.bwd
<1>1. s.bwd \in Int /\ k \in Nat /\ k > 0 /\ r \in Int /\ r - 1 \in Int /\ r + 1 \in Int
  BY ConfFacts, PeerFacts DEF LocalType
<1>2. s.output_tensors = Run(r, s.bwd, k) /\ s.input_tensors = Run(r - 1, s.bwd, k)
  BY DEF Saved
<1> HIDE DEF k
<1>3. Head(s.output_tensors) = From(r, s.bwd) /\ Head(s.input_tensors) = From(r - 1, s.bwd)
  <2>1. Head(Run(r, s.bwd, k)) = From(r, s.bwd)
    BY <1>1, RunFacts, Zenon
  <2>2. Head(Run(r - 1, s.bwd, k)) = From(r - 1, s.bwd)
    BY <1>1, RunFacts, Zenon
  <2>3. QED
    BY <1>2, <2>1, <2>2
<1>4. r - 1 \in Ranks
  BY PAssumption DEF Ranks
<1>5. Head(s.input_tensors) # NoTensor /\ Head(s.output_tensors).mb = s.bwd
  BY <1>1, <1>3, <1>4, FromFacts
<1>6. s.output_tensor_grad.mb = s.bwd \/ (s.output_tensor_grad = NoTensor /\ LastStage(r))
  <2>1. CASE r + 1 \in Ranks
    BY <2>1, <1>1, FromFacts
  <2>2. CASE r + 1 \notin Ranks
    <3>1. r = P - 1
      BY <2>2, PAssumption DEF Ranks
    <3>2. QED
      BY <2>2, <3>1, <1>1, FromFacts, PeerFacts
  <2>3. QED
    BY <2>1, <2>2
<1>7. QED
  BY <1>5, <1>6 DEF BackwardOutput

(* A backward step keeps types and drops the oldest tensors. *)
LEMMA BackwardStepFacts ==
  ASSUME conf \in Configs, NEW r \in Ranks, NEW s \in LocalType(conf),
         ~conf.forwardOnly, s.bwd < s.drawn, Saved(conf, r, s),
         s.no_sync = TRUE, s.grad_syncs = <<>>,
         NEW enabled \in BOOLEAN
  PROVE  LET f == BackwardStep(s, r, enabled) IN
         /\ f \in LocalType(conf)
         /\ f.bwd = s.bwd + 1 /\ f.drawn = s.drawn /\ f.phase = s.phase /\ f.i = s.i
         /\ f.input_tensor = s.input_tensor /\ f.output_tensor_grad = s.output_tensor_grad
         /\ f.no_sync = ~enabled
         /\ f.grad_syncs = IF enabled THEN <<s.bwd + 1>> ELSE <<>>
         /\ Saved(conf, r, f)
<1> DEFINE ins == Tail(s.input_tensors)
           outs == Tail(s.output_tensors)
           syncs == IF enabled THEN <<s.bwd + 1>> ELSE <<>>
           b == ~enabled
           f == BackwardStep(s, r, enabled)
<1>1. f = [s EXCEPT !.bwd = s.bwd + 1, !.input_tensors = ins, !.output_tensors = outs,
                    !.no_sync = b, !.grad_syncs = syncs]
  <2>1. (s.no_sync /\ ~enabled) = b
    OBVIOUS
  <2>2. (IF s.no_sync /\ ~enabled THEN s.grad_syncs ELSE Append(s.grad_syncs, s.bwd + 1)) = syncs
    <3>1. Append(<<>>, s.bwd + 1) = <<s.bwd + 1>>
      OBVIOUS
    <3>2. QED
      BY <3>1
  <2> HIDE DEF b, syncs
  <2>3. QED
    BY <2>1, <2>2 DEF BackwardStep
<1>2. /\ s.drawn \in 0 .. conf.microbatches /\ s.bwd \in 0 .. conf.microbatches
      /\ s.bwd \in Int /\ r \in Int /\ r - 1 \in Int
  BY ConfFacts, PeerFacts DEF LocalType
<1>3. ins = Run(r - 1, s.bwd + 1, s.drawn - (s.bwd + 1))
      /\ outs = Run(r, s.bwd + 1, s.drawn - (s.bwd + 1))
  <2> DEFINE k == s.drawn - s.bwd
  <2>1. k \in Nat /\ k > 0 /\ k - 1 = s.drawn - (s.bwd + 1)
    BY <1>2, ConfFacts
  <2>2. s.output_tensors = Run(r, s.bwd, k) /\ s.input_tensors = Run(r - 1, s.bwd, k)
    BY DEF Saved
  <2> HIDE DEF k
  <2>3. Tail(Run(r, s.bwd, k)) = Run(r, s.bwd + 1, k - 1)
    BY <1>2, <2>1, RunTail
  <2>4. Tail(Run(r - 1, s.bwd, k)) = Run(r - 1, s.bwd + 1, k - 1)
    BY <1>2, <2>1, RunTail
  <2>5. QED
    BY <2>1, <2>2, <2>3, <2>4
<1>4. s.bwd + 1 \in 0 .. conf.microbatches
  BY <1>2, ConfFacts
<1>5. syncs \in Seq(0 .. conf.microbatches) /\ b \in BOOLEAN
  <2>1. <<s.bwd + 1>> \in Seq(0 .. conf.microbatches)
    BY <1>4
  <2>2. syncs \in Seq(0 .. conf.microbatches)
    <3>1. <<>> \in Seq(0 .. conf.microbatches)
      OBVIOUS
    <3>2. QED
      BY <2>1, <3>1, Zenon
  <2>3. b \in BOOLEAN
    OBVIOUS
  <2>4. QED
    BY <2>2, <2>3
<1>6. ins \in Seq(Tensors) /\ outs \in Seq(Tensors)
  <2> DEFINE k == s.drawn - (s.bwd + 1)
  <2>1. k \in Nat
    BY <1>2, ConfFacts
  <2>2. \A n \in 1 .. k : From(r, s.bwd + 1 + n - 1) \in Tensors
                          /\ From(r - 1, s.bwd + 1 + n - 1) \in Tensors
    <3> TAKE n \in 1 .. k
    <3>1. /\ s.bwd + 1 + n - 1 \in Int /\ s.bwd + 1 + n - 1 >= 0
          /\ s.bwd + 1 + n - 1 < MaxMicrobatches
      BY <1>2, ConfFacts, MaxFacts
    <3>2. QED
      BY <3>1, <1>2, FromFacts
  <2> HIDE DEF k
  <2>3. Run(r, s.bwd + 1, k) \in Seq(Tensors) /\ Run(r - 1, s.bwd + 1, k) \in Seq(Tensors)
    BY <2>1, <2>2 DEF Run
  <2>4. QED
    BY <2>3, <1>3 DEF k
<1> HIDE DEF ins, outs, syncs, b, f
<1>7. /\ f.bwd = s.bwd + 1 /\ f.drawn = s.drawn /\ f.phase = s.phase /\ f.i = s.i
      /\ f.input_tensor = s.input_tensor /\ f.output_tensor_grad = s.output_tensor_grad
      /\ f.no_sync = b /\ f.grad_syncs = syncs
      /\ f.input_tensors = ins /\ f.output_tensors = outs
  BY <1>1 DEF LocalType
<1>8. f \in LocalType(conf)
  BY <1>1, <1>4, <1>5, <1>6 DEF LocalType
<1>9. Saved(conf, r, f)
  BY <1>3, <1>7 DEF Saved
<1>10. QED
  BY <1>7, <1>8, <1>9 DEF b, syncs, f

-----------------------------------------------------------------------------
(* What a rank has under way, by the operations it has posted. *)
LEMMA TrafficFacts ==
  ASSUME NEW r \in Ranks, NEW s
  PROVE  /\ /\ ~Sends(<<>>, r + 1) /\ ~Sends(<<>>, r - 1)
            /\ ~Recvs(<<>>, r + 1) /\ ~Recvs(<<>>, r - 1)
         /\ /\ Sends(<<ActTo(r, s)>>, r + 1) /\ ~Sends(<<ActTo(r, s)>>, r - 1)
            /\ ~Recvs(<<ActTo(r, s)>>, r + 1) /\ ~Recvs(<<ActTo(r, s)>>, r - 1)
         /\ /\ ~Sends(<<GradTo(r, s)>>, r + 1) /\ Sends(<<GradTo(r, s)>>, r - 1)
            /\ ~Recvs(<<GradTo(r, s)>>, r + 1) /\ ~Recvs(<<GradTo(r, s)>>, r - 1)
         /\ /\ ~Sends(<<ActFrom(r)>>, r + 1) /\ ~Sends(<<ActFrom(r)>>, r - 1)
            /\ ~Recvs(<<ActFrom(r)>>, r + 1) /\ Recvs(<<ActFrom(r)>>, r - 1)
         /\ /\ ~Sends(<<GradFrom(r)>>, r + 1) /\ ~Sends(<<GradFrom(r)>>, r - 1)
            /\ Recvs(<<GradFrom(r)>>, r + 1) /\ ~Recvs(<<GradFrom(r)>>, r - 1)
         /\ /\ Sends(<<ActTo(r, s), GradFrom(r)>>, r + 1)
            /\ ~Sends(<<ActTo(r, s), GradFrom(r)>>, r - 1)
            /\ Recvs(<<ActTo(r, s), GradFrom(r)>>, r + 1)
            /\ ~Recvs(<<ActTo(r, s), GradFrom(r)>>, r - 1)
         /\ /\ ~Sends(<<GradTo(r, s), ActFrom(r)>>, r + 1)
            /\ Sends(<<GradTo(r, s), ActFrom(r)>>, r - 1)
            /\ ~Recvs(<<GradTo(r, s), ActFrom(r)>>, r + 1)
            /\ Recvs(<<GradTo(r, s), ActFrom(r)>>, r - 1)
<1>1. r + 1 # r - 1 /\ r - 1 # r + 1
  BY PeerFacts
<1>2. ASSUME NEW a, NEW p, NEW o, a.peer = p, p # o
      PROVE  /\ ~Sends(<<a>>, o) /\ ~Recvs(<<a>>, o)
             /\ a.kind = "send" => Sends(<<a>>, p) /\ ~Recvs(<<a>>, p)
             /\ a.kind = "recv" => Recvs(<<a>>, p) /\ ~Sends(<<a>>, p)
  BY <1>2, QueueFacts
<1>3. ASSUME NEW a, NEW b, NEW p, NEW o, a.peer = p, b.peer = p, p # o,
             a.kind = "send", b.kind = "recv"
      PROVE  /\ Sends(<<a, b>>, p) /\ ~Sends(<<a, b>>, o)
             /\ Recvs(<<a, b>>, p) /\ ~Recvs(<<a, b>>, o)
  BY <1>3, QueueFacts
<1>4. /\ ActTo(r, s).kind = "send" /\ ActTo(r, s).peer = r + 1
      /\ GradTo(r, s).kind = "send" /\ GradTo(r, s).peer = r - 1
      /\ ActFrom(r).kind = "recv" /\ ActFrom(r).peer = r - 1
      /\ GradFrom(r).kind = "recv" /\ GradFrom(r).peer = r + 1
      /\ "send" # "recv" /\ "recv" # "send"
  BY OpFacts
<1>5. /\ ~Sends(<<>>, r + 1) /\ ~Sends(<<>>, r - 1)
      /\ ~Recvs(<<>>, r + 1) /\ ~Recvs(<<>>, r - 1)
  BY QueueFacts
<1>6. /\ Sends(<<ActTo(r, s)>>, r + 1) /\ ~Sends(<<ActTo(r, s)>>, r - 1)
      /\ ~Recvs(<<ActTo(r, s)>>, r + 1) /\ ~Recvs(<<ActTo(r, s)>>, r - 1)
  BY <1>1, <1>2, <1>4, Zenon
<1>7. /\ ~Sends(<<GradTo(r, s)>>, r + 1) /\ Sends(<<GradTo(r, s)>>, r - 1)
      /\ ~Recvs(<<GradTo(r, s)>>, r + 1) /\ ~Recvs(<<GradTo(r, s)>>, r - 1)
  BY <1>1, <1>2, <1>4, Zenon
<1>8. /\ ~Sends(<<ActFrom(r)>>, r + 1) /\ ~Sends(<<ActFrom(r)>>, r - 1)
      /\ ~Recvs(<<ActFrom(r)>>, r + 1) /\ Recvs(<<ActFrom(r)>>, r - 1)
  BY <1>1, <1>2, <1>4, Zenon
<1>9. /\ ~Sends(<<GradFrom(r)>>, r + 1) /\ ~Sends(<<GradFrom(r)>>, r - 1)
      /\ Recvs(<<GradFrom(r)>>, r + 1) /\ ~Recvs(<<GradFrom(r)>>, r - 1)
  BY <1>1, <1>2, <1>4, Zenon
<1>10. /\ Sends(<<ActTo(r, s), GradFrom(r)>>, r + 1)
      /\ ~Sends(<<ActTo(r, s), GradFrom(r)>>, r - 1)
      /\ Recvs(<<ActTo(r, s), GradFrom(r)>>, r + 1)
      /\ ~Recvs(<<ActTo(r, s), GradFrom(r)>>, r - 1)
  BY <1>1, <1>4, <1>3, Zenon
<1>11. /\ ~Sends(<<GradTo(r, s), ActFrom(r)>>, r + 1)
       /\ Sends(<<GradTo(r, s), ActFrom(r)>>, r - 1)
       /\ ~Recvs(<<GradTo(r, s), ActFrom(r)>>, r + 1)
       /\ Recvs(<<GradTo(r, s), ActFrom(r)>>, r - 1)
  BY <1>1, <1>4, <1>3, Zenon
<1>12. QED
  BY <1>5, <1>6, <1>7, <1>8, <1>9, <1>10, <1>11

(* A step of rank r from s, q to t, u: it keeps the local invariant, what    *)
(* the links count, and the order of the passes.                             *)
Advances(cf, r, s, q, t, u) ==
  /\ LocalInv(cf, r, t, u)
  /\ r < P - 1 => /\ ActsOut(r, t, u) = ActsOut(r, s, q)
                  /\ GradsIn(r, t, u) = GradsIn(r, s, q)
  /\ r > 0 => /\ ActsIn(r, t, u) = ActsIn(r, s, q)
              /\ GradsOut(r, t, u) = GradsOut(r, s, q)
  /\ \/ t.drawn = s.drawn /\ t.bwd = s.bwd
     \/ /\ t.drawn = s.drawn + 1 /\ t.bwd = s.bwd
        /\ s.drawn < cf.microbatches /\ (r > 0 => ActsIn(r, s, q) = s.drawn + 1)
     \/ /\ t.drawn = s.drawn /\ t.bwd = s.bwd + 1
        /\ s.bwd < s.drawn /\ (r < P - 1 => GradsIn(r, s, q) = s.bwd + 1)

(* The step of rank r as a whole. *)
Moves(r) ==
  /\ conf' = conf
  /\ rank' = [rank EXCEPT ![r] = rank'[r]]
  /\ pend' = [pend EXCEPT ![r] = pend'[r]]
  /\ Advances(conf, r, rank[r], pend[r], rank'[r], pend'[r])

(* The state of a rank that has nothing outstanding. *)
LEMMA IdleFacts ==
  ASSUME NEW r \in Ranks, NEW s, Held(r, s, <<>>)
  PROVE  /\ s.phase \in {"warmup_fwd", "steady_fwd"} => s.input_tensor = From(r - 1, s.drawn)
         /\ s.phase \in {"steady_bwd", "cooldown_bwd"} => s.output_tensor_grad = From(r + 1, s.bwd)
BY TrafficFacts DEF Held

(* A receive buffer is empty until it is filled. *)
LEMMA BufferFacts ==
  /\ Buffer(TRUE) = Empty /\ Buffer(FALSE) = NoTensor
  /\ Empty \in Tensors /\ NoTensor \in Tensors
BY DEF Buffer, Tensors

(* Posting the receive of the next input, in warmup or before the loop. *)
LEMMA RecvForwardMoves ==
  ASSUME conf \in Configs, rank \in [Ranks -> LocalType(conf)], NEW r \in Ranks,
         LocalInv(conf, r, rank[r], pend[r]), pend \in PendType,
         NEW from, NEW to,
         \/ from = "warmup_recv" /\ to = "warmup_fwd"
         \/ from = "first_recv" /\ to = "steady_fwd",
         Ready(r, from),
         rank' = [rank EXCEPT ![r].phase = to, ![r].input_tensor = Buffer(~FirstStage(r))],
         RecvForward(r), conf' = conf
  PROVE  Moves(r)
<1> DEFINE s == rank[r]
           x == Buffer(~FirstStage(r))
           t == [s EXCEPT !.phase = to, !.input_tensor = x]
           u == IF r > 0 THEN <<ActFrom(r)>> ELSE <<>>
<1>1. pend[r] = <<>> /\ s.phase = from
  BY ReadyIsIdle DEF LocalInv
<1>2. pend' = [pend EXCEPT ![r] = u] /\ pend'[r] = u
  BY <1>1, RecvForwardPosts DEF PendType
<1>3. rank' = [rank EXCEPT ![r] = t] /\ rank'[r] = t
  OBVIOUS
<1>4. s \in LocalType(conf)
  OBVIOUS
<1>5. x = (IF r > 0 THEN Empty ELSE NoTensor) /\ x \in Tensors
  <2>1. CASE r > 0
    BY <2>1, BufferFacts, PAssumption DEF Ranks, FirstStage, Buffer
  <2>2. CASE r = 0
    BY <2>2, BufferFacts, PAssumption DEF Ranks, FirstStage, Buffer
  <2>3. QED
    BY <2>1, <2>2, PAssumption DEF Ranks
<1> HIDE DEF x
<1>6. /\ t.phase = to /\ t.input_tensor = x /\ t.i = s.i /\ t.drawn = s.drawn /\ t.bwd = s.bwd
      /\ t.input_tensors = s.input_tensors /\ t.output_tensors = s.output_tensors
      /\ t.no_sync = s.no_sync /\ t.grad_syncs = s.grad_syncs
      /\ t.output_tensor_grad = s.output_tensor_grad
  BY <1>4 DEF LocalType
<1>7. t \in LocalType(conf)
  BY <1>4, <1>5 DEF LocalType
<1> HIDE DEF t
<1>8. Counters(conf, r, t)
  BY <1>1, <1>4, <1>6, WarmFacts, ConfFacts DEF LocalInv, Counters, LocalType
<1>9. Saved(conf, r, t)
  BY <1>6 DEF LocalInv, Saved
<1>10. Posted(r, t, u)
  BY <1>6 DEF Posted
<1>11. Held(r, t, u)
  <2>1. CASE r > 0
    BY <2>1, <1>5, <1>6, TrafficFacts DEF Held
  <2>2. CASE ~(r > 0)
    <3>1. r - 1 \in Int /\ r - 1 \notin Ranks /\ t.drawn \in Int
      BY <2>2, <1>7, ConfFacts, PAssumption DEF Ranks, LocalType
    <3>2. From(r - 1, t.drawn) = NoTensor
      BY <3>1, FromFacts
    <3>3. QED
      BY <2>2, <3>2, <1>5, <1>6, TrafficFacts DEF Held
  <2>3. QED
    BY <2>1, <2>2
<1>12. Synced(conf, r, t)
  BY <1>1, <1>6 DEF LocalInv, Synced
<1>13. LocalInv(conf, r, t, u)
  BY <1>7, <1>8, <1>9, <1>10, <1>11, <1>12 DEF LocalInv
<1>14. ASSUME r > 0
       PROVE  ActsIn(r, t, u) = ActsIn(r, s, <<>>) /\ GradsOut(r, t, u) = GradsOut(r, s, <<>>)
  BY <1>1, <1>6, <1>14, TrafficFacts DEF ActsIn, GradsOut
<1>15. ActsOut(r, t, u) = ActsOut(r, s, <<>>) /\ GradsIn(r, t, u) = GradsIn(r, s, <<>>)
  BY <1>1, <1>6, TrafficFacts DEF ActsOut, GradsIn
<1>16. Advances(conf, r, s, <<>>, t, u)
  BY <1>6, <1>13, <1>14, <1>15 DEF Advances
<1>17. QED
  BY <1>1, <1>2, <1>3, <1>16 DEF Moves

(* Posting the receive of the next gradient, in cooldown. *)
LEMMA RecvBackwardMoves ==
  ASSUME conf \in Configs, rank \in [Ranks -> LocalType(conf)], NEW r \in Ranks,
         LocalInv(conf, r, rank[r], pend[r]), pend \in PendType, CooldownRecv(r)
  PROVE  Moves(r)
<1> DEFINE s == rank[r]
           x == Buffer(~LastStage(r))
           t == [s EXCEPT !.phase = "cooldown_bwd", !.output_tensor_grad = x]
           u == IF r < P - 1 THEN <<GradFrom(r)>> ELSE <<>>
<1>1. pend[r] = <<>> /\ s.phase = "cooldown_recv"
  BY ReadyIsIdle DEF LocalInv, CooldownRecv
<1>2. pend' = [pend EXCEPT ![r] = u] /\ pend'[r] = u
  BY <1>1, RecvBackwardPosts DEF CooldownRecv, PendType
<1>3. rank' = [rank EXCEPT ![r] = t] /\ rank'[r] = t /\ conf' = conf
  BY DEF CooldownRecv
<1>4. s \in LocalType(conf)
  OBVIOUS
<1>5. x = (IF r < P - 1 THEN Empty ELSE NoTensor) /\ x \in Tensors
  <2>1. CASE r < P - 1
    BY <2>1, BufferFacts, PAssumption DEF Ranks, LastStage, Buffer
  <2>2. CASE r = P - 1
    BY <2>2, BufferFacts, PAssumption DEF Ranks, LastStage, Buffer
  <2>3. QED
    BY <2>1, <2>2, PAssumption DEF Ranks
<1> HIDE DEF x
<1>6. /\ t.phase = "cooldown_bwd" /\ t.output_tensor_grad = x
      /\ t.i = s.i /\ t.drawn = s.drawn /\ t.bwd = s.bwd
      /\ t.input_tensors = s.input_tensors /\ t.output_tensors = s.output_tensors
      /\ t.no_sync = s.no_sync /\ t.grad_syncs = s.grad_syncs
  BY <1>4 DEF LocalType
<1>7. t \in LocalType(conf)
  BY <1>4, <1>5 DEF LocalType
<1> HIDE DEF t
<1>8. Counters(conf, r, t)
  BY <1>1, <1>4, <1>6, WarmFacts, ConfFacts DEF LocalInv, Counters, LocalType
<1>9. Saved(conf, r, t)
  BY <1>6 DEF LocalInv, Saved
<1>10. Posted(r, t, u)
  BY <1>6 DEF Posted
<1>11. Held(r, t, u)
  <2>1. CASE r < P - 1
    BY <2>1, <1>5, <1>6, TrafficFacts DEF Held
  <2>2. CASE ~(r < P - 1)
    <3>1. r + 1 \in Int /\ r + 1 \notin Ranks /\ t.bwd \in Int
      BY <2>2, <1>7, ConfFacts, PAssumption DEF Ranks, LocalType
    <3>2. From(r + 1, t.bwd) = NoTensor
      BY <3>1, FromFacts
    <3>3. QED
      BY <2>2, <3>2, <1>5, <1>6, TrafficFacts DEF Held
  <2>3. QED
    BY <2>1, <2>2
<1>12. Synced(conf, r, t)
  BY <1>1, <1>6 DEF LocalInv, Synced
<1>13. LocalInv(conf, r, t, u)
  BY <1>7, <1>8, <1>9, <1>10, <1>11, <1>12 DEF LocalInv
<1>14. ASSUME r < P - 1
       PROVE  ActsOut(r, t, u) = ActsOut(r, s, <<>>) /\ GradsIn(r, t, u) = GradsIn(r, s, <<>>)
  BY <1>1, <1>6, <1>14, TrafficFacts DEF ActsOut, GradsIn
<1>15. ActsIn(r, t, u) = ActsIn(r, s, <<>>) /\ GradsOut(r, t, u) = GradsOut(r, s, <<>>)
  BY <1>1, <1>6, TrafficFacts DEF ActsIn, GradsOut
<1>16. Advances(conf, r, s, <<>>, t, u)
  BY <1>6, <1>13, <1>14, <1>15 DEF Advances
<1>17. QED
  BY <1>1, <1>2, <1>3, <1>16 DEF Moves

(* A forward step that only sends its output on: in warmup and in evaluation. *)
LEMMA ForwardSendsMoves ==
  ASSUME conf \in Configs, rank \in [Ranks -> LocalType(conf)], NEW r \in Ranks,
         LocalInv(conf, r, rank[r], pend[r]), pend \in PendType,
         NEW from \in {"warmup_fwd", "steady_fwd"}, Ready(r, from),
         NEW to \in {"warmup_recv", "first_recv", "cooldown_recv", "done"},
         to = "done" => conf.forwardOnly,
         NEW j \in 0 .. conf.microbatches, NEW t,
         t = [ForwardStep(rank[r], r) EXCEPT !.i = j, !.phase = to], Counters(conf, r, t),
         rank' = [rank EXCEPT ![r] = t],
         SendForward(r, ForwardOutput(rank[r], r)), conf' = conf
  PROVE  Moves(r)
<1> DEFINE s == rank[r]
           u == IF r < P - 1 THEN <<ActTo(r, t)>> ELSE <<>>
<1>1. pend[r] = <<>> /\ s.phase = from
  BY ReadyIsIdle DEF LocalInv
<1>2. s \in LocalType(conf) /\ Saved(conf, r, s) /\ Held(r, s, <<>>)
  BY <1>1 DEF LocalInv
<1>3. s.input_tensor = From(r - 1, s.drawn)
  BY <1>1, <1>2, IdleFacts
<1>4. s.drawn < conf.microbatches /\ s.bwd <= s.drawn
      /\ s.drawn \in Nat /\ s.bwd \in Nat
  BY <1>1, <1>2, WarmFacts, ConfFacts DEF LocalInv, Counters, LocalType
<1> DEFINE f == ForwardStep(s, r)
<1>5. /\ f \in LocalType(conf)
      /\ f.drawn = s.drawn + 1 /\ f.bwd = s.bwd
      /\ f.no_sync = s.no_sync /\ f.grad_syncs = s.grad_syncs
      /\ Saved(conf, r, f)
  BY <1>2, <1>3, <1>4, ForwardStepFacts
<1>6. t = [f EXCEPT !.i = j, !.phase = to]
  OBVIOUS
<1> HIDE DEF f
<1>7. /\ t.phase = to /\ t.drawn = f.drawn /\ t.bwd = f.bwd
      /\ t.input_tensors = f.input_tensors /\ t.output_tensors = f.output_tensors
      /\ t.no_sync = f.no_sync /\ t.grad_syncs = f.grad_syncs
  BY <1>5, <1>6 DEF LocalType
<1>8. t \in LocalType(conf)
  BY <1>5, <1>6 DEF LocalType
<1>9. t.drawn = s.drawn + 1 /\ t.bwd = s.bwd /\ t.drawn \in Int /\ t.drawn - 1 = s.drawn
      /\ t.drawn > 0
  BY <1>4, <1>5, <1>7
<1>10. ForwardOutput(s, r) = Tensor(r, t.drawn - 1)
  BY <1>2, <1>3, <1>9, ForwardOutputFacts
<1>11. pend' = [pend EXCEPT ![r] = u] /\ pend'[r] = u
  <2>1. SendForward(r, Tensor(r, t.drawn - 1))
    BY <1>10
  <2>2. pend' = [pend EXCEPT ![r] = u]
    BY <1>1, <1>9, <2>1, SendForwardPosts
  <2>3. QED
    BY <2>2 DEF PendType
<1>12. Saved(conf, r, t)
  BY <1>5, <1>7 DEF Saved
<1>13. Posted(r, t, u)
  BY <1>7, <1>9 DEF Posted
<1>14. Held(r, t, u)
  BY <1>7 DEF Held
<1>15. Synced(conf, r, t)
  BY <1>1, <1>5, <1>7 DEF LocalInv, Synced
<1>16. LocalInv(conf, r, t, u)
  BY <1>8, <1>12, <1>13, <1>14, <1>15 DEF LocalInv
<1>17. ASSUME r < P - 1
       PROVE  ActsOut(r, t, u) = ActsOut(r, s, <<>>) /\ GradsIn(r, t, u) = GradsIn(r, s, <<>>)
  <2>1. Sends(u, r + 1) /\ ~Sends(<<>>, r + 1) /\ ~Recvs(u, r + 1) /\ ~Recvs(<<>>, r + 1)
    BY <1>17, TrafficFacts, Zenon
  <2> HIDE DEF u
  <2>2. QED
    BY <1>1, <1>4, <1>7, <1>9, <2>1 DEF ActsOut, GradsIn
<1>18. /\ ActsIn(r, t, u) = ActsIn(r, s, <<>>) /\ GradsOut(r, t, u) = GradsOut(r, s, <<>>)
       /\ ActsIn(r, s, <<>>) = s.drawn + 1
  <2>1. ~Recvs(u, r - 1) /\ ~Sends(u, r - 1) /\ ~Recvs(<<>>, r - 1) /\ ~Sends(<<>>, r - 1)
    BY TrafficFacts, Zenon
  <2> HIDE DEF u
  <2>2. QED
    BY <1>1, <1>4, <1>7, <1>9, <2>1 DEF ActsIn, GradsOut
<1>19. Advances(conf, r, s, <<>>, t, u)
  BY <1>4, <1>9, <1>16, <1>17, <1>18 DEF Advances
<1>20. rank'[r] = t
  OBVIOUS
<1>21. QED
  BY <1>1, <1>11, <1>19, <1>20 DEF Moves

(* A forward step of the steady state asks for the gradient it needs next. *)
LEMMA SteadyForwardMoves ==
  ASSUME conf \in Configs, rank \in [Ranks -> LocalType(conf)], NEW r \in Ranks,
         LocalInv(conf, r, rank[r], pend[r]), pend \in PendType, SteadyForward(r)
  PROVE  Moves(r)
<1> DEFINE s == rank[r]
           x == Buffer(~LastStage(r))
           f == ForwardStep(s, r)
           t == [f EXCEPT !.phase = "steady_bwd", !.output_tensor_grad = x]
           u == IF r < P - 1 THEN <<ActTo(r, t), GradFrom(r)>> ELSE <<>>
<1>1. pend[r] = <<>> /\ s.phase = "steady_fwd" /\ ~conf.forwardOnly
  BY ReadyIsIdle DEF LocalInv, SteadyForward
<1>2. s \in LocalType(conf) /\ Saved(conf, r, s) /\ Held(r, s, <<>>)
  BY <1>1 DEF LocalInv
<1>3. s.input_tensor = From(r - 1, s.drawn)
  BY <1>1, <1>2, IdleFacts
<1>4. s.drawn < conf.microbatches /\ s.bwd <= s.drawn
      /\ s.drawn \in Nat /\ s.bwd \in Nat
  BY <1>1, <1>2, WarmFacts, ConfFacts DEF LocalInv, Counters, LocalType
<1>5. /\ f \in LocalType(conf)
      /\ f.drawn = s.drawn + 1 /\ f.bwd = s.bwd /\ f.i = s.i
      /\ f.no_sync = s.no_sync /\ f.grad_syncs = s.grad_syncs
      /\ Saved(conf, r, f)
  BY <1>2, <1>3, <1>4, ForwardStepFacts
<1>6. rank' = [rank EXCEPT ![r] = t] /\ rank'[r] = t /\ conf' = conf
  BY DEF SteadyForward
<1>7. x = (IF r < P - 1 THEN Empty ELSE NoTensor) /\ x \in Tensors
  <2>1. CASE r < P - 1
    BY <2>1, BufferFacts, PAssumption DEF Ranks, LastStage, Buffer
  <2>2. CASE r = P - 1
    BY <2>2, BufferFacts, PAssumption DEF Ranks, LastStage, Buffer
  <2>3. QED
    BY <2>1, <2>2, PAssumption DEF Ranks
<1> HIDE DEF f, x
<1>8. /\ t.phase = "steady_bwd" /\ t.drawn = f.drawn /\ t.bwd = f.bwd /\ t.i = f.i
      /\ t.output_tensor_grad = x
      /\ t.input_tensors = f.input_tensors /\ t.output_tensors = f.output_tensors
      /\ t.no_sync = f.no_sync /\ t.grad_syncs = f.grad_syncs
  BY <1>5 DEF LocalType
<1>9. t \in LocalType(conf)
  BY <1>5, <1>7 DEF LocalType
<1> HIDE DEF t
<1>10. t.drawn = s.drawn + 1 /\ t.bwd = s.bwd /\ t.drawn \in Int /\ t.drawn - 1 = s.drawn
       /\ t.drawn > 0
  BY <1>4, <1>5, <1>8
<1>11. ForwardOutput(s, r) = Tensor(r, t.drawn - 1)
  BY <1>2, <1>3, <1>10, ForwardOutputFacts
<1>12. pend' = [pend EXCEPT ![r] = u] /\ pend'[r] = u
  <2>1. SendForwardRecvBackward(r, Tensor(r, t.drawn - 1))
    BY <1>11 DEF SteadyForward
  <2>2. pend' = [pend EXCEPT ![r] = u]
    BY <1>1, <1>10, <2>1, SendForwardRecvBackwardPosts
  <2>3. QED
    BY <2>2 DEF PendType
<1>13. Counters(conf, r, t)
  BY <1>1, <1>2, <1>4, <1>5, <1>8, <1>10, WarmFacts, ConfFacts DEF LocalInv, Counters, LocalType
<1>14. Saved(conf, r, t)
  BY <1>5, <1>8 DEF Saved
<1>15. Posted(r, t, u)
  BY <1>8, <1>10 DEF Posted
<1>16. Held(r, t, u)
  <2>1. CASE r < P - 1
    BY <2>1, <1>7, <1>8, TrafficFacts DEF Held
  <2>2. CASE ~(r < P - 1)
    <3>1. r + 1 \in Int /\ r + 1 \notin Ranks /\ t.bwd \in Int
      BY <2>2, <1>4, <1>10, PAssumption DEF Ranks
    <3>2. From(r + 1, t.bwd) = NoTensor
      BY <3>1, FromFacts
    <3>3. QED
      BY <2>2, <3>2, <1>7, <1>8, TrafficFacts DEF Held
  <2>3. QED
    BY <2>1, <2>2
<1>17. Synced(conf, r, t)
  BY <1>1, <1>5, <1>8 DEF LocalInv, Synced
<1>18. LocalInv(conf, r, t, u)
  BY <1>9, <1>13, <1>14, <1>15, <1>16, <1>17 DEF LocalInv
<1>19. ASSUME r < P - 1
       PROVE  ActsOut(r, t, u) = ActsOut(r, s, <<>>) /\ GradsIn(r, t, u) = GradsIn(r, s, <<>>)
  <2>1. Sends(u, r + 1) /\ ~Sends(<<>>, r + 1) /\ Recvs(u, r + 1) /\ ~Recvs(<<>>, r + 1)
    BY <1>19, TrafficFacts, Zenon
  <2> HIDE DEF u
  <2>2. QED
    BY <1>1, <1>4, <1>8, <1>10, <2>1 DEF ActsOut, GradsIn
<1>20. /\ ActsIn(r, t, u) = ActsIn(r, s, <<>>) /\ GradsOut(r, t, u) = GradsOut(r, s, <<>>)
       /\ ActsIn(r, s, <<>>) = s.drawn + 1
  <2>1. ~Recvs(u, r - 1) /\ ~Sends(u, r - 1) /\ ~Recvs(<<>>, r - 1) /\ ~Sends(<<>>, r - 1)
    BY TrafficFacts, Zenon
  <2> HIDE DEF u
  <2>2. QED
    BY <1>1, <1>4, <1>8, <1>10, <2>1 DEF ActsIn, GradsOut
<1>21. Advances(conf, r, s, <<>>, t, u)
  BY <1>4, <1>10, <1>18, <1>19, <1>20 DEF Advances
<1>22. QED
  BY <1>1, <1>6, <1>12, <1>21 DEF Moves

(* What a rank holds when it may run a backward step. *)
LEMMA BackwardReady ==
  ASSUME conf \in Configs, NEW r \in Ranks, NEW s, LocalInv(conf, r, s, <<>>),
         s.phase \in {"steady_bwd", "cooldown_bwd"}
  PROVE  /\ s \in LocalType(conf) /\ Saved(conf, r, s) /\ ~conf.forwardOnly
         /\ s.bwd < s.drawn /\ s.bwd \in Nat /\ s.drawn \in Nat /\ s.i \in Nat
         /\ s.no_sync = TRUE /\ s.grad_syncs = <<>>
         /\ r > 0 => BackwardOutput(s, r) = Tensor(r, s.bwd)
         /\ GradsIn(r, s, <<>>) = s.bwd + 1
<1>1. s \in LocalType(conf) /\ Saved(conf, r, s) /\ Held(r, s, <<>>)
  BY DEF LocalInv
<1>2. ~conf.forwardOnly
  BY DEF LocalInv, Counters
<1>3. s.bwd < s.drawn /\ s.bwd \in Nat /\ s.drawn \in Nat /\ s.i \in Nat
  BY <1>1, WarmFacts, ConfFacts DEF LocalInv, Counters, LocalType
<1>4. s.no_sync = TRUE /\ s.grad_syncs = <<>>
  BY DEF LocalInv, Synced
<1>5. s.output_tensor_grad = From(r + 1, s.bwd)
  BY <1>1, IdleFacts
<1>6. r > 0 => BackwardOutput(s, r) = Tensor(r, s.bwd)
  BY <1>1, <1>2, <1>3, <1>5, BackwardOutputFacts
<1>7. GradsIn(r, s, <<>>) = s.bwd + 1
  BY <1>3, TrafficFacts DEF GradsIn
<1>8. QED
  BY <1>1, <1>2, <1>3, <1>4, <1>6, <1>7

(* A backward step that only sends its gradient on: the last one of the      *)
(* steady state, and those of the cooldown.                                  *)
LEMMA BackwardSendsMoves ==
  ASSUME conf \in Configs, rank \in [Ranks -> LocalType(conf)], NEW r \in Ranks,
         LocalInv(conf, r, rank[r], pend[r]), pend \in PendType,
         NEW from \in {"steady_bwd", "cooldown_bwd"}, Ready(r, from),
         NEW t \in LocalType(conf), t.phase \in {"cooldown_recv", "launch"},
         t.drawn = rank[r].drawn, t.bwd = rank[r].bwd + 1,
         Counters(conf, r, t), Saved(conf, r, t), Synced(conf, r, t),
         rank' = [rank EXCEPT ![r] = t],
         SendBackward(r, BackwardOutput(rank[r], r)), conf' = conf
  PROVE  Moves(r)
<1> DEFINE s == rank[r]
           u == IF r > 0 THEN <<GradTo(r, t)>> ELSE <<>>
<1>1. pend[r] = <<>> /\ s.phase = from
  BY ReadyIsIdle DEF LocalInv
<1>2. /\ s \in LocalType(conf) /\ s.bwd < s.drawn /\ s.bwd \in Nat /\ s.drawn \in Nat
      /\ r > 0 => BackwardOutput(s, r) = Tensor(r, s.bwd)
      /\ GradsIn(r, s, <<>>) = s.bwd + 1
  BY <1>1, BackwardReady
<1>3. t.bwd \in Int /\ t.bwd - 1 = s.bwd /\ t.bwd > 0 /\ t.bwd = s.bwd + 1
  BY <1>2
<1>4. pend' = [pend EXCEPT ![r] = u] /\ pend'[r] = u
  <2>1. r > 0 => BackwardOutput(s, r) = Tensor(r, t.bwd - 1)
    BY <1>2, <1>3
  <2>2. pend' = [pend EXCEPT ![r] = u]
    BY <1>1, <1>3, <2>1, SendBackwardPosts
  <2>3. QED
    BY <2>2 DEF PendType
<1>5. Posted(r, t, u)
  BY <1>3 DEF Posted
<1>6. Held(r, t, u)
  BY DEF Held
<1>7. LocalInv(conf, r, t, u)
  BY <1>5, <1>6 DEF LocalInv
<1>8. ASSUME r > 0
       PROVE  ActsIn(r, t, u) = ActsIn(r, s, <<>>) /\ GradsOut(r, t, u) = GradsOut(r, s, <<>>)
  <2>1. Sends(u, r - 1) /\ ~Sends(<<>>, r - 1) /\ ~Recvs(u, r - 1) /\ ~Recvs(<<>>, r - 1)
    BY <1>8, TrafficFacts, Zenon
  <2> HIDE DEF u
  <2>2. QED
    BY <1>1, <1>2, <1>3, <2>1 DEF ActsIn, GradsOut
<1>9. ActsOut(r, t, u) = ActsOut(r, s, <<>>) /\ GradsIn(r, t, u) = GradsIn(r, s, <<>>)
  <2>1. ~Recvs(u, r + 1) /\ ~Sends(u, r + 1) /\ ~Recvs(<<>>, r + 1) /\ ~Sends(<<>>, r + 1)
    BY TrafficFacts, Zenon
  <2> HIDE DEF u
  <2>2. QED
    BY <1>1, <1>2, <1>3, <2>1 DEF ActsOut, GradsIn
<1>10. Advances(conf, r, s, <<>>, t, u)
  BY <1>2, <1>3, <1>7, <1>8, <1>9 DEF Advances
<1>11. rank'[r] = t
  OBVIOUS
<1>12. QED
  BY <1>1, <1>4, <1>10, <1>11 DEF Moves

(* A backward step within the steady state asks for the next input.          *)
LEMMA BackwardRecvsMoves ==
  ASSUME conf \in Configs, rank \in [Ranks -> LocalType(conf)], NEW r \in Ranks,
         LocalInv(conf, r, rank[r], pend[r]), pend \in PendType, Ready(r, "steady_bwd"),
         NEW t \in LocalType(conf), t.phase = "steady_fwd",
         t.drawn = rank[r].drawn, t.bwd = rank[r].bwd + 1,
         t.input_tensor = IF r > 0 THEN Empty ELSE NoTensor,
         Counters(conf, r, t), Saved(conf, r, t), Synced(conf, r, t),
         rank' = [rank EXCEPT ![r] = t],
         SendBackwardRecvForward(r, BackwardOutput(rank[r], r)), conf' = conf
  PROVE  Moves(r)
<1> DEFINE s == rank[r]
           u == IF r > 0 THEN <<GradTo(r, t), ActFrom(r)>> ELSE <<>>
<1>1. pend[r] = <<>> /\ s.phase = "steady_bwd"
  BY ReadyIsIdle DEF LocalInv
<1>2. /\ s \in LocalType(conf) /\ s.bwd < s.drawn /\ s.bwd \in Nat /\ s.drawn \in Nat
      /\ r > 0 => BackwardOutput(s, r) = Tensor(r, s.bwd)
      /\ GradsIn(r, s, <<>>) = s.bwd + 1
  BY <1>1, BackwardReady
<1>3. t.bwd \in Int /\ t.bwd - 1 = s.bwd /\ t.bwd > 0 /\ t.bwd = s.bwd + 1 /\ t.drawn \in Int
  BY <1>2
<1>4. pend' = [pend EXCEPT ![r] = u] /\ pend'[r] = u
  <2>1. r > 0 => BackwardOutput(s, r) = Tensor(r, t.bwd - 1)
    BY <1>2, <1>3
  <2>2. pend' = [pend EXCEPT ![r] = u]
    BY <1>1, <1>3, <2>1, SendBackwardRecvForwardPosts
  <2>3. QED
    BY <2>2 DEF PendType
<1>5. Posted(r, t, u)
  BY <1>3 DEF Posted
<1>6. Held(r, t, u)
  <2>1. CASE r > 0
    BY <2>1, TrafficFacts DEF Held
  <2>2. CASE ~(r > 0)
    <3>1. r - 1 \in Int /\ r - 1 \notin Ranks
      BY <2>2, PAssumption DEF Ranks
    <3>2. From(r - 1, t.drawn) = NoTensor
      BY <1>3, <3>1, FromFacts
    <3>3. QED
      BY <2>2, <3>2, TrafficFacts DEF Held
  <2>3. QED
    BY <2>1, <2>2
<1>7. LocalInv(conf, r, t, u)
  BY <1>5, <1>6 DEF LocalInv
<1>8. ASSUME r > 0
       PROVE  ActsIn(r, t, u) = ActsIn(r, s, <<>>) /\ GradsOut(r, t, u) = GradsOut(r, s, <<>>)
  <2>1. Sends(u, r - 1) /\ ~Sends(<<>>, r - 1) /\ Recvs(u, r - 1) /\ ~Recvs(<<>>, r - 1)
    BY <1>8, TrafficFacts, Zenon
  <2> HIDE DEF u
  <2>2. QED
    BY <1>1, <1>2, <1>3, <2>1 DEF ActsIn, GradsOut
<1>9. ActsOut(r, t, u) = ActsOut(r, s, <<>>) /\ GradsIn(r, t, u) = GradsIn(r, s, <<>>)
  <2>1. ~Recvs(u, r + 1) /\ ~Sends(u, r + 1) /\ ~Recvs(<<>>, r + 1) /\ ~Sends(<<>>, r + 1)
    BY TrafficFacts, Zenon
  <2> HIDE DEF u
  <2>2. QED
    BY <1>1, <1>2, <1>3, <2>1 DEF ActsOut, GradsIn
<1>10. Advances(conf, r, s, <<>>, t, u)
  BY <1>2, <1>3, <1>7, <1>8, <1>9 DEF Advances
<1>11. rank'[r] = t
  OBVIOUS
<1>12. QED
  BY <1>1, <1>4, <1>10, <1>11 DEF Moves

(* The backward pass of the cooldown. *)
LEMMA CooldownBackwardMoves ==
  ASSUME conf \in Configs, rank \in [Ranks -> LocalType(conf)], NEW r \in Ranks,
         LocalInv(conf, r, rank[r], pend[r]), pend \in PendType, CooldownBackward(r)
  PROVE  Moves(r)
<1> DEFINE s == rank[r]
           final == s.i = NumWarmup(r) - 1
           enabled == Enables(r, s.i, NumWarmup(r))
           f == BackwardStep(s, r, enabled)
           t == [f EXCEPT !.i = IF final THEN 0 ELSE @ + 1,
                          !.phase = IF final THEN "launch" ELSE "cooldown_recv"]
<1>1. Ready(r, "cooldown_bwd") /\ conf' = conf /\ rank' = [rank EXCEPT ![r] = t]
      /\ SendBackward(r, BackwardOutput(s, r))
  BY DEF CooldownBackward
<1>2. pend[r] = <<>> /\ s.phase = "cooldown_bwd"
  BY <1>1, ReadyIsIdle DEF LocalInv
<1>3. /\ s \in LocalType(conf) /\ Saved(conf, r, s) /\ ~conf.forwardOnly
      /\ s.bwd < s.drawn /\ s.bwd \in Nat /\ s.drawn \in Nat /\ s.i \in Nat
      /\ s.no_sync = TRUE /\ s.grad_syncs = <<>>
  BY <1>2, BackwardReady
<1>4. NumWarmup(r) = Warm(conf, r) /\ Warm(conf, r) \in Nat
      /\ Warm(conf, r) <= conf.microbatches /\ conf.microbatches \in Nat
      /\ Steady(conf, r) = conf.microbatches - Warm(conf, r)
  BY WarmFacts, WarmIsNumWarmup, ConfFacts
<1>5. s.i < Warm(conf, r) /\ s.drawn = conf.microbatches /\ s.bwd = Steady(conf, r) + s.i
  BY <1>2 DEF LocalInv, Counters
<1>6. enabled \in BOOLEAN /\ (enabled <=> final /\ ByHooks(conf, r))
  BY DEF Enables, ByHooks
<1> HIDE DEF enabled
<1>7. /\ f \in LocalType(conf)
      /\ f.bwd = s.bwd + 1 /\ f.drawn = s.drawn /\ f.i = s.i
      /\ f.no_sync = ~enabled
      /\ f.grad_syncs = IF enabled THEN <<s.bwd + 1>> ELSE <<>>
      /\ Saved(conf, r, f)
  <2>1. PICK e \in BOOLEAN : e = enabled
    BY <1>6
  <2>2. f = BackwardStep(s, r, e)
    BY <2>1
  <2> HIDE DEF f
  <2>3. /\ f \in LocalType(conf)
        /\ f.bwd = s.bwd + 1 /\ f.drawn = s.drawn /\ f.i = s.i
        /\ f.no_sync = ~e
        /\ f.grad_syncs = IF e THEN <<s.bwd + 1>> ELSE <<>>
        /\ Saved(conf, r, f)
    BY <1>3, <2>2, BackwardStepFacts
  <2>4. QED
    BY <2>1, <2>3, Zenon
<1> HIDE DEF f
<1>8. (IF final THEN 0 ELSE f.i + 1) \in 0 .. conf.microbatches
  BY <1>3, <1>4, <1>5, <1>7
<1>9. /\ t.phase = (IF final THEN "launch" ELSE "cooldown_recv")
      /\ t.i = (IF final THEN 0 ELSE s.i + 1)
      /\ t.bwd = s.bwd + 1 /\ t.drawn = s.drawn
      /\ t.no_sync = ~enabled /\ t.grad_syncs = f.grad_syncs
      /\ t.input_tensors = f.input_tensors /\ t.output_tensors = f.output_tensors
      /\ t.bwd = f.bwd /\ t.drawn = f.drawn
  BY <1>7 DEF LocalType
<1>10. t \in LocalType(conf)
  BY <1>7, <1>8 DEF LocalType
<1> HIDE DEF t
<1>11. Counters(conf, r, t)
  BY <1>3, <1>4, <1>5, <1>9 DEF Counters
<1>12. Saved(conf, r, t)
  BY <1>7, <1>9 DEF Saved
<1>13. Synced(conf, r, t)
  <2>1. final => s.bwd + 1 = conf.microbatches
    BY <1>3, <1>4, <1>5
  <2>2. CASE final /\ ByHooks(conf, r)
    BY <1>6, <1>7, <1>9, <2>1, <2>2 DEF Synced
  <2>3. CASE ~(final /\ ByHooks(conf, r))
    BY <1>6, <1>7, <1>9, <2>3 DEF Synced
  <2>4. QED
    BY <2>2, <2>3
<1>14. QED
  BY <1>1, <1>9, <1>10, <1>11, <1>12, <1>13, BackwardSendsMoves

(* The backward pass of the steady state. *)
LEMMA SteadyBackwardMoves ==
  ASSUME conf \in Configs, rank \in [Ranks -> LocalType(conf)], NEW r \in Ranks,
         LocalInv(conf, r, rank[r], pend[r]), pend \in PendType, SteadyBackward(r)
  PROVE  Moves(r)
<1> DEFINE s == rank[r]
           final == s.i = Remaining(r) - 1
           enabled == NumWarmup(r) = 0 /\ Enables(r, s.i, Remaining(r))
           f == BackwardStep(s, r, enabled)
           x == Buffer(~final /\ ~FirstStage(r))
           to == IF ~final THEN "steady_fwd"
                 ELSE IF NumWarmup(r) > 0 THEN "cooldown_recv" ELSE "launch"
           t == [f EXCEPT !.i = IF final THEN 0 ELSE @ + 1, !.phase = to, !.input_tensor = x]
<1>1. Ready(r, "steady_bwd") /\ conf' = conf /\ rank' = [rank EXCEPT ![r] = t]
      /\ IF final THEN SendBackward(r, BackwardOutput(s, r))
         ELSE SendBackwardRecvForward(r, BackwardOutput(s, r))
  BY DEF SteadyBackward
<1>2. pend[r] = <<>> /\ s.phase = "steady_bwd"
  BY <1>1, ReadyIsIdle DEF LocalInv
<1>3. /\ s \in LocalType(conf) /\ Saved(conf, r, s) /\ ~conf.forwardOnly
      /\ s.bwd < s.drawn /\ s.bwd \in Nat /\ s.drawn \in Nat /\ s.i \in Nat
      /\ s.no_sync = TRUE /\ s.grad_syncs = <<>>
  BY <1>2, BackwardReady
<1>4. /\ NumWarmup(r) = Warm(conf, r) /\ Warm(conf, r) \in Nat
      /\ Remaining(r) = Steady(conf, r) /\ Steady(conf, r) <= conf.microbatches
      /\ Warm(conf, r) <= conf.microbatches /\ conf.microbatches \in Nat
      /\ Steady(conf, r) = conf.microbatches - Warm(conf, r) /\ Steady(conf, r) \in Nat
  BY WarmFacts, WarmIsNumWarmup, ConfFacts
<1>5. s.i < Steady(conf, r) /\ s.drawn = Warm(conf, r) + s.i + 1 /\ s.bwd = s.i
  BY <1>2 DEF LocalInv, Counters
<1>6. enabled \in BOOLEAN /\ (enabled <=> to = "launch" /\ ByHooks(conf, r))
  BY <1>4 DEF Enables, ByHooks
<1> HIDE DEF enabled
<1>7. /\ f \in LocalType(conf)
      /\ f.bwd = s.bwd + 1 /\ f.drawn = s.drawn /\ f.i = s.i
      /\ f.no_sync = ~enabled
      /\ f.grad_syncs = IF enabled THEN <<s.bwd + 1>> ELSE <<>>
      /\ Saved(conf, r, f)
  <2>1. PICK e \in BOOLEAN : e = enabled
    BY <1>6
  <2>2. f = BackwardStep(s, r, e)
    BY <2>1
  <2> HIDE DEF f
  <2>3. /\ f \in LocalType(conf)
        /\ f.bwd = s.bwd + 1 /\ f.drawn = s.drawn /\ f.i = s.i
        /\ f.no_sync = ~e
        /\ f.grad_syncs = IF e THEN <<s.bwd + 1>> ELSE <<>>
        /\ Saved(conf, r, f)
    BY <1>3, <2>2, BackwardStepFacts
  <2>4. QED
    BY <2>1, <2>3, Zenon
<1> HIDE DEF f
<1>8. (IF final THEN 0 ELSE f.i + 1) \in 0 .. conf.microbatches
  BY <1>3, <1>4, <1>5, <1>7
<1>9. x \in Tensors /\ (~final => x = IF r > 0 THEN Empty ELSE NoTensor)
  <2>1. x \in Tensors
    BY BufferFacts DEF Buffer
  <2>2. FirstStage(r) <=> ~(r > 0)
    BY PAssumption DEF FirstStage, Ranks
  <2>3. ASSUME ~final PROVE x = IF r > 0 THEN Empty ELSE NoTensor
    BY <2>2, <2>3 DEF Buffer
  <2>4. QED
    BY <2>1, <2>3
<1>10. /\ to \in {"steady_fwd", "cooldown_recv", "launch"}
       /\ to = "steady_fwd" <=> ~final
       /\ to = "cooldown_recv" => Warm(conf, r) > 0
       /\ to = "launch" => Warm(conf, r) = 0
  BY <1>4
<1> HIDE DEF x, to
<1>11. /\ t.phase = to /\ t.input_tensor = x
       /\ t.i = (IF final THEN 0 ELSE s.i + 1)
       /\ t.bwd = s.bwd + 1 /\ t.drawn = s.drawn
       /\ t.no_sync = ~enabled /\ t.grad_syncs = f.grad_syncs
       /\ t.input_tensors = f.input_tensors /\ t.output_tensors = f.output_tensors
       /\ t.bwd = f.bwd /\ t.drawn = f.drawn
  BY <1>7 DEF LocalType
<1>12. t \in LocalType(conf)
  BY <1>7, <1>8, <1>9, <1>10 DEF LocalType
<1> HIDE DEF t
<1>13. Counters(conf, r, t)
  <2>1. PICK w \in Nat, k \in Nat, m \in Nat, i \in Nat :
           /\ w = Warm(conf, r) /\ k = Steady(conf, r) /\ m = conf.microbatches /\ i = s.i
           /\ k = m - w /\ i < k
    BY <1>3, <1>4, <1>5
  <2>2. final <=> i = k - 1
    BY <1>4, <2>1
  <2>3. t.drawn = w + i + 1 /\ t.bwd = i + 1
    BY <1>5, <1>11, <2>1
  <2>4. CASE ~final
    <3>1. t.phase = "steady_fwd" /\ t.i = i + 1 /\ i + 1 < k
      BY <1>10, <1>11, <2>1, <2>2, <2>4
    <3>2. QED
      BY <1>3, <2>1, <2>3, <3>1 DEF Counters
  <2>5. CASE final
    <3>1. t.phase \in {"cooldown_recv", "launch"} /\ t.i = 0 /\ i + 1 = k
      BY <1>10, <1>11, <2>1, <2>2, <2>5
    <3>2. /\ t.phase = "cooldown_recv" => w > 0
          /\ t.phase = "launch" => w = 0
      BY <1>10, <1>11, <2>1
    <3>3. t.drawn = m /\ t.bwd = k /\ (w = 0 => k = m)
      BY <2>1, <2>3, <3>1
    <3>4. QED
      BY <1>3, <2>1, <3>1, <3>2, <3>3 DEF Counters
  <2>6. QED
    BY <2>4, <2>5
<1>14. Saved(conf, r, t)
  BY <1>7, <1>11 DEF Saved
<1>15. Synced(conf, r, t)
  <2>1. to = "launch" => s.bwd + 1 = conf.microbatches
    BY <1>3, <1>4, <1>5, <1>10
  <2>2. CASE to = "launch" /\ ByHooks(conf, r)
    BY <1>6, <1>7, <1>11, <2>1, <2>2 DEF Synced
  <2>3. CASE ~(to = "launch" /\ ByHooks(conf, r))
    BY <1>6, <1>7, <1>10, <1>11, <2>3 DEF Synced
  <2>4. QED
    BY <2>2, <2>3
<1>16. CASE final
  BY <1>1, <1>10, <1>11, <1>12, <1>13, <1>14, <1>15, <1>16, BackwardSendsMoves
<1>17. CASE ~final
  BY <1>1, <1>9, <1>10, <1>11, <1>12, <1>13, <1>14, <1>15, <1>17, BackwardRecvsMoves
<1>18. QED
  BY <1>16, <1>17

(* The forward pass of the warmup. *)
LEMMA WarmupForwardMoves ==
  ASSUME conf \in Configs, rank \in [Ranks -> LocalType(conf)], NEW r \in Ranks,
         LocalInv(conf, r, rank[r], pend[r]), pend \in PendType, WarmupForward(r)
  PROVE  Moves(r)
<1> DEFINE s == rank[r]
           final == s.i = NumWarmup(r) - 1
           f == ForwardStep(s, r)
           j == IF final THEN 0 ELSE f.i + 1
           to == IF final THEN AfterWarmup(r) ELSE "warmup_recv"
           t == [f EXCEPT !.i = j, !.phase = to]
<1>1. /\ Ready(r, "warmup_fwd") /\ conf' = conf /\ rank' = [rank EXCEPT ![r] = t]
      /\ SendForward(r, ForwardOutput(s, r))
  BY DEF WarmupForward
<1>2. pend[r] = <<>> /\ s.phase = "warmup_fwd"
  BY <1>1, ReadyIsIdle DEF LocalInv
<1>3. s \in LocalType(conf) /\ Saved(conf, r, s) /\ Held(r, s, <<>>)
  BY <1>2 DEF LocalInv
<1>4. s.input_tensor = From(r - 1, s.drawn)
  BY <1>2, <1>3, IdleFacts
<1>5. /\ NumWarmup(r) = Warm(conf, r) /\ Remaining(r) = Steady(conf, r)
      /\ Warm(conf, r) \in Nat /\ Warm(conf, r) <= conf.microbatches
      /\ conf.microbatches \in Nat /\ conf.forwardOnly \in BOOLEAN
      /\ Steady(conf, r) = conf.microbatches - Warm(conf, r) /\ Steady(conf, r) \in Nat
  BY WarmFacts, WarmIsNumWarmup, ConfFacts
<1>6. s.i < Warm(conf, r) /\ s.drawn = s.i /\ s.bwd = 0 /\ s.i \in Nat
  BY <1>2, <1>3, <1>5 DEF LocalInv, Counters, LocalType
<1>7. f \in LocalType(conf) /\ f.drawn = s.drawn + 1 /\ f.bwd = s.bwd /\ f.i = s.i
  BY <1>3, <1>4, <1>5, <1>6, ForwardStepFacts
<1>8. j \in 0 .. conf.microbatches /\ j = IF final THEN 0 ELSE s.i + 1
  BY <1>5, <1>6, <1>7
<1>9. /\ to \in {"warmup_recv", "first_recv", "cooldown_recv", "done"}
      /\ to = "warmup_recv" <=> ~final
      /\ to = "first_recv" => Steady(conf, r) > 0
      /\ to = "cooldown_recv" => Steady(conf, r) = 0 /\ ~conf.forwardOnly
      /\ to = "done" => Steady(conf, r) = 0 /\ conf.forwardOnly
  BY <1>5 DEF AfterWarmup
<1> HIDE DEF f, to
<1>10. t.phase = to /\ t.i = j /\ t.drawn = s.drawn + 1 /\ t.bwd = s.bwd
  BY <1>7 DEF LocalType
<1>11. t = [f EXCEPT !.i = j, !.phase = to]
  OBVIOUS
<1> HIDE DEF t
<1>12. Counters(conf, r, t)
  BY <1>5, <1>6, <1>8, <1>9, <1>10 DEF Counters
<1> HIDE DEF j
<1>13. QED
  BY <1>1, <1>8, <1>9, <1>11, <1>12, ForwardSendsMoves DEF f

(* The forward pass of an evaluation. *)
LEMMA EvalForwardMoves ==
  ASSUME conf \in Configs, rank \in [Ranks -> LocalType(conf)], NEW r \in Ranks,
         LocalInv(conf, r, rank[r], pend[r]), pend \in PendType, EvalForward(r)
  PROVE  Moves(r)
<1> DEFINE s == rank[r]
           final == s.i = Remaining(r) - 1
           f == ForwardStep(s, r)
           j == IF final THEN 0 ELSE f.i + 1
           to == IF final THEN "done" ELSE "first_recv"
           t == [f EXCEPT !.i = j, !.phase = to]
<1>1. /\ Ready(r, "steady_fwd") /\ conf' = conf /\ rank' = [rank EXCEPT ![r] = t]
      /\ SendForward(r, ForwardOutput(s, r)) /\ conf.forwardOnly
  BY DEF EvalForward
<1>2. pend[r] = <<>> /\ s.phase = "steady_fwd"
  BY <1>1, ReadyIsIdle DEF LocalInv
<1>3. s \in LocalType(conf) /\ Saved(conf, r, s) /\ Held(r, s, <<>>)
  BY <1>2 DEF LocalInv
<1>4. s.input_tensor = From(r - 1, s.drawn)
  BY <1>2, <1>3, IdleFacts
<1>5. /\ Remaining(r) = Steady(conf, r)
      /\ Warm(conf, r) \in Nat /\ Warm(conf, r) <= conf.microbatches
      /\ conf.microbatches \in Nat
      /\ Steady(conf, r) = conf.microbatches - Warm(conf, r) /\ Steady(conf, r) \in Nat
  BY WarmFacts, WarmIsNumWarmup, ConfFacts
<1>6. s.i < Steady(conf, r) /\ s.drawn = Warm(conf, r) + s.i /\ s.bwd = 0 /\ s.i \in Nat
  BY <1>1, <1>2, <1>3, <1>5 DEF LocalInv, Counters, LocalType
<1>7. f \in LocalType(conf) /\ f.drawn = s.drawn + 1 /\ f.bwd = s.bwd /\ f.i = s.i
  BY <1>3, <1>4, <1>5, <1>6, ForwardStepFacts
<1>8. j \in 0 .. conf.microbatches /\ j = IF final THEN 0 ELSE s.i + 1
  BY <1>5, <1>6, <1>7
<1>9. to \in {"first_recv", "done"} /\ (to = "done" <=> final)
  OBVIOUS
<1> HIDE DEF f, to
<1>10. t.phase = to /\ t.i = j /\ t.drawn = s.drawn + 1 /\ t.bwd = s.bwd
  BY <1>7 DEF LocalType
<1>11. t = [f EXCEPT !.i = j, !.phase = to]
  OBVIOUS
<1> HIDE DEF t
<1>12. Counters(conf, r, t)
  BY <1>1, <1>5, <1>6, <1>8, <1>9, <1>10 DEF Counters
<1> HIDE DEF j
<1>13. QED
  BY <1>1, <1>8, <1>9, <1>11, <1>12, ForwardSendsMoves DEF f

(* The launch of the synchronization that is still to be made. *)
LEMMA LaunchMoves ==
  ASSUME conf \in Configs, rank \in [Ranks -> LocalType(conf)], NEW r \in Ranks,
         LocalInv(conf, r, rank[r], pend[r]), pend \in PendType, LaunchRemaining(r)
  PROVE  Moves(r)
<1> DEFINE s == rank[r]
           syncs == IF s.no_sync /\ conf.gradSyncFunc
                    THEN Append(s.grad_syncs, s.bwd) ELSE s.grad_syncs
           t == [s EXCEPT !.phase = "done", !.no_sync = FALSE, !.grad_syncs = syncs]
<1>1. Ready(r, "launch") /\ conf' = conf /\ pend' = pend /\ rank' = [rank EXCEPT ![r] = t]
  BY DEF LaunchRemaining
<1>2. pend[r] = <<>> /\ s.phase = "launch"
  BY <1>1, ReadyIsIdle DEF LocalInv
<1>3. s \in LocalType(conf) /\ Saved(conf, r, s)
  BY <1>2 DEF LocalInv
<1>4. ~conf.forwardOnly /\ s.drawn = conf.microbatches /\ s.bwd = conf.microbatches
      /\ conf.microbatches \in Nat
  BY <1>2, ConfFacts DEF LocalInv, Counters
<1>5. syncs = <<conf.microbatches>>
  <2>1. Append(<<>>, conf.microbatches) = <<conf.microbatches>>
    OBVIOUS
  <2>2. CASE ByHooks(conf, r)
    BY <1>2, <2>2 DEF LocalInv, Synced
  <2>3. CASE ~ByHooks(conf, r)
    <3>1. conf.gradSyncFunc /\ s.no_sync = TRUE /\ s.grad_syncs = <<>>
      BY <1>2, <2>3 DEF LocalInv, Synced, ByHooks
    <3>2. QED
      BY <1>4, <2>1, <3>1
  <2>4. QED
    BY <2>2, <2>3
<1>6. syncs \in Seq(0 .. conf.microbatches)
  <2>1. conf.microbatches \in 0 .. conf.microbatches
    BY <1>4
  <2>2. <<conf.microbatches>> \in Seq(0 .. conf.microbatches)
    BY <2>1
  <2>3. QED
    BY <1>5, <2>2
<1> HIDE DEF syncs
<1>7. /\ t.phase = "done" /\ t.drawn = s.drawn /\ t.bwd = s.bwd /\ t.grad_syncs = syncs
      /\ t.input_tensors = s.input_tensors /\ t.output_tensors = s.output_tensors
  BY <1>3 DEF LocalType
<1>8. t \in LocalType(conf)
  BY <1>3, <1>6 DEF LocalType
<1> HIDE DEF t
<1>9. Counters(conf, r, t)
  BY <1>4, <1>7 DEF Counters
<1>10. Saved(conf, r, t)
  BY <1>3, <1>7 DEF Saved
<1>11. Posted(r, t, <<>>) /\ Held(r, t, <<>>)
  BY <1>7 DEF Posted, Held
<1>12. Synced(conf, r, t)
  BY <1>4, <1>5, <1>7 DEF Synced
<1>13. LocalInv(conf, r, t, <<>>)
  BY <1>8, <1>9, <1>10, <1>11, <1>12 DEF LocalInv
<1>14. /\ ActsOut(r, t, <<>>) = ActsOut(r, s, <<>>) /\ GradsIn(r, t, <<>>) = GradsIn(r, s, <<>>)
       /\ ActsIn(r, t, <<>>) = ActsIn(r, s, <<>>) /\ GradsOut(r, t, <<>>) = GradsOut(r, s, <<>>)
  BY <1>2, <1>7 DEF ActsOut, GradsIn, ActsIn, GradsOut
<1>15. Advances(conf, r, s, <<>>, t, <<>>)
  BY <1>7, <1>13, <1>14 DEF Advances
<1>16. rank'[r] = t /\ pend'[r] = <<>>
  BY <1>1, <1>2
<1>17. pend = [pend EXCEPT ![r] = <<>>]
  BY <1>2 DEF PendType
<1>18. QED
  BY <1>1, <1>2, <1>15, <1>16, <1>17 DEF Moves

(* Every step of a rank is such a move. *)
LEMMA StepMoves ==
  ASSUME conf \in Configs, rank \in [Ranks -> LocalType(conf)], NEW r \in Ranks,
         LocalInv(conf, r, rank[r], pend[r]), pend \in PendType, Step(r)
  PROVE  Moves(r)
<1>1. CASE WarmupRecv(r)
  BY <1>1, RecvForwardMoves DEF WarmupRecv
<1>2. CASE WarmupForward(r)
  BY <1>2, WarmupForwardMoves
<1>3. CASE FirstRecv(r)
  BY <1>3, RecvForwardMoves DEF FirstRecv
<1>4. CASE SteadyForward(r)
  BY <1>4, SteadyForwardMoves
<1>5. CASE SteadyBackward(r)
  BY <1>5, SteadyBackwardMoves
<1>6. CASE EvalForward(r)
  BY <1>6, EvalForwardMoves
<1>7. CASE CooldownRecv(r)
  BY <1>7, RecvBackwardMoves
<1>8. CASE CooldownBackward(r)
  BY <1>8, CooldownBackwardMoves
<1>9. CASE LaunchRemaining(r)
  BY <1>9, LaunchMoves
<1>10. QED
  BY <1>1, <1>2, <1>3, <1>4, <1>5, <1>6, <1>7, <1>8, <1>9 DEF Step

-----------------------------------------------------------------------------
(* A transfer between two ranks.                                             *)

(* The operations depend on the counters only. *)
LEMMA PostedSame ==
  ASSUME NEW r, NEW s, NEW t, NEW q, Posted(r, s, q),
         t.phase = s.phase, t.drawn = s.drawn, t.bwd = s.bwd
  PROVE  Posted(r, t, q)
<1>1. ActTo(r, t) = ActTo(r, s) /\ GradTo(r, t) = GradTo(r, s)
  BY DEF ActTo, GradTo
<1>2. QED
  BY <1>1 DEF Posted

(* What completing the send of a rank leaves of what it posted. *)
Sent(r, s, q, u) ==
  /\ Posted(r, s, u)
  /\ ~Sends(u, r + 1) /\ ~Sends(u, r - 1)
  /\ Recvs(u, r + 1) <=> Recvs(q, r + 1)
  /\ Recvs(u, r - 1) <=> Recvs(q, r - 1)

(* A rank has one send posted at most: of its last pass. *)
LEMMA SendOut ==
  ASSUME NEW r \in Ranks, NEW s, NEW q, Posted(r, s, q),
         NEW m \in DOMAIN q, q[m].kind = "send"
  PROVE  /\ \/ /\ q[m] = ActTo(r, s) /\ r < P - 1
               /\ Sends(q, r + 1) /\ ~Sends(q, r - 1)
            \/ /\ q[m] = GradTo(r, s) /\ r > 0
               /\ Sends(q, r - 1) /\ ~Sends(q, r + 1)
         /\ Sent(r, s, q, RemoveAt(q, m))
<1> DEFINE u == RemoveAt(q, m)
<1>0. /\ ActTo(r, s).kind = "send" /\ GradTo(r, s).kind = "send"
      /\ ActFrom(r).kind = "recv" /\ GradFrom(r).kind = "recv"
  BY OpFacts
<1>1. Posted(r, s, <<>>)
  BY DEF Posted
<1>2. CASE q = <<>>
  BY <1>2
<1>3. CASE r < P - 1 /\ q = <<ActTo(r, s)>>
  <2>1. m = 1
    BY <1>3
  <2>2. q[m] = ActTo(r, s) /\ u = <<>>
    BY <1>3, <2>1, RemoveFacts
  <2>3. QED
    BY <1>1, <1>3, <2>2, TrafficFacts, Zenon DEF Sent
<1>4. CASE r > 0 /\ q = <<GradTo(r, s)>>
  <2>1. m = 1
    BY <1>4
  <2>2. q[m] = GradTo(r, s) /\ u = <<>>
    BY <1>4, <2>1, RemoveFacts
  <2>3. QED
    BY <1>1, <1>4, <2>2, TrafficFacts, Zenon DEF Sent
<1>5. CASE q = <<ActFrom(r)>> \/ q = <<GradFrom(r)>>
  <2>1. m = 1
    BY <1>5
  <2>2. q[m].kind = "recv"
    BY <1>5, <2>1, <1>0
  <2>3. QED
    BY <2>2
<1>6. CASE r < P - 1 /\ s.phase = "steady_bwd" /\ q = <<ActTo(r, s), GradFrom(r)>>
  <2>1. m = 1 \/ m = 2
    BY <1>6
  <2>2. m # 2
    BY <1>6, <1>0
  <2>3. q[m] = ActTo(r, s) /\ u = <<GradFrom(r)>>
    <3>1. m = 1 /\ q = <<ActTo(r, s), GradFrom(r)>>
      BY <1>6, <2>1, <2>2
    <3>2. RemoveAt(<<ActTo(r, s), GradFrom(r)>>, 1) = <<GradFrom(r)>>
      BY RemoveFacts
    <3>3. q[m] = ActTo(r, s)
      BY <3>1
    <3>4. QED
      BY <3>1, <3>2, <3>3
  <2>4. Posted(r, s, u)
    BY <1>6, <2>3 DEF Posted
  <2>5. QED
    BY <1>6, <2>3, <2>4, TrafficFacts, Zenon DEF Sent
<1>7. CASE r > 0 /\ s.phase = "steady_fwd" /\ q = <<GradTo(r, s), ActFrom(r)>>
  <2>1. m = 1 \/ m = 2
    BY <1>7
  <2>2. m # 2
    BY <1>7, <1>0
  <2>3. q[m] = GradTo(r, s) /\ u = <<ActFrom(r)>>
    <3>1. m = 1 /\ q = <<GradTo(r, s), ActFrom(r)>>
      BY <1>7, <2>1, <2>2
    <3>2. RemoveAt(<<GradTo(r, s), ActFrom(r)>>, 1) = <<ActFrom(r)>>
      BY RemoveFacts
    <3>3. q[m] = GradTo(r, s)
      BY <3>1
    <3>4. QED
      BY <3>1, <3>2, <3>3
  <2>4. Posted(r, s, u)
    BY <1>7, <2>3 DEF Posted
  <2>5. QED
    BY <1>7, <2>3, <2>4, TrafficFacts, Zenon DEF Sent
<1>8. QED
  BY <1>2, <1>3, <1>4, <1>5, <1>6, <1>7 DEF Posted

(* What completing the receive of a rank leaves of what it posted. *)
Received(r, s, q, u) ==
  /\ Posted(r, s, u)
  /\ ~Recvs(u, r + 1) /\ ~Recvs(u, r - 1)
  /\ Sends(u, r + 1) <=> Sends(q, r + 1)
  /\ Sends(u, r - 1) <=> Sends(q, r - 1)

(* A rank has one receive posted at most: for its next pass. *)
LEMMA RecvIn ==
  ASSUME NEW r \in Ranks, NEW s, NEW q, Posted(r, s, q),
         NEW n \in DOMAIN q, q[n].kind = "recv"
  PROVE  /\ \/ /\ q[n] = ActFrom(r) /\ r > 0
               /\ s.phase \in {"warmup_fwd", "steady_fwd"}
               /\ Recvs(q, r - 1) /\ ~Recvs(q, r + 1)
            \/ /\ q[n] = GradFrom(r) /\ r < P - 1
               /\ s.phase \in {"steady_bwd", "cooldown_bwd"}
               /\ Recvs(q, r + 1) /\ ~Recvs(q, r - 1)
         /\ Received(r, s, q, RemoveAt(q, n))
<1> DEFINE u == RemoveAt(q, n)
<1>0. /\ ActTo(r, s).kind = "send" /\ GradTo(r, s).kind = "send"
      /\ ActFrom(r).kind = "recv" /\ GradFrom(r).kind = "recv"
  BY OpFacts
<1>1. Posted(r, s, <<>>)
  BY DEF Posted
<1>2. CASE q = <<>>
  BY <1>2
<1>3. CASE q = <<ActTo(r, s)>> \/ q = <<GradTo(r, s)>>
  <2>1. n = 1
    BY <1>3
  <2>2. q[n].kind = "send"
    BY <1>3, <2>1, <1>0
  <2>3. QED
    BY <2>2
<1>4. CASE r > 0 /\ s.phase \in {"warmup_fwd", "steady_fwd"} /\ q = <<ActFrom(r)>>
  <2>1. n = 1
    BY <1>4
  <2>2. q[n] = ActFrom(r) /\ u = <<>>
    BY <1>4, <2>1, RemoveFacts
  <2>3. QED
    BY <1>1, <1>4, <2>2, TrafficFacts, Zenon DEF Received
<1>5. CASE r < P - 1 /\ s.phase \in {"steady_bwd", "cooldown_bwd"} /\ q = <<GradFrom(r)>>
  <2>1. n = 1
    BY <1>5
  <2>2. q[n] = GradFrom(r) /\ u = <<>>
    BY <1>5, <2>1, RemoveFacts
  <2>3. QED
    BY <1>1, <1>5, <2>2, TrafficFacts, Zenon DEF Received
<1>6. CASE /\ r < P - 1 /\ s.phase = "steady_bwd" /\ s.drawn > 0
           /\ q = <<ActTo(r, s), GradFrom(r)>>
  <2>1. n = 1 \/ n = 2
    BY <1>6
  <2>2. n # 1
    BY <1>6, <1>0
  <2>3. q[n] = GradFrom(r) /\ u = <<ActTo(r, s)>>
    <3>1. n = 2 /\ q = <<ActTo(r, s), GradFrom(r)>>
      BY <1>6, <2>1, <2>2
    <3>2. RemoveAt(<<ActTo(r, s), GradFrom(r)>>, 2) = <<ActTo(r, s)>>
      BY RemoveFacts
    <3>3. q[n] = GradFrom(r)
      BY <3>1
    <3>4. QED
      BY <3>1, <3>2, <3>3
  <2>4. Posted(r, s, u)
    BY <1>6, <2>3 DEF Posted
  <2>5. QED
    BY <1>6, <2>3, <2>4, TrafficFacts, Zenon DEF Received
<1>7. CASE /\ r > 0 /\ s.phase = "steady_fwd" /\ s.bwd > 0
           /\ q = <<GradTo(r, s), ActFrom(r)>>
  <2>1. n = 1 \/ n = 2
    BY <1>7
  <2>2. n # 1
    BY <1>7, <1>0
  <2>3. q[n] = ActFrom(r) /\ u = <<GradTo(r, s)>>
    <3>1. n = 2 /\ q = <<GradTo(r, s), ActFrom(r)>>
      BY <1>7, <2>1, <2>2
    <3>2. RemoveAt(<<GradTo(r, s), ActFrom(r)>>, 2) = <<GradTo(r, s)>>
      BY RemoveFacts
    <3>3. q[n] = ActFrom(r)
      BY <3>1
    <3>4. QED
      BY <3>1, <3>2, <3>3
  <2>4. Posted(r, s, u)
    BY <1>7, <2>3 DEF Posted
  <2>5. QED
    BY <1>7, <2>3, <2>4, TrafficFacts, Zenon DEF Received
<1>8. QED
  BY <1>2, <1>3, <1>4, <1>5, <1>6, <1>7 DEF Posted

(* The sender keeps its local invariant. *)
LEMMA SenderKeeps ==
  ASSUME NEW cf, NEW r \in Ranks, NEW s, NEW q, NEW u,
         LocalInv(cf, r, s, q), Sent(r, s, q, u)
  PROVE  LocalInv(cf, r, s, u)
BY DEF LocalInv, Sent, Held

(* So does the receiver, if the tensor is the one its pass needs. *)
LEMMA ReceiverKeeps ==
  ASSUME NEW cf \in Configs, NEW r \in Ranks, NEW s, NEW q, NEW u, NEW t, NEW x \in Tensors,
         LocalInv(cf, r, s, q), Received(r, s, q, u),
         \/ /\ s.phase \in {"warmup_fwd", "steady_fwd"} /\ x = From(r - 1, s.drawn)
            /\ t = [s EXCEPT !.input_tensor = x]
         \/ /\ s.phase \in {"steady_bwd", "cooldown_bwd"} /\ x = From(r + 1, s.bwd)
            /\ t = [s EXCEPT !.output_tensor_grad = x]
  PROVE  /\ LocalInv(cf, r, t, u)
         /\ t.phase = s.phase /\ t.drawn = s.drawn /\ t.bwd = s.bwd
<1>1. s \in LocalType(cf)
  BY DEF LocalInv
<1>2. t \in LocalType(cf)
  BY <1>1 DEF LocalType
<1>3. /\ t.phase = s.phase /\ t.i = s.i /\ t.drawn = s.drawn /\ t.bwd = s.bwd
      /\ t.input_tensors = s.input_tensors /\ t.output_tensors = s.output_tensors
      /\ t.no_sync = s.no_sync /\ t.grad_syncs = s.grad_syncs
  BY <1>1 DEF LocalType
<1>4. /\ s.phase \in {"warmup_fwd", "steady_fwd"} => t.input_tensor = From(r - 1, s.drawn)
      /\ s.phase \in {"steady_bwd", "cooldown_bwd"} => t.output_tensor_grad = From(r + 1, s.bwd)
  BY <1>1 DEF LocalType
<1>5. Counters(cf, r, t) /\ Saved(cf, r, t) /\ Synced(cf, r, t)
  <2>1. Counters(cf, r, t)
    BY <1>3 DEF LocalInv, Counters
  <2>2. Saved(cf, r, t)
    BY <1>3 DEF LocalInv, Saved
  <2>3. Synced(cf, r, t)
    BY <1>3 DEF LocalInv, Synced
  <2>4. QED
    BY <2>1, <2>2, <2>3
<1>6. Posted(r, t, u)
  BY <1>3, PostedSame DEF Received
<1>7. Held(r, t, u)
  BY <1>3, <1>4 DEF Held, Received
<1>8. QED
  BY <1>2, <1>3, <1>5, <1>6, <1>7 DEF LocalInv

(* A transfer completes the oldest activation or gradient between two        *)
(* neighbours, and it is the one the receiver's next pass needs.             *)
Delivers(i, j) ==
  /\ conf' = conf
  /\ rank' = [rank EXCEPT ![j] = rank'[j]]
  /\ pend' = [pend EXCEPT ![i] = pend'[i], ![j] = pend'[j]]
  /\ LocalInv(conf, i, rank[i], pend'[i])
  /\ LocalInv(conf, j, rank'[j], pend'[j])
  /\ rank'[j].phase = rank[j].phase
  /\ rank'[j].drawn = rank[j].drawn /\ rank'[j].bwd = rank[j].bwd
  /\ Sent(i, rank[i], pend[i], pend'[i])
  /\ Received(j, rank[j], pend[j], pend'[j])
  /\ \/ /\ j = i + 1 /\ rank[j].phase \in {"warmup_fwd", "steady_fwd"}
        /\ Sends(pend[i], i + 1) /\ ~Sends(pend[i], i - 1)
        /\ Recvs(pend[j], j - 1) /\ ~Recvs(pend[j], j + 1)
     \/ /\ i = j + 1 /\ rank[j].phase \in {"steady_bwd", "cooldown_bwd"}
        /\ Sends(pend[i], i - 1) /\ ~Sends(pend[i], i + 1)
        /\ Recvs(pend[j], j + 1) /\ ~Recvs(pend[j], j - 1)

(* The pairing by order alone finds the right tensor. *)
LEMMA TransferDelivers ==
  ASSUME IInv, NEW i \in Ranks, NEW j \in Ranks, Transfer(i, j)
  PROVE  Delivers(i, j)
<1>1. PICK m \in DOMAIN pend[i], n \in DOMAIN pend[j] :
        /\ Paired(TRUE, i, m, j, n)
        /\ Complete(i, m, j, n)
        /\ rank' = IF pend[j][n].list = "input"
                   THEN [rank EXCEPT ![j].input_tensor = pend[i][m].data]
                   ELSE [rank EXCEPT ![j].output_tensor_grad = pend[i][m].data]
  BY DEF Transfer
<1> DEFINE s == rank[i]
           q == pend[i]
           s2 == rank[j]
           q2 == pend[j]
           x == q[m].data
           u == RemoveAt(q, m)
           u2 == RemoveAt(q2, n)
           t == IF q2[n].list = "input" THEN [s2 EXCEPT !.input_tensor = x]
                ELSE [s2 EXCEPT !.output_tensor_grad = x]
<1>2. /\ q[m].kind = "send" /\ q[m].peer = j
      /\ q2[n].kind = "recv" /\ q2[n].peer = i
  BY <1>1 DEF Paired, IsFirst, Channel
<1>3. /\ LocalInv(conf, i, s, q) /\ LocalInv(conf, j, s2, q2) /\ conf \in Configs
      /\ rank \in [Ranks -> LocalType(conf)] /\ pend \in PendType
  BY LocalTypeIsRankType DEF IInv, TypeOK, PendType
<1>4. Posted(i, s, q) /\ Posted(j, s2, q2) /\ s2 \in LocalType(conf) /\ s \in LocalType(conf)
  BY <1>3 DEF LocalInv
<1>5. /\ \/ /\ q[m] = ActTo(i, s) /\ i < P - 1
            /\ Sends(q, i + 1) /\ ~Sends(q, i - 1)
         \/ /\ q[m] = GradTo(i, s) /\ i > 0
            /\ Sends(q, i - 1) /\ ~Sends(q, i + 1)
      /\ Sent(i, s, q, u)
  BY <1>2, <1>4, SendOut
<1>6. /\ \/ /\ q2[n] = ActFrom(j) /\ j > 0
            /\ s2.phase \in {"warmup_fwd", "steady_fwd"}
            /\ Recvs(q2, j - 1) /\ ~Recvs(q2, j + 1)
         \/ /\ q2[n] = GradFrom(j) /\ j < P - 1
            /\ s2.phase \in {"steady_bwd", "cooldown_bwd"}
            /\ Recvs(q2, j + 1) /\ ~Recvs(q2, j - 1)
      /\ Received(j, s2, q2, u2)
  BY <1>2, <1>4, RecvIn
<1>7. i \in Int /\ j \in Int
  BY PeerFacts
<1>8. /\ s.drawn \in Int /\ s.bwd \in Int /\ s2.drawn \in Int /\ s2.bwd \in Int
      /\ 0 <= s2.drawn /\ s2.drawn <= conf.microbatches
      /\ 0 <= s2.bwd /\ s2.bwd <= conf.microbatches
  BY <1>3, <1>4, ConfFacts DEF LocalType
<1>9. q[m] = ActTo(i, s) => j = i + 1 /\ x = Tensor(i, s.drawn - 1)
  <2>1. ActTo(i, s).peer = i + 1 /\ ActTo(i, s).data = Tensor(i, s.drawn - 1)
    BY DEF ActTo, Op
  <2>2. QED
    BY <1>2, <2>1
<1>10. q[m] = GradTo(i, s) => j = i - 1 /\ x = Tensor(i, s.bwd - 1)
  <2>1. GradTo(i, s).peer = i - 1 /\ GradTo(i, s).data = Tensor(i, s.bwd - 1)
    BY DEF GradTo, Op
  <2>2. QED
    BY <1>2, <2>1
<1>11. q2[n] = ActFrom(j) => i = j - 1 /\ q2[n].list = "input"
  <2>1. ActFrom(j).peer = j - 1 /\ ActFrom(j).list = "input"
    BY OpFacts
  <2>2. QED
    BY <1>2, <2>1
<1>12. q2[n] = GradFrom(j) => i = j + 1 /\ q2[n].list # "input"
  <2>1. GradFrom(j).peer = j + 1 /\ GradFrom(j).list = "grad"
    BY OpFacts
  <2>2. QED
    BY <1>2, <2>1
<1> HIDE DEF x, u, u2
<1>13. CASE q[m] = ActTo(i, s)
  <2>1. j = i + 1 /\ i = j - 1 /\ q2[n] = ActFrom(j) /\ q2[n].list = "input"
    BY <1>6, <1>7, <1>9, <1>11, <1>12, <1>13
  <2>2. /\ Sends(q, i + 1) /\ ~Sends(q, i - 1)
    BY <1>5, <1>7, <1>10, <1>13, <2>1
  <2>3. /\ s2.phase \in {"warmup_fwd", "steady_fwd"}
        /\ Recvs(q2, j - 1) /\ ~Recvs(q2, j + 1)
    BY <1>6, <1>7, <1>12, <2>1
  <2>4. ActsOut(i, s, q) = ActsIn(j, s2, q2)
    BY <2>1 DEF IInv, Link
  <2>5. s.drawn - 1 = s2.drawn
    BY <1>8, <2>2, <2>3, <2>4 DEF ActsOut, ActsIn
  <2>6. x = From(j - 1, s2.drawn)
    BY <1>9, <1>13, <2>1, <2>5 DEF From
  <2>7. s2.drawn < MaxMicrobatches
    <3>1. s2.drawn < conf.microbatches
      <4>1. Counters(conf, j, s2) /\ s2.i \in Int
        BY <1>3, <1>4, ConfFacts DEF LocalInv, LocalType
      <4>2. QED
        BY <4>1, <1>3, <1>8, <2>3, WarmFacts, ConfFacts DEF Counters
    <3>2. QED
      BY <1>3, <1>8, <3>1, ConfFacts, MaxFacts
  <2>8. x \in Tensors
    BY <1>7, <1>8, <2>1, <2>6, <2>7, FromFacts
  <2>9. t = [s2 EXCEPT !.input_tensor = x]
    BY <2>1
  <2>10. LocalInv(conf, j, t, u2) /\ t.phase = s2.phase /\ t.drawn = s2.drawn /\ t.bwd = s2.bwd
    BY <1>3, <1>6, <2>3, <2>6, <2>8, <2>9, ReceiverKeeps
  <2>11. LocalInv(conf, i, s, u)
    BY <1>3, <1>5, SenderKeeps
  <2>12. rank' = [rank EXCEPT ![j] = t] /\ rank'[j] = t
    BY <1>1, <1>3, <2>1 DEF x
  <2>13. pend' = [pend EXCEPT ![i] = u, ![j] = u2] /\ pend'[i] = u /\ pend'[j] = u2
    <3>1. i # j
      BY <1>7, <2>1
    <3>2. pend' = [pend EXCEPT ![i] = u, ![j] = u2]
      BY <1>1, <3>1 DEF Complete, u, u2
    <3>3. QED
      BY <1>3, <3>1, <3>2 DEF PendType
  <2>14. conf' = conf
    BY DEF Transfer
  <2> HIDE DEF t
  <2>15. QED
    BY <1>5, <1>6, <2>1, <2>2, <2>3, <2>10, <2>11, <2>12, <2>13, <2>14 DEF Delivers
<1>14. CASE q[m] = GradTo(i, s)
  <2>1. j = i - 1 /\ i = j + 1 /\ q2[n] = GradFrom(j) /\ q2[n].list # "input"
    BY <1>6, <1>7, <1>10, <1>11, <1>12, <1>14
  <2>2. /\ Sends(q, i - 1) /\ ~Sends(q, i + 1)
    BY <1>5, <1>7, <1>9, <1>14, <2>1
  <2>3. /\ s2.phase \in {"steady_bwd", "cooldown_bwd"}
        /\ Recvs(q2, j + 1) /\ ~Recvs(q2, j - 1)
    BY <1>6, <1>7, <1>11, <2>1
  <2>4. GradsOut(i, s, q) = GradsIn(j, s2, q2)
    BY <2>1 DEF IInv, Link
  <2>5. s.bwd - 1 = s2.bwd
    BY <1>8, <2>2, <2>3, <2>4 DEF GradsOut, GradsIn
  <2>6. x = From(j + 1, s2.bwd)
    BY <1>10, <1>14, <2>1, <2>5 DEF From
  <2>7. s2.bwd < MaxMicrobatches
    <3>1. s2.bwd < conf.microbatches
      <4>1. Counters(conf, j, s2) /\ s2.i \in Int
        BY <1>3, <1>4, ConfFacts DEF LocalInv, LocalType
      <4>2. QED
        BY <4>1, <1>3, <1>8, <2>3, WarmFacts, ConfFacts DEF Counters
    <3>2. QED
      BY <1>3, <1>8, <3>1, ConfFacts, MaxFacts
  <2>8. x \in Tensors
    BY <1>7, <1>8, <2>1, <2>6, <2>7, FromFacts
  <2>9. t = [s2 EXCEPT !.output_tensor_grad = x]
    BY <2>1
  <2>10. LocalInv(conf, j, t, u2) /\ t.phase = s2.phase /\ t.drawn = s2.drawn /\ t.bwd = s2.bwd
    BY <1>3, <1>6, <2>3, <2>6, <2>8, <2>9, ReceiverKeeps
  <2>11. LocalInv(conf, i, s, u)
    BY <1>3, <1>5, SenderKeeps
  <2>12. rank' = [rank EXCEPT ![j] = t] /\ rank'[j] = t
    BY <1>1, <1>3, <2>1 DEF x
  <2>13. pend' = [pend EXCEPT ![i] = u, ![j] = u2] /\ pend'[i] = u /\ pend'[j] = u2
    <3>1. i # j
      BY <1>7, <2>1
    <3>2. pend' = [pend EXCEPT ![i] = u, ![j] = u2]
      BY <1>1, <3>1 DEF Complete, u, u2
    <3>3. QED
      BY <1>3, <3>1, <3>2 DEF PendType
  <2>14. conf' = conf
    BY DEF Transfer
  <2> HIDE DEF t
  <2>15. QED
    BY <1>5, <1>6, <2>1, <2>2, <2>3, <2>10, <2>11, <2>12, <2>13, <2>14 DEF Delivers
<1>15. QED
  BY <1>5, <1>13, <1>14

-----------------------------------------------------------------------------
(* The inductive invariant.                                                  *)

(* Types follow from the local invariants. *)
LEMMA TypesFromLocal ==
  ASSUME NEW cf \in Configs, NEW rk, NEW pd,
         rk = [k \in Ranks |-> rk[k]], pd = [k \in Ranks |-> pd[k]],
         \A k \in Ranks : LocalInv(cf, k, rk[k], pd[k])
  PROVE  rk \in [Ranks -> LocalType(cf)] /\ pd \in PendType
<1>1. \A k \in Ranks : rk[k] \in LocalType(cf)
  BY DEF LocalInv
<1>2. \A k \in Ranks : pd[k] \in Seq(OpType(MaxMicrobatches - 1, Ranks))
  <2> TAKE k \in Ranks
  <2>1. Posted(k, rk[k], pd[k])
    BY DEF LocalInv
  <2>2. QED
    BY <1>1, <2>1, PostedType
<1>3. rk \in [Ranks -> LocalType(cf)]
  BY <1>1
<1>4. pd \in PendType
  BY <1>2 DEF PendType
<1>5. QED
  BY <1>3, <1>4

(* Local invariants and links make up the invariant. *)
LEMMA Reassembled ==
  ASSUME conf \in Configs, conf' = conf,
         rank' = [k \in Ranks |-> rank'[k]], pend' = [k \in Ranks |-> pend'[k]],
         \A k \in Ranks : LocalInv(conf, k, rank'[k], pend'[k]),
         \A k \in Ranks : k + 1 \in Ranks =>
            Link(k, rank'[k], pend'[k], rank'[k + 1], pend'[k + 1])
  PROVE  IInv'
<1>1. rank' \in [Ranks -> LocalType(conf)] /\ pend' \in PendType
  BY TypesFromLocal
<1>2. LocalType(conf') = RankType'
  BY DEF RankType, LocalType, M
<1>3. TypeOK'
  BY <1>1, <1>2 DEF TypeOK, PendType
<1>4. QED
  BY <1>3 DEF IInv

(* The parts of the invariant that the steps use. *)
LEMMA IInvParts ==
  ASSUME IInv
  PROVE  /\ conf \in Configs /\ rank \in [Ranks -> LocalType(conf)] /\ pend \in PendType
         /\ \A k \in Ranks : LocalInv(conf, k, rank[k], pend[k])
         /\ \A k \in Ranks : k + 1 \in Ranks =>
               Link(k, rank[k], pend[k], rank[k + 1], pend[k + 1])
BY LocalTypeIsRankType DEF IInv, TypeOK, PendType

(* The step of a rank keeps the invariant. *)
LEMMA MovesKeepIInv ==
  ASSUME IInv, NEW r \in Ranks, Moves(r)
  PROVE  IInv'
<1>1. /\ conf \in Configs /\ rank \in [Ranks -> LocalType(conf)] /\ pend \in PendType
      /\ \A k \in Ranks : LocalInv(conf, k, rank[k], pend[k])
      /\ \A k \in Ranks : k + 1 \in Ranks =>
            Link(k, rank[k], pend[k], rank[k + 1], pend[k + 1])
  BY IInvParts
<1>2. /\ conf' = conf
      /\ rank' = [rank EXCEPT ![r] = rank'[r]] /\ pend' = [pend EXCEPT ![r] = pend'[r]]
      /\ LocalInv(conf, r, rank'[r], pend'[r])
  BY DEF Moves, Advances
<1>3. \A k \in Ranks : k # r => rank'[k] = rank[k] /\ pend'[k] = pend[k]
  BY <1>1, <1>2 DEF PendType
<1>4. rank' = [k \in Ranks |-> rank'[k]] /\ pend' = [k \in Ranks |-> pend'[k]]
  BY <1>1, <1>2 DEF PendType
<1>5. \A k \in Ranks : LocalInv(conf, k, rank'[k], pend'[k])
  <2> TAKE k \in Ranks
  <2>1. CASE k = r
    BY <1>2, <2>1
  <2>2. CASE k # r
    BY <1>1, <1>3, <2>2
  <2>3. QED
    BY <2>1, <2>2
<1>6. \A k \in Ranks : k + 1 \in Ranks =>
         Link(k, rank'[k], pend'[k], rank'[k + 1], pend'[k + 1])
  <2> SUFFICES ASSUME NEW k \in Ranks, k + 1 \in Ranks
               PROVE  Link(k, rank'[k], pend'[k], rank'[k + 1], pend'[k + 1])
    OBVIOUS
  <2>1. Link(k, rank[k], pend[k], rank[k + 1], pend[k + 1])
    BY <1>1
  <2>2. k # k + 1 /\ k < P - 1 /\ k + 1 > 0 /\ k + 1 # k
    BY PAssumption DEF Ranks
  <2>3. CASE k = r
    <3>1. /\ ActsOut(k, rank'[k], pend'[k]) = ActsOut(k, rank[k], pend[k])
          /\ GradsIn(k, rank'[k], pend'[k]) = GradsIn(k, rank[k], pend[k])
      BY <2>2, <2>3 DEF Moves, Advances
    <3>2. rank'[k + 1] = rank[k + 1] /\ pend'[k + 1] = pend[k + 1]
      BY <1>3, <2>2, <2>3
    <3>3. QED
      BY <2>1, <3>1, <3>2 DEF Link
  <2>4. CASE k + 1 = r
    <3>1. /\ ActsIn(k + 1, rank'[k + 1], pend'[k + 1]) = ActsIn(k + 1, rank[k + 1], pend[k + 1])
          /\ GradsOut(k + 1, rank'[k + 1], pend'[k + 1])
               = GradsOut(k + 1, rank[k + 1], pend[k + 1])
      BY <2>2, <2>4 DEF Moves, Advances
    <3>2. rank'[k] = rank[k] /\ pend'[k] = pend[k]
      BY <1>3, <2>2, <2>4
    <3>3. QED
      BY <2>1, <3>1, <3>2 DEF Link
  <2>5. CASE k # r /\ k + 1 # r
    BY <1>3, <2>1, <2>5
  <2>6. QED
    BY <2>3, <2>4, <2>5
<1>7. QED
  BY <1>1, <1>2, <1>4, <1>5, <1>6, Reassembled

(* A transfer keeps the invariant. *)
LEMMA DeliversKeepsIInv ==
  ASSUME IInv, NEW i \in Ranks, NEW j \in Ranks, Delivers(i, j)
  PROVE  IInv'
<1>1. /\ conf \in Configs /\ rank \in [Ranks -> LocalType(conf)] /\ pend \in PendType
      /\ \A k \in Ranks : LocalInv(conf, k, rank[k], pend[k])
      /\ \A k \in Ranks : k + 1 \in Ranks =>
            Link(k, rank[k], pend[k], rank[k + 1], pend[k + 1])
  BY IInvParts
<1>2. i # j /\ i \in Int /\ j \in Int
  BY PeerFacts DEF Delivers
<1>3. \A k \in Ranks : rank[k].drawn \in Int /\ rank[k].bwd \in Int
  BY <1>1, ConfFacts DEF LocalType
<1>4. /\ \A k \in Ranks : k # j => rank'[k] = rank[k]
      /\ \A k \in Ranks : k # j /\ k # i => pend'[k] = pend[k]
      /\ rank' = [k \in Ranks |-> rank'[k]] /\ pend' = [k \in Ranks |-> pend'[k]]
  BY <1>1, <1>2 DEF Delivers, PendType
<1>5. \A k \in Ranks : LocalInv(conf, k, rank'[k], pend'[k])
  <2> TAKE k \in Ranks
  <2>1. CASE k = i
    BY <1>2, <1>4, <2>1 DEF Delivers
  <2>2. CASE k = j
    BY <2>2 DEF Delivers
  <2>3. CASE k # i /\ k # j
    BY <1>1, <1>4, <2>3
  <2>4. QED
    BY <2>1, <2>2, <2>3
<1>6. ASSUME NEW k \in Ranks
      PROVE  /\ ActsOut(k, rank'[k], pend'[k])
                  = ActsOut(k, rank[k], pend[k]) + (IF j = i + 1 /\ k = i THEN 1 ELSE 0)
             /\ ActsIn(k, rank'[k], pend'[k])
                  = ActsIn(k, rank[k], pend[k]) + (IF j = i + 1 /\ k = j THEN 1 ELSE 0)
             /\ GradsOut(k, rank'[k], pend'[k])
                  = GradsOut(k, rank[k], pend[k]) + (IF i = j + 1 /\ k = i THEN 1 ELSE 0)
             /\ GradsIn(k, rank'[k], pend'[k])
                  = GradsIn(k, rank[k], pend[k]) + (IF i = j + 1 /\ k = j THEN 1 ELSE 0)
  <2> DEFINE aO == ActsOut(k, rank[k], pend[k])
             aI == ActsIn(k, rank[k], pend[k])
             gO == GradsOut(k, rank[k], pend[k])
             gI == GradsIn(k, rank[k], pend[k])
  <2>1. aO \in Int /\ aI \in Int /\ gO \in Int /\ gI \in Int
    BY <1>3 DEF ActsOut, ActsIn, GradsOut, GradsIn
  <2>2. CASE k = i
    <3>1. rank'[k] = rank[k]
      BY <1>2, <1>4, <2>2
    <3>2. /\ ~Sends(pend'[k], k + 1) /\ ~Sends(pend'[k], k - 1)
          /\ Recvs(pend'[k], k + 1) <=> Recvs(pend[k], k + 1)
          /\ Recvs(pend'[k], k - 1) <=> Recvs(pend[k], k - 1)
      BY <2>2 DEF Delivers, Sent
    <3>3. /\ j = i + 1 => Sends(pend[k], k + 1) /\ ~Sends(pend[k], k - 1)
          /\ i = j + 1 => Sends(pend[k], k - 1) /\ ~Sends(pend[k], k + 1)
          /\ j = i + 1 \/ i = j + 1
      BY <1>2, <2>2 DEF Delivers
    <3>4. QED
      BY <1>2, <1>3, <2>2, <3>1, <3>2, <3>3 DEF ActsOut, ActsIn, GradsOut, GradsIn
  <2>3. CASE k = j
    <3>1. /\ rank'[k].phase = rank[k].phase
          /\ rank'[k].drawn = rank[k].drawn /\ rank'[k].bwd = rank[k].bwd
      BY <2>3 DEF Delivers
    <3>2. /\ ~Recvs(pend'[k], k + 1) /\ ~Recvs(pend'[k], k - 1)
          /\ Sends(pend'[k], k + 1) <=> Sends(pend[k], k + 1)
          /\ Sends(pend'[k], k - 1) <=> Sends(pend[k], k - 1)
      BY <2>3 DEF Delivers, Received
    <3>3. /\ j = i + 1 => /\ Recvs(pend[k], k - 1) /\ ~Recvs(pend[k], k + 1)
                          /\ rank[k].phase \in {"warmup_fwd", "steady_fwd"}
          /\ i = j + 1 => /\ Recvs(pend[k], k + 1) /\ ~Recvs(pend[k], k - 1)
                          /\ rank[k].phase \in {"steady_bwd", "cooldown_bwd"}
          /\ j = i + 1 \/ i = j + 1
      BY <1>2, <2>3 DEF Delivers
    <3>4. QED
      BY <1>2, <1>3, <2>3, <3>1, <3>2, <3>3 DEF ActsOut, ActsIn, GradsOut, GradsIn
  <2>4. CASE k # i /\ k # j
    <3>1. rank'[k] = rank[k] /\ pend'[k] = pend[k]
      BY <1>4, <2>4
    <3> HIDE DEF aO, aI, gO, gI
    <3>2. aO = aO + 0 /\ aI = aI + 0 /\ gO = gO + 0 /\ gI = gI + 0
      BY <2>1
    <3>3. QED
      BY <2>4, <3>1, <3>2 DEF aO, aI, gO, gI
  <2>5. QED
    BY <2>2, <2>3, <2>4
<1>7. \A k \in Ranks : k + 1 \in Ranks =>
         Link(k, rank'[k], pend'[k], rank'[k + 1], pend'[k + 1])
  <2> SUFFICES ASSUME NEW k \in Ranks, k + 1 \in Ranks
               PROVE  Link(k, rank'[k], pend'[k], rank'[k + 1], pend'[k + 1])
    OBVIOUS
  <2>1. /\ ActsOut(k, rank[k], pend[k]) = ActsIn(k + 1, rank[k + 1], pend[k + 1])
        /\ GradsOut(k + 1, rank[k + 1], pend[k + 1]) = GradsIn(k, rank[k], pend[k])
    BY <1>1 DEF Link
  <2>2. k \in Int
    BY PeerFacts
  <2>3. /\ j = i + 1 => (k = i <=> k + 1 = j)
        /\ i = j + 1 => (k = j <=> k + 1 = i)
    BY <1>2, <2>2
  <2>4. /\ ActsOut(k, rank'[k], pend'[k])
             = ActsOut(k, rank[k], pend[k]) + (IF j = i + 1 /\ k = i THEN 1 ELSE 0)
        /\ GradsIn(k, rank'[k], pend'[k])
             = GradsIn(k, rank[k], pend[k]) + (IF i = j + 1 /\ k = j THEN 1 ELSE 0)
    BY <1>6
  <2>5. /\ ActsIn(k + 1, rank'[k + 1], pend'[k + 1])
             = ActsIn(k + 1, rank[k + 1], pend[k + 1])
                 + (IF j = i + 1 /\ k + 1 = j THEN 1 ELSE 0)
        /\ GradsOut(k + 1, rank'[k + 1], pend'[k + 1])
             = GradsOut(k + 1, rank[k + 1], pend[k + 1])
                 + (IF i = j + 1 /\ k + 1 = i THEN 1 ELSE 0)
    BY <1>6
  <2>6. QED
    BY <2>1, <2>3, <2>4, <2>5, Zenon DEF Link
<1>8. conf' = conf
  BY DEF Delivers
<1>9. QED
  BY <1>1, <1>4, <1>5, <1>7, <1>8, Reassembled

(* The invariant holds when an iteration starts. *)
LEMMA InitIInv == Init => IInv
<1> SUFFICES ASSUME Init PROVE IInv
  OBVIOUS
<1>1. conf \in Configs /\ rank = [r \in Ranks |-> InitRank(r)] /\ pend = [r \in Ranks |-> <<>>]
  BY DEF Init
<1>2. ASSUME NEW r \in Ranks
      PROVE  /\ LocalInv(conf, r, rank[r], pend[r])
             /\ rank[r].drawn = 0 /\ rank[r].bwd = 0 /\ pend[r] = <<>>
             /\ rank[r].phase \in {"warmup_recv", "first_recv"}
  <2> DEFINE s == rank[r]
             p == IF NumWarmup(r) > 0 THEN "warmup_recv" ELSE "first_recv"
  <2>1. s = [phase |-> p,
             i |-> 0, input_tensor |-> NoTensor, output_tensor_grad |-> NoTensor,
             input_tensors |-> <<>>, output_tensors |-> <<>>,
             drawn |-> 0, bwd |-> 0, no_sync |-> TRUE, grad_syncs |-> <<>>]
    BY <1>1 DEF InitRank
  <2>2. pend[r] = <<>>
    BY <1>1
  <2>3. p \in {"warmup_recv", "first_recv"} /\ (p = "warmup_recv" <=> NumWarmup(r) > 0)
    OBVIOUS
  <2> HIDE DEF p
  <2>4. 0 \in 0 .. conf.microbatches /\ conf.microbatches \in Nat /\ conf.microbatches > 0
    BY <1>1, ConfFacts
  <2>5. s \in LocalType(conf)
    BY <2>1, <2>3, <2>4, BufferFacts DEF LocalType
  <2>6. /\ s.phase = p /\ s.i = 0 /\ s.drawn = 0 /\ s.bwd = 0 /\ s.no_sync = TRUE
        /\ s.grad_syncs = <<>> /\ s.input_tensors = <<>> /\ s.output_tensors = <<>>
    BY <2>1
  <2> HIDE DEF s
  <2>7. Counters(conf, r, s)
    BY <1>1, <2>3, <2>4, <2>6, WarmFacts, WarmIsNumWarmup DEF Counters
  <2>8. Saved(conf, r, s)
    <3>1. Run(r, 0, 0) = <<>> /\ Run(r - 1, 0, 0) = <<>>
      <4>1. r \in Int /\ r - 1 \in Int /\ 0 \in Int /\ 0 \in Nat
        BY PeerFacts
      <4>2. QED
        BY <4>1, RunFacts, Zenon
    <3> DEFINE kept == IF conf.forwardOnly THEN 0 ELSE s.drawn - s.bwd
    <3>2. kept = 0
      BY <2>6
    <3>3. Saved(conf, r, s) <=> /\ s.output_tensors = Run(r, s.bwd, kept)
                               /\ s.input_tensors = Run(r - 1, s.bwd, kept)
      BY DEF Saved
    <3> HIDE DEF kept
    <3>4. QED
      BY <2>6, <3>1, <3>2, <3>3
  <2>9. Posted(r, s, <<>>) /\ Held(r, s, <<>>)
    BY <2>3, <2>6 DEF Posted, Held
  <2>10. Synced(conf, r, s)
    BY <2>3, <2>6 DEF Synced
  <2>11. LocalInv(conf, r, s, <<>>)
    BY <2>5, <2>7, <2>8, <2>9, <2>10 DEF LocalInv
  <2>12. QED
    BY <2>2, <2>3, <2>6, <2>11 DEF s
<1>3. \A k \in Ranks : k + 1 \in Ranks =>
         Link(k, rank[k], pend[k], rank[k + 1], pend[k + 1])
  <2> SUFFICES ASSUME NEW k \in Ranks, k + 1 \in Ranks
               PROVE  Link(k, rank[k], pend[k], rank[k + 1], pend[k + 1])
    OBVIOUS
  <2>1. ASSUME NEW r \in Ranks
        PROVE  /\ ActsOut(r, rank[r], pend[r]) = 0 /\ ActsIn(r, rank[r], pend[r]) = 0
               /\ GradsOut(r, rank[r], pend[r]) = 0 /\ GradsIn(r, rank[r], pend[r]) = 0
    <3>1. /\ ~Sends(pend[r], r + 1) /\ ~Sends(pend[r], r - 1)
      BY <1>2 DEF Sends
    <3>2. rank[r].drawn = 0 /\ rank[r].bwd = 0
          /\ ~(rank[r].phase \in {"warmup_fwd", "steady_fwd"})
          /\ ~(rank[r].phase \in {"steady_bwd", "cooldown_bwd"})
      BY <1>2
    <3>3. /\ ActsOut(r, rank[r], pend[r]) = 0 - 0 /\ ActsIn(r, rank[r], pend[r]) = 0 + 0
          /\ GradsOut(r, rank[r], pend[r]) = 0 - 0 /\ GradsIn(r, rank[r], pend[r]) = 0 + 0
      BY <3>1, <3>2, Zenon DEF ActsOut, ActsIn, GradsOut, GradsIn
    <3>4. QED
      BY <3>3
  <2>2. QED
    BY <2>1 DEF Link
<1>4. rank = [k \in Ranks |-> rank[k]] /\ pend = [k \in Ranks |-> pend[k]]
  BY <1>1
<1>5. rank \in [Ranks -> LocalType(conf)] /\ pend \in PendType
  BY <1>1, <1>2, <1>4, TypesFromLocal
<1>6. TypeOK
  BY <1>1, <1>5, LocalTypeIsRankType DEF TypeOK, PendType
<1>7. QED
  BY <1>2, <1>3, <1>6 DEF IInv

(* Every step keeps the invariant. *)
LEMMA NextIInv == IInv /\ [Next]_vars => IInv'
<1> SUFFICES ASSUME IInv, [Next]_vars PROVE IInv'
  OBVIOUS
<1>1. ASSUME NEW r \in Ranks, Step(r) PROVE IInv'
  <2>1. Moves(r)
    BY <1>1, IInvParts, StepMoves
  <2>2. QED
    BY <2>1, MovesKeepIInv
<1>2. ASSUME NEW i \in Ranks, NEW j \in Ranks, Transfer(i, j) PROVE IInv'
  BY <1>2, TransferDelivers, DeliversKeepsIInv
<1>3. CASE UNCHANGED vars
  BY <1>3 DEF vars, IInv, TypeOK, RankType, M
<1>4. QED
  BY <1>1, <1>2, <1>3 DEF Next

(* The inductive invariant holds in every reachable state. *)
THEOREM Invariance == Spec => []IInv
BY InitIInv, NextIInv, PTL DEF Spec

-----------------------------------------------------------------------------
(* What the invariant says of the tensors and of the gradients.              *)

(* How many tensors a rank saves: at most those of its warmup and one more. *)
LEMMA SavedFacts ==
  ASSUME NEW cf \in Configs, NEW r \in Ranks, NEW s, NEW q, LocalInv(cf, r, s, q)
  PROVE  \E kept \in Nat :
           /\ kept <= IF cf.forwardOnly THEN 0 ELSE P - r
           /\ s.output_tensors = Run(r, s.bwd, kept)
           /\ s.input_tensors = Run(r - 1, s.bwd, kept)
<1> DEFINE kept == IF cf.forwardOnly THEN 0 ELSE s.drawn - s.bwd
<1>1. s.drawn \in Nat /\ s.bwd \in Nat /\ s.i \in Nat
  BY ConfFacts DEF LocalInv, LocalType
<1>2. ~cf.forwardOnly => s.bwd <= s.drawn /\ s.drawn - s.bwd <= P - r
  <2>1. s \in LocalType(cf) /\ Counters(cf, r, s)
    BY DEF LocalInv
  <2>2. s.phase \in {"warmup_recv", "warmup_fwd", "first_recv", "steady_fwd", "steady_bwd",
                     "cooldown_recv", "cooldown_bwd", "launch", "done"}
    BY <2>1 DEF LocalType
  <2>3. P - r \in Nat /\ P - r > 0 /\ P - r - 1 = (P - r) - 1
    BY PAssumption DEF Ranks
  <2>4. QED
    BY <1>1, <2>1, <2>2, <2>3, WarmFacts, ConfFacts DEF Counters
<1>3. kept \in Nat /\ kept <= IF cf.forwardOnly THEN 0 ELSE P - r
  BY <1>1, <1>2
<1>4. s.output_tensors = Run(r, s.bwd, kept) /\ s.input_tensors = Run(r - 1, s.bwd, kept)
  BY DEF LocalInv, Saved
<1> HIDE DEF kept
<1>5. QED
  BY <1>3, <1>4

(* The local invariants are stronger than what is promised of the tensors. *)
LEMMA InvMatches == IInv => MicrobatchesMatch
<1> SUFFICES ASSUME IInv PROVE MicrobatchesMatch
  OBVIOUS
<1>1. TypeOK /\ conf \in Configs /\ \A r \in Ranks : LocalInv(conf, r, rank[r], pend[r])
  BY IInvParts DEF IInv
<1>2. ASSUME NEW r \in Ranks
      PROVE  /\ Len(rank[r].output_tensors) <= (IF conf.forwardOnly THEN 0 ELSE P - r)
             /\ rank[r].output_tensors
                  = [n \in 1 .. Len(rank[r].output_tensors) |-> Tensor(r, rank[r].bwd + n - 1)]
             /\ rank[r].input_tensors
                  = [n \in 1 .. Len(rank[r].output_tensors) |-> From(r - 1, rank[r].bwd + n - 1)]
             /\ rank[r].phase \in {"steady_bwd", "cooldown_bwd"} =>
                  rank[r].output_tensor_grad \in {Empty, From(r + 1, rank[r].bwd)}
             /\ rank[r].phase \in {"warmup_fwd", "steady_fwd"} =>
                  rank[r].input_tensor \in {Empty, From(r - 1, rank[r].drawn)}
  <2> DEFINE s == rank[r]
  <2>1. LocalInv(conf, r, s, pend[r])
    BY <1>1
  <2>2. r \in Int /\ r - 1 \in Int /\ s.bwd \in Int
    BY <1>1, <2>1, PeerFacts, ConfFacts DEF LocalInv, LocalType
  <2>3. Held(r, s, pend[r])
    BY <2>1 DEF LocalInv
  <2> HIDE DEF s
  <2>4. PICK kept \in Nat :
           /\ kept <= IF conf.forwardOnly THEN 0 ELSE P - r
           /\ s.output_tensors = Run(r, s.bwd, kept)
           /\ s.input_tensors = Run(r - 1, s.bwd, kept)
    BY <1>1, <2>1, SavedFacts
  <2>5. Len(s.output_tensors) = kept
    <3>1. Len(Run(r, s.bwd, kept)) = kept
      BY <2>2, RunFacts, Zenon
    <3>2. QED
      BY <2>4, <3>1
  <2>6. Run(r, s.bwd, kept) = [n \in 1 .. kept |-> Tensor(r, s.bwd + n - 1)]
    BY DEF Run, From
  <2>7. Run(r - 1, s.bwd, kept) = [n \in 1 .. kept |-> From(r - 1, s.bwd + n - 1)]
    BY DEF Run
  <2>8. /\ s.phase \in {"steady_bwd", "cooldown_bwd"} =>
             s.output_tensor_grad \in {Empty, From(r + 1, s.bwd)}
        /\ s.phase \in {"warmup_fwd", "steady_fwd"} =>
             s.input_tensor \in {Empty, From(r - 1, s.drawn)}
    BY <2>3 DEF Held
  <2>9. /\ Len(s.output_tensors) <= (IF conf.forwardOnly THEN 0 ELSE P - r)
        /\ s.output_tensors
             = [n \in 1 .. Len(s.output_tensors) |-> Tensor(r, s.bwd + n - 1)]
        /\ s.input_tensors
             = [n \in 1 .. Len(s.output_tensors) |-> From(r - 1, s.bwd + n - 1)]
    BY <2>4, <2>5, <2>6, <2>7, Zenon
  <2>10. QED
    BY <2>8, <2>9 DEF s
<1>3. ActivationsInFlight
  BY <1>2 DEF ActivationsInFlight
<1>4. QED
  BY <1>1, <1>2, <1>3 DEF MicrobatchesMatch, From

(* A rank only ever works on the tensors of the microbatch it is at, and     *)
(* holds no more activations than 1F1B promises.                             *)
THEOREM MicrobatchesMatchThm == Spec => []MicrobatchesMatch
BY Invariance, InvMatches, PTL

(* And than what is promised of the gradients. *)
LEMMA InvSynced == IInv => GradSyncOnceComplete
<1> SUFFICES ASSUME IInv, NEW r \in Ranks
             PROVE  /\ rank[r].grad_syncs \in {<<>>, <<M>>}
                    /\ rank[r].phase = "done" /\ ~conf.forwardOnly => rank[r].grad_syncs = <<M>>
  BY DEF GradSyncOnceComplete
<1>1. Synced(conf, r, rank[r])
  BY IInvParts DEF LocalInv
<1>2. QED
  BY <1>1 DEF Synced, M

(* The gradients of a rank are handed over once, after the last microbatch. *)
THEOREM GradSyncOnceCompleteThm == Spec => []GradSyncOnceComplete
BY Invariance, InvSynced, PTL

-----------------------------------------------------------------------------
(* The refinement of PipelineOrder.                                          *)

(* What reached rank r came from a pass its neighbour has run. *)
LEMMA InOrder ==
  ASSUME IInv, NEW r \in Ranks
  PROVE  /\ r > 0 => ActsIn(r, rank[r], pend[r]) <= rank[r - 1].drawn
         /\ r < P - 1 => GradsIn(r, rank[r], pend[r]) <= rank[r + 1].bwd
<1>1. /\ conf \in Configs /\ rank \in [Ranks -> LocalType(conf)]
      /\ \A k \in Ranks : k + 1 \in Ranks =>
            Link(k, rank[k], pend[k], rank[k + 1], pend[k + 1])
  BY IInvParts
<1>2. \A k \in Ranks : rank[k].drawn \in Int /\ rank[k].bwd \in Int
  BY <1>1, ConfFacts DEF LocalType
<1>3. ASSUME NEW k \in Ranks
      PROVE  /\ ActsOut(k, rank[k], pend[k]) <= rank[k].drawn
             /\ GradsOut(k, rank[k], pend[k]) <= rank[k].bwd
  BY <1>2 DEF ActsOut, GradsOut
<1>4. ASSUME r > 0 PROVE ActsIn(r, rank[r], pend[r]) <= rank[r - 1].drawn
  <2>1. r - 1 \in Ranks /\ (r - 1) + 1 = r
    BY <1>4, PAssumption DEF Ranks
  <2>2. Link(r - 1, rank[r - 1], pend[r - 1], rank[(r - 1) + 1], pend[(r - 1) + 1])
    BY <1>1, <2>1
  <2>3. ActsOut(r - 1, rank[r - 1], pend[r - 1]) = ActsIn(r, rank[r], pend[r])
    BY <2>1, <2>2 DEF Link
  <2>4. QED
    BY <1>3, <2>1, <2>3
<1>5. ASSUME r < P - 1 PROVE GradsIn(r, rank[r], pend[r]) <= rank[r + 1].bwd
  <2>1. r + 1 \in Ranks
    BY <1>5, PAssumption DEF Ranks
  <2>2. Link(r, rank[r], pend[r], rank[r + 1], pend[r + 1])
    BY <1>1, <2>1
  <2>3. GradsOut(r + 1, rank[r + 1], pend[r + 1]) = GradsIn(r, rank[r], pend[r])
    BY <2>2 DEF Link
  <2>4. QED
    BY <1>3, <2>1, <2>3
<1>6. QED
  BY <1>4, <1>5

(* The counters of an iteration's start are those of the order's. *)
LEMMA OrderInit == Init => Order!Init
<1> SUFFICES ASSUME Init PROVE Order!Init
  OBVIOUS
<1>1. \A r \in Ranks : rank[r].drawn = 0 /\ rank[r].bwd = 0
  BY DEF Init, InitRank
<1>2. Order!Stages = Ranks
  BY DEF Order!Stages, Ranks
<1>3. QED
  BY <1>1, <1>2 DEF Order!Init

(* A step of a rank runs its next forward or backward pass, if the order     *)
(* lets it, or moves no counter.                                             *)
LEMMA MovesInOrder ==
  ASSUME IInv, NEW r \in Ranks, Moves(r)
  PROVE  [Order!Next]_Order!orderVars
<1> DEFINE fwd == [k \in Ranks |-> rank[k].drawn]
           bwd == [k \in Ranks |-> rank[k].bwd]
           fwd1 == [k \in Ranks |-> rank'[k].drawn]
           bwd1 == [k \in Ranks |-> rank'[k].bwd]
           s == rank[r]
           t == rank'[r]
<1>1. /\ conf \in Configs /\ rank \in [Ranks -> LocalType(conf)]
      /\ \A k \in Ranks : k # r => rank'[k] = rank[k]
      /\ Advances(conf, r, s, pend[r], t, pend'[r])
  <2>1. conf \in Configs /\ rank \in [Ranks -> LocalType(conf)]
    BY IInvParts
  <2>2. QED
    BY <2>1 DEF Moves
<1>2. s.drawn \in Int /\ s.bwd \in Int /\ r \in Int
  BY <1>1, ConfFacts, PeerFacts DEF LocalType
<1>3. Order!Stages = Ranks
  BY DEF Order!Stages, Ranks
<1>4. CASE t.drawn = s.drawn /\ t.bwd = s.bwd
  <2>1. \A k \in Ranks : rank'[k].drawn = rank[k].drawn /\ rank'[k].bwd = rank[k].bwd
    BY <1>1, <1>4
  <2>2. fwd1 = fwd /\ bwd1 = bwd
    BY <2>1
  <2>3. QED
    BY <2>2 DEF Order!orderVars
<1>5. CASE /\ t.drawn = s.drawn + 1 /\ t.bwd = s.bwd
           /\ s.drawn < conf.microbatches
           /\ r > 0 => ActsIn(r, s, pend[r]) = s.drawn + 1
  <2>1. fwd[r] < MaxMicrobatches
    BY <1>1, <1>2, <1>5, ConfFacts, MaxFacts
  <2>2. r # 0 => r - 1 \in Ranks /\ fwd[r - 1] > fwd[r]
    <3>1. ASSUME r # 0 PROVE r > 0 /\ r - 1 \in Ranks
      BY <3>1, PAssumption DEF Ranks
    <3>2. ASSUME r # 0 PROVE rank[r - 1].drawn \in Int
      BY <1>1, <3>1, <3>2, ConfFacts DEF LocalType
    <3>3. QED
      BY <1>2, <1>5, <3>1, <3>2, InOrder
  <2>3. fwd1 = [fwd EXCEPT ![r] = @ + 1] /\ bwd1 = bwd
    BY <1>1, <1>5
  <2>4. Order!Forward(r)
    BY <2>1, <2>2, <2>3 DEF Order!Forward
  <2>5. QED
    BY <1>3, <2>4 DEF Order!Next
<1>6. CASE /\ t.drawn = s.drawn /\ t.bwd = s.bwd + 1
           /\ s.bwd < s.drawn
           /\ r < P - 1 => GradsIn(r, s, pend[r]) = s.bwd + 1
  <2>1. fwd[r] > bwd[r]
    BY <1>2, <1>6
  <2>2. r # P - 1 => r + 1 \in Ranks /\ bwd[r + 1] > bwd[r]
    <3>1. ASSUME r # P - 1 PROVE r < P - 1 /\ r + 1 \in Ranks
      BY <3>1, PAssumption DEF Ranks
    <3>2. ASSUME r # P - 1 PROVE rank[r + 1].bwd \in Int
      BY <1>1, <3>1, <3>2, ConfFacts DEF LocalType
    <3>3. QED
      BY <1>2, <1>6, <3>1, <3>2, InOrder
  <2>3. bwd1 = [bwd EXCEPT ![r] = @ + 1] /\ fwd1 = fwd
    BY <1>1, <1>6
  <2>4. Order!Backward(r)
    BY <2>1, <2>2, <2>3 DEF Order!Backward, Order!LastStage
  <2>5. QED
    BY <1>3, <2>4 DEF Order!Next
<1>7. QED
  BY <1>1, <1>4, <1>5, <1>6 DEF Advances

(* Every step is one of the order, or stutters. *)
LEMMA NextInOrder == IInv /\ [Next]_vars => [Order!Next]_Order!orderVars
<1> SUFFICES ASSUME IInv, [Next]_vars PROVE [Order!Next]_Order!orderVars
  OBVIOUS
<1>1. ASSUME NEW r \in Ranks, Step(r) PROVE [Order!Next]_Order!orderVars
  <2>1. Moves(r)
    BY <1>1, IInvParts, StepMoves
  <2>2. QED
    BY <2>1, MovesInOrder
<1>2. ASSUME NEW i \in Ranks, NEW j \in Ranks, Transfer(i, j)
      PROVE  [Order!Next]_Order!orderVars
  <2>1. Delivers(i, j)
    BY <1>2, TransferDelivers
  <2>2. rank \in [Ranks -> LocalType(conf)]
    BY IInvParts
  <2>3. \A k \in Ranks : rank'[k].drawn = rank[k].drawn /\ rank'[k].bwd = rank[k].bwd
    BY <2>1, <2>2 DEF Delivers
  <2>4. QED
    BY <2>3 DEF Order!orderVars
<1>3. CASE UNCHANGED vars
  BY <1>3 DEF vars, Order!orderVars
<1>4. QED
  BY <1>1, <1>2, <1>3 DEF Next

(* The schedule implements the order every pipeline schedule promises: no    *)
(* pass runs before the passes it needs, on any rank, for any configuration. *)
THEOREM ImplementsPipelineOrderThm == Spec => ImplementsPipelineOrder
<1>1. Init => Order!Init
  BY OrderInit
<1>2. IInv /\ [Next]_vars => [Order!Next]_Order!orderVars
  BY NextInOrder
<1>3. QED
  BY <1>1, <1>2, Invariance, PTL DEF Spec, ImplementsPipelineOrder, Order!Spec

-----------------------------------------------------------------------------
(* The order itself, for any number of stages and microbatches, whatever the *)
(* schedule: its stages are not those of the 1F1B schedule.                  *)
CONSTANTS NumStages, NumMicrobatches
VARIABLES fwd, bwd

AnyOrder == INSTANCE PipelineOrder

(* Type correctness holds initially and every step of a stage keeps it. *)
LEMMA OrderTypeStep ==
  ASSUME AnyOrder!ProperSizes
  PROVE  AnyOrder!TypeOK /\ [AnyOrder!Next]_AnyOrder!orderVars => AnyOrder!TypeOK'
<1> USE DEF AnyOrder!ProperSizes, AnyOrder!Stages
<1> SUFFICES ASSUME AnyOrder!TypeOK, [AnyOrder!Next]_AnyOrder!orderVars PROVE AnyOrder!TypeOK'
  OBVIOUS
<1>1. ASSUME NEW s \in AnyOrder!Stages, AnyOrder!Forward(s) PROVE AnyOrder!TypeOK'
  BY <1>1 DEF AnyOrder!TypeOK, AnyOrder!Forward
<1>2. ASSUME NEW s \in AnyOrder!Stages, AnyOrder!Backward(s) PROVE AnyOrder!TypeOK'
  BY <1>2 DEF AnyOrder!TypeOK, AnyOrder!Backward
<1>3. CASE UNCHANGED AnyOrder!orderVars
  BY <1>3 DEF AnyOrder!TypeOK, AnyOrder!orderVars
<1>4. QED
  BY <1>1, <1>2, <1>3 DEF AnyOrder!Next

(* The wavefront and the forward-first order are inductive together: the     *)
(* guards compare a stage with its neighbour only, the invariant with every  *)
(* other stage.                                                              *)
LEMMA OrderInvStep ==
  ASSUME AnyOrder!ProperSizes
  PROVE  AnyOrder!OrderInv /\ [AnyOrder!Next]_AnyOrder!orderVars => AnyOrder!OrderInv'
<1> USE DEF AnyOrder!ProperSizes, AnyOrder!Stages, AnyOrder!LastStage
<1> SUFFICES ASSUME AnyOrder!OrderInv, [AnyOrder!Next]_AnyOrder!orderVars PROVE AnyOrder!OrderInv'
  OBVIOUS
<1>1. AnyOrder!TypeOK'
  BY OrderTypeStep DEF AnyOrder!OrderInv
<1>2. ASSUME NEW s \in AnyOrder!Stages, AnyOrder!Forward(s) PROVE AnyOrder!Wavefront' /\ AnyOrder!ForwardFirst'
  <2>1. AnyOrder!Wavefront'
    <3> SUFFICES ASSUME NEW a \in AnyOrder!Stages, NEW b \in AnyOrder!Stages, a <= b
                 PROVE  fwd'[b] <= fwd'[a] /\ bwd'[a] <= bwd'[b]
      BY DEF AnyOrder!Wavefront
    <3>1. bwd'[a] <= bwd'[b]
      BY <1>2 DEF AnyOrder!Forward, AnyOrder!OrderInv, AnyOrder!Wavefront
    <3>2. CASE s = b /\ a # b
      <4>1. s - 1 \in AnyOrder!Stages /\ a <= s - 1
        BY <3>2
      <4>2. fwd[s - 1] <= fwd[a]
        BY <4>1 DEF AnyOrder!OrderInv, AnyOrder!Wavefront
      <4>3. fwd'[b] = fwd[s] + 1 /\ fwd'[a] = fwd[a]
        BY <1>2, <3>2 DEF AnyOrder!Forward, AnyOrder!OrderInv, AnyOrder!TypeOK
      <4>4. QED
        BY <1>2, <3>1, <3>2, <4>1, <4>2, <4>3 DEF AnyOrder!Forward, AnyOrder!OrderInv, AnyOrder!TypeOK
    <3>3. CASE ~(s = b /\ a # b)
      BY <1>2, <3>1, <3>3 DEF AnyOrder!Forward, AnyOrder!OrderInv, AnyOrder!TypeOK, AnyOrder!Wavefront
    <3>4. QED
      BY <3>2, <3>3
  <2>2. AnyOrder!ForwardFirst'
    BY <1>2 DEF AnyOrder!Forward, AnyOrder!OrderInv, AnyOrder!TypeOK, AnyOrder!ForwardFirst
  <2>3. QED
    BY <2>1, <2>2
<1>3. ASSUME NEW s \in AnyOrder!Stages, AnyOrder!Backward(s) PROVE AnyOrder!Wavefront' /\ AnyOrder!ForwardFirst'
  <2>1. AnyOrder!Wavefront'
    <3> SUFFICES ASSUME NEW a \in AnyOrder!Stages, NEW b \in AnyOrder!Stages, a <= b
                 PROVE  fwd'[b] <= fwd'[a] /\ bwd'[a] <= bwd'[b]
      BY DEF AnyOrder!Wavefront
    <3>1. fwd'[b] <= fwd'[a]
      BY <1>3 DEF AnyOrder!Backward, AnyOrder!OrderInv, AnyOrder!Wavefront
    <3>2. CASE s = a /\ a # b
      <4>1. s + 1 \in AnyOrder!Stages /\ s + 1 <= b /\ s # AnyOrder!LastStage
        BY <3>2
      <4>2. bwd[s + 1] <= bwd[b]
        BY <4>1 DEF AnyOrder!OrderInv, AnyOrder!Wavefront
      <4>3. bwd'[a] = bwd[s] + 1 /\ bwd'[b] = bwd[b]
        BY <1>3, <3>2 DEF AnyOrder!Backward, AnyOrder!OrderInv, AnyOrder!TypeOK
      <4>4. QED
        BY <1>3, <3>1, <3>2, <4>1, <4>2, <4>3 DEF AnyOrder!Backward, AnyOrder!OrderInv, AnyOrder!TypeOK
    <3>3. CASE ~(s = a /\ a # b)
      BY <1>3, <3>1, <3>3 DEF AnyOrder!Backward, AnyOrder!OrderInv, AnyOrder!TypeOK, AnyOrder!Wavefront
    <3>4. QED
      BY <3>2, <3>3
  <2>2. AnyOrder!ForwardFirst'
    BY <1>3 DEF AnyOrder!Backward, AnyOrder!OrderInv, AnyOrder!TypeOK, AnyOrder!ForwardFirst
  <2>3. QED
    BY <2>1, <2>2
<1>4. CASE UNCHANGED AnyOrder!orderVars
  BY <1>4 DEF AnyOrder!OrderInv, AnyOrder!TypeOK, AnyOrder!Wavefront, AnyOrder!ForwardFirst, AnyOrder!orderVars
<1>5. QED
  BY <1>1, <1>2, <1>3, <1>4 DEF AnyOrder!Next, AnyOrder!OrderInv

(* The inductive invariant holds in every reachable state. *)
THEOREM OrderInvariant ==
  ASSUME AnyOrder!ProperSizes
  PROVE  AnyOrder!Spec => []AnyOrder!OrderInv
<1>1. AnyOrder!Init => AnyOrder!OrderInv
  BY DEF AnyOrder!ProperSizes, AnyOrder!Init, AnyOrder!OrderInv, AnyOrder!TypeOK, AnyOrder!Wavefront, AnyOrder!ForwardFirst, AnyOrder!Stages
<1>2. QED
  BY <1>1, OrderInvStep, PTL DEF AnyOrder!Spec

(* For every number of stages and microbatches: in any schedule that keeps   *)
(* the order, a backward pass of a microbatch starts only when all stages    *)
(* have run its forward pass. This is what the schedules' warmup,            *)
(* steady-state and cooldown loops must respect whatever their interleaving. *)
THEOREM BackwardAfterAllForwardThm ==
  ASSUME AnyOrder!ProperSizes
  PROVE  AnyOrder!Spec => []AnyOrder!BackwardAfterAllForward
<1>1. AnyOrder!OrderInv => AnyOrder!BackwardAfterAllForward
  <2> SUFFICES ASSUME AnyOrder!OrderInv, NEW s \in AnyOrder!Stages, NEW t \in AnyOrder!Stages
               PROVE  bwd[s] <= fwd[t]
    BY DEF AnyOrder!BackwardAfterAllForward
  <2>1. AnyOrder!LastStage \in AnyOrder!Stages /\ s <= AnyOrder!LastStage /\ t <= AnyOrder!LastStage
    BY DEF AnyOrder!ProperSizes, AnyOrder!Stages, AnyOrder!LastStage
  <2>2. bwd[s] <= bwd[AnyOrder!LastStage] /\ bwd[AnyOrder!LastStage] <= fwd[AnyOrder!LastStage]
    BY <2>1 DEF AnyOrder!OrderInv, AnyOrder!Wavefront, AnyOrder!ForwardFirst
  <2>3. fwd[AnyOrder!LastStage] <= fwd[t]
    BY <2>1 DEF AnyOrder!OrderInv, AnyOrder!Wavefront
  <2>4. QED
    BY <2>1, <2>2, <2>3 DEF AnyOrder!OrderInv, AnyOrder!TypeOK
<1>2. QED
  BY <1>1, OrderInvariant, PTL

=============================================================================
