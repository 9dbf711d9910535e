---------------------------- MODULE P2PCommunication ----------------------------
(***************************************************************************)
(* Point-to-point communication between neighbouring pipeline ranks         *)
(* (megatron/core/pipeline_parallel/p2p_communication.py).                  *)
(*                                                                          *)
(* A call of _communicate posts up to four operations: send and receive     *)
(* with the previous and with the next rank of the ring. Operations carry   *)
(* no tag: the library pairs the sends of rank i to rank j with the         *)
(* receives that j posts from i by their order alone. Posted operations     *)
(* stay in pend[i] until they are paired; a blocking call is one whose      *)
(* caller takes no step while an operation with its handle is in pend[i].   *)
(*                                                                          *)
(* With batch_isend_irecv the operations of one call make progress          *)
(* together. Without it (overlap_p2p_comm) the operations between two ranks *)
(* run one at a time on the communicator of the pair, in the order each     *)
(* rank posted them.                                                        *)
(***************************************************************************)
EXTENDS Integers, Sequences, SequencesExt

CONSTANT P   \* pipeline_model_parallel_size

ASSUME PAssumption == P \in Nat /\ P > 1

VARIABLE pend   \* pend[r]: the operations rank r has posted and not completed

Ranks == 0 .. P - 1
PrevRank(r) == (r - 1) % P
NextRank(r) == (r + 1) % P

(* A tensor is known by the virtual stage that produced it and by its        *)
(* microbatch. NoTensor is Python's None, Empty a receive buffer that        *)
(* torch.empty allocated and no transfer filled yet.                         *)
Tensor(stage, mb) == [stage |-> stage, mb |-> mb]
NoTensor == Tensor(-1, -1)
Empty == Tensor(-2, -2)
Mixed == -3     \* the microbatch of a tensor computed from several or from garbage
NoRecv == -1    \* in place of the chunk a received tensor is meant for

(* Handles: "sync" is waited for inside the call, "fwd" and "bwd" later.     *)
Op(kind, peer, data, list, chunk, handle) ==
  [kind |-> kind, peer |-> peer, data |-> data, list |-> list,
   chunk |-> chunk, handle |-> handle]

SendOp(peer, tensor, handle) ==
  IF tensor = NoTensor THEN <<>>
  ELSE <<Op("send", peer, tensor, "none", NoRecv, handle)>>

RecvOp(peer, list, chunk, handle) ==
  IF chunk = NoRecv THEN <<>>
  ELSE <<Op("recv", peer, NoTensor, list, chunk, handle)>>

(* The operations of one call, in the order they are issued. The receives    *)
(* name the list and chunk their buffer is put into by the caller.           *)
BatchedOps(r, sendPrev, recvPrev, sendNext, recvNext, handle) ==
  SendOp(PrevRank(r), sendPrev, handle)
    \o RecvOp(PrevRank(r), "input", recvPrev, handle)
    \o SendOp(NextRank(r), sendNext, handle)
    \o RecvOp(NextRank(r), "grad", recvNext, handle)

EvenOddOps(r, sendPrev, recvPrev, sendNext, recvNext, handle) ==
  LET sp == SendOp(PrevRank(r), sendPrev, handle)
      rp == RecvOp(PrevRank(r), "input", recvPrev, handle)
      sn == SendOp(NextRank(r), sendNext, handle)
      rn == RecvOp(NextRank(r), "grad", recvNext, handle)
  IN  IF r % 2 = 0 THEN sn \o rp \o sp \o rn ELSE rp \o sn \o rn \o sp

Communicate(batched, r, sendPrev, recvPrev, sendNext, recvNext, handle) ==
  IF batched
  THEN BatchedOps(r, sendPrev, recvPrev, sendNext, recvNext, handle)
  ELSE EvenOddOps(r, sendPrev, recvPrev, sendNext, recvNext, handle)

(* Rank r may go on: nothing it waits for is outstanding. *)
Completed(r, handles) == \A n \in DOMAIN pend[r] : pend[r][n].handle \notin handles

(* The operations of r with peer that run one after the other: of one kind   *)
(* if batched, of both kinds on the communicator of the pair otherwise.      *)
Channel(batched, r, peer, kind) ==
  {m \in DOMAIN pend[r] : pend[r][m].peer = peer /\ (batched => pend[r][m].kind = kind)}

IsFirst(m, channel) == m \in channel /\ \A n \in channel : m <= n

(* Operation m of rank i is a send that the library pairs with operation n   *)
(* of rank j, a receive.                                                     *)
Paired(batched, i, m, j, n) ==
  /\ IsFirst(m, Channel(batched, i, j, "send"))
  /\ IsFirst(n, Channel(batched, j, i, "recv"))
  /\ pend[i][m].kind = "send" /\ pend[j][n].kind = "recv"

(* The pair completes on both sides. *)
Complete(i, m, j, n) ==
  pend' = [pend EXCEPT ![i] = RemoveAt(@, m), ![j] = RemoveAt(@, n)]

(* The receive buffer of list seq that was posted first gets the data. *)
Fill(seq, data) ==
  LET n == SelectInSeq(seq, LAMBDA t : t = Empty)
  IN  IF n = 0 THEN seq ELSE [seq EXCEPT ![n] = data]

(* The set of operations, for the type invariants of the schedules. *)
OpType(maxMicrobatch, stages) ==
  [kind : {"send", "recv"}, peer : Ranks,
   data : [stage : stages, mb : 0 .. maxMicrobatch] \cup {NoTensor},
   list : {"none", "input", "grad"}, chunk : {NoRecv} \cup stages,
   handle : {"sync", "fwd", "bwd"}]

=============================================================================
