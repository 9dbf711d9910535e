---------------------------- MODULE LossScalerProofs ----------------------------
(***************************************************************************)
(* Proofs about the replicated loss scaler, for any replicas, shards,       *)
(* scales and intervals.                                                    *)
(*                                                                          *)
(* Ranks do not run in step: one may be an iteration ahead of another. The  *)
(* invariant says how far (Lockstep), that a rank which is ahead has already *)
(* updated its scaler as the ranks behind it are going to (Agreement), and  *)
(* that a scale too large for the gradients is found to be so before any    *)
(* rank could raise it further (Overflows).                                 *)
(***************************************************************************)
EXTENDS LossScaler, TLAPS

(* q is one iteration ahead of r. *)
Follows(q, r) == iter[q] = (iter[r] + 1) % 3

Lockstep ==
  \A r, q \in Ranks :
    /\ Follows(q, r) =>
         /\ phase[r] \in {"check", "step"} /\ phase[q] \in {"backward", "reduce", "check"}
         /\ phase[r] = "step" \/ phase[q] # "check"
         /\ q \in FoundInfGroup(r) => phase[r] = "step"
         /\ q[2] = r[2] => phase[q] # "check"
    /\ iter[q] = iter[r] =>
         /\ phase[r] = "step" => phase[q] \in {"check", "step"}
         /\ q \in FoundInfGroup(r) /\ phase[r] = "step" => phase[q] = "step"
         /\ q[2] = r[2] /\ phase[r] \in {"check", "step"} => phase[q] \in {"check", "step"}

(* What rank r finds or will find, once all gradients are reduced. *)
Bad(r) == IF phase[r] = "step" THEN found_inf[r] ELSE \E p \in FoundInfGroup(r) : overflow[p]

Updated(r) == IF Bad(r) THEN OnOverflow(scaler[r]) ELSE OnSuccess(scaler[r])

Agreement ==
  \A r, q \in Ranks :
    /\ iter[q] = iter[r] => scaler[q] = scaler[r] /\ success[q] = success[r]
    /\ Follows(q, r) => scaler[q] = Updated(r) /\ success[q] = ~Bad(r)
    /\ iter[q] = iter[r] /\ phase[r] = "step" => Bad(q) = Bad(r)
    /\ /\ iter[q] = iter[r] /\ q[2] = r[2] /\ ~distributed
       /\ phase[r] = "check" /\ phase[q] = "check"
       => overflow[q] = overflow[r]

Unscaled == \A r \in Ranks : phase[r] # "backward" => gradScale[r] = scaler[r].scale

TooLarge(r) == scaler[r].scale > SafeScale

Overflows ==
  \A r \in Ranks :
    /\ r[2] = LastShard /\ phase[r] = "reduce" /\ TooLarge(r) => overflow[r]
    /\ r[2] = LastShard /\ phase[r] = "check" /\ TooLarge(r) =>
         \E p \in FoundInfGroup(r) : p[2] = LastShard /\ phase[p] = "check" /\ overflow[p]
    /\ phase[r] = "step" /\ TooLarge(r) => found_inf[r]

ScalerState == [scale : Scales, growth_tracker : 0 .. GrowthInterval - 1,
                hysteresis_tracker : {h \in Int : h <= Hysteresis}]

SavedOK == saved \in [scaler : ScalerState, streak : 0 .. Hysteresis, since : 0 .. Hysteresis]

IInv == TypeOK /\ SavedOK /\ Lockstep /\ Agreement /\ Unscaled /\ Overflows

-----------------------------------------------------------------------------
(* The groups of a rank: the ranks that learn its found_inf, among them one of *)
(* each shard, and the ranks of its shard.                                     *)
LEMMA Groups ==
  /\ \A r \in Ranks : /\ r[2] \in Shards
                      /\ r \in FoundInfGroup(r) /\ FoundInfGroup(r) \subseteq Ranks
                      /\ <<r[1], LastShard>> \in FoundInfGroup(r)
  /\ \A r, q \in Ranks : /\ q \in FoundInfGroup(r) => FoundInfGroup(q) = FoundInfGroup(r)
                         /\ \E x \in FoundInfGroup(r) : x[2] = q[2]
                         /\ q \in FoundInfGroup(r) /\ q[2] = r[2] /\ ~distributed => q = r
  /\ \A m \in Shards : DataParallelGroup(m) = {r \in Ranks : r[2] = m}
<1>1. ASSUME NEW r \in Ranks
      PROVE  /\ r[1] \in Replicas /\ r[2] \in Shards /\ r = <<r[1], r[2]>>
             /\ r \in FoundInfGroup(r) /\ FoundInfGroup(r) \subseteq Ranks
             /\ <<r[1], LastShard>> \in FoundInfGroup(r)
  BY LossScalerAssumption DEF Ranks, FoundInfGroup, Replica
<1>2. ASSUME NEW r \in Ranks, NEW q \in Ranks
      PROVE  /\ q \in FoundInfGroup(r) => FoundInfGroup(q) = FoundInfGroup(r)
             /\ \E x \in FoundInfGroup(r) : x[2] = q[2]
             /\ q \in FoundInfGroup(r) /\ q[2] = r[2] /\ ~distributed => q = r
  <2>1. q \in FoundInfGroup(r) => FoundInfGroup(q) = FoundInfGroup(r)
    BY DEF Ranks, FoundInfGroup, Replica
  <2>2. <<r[1], q[2]>> \in FoundInfGroup(r) /\ <<r[1], q[2]>>[2] = q[2]
    BY <1>1 DEF Ranks, FoundInfGroup, Replica
  <2>3. q \in FoundInfGroup(r) /\ q[2] = r[2] /\ ~distributed => q = r
    BY <1>1 DEF Ranks, FoundInfGroup, Replica
  <2>4. QED
    BY <2>1, <2>2, <2>3
<1>3. ASSUME NEW m \in Shards PROVE DataParallelGroup(m) = {r \in Ranks : r[2] = m}
  BY DEF DataParallelGroup, Ranks
<1>4. QED
  BY <1>1, <1>2, <1>3

(* Three iterations in a row are told apart. *)
LEMMA Iterations ==
  ASSUME NEW i \in 0 .. 2
  PROVE  /\ (i + 1) % 3 \in 0 .. 2
         /\ (i + 1) % 3 # i
         /\ (((i + 1) % 3) + 1) % 3 # i
         /\ (((((i + 1) % 3) + 1) % 3) + 1) % 3 = i
OBVIOUS

(* The updates of the scaler keep its bounds, as long as it does not grow above *)
(* what the gradients bear.                                                    *)
LEMMA UpdateTypes ==
  ASSUME NEW s \in ScalerState
  PROVE  /\ OnOverflow(s) \in ScalerState
         /\ s.scale <= SafeScale => OnSuccess(s) \in ScalerState
<1> USE LossScalerAssumption DEF ScalerState, Scales, MaxOf
<1>1. OnOverflow(s) \in ScalerState
  BY DEF OnOverflow
<1>2. s.scale <= SafeScale => OnSuccess(s) \in ScalerState
  BY DEF OnSuccess
<1>3. QED
  BY <1>1, <1>2

(* Some rank has acted, or is about to, on what r finds. *)
Relies(p, r) == Follows(p, r) \/ (iter[p] = iter[r] /\ phase[p] = "step")

(* Then the gradients of r's group are reduced, and none of it has gone on. *)
LEMMA Settled ==
  ASSUME TypeOK, Lockstep, NEW r \in Ranks, NEW p \in Ranks, Relies(p, r), phase[r] # "step",
         NEW x \in FoundInfGroup(r)
  PROVE  phase[r] = "check" /\ iter[x] = iter[r] /\ phase[x] = "check"
<1>1. x \in Ranks /\ r \in FoundInfGroup(x)
  BY Groups
<1>2. iter[r] \in 0 .. 2 /\ iter[x] \in 0 .. 2 /\ iter[p] \in 0 .. 2
  BY <1>1 DEF TypeOK
<1>3. phase[r] = "check"
  BY DEF Lockstep, Relies
<1>4. CASE iter[x] = iter[r]
  BY <1>1, <1>3, <1>4 DEF Lockstep, Relies, Follows
<1>5. ~Follows(x, r)
  BY <1>1, <1>3 DEF Lockstep
<1>6. ~Follows(r, x)
  <2> SUFFICES ASSUME Follows(r, x) PROVE FALSE
    OBVIOUS
  <2>1. CASE Follows(p, r)
    <3>1. Follows(x, p)
      BY <1>2, <2>1, Iterations DEF Follows
    <3>2. QED
      BY <1>1, <1>3, <2>1, <3>1 DEF Lockstep
  <2>2. CASE iter[p] = iter[r] /\ phase[p] = "step"
    <3>1. Follows(p, x)
      BY <2>2 DEF Follows
    <3>2. QED
      BY <1>1, <2>2, <3>1 DEF Lockstep
  <2>3. QED
    BY <2>1, <2>2 DEF Relies
<1>7. QED
  BY <1>2, <1>4, <1>5, <1>6 DEF Follows

(* So what r finds does not change before it has found it. *)
LEMMA BadKept ==
  ASSUME TypeOK, Lockstep, NEW r \in Ranks, NEW p \in Ranks, Relies(p, r),
         distributed' = distributed,
         phase[r] \in {"check", "step"} => phase'[r] = phase[r],
         phase[r] = "step" => found_inf'[r] = found_inf[r],
         \A x \in Ranks : phase[x] = "check" => overflow'[x] = overflow[x]
  PROVE  Bad(r)' = Bad(r)
<1>1. FoundInfGroup(r)' = FoundInfGroup(r) /\ FoundInfGroup(r) \subseteq Ranks
  BY Groups DEF FoundInfGroup
<1>2. CASE phase[r] = "step"
  BY <1>2 DEF Bad
<1>3. CASE phase[r] # "step"
  <2>1. ASSUME NEW x \in FoundInfGroup(r)
        PROVE  phase[r] = "check" /\ overflow'[x] = overflow[x]
    BY <1>1, <1>3, Settled
  <2>2. phase[r] = "check" /\ phase'[r] # "step"
    BY <2>1, Groups
  <2>3. QED
    BY <1>1, <1>3, <2>1, <2>2 DEF Bad
<1>4. QED
  BY <1>2, <1>3

-----------------------------------------------------------------------------
(* One lemma per action. *)

(* The loss is scaled, and the gradients of a rank are there. *)
LEMMA BackwardStep ==
  ASSUME IInv, NEW b \in Ranks, Backward(b)
  PROVE  IInv'
<1> DEFINE last == <<b[1], LastShard>>
<1>1. TypeOK /\ SavedOK /\ Lockstep /\ Agreement /\ Unscaled /\ Overflows
  BY DEF IInv
<1>2. last \in Ranks /\ last[2] = LastShard
  BY Groups
<1>3. /\ phase[b] = "backward" /\ phase' = [phase EXCEPT ![b] = "reduce"]
      /\ \A r \in Ranks \ {b} : /\ gradScale'[r] = gradScale[r] /\ overflow'[r] = overflow[r]
                                /\ phase'[r] = phase[r]
      /\ phase'[b] = "reduce"
      /\ gradScale'[b] = IF b = last THEN scaler[b].scale ELSE gradScale[last]
      /\ UNCHANGED <<distributed, scaler, iter, found_inf, success, restarts, saved, streak, since>>
  BY <1>1 DEF Backward, TypeOK
<1>4. \A r \in Ranks : FoundInfGroup(r)' = FoundInfGroup(r)
  BY <1>3 DEF FoundInfGroup
<1>5. gradScale'[b] = scaler[b].scale
  <2>1. CASE b = last
    BY <1>3, <2>1
  <2>2. CASE b # last
    <3>1. iter[last] = iter[b] /\ phase[last] # "backward"
      BY <2>2 DEF Backward
    <3>2. scaler[last] = scaler[b] /\ gradScale[last] = scaler[last].scale
      BY <1>1, <1>2, <3>1 DEF Agreement, Unscaled
    <3>3. QED
      BY <1>3, <2>2, <3>2
  <2>3. QED
    BY <2>1, <2>2
<1>6. TypeOK'
  <2>1. scaler[b].scale \in Scales
    BY <1>1 DEF TypeOK
  <2>2. gradScale' \in [Ranks -> Scales]
    BY <1>1, <1>5, <2>1 DEF TypeOK, Backward
  <2>3. overflow' \in [Ranks -> BOOLEAN] /\ spikes' \in 0 .. MaxSpikes
    BY <1>1, LossScalerAssumption DEF TypeOK, Backward
  <2>4. QED
    BY <1>1, <1>3, <2>2, <2>3 DEF TypeOK
<1>7. SavedOK'
  BY <1>1, <1>3 DEF SavedOK
<1>8. Lockstep'
  <2> SUFFICES ASSUME NEW r \in Ranks, NEW q \in Ranks
               PROVE  /\ Follows(q, r)' =>
                         /\ phase'[r] \in {"check", "step"} /\ phase'[q] \in {"backward", "reduce", "check"}
                         /\ phase'[r] = "step" \/ phase'[q] # "check"
                         /\ q \in FoundInfGroup(r)' => phase'[r] = "step"
                         /\ q[2] = r[2] => phase'[q] # "check"
                      /\ iter'[q] = iter'[r] =>
                         /\ phase'[r] = "step" => phase'[q] \in {"check", "step"}
                         /\ q \in FoundInfGroup(r)' /\ phase'[r] = "step" => phase'[q] = "step"
                         /\ q[2] = r[2] /\ phase'[r] \in {"check", "step"} => phase'[q] \in {"check", "step"}
    BY DEF Lockstep
  <2>1. QED
    BY <1>1, <1>3, <1>4 DEF Lockstep, Follows
<1>9. Agreement'
  <2>1. ASSUME NEW r \in Ranks, NEW p \in Ranks, Relies(p, r) PROVE Bad(r)' = Bad(r)
    BY <1>1, <1>3, <2>1, BadKept
  <2>2. ASSUME NEW r \in Ranks, NEW q \in Ranks, Follows(q, r)'
        PROVE  scaler'[q] = Updated(r)' /\ success'[q] = ~Bad(r)'
    <3>1. Follows(q, r) /\ Relies(q, r)
      BY <1>3, <2>2 DEF Follows, Relies
    <3>2. QED
      BY <1>1, <1>3, <2>1, <3>1 DEF Agreement, Updated
  <2>3. ASSUME NEW r \in Ranks, NEW q \in Ranks, iter'[q] = iter'[r], phase'[r] = "step"
        PROVE  Bad(q)' = Bad(r)'
    <3>1. iter[q] = iter[r] /\ phase[r] = "step"
      BY <1>3, <2>3
    <3>2. Relies(r, q) /\ Relies(r, r)
      BY <3>1 DEF Relies
    <3>3. QED
      BY <1>1, <2>1, <3>1, <3>2 DEF Agreement
  <2>4. QED
    BY <1>1, <1>3, <2>2, <2>3 DEF Agreement
<1>10. Unscaled'
  BY <1>1, <1>3, <1>5 DEF Unscaled
<1>11. Overflows'
  <2> SUFFICES ASSUME NEW r \in Ranks
               PROVE  /\ r[2] = LastShard /\ phase'[r] = "reduce" /\ TooLarge(r)' => overflow'[r]
                      /\ r[2] = LastShard /\ phase'[r] = "check" /\ TooLarge(r)' =>
                           \E p \in FoundInfGroup(r)' :
                              p[2] = LastShard /\ phase'[p] = "check" /\ overflow'[p]
                      /\ phase'[r] = "step" /\ TooLarge(r)' => found_inf'[r]
    BY DEF Overflows
  <2>1. TooLarge(r)' = TooLarge(r)
    BY <1>3 DEF TooLarge
  <2>2. CASE r = b
    <3>1. r[2] = LastShard => r = last
      BY <2>2 DEF Ranks
    <3>2. r = last /\ TooLarge(r) => overflow'[r]
      BY <1>1, <1>5, <2>2 DEF TooLarge, Backward, TypeOK
    <3>3. QED
      BY <1>3, <2>1, <2>2, <3>1, <3>2
  <2>3. CASE r # b
    <3>1. \A p \in FoundInfGroup(r) : p \in Ranks /\ (phase[p] = "check" => p # b)
      BY <1>3, Groups
    <3>2. QED
      BY <1>1, <1>3, <1>4, <2>1, <2>3, <3>1 DEF Overflows
  <2>4. QED
    BY <2>2, <2>3
<1>12. QED
  BY <1>6, <1>7, <1>8, <1>9, <1>10, <1>11 DEF IInv

(* No rank reduces while a replica it depends on is still to check the last     *)
(* iteration (step 8); an overflow survives the reduction.                        *)
LEMMA ReduceGradsStep ==
  ASSUME IInv, NEW m \in Shards, ReduceGrads(m)
  PROVE  IInv'
<1> DEFINE group == DataParallelGroup(m)
<1>1. TypeOK /\ SavedOK /\ Lockstep /\ Agreement /\ Unscaled /\ Overflows
  BY DEF IInv
<1>2. group = {r \in Ranks : r[2] = m}
  BY Groups
<1>3. /\ \A r \in group : phase[r] = "reduce" /\ phase'[r] = "check"
      /\ \A r \in Ranks \ group : phase'[r] = phase[r]
      /\ phase' \in [Ranks -> {"backward", "reduce", "check", "step"}]
      /\ UNCHANGED <<distributed, scaler, iter, gradScale, found_inf, success, spikes,
                     restarts, saved, streak, since>>
  BY <1>1, <1>2 DEF ReduceGrads, TypeOK
<1>4. /\ overflow' \in [Ranks -> BOOLEAN]
      /\ \A r \in Ranks \ group : overflow'[r] = overflow[r]
      /\ (\E r \in group : overflow[r]) => \E r \in group : overflow'[r]
      /\ ~distributed => \A r, q \in group : overflow'[q] = overflow'[r]
      /\ ~distributed /\ (\E r \in group : overflow[r]) => \A r \in group : overflow'[r]
  <2>1. PICK owners \in SUBSET group :
           /\ (owners # {}) <=> (\E r \in group : overflow[r])
           /\ (\E r \in group : overflow[r]) /\ ~distributed => owners = group
           /\ overflow' = [r \in Ranks |-> IF r \in group THEN r \in owners ELSE overflow[r]]
    BY DEF ReduceGrads
  <2>2. \A r \in group : overflow'[r] <=> r \in owners
    BY <1>2, <2>1
  <2>3. \A r \in Ranks : (IF r \in group THEN r \in owners ELSE overflow[r]) \in BOOLEAN
    <3>1. \A r \in Ranks : overflow[r] \in BOOLEAN
      BY <1>1 DEF TypeOK
    <3>2. \A r \in Ranks : r \in group => (r \in owners) \in BOOLEAN
      OBVIOUS
    <3>3. QED
      BY <3>1, <3>2, Zenon
  <2>4. overflow' \in [Ranks -> BOOLEAN] /\ \A r \in Ranks \ group : overflow'[r] = overflow[r]
    BY <2>1, <2>3
  <2>5. ~distributed => \A r, q \in group : overflow'[q] <=> overflow'[r]
    BY <2>1, <2>2
  <2>6. ~distributed => \A r, q \in group : overflow'[q] = overflow'[r]
    BY <1>2, <2>4, <2>5
  <2>7. (\E r \in group : overflow[r]) => \E r \in group : overflow'[r]
    BY <2>1, <2>2
  <2>8. ~distributed /\ (\E r \in group : overflow[r]) => \A r \in group : overflow'[r]
    BY <2>1, <2>2
  <2>9. QED
    BY <2>4, <2>6, <2>7, <2>8
<1>5. \A r \in Ranks : FoundInfGroup(r)' = FoundInfGroup(r)
  BY <1>3 DEF FoundInfGroup
<1>6. TypeOK'
  BY <1>1, <1>3, <1>4 DEF TypeOK
<1>7. SavedOK'
  BY <1>1, <1>3 DEF SavedOK
<1>8. ASSUME NEW r \in Ranks, NEW q \in Ranks, Follows(q, r)
      PROVE  r \notin group /\ (q \in group => phase[r] = "step" /\ q[2] # r[2])
  <2>1. r \notin group
    BY <1>1, <1>3, <1>8 DEF Lockstep
  <2>2. SUFFICES ASSUME q \in group PROVE phase[r] = "step"
    BY <1>2, <2>1
  <2>3. PICK x \in FoundInfGroup(r) : x \in Ranks /\ x[2] = q[2]
    <3>1. (\E x \in FoundInfGroup(r) : x[2] = q[2]) /\ FoundInfGroup(r) \subseteq Ranks
      BY Groups
    <3>2. QED
      BY <3>1
  <2>4. x \in group
    BY <1>2, <2>2, <2>3
  <2>5. iter[r] \in 0 .. 2 /\ iter[x] \in 0 .. 2
    BY <1>1, <2>3 DEF TypeOK
  <2>6. ~Follows(q, x) /\ ~Follows(r, x)
    BY <1>1, <1>3, <2>3, <2>4 DEF Lockstep
  <2>7. iter[x] # iter[r]
    BY <1>8, <2>6 DEF Follows
  <2>8. Follows(x, r)
    BY <2>5, <2>6, <2>7 DEF Follows
  <2>9. QED
    BY <1>1, <2>3, <2>8 DEF Lockstep
<1>9. Lockstep'
  <2> SUFFICES ASSUME NEW r \in Ranks, NEW q \in Ranks
               PROVE  /\ Follows(q, r) =>
                         /\ phase'[r] \in {"check", "step"} /\ phase'[q] \in {"backward", "reduce", "check"}
                         /\ phase'[r] = "step" \/ phase'[q] # "check"
                         /\ q \in FoundInfGroup(r) => phase'[r] = "step"
                         /\ q[2] = r[2] => phase'[q] # "check"
                      /\ iter[q] = iter[r] =>
                         /\ phase'[r] = "step" => phase'[q] \in {"check", "step"}
                         /\ q \in FoundInfGroup(r) /\ phase'[r] = "step" => phase'[q] = "step"
                         /\ q[2] = r[2] /\ phase'[r] \in {"check", "step"} => phase'[q] \in {"check", "step"}
    BY <1>3, <1>5 DEF Lockstep, Follows
  <2>1. CASE Follows(q, r)
    <3>1. iter[q] # iter[r]
      BY <1>1, <2>1, Iterations DEF TypeOK, Follows
    <3>2. QED
      BY <1>1, <1>3, <1>8, <2>1, <3>1 DEF Lockstep
  <2>2. CASE ~Follows(q, r)
    BY <1>1, <1>2, <1>3, <2>2 DEF Lockstep
  <2>3. QED
    BY <2>1, <2>2
<1>10. Agreement'
  <2>1. ASSUME NEW r \in Ranks, NEW p \in Ranks, Relies(p, r) PROVE Bad(r)' = Bad(r)
    <3>1. phase[r] \in {"check", "step"} => phase'[r] = phase[r]
      BY <1>3
    <3>2. \A x \in Ranks : phase[x] = "check" => overflow'[x] = overflow[x]
      BY <1>3, <1>4
    <3>3. QED
      BY <1>1, <1>3, <1>4, <2>1, <3>1, <3>2, BadKept
  <2>2. ASSUME NEW r \in Ranks, NEW q \in Ranks, Follows(q, r)'
        PROVE  scaler'[q] = Updated(r)' /\ success'[q] = ~Bad(r)'
    <3>1. Follows(q, r) /\ Relies(q, r)
      BY <1>3, <2>2 DEF Follows, Relies
    <3>2. QED
      BY <1>1, <1>3, <1>4, <2>1, <3>1 DEF Agreement, Updated
  <2>3. ASSUME NEW r \in Ranks, NEW q \in Ranks, iter'[q] = iter'[r], phase'[r] = "step"
        PROVE  Bad(q)' = Bad(r)'
    <3>1. iter[q] = iter[r] /\ phase[r] = "step"
      BY <1>3, <2>3
    <3>2. Relies(r, q) /\ Relies(r, r)
      BY <3>1 DEF Relies
    <3>3. QED
      BY <1>1, <2>1, <3>1, <3>2 DEF Agreement
  <2>4. ASSUME NEW r \in Ranks, NEW q \in Ranks, iter[q] = iter[r], q[2] = r[2], ~distributed,
               phase'[r] = "check", phase'[q] = "check"
        PROVE  overflow'[q] = overflow'[r]
    <3>1. CASE r \in group
      BY <1>2, <1>4, <2>4, <3>1
    <3>2. CASE r \notin group
      BY <1>1, <1>2, <1>3, <1>4, <2>4, <3>2 DEF Agreement
    <3>3. QED
      BY <3>1, <3>2
  <2>5. QED
    BY <1>1, <1>3, <1>4, <2>2, <2>3, <2>4 DEF Agreement
<1>11. Unscaled'
  BY <1>1, <1>2, <1>3 DEF Unscaled
<1>12. Overflows'
  <2> SUFFICES ASSUME NEW r \in Ranks
               PROVE  /\ r[2] = LastShard /\ phase'[r] = "reduce" /\ TooLarge(r)' => overflow'[r]
                      /\ r[2] = LastShard /\ phase'[r] = "check" /\ TooLarge(r)' =>
                           \E p \in FoundInfGroup(r)' :
                              p[2] = LastShard /\ phase'[p] = "check" /\ overflow'[p]
                      /\ phase'[r] = "step" /\ TooLarge(r)' => found_inf'[r]
    BY DEF Overflows
  <2>1. TooLarge(r)' = TooLarge(r)
    BY <1>3 DEF TooLarge
  <2>2. CASE r \in group
    <3> SUFFICES ASSUME r[2] = LastShard, TooLarge(r)
                 PROVE  \E p \in FoundInfGroup(r) : p[2] = LastShard /\ phase'[p] = "check" /\ overflow'[p]
      BY <1>3, <1>5, <2>1, <2>2
    <3>1. overflow[r]
      BY <1>1, <1>3, <1>4, <2>2 DEF Overflows
    <3>2. CASE distributed
      <4>1. PICK p \in group : overflow'[p]
        BY <1>4, <2>2, <3>1
      <4>2. p \in FoundInfGroup(r) /\ p[2] = LastShard
        BY <1>2, <2>2, <3>2 DEF FoundInfGroup
      <4>3. QED
        BY <1>3, <4>1, <4>2
    <3>3. CASE ~distributed
      BY <1>3, <1>4, <2>2, <3>1, <3>3, Groups
    <3>4. QED
      BY <3>2, <3>3
  <2>3. CASE r \notin group
    <3>1. phase'[r] = phase[r] /\ overflow'[r] = overflow[r]
      BY <1>3, <1>4, <2>3
    <3>2. ASSUME r[2] = LastShard, phase[r] = "check", TooLarge(r)
          PROVE  \E p \in FoundInfGroup(r) : p[2] = LastShard /\ phase'[p] = "check" /\ overflow'[p]
      <4>1. PICK p \in FoundInfGroup(r) : p[2] = LastShard /\ phase[p] = "check" /\ overflow[p]
        BY <1>1, <3>2 DEF Overflows
      <4>2. p \in Ranks \ group
        <5>1. FoundInfGroup(r) \subseteq Ranks
          BY Groups
        <5>2. QED
          BY <1>2, <2>3, <3>2, <4>1, <5>1
      <4>3. QED
        BY <1>3, <1>4, <4>1, <4>2
    <3>3. QED
      BY <1>1, <1>3, <1>4, <1>5, <2>1, <3>1, <3>2 DEF Overflows
  <2>4. QED
    BY <2>2, <2>3
<1>13. QED
  BY <1>6, <1>7, <1>9, <1>10, <1>11, <1>12 DEF IInv

(* Without the distributed optimizer, replicas that check their gradients in the *)
(* same iteration find the same.                                                 *)
LEMMA SameFinding ==
  ASSUME TypeOK, Lockstep, Agreement, ~distributed, NEW r \in Ranks, NEW q \in Ranks,
         iter[q] = iter[r], phase[q] = "check", \A p \in FoundInfGroup(r) : phase[p] = "check"
  PROVE  Bad(q) = Bad(r)
<1>1. /\ FoundInfGroup(r) \subseteq Ranks /\ FoundInfGroup(q) \subseteq Ranks
      /\ r \in FoundInfGroup(r)
  BY Groups
<1>2. ASSUME NEW p \in FoundInfGroup(r), NEW x \in FoundInfGroup(q), x[2] = p[2]
      PROVE  overflow[x] = overflow[p]
  <2>1. p \in Ranks /\ x \in Ranks /\ q \in FoundInfGroup(x) /\ phase[p] = "check" /\ phase[r] = "check"
    BY <1>1, Groups
  <2>2. iter[p] \in 0 .. 2 /\ iter[x] \in 0 .. 2 /\ iter[r] \in 0 .. 2
    BY <2>1 DEF TypeOK
  <2>3. iter[p] = iter[r]
    <3>1. ~Follows(p, r)
      BY <2>1 DEF Lockstep
    <3>2. ~Follows(r, p)
      BY <2>1, Groups DEF Lockstep
    <3>3. QED
      BY <2>2, <3>1, <3>2 DEF Follows
  <2>4. ~Follows(x, q)
    BY <2>1 DEF Lockstep
  <2>5. ~Follows(q, x)
    <3> SUFFICES ASSUME Follows(q, x) PROVE FALSE
      OBVIOUS
    <3>1. Follows(p, x)
      BY <2>3 DEF Follows
    <3>2. QED
      BY <1>2, <2>1, <3>1 DEF Lockstep
  <2>6. iter[x] = iter[p]
    BY <2>2, <2>3, <2>4, <2>5 DEF Follows
  <2>7. phase[x] = "check"
    <3>1. phase[x] \in {"check", "step"}
      BY <1>2, <2>1, <2>6 DEF Lockstep
    <3>2. phase[x] # "step"
      BY <2>1, <2>3, <2>6 DEF Lockstep
    <3>3. QED
      BY <3>1, <3>2
  <2>8. QED
    BY <1>2, <2>1, <2>6, <2>7 DEF Agreement
<1>3. \A p \in FoundInfGroup(r) : \E x \in FoundInfGroup(q) : x[2] = p[2]
  BY <1>1, Groups
<1>4. \A x \in FoundInfGroup(q) : \E p \in FoundInfGroup(r) : p[2] = x[2]
  BY <1>1, Groups
<1>5. (\E p \in FoundInfGroup(r) : overflow[p]) <=> (\E x \in FoundInfGroup(q) : overflow[x])
  BY <1>2, <1>3, <1>4
<1>6. phase[r] = "check"
  BY <1>1
<1>7. QED
  BY <1>5, <1>6 DEF Bad

(* No rank has run ahead of, or behind, one that learns its found_inf (steps 9 and *)
(* 10), and all groups learn the same.                                             *)
LEMMA CheckForNanStep ==
  ASSUME IInv, NEW c \in Ranks, CheckForNan(c)
  PROVE  IInv'
<1> DEFINE group == FoundInfGroup(c)
           any == \E p \in group : overflow[p]
<1>1. TypeOK /\ SavedOK /\ Lockstep /\ Agreement /\ Unscaled /\ Overflows
  BY DEF IInv
<1>2. group \subseteq Ranks /\ \A r \in group : FoundInfGroup(r) = group
  BY Groups
<1>3. /\ \A r \in group : phase[r] = "check" /\ phase'[r] = "step"
      /\ \A r \in Ranks \ group : found_inf'[r] = found_inf[r] /\ phase'[r] = phase[r]
      /\ phase' \in [Ranks -> {"backward", "reduce", "check", "step"}]
      /\ UNCHANGED <<distributed, scaler, iter, gradScale, overflow, success, spikes,
                     restarts, saved, streak, since>>
  BY <1>1, <1>2 DEF CheckForNan, TypeOK
<1>4. (\A r \in group : found_inf'[r] = any) /\ found_inf' \in [Ranks -> BOOLEAN]
  <2>1. found_inf' = [q \in Ranks |-> IF q \in group THEN any ELSE found_inf[q]]
    BY DEF CheckForNan
  <2>2. any \in BOOLEAN /\ \A q \in Ranks : found_inf[q] \in BOOLEAN
    BY <1>1 DEF TypeOK
  <2> HIDE DEF any
  <2>3. QED
    BY <1>2, <2>1, <2>2
<1>5. \A r \in Ranks : FoundInfGroup(r)' = FoundInfGroup(r)
  BY <1>3 DEF FoundInfGroup
<1>6. \A r \in Ranks \ group : \A p \in FoundInfGroup(r) : p \in Ranks \ group
  BY <1>2, Groups
<1>7. TypeOK'
  BY <1>1, <1>3, <1>4 DEF TypeOK
<1>8. SavedOK'
  BY <1>1, <1>3 DEF SavedOK
<1>9. ASSUME NEW r \in Ranks, NEW q \in group, Follows(q, r) PROVE FALSE
  <2>1. (\E x \in FoundInfGroup(q) : x[2] = r[2]) /\ FoundInfGroup(q) = group /\ q \in Ranks
    BY <1>2, Groups
  <2>2. PICK x \in group : x[2] = r[2]
    BY <2>1
  <2>3. x \in Ranks /\ q \in FoundInfGroup(x) /\ phase[x] = "check" /\ phase[q] = "check"
    BY <1>2, <1>3, <2>2
  <2>4. phase[r] = "step"
    BY <1>1, <1>9, <2>1, <2>3 DEF Lockstep
  <2>5. ~Follows(x, r) /\ ~Follows(r, x)
    BY <1>1, <2>2, <2>3, <2>4 DEF Lockstep
  <2>6. ~Follows(q, x)
    BY <1>1, <2>1, <2>3 DEF Lockstep
  <2>7. iter[r] \in 0 .. 2 /\ iter[x] \in 0 .. 2 /\ iter[q] \in 0 .. 2
    BY <1>1, <2>1, <2>3 DEF TypeOK
  <2>8. iter[x] = iter[r]
    BY <2>5, <2>7 DEF Follows
  <2>9. QED
    BY <1>9, <2>6, <2>8 DEF Follows
<1>10. ASSUME NEW r \in group, NEW q \in Ranks, iter[q] = iter[r]
       PROVE  phase[q] \in {"check", "step"}
  <2>1. (\E x \in FoundInfGroup(r) : x[2] = q[2]) /\ FoundInfGroup(r) = group /\ r \in Ranks
    BY <1>2, Groups
  <2>2. PICK x \in group : x[2] = q[2]
    BY <2>1
  <2>3. x \in Ranks /\ phase[x] = "check" /\ iter[x] \in 0 .. 2 /\ iter[q] \in 0 .. 2
    BY <1>1, <1>2, <1>3, <2>2 DEF TypeOK
  <2>4. ~Follows(x, q) /\ ~Follows(r, x)
    BY <1>9, <2>2, <2>3
  <2>5. iter[x] = iter[q]
    BY <1>10, <2>3, <2>4 DEF Follows
  <2>6. QED
    BY <1>1, <2>2, <2>3, <2>5 DEF Lockstep
<1>11. Lockstep'
  <2> SUFFICES ASSUME NEW r \in Ranks, NEW q \in Ranks
               PROVE  /\ Follows(q, r) =>
                         /\ phase'[r] \in {"check", "step"} /\ phase'[q] \in {"backward", "reduce", "check"}
                         /\ phase'[r] = "step" \/ phase'[q] # "check"
                         /\ q \in FoundInfGroup(r) => phase'[r] = "step"
                         /\ q[2] = r[2] => phase'[q] # "check"
                      /\ iter[q] = iter[r] =>
                         /\ phase'[r] = "step" => phase'[q] \in {"check", "step"}
                         /\ q \in FoundInfGroup(r) /\ phase'[r] = "step" => phase'[q] = "step"
                         /\ q[2] = r[2] /\ phase'[r] \in {"check", "step"} => phase'[q] \in {"check", "step"}
    BY <1>3, <1>5 DEF Lockstep, Follows
  <2>1. ASSUME Follows(q, r)
        PROVE  /\ phase'[r] \in {"check", "step"} /\ phase'[q] \in {"backward", "reduce", "check"}
               /\ phase'[r] = "step" \/ phase'[q] # "check"
               /\ q \in FoundInfGroup(r) => phase'[r] = "step"
               /\ q[2] = r[2] => phase'[q] # "check"
    <3>1. q \notin group
      BY <1>9, <2>1
    <3>2. QED
      BY <1>1, <1>3, <2>1, <3>1 DEF Lockstep
  <2>2. ASSUME iter[q] = iter[r]
        PROVE  /\ phase'[r] = "step" => phase'[q] \in {"check", "step"}
               /\ q \in FoundInfGroup(r) /\ phase'[r] = "step" => phase'[q] = "step"
               /\ q[2] = r[2] /\ phase'[r] \in {"check", "step"} => phase'[q] \in {"check", "step"}
    <3>1. CASE r \in group
      BY <1>2, <1>3, <1>10, <2>2, <3>1
    <3>2. CASE r \notin group
      BY <1>1, <1>3, <1>6, <2>2, <3>2 DEF Lockstep
    <3>3. QED
      BY <3>1, <3>2
  <2>3. QED
    BY <2>1, <2>2
<1>12. \A r \in Ranks : Bad(r)' = Bad(r)
  <2>1. ASSUME NEW r \in group PROVE Bad(r)' = Bad(r)
    BY <1>2, <1>3, <1>4, <2>1 DEF Bad
  <2>2. ASSUME NEW r \in Ranks \ group PROVE Bad(r)' = Bad(r)
    BY <1>3, <1>5 DEF Bad
  <2>3. QED
    BY <2>1, <2>2
<1>13. Agreement'
  <2>1. ASSUME NEW r \in Ranks, NEW q \in Ranks, iter[q] = iter[r], phase'[r] = "step"
        PROVE  Bad(q) = Bad(r)
    <3>1. CASE phase[r] = "step" \/ phase[q] = "step"
      BY <1>1, <2>1, <3>1 DEF Agreement
    <3>2. CASE phase[r] # "step" /\ phase[q] # "step"
      <4>1. r \in group /\ phase[q] = "check" /\ phase[r] = "check"
        BY <1>3, <1>10, <2>1, <3>2
      <4>2. CASE distributed
        BY <4>1, <4>2 DEF Bad, FoundInfGroup
      <4>3. CASE ~distributed
        BY <1>1, <1>2, <1>3, <2>1, <4>1, <4>3, SameFinding
      <4>4. QED
        BY <4>2, <4>3
    <3>3. QED
      BY <3>1, <3>2
  <2>2. ASSUME NEW r \in Ranks PROVE Updated(r)' = Updated(r)
    BY <1>3, <1>12 DEF Updated
  <2>3. ASSUME NEW r \in Ranks, phase'[r] = "check" PROVE phase[r] = "check"
    BY <1>3, <2>3
  <2>4. QED
    BY <1>1, <1>3, <1>12, <2>1, <2>2, <2>3 DEF Agreement, Follows
<1>14. Unscaled'
  BY <1>1, <1>2, <1>3 DEF Unscaled
<1>15. Overflows'
  <2> SUFFICES ASSUME NEW r \in Ranks
               PROVE  /\ r[2] = LastShard /\ phase'[r] = "reduce" /\ TooLarge(r)' => overflow'[r]
                      /\ r[2] = LastShard /\ phase'[r] = "check" /\ TooLarge(r)' =>
                           \E p \in FoundInfGroup(r)' :
                              p[2] = LastShard /\ phase'[p] = "check" /\ overflow'[p]
                      /\ phase'[r] = "step" /\ TooLarge(r)' => found_inf'[r]
    BY DEF Overflows
  <2>1. TooLarge(r)' = TooLarge(r)
    BY <1>3 DEF TooLarge
  <2>2. CASE r \in group
    <3> SUFFICES ASSUME TooLarge(r) PROVE any
      BY <1>3, <1>4, <2>1, <2>2
    <3> DEFINE last == <<r[1], LastShard>>
    <3>1. last \in group /\ last \in Ranks /\ last[2] = LastShard
      BY <1>2, <2>2, Groups
    <3>2. ~Follows(last, r) /\ ~Follows(r, last) /\ iter[r] \in 0 .. 2 /\ iter[last] \in 0 .. 2
      BY <1>1, <1>9, <2>2, <3>1 DEF TypeOK
    <3>3. iter[last] = iter[r]
      BY <3>2 DEF Follows
    <3>4. TooLarge(last)
      BY <1>1, <3>1, <3>3 DEF Agreement, TooLarge
    <3>5. \E p \in FoundInfGroup(last) : overflow[p]
      BY <1>1, <1>3, <3>1, <3>4 DEF Overflows
    <3>6. QED
      BY <1>2, <3>1, <3>5
  <2>3. CASE r \notin group
    <3>1. phase'[r] = phase[r] /\ found_inf'[r] = found_inf[r] /\ overflow' = overflow
      BY <1>3, <2>3
    <3>2. \A p \in FoundInfGroup(r) : phase'[p] = phase[p]
      BY <1>3, <1>6, <2>3
    <3>3. QED
      BY <1>1, <1>5, <2>1, <3>1, <3>2 DEF Overflows
  <2>4. QED
    BY <2>2, <2>3
<1>16. QED
  BY <1>7, <1>8, <1>11, <1>13, <1>14, <1>15 DEF IInv

(* A rank that steps gets ahead, with the scaler the others are going to have. *)
LEMMA StepStep ==
  ASSUME IInv, NEW s \in Ranks, Step(s)
  PROVE  IInv'
<1>1. TypeOK /\ SavedOK /\ Lockstep /\ Agreement /\ Unscaled /\ Overflows
  BY DEF IInv
<1>2. /\ phase[s] = "step" /\ phase'[s] = "backward" /\ iter'[s] = (iter[s] + 1) % 3
      /\ \A r \in Ranks \ {s} :
           /\ scaler'[r] = scaler[r] /\ success'[r] = success[r] /\ phase'[r] = phase[r]
           /\ iter'[r] = iter[r] /\ overflow'[r] = overflow[r] /\ found_inf'[r] = found_inf[r]
      /\ UNCHANGED <<distributed, gradScale, spikes, restarts, saved>>
  BY <1>1 DEF Step, TypeOK
<1>3. scaler'[s] = Updated(s) /\ success'[s] = ~Bad(s)
  BY <1>1, <1>2 DEF Step, TypeOK, Updated, Bad
<1>4. \A r \in Ranks : iter[r] \in 0 .. 2 /\ FoundInfGroup(r)' = FoundInfGroup(r)
  BY <1>1, <1>2 DEF TypeOK, FoundInfGroup
<1>5. \A r \in Ranks : iter[r] = iter[s] \/ Follows(r, s)
  <2>1. \A r \in Ranks : ~Follows(s, r)
    BY <1>1, <1>2 DEF Lockstep
  <2>2. QED
    BY <1>4, <2>1 DEF Follows
<1>6. \A r \in Ranks : ~Follows(r, s)'
  <2> SUFFICES ASSUME NEW r \in Ranks PROVE ~Follows(r, s)'
    OBVIOUS
  <2>1. iter'[s] \in 0 .. 2 /\ iter'[s] # (iter'[s] + 1) % 3
    BY <1>2, <1>4
  <2>2. CASE r = s
    BY <2>1, <2>2 DEF Follows
  <2>3. CASE r # s
    BY <1>2, <1>4, <1>5, <2>3 DEF Follows
  <2>4. QED
    BY <2>2, <2>3
<1>7. ASSUME NEW r \in Ranks \ {s}
      PROVE  /\ Follows(s, r)' <=> iter[r] = iter[s]
             /\ iter'[r] = iter'[s] <=> Follows(r, s)
             /\ \A q \in Ranks \ {s} : Follows(q, r)' <=> Follows(q, r)
  BY <1>2, <1>4, <1>5 DEF Follows
<1>8. TypeOK'
  <2>1. scaler[s] \in ScalerState /\ found_inf[s] \in BOOLEAN
    BY <1>1 DEF TypeOK, ScalerState
  <2>2. found_inf[s] => OnOverflow(scaler[s]) \in ScalerState
    BY <2>1, UpdateTypes
  <2>3. ~found_inf[s] => OnSuccess(scaler[s]) \in ScalerState
    <3>1. ~found_inf[s] => ~(scaler[s].scale > SafeScale)
      BY <1>1, <1>2 DEF Overflows, TooLarge
    <3>2. scaler[s].scale \in Int /\ SafeScale \in Int
      BY <2>1, LossScalerAssumption DEF ScalerState, Scales
    <3>3. QED
      BY <2>1, <3>1, <3>2, UpdateTypes
  <2>4. scaler' \in [Ranks -> ScalerState]
    BY <1>1, <2>2, <2>3 DEF Step, TypeOK, ScalerState
  <2>5. phase' \in [Ranks -> {"backward", "reduce", "check", "step"}] /\ iter' \in [Ranks -> 0 .. 2]
    BY <1>1 DEF Step, TypeOK
  <2>6. /\ overflow' \in [Ranks -> BOOLEAN] /\ found_inf' \in [Ranks -> BOOLEAN]
        /\ success' \in [Ranks -> BOOLEAN]
    <3>1. (~found_inf[s]) \in BOOLEAN
      BY <2>1
    <3>2. QED
      BY <1>1, <3>1 DEF Step, TypeOK
  <2>7. \A n \in 0 .. Hysteresis : Count(n) \in 0 .. Hysteresis
    BY LossScalerAssumption DEF Count
  <2>8. streak' \in [Ranks -> 0 .. Hysteresis] /\ since' \in [Ranks -> 0 .. Hysteresis]
    <3>1. /\ (IF found_inf[s] THEN Count(streak[s]) ELSE 0) \in 0 .. Hysteresis
          /\ (IF found_inf[s] THEN Count(since[s])
              ELSE IF scaler'[s].scale > scaler[s].scale THEN 0 ELSE since[s]) \in 0 .. Hysteresis
      BY <1>1, <2>7, LossScalerAssumption DEF TypeOK
    <3>2. QED
      BY <1>1, <3>1 DEF Step, TypeOK
  <2>9. QED
    BY <1>1, <1>2, <2>4, <2>5, <2>6, <2>8 DEF TypeOK, ScalerState
<1>9. SavedOK'
  BY <1>1, <1>2 DEF SavedOK
<1>10. Lockstep'
  <2> SUFFICES ASSUME NEW r \in Ranks, NEW q \in Ranks
               PROVE  /\ Follows(q, r)' =>
                         /\ phase'[r] \in {"check", "step"} /\ phase'[q] \in {"backward", "reduce", "check"}
                         /\ phase'[r] = "step" \/ phase'[q] # "check"
                         /\ q \in FoundInfGroup(r) => phase'[r] = "step"
                         /\ q[2] = r[2] => phase'[q] # "check"
                      /\ iter'[q] = iter'[r] =>
                         /\ phase'[r] = "step" => phase'[q] \in {"check", "step"}
                         /\ q \in FoundInfGroup(r) /\ phase'[r] = "step" => phase'[q] = "step"
                         /\ q[2] = r[2] /\ phase'[r] \in {"check", "step"} => phase'[q] \in {"check", "step"}
    BY <1>4 DEF Lockstep
  <2>1. CASE r = s
    BY <1>2, <1>6, <2>1
  <2>2. CASE r # s /\ q = s
    <3>1. ASSUME Follows(s, r)'
          PROVE  phase[r] \in {"check", "step"} /\ (s \in FoundInfGroup(r) => phase[r] = "step")
      <4>1. iter[r] = iter[s] /\ (s \in FoundInfGroup(r) => r \in FoundInfGroup(s))
        BY <1>7, <2>2, <3>1, Groups
      <4>2. QED
        BY <1>1, <1>2, <4>1 DEF Lockstep
    <3>2. ASSUME iter'[s] = iter'[r]
          PROVE  phase[r] # "step" /\ (s[2] = r[2] => phase[r] \notin {"check", "step"})
      <4>1. Follows(r, s)
        BY <1>7, <2>2, <3>2
      <4>2. QED
        BY <1>1, <4>1 DEF Lockstep
    <3>3. phase'[r] = phase[r] /\ phase'[s] = "backward"
      BY <1>2, <2>2
    <3>4. QED
      BY <2>2, <3>1, <3>2, <3>3
  <2>3. CASE r # s /\ q # s
    BY <1>1, <1>2, <1>7, <2>3 DEF Lockstep
  <2>4. QED
    BY <2>1, <2>2, <2>3
<1>11. ASSUME NEW r \in Ranks \ {s}, NEW p \in Ranks, Relies(p, r)
       PROVE  Bad(r)' = Bad(r) /\ Updated(r)' = Updated(r)
  <2>1. /\ phase[r] \in {"check", "step"} => phase'[r] = phase[r]
        /\ phase[r] = "step" => found_inf'[r] = found_inf[r]
        /\ \A x \in Ranks : phase[x] = "check" => overflow'[x] = overflow[x]
    BY <1>2
  <2>2. Bad(r)' = Bad(r)
    BY <1>1, <1>2, <1>11, <2>1, BadKept
  <2>3. QED
    BY <1>2, <2>2 DEF Updated
<1>12. Agreement'
  <2>1. ASSUME NEW r \in Ranks, NEW q \in Ranks, iter'[q] = iter'[r]
        PROVE  scaler'[q] = scaler'[r] /\ success'[q] = success'[r]
    <3>1. CASE q # s /\ r # s
      BY <1>1, <1>2, <2>1, <3>1 DEF Agreement
    <3>2. ASSUME NEW x \in Ranks \ {s}, iter'[x] = iter'[s]
          PROVE  scaler'[x] = scaler'[s] /\ success'[x] = success'[s]
      BY <1>1, <1>2, <1>3, <1>7, <3>2 DEF Agreement
    <3>3. QED
      BY <2>1, <3>1, <3>2
  <2>2. ASSUME NEW r \in Ranks, NEW q \in Ranks, Follows(q, r)'
        PROVE  scaler'[q] = Updated(r)' /\ success'[q] = ~Bad(r)'
    <3>1. r # s
      BY <1>6, <2>2
    <3>2. CASE q = s
      <4>1. iter[r] = iter[s] /\ Relies(s, r)
        BY <1>2, <1>7, <2>2, <3>1, <3>2 DEF Relies
      <4>2. Bad(r) = Bad(s) /\ scaler[r] = scaler[s]
        BY <1>1, <1>2, <4>1 DEF Agreement
      <4>3. Updated(r) = Updated(s)
        BY <4>2 DEF Updated
      <4>4. QED
        BY <1>3, <1>11, <3>1, <3>2, <4>1, <4>2, <4>3
    <3>3. CASE q # s
      <4>1. Follows(q, r) /\ Relies(q, r)
        BY <1>7, <2>2, <3>1, <3>3 DEF Relies
      <4>2. QED
        BY <1>1, <1>2, <1>11, <3>1, <3>3, <4>1 DEF Agreement
    <3>4. QED
      BY <3>2, <3>3
  <2>3. ASSUME NEW r \in Ranks, NEW q \in Ranks, iter'[q] = iter'[r], phase'[r] = "step"
        PROVE  Bad(q)' = Bad(r)'
    <3>1. r # s /\ phase[r] = "step"
      BY <1>2, <2>3
    <3>2. q # s
      BY <1>1, <1>7, <2>3, <3>1 DEF Lockstep
    <3>3. iter[q] = iter[r]
      BY <1>2, <2>3, <3>1, <3>2
    <3>4. Relies(r, q) /\ Relies(r, r)
      BY <3>1, <3>3 DEF Relies
    <3>5. QED
      BY <1>1, <1>11, <3>1, <3>2, <3>3, <3>4 DEF Agreement
  <2>4. ASSUME NEW r \in Ranks, NEW q \in Ranks, iter'[q] = iter'[r], q[2] = r[2], ~distributed,
               phase'[r] = "check", phase'[q] = "check"
        PROVE  overflow'[q] = overflow'[r]
    <3>1. r # s /\ q # s
      BY <1>2, <2>4
    <3>2. QED
      BY <1>1, <1>2, <2>4, <3>1 DEF Agreement
  <2>5. QED
    BY <1>2, <2>1, <2>2, <2>3, <2>4 DEF Agreement
<1>13. Unscaled'
  BY <1>1, <1>2 DEF Unscaled
<1>14. Overflows'
  <2> SUFFICES ASSUME NEW r \in Ranks
               PROVE  /\ r[2] = LastShard /\ phase'[r] = "reduce" /\ TooLarge(r)' => overflow'[r]
                      /\ r[2] = LastShard /\ phase'[r] = "check" /\ TooLarge(r)' =>
                           \E p \in FoundInfGroup(r)' :
                              p[2] = LastShard /\ phase'[p] = "check" /\ overflow'[p]
                      /\ phase'[r] = "step" /\ TooLarge(r)' => found_inf'[r]
    BY DEF Overflows
  <2>1. CASE r = s
    BY <1>2, <2>1
  <2>2. CASE r # s
    <3>1. TooLarge(r)' = TooLarge(r) /\ phase'[r] = phase[r] /\ overflow'[r] = overflow[r]
          /\ found_inf'[r] = found_inf[r]
      BY <1>2, <2>2 DEF TooLarge
    <3>2. \A p \in FoundInfGroup(r) : phase[p] = "check" => phase'[p] = "check" /\ overflow'[p] = overflow[p]
      <4>1. FoundInfGroup(r) \subseteq Ranks
        BY Groups
      <4>2. QED
        BY <1>2, <4>1
    <3>3. QED
      BY <1>1, <1>4, <3>1, <3>2 DEF Overflows
  <2>3. QED
    BY <2>1, <2>2
<1>15. QED
  BY <1>8, <1>9, <1>10, <1>12, <1>13, <1>14 DEF IInv

(* What is saved is the scaler of any rank, since they agree. *)
LEMMA SaveCheckpointStep ==
  ASSUME IInv, SaveCheckpoint
  PROVE  IInv'
<1>1. TypeOK /\ SavedOK /\ Lockstep /\ Agreement /\ Unscaled /\ Overflows
  BY DEF IInv
<1>2. UNCHANGED <<distributed, scaler, phase, iter, gradScale, overflow, found_inf, success,
                  spikes, restarts, streak, since>>
  BY DEF SaveCheckpoint
<1>3. SavedOK'
  <2>1. PICK r \in Ranks : saved' = [scaler |-> scaler[r], streak |-> streak[r], since |-> since[r]]
    BY DEF SaveCheckpoint
  <2>2. scaler[r] \in ScalerState /\ streak[r] \in 0 .. Hysteresis /\ since[r] \in 0 .. Hysteresis
    BY <1>1 DEF TypeOK, ScalerState
  <2>3. QED
    BY <2>1, <2>2 DEF SavedOK
<1>4. TypeOK'
  BY <1>1, <1>2 DEF TypeOK
<1>5. Lockstep'
  BY <1>1, <1>2 DEF Lockstep, Follows, FoundInfGroup
<1>6. \A r \in Ranks : Bad(r)' = Bad(r) /\ Updated(r)' = Updated(r)
  BY <1>2 DEF Bad, Updated, FoundInfGroup
<1>7. Agreement'
  BY <1>1, <1>2, <1>6 DEF Agreement, Follows
<1>8. Unscaled' /\ Overflows'
  BY <1>1, <1>2 DEF Unscaled, Overflows, TooLarge, FoundInfGroup
<1>9. QED
  BY <1>3, <1>4, <1>5, <1>7, <1>8 DEF IInv

(* All ranks load the same scaler. *)
LEMMA RestartStep ==
  ASSUME IInv, Restart
  PROVE  IInv'
<1>1. TypeOK /\ SavedOK
  BY DEF IInv
<1>2. InitialScale \in Scales
  BY LossScalerAssumption DEF Scales, MaxOf
<1>3. saved.scaler \in ScalerState /\ saved.streak \in 0 .. Hysteresis /\ saved.since \in 0 .. Hysteresis
  BY <1>1 DEF SavedOK
<1>4. TypeOK'
  <2>1. scaler' \in [Ranks -> ScalerState]
    BY <1>3 DEF Restart, LoadStateDict
  <2>2. restarts' \in 0 .. MaxRestarts
    BY <1>1, LossScalerAssumption DEF Restart, TypeOK
  <2>3. gradScale' \in [Ranks -> Scales] /\ iter' \in [Ranks -> 0 .. 2]
    BY <1>2 DEF Restart
  <2>4. QED
    BY <1>1, <1>3, <2>1, <2>2, <2>3 DEF Restart, TypeOK, ScalerState
<1>5. SavedOK'
  BY <1>1 DEF SavedOK, Restart
<1>6. \A r \in Ranks : /\ phase'[r] = "backward" /\ iter'[r] = 0
                       /\ scaler'[r] = saved.scaler /\ success'[r] = TRUE
  BY DEF Restart, LoadStateDict
<1>7. \A r, q \in Ranks : ~Follows(q, r)'
  BY <1>6 DEF Follows
<1>8. Lockstep' /\ Agreement' /\ Unscaled' /\ Overflows'
  BY <1>6, <1>7 DEF Lockstep, Agreement, Unscaled, Overflows
<1>9. QED
  BY <1>4, <1>5, <1>8 DEF IInv

(* A step that changes nothing. *)
LEMMA Unmoved ==
  ASSUME IInv, UNCHANGED vars
  PROVE  IInv'
<1>1. \A r \in Ranks : Bad(r)' = Bad(r) /\ Updated(r)' = Updated(r)
  BY DEF vars, Bad, Updated, FoundInfGroup
<1>2. TypeOK' /\ SavedOK'
  BY DEF IInv, TypeOK, SavedOK, vars
<1>3. Lockstep' /\ Agreement'
  BY <1>1 DEF IInv, Lockstep, Agreement, Follows, FoundInfGroup, vars
<1>4. Unscaled' /\ Overflows'
  BY DEF IInv, Unscaled, Overflows, TooLarge, FoundInfGroup, vars
<1>5. QED
  BY <1>2, <1>3, <1>4 DEF IInv

-----------------------------------------------------------------------------
(* All ranks start with the same scaler, at the head of the first iteration. *)
LEMMA InitLemma ==
  ASSUME Init
  PROVE  IInv
<1>1. InitialScale \in Scales /\ NewScaler \in ScalerState
  BY LossScalerAssumption DEF Scales, MaxOf, NewScaler, ScalerState
<1>2. TypeOK
  <2>1. scaler \in [Ranks -> ScalerState] /\ gradScale \in [Ranks -> Scales]
    BY <1>1 DEF Init
  <2>2. streak \in [Ranks -> 0 .. Hysteresis] /\ since \in [Ranks -> 0 .. Hysteresis]
    BY LossScalerAssumption DEF Init, NewHistory
  <2>3. spikes \in 0 .. MaxSpikes /\ restarts \in 0 .. MaxRestarts
    BY LossScalerAssumption DEF Init
  <2>4. QED
    BY <2>1, <2>2, <2>3 DEF Init, TypeOK, ScalerState
<1>3. SavedOK
  BY <1>1, LossScalerAssumption DEF Init, SavedOK
<1>4. \A r \in Ranks : /\ phase[r] = "backward" /\ iter[r] = 0
                       /\ scaler[r] = NewScaler /\ success[r] = TRUE
  BY DEF Init
<1>5. \A r, q \in Ranks : ~Follows(q, r)
  BY <1>4 DEF Follows
<1>6. Lockstep /\ Agreement /\ Unscaled /\ Overflows
  BY <1>4, <1>5 DEF Lockstep, Agreement, Unscaled, Overflows
<1>7. QED
  BY <1>2, <1>3, <1>6 DEF IInv

(* Every step of the system keeps the invariant. *)
LEMMA NextLemma ==
  ASSUME IInv, [Next]_vars
  PROVE  IInv'
<1>1. ASSUME NEW r \in Ranks, Backward(r) \/ CheckForNan(r) \/ Step(r) PROVE IInv'
  BY <1>1, BackwardStep, CheckForNanStep, StepStep
<1>2. ASSUME NEW m \in Shards, ReduceGrads(m) PROVE IInv'
  BY <1>2, ReduceGradsStep
<1>3. CASE SaveCheckpoint
  BY <1>3, SaveCheckpointStep
<1>4. CASE Restart
  BY <1>4, RestartStep
<1>5. CASE UNCHANGED vars
  BY <1>5, Unmoved
<1>6. QED
  BY <1>1, <1>2, <1>3, <1>4, <1>5 DEF Next, Iterate

(* The invariant holds in every reachable state. *)
THEOREM Invariance == Spec => []IInv
<1>1. Init => IInv
  BY InitLemma
<1>2. IInv /\ [Next]_vars => IInv'
  BY NextLemma
<1>3. QED
  BY <1>1, <1>2, PTL DEF Spec

(* Ranks that have completed the same iterations have the same scaler and made  *)
(* the same decisions, whichever of them ran ahead, and through every restart;  *)
(* and the state keeps its types, so the scale is never more than one growth    *)
(* above what the gradients bear.                                               *)
THEOREM RanksAgreeThm == Spec => []RanksAgree
<1>1. IInv => RanksAgree
  BY DEF IInv, Agreement, RanksAgree
<1>2. QED
  BY <1>1, Invariance, PTL

(* Every rank unscales its gradients by the scale that the last shard of its    *)
(* replica multiplied the loss with.                                            *)
THEOREM UnscaledByScaleUsedThm == Spec => []UnscaledByScaleUsed
<1>1. IInv => UnscaledByScaleUsed
  BY DEF IInv, Unscaled, UnscaledByScaleUsed
<1>2. QED
  BY <1>1, Invariance, PTL

-----------------------------------------------------------------------------
(* The hysteresis tracker is what is left of the hysteresis after the overflows *)
(* since the last growth.                                                       *)
Tallies(s, n) == n = IF s.hysteresis_tracker > 0 THEN Hysteresis - s.hysteresis_tracker ELSE Hysteresis

Tally ==
  /\ \A r \in Ranks : Tallies(scaler[r], since[r])
  /\ Tallies(saved.scaler, saved.since)

(* Every update keeps the tally; the scale falls only on an overflow that       *)
(* completes it.                                                                 *)
LEMMA StepTally ==
  ASSUME IInv, Tally, NEW s \in Ranks, Step(s)
  PROVE  /\ Tally'
         /\ scaler'[s].scale < scaler[s].scale => since'[s] >= Hysteresis
         /\ found_inf[s] /\ since'[s] >= Hysteresis =>
              scaler'[s].scale = MaxOf(scaler[s].scale - 1, MinScale)
<1>1. /\ scaler[s] \in ScalerState /\ since[s] \in 0 .. Hysteresis
      /\ Hysteresis \in Nat \ {0} /\ {MinScale, InitialScale, SafeScale} \subseteq Int
  BY LossScalerAssumption DEF IInv, TypeOK, ScalerState
<1>2. scaler[s].hysteresis_tracker \in Int /\ scaler[s].scale \in Int
  BY <1>1 DEF ScalerState, Scales
<1>3. /\ scaler'[s] = IF found_inf[s] THEN OnOverflow(scaler[s]) ELSE OnSuccess(scaler[s])
      /\ since'[s] = IF found_inf[s] THEN Count(since[s])
                     ELSE IF scaler'[s].scale > scaler[s].scale THEN 0 ELSE since[s]
      /\ \A r \in Ranks \ {s} : scaler'[r] = scaler[r] /\ since'[r] = since[r]
      /\ saved' = saved
  BY DEF IInv, TypeOK, Step
<1>4. Tallies(scaler[s], since[s])
  BY DEF Tally
<1>5. CASE found_inf[s]
  <2>1. /\ since'[s] = IF since[s] < Hysteresis THEN since[s] + 1 ELSE since[s]
        /\ scaler'[s].hysteresis_tracker = scaler[s].hysteresis_tracker - 1
        /\ scaler'[s].scale = IF scaler[s].hysteresis_tracker - 1 <= 0
                              THEN MaxOf(scaler[s].scale - 1, MinScale) ELSE scaler[s].scale
    BY <1>3, <1>5 DEF OnOverflow, Count
  <2>2. Tallies(scaler'[s], since'[s])
    BY <1>1, <1>2, <1>4, <2>1 DEF Tallies
  <2>3. since'[s] >= Hysteresis <=> scaler[s].hysteresis_tracker - 1 <= 0
    BY <1>1, <1>2, <1>4, <2>1 DEF Tallies
  <2>4. QED
    BY <1>2, <1>3, <2>1, <2>2, <2>3 DEF Tally
<1>6. CASE ~found_inf[s]
  <2>1. CASE scaler[s].growth_tracker + 1 = GrowthInterval
    <3>1. scaler'[s].scale = scaler[s].scale + 1 /\ scaler'[s].hysteresis_tracker = Hysteresis
      BY <1>3, <1>6, <2>1 DEF OnSuccess
    <3>2. since'[s] = 0
      BY <1>2, <1>3, <1>6, <3>1
    <3>3. QED
      BY <1>1, <1>2, <1>3, <1>6, <3>1, <3>2 DEF Tally, Tallies
  <2>2. CASE scaler[s].growth_tracker + 1 # GrowthInterval
    <3>1. /\ scaler'[s].scale = scaler[s].scale
          /\ scaler'[s].hysteresis_tracker = scaler[s].hysteresis_tracker
      BY <1>1, <1>3, <1>6, <2>2 DEF OnSuccess, ScalerState
    <3>2. since'[s] = since[s]
      BY <1>2, <1>3, <1>6, <3>1
    <3>3. QED
      BY <1>2, <1>3, <1>4, <1>6, <3>1, <3>2 DEF Tally, Tallies
  <2>3. QED
    BY <2>1, <2>2
<1>7. QED
  BY <1>5, <1>6

(* The tally holds in every reachable state: a checkpoint carries the tracker. *)
LEMMA TallyInvariance == Spec => []Tally
<1>1. Init => Tally
  BY LossScalerAssumption DEF Init, Tally, Tallies, NewScaler, NewHistory
<1>2. IInv /\ Tally /\ [Next]_vars => Tally'
  <2> SUFFICES ASSUME IInv, Tally, [Next]_vars PROVE Tally'
    OBVIOUS
  <2>1. ASSUME NEW r \in Ranks, Step(r) PROVE Tally'
    BY <2>1, StepTally
  <2>2. ASSUME UNCHANGED <<scaler, since, saved>> PROVE Tally'
    BY <2>2 DEF Tally, Tallies
  <2>3. ASSUME NEW r \in Ranks, Backward(r) \/ CheckForNan(r) PROVE Tally'
    BY <2>2, <2>3 DEF Backward, CheckForNan
  <2>4. ASSUME NEW m \in Shards, ReduceGrads(m) PROVE Tally'
    BY <2>2, <2>4 DEF ReduceGrads
  <2>5. CASE SaveCheckpoint
    BY <2>5 DEF SaveCheckpoint, Tally, Tallies
  <2>6. CASE Restart
    BY <2>6 DEF Restart, LoadStateDict, Tally, Tallies
  <2>7. CASE UNCHANGED vars
    BY <2>2, <2>7 DEF vars
  <2>8. QED
    BY <2>1, <2>3, <2>4, <2>5, <2>6, <2>7 DEF Next, Iterate
<1>3. QED
  BY <1>1, <1>2, Invariance, PTL DEF Spec

(* The scale is lowered only when hysteresis iterations with an overflow were    *)
(* seen since it last grew, over all restarts, and then by each of them.         *)
THEOREM BackoffExhaustsHysteresisThm == Spec => BackoffExhaustsHysteresis
<1> DEFINE Backoff ==
      \A r \in Ranks :
        /\ Step(r) /\ scaler'[r].scale < scaler[r].scale => since'[r] >= Hysteresis
        /\ Step(r) /\ found_inf[r] /\ since'[r] >= Hysteresis =>
             scaler'[r].scale = MaxOf(scaler[r].scale - 1, MinScale)
<1>1. IInv /\ Tally => Backoff
  BY StepTally
<1>2. QED
  BY <1>1, Invariance, TallyInvariance, PTL DEF BackoffExhaustsHysteresis
=============================================================================
