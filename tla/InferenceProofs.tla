---------------------------- MODULE InferenceProofs ----------------------------
(***************************************************************************)
(* Proofs about a request to a pipeline of stages, for any request on any  *)
(* number of stages: the stages make the same calls, with the same sizes;  *)
(* in a generation each token is sampled from the whole text before it,    *)
(* and the caller gets what was generated.                                 *)
(***************************************************************************)
EXTENDS Inference, WellFoundedInduction, SequenceTheorems, TLAPS

-----------------------------------------------------------------------------
(* Sequences. The library defines the concatenation of sequences by          *)
(* recursion, and its theorems on induction take an operator; induction is    *)
(* used in its first-order form: a nonempty set of natural numbers, here that *)
(* of the counterexamples, has a least element.                               *)

(* A nonempty set of natural numbers has a least element. *)
LEMMA LeastNat ==
  ASSUME NEW T, T \subseteq Nat, T # {}
  PROVE  \E x \in T : \A y \in T : x <= y
<1> DEFINE R == OpToRel(<, Nat)
<1>1. \A x, y \in Nat : y < x => <<y, x>> \in R
  BY DEF OpToRel
<1>2. IsWellFoundedOn(R, Nat)
  BY NatLessThanWellFounded
<1> HIDE DEF R
<1>3. PICK x \in T : \A y \in T : ~(<<y, x>> \in R)
  BY <1>2, WFMin
<1>4. ASSUME NEW y \in T PROVE x <= y
  <2>1. x \in Nat /\ y \in Nat /\ ~(y < x)
    BY <1>1, <1>3
  <2>2. QED
    BY <2>1
<1>5. QED
  BY <1>4

(* A set of natural numbers that is closed under successor and has 0 is all *)
(* of them.                                                                  *)
LEMMA NatInductionSet ==
  ASSUME NEW T, 0 \in T, \A n \in Nat : n \in T => n + 1 \in T
  PROVE  Nat \subseteq T
<1>1. ASSUME NEW n \in Nat, n \notin T PROVE FALSE
  <2>1. PICK x \in Nat \ T : \A y \in Nat \ T : x <= y
    BY <1>1, LeastNat
  <2>2. x # 0 /\ x - 1 \in Nat
    BY <2>1
  <2>3. x - 1 \in T
    BY <2>1, <2>2
  <2>4. x \in T
    BY <2>2, <2>3
  <2>5. QED
    BY <2>1, <2>4
<1>2. QED
  BY <1>1

(* The concatenations of the first sequences of seqs. *)
Concats(seqs, n, g) ==
  g = [i \in 1 .. n |-> IF i = 1 THEN seqs[i] ELSE g[i - 1] \o seqs[i]]

(* They are a function of their length. *)
LEMMA ConcatsFacts ==
  ASSUME NEW seqs, NEW n \in Nat, NEW g
  PROVE  Concats(seqs, n, g)
           <=> /\ g = [i \in 1 .. n |-> g[i]]
               /\ \A i \in 1 .. n : g[i] = IF i = 1 THEN seqs[i] ELSE g[i - 1] \o seqs[i]
<1> DEFINE f == [i \in 1 .. n |-> IF i = 1 THEN seqs[i] ELSE g[i - 1] \o seqs[i]]
<1>1. Concats(seqs, n, g) <=> g = f
  BY DEF Concats
<1>2. \A i \in 1 .. n : f[i] = IF i = 1 THEN seqs[i] ELSE g[i - 1] \o seqs[i]
  OBVIOUS
<1>3. f = [i \in 1 .. n |-> f[i]]
  OBVIOUS
<1> HIDE DEF f
<1>4. ASSUME g = f
      PROVE  /\ g = [i \in 1 .. n |-> g[i]]
             /\ \A i \in 1 .. n : g[i] = IF i = 1 THEN seqs[i] ELSE g[i - 1] \o seqs[i]
  BY <1>2, <1>3, <1>4
<1>5. ASSUME g = [i \in 1 .. n |-> g[i]],
             \A i \in 1 .. n : g[i] = IF i = 1 THEN seqs[i] ELSE g[i - 1] \o seqs[i]
      PROVE  g = f
  <2>1. \A i \in 1 .. n : g[i] = f[i]
    BY <1>2, <1>5
  <2>2. [i \in 1 .. n |-> g[i]] = [i \in 1 .. n |-> f[i]]
    BY <2>1
  <2>3. QED
    BY <1>3, <1>5, <2>2
<1>6. QED
  BY <1>1, <1>4, <1>5

(* There is such a function. *)
LEMMA ConcatsExist ==
  ASSUME NEW seqs, NEW n \in Nat
  PROVE  \E g : Concats(seqs, n, g)
<1> DEFINE T == {m \in Nat : \E g : Concats(seqs, m, g)}
<1>1. 0 \in T
  <2>1. Concats(seqs, 0, <<>>)
    BY DEF Concats
  <2>2. QED
    BY <2>1
<1>2. ASSUME NEW m \in Nat, m \in T PROVE m + 1 \in T
  <2>1. PICK g : Concats(seqs, m, g)
    BY <1>2
  <2> DEFINE f == [i \in 1 .. m + 1 |-> IF i = 1 THEN seqs[i] ELSE g[i - 1] \o seqs[i]]
  <2>2. \A i \in 1 .. m : f[i] = g[i]
    BY <2>1, ConcatsFacts
  <2>3. \A i \in 1 .. m + 1 : i # 1 => f[i - 1] = g[i - 1]
    <3> HIDE DEF f
    <3>1. \A i \in 1 .. m + 1 : i # 1 => i - 1 \in 1 .. m
      OBVIOUS
    <3>2. QED
      BY <2>2, <3>1
  <2>4. f = [i \in 1 .. m + 1 |-> IF i = 1 THEN seqs[i] ELSE f[i - 1] \o seqs[i]]
    <3>1. \A i \in 1 .. m + 1 : f[i] = IF i = 1 THEN seqs[i] ELSE f[i - 1] \o seqs[i]
      <4> TAKE i \in 1 .. m + 1
      <4>1. f[i] = IF i = 1 THEN seqs[i] ELSE g[i - 1] \o seqs[i]
        OBVIOUS
      <4> HIDE DEF f
      <4>2. QED
        BY <2>3, <4>1
    <3>2. f = [i \in 1 .. m + 1 |-> f[i]]
      OBVIOUS
    <3> HIDE DEF f
    <3>3. QED
      BY <3>1, <3>2
  <2> HIDE DEF f
  <2>5. Concats(seqs, m + 1, f)
    BY <2>4, Zenon DEF Concats
  <2>6. \E h : Concats(seqs, m + 1, h)
    BY <2>5
  <2>7. QED
    BY <2>6
<1> HIDE DEF T
<1>3. Nat \subseteq T
  BY <1>1, <1>2, NatInductionSet
<1>4. n \in T
  BY <1>3
<1>5. QED
  BY <1>4 DEF T

Unfolds(seqs, n, g) ==
  \A i \in 1 .. n : g[i] = IF i = 1 THEN seqs[i] ELSE g[i - 1] \o seqs[i]

(* The concatenations of the first sequences, one from the other. *)
LEMMA ConcatsUnfold ==
  ASSUME NEW seqs, NEW n \in Nat, NEW g, Concats(seqs, n, g)
  PROVE  Unfolds(seqs, n, g)
BY ConcatsFacts DEF Unfolds

(* Their first element, and each element from the one before. *)
LEMMA UnfoldsStep ==
  ASSUME NEW seqs, NEW n \in Nat, NEW g, Unfolds(seqs, n, g)
  PROVE  /\ 1 <= n => g[1] = seqs[1]
         /\ \A m \in 1 .. n - 1 : g[m + 1] = g[m] \o seqs[m + 1]
<1>1. 1 <= n => g[1] = seqs[1]
  BY DEF Unfolds
<1>2. ASSUME NEW m \in 1 .. n - 1 PROVE g[m + 1] = g[m] \o seqs[m + 1]
  <2>1. m + 1 \in 1 .. n /\ m + 1 # 1 /\ (m + 1) - 1 = m
    OBVIOUS
  <2>2. g[m + 1] = IF m + 1 = 1 THEN seqs[m + 1] ELSE g[(m + 1) - 1] \o seqs[m + 1]
    BY <2>1, Zenon DEF Unfolds
  <2>3. g[m + 1] = g[(m + 1) - 1] \o seqs[m + 1]
    BY <2>1, <2>2, Zenon
  <2>4. QED
    BY <2>1, <2>3, Zenon
<1>3. QED
  BY <1>1, <1>2

(* What FlattenSeq computes with. *)
LEMMA FlattenSeqDef ==
  ASSUME NEW S, NEW seqs \in Seq(Seq(S)), NEW N \in Nat \ {0}, N = Len(seqs)
  PROVE  \E g : FlattenSeq(seqs) = g[N] /\ Unfolds(seqs, N, g)
<1> DEFINE flatten == CHOOSE g : g = [i \in 1 .. Len(seqs) |->
                                        IF i = 1 THEN seqs[i] ELSE g[i - 1] \o seqs[i]]
<1>1. FlattenSeq(seqs) = flatten[N]
  BY DEF FlattenSeq
<1>2. \E g : Concats(seqs, N, g)
  <2>1. N \in Nat
    OBVIOUS
  <2>2. QED
    BY <2>1, ConcatsExist, Zenon
<1>3. \E g : g = [i \in 1 .. Len(seqs) |-> IF i = 1 THEN seqs[i] ELSE g[i - 1] \o seqs[i]]
  <2>1. PICK g : Concats(seqs, N, g)
    BY <1>2
  <2>2. QED
    BY <2>1, Zenon DEF Concats
<1>4. flatten = [i \in 1 .. Len(seqs) |-> IF i = 1 THEN seqs[i] ELSE flatten[i - 1] \o seqs[i]]
  BY <1>3, Zenon
<1> HIDE DEF flatten
<1>5. Concats(seqs, N, flatten)
  BY <1>4, Zenon DEF Concats
<1>6. Unfolds(seqs, N, flatten)
  <2>1. N \in Nat
    OBVIOUS
  <2>2. QED
    BY <1>5, <2>1, ConcatsUnfold, Zenon
<1>7. QED
  BY <1>1, <1>6

(* A sequence is one over its own elements.                                *)
LEMMA OverItsRange ==
  ASSUME NEW f, NEW n \in Nat, DOMAIN f = 1 .. n, f = [i \in DOMAIN f |-> f[i]]
  PROVE  f \in Seq(Range(f)) /\ Len(f) = n
<1>1. \A i \in 1 .. n : f[i] \in Range(f)
  BY Zenon DEF Range
<1>2. f \in [1 .. n -> Range(f)]
  BY <1>1
<1>3. f \in Seq(Range(f))
  BY <1>2
<1>4. Len(f) = n
  BY <1>2
<1>5. QED
  BY <1>3, <1>4

(* The first elements of a sequence, or of any function on them.           *)
LEMMA PrefixFacts ==
  ASSUME NEW S, NEW s, NEW p \in Nat, \A i \in 1 .. p : s[i] \in S
  PROVE  /\ SubSeq(s, 1, p) \in Seq(S) /\ Len(SubSeq(s, 1, p)) = p
         /\ \A i \in 1 .. p : SubSeq(s, 1, p)[i] = s[i]
<1>1. /\ SubSeq(s, 1, p) \in Seq(S)
      /\ Len(SubSeq(s, 1, p)) = IF 1 <= p THEN p - 1 + 1 ELSE 0
      /\ \A i \in 1 .. p - 1 + 1 : SubSeq(s, 1, p)[i] = s[1 + i - 1]
  BY SubSeqProperties
<1>2. (IF 1 <= p THEN p - 1 + 1 ELSE 0) = p /\ p - 1 + 1 = p
  OBVIOUS
<1>3. \A i \in 1 .. p : 1 + i - 1 = i
  OBVIOUS
<1>4. QED
  BY <1>1, <1>2, <1>3

(* Two prefixes of one length with the same elements are the same.         *)
LEMMA SamePrefix ==
  ASSUME NEW S, NEW s, NEW t, NEW p \in Nat, \A i \in 1 .. p : s[i] \in S,
         \A i \in 1 .. p : t[i] = s[i]
  PROVE  SubSeq(t, 1, p) = SubSeq(s, 1, p)
<1>1. /\ SubSeq(s, 1, p) \in Seq(S) /\ Len(SubSeq(s, 1, p)) = p
      /\ \A i \in 1 .. p : SubSeq(s, 1, p)[i] = s[i]
  BY PrefixFacts
<1>2. /\ SubSeq(t, 1, p) \in Seq(S) /\ Len(SubSeq(t, 1, p)) = p
      /\ \A i \in 1 .. p : SubSeq(t, 1, p)[i] = t[i]
  <2>1. \A i \in 1 .. p : t[i] \in S
    OBVIOUS
  <2>2. QED
    BY <2>1, PrefixFacts
<1>3. QED
  BY <1>1, <1>2, SeqEqual

(* A prefix of a prefix.                                                   *)
LEMMA PrefixOfPrefix ==
  ASSUME NEW S, NEW s, NEW p \in Nat, NEW q \in 0 .. p, \A i \in 1 .. p : s[i] \in S
  PROVE  SubSeq(SubSeq(s, 1, p), 1, q) = SubSeq(s, 1, q)
<1>1. \A i \in 1 .. p : SubSeq(s, 1, p)[i] = s[i]
  BY PrefixFacts
<1>2. q \in Nat /\ \A i \in 1 .. q : i \in 1 .. p
  OBVIOUS
<1> DEFINE t == SubSeq(s, 1, p)
<1>3. \A i \in 1 .. q : s[i] \in S /\ t[i] = s[i]
  BY <1>1, <1>2
<1> HIDE DEF t
<1>4. SubSeq(t, 1, q) = SubSeq(s, 1, q)
  BY <1>2, <1>3, SamePrefix
<1>5. QED
  BY <1>4 DEF t

\* The first p elements, each by itself.
Singles(S, s, seqs, p) == \A i \in 1 .. p : s[i] \in S /\ seqs[i] = <<s[i]>>

(* A sequence of sequences of one element.                                 *)
LEMMA FlattenSingles ==
  ASSUME NEW S, NEW s, NEW seqs, NEW p \in Nat \ {0}, Singles(S, s, seqs, p)
  PROVE  FlattenSeq(SubSeq(seqs, 1, p)) = SubSeq(s, 1, p)
<1>0. /\ \A i \in 1 .. p : s[i] \in S
      /\ \A i \in 1 .. p : seqs[i] = <<s[i]>>
  BY DEF Singles
<1> DEFINE t == SubSeq(seqs, 1, p)
<1>1. /\ t \in Seq(Seq(S)) /\ Len(t) = p
      /\ \A i \in 1 .. p : t[i] = <<s[i]>>
  <2>1. ASSUME NEW i \in 1 .. p PROVE seqs[i] \in Seq(S)
    <3>1. PICK a \in S : a = s[i]
      BY <1>0
    <3>2. <<a>> \in Seq(S)
      OBVIOUS
    <3>3. QED
      BY <1>0, <3>1, <3>2
  <2>2. p \in Nat
    OBVIOUS
  <2>3. t \in Seq(Seq(S)) /\ Len(t) = p /\ \A i \in 1 .. p : t[i] = seqs[i]
    BY <2>1, <2>2, PrefixFacts
  <2>4. QED
    BY <1>0, <2>3
<1> HIDE DEF t
<1>2. PICK g : FlattenSeq(t) = g[p] /\ Unfolds(t, p, g)
  BY <1>1, FlattenSeqDef
<1>3. /\ 1 <= p => g[1] = t[1]
      /\ \A m \in 1 .. p - 1 : g[m + 1] = g[m] \o t[m + 1]
  <2>1. p \in Nat
    OBVIOUS
  <2>2. QED
    BY <1>2, <2>1, UnfoldsStep
<1> DEFINE T == {n \in Nat : n \in 1 .. p => g[n] = SubSeq(s, 1, n)}
<1>4. 0 \in T
  OBVIOUS
<1>5. ASSUME NEW n \in Nat, n \in T PROVE n + 1 \in T
  <2>1. ASSUME n + 1 \in 1 .. p PROVE g[n + 1] = SubSeq(s, 1, n + 1)
    <3>0. \A i \in 1 .. n + 1 : s[i] \in S
      BY <1>0, <2>1
    <3>1. /\ SubSeq(s, 1, n + 1) \in Seq(S) /\ Len(SubSeq(s, 1, n + 1)) = n + 1
          /\ \A i \in 1 .. n + 1 : SubSeq(s, 1, n + 1)[i] = s[i]
      <4>1. n + 1 \in Nat
        OBVIOUS
      <4>2. QED
        BY <3>0, <4>1, PrefixFacts
    <3>2. t[n + 1] = <<s[n + 1]>> /\ s[n + 1] \in S
      BY <1>0, <1>1, <2>1
    <3>3. CASE n = 0
      <4>1. g[1] = <<s[1]>>
        BY <1>1, <1>3
      <4>2. /\ <<s[1]>> \in Seq(S) /\ Len(<<s[1]>>) = 1 /\ <<s[1]>>[1] = s[1]
        <5>1. PICK a \in S : a = s[1]
          BY <3>2, <3>3
        <5>2. <<a>> \in Seq(S) /\ Len(<<a>>) = 1 /\ <<a>>[1] = a
          OBVIOUS
        <5>3. QED
          BY <5>1, <5>2
      <4>3. SubSeq(s, 1, 1) = <<s[1]>>
        <5>1. PICK x, y : x = SubSeq(s, 1, 1) /\ y = <<s[1]>>
          OBVIOUS
        <5>2. x \in Seq(S) /\ Len(x) = 1 /\ x[1] = s[1]
          BY <3>1, <3>3, <5>1
        <5>3. y \in Seq(S) /\ Len(y) = 1 /\ y[1] = s[1]
          BY <4>2, <5>1
        <5>4. x = y
          <6>1. Len(x) = Len(y) /\ \A i \in 1 .. Len(x) : x[i] = y[i]
            BY <5>2, <5>3
          <6>2. QED
            BY <5>2, <5>3, <6>1, SeqEqual
        <5>5. QED
          BY <5>1, <5>4
      <4>4. QED
        BY <3>3, <4>1, <4>3
    <3>4. CASE n # 0
      <4>1. n \in 1 .. p /\ n \in 1 .. p - 1
        BY <2>1, <3>4
      <4>2. g[n] = SubSeq(s, 1, n)
        BY <1>5, <4>1
      <4>3. g[n + 1] = SubSeq(s, 1, n) \o <<s[n + 1]>>
        BY <1>3, <3>2, <4>1, <4>2
      <4>4. /\ SubSeq(s, 1, n) \in Seq(S) /\ Len(SubSeq(s, 1, n)) = n
            /\ \A i \in 1 .. n : SubSeq(s, 1, n)[i] = s[i]
        <5>1. \A i \in 1 .. n : s[i] \in S
          BY <1>0, <4>1
        <5>2. QED
          BY <5>1, PrefixFacts
      <4>5. PICK u, v : u = SubSeq(s, 1, n) /\ v = <<s[n + 1]>>
        OBVIOUS
      <4>6. v \in Seq(S) /\ Len(v) = 1 /\ v[1] = s[n + 1]
        BY <3>2, <4>5
      <4>7. /\ u \o v \in Seq(S) /\ Len(u \o v) = Len(u) + Len(v)
            /\ \A i \in 1 .. Len(u) + Len(v) :
                 (u \o v)[i] = IF i <= Len(u) THEN u[i] ELSE v[i - Len(u)]
        BY <4>4, <4>5, <4>6, ConcatProperties
      <4>8. /\ Len(u \o v) = n + 1
            /\ \A i \in 1 .. n + 1 : (u \o v)[i] = s[i]
        <5>1. Len(u) = n /\ Len(v) = 1
          BY <4>4, <4>5, <4>6
        <5>2. ASSUME NEW i \in 1 .. n + 1 PROVE (u \o v)[i] = s[i]
          <6>1. CASE i <= n
            <7>1. i \in 1 .. n /\ i \in 1 .. Len(u) + Len(v) /\ i <= Len(u)
              BY <5>1, <6>1
            <7>2. (u \o v)[i] = u[i]
              BY <4>7, <7>1
            <7>3. QED
              BY <4>4, <4>5, <7>1, <7>2
          <6>2. CASE i = n + 1
            <7>1. ~(i <= Len(u)) /\ i - Len(u) = 1 /\ i \in 1 .. Len(u) + Len(v)
              BY <5>1, <6>2
            <7>2. (u \o v)[i] = v[1]
              BY <4>7, <7>1
            <7>3. QED
              BY <4>6, <6>2, <7>2
          <6>3. i <= n \/ i = n + 1
            OBVIOUS
          <6>4. QED
            BY <6>1, <6>2, <6>3
        <5>3. QED
          BY <4>7, <5>1, <5>2
      <4>9. SubSeq(s, 1, n + 1) = u \o v
        BY <3>1, <4>7, <4>8, SeqEqual
      <4>10. QED
        BY <4>3, <4>5, <4>9
    <3>5. QED
      BY <3>3, <3>4
  <2>2. QED
    BY <2>1
<1> HIDE DEF T
<1>6. p \in T
  <2>1. Nat \subseteq T
    BY <1>4, <1>5, NatInductionSet
  <2>2. QED
    BY <2>1
<1>7. g[p] = SubSeq(s, 1, p)
  BY <1>6 DEF T
<1>8. QED
  BY <1>2, <1>7 DEF t

-----------------------------------------------------------------------------
(* The sizes of a request, and of a pass over n positions.                  *)

Stages(cf) == 0 .. cf.pp - 1
EndStage(cf) == cf.pp - 1
Size(cf) == Len(cf.prompts)
Longest(cf) == Max({Len(cf.prompts[b]) : b \in DOMAIN cf.prompts}) + cf.tokens_to_generate

(* A full microbatch, the number of microbatches, the rows of the m-th.    *)
Full(cf, n) ==
  IF cf.pp > 1 /\ Size(cf) * n >= cf.threshold THEN Max({1, cf.threshold \div n}) ELSE Size(cf)
Count(cf, n) == (Size(cf) + Full(cf, n) - 1) \div Full(cf, n)
This(cf, n, m) == Min({Full(cf, n), Size(cf) - m * Full(cf, n)})

-----------------------------------------------------------------------------
(* The invariant.                                                          *)

InPass == {"recv", "compute", "send"}

Fields == {"pc", "mb", "prev", "context", "tokens", "batch_size_offset", "sequence_len_offset",
           "allocated", "cache", "recv_buffer", "output", "logits"}

\* What a stage knows by itself: the offsets are those of its microbatch and of its pass.
StageOK(cf, r, s) ==
  /\ DOMAIN s = Fields
  /\ s.mb \in Nat /\ s.prev \in Nat /\ s.context \in Nat
  /\ s.context <= Longest(cf)
  /\ cf.tokens_to_generate > 0 => s.context < Longest(cf)
  /\ s.pc \in InPass =>
       /\ s.prev < s.context /\ s.mb < Count(cf, s.context - s.prev)
       /\ s.batch_size_offset = s.mb * Full(cf, s.context - s.prev)
       /\ s.sequence_len_offset = s.prev
  /\ s.pc \notin InPass =>
       s.mb = 0 /\ s.batch_size_offset = 0 /\ s.sequence_len_offset = s.context
  /\ r = 0 => s.pc # "recv"
  /\ r = EndStage(cf) => s.pc # "send"
  /\ s.pc = "send" => Len(s.output) = This(cf, s.context - s.prev, s.mb)

\* The microbatches a stage has passed on, and those it has received.
Sent(cf, s) == IF s.pc \in InPass THEN s.mb ELSE Count(cf, s.context - s.prev)
Received(cf, s) ==
  IF s.pc = "recv" THEN s.mb ELSE IF s.pc \in InPass THEN s.mb + 1
  ELSE Count(cf, s.context - s.prev)

\* No stage leaves a section before all have come to its end.
Pass == InPass \cup {"forwarded"}
Sections(cf) ==
  IF cf.task = "beam_search"
  THEN {Pass \cup {"done"}, {"copy", "best_batches"}, {"rank_hypotheses", "scores_size"},
        {"tokens_size"}, {"scores", "tokens", "returned"}}
  ELSE IF cf.tokens_to_generate > 0
  THEN {Pass \cup {"copy", "done"}, {"lengths", "log_probs", "raised", "returned"}}
  ELSE {Pass \cup {"log_probs", "returned"}}

\* Program points which the first stage and the last come to and leave together.
Together(cf) ==
  IF cf.task = "beam_search" THEN {"copy", "best_batches", "scores", "tokens", "returned"}
  ELSE IF cf.tokens_to_generate > 0 THEN {"done", "lengths", "returned"}
  ELSE {"returned"}

SameSection(cf, rk) == \E S \in Sections(cf) : \A r \in Stages(cf) : rk[r].pc \in S
EndsTogether(cf, rk) == \A p \in Together(cf) : rk[0].pc = p <=> rk[EndStage(cf)].pc = p
SamePass(cf, rk) ==
  \A r, s \in Stages(cf) : rk[r].context = rk[s].context /\ rk[r].prev = rk[s].prev
Link(cf, rk) ==
  \A r \in Stages(cf) : r + 1 \in Stages(cf) => Sent(cf, rk[r]) = Received(cf, rk[r + 1])

StagesInv(cf, rk) ==
  /\ DOMAIN rk = Stages(cf)
  /\ \A r \in Stages(cf) : StageOK(cf, r, rk[r])
  /\ SamePass(cf, rk) /\ Link(cf, rk) /\ SameSection(cf, rk) /\ EndsTogether(cf, rk)

Inv == conf \in Requests /\ StagesInv(conf, rank)

-----------------------------------------------------------------------------
(* Arithmetic of microbatches.                                             *)

(* The smaller and the larger of two numbers.                              *)
LEMMA MinMaxOfTwo ==
  ASSUME NEW a \in Int, NEW b \in Int
  PROVE  /\ Min({a, b}) = IF a <= b THEN a ELSE b
         /\ Max({a, b}) = IF a >= b THEN a ELSE b
<1>1. Min({a, b}) = IF a <= b THEN a ELSE b
  BY DEF Min
<1>2. Max({a, b}) = IF a >= b THEN a ELSE b
  BY DEF Max
<1>3. QED
  BY <1>1, <1>2

(* There are as many microbatches as are needed for all rows.              *)
LEMMA CountFacts ==
  ASSUME NEW n \in Nat \ {0}, NEW b \in Nat \ {0}
  PROVE  /\ (b + n - 1) \div n \in Nat \ {0}
         /\ \A m \in Nat : m < (b + n - 1) \div n => m * n < b
         /\ \A m \in Nat : m + 1 < (b + n - 1) \div n => (m + 1) * n < b
         /\ \A m \in Nat : m + 1 = (b + n - 1) \div n => b <= (m + 1) * n
<1>1. (b + n - 1) \div n \in Nat \ {0}
  OBVIOUS
<1>2. ASSUME NEW m \in Nat, m < (b + n - 1) \div n PROVE m * n < b
  BY <1>2
<1>3. ASSUME NEW m \in Nat, m + 1 < (b + n - 1) \div n PROVE (m + 1) * n < b
  BY <1>3
<1>4. ASSUME NEW m \in Nat, m + 1 = (b + n - 1) \div n PROVE b <= (m + 1) * n
  BY <1>4
<1>5. QED
  BY <1>1, <1>2, <1>3, <1>4

(* Of finitely many numbers one is the largest.                            *)
LEMMA MaxExists ==
  ASSUME NEW N \in Nat \ {0}, NEW f, \A i \in 1 .. N : f[i] \in Nat
  PROVE  \E i \in 1 .. N : \A j \in 1 .. N : f[j] <= f[i]
<1> DEFINE Has(n) == \E i \in 1 .. n : \A j \in 1 .. n : f[j] <= f[i]
           T == {n \in Nat : n \in 1 .. N => Has(n)}
<1>1. 0 \in T
  OBVIOUS
<1>2. ASSUME NEW n \in Nat, n \in T PROVE n + 1 \in T
  <2>1. ASSUME n + 1 \in 1 .. N PROVE Has(n + 1)
    <3>1. f[n + 1] \in Nat
      BY <2>1
    <3>2. CASE n = 0
      <4>1. 1 \in 1 .. 1 /\ f[1] \in Nat /\ \A j \in 1 .. 1 : f[j] <= f[1]
        BY <3>1, <3>2
      <4>2. QED
        BY <3>2, <4>1
    <3>3. CASE n # 0
      <4>1. n \in 1 .. N
        BY <2>1, <3>3
      <4>2. PICK i \in 1 .. n : \A j \in 1 .. n : f[j] <= f[i]
        BY <1>2, <4>1
      <4>3. i \in 1 .. N /\ f[i] \in Nat
        BY <4>1
      <4>4. CASE f[n + 1] <= f[i]
        <5>1. \A j \in 1 .. n + 1 : f[j] <= f[i]
          BY <4>2, <4>4
        <5>2. i \in 1 .. n + 1
          OBVIOUS
        <5>3. QED
          BY <5>1, <5>2
      <4>5. CASE ~(f[n + 1] <= f[i])
        <5>1. ASSUME NEW j \in 1 .. n + 1 PROVE f[j] <= f[n + 1]
          <6>1. j \in 1 .. N /\ f[j] \in Nat
            BY <2>1
          <6>2. CASE j = n + 1
            BY <3>1, <6>2
          <6>3. CASE j # n + 1
            <7>1. f[j] <= f[i]
              BY <4>2, <6>3
            <7>2. QED
              BY <3>1, <4>3, <4>5, <6>1, <7>1
          <6>4. QED
            BY <6>2, <6>3
        <5>2. n + 1 \in 1 .. n + 1
          OBVIOUS
        <5>3. QED
          BY <5>1, <5>2
      <4>6. QED
        BY <4>4, <4>5
    <3>4. QED
      BY <3>2, <3>3
  <2>2. QED
    BY <2>1
<1> HIDE DEF T
<1>3. N \in T
  BY <1>1, <1>2, NatInductionSet
<1>4. QED
  BY <1>3 DEF T

(* The lengths of the prompts of a request.                                *)
LEMMA RequestFacts ==
  ASSUME NEW cf \in Requests
  PROVE  /\ cf.task \in {"generate", "beam_search"} /\ cf.pp \in Nat \ {0}
         /\ cf.threshold \in Int /\ cf.tokens_to_generate \in Nat
         /\ cf.task = "beam_search" => cf.tokens_to_generate > 0
         /\ cf.task = "generate" => cf.log_probs \in BOOLEAN /\ cf.early_termination \in BOOLEAN
         /\ cf.task = "generate" => cf.stop \in {"double_eol", "eol", "eod"}
         /\ Size(cf) \in Nat \ {0} /\ DOMAIN cf.prompts = 1 .. Size(cf)
         /\ \A b \in 1 .. Size(cf) : Len(cf.prompts[b]) \in Nat \ {0}
BY RequestsAssumption DEF Size

(* The first context is a pass over at least one position.                 *)
LEMMA LengthFacts ==
  ASSUME NEW cf \in Requests
  PROVE  /\ Longest(cf) \in Nat \ {0}
         /\ \A b \in 1 .. Size(cf) : Len(cf.prompts[b]) + cf.tokens_to_generate <= Longest(cf)
         /\ LET shortest == Min({Len(cf.prompts[b]) : b \in DOMAIN cf.prompts})
            IN  /\ shortest \in Nat \ {0}
                /\ shortest + cf.tokens_to_generate <= Longest(cf)
                /\ \A b \in 1 .. Size(cf) : shortest <= Len(cf.prompts[b])
<1> DEFINE L == {Len(cf.prompts[b]) : b \in DOMAIN cf.prompts}
           f == [b \in 1 .. Size(cf) |-> Len(cf.prompts[b])]
<1>1. /\ Size(cf) \in Nat \ {0} /\ DOMAIN cf.prompts = 1 .. Size(cf)
      /\ \A b \in 1 .. Size(cf) : Len(cf.prompts[b]) \in Nat \ {0}
      /\ cf.tokens_to_generate \in Nat
  BY RequestFacts, Zenon
<1>2. PICK i \in 1 .. Size(cf) : \A j \in 1 .. Size(cf) : f[j] <= f[i]
  <2>1. \A j \in 1 .. Size(cf) : f[j] \in Nat
    BY <1>1
  <2> HIDE DEF f
  <2>2. QED
    BY <1>1, <2>1, MaxExists
<1>3. \A x \in L : x \in Nat \ {0}
  BY <1>1
<1>4. L # {}
  BY <1>1
<1>5. PICK x \in L : \A y \in L : y <= x
  <2>1. f[i] \in L /\ \A y \in L : y <= f[i]
    BY <1>1, <1>2
  <2>2. QED
    BY <2>1
<1>6. Max(L) \in L /\ \A y \in L : y <= Max(L)
  BY <1>3, <1>5 DEF Max
<1>7. PICK w \in L : \A y \in L : w <= y
  BY <1>3, <1>4, LeastNat
<1>8. Min(L) \in L /\ \A y \in L : Min(L) <= y
  BY <1>3, <1>7 DEF Min
<1>9. \A b \in 1 .. Size(cf) : Len(cf.prompts[b]) \in L
  BY <1>1
<1>10. Longest(cf) = Max(L) + cf.tokens_to_generate
  BY Zenon DEF Longest
<1> HIDE DEF L
<1>11. Longest(cf) \in Nat \ {0}
  BY <1>1, <1>3, <1>6, <1>10
<1>12. ASSUME NEW b \in 1 .. Size(cf)
       PROVE  Len(cf.prompts[b]) + cf.tokens_to_generate <= Longest(cf)
  BY <1>1, <1>3, <1>6, <1>9, <1>10
<1>13. /\ Min(L) \in Nat \ {0}
       /\ Min(L) + cf.tokens_to_generate <= Longest(cf)
       /\ \A b \in 1 .. Size(cf) : Min(L) <= Len(cf.prompts[b])
  BY <1>1, <1>3, <1>6, <1>8, <1>9, <1>10
<1>14. QED
  BY <1>11, <1>12, <1>13 DEF L

(* The microbatches of a pass over n positions.                            *)
LEMMA MicroBatchFacts ==
  ASSUME NEW cf \in Requests, NEW n \in Nat \ {0}
  PROVE  /\ Full(cf, n) \in Nat \ {0} /\ Count(cf, n) \in Nat \ {0}
         /\ \A m \in Nat : m < Count(cf, n) =>
              /\ This(cf, n, m) \in Nat \ {0} /\ This(cf, n, m) <= Full(cf, n)
              /\ m * Full(cf, n) + This(cf, n, m) <= Size(cf)
              /\ m + 1 < Count(cf, n) => This(cf, n, m) = Full(cf, n)
              /\ m + 1 = Count(cf, n) => m * Full(cf, n) + This(cf, n, m) = Size(cf)
<1>1. /\ Size(cf) \in Nat \ {0} /\ cf.threshold \in Int /\ cf.pp \in Nat
  BY RequestFacts
<1>2. Full(cf, n) \in Nat \ {0}
  <2>1. cf.threshold \div n \in Int
    BY <1>1
  <2>2. Max({1, cf.threshold \div n}) \in Nat \ {0}
    <3>1. PICK t \in Int : t = cf.threshold \div n
      BY <2>1
    <3>2. Max({1, t}) = IF 1 >= t THEN 1 ELSE t
      BY MinMaxOfTwo
    <3>3. Max({1, t}) \in Nat \ {0}
      BY <3>2
    <3>4. QED
      BY <3>1, <3>3, Zenon
  <2>3. CASE cf.pp > 1 /\ Size(cf) * n >= cf.threshold
    <3>1. Full(cf, n) = Max({1, cf.threshold \div n})
      BY <2>3, Zenon DEF Full
    <3>2. QED
      BY <2>2, <3>1
  <2>4. CASE ~(cf.pp > 1 /\ Size(cf) * n >= cf.threshold)
    <3>1. Full(cf, n) = Size(cf)
      BY <2>4, Zenon DEF Full
    <3>2. QED
      BY <1>1, <3>1
  <2>5. QED
    BY <2>3, <2>4
<1>3. PICK full \in Nat \ {0}, size \in Nat \ {0} : full = Full(cf, n) /\ size = Size(cf)
  BY <1>1, <1>2
<1>4. Count(cf, n) = (size + full - 1) \div full
  BY <1>3 DEF Count
<1>5. /\ Count(cf, n) \in Nat \ {0}
      /\ \A m \in Nat : m < Count(cf, n) => m * full < size
      /\ \A m \in Nat : m + 1 < Count(cf, n) => (m + 1) * full < size
      /\ \A m \in Nat : m + 1 = Count(cf, n) => size <= (m + 1) * full
  BY <1>4, CountFacts
<1>6. ASSUME NEW m \in Nat, m < Count(cf, n)
      PROVE  /\ This(cf, n, m) \in Nat \ {0} /\ This(cf, n, m) <= Full(cf, n)
             /\ m * Full(cf, n) + This(cf, n, m) <= Size(cf)
             /\ m + 1 < Count(cf, n) => This(cf, n, m) = Full(cf, n)
             /\ m + 1 = Count(cf, n) => m * Full(cf, n) + This(cf, n, m) = Size(cf)
  <2>1. PICK at \in Nat : at = m * full
    OBVIOUS
  <2>2. (m + 1) * full = at + full
    BY <2>1
  <2>3. at < size
    BY <1>5, <1>6, <2>1
  <2>4. This(cf, n, m) = IF full <= size - at THEN full ELSE size - at
    BY <1>3, <2>1, MinMaxOfTwo DEF This
  <2>5. m + 1 < Count(cf, n) => at + full < size
    BY <1>5, <2>2
  <2>6. m + 1 = Count(cf, n) => size <= at + full
    BY <1>5, <2>2
  <2>7. QED
    BY <1>3, <2>1, <2>3, <2>4, <2>5, <2>6
<1>7. QED
  BY <1>2, <1>5, <1>6

-----------------------------------------------------------------------------
(* The operators of the model in terms of the request.                     *)

(* The sizes as the stages compute them.                                   *)
LEMMA SizesOf ==
  ASSUME NEW s
  PROVE  /\ Stage = Stages(conf) /\ FirstStage = 0 /\ LastStage = EndStage(conf)
         /\ Batch = DOMAIN conf.prompts /\ BatchSize = Size(conf) /\ MaxLen = Longest(conf)
         /\ MicroBatchSize(s) = Full(conf, s.context - s.prev)
         /\ NumMicroBatches(s) = Count(conf, s.context - s.prev)
         /\ ThisMicroBatchSize(s) = This(conf, s.context - s.prev, s.mb)
         /\ SeqLen(s) = s.context - s.prev
<1>1. /\ Stage = Stages(conf) /\ FirstStage = 0 /\ LastStage = EndStage(conf)
      /\ Batch = DOMAIN conf.prompts /\ BatchSize = Size(conf)
      /\ SeqLen(s) = s.context - s.prev
  BY DEF Stage, Stages, FirstStage, LastStage, EndStage, Batch, BatchSize, Size, SeqLen
<1>2. MaxLen = Longest(conf)
  BY Zenon DEF MaxLen, Longest, PromptLen, Batch
<1>3. MicroBatchSize(s) = Full(conf, s.context - s.prev)
  BY <1>1, Zenon DEF MicroBatchSize, IsPipelined, Full
<1>4. NumMicroBatches(s) = Count(conf, s.context - s.prev)
  BY <1>1, <1>3, Zenon DEF NumMicroBatches, Count
<1>5. ThisMicroBatchSize(s) = This(conf, s.context - s.prev, s.mb)
  BY <1>1, <1>3, Zenon DEF ThisMicroBatchSize, Start, This
<1>6. QED
  BY <1>1, <1>2, <1>3, <1>4, <1>5

(* The beginning and the end of a microbatch.                              *)
LEMMA BeginFacts ==
  ASSUME NEW r, NEW s, DOMAIN s = Fields
  PROVE  /\ DOMAIN BeginMicroBatch(r, s) = Fields
         /\ BeginMicroBatch(r, s).pc = IF r = 0 THEN "compute" ELSE "recv"
         /\ \A f \in Fields \ {"pc"} : BeginMicroBatch(r, s)[f] = s[f]
BY DEF BeginMicroBatch, FirstStage, Fields

(* The next microbatch starts behind this one; the last one ends the pass. *)
LEMMA EndFacts ==
  ASSUME NEW r, NEW s, DOMAIN s = Fields
  PROVE  /\ DOMAIN EndMicroBatch(r, s) = Fields
         /\ \A f \in Fields \ {"pc", "mb", "batch_size_offset", "sequence_len_offset"} :
              EndMicroBatch(r, s)[f] = s[f]
         /\ s.mb + 1 < NumMicroBatches(s) =>
              /\ EndMicroBatch(r, s).pc = IF r = 0 THEN "compute" ELSE "recv"
              /\ EndMicroBatch(r, s).mb = s.mb + 1
              /\ EndMicroBatch(r, s).batch_size_offset = s.batch_size_offset + ThisMicroBatchSize(s)
              /\ EndMicroBatch(r, s).sequence_len_offset = s.sequence_len_offset
         /\ ~(s.mb + 1 < NumMicroBatches(s)) =>
              /\ EndMicroBatch(r, s).pc = "forwarded" /\ EndMicroBatch(r, s).mb = 0
              /\ EndMicroBatch(r, s).batch_size_offset = 0
              /\ EndMicroBatch(r, s).sequence_len_offset = s.sequence_len_offset + SeqLen(s)
<1> DEFINE next == [s EXCEPT !.mb = @ + 1, !.batch_size_offset = @ + ThisMicroBatchSize(s)]
           last == [s EXCEPT !.mb = 0, !.pc = "forwarded", !.batch_size_offset = 0,
                             !.sequence_len_offset = @ + SeqLen(s)]
<1>1. CASE s.mb + 1 < NumMicroBatches(s)
  <2>1. EndMicroBatch(r, s) = BeginMicroBatch(r, next)
    BY <1>1, Zenon DEF EndMicroBatch
  <2>2. /\ DOMAIN next = Fields /\ next.mb = s.mb + 1
        /\ next.batch_size_offset = s.batch_size_offset + ThisMicroBatchSize(s)
        /\ \A f \in Fields \ {"mb", "batch_size_offset"} : next[f] = s[f]
    BY DEF Fields
  <2> HIDE DEF next
  <2>3. /\ DOMAIN BeginMicroBatch(r, next) = Fields
        /\ BeginMicroBatch(r, next).pc = IF r = 0 THEN "compute" ELSE "recv"
        /\ \A f \in Fields \ {"pc"} : BeginMicroBatch(r, next)[f] = next[f]
    BY <2>2, BeginFacts
  <2>4. QED
    BY <1>1, <2>1, <2>2, <2>3 DEF Fields
<1>2. CASE ~(s.mb + 1 < NumMicroBatches(s))
  <2>1. EndMicroBatch(r, s) = last
    BY <1>2, Zenon DEF EndMicroBatch
  <2>2. /\ DOMAIN last = Fields /\ last.mb = 0 /\ last.pc = "forwarded"
        /\ last.batch_size_offset = 0
        /\ last.sequence_len_offset = s.sequence_len_offset + SeqLen(s)
        /\ \A f \in Fields \ {"pc", "mb", "batch_size_offset", "sequence_len_offset"} :
             last[f] = s[f]
    BY DEF Fields
  <2> HIDE DEF last
  <2>3. QED
    BY <1>2, <2>1, <2>2
<1>3. QED
  BY <1>1, <1>2

-----------------------------------------------------------------------------
(* Steps between passes.                                                   *)

\* t is s at another program point, with other tokens and caches.
Moved(s, t) ==
  /\ DOMAIN t = DOMAIN s
  /\ \A f \in {"mb", "prev", "context", "batch_size_offset", "sequence_len_offset"} : t[f] = s[f]

(* A stage keeps what it knows when it goes on outside of a pass.          *)
LEMMA MovedStageOK ==
  ASSUME NEW cf, NEW r, NEW s, NEW t, StageOK(cf, r, s), Moved(s, t),
         s.pc \notin InPass, t.pc \notin InPass
  PROVE  StageOK(cf, r, t)
<1>1. /\ t.mb = s.mb /\ t.prev = s.prev /\ t.context = s.context
      /\ t.batch_size_offset = s.batch_size_offset
      /\ t.sequence_len_offset = s.sequence_len_offset /\ DOMAIN t = DOMAIN s
  BY DEF Moved
<1>2. t.pc # "recv" /\ t.pc # "send"
  BY DEF InPass
<1>3. QED
  BY <1>1, <1>2 DEF StageOK

(* Some stages go on outside of a pass.                                    *)
LEMMA QuietMoves ==
  ASSUME NEW cf, NEW rk, NEW rk2, StagesInv(cf, rk), DOMAIN rk2 = Stages(cf),
         \A r \in Stages(cf) :
           rk2[r] = rk[r] \/ (Moved(rk[r], rk2[r]) /\ rk[r].pc \notin InPass
                              /\ rk2[r].pc \notin InPass),
         SameSection(cf, rk2), EndsTogether(cf, rk2)
  PROVE  StagesInv(cf, rk2)
<1>1. ASSUME NEW r \in Stages(cf)
      PROVE  /\ StageOK(cf, r, rk2[r])
             /\ rk2[r].context = rk[r].context /\ rk2[r].prev = rk[r].prev
             /\ Sent(cf, rk2[r]) = Sent(cf, rk[r]) /\ Received(cf, rk2[r]) = Received(cf, rk[r])
  <2>1. StageOK(cf, r, rk[r])
    BY DEF StagesInv
  <2>2. CASE rk2[r] = rk[r]
    BY <2>1, <2>2
  <2>3. CASE rk2[r] # rk[r]
    <3>1. Moved(rk[r], rk2[r]) /\ rk[r].pc \notin InPass /\ rk2[r].pc \notin InPass
      BY <2>3
    <3>2. rk2[r].context = rk[r].context /\ rk2[r].prev = rk[r].prev
      BY <3>1 DEF Moved
    <3>3. "recv" \in InPass
      BY DEF InPass
    <3>4. Sent(cf, rk2[r]) = Sent(cf, rk[r]) /\ Received(cf, rk2[r]) = Received(cf, rk[r])
      BY <3>1, <3>2, <3>3 DEF Sent, Received
    <3>5. QED
      BY <2>1, <3>1, <3>2, <3>4, MovedStageOK
  <2>4. QED
    BY <2>2, <2>3
<1>2. SamePass(cf, rk2)
  BY <1>1 DEF StagesInv, SamePass
<1>3. Link(cf, rk2)
  BY <1>1 DEF StagesInv, Link
<1>4. QED
  BY <1>1, <1>2, <1>3 DEF StagesInv

(* A single stage goes on, to a program point of the same section that the *)
(* first and the last stage do not come to together.                       *)
LEMMA QuietMove ==
  ASSUME NEW cf, NEW rk, NEW rk2, NEW r \in Stages(cf), NEW t, StagesInv(cf, rk),
         rk2 = [rk EXCEPT ![r] = t], Moved(rk[r], t),
         rk[r].pc \notin InPass, t.pc \notin InPass,
         \A S \in Sections(cf) : rk[r].pc \in S => t.pc \in S,
         r \in {0, EndStage(cf)} =>
           \A p \in Together(cf) : rk[r].pc # p /\ t.pc # p
  PROVE  StagesInv(cf, rk2)
<1>1. /\ DOMAIN rk2 = Stages(cf) /\ rk2[r] = t
      /\ \A q \in Stages(cf) : q # r => rk2[q] = rk[q]
  BY DEF StagesInv
<1>2. SameSection(cf, rk2)
  <2>1. PICK S \in Sections(cf) : \A q \in Stages(cf) : rk[q].pc \in S
    BY DEF StagesInv, SameSection
  <2>2. \A q \in Stages(cf) : rk2[q].pc \in S
    BY <1>1, <2>1
  <2>3. QED
    BY <2>2 DEF SameSection
<1>3. EndsTogether(cf, rk2)
  <2>1. CASE r \in {0, EndStage(cf)}
    <3>1. \A q \in {0, EndStage(cf)} : rk2[q] = rk[q] \/ q = r
      BY <1>1 DEF StagesInv
    <3>2. ASSUME NEW p \in Together(cf) PROVE rk2[0].pc = p <=> rk2[EndStage(cf)].pc = p
      <4>1. rk[r].pc # p /\ t.pc # p
        BY <2>1
      <4>2. rk[0].pc = p <=> rk[EndStage(cf)].pc = p
        BY DEF StagesInv, EndsTogether
      <4>3. QED
        BY <1>1, <2>1, <3>1, <4>1, <4>2
    <3>3. QED
      BY <3>2 DEF EndsTogether
  <2>2. CASE r \notin {0, EndStage(cf)}
    <3>1. rk2[0] = rk[0] /\ rk2[EndStage(cf)] = rk[EndStage(cf)]
      BY <2>2
    <3>2. QED
      BY <3>1 DEF StagesInv, EndsTogether
  <2>3. QED
    BY <2>1, <2>2
<1>4. \A q \in Stages(cf) :
        rk2[q] = rk[q] \/ (Moved(rk[q], rk2[q]) /\ rk[q].pc \notin InPass
                           /\ rk2[q].pc \notin InPass)
  BY <1>1
<1>5. QED
  BY <1>1, <1>2, <1>3, <1>4, QuietMoves

(* After the broadcasts at the end of a turn of the loop, the next pass ... *)
LEMMA NextPass ==
  ASSUME NEW cf \in Requests, NEW rk, NEW rk2, StagesInv(cf, rk), DOMAIN rk2 = Stages(cf),
         cf.tokens_to_generate > 0,
         \A r \in Stages(cf) :
           /\ rk[r].pc \notin InPass /\ rk[r].context + 1 # Longest(cf)
           /\ DOMAIN rk2[r] = Fields /\ rk2[r].prev = rk[r].context
           /\ rk2[r].context = rk[r].context + 1
           /\ rk2[r].pc = IF r = 0 THEN "compute" ELSE "recv"
           /\ \A f \in {"mb", "batch_size_offset", "sequence_len_offset"} : rk2[r][f] = rk[r][f]
  PROVE  StagesInv(cf, rk2)
<1>1. cf.pp \in Nat \ {0} /\ Longest(cf) \in Nat
  BY RequestFacts, LengthFacts
<1>2. ASSUME NEW r \in Stages(cf)
      PROVE  /\ StageOK(cf, r, rk2[r]) /\ rk2[r].pc \in InPass /\ rk2[r].mb = 0
             /\ (r # 0 => rk2[r].pc = "recv")
  <2>1. /\ StageOK(cf, r, rk[r]) /\ rk[r].pc \notin InPass
        /\ rk2[r].mb = rk[r].mb /\ rk2[r].batch_size_offset = rk[r].batch_size_offset
        /\ rk2[r].sequence_len_offset = rk[r].sequence_len_offset
    BY DEF StagesInv
  <2>2. PICK c \in Nat : c = rk[r].context
    BY <2>1 DEF StageOK
  <2>3. /\ rk2[r].mb = 0 /\ rk2[r].batch_size_offset = 0 /\ rk2[r].sequence_len_offset = c
        /\ c < Longest(cf)
    BY <2>1, <2>2 DEF StageOK
  <2>4. rk2[r].prev = c /\ rk2[r].context = c + 1 /\ c + 1 < Longest(cf)
    BY <1>1, <2>2, <2>3
  <2>5. rk2[r].context - rk2[r].prev = 1
    BY <2>4
  <2>6. Count(cf, 1) \in Nat \ {0} /\ Full(cf, 1) \in Nat
    BY MicroBatchFacts
  <2>7. rk2[r].mb < Count(cf, 1) /\ rk2[r].batch_size_offset = rk2[r].mb * Full(cf, 1)
    BY <2>3, <2>6
  <2>8. rk2[r].pc \in InPass /\ rk2[r].pc # "send" /\ (r = 0 => rk2[r].pc # "recv")
        /\ (r # 0 => rk2[r].pc = "recv")
    BY DEF InPass
  <2>9. DOMAIN rk2[r] = Fields
    OBVIOUS
  <2>10. rk2[r].prev < rk2[r].context /\ rk2[r].context <= Longest(cf)
         /\ rk2[r].context < Longest(cf)
    BY <1>1, <2>4
  <2>11. QED
    BY <2>3, <2>4, <2>5, <2>7, <2>8, <2>9, <2>10 DEF StageOK
<1>3. SamePass(cf, rk2)
  <2>1. ASSUME NEW r \in Stages(cf), NEW s \in Stages(cf)
        PROVE  rk2[r].context = rk2[s].context /\ rk2[r].prev = rk2[s].prev
    <3>1. rk[r].context = rk[s].context
      BY DEF StagesInv, SamePass
    <3>2. QED
      BY <3>1
  <2>2. QED
    BY <2>1 DEF SamePass
<1>4. Link(cf, rk2)
  <2>1. ASSUME NEW r \in Stages(cf), r + 1 \in Stages(cf)
        PROVE  Sent(cf, rk2[r]) = Received(cf, rk2[r + 1])
    <3>1. r + 1 # 0
      BY <1>1, <2>1 DEF Stages
    <3>2. rk2[r + 1].pc = "recv" /\ rk2[r + 1].mb = 0
      BY <1>2, <2>1, <3>1
    <3>3. rk2[r].pc \in InPass /\ rk2[r].mb = 0
      BY <1>2
    <3>4. QED
      BY <3>2, <3>3 DEF Sent, Received
  <2>2. QED
    BY <2>1 DEF Link
<1>5. \A r \in Stages(cf) : rk2[r].pc \in {"compute", "recv"}
  OBVIOUS
<1>6. SameSection(cf, rk2)
  <2>1. \E S \in Sections(cf) : {"compute", "recv"} \subseteq S
    BY DEF Sections, Pass, InPass
  <2>2. QED
    BY <1>5, <2>1 DEF SameSection
<1>7. EndsTogether(cf, rk2)
  <2>1. "compute" \notin Together(cf) /\ "recv" \notin Together(cf)
    BY DEF Together
  <2>2. 0 \in Stages(cf) /\ EndStage(cf) \in Stages(cf)
    BY <1>1 DEF Stages, EndStage
  <2>3. QED
    BY <1>5, <2>1, <2>2 DEF EndsTogether
<1>8. QED
  BY <1>2, <1>3, <1>4, <1>6, <1>7 DEF StagesInv

(* ... or the end of the loop.                                             *)
LEMMA LeaveLoop ==
  ASSUME NEW cf \in Requests, NEW rk, NEW rk2, StagesInv(cf, rk), DOMAIN rk2 = Stages(cf),
         \A r \in Stages(cf) :
           /\ rk[r].pc \notin InPass /\ rk2[r].pc \notin InPass
           /\ DOMAIN rk2[r] = Fields /\ rk2[r].prev = rk[r].context
           /\ \A f \in {"mb", "context", "batch_size_offset", "sequence_len_offset"} :
                rk2[r][f] = rk[r][f],
         SameSection(cf, rk2), EndsTogether(cf, rk2)
  PROVE  StagesInv(cf, rk2)
<1>1. ASSUME NEW r \in Stages(cf) PROVE StageOK(cf, r, rk2[r])
  <2>1. /\ StageOK(cf, r, rk[r]) /\ rk[r].pc \notin InPass /\ rk2[r].pc \notin InPass
        /\ rk2[r].mb = rk[r].mb /\ rk2[r].batch_size_offset = rk[r].batch_size_offset
        /\ rk2[r].sequence_len_offset = rk[r].sequence_len_offset
        /\ rk2[r].context = rk[r].context /\ rk2[r].prev = rk[r].context
    BY DEF StagesInv
  <2>2. rk2[r].pc # "recv" /\ rk2[r].pc # "send" /\ DOMAIN rk2[r] = Fields
    BY <2>1 DEF InPass
  <2>3. QED
    BY <2>1, <2>2 DEF StageOK
<1>2. SamePass(cf, rk2)
  <2>1. ASSUME NEW r \in Stages(cf), NEW s \in Stages(cf)
        PROVE  rk2[r].context = rk2[s].context /\ rk2[r].prev = rk2[s].prev
    <3>1. rk[r].context = rk[s].context
      BY DEF StagesInv, SamePass
    <3>2. QED
      BY <3>1
  <2>2. QED
    BY <2>1 DEF SamePass
<1>3. Link(cf, rk2)
  <2>1. ASSUME NEW r \in Stages(cf), r + 1 \in Stages(cf)
        PROVE  Sent(cf, rk2[r]) = Received(cf, rk2[r + 1])
    <3>1. /\ rk2[r].context = rk2[r + 1].context /\ rk2[r].prev = rk2[r + 1].prev
      BY <1>2, <2>1 DEF SamePass
    <3>2. rk2[r].pc \notin InPass /\ rk2[r + 1].pc \notin InPass /\ "recv" \in InPass
      BY <2>1 DEF InPass
    <3>3. QED
      BY <3>1, <3>2 DEF Sent, Received
  <2>2. QED
    BY <2>1 DEF Link
<1>4. QED
  BY <1>1, <1>2, <1>3 DEF StagesInv

-----------------------------------------------------------------------------
(* Steps of a pass.                                                        *)

(* The end of a microbatch of a stage.                                     *)
LEMMA EndStageOK ==
  ASSUME conf \in Requests, NEW r \in Stages(conf), NEW s, StageOK(conf, r, s),
         s.pc \in InPass
  PROVE  LET t == EndMicroBatch(r, s)
         IN  /\ StageOK(conf, r, t) /\ t.context = s.context /\ t.prev = s.prev
             /\ t.pc \in {"recv", "compute", "forwarded"}
             /\ Sent(conf, t) = s.mb + 1
             /\ Received(conf, t) = s.mb + 1 + (IF t.pc = "compute" THEN 1 ELSE 0)
             /\ (t.pc = "compute" => r = 0)
<1> DEFINE t == EndMicroBatch(r, s)
           n == s.context - s.prev
<1>1. /\ DOMAIN s = Fields /\ s.mb \in Nat /\ s.prev \in Nat /\ s.context \in Nat
      /\ s.context <= Longest(conf)
      /\ conf.tokens_to_generate > 0 => s.context < Longest(conf)
      /\ s.prev < s.context /\ s.mb < Count(conf, n)
      /\ s.batch_size_offset = s.mb * Full(conf, n)
      /\ s.sequence_len_offset = s.prev
  BY DEF StageOK
<1>2. n \in Nat \ {0} /\ s.prev + n = s.context
  BY <1>1
<1>3. /\ Full(conf, n) \in Nat \ {0} /\ Count(conf, n) \in Nat \ {0}
      /\ s.mb + 1 < Count(conf, n) => This(conf, n, s.mb) = Full(conf, n)
  BY <1>1, <1>2, MicroBatchFacts
<1>4. /\ NumMicroBatches(s) = Count(conf, n)
      /\ ThisMicroBatchSize(s) = This(conf, n, s.mb) /\ SeqLen(s) = n
  BY SizesOf
<1>5. /\ DOMAIN t = Fields
      /\ t.prev = s.prev /\ t.context = s.context /\ t.output = s.output
      /\ s.mb + 1 < Count(conf, n) =>
           /\ t.pc = IF r = 0 THEN "compute" ELSE "recv"
           /\ t.mb = s.mb + 1
           /\ t.batch_size_offset = s.batch_size_offset + This(conf, n, s.mb)
           /\ t.sequence_len_offset = s.sequence_len_offset
      /\ ~(s.mb + 1 < Count(conf, n)) =>
           /\ t.pc = "forwarded" /\ t.mb = 0 /\ t.batch_size_offset = 0
           /\ t.sequence_len_offset = s.sequence_len_offset + n
  BY <1>1, <1>4, EndFacts DEF Fields
<1> HIDE DEF t, n
<1>7. t.context - t.prev = n
  BY <1>5 DEF n
<1>8. CASE s.mb + 1 < Count(conf, n)
  <2>1. /\ t.pc = IF r = 0 THEN "compute" ELSE "recv"
        /\ t.mb = s.mb + 1
        /\ t.batch_size_offset = s.mb * Full(conf, n) + Full(conf, n)
        /\ t.sequence_len_offset = s.prev
    BY <1>1, <1>3, <1>5, <1>8
  <2>2. s.mb * Full(conf, n) + Full(conf, n) = (s.mb + 1) * Full(conf, n)
    BY <1>1, <1>3
  <2>3. t.pc \in InPass /\ t.pc # "send" /\ (r = 0 => t.pc # "recv") /\ (t.pc = "compute" => r = 0)
    BY <2>1 DEF InPass
  <2>4. StageOK(conf, r, t)
    BY <1>1, <1>5, <1>7, <1>8, <2>1, <2>2, <2>3 DEF StageOK
  <2>5. Sent(conf, t) = s.mb + 1
    BY <2>1, <2>3 DEF Sent
  <2>6. Received(conf, t) = s.mb + 1 + (IF t.pc = "compute" THEN 1 ELSE 0)
    BY <1>1, <2>1, <2>3 DEF Received, InPass
  <2>7. QED
    BY <1>5, <2>1, <2>3, <2>4, <2>5, <2>6 DEF t
<1>9. CASE ~(s.mb + 1 < Count(conf, n))
  <2>1. /\ t.pc = "forwarded" /\ t.mb = 0 /\ t.batch_size_offset = 0
        /\ t.sequence_len_offset = s.context
    BY <1>1, <1>2, <1>5, <1>9
  <2>2. t.pc \notin InPass /\ t.pc # "recv" /\ t.pc # "send" /\ t.pc # "compute"
    BY <2>1 DEF InPass
  <2>3. StageOK(conf, r, t)
    BY <1>1, <1>5, <2>1, <2>2 DEF StageOK
  <2>4. Count(conf, n) = s.mb + 1
    BY <1>1, <1>3, <1>9
  <2>5. Sent(conf, t) = s.mb + 1 /\ Received(conf, t) = s.mb + 1
    BY <1>7, <2>2, <2>4 DEF Sent, Received
  <2>6. s.mb + 1 + 0 = s.mb + 1
    BY <1>1
  <2>7. QED
    BY <1>5, <2>1, <2>2, <2>3, <2>5, <2>6 DEF t
<1>10. QED
  BY <1>8, <1>9

(* The sections that a pass is part of.                                    *)
LEMMA PassSection ==
  ASSUME NEW cf
  PROVE  /\ \A S \in Sections(cf) : \A x \in Pass : x \in S => Pass \subseteq S
         /\ \A x \in Pass : x \notin Together(cf)
BY DEF Sections, Together, Pass, InPass

(* Some stages go on in a pass.                                            *)
LEMMA PassMoves ==
  ASSUME NEW cf \in Requests, NEW rk, NEW rk2, StagesInv(cf, rk), DOMAIN rk2 = Stages(cf),
         \A r \in Stages(cf) :
           rk2[r] = rk[r] \/ (/\ StageOK(cf, r, rk2[r])
                              /\ rk2[r].context = rk[r].context /\ rk2[r].prev = rk[r].prev
                              /\ rk[r].pc \in Pass /\ rk2[r].pc \in Pass),
         Link(cf, rk2)
  PROVE  StagesInv(cf, rk2)
<1>1. 0 \in Stages(cf) /\ EndStage(cf) \in Stages(cf)
  BY RequestFacts DEF Stages, EndStage
<1>2. \A r \in Stages(cf) : StageOK(cf, r, rk2[r])
  BY DEF StagesInv
<1>3. SamePass(cf, rk2)
  <2>1. \A r \in Stages(cf) : rk2[r].context = rk[r].context /\ rk2[r].prev = rk[r].prev
    OBVIOUS
  <2>2. QED
    BY <2>1 DEF StagesInv, SamePass
<1>4. SameSection(cf, rk2)
  <2>1. PICK S \in Sections(cf) : \A r \in Stages(cf) : rk[r].pc \in S
    BY DEF StagesInv, SameSection
  <2>2. \A r \in Stages(cf) : rk2[r].pc \in S
    BY <2>1, PassSection
  <2>3. QED
    BY <2>2 DEF SameSection
<1>5. EndsTogether(cf, rk2)
  <2>1. \A r \in Stages(cf) : \A p \in Together(cf) : rk2[r].pc = p <=> rk[r].pc = p
    BY PassSection
  <2>2. QED
    BY <1>1, <2>1 DEF StagesInv, EndsTogether
<1>6. QED
  BY <1>2, <1>3, <1>4, <1>5 DEF StagesInv

(* No assertion about a cache fails.                                       *)
LEMMA CacheAssertsHold ==
  ASSUME conf \in Requests, NEW r, NEW s, StageOK(conf, r, s), s.pc \in InPass
  PROVE  CacheAsserts(s)
<1> DEFINE n == s.context - s.prev
<1>1. /\ s.mb \in Nat /\ s.prev \in Nat /\ s.context \in Nat
      /\ s.context <= Longest(conf)
      /\ s.prev < s.context /\ s.mb < Count(conf, n)
      /\ s.batch_size_offset = s.mb * Full(conf, n)
      /\ s.sequence_len_offset = s.prev
  BY DEF StageOK
<1>2. n \in Nat \ {0} /\ s.prev + n = s.context
  BY <1>1
<1>3. s.mb * Full(conf, n) + This(conf, n, s.mb) <= Size(conf)
  BY <1>1, <1>2, MicroBatchFacts
<1>4. /\ BatchSize = Size(conf) /\ MaxLen = Longest(conf)
      /\ ThisMicroBatchSize(s) = This(conf, n, s.mb) /\ SeqLen(s) = n
  BY SizesOf
<1> HIDE DEF n
<1>5. QED
  BY <1>1, <1>2, <1>3, <1>4 DEF CacheAsserts

(* The output of a stage has the rows of its microbatch.                   *)
LEMMA OutputRows ==
  ASSUME conf \in Requests, NEW r, NEW s, StageOK(conf, r, s), s.pc \in InPass, NEW cache
  PROVE  /\ Len(Output(r, s, cache)) = This(conf, s.context - s.prev, s.mb)
         /\ DOMAIN Output(r, s, cache) = 1 .. This(conf, s.context - s.prev, s.mb)
<1> DEFINE n == s.context - s.prev
<1>1. s.mb \in Nat /\ s.mb < Count(conf, n) /\ n \in Nat \ {0}
  BY DEF StageOK
<1>2. This(conf, n, s.mb) \in Nat
  BY <1>1, MicroBatchFacts
<1>3. ThisMicroBatchSize(s) = This(conf, n, s.mb)
  BY SizesOf
<1>4. PICK k \in Nat : k = ThisMicroBatchSize(s)
  BY <1>2, <1>3
<1> HIDE DEF n
<1>5. Len(Output(r, s, cache)) = k /\ DOMAIN Output(r, s, cache) = 1 .. k
  BY <1>4 DEF Output
<1>6. QED
  BY <1>3, <1>4, <1>5 DEF n

(* A computation.                                                          *)
LEMMA ComputeKeeps ==
  ASSUME Inv, NEW r \in Stage, Compute(r)
  PROVE  StagesInv(conf, rank')
<1> DEFINE s == rank[r]
           cache == WrittenCache(r, s)
           output == Output(r, s, cache)
           t == [s EXCEPT !.cache = cache, !.allocated = TRUE]
           last == [t EXCEPT !.logits = (IF s.mb = 0 THEN <<>> ELSE @) \o output]
           other == [t EXCEPT !.output = output, !.pc = "send"]
           computed == IF r = LastStage THEN EndMicroBatch(r, last) ELSE other
<1>1. /\ conf \in Requests /\ r \in Stages(conf) /\ StageOK(conf, r, s) /\ s.pc = "compute"
      /\ DOMAIN s = Fields /\ DOMAIN rank = Stages(conf) /\ LastStage = EndStage(conf)
  BY SizesOf DEF Inv, StagesInv, StageOK, Compute
<1>2. s.pc \in InPass /\ s.pc \in Pass
  BY <1>1 DEF InPass, Pass
<1>3. rank' = [rank EXCEPT ![r] = computed]
  <2>1. CacheAsserts(s)
    BY <1>1, <1>2, CacheAssertsHold
  <2>2. QED
    BY <2>1, Zenon DEF Compute
<1>4. Len(output) = This(conf, s.context - s.prev, s.mb)
  <2> HIDE DEF cache, s
  <2>1. QED
    BY <1>1, <1>2, OutputRows
<1> HIDE DEF output, cache, s
<1>5. DOMAIN last = Fields /\ \A f \in Fields \ {"cache", "allocated", "logits"} : last[f] = s[f]
  BY <1>1 DEF Fields
<1>6. /\ DOMAIN other = Fields /\ other.pc = "send" /\ other.output = output
      /\ \A f \in Fields \ {"pc", "cache", "allocated", "output"} : other[f] = s[f]
  BY <1>1 DEF Fields
<1> HIDE DEF last, other
<1>7. StageOK(conf, r, last) /\ last.pc = "compute" /\ last.mb = s.mb
      /\ last.context = s.context /\ last.prev = s.prev
  <2>1. /\ last.pc = s.pc /\ last.mb = s.mb /\ last.context = s.context /\ last.prev = s.prev
        /\ last.batch_size_offset = s.batch_size_offset
        /\ last.sequence_len_offset = s.sequence_len_offset /\ last.output = s.output
    BY <1>5 DEF Fields
  <2>2. QED
    BY <1>1, <1>5, <2>1 DEF StageOK
<1>8. r # EndStage(conf) => StageOK(conf, r, other)
  <2>1. /\ other.mb = s.mb /\ other.context = s.context /\ other.prev = s.prev
        /\ other.batch_size_offset = s.batch_size_offset
        /\ other.sequence_len_offset = s.sequence_len_offset
    BY <1>6 DEF Fields
  <2>2. other.pc \in InPass /\ other.pc # "recv"
    BY <1>6 DEF InPass
  <2>3. QED
    BY <1>1, <1>2, <1>4, <1>6, <2>1, <2>2 DEF StageOK
<1>9. /\ StageOK(conf, r, computed)
      /\ computed.context = s.context /\ computed.prev = s.prev
      /\ computed.pc \in Pass
      /\ r # EndStage(conf) => Sent(conf, computed) = Sent(conf, s)
      /\ r # 0 => Received(conf, computed) = Received(conf, s)
  <2>1. CASE r = EndStage(conf)
    <3>1. computed = EndMicroBatch(r, last)
      BY <1>1, <2>1
    <3>2. last.pc \in InPass
      BY <1>7 DEF InPass
    <3> HIDE DEF computed
    <3>3. /\ StageOK(conf, r, computed) /\ computed.context = s.context
          /\ computed.prev = s.prev
          /\ computed.pc \in {"recv", "compute", "forwarded"}
          /\ Received(conf, computed) = s.mb + 1 + (IF computed.pc = "compute" THEN 1 ELSE 0)
          /\ (computed.pc = "compute" => r = 0)
      BY <1>1, <1>7, <3>1, <3>2, EndStageOK
    <3>4. s.mb \in Nat
      BY <1>1 DEF StageOK
    <3>5. r # 0 => Received(conf, computed) = s.mb + 1
      BY <3>3, <3>4
    <3>6. Received(conf, s) = s.mb + 1
      BY <1>1, <1>2 DEF Received
    <3>7. computed.pc \in Pass
      BY <3>3 DEF Pass, InPass
    <3>8. QED
      BY <2>1, <3>3, <3>5, <3>6, <3>7
  <2>2. CASE r # EndStage(conf)
    <3>1. computed = other
      BY <1>1, <2>2
    <3>2. other.pc \in InPass /\ other.pc \in Pass /\ other.pc # "recv"
      BY <1>6 DEF InPass, Pass
    <3>3. other.mb = s.mb /\ other.context = s.context /\ other.prev = s.prev
      BY <1>6 DEF Fields
    <3>4. Sent(conf, other) = s.mb /\ Sent(conf, s) = s.mb
      BY <1>2, <3>2, <3>3 DEF Sent
    <3>5. Received(conf, other) = s.mb + 1 /\ Received(conf, s) = s.mb + 1
      BY <1>1, <1>2, <3>2, <3>3 DEF Received
    <3>6. QED
      BY <1>8, <2>2, <3>1, <3>2, <3>3, <3>4, <3>5
  <2>3. QED
    BY <2>1, <2>2
<1> HIDE DEF computed
<1>10. /\ DOMAIN rank' = Stages(conf) /\ rank'[r] = computed
       /\ \A q \in Stages(conf) : q # r => rank'[q] = rank[q]
  BY <1>1, <1>3
<1>11. Link(conf, rank')
  <2>1. ASSUME NEW q \in Stages(conf), q + 1 \in Stages(conf)
        PROVE  Sent(conf, rank'[q]) = Received(conf, rank'[q + 1])
    <3>1. Sent(conf, rank[q]) = Received(conf, rank[q + 1])
      BY <2>1 DEF Inv, StagesInv, Link
    <3>2. q + 1 # q /\ q # EndStage(conf) /\ q + 1 # 0
      BY <1>1, <2>1, RequestFacts DEF Stages, EndStage
    <3>3. Sent(conf, rank'[q]) = Sent(conf, rank[q])
      BY <1>9, <1>10, <3>2 DEF s
    <3>4. Received(conf, rank'[q + 1]) = Received(conf, rank[q + 1])
      BY <1>9, <1>10, <2>1, <3>2 DEF s
    <3>5. QED
      BY <3>1, <3>3, <3>4
  <2>2. QED
    BY <2>1 DEF Link
<1>12. \A q \in Stages(conf) :
         rank'[q] = rank[q] \/ (/\ StageOK(conf, q, rank'[q])
                                /\ rank'[q].context = rank[q].context
                                /\ rank'[q].prev = rank[q].prev
                                /\ rank[q].pc \in Pass /\ rank'[q].pc \in Pass)
  BY <1>2, <1>9, <1>10 DEF s
<1>13. StagesInv(conf, rank)
  BY DEF Inv
<1>14. QED
  BY <1>1, <1>10, <1>11, <1>12, <1>13, PassMoves

(* A transfer.                                                             *)
LEMMA TransferFacts ==
  ASSUME Inv, NEW r \in Stage, Transfer(r)
  PROVE  /\ r \in Stages(conf) /\ r + 1 \in Stages(conf) /\ r # EndStage(conf)
         /\ rank[r].pc = "send" /\ rank[r + 1].pc = "recv"
         /\ DOMAIN rank' = Stages(conf) /\ rank'[r] = EndMicroBatch(r, rank[r])
         /\ DOMAIN rank'[r + 1] = Fields
         /\ rank'[r + 1].pc = "compute" /\ rank'[r + 1].recv_buffer = rank[r].output
         /\ \A f \in Fields \ {"pc", "recv_buffer"} : rank'[r + 1][f] = rank[r + 1][f]
         /\ \A q \in Stages(conf) : q # r /\ q # r + 1 => rank'[q] = rank[q]
<1> DEFINE ended == EndMicroBatch(r, rank[r])
           sent == rank[r].output
<1>1. /\ r \in Stages(conf) /\ r # EndStage(conf) /\ DOMAIN rank = Stages(conf)
      /\ rank[r].pc = "send" /\ rank[r + 1].pc = "recv"
  BY SizesOf DEF Inv, StagesInv, Transfer
<1>2. r \in Int /\ r + 1 # r /\ r + 1 \in Stages(conf)
  BY <1>1, RequestFacts DEF Stages, EndStage, Inv
<1>3. DOMAIN rank[r + 1] = Fields
  BY <1>2 DEF Inv, StagesInv, StageOK
<1>4. rank' = [rank EXCEPT ![r] = EndMicroBatch(r, @), ![r + 1].recv_buffer = rank[r].output,
                           ![r + 1].pc = "compute"]
  BY Zenon DEF Transfer
<1>5. rank' = [[[rank EXCEPT ![r] = ended] EXCEPT ![r + 1].recv_buffer = sent]
                 EXCEPT ![r + 1].pc = "compute"]
  BY <1>4
<1> HIDE DEF ended, sent
<1>6. /\ DOMAIN rank' = Stages(conf) /\ rank'[r] = ended
      /\ \A q \in Stages(conf) : q # r /\ q # r + 1 => rank'[q] = rank[q]
      /\ rank'[r + 1] = [[rank[r + 1] EXCEPT !.recv_buffer = sent] EXCEPT !.pc = "compute"]
  BY <1>1, <1>2, <1>5
<1>7. /\ DOMAIN rank'[r + 1] = Fields
      /\ rank'[r + 1].pc = "compute" /\ rank'[r + 1].recv_buffer = sent
      /\ \A f \in Fields \ {"pc", "recv_buffer"} : rank'[r + 1][f] = rank[r + 1][f]
  BY <1>3, <1>6 DEF Fields
<1>8. QED
  BY <1>1, <1>2, <1>6, <1>7 DEF ended, sent

(* A transfer, of the microbatch that the next stage expects.              *)
LEMMA TransferKeeps ==
  ASSUME Inv, NEW r \in Stage, Transfer(r)
  PROVE  StagesInv(conf, rank')
<1> DEFINE s == rank[r]
           u == rank[r + 1]
           s2 == rank'[r]
           u2 == rank'[r + 1]
<1>1. /\ r \in Stages(conf) /\ r + 1 \in Stages(conf) /\ r # EndStage(conf)
      /\ s.pc = "send" /\ u.pc = "recv"
      /\ DOMAIN rank' = Stages(conf) /\ s2 = EndMicroBatch(r, s)
      /\ DOMAIN u2 = Fields
      /\ u2.pc = "compute"
      /\ \A f \in Fields \ {"pc", "recv_buffer"} : u2[f] = u[f]
      /\ \A q \in Stages(conf) : q # r /\ q # r + 1 => rank'[q] = rank[q]
  BY TransferFacts
<1>2. /\ conf \in Requests /\ StageOK(conf, r, s) /\ StageOK(conf, r + 1, u)
      /\ StagesInv(conf, rank)
  BY <1>1 DEF Inv, StagesInv
<1>3. Sent(conf, s) = Received(conf, u)
  BY <1>1 DEF Inv, StagesInv, Link
<1> HIDE DEF s, u, s2, u2
<1>4. s.pc \in InPass /\ u.pc \in InPass /\ s.pc \in Pass /\ u.pc \in Pass
  BY <1>1 DEF InPass, Pass
<1>5. /\ StageOK(conf, r, s2) /\ s2.context = s.context /\ s2.prev = s.prev
      /\ s2.pc \in {"recv", "compute", "forwarded"}
      /\ Sent(conf, s2) = s.mb + 1
      /\ Received(conf, s2) = s.mb + 1 + (IF s2.pc = "compute" THEN 1 ELSE 0)
      /\ (s2.pc = "compute" => r = 0)
  BY <1>1, <1>2, <1>4, EndStageOK
<1>6. s.mb \in Nat /\ u.mb \in Nat
  BY <1>2 DEF StageOK
<1>7. s.mb = u.mb
  BY <1>1, <1>3, <1>4 DEF Sent, Received
<1>8. /\ u2.mb = u.mb /\ u2.context = u.context /\ u2.prev = u.prev
      /\ u2.batch_size_offset = u.batch_size_offset
      /\ u2.sequence_len_offset = u.sequence_len_offset
  BY <1>1 DEF Fields
<1>9. u2.pc \in InPass /\ u2.pc \in Pass /\ u2.pc # "recv" /\ u2.pc # "send" /\ s2.pc \in Pass
  BY <1>1, <1>5 DEF InPass, Pass
<1>10. StageOK(conf, r + 1, u2)
  BY <1>1, <1>2, <1>4, <1>8, <1>9 DEF StageOK
<1>11. Received(conf, u2) = s.mb + 1 /\ Sent(conf, u2) = Sent(conf, u)
  BY <1>4, <1>7, <1>8, <1>9 DEF Sent, Received
<1>12. r # 0 => Received(conf, s2) = Received(conf, s)
  <2>1. Received(conf, s) = s.mb + 1
    BY <1>1, <1>4 DEF Received
  <2>2. QED
    BY <1>5, <1>6, <2>1
<1>13. Link(conf, rank')
  <2>1. ASSUME NEW q \in Stages(conf), q + 1 \in Stages(conf)
        PROVE  Sent(conf, rank'[q]) = Received(conf, rank'[q + 1])
    <3>1. Sent(conf, rank[q]) = Received(conf, rank[q + 1])
      BY <1>2, <2>1 DEF StagesInv, Link
    <3>2. q \in Nat /\ r \in Nat
      BY <1>1, <1>2, RequestFacts DEF Stages
    <3>3. CASE q = r
      BY <1>5, <1>11, <3>3 DEF s2, u2
    <3>4. CASE q = r + 1
      <4>1. q + 1 # r /\ q + 1 # r + 1
        BY <3>2, <3>4
      <4>2. rank'[q + 1] = rank[q + 1]
        BY <1>1, <2>1, <4>1
      <4>3. QED
        BY <1>11, <3>1, <3>4, <4>2 DEF u, u2
    <3>5. CASE q + 1 = r
      <4>1. q # r /\ q # r + 1 /\ r # 0
        BY <3>2, <3>5
      <4>2. rank'[q] = rank[q]
        BY <1>1, <4>1
      <4>3. QED
        BY <1>12, <3>1, <3>5, <4>1, <4>2 DEF s, s2
    <3>6. CASE q # r /\ q # r + 1 /\ q + 1 # r
      <4>1. q + 1 # r + 1
        BY <3>2, <3>6
      <4>2. rank'[q] = rank[q] /\ rank'[q + 1] = rank[q + 1]
        BY <1>1, <2>1, <3>6, <4>1
      <4>3. QED
        BY <3>1, <4>2
    <3>7. QED
      BY <3>3, <3>4, <3>5, <3>6
  <2>2. QED
    BY <2>1 DEF Link
<1>14. \A q \in Stages(conf) :
         rank'[q] = rank[q] \/ (/\ StageOK(conf, q, rank'[q])
                                /\ rank'[q].context = rank[q].context
                                /\ rank'[q].prev = rank[q].prev
                                /\ rank[q].pc \in Pass /\ rank'[q].pc \in Pass)
  BY <1>1, <1>4, <1>5, <1>8, <1>9, <1>10 DEF s, u, s2, u2
<1>15. QED
  BY <1>1, <1>2, <1>13, <1>14, PassMoves

(* Sender and receiver mean the same microbatch.                           *)
LEMMA SizesMatchHere ==
  ASSUME Inv, NEW r \in Stage \ {LastStage}, rank[r].pc = "send", rank[r + 1].pc = "recv"
  PROVE  SizesMatch(r)
<1> DEFINE s == rank[r]
           u == rank[r + 1]
<1>1. r \in Stages(conf) /\ r # EndStage(conf) /\ conf \in Requests
  BY SizesOf DEF Inv
<1>2. r + 1 \in Stages(conf)
  BY <1>1, RequestFacts DEF Stages, EndStage
<1>3. /\ StageOK(conf, r, s) /\ StageOK(conf, r + 1, u)
      /\ s.context = u.context /\ s.prev = u.prev /\ Sent(conf, s) = Received(conf, u)
  BY <1>1, <1>2 DEF Inv, StagesInv, SamePass, Link
<1>4. s.pc \in InPass
  BY DEF InPass
<1>5. s.mb = u.mb
  BY <1>3, <1>4 DEF Sent, Received
<1>6. Len(s.output) = This(conf, s.context - s.prev, s.mb)
  BY <1>3 DEF StageOK
<1>7. /\ ThisMicroBatchSize(u) = This(conf, u.context - u.prev, u.mb)
      /\ ThisMicroBatchSize(u) = RecvBufferRows(u)
  BY SizesOf DEF RecvBufferRows
<1>8. QED
  BY <1>3, <1>5, <1>6, <1>7 DEF SizesMatch

-----------------------------------------------------------------------------
(* Calls outside of the passes.                                            *)

(* A stage whose program point changes, and its tokens, has moved.         *)
LEMMA MovedByPc ==
  ASSUME NEW s, DOMAIN s = Fields, NEW p
  PROVE  /\ Moved(s, [s EXCEPT !.pc = p]) /\ [s EXCEPT !.pc = p].pc = p
         /\ DOMAIN [s EXCEPT !.pc = p] = Fields
BY DEF Moved, Fields

(* So has one whose tokens change as well.                                 *)
LEMMA MovedByTokens ==
  ASSUME NEW s, DOMAIN s = Fields, NEW p, NEW tokens
  PROVE  /\ Moved(s, [s EXCEPT !.tokens = tokens, !.pc = p])
         /\ [s EXCEPT !.tokens = tokens, !.pc = p].pc = p
         /\ [s EXCEPT !.tokens = tokens, !.pc = p].tokens = tokens
         /\ DOMAIN [s EXCEPT !.tokens = tokens, !.pc = p] = Fields
BY DEF Moved, Fields

(* A collective of the first and the last stage.                           *)
LEMMA GroupMoves ==
  ASSUME NEW cf \in Requests, NEW rk, NEW rk2, StagesInv(cf, rk), DOMAIN rk2 = Stages(cf),
         NEW op, NEW op2, op \notin InPass, op2 \notin InPass,
         \A r \in Stages(cf) :
           IF r \in {0, EndStage(cf)}
           THEN rk[r].pc = op /\ rk2[r].pc = op2 /\ Moved(rk[r], rk2[r])
           ELSE rk2[r] = rk[r],
         \A S \in Sections(cf) : op \in S => op2 \in S
  PROVE  StagesInv(cf, rk2)
<1>1. 0 \in Stages(cf) /\ EndStage(cf) \in Stages(cf)
  BY RequestFacts DEF Stages, EndStage
<1>2. rk2[0].pc = op2 /\ rk2[EndStage(cf)].pc = op2
  BY <1>1
<1>3. EndsTogether(cf, rk2)
  BY <1>2 DEF EndsTogether
<1>4. SameSection(cf, rk2)
  <2>1. PICK S \in Sections(cf) : \A r \in Stages(cf) : rk[r].pc \in S
    BY DEF StagesInv, SameSection
  <2>2. \A r \in Stages(cf) : rk2[r].pc \in S
    BY <2>1
  <2>3. QED
    BY <2>2 DEF SameSection
<1>5. QED
  BY <1>3, <1>4, QuietMoves

(* The group of a collective.                                              *)
LEMMA Groups ==
  ASSUME NEW op
  PROVE  /\ op \in EmbeddingOps => Group(op) = {0, EndStage(conf)}
         /\ op \notin EmbeddingOps => Group(op) = Stages(conf)
BY SizesOf DEF Group

(* Stages that have gone on have not failed, and wait in the same calls.   *)
LEMMA InvImpliesMatch ==
  ASSUME Inv
  PROVE  CollectivesMatch
<1>1. conf \in Requests /\ StagesInv(conf, rank)
  BY DEF Inv
<1>2. Stage = Stages(conf) /\ LastStage = EndStage(conf) /\ FirstStage = 0
  BY SizesOf
<1>3. PICK S \in Sections(conf) : \A r \in Stages(conf) : rank[r].pc \in S
  BY <1>1 DEF StagesInv, SameSection
<1>4. \A r \in Stage : rank[r].pc # "failed"
  BY <1>2, <1>3 DEF Sections, Pass, InPass
<1>5. \A r \in Stage \ {LastStage} :
        rank[r].pc = "send" /\ rank[r + 1].pc = "recv" => SizesMatch(r)
  BY SizesMatchHere
<1>6. \A r, s \in Stages(conf) : rank[r].context = rank[s].context
  BY <1>1 DEF StagesInv, SamePass
<1>7. \A p \in Together(conf) : rank[0].pc = p <=> rank[EndStage(conf)].pc = p
  BY <1>1 DEF StagesInv, EndsTogether
<1>8. Agree(EmbeddingOps)
  <2>1. ASSUME NEW r1 \in Stage, NEW r2 \in Stage,
               rank[r1].pc \in EmbeddingOps, rank[r2].pc \in EmbeddingOps,
               {r1, r2} \subseteq Group(rank[r1].pc)
        PROVE  rank[r1].pc = rank[r2].pc /\ rank[r1].context = rank[r2].context
    <3>1. r1 \in {0, EndStage(conf)} /\ r2 \in {0, EndStage(conf)}
      BY <2>1, Groups
    <3>2. rank[r1].context = rank[r2].context
      BY <1>2, <1>6
    <3>3. rank[0].pc \in S /\ rank[EndStage(conf)].pc \in S
      BY <1>2, <1>3, <3>1, RequestFacts, <1>1 DEF Stages, EndStage
    <3>4. CASE rank[r1].pc \in Together(conf) \/ rank[r2].pc \in Together(conf)
      BY <1>7, <3>1, <3>2, <3>4
    <3>5. CASE rank[r1].pc \notin Together(conf) /\ rank[r2].pc \notin Together(conf)
      <4>1. rank[r1].pc \in S /\ rank[r2].pc \in S
        BY <1>2, <1>3
      <4>2. rank[r1].pc = rank[r2].pc
        BY <2>1, <3>5, <4>1 DEF Sections, Together, EmbeddingOps, Pass, InPass
      <4>3. QED
        BY <3>2, <4>2
    <3>6. QED
      BY <3>4, <3>5
  <2>2. QED
    BY <2>1 DEF Agree
<1>9. Agree(PipelineOps)
  <2>1. ASSUME NEW r1 \in Stage, NEW r2 \in Stage,
               rank[r1].pc \in PipelineOps, rank[r2].pc \in PipelineOps
        PROVE  rank[r1].pc = rank[r2].pc /\ rank[r1].context = rank[r2].context
    <3>1. rank[r1].pc \in S /\ rank[r2].pc \in S
      BY <1>2, <1>3
    <3>2. rank[r1].pc = rank[r2].pc
      BY <2>1, <3>1 DEF Sections, PipelineOps, Pass, InPass
    <3>3. QED
      BY <1>2, <1>6, <3>2
  <2>2. QED
    BY <2>1 DEF Agree
<1>10. QED
  BY <1>4, <1>5, <1>8, <1>9 DEF CollectivesMatch

(* A step of one stage to another program point of the same section.       *)
LEMMA StageGoesOn ==
  ASSUME Inv, NEW r \in Stages(conf), NEW t, rank' = [rank EXCEPT ![r] = t],
         Moved(rank[r], t), rank[r].pc \notin InPass, t.pc \notin InPass,
         \A S \in Sections(conf) : rank[r].pc \in S => t.pc \in S,
         r \in {0, EndStage(conf)} =>
           \A p \in Together(conf) : rank[r].pc # p /\ t.pc # p
  PROVE  StagesInv(conf, rank')
<1>1. StagesInv(conf, rank)
  BY DEF Inv
<1> DEFINE rk == rank
           rk2 == rank'
<1>2. StagesInv(conf, rk) /\ rk2 = [rk EXCEPT ![r] = t]
  BY <1>1
<1>3. Moved(rk[r], t) /\ rk[r].pc \notin InPass
      /\ (\A S \in Sections(conf) : rk[r].pc \in S => t.pc \in S)
      /\ (r \in {0, EndStage(conf)} => \A p \in Together(conf) : rk[r].pc # p /\ t.pc # p)
  OBVIOUS
<1> HIDE DEF rk, rk2
<1>4. StagesInv(conf, rk2)
  BY <1>2, <1>3, QuietMove
<1>5. QED
  BY <1>4 DEF rk2

(* The sections of a generation.                                           *)
LEMMA GenerateSections ==
  ASSUME conf \in Requests, conf.task = "generate"
  PROVE  /\ ToGenerate => /\ Sections(conf) = {Pass \cup {"copy", "done"},
                                              {"lengths", "log_probs", "raised", "returned"}}
                          /\ Together(conf) = {"done", "lengths", "returned"}
         /\ ~ToGenerate => /\ Sections(conf) = {Pass \cup {"log_probs", "returned"}}
                           /\ Together(conf) = {"returned"}
         /\ ToGenerate <=> conf.tokens_to_generate > 0
BY DEF Sections, Together, ToGenerate

(* The end of a forward pass, on the last stage and on the others.         *)
LEMMA GenerateResults ==
  ASSUME Inv, conf.task = "generate",
         Sample \/ Score \/ (\E r \in Stage : NoLogits(r))
  PROVE  StagesInv(conf, rank')
<1>1. /\ conf \in Requests /\ DOMAIN rank = Stages(conf)
      /\ \A r \in Stages(conf) : DOMAIN rank[r] = Fields
      /\ Stage = Stages(conf) /\ LastStage = EndStage(conf) /\ EndStage(conf) \in Stages(conf)
  <2>1. conf \in Requests /\ StagesInv(conf, rank)
    BY DEF Inv
  <2>2. EndStage(conf) \in Stages(conf)
    BY <2>1, RequestFacts DEF Stages, EndStage
  <2>3. Stage = Stages(conf) /\ LastStage = EndStage(conf)
    BY SizesOf
  <2>4. QED
    BY <2>1, <2>2, <2>3 DEF StagesInv, StageOK
<1>2. /\ "forwarded" \notin InPass /\ "copy" \notin InPass /\ "log_probs" \notin InPass
      /\ "forwarded" \in Pass
  BY DEF InPass, Pass
<1>3. CASE Sample
  <2>1. PICK tokens :
          rank' = [rank EXCEPT ![LastStage].tokens = tokens, ![LastStage].pc = "copy"]
    BY <1>3 DEF Sample
  <2> DEFINE s == rank[EndStage(conf)]
             t == [s EXCEPT !.tokens = tokens, !.pc = "copy"]
  <2>2. s.pc = "forwarded" /\ ToGenerate
    BY <1>1, <1>3 DEF Sample
  <2>3. rank' = [rank EXCEPT ![EndStage(conf)] = t]
    BY <1>1, <2>1
  <2>4. Moved(s, t) /\ t.pc = "copy"
    <3>1. PICK v : v = s /\ DOMAIN v = Fields
      BY <1>1
    <3>2. PICK w : w = [v EXCEPT !.tokens = tokens, !.pc = "copy"]
      OBVIOUS
    <3>3. Moved(v, w) /\ w.pc = "copy"
      BY <3>1, <3>2 DEF Moved, Fields
    <3>4. w = t
      BY <3>1, <3>2
    <3>5. QED
      BY <3>1, <3>3, <3>4
  <2> HIDE DEF t
  <2>5. \A S \in Sections(conf) : s.pc \in S => t.pc \in S
    BY <1>1, <2>2, <2>4, GenerateSections
  <2>6. \A p \in Together(conf) : s.pc # p /\ t.pc # p
    BY <1>1, <2>2, <2>4, GenerateSections
  <2>7. QED
    BY <1>1, <1>2, <2>2, <2>3, <2>4, <2>5, <2>6, StageGoesOn
<1>4. CASE Score
  <2> DEFINE s == rank[EndStage(conf)]
             t == [s EXCEPT !.pc = "log_probs"]
  <2>1. rank' = [rank EXCEPT ![LastStage].pc = "log_probs"]
    BY <1>4 DEF Score
  <2>2. s.pc = "forwarded" /\ ~ToGenerate
    BY <1>1, <1>4 DEF Score
  <2>3. rank' = [rank EXCEPT ![EndStage(conf)] = t]
    BY <1>1, <2>1
  <2>4. Moved(s, t) /\ t.pc = "log_probs"
    BY <1>1, MovedByPc
  <2> HIDE DEF t
  <2>5. \A S \in Sections(conf) : s.pc \in S => t.pc \in S
    BY <1>1, <2>2, <2>4, GenerateSections
  <2>6. \A p \in Together(conf) : s.pc # p /\ t.pc # p
    BY <1>1, <2>2, <2>4, GenerateSections
  <2>7. QED
    BY <1>1, <1>2, <2>2, <2>3, <2>4, <2>5, <2>6, StageGoesOn
<1>5. ASSUME NEW r \in Stage, NoLogits(r) PROVE StagesInv(conf, rank')
  <2> DEFINE s == rank[r]
             p == IF ToGenerate THEN "copy" ELSE "log_probs"
             t == [s EXCEPT !.pc = p]
  <2>1. rank' = [rank EXCEPT ![r].pc = IF ToGenerate THEN "copy" ELSE "log_probs"]
    BY <1>5 DEF NoLogits
  <2>2. s.pc = "forwarded"
    BY <1>5 DEF NoLogits
  <2>3. rank' = [rank EXCEPT ![r] = t]
    BY <1>1, <2>1
  <2> HIDE DEF p
  <2>4. Moved(s, t) /\ t.pc = p
    BY <1>1, MovedByPc
  <2> HIDE DEF t
  <2>5. \A S \in Sections(conf) : s.pc \in S => t.pc \in S
    BY <1>1, <2>2, <2>4, GenerateSections DEF p
  <2>6. \A x \in Together(conf) : s.pc # x /\ t.pc # x
    BY <1>1, <2>2, <2>4, GenerateSections DEF p
  <2>7. t.pc \notin InPass
    BY <1>2, <2>4 DEF p
  <2>8. QED
    BY <1>1, <1>2, <2>2, <2>3, <2>4, <2>5, <2>6, <2>7, StageGoesOn
<1>6. QED
  BY <1>3, <1>4, <1>5

(* What follows a collective is in the same section.                       *)
LEMMA GenerateAfter ==
  ASSUME conf \in Requests, conf.task = "generate", NEW op \in EmbeddingOps
  PROVE  /\ After(op) \notin InPass /\ op \notin InPass
         /\ \A S \in Sections(conf) : op \in S => After(op) \in S
<1>1. After(op) \in {"done", "log_probs", "returned"}
      /\ (After(op) = "done" <=> op = "copy")
      /\ (After(op) = "log_probs" => op = "lengths")
  <2>1. CASE op = "copy"
    BY <2>1 DEF After
  <2>2. CASE op # "copy" /\ op = "lengths" /\ conf.log_probs
    BY <2>2 DEF After
  <2>3. CASE op # "copy" /\ ~(op = "lengths" /\ conf.log_probs)
    BY <2>3 DEF After
  <2>4. QED
    BY <2>1, <2>2, <2>3
<1>2. op \in {"copy", "lengths", "log_probs", "scores", "tokens"}
  BY DEF EmbeddingOps
<1>3. QED
  BY <1>1, <1>2, GenerateSections DEF InPass, Pass

(* A stage between the first and the last goes past their collectives.     *)
LEMMA GenerateSkip ==
  ASSUME Inv, conf.task = "generate", NEW r \in Stage, Skip(r)
  PROVE  StagesInv(conf, rank')
<1>1. /\ conf \in Requests /\ DOMAIN rank = Stages(conf) /\ Stage = Stages(conf)
      /\ \A q \in Stages(conf) : DOMAIN rank[q] = Fields
  BY SizesOf DEF Inv, StagesInv, StageOK
<1> DEFINE s == rank[r]
           t == [s EXCEPT !.pc = After(s.pc)]
<1>2. s.pc \in EmbeddingOps /\ r \notin {0, EndStage(conf)}
  BY Groups DEF Skip, SkipsGroup
<1>3. rank' = [rank EXCEPT ![r].pc = After(@)]
  BY DEF Skip
<1>4. rank' = [rank EXCEPT ![r] = t]
  BY <1>1, <1>3
<1>5. Moved(s, t) /\ t.pc = After(s.pc)
  BY <1>1, MovedByPc
<1> HIDE DEF t
<1>6. t.pc \notin InPass /\ s.pc \notin InPass
      /\ \A S \in Sections(conf) : s.pc \in S => t.pc \in S
  BY <1>1, <1>2, <1>5, GenerateAfter
<1>7. QED
  BY <1>1, <1>2, <1>4, <1>5, <1>6, StageGoesOn

(* The last stage stops at an assertion.                                   *)
LEMMA GenerateAsserts ==
  ASSUME Inv, conf.task = "generate", AssertContiguous
  PROVE  StagesInv(conf, rank')
<1>1. /\ conf \in Requests /\ DOMAIN rank = Stages(conf)
      /\ \A r \in Stages(conf) : DOMAIN rank[r] = Fields
      /\ LastStage = EndStage(conf) /\ EndStage(conf) \in Stages(conf)
  <2>1. conf \in Requests /\ StagesInv(conf, rank)
    BY DEF Inv
  <2>2. EndStage(conf) \in Stages(conf)
    BY <2>1, RequestFacts DEF Stages, EndStage
  <2>3. LastStage = EndStage(conf)
    BY SizesOf
  <2>4. QED
    BY <2>1, <2>2, <2>3 DEF StagesInv, StageOK
<1>2. PICK r \in Stages(conf) : r = EndStage(conf)
  BY <1>1
<1> DEFINE s == rank[r]
           t == [s EXCEPT !.pc = "raised"]
<1>3. s.pc = "log_probs" /\ ToGenerate
  BY <1>1, <1>2 DEF AssertContiguous, Contiguous
<1>4. rank' = [rank EXCEPT ![r] = t]
  BY <1>1, <1>2 DEF AssertContiguous
<1>5. Moved(s, t) /\ t.pc = "raised"
  BY <1>1, MovedByPc
<1> HIDE DEF t
<1>6. t.pc \notin InPass /\ s.pc \notin InPass
      /\ (\A S \in Sections(conf) : s.pc \in S => t.pc \in S)
      /\ \A p \in Together(conf) : s.pc # p /\ t.pc # p
  BY <1>1, <1>3, <1>5, GenerateSections DEF InPass, Pass
<1>7. QED
  BY <1>4, <1>5, <1>6, StageGoesOn

\* A collective of the first and the last stage that only moves them.
GroupGoesOn(op) ==
  /\ \A r \in Stages(conf) :
       IF r \in {0, EndStage(conf)}
       THEN rank[r].pc = op /\ rank'[r].pc = After(op) /\ Moved(rank[r], rank'[r])
       ELSE rank'[r] = rank[r]
  /\ DOMAIN rank' = Stages(conf)

(* The first and the last stage leave a collective together.               *)
LEMMA GenerateGroup ==
  ASSUME Inv, conf.task = "generate", NEW op \in EmbeddingOps, GroupGoesOn(op)
  PROVE  StagesInv(conf, rank')
<1>1. conf \in Requests /\ StagesInv(conf, rank)
  BY DEF Inv
<1> DEFINE rk == rank
           rk2 == rank'
           op2 == After(op)
<1>2. /\ StagesInv(conf, rk) /\ DOMAIN rk2 = Stages(conf)
      /\ \A r \in Stages(conf) :
           IF r \in {0, EndStage(conf)}
           THEN rk[r].pc = op /\ rk2[r].pc = op2 /\ Moved(rk[r], rk2[r])
           ELSE rk2[r] = rk[r]
  BY <1>1 DEF GroupGoesOn
<1>3. op \notin InPass /\ op2 \notin InPass /\ \A S \in Sections(conf) : op \in S => op2 \in S
  BY <1>1, GenerateAfter
<1> HIDE DEF rk, rk2, op2
<1>4. StagesInv(conf, rk2)
  BY <1>1, <1>2, <1>3, GroupMoves
<1>5. QED
  BY <1>4 DEF rk2

(* The copy of a column, and the results.                                  *)
LEMMA GenerateGroups ==
  ASSUME Inv, conf.task = "generate", CopyToFirst \/ ReturnLengths \/ ReturnLogProbs
  PROVE  StagesInv(conf, rank')
<1>1. /\ Stage = Stages(conf)
      /\ \A r \in Stages(conf) : DOMAIN rank[r] = Fields
      /\ "copy" \in EmbeddingOps /\ "lengths" \in EmbeddingOps /\ "log_probs" \in EmbeddingOps
  BY SizesOf DEF Inv, StagesInv, StageOK, EmbeddingOps
<1>2. \A op \in EmbeddingOps : Group(op) = {0, EndStage(conf)}
  BY Groups
<1>3. ASSUME NEW op \in EmbeddingOps, Meet(op),
             rank' = [r \in Stage |-> IF r \in Group(op)
                                      THEN [rank[r] EXCEPT !.pc = After(op)] ELSE rank[r]]
      PROVE  GroupGoesOn(op)
  <2>1. ASSUME NEW r \in Stages(conf), r \in {0, EndStage(conf)}
        PROVE  rank[r].pc = op /\ rank'[r].pc = After(op) /\ Moved(rank[r], rank'[r])
    <3>1. rank'[r] = [rank[r] EXCEPT !.pc = After(op)] /\ rank[r].pc = op
      BY <1>1, <1>2, <1>3, <2>1 DEF Meet
    <3>2. PICK s : s = rank[r] /\ DOMAIN s = Fields
      BY <1>1
    <3>3. Moved(s, [s EXCEPT !.pc = After(op)]) /\ [s EXCEPT !.pc = After(op)].pc = After(op)
      BY <3>2, MovedByPc
    <3>4. rank'[r] = [s EXCEPT !.pc = After(op)]
      BY <3>1, <3>2
    <3>5. QED
      BY <3>1, <3>2, <3>3, <3>4
  <2>2. \A r \in Stages(conf) : r \notin {0, EndStage(conf)} => rank'[r] = rank[r]
    BY <1>1, <1>2, <1>3
  <2>3. DOMAIN rank' = Stages(conf)
    BY <1>1, <1>3
  <2>4. QED
    BY <2>1, <2>2, <2>3 DEF GroupGoesOn
<1>4. CASE CopyToFirst
  <2>1. ASSUME NEW r \in Stages(conf), r \in {0, EndStage(conf)}
        PROVE  rank[r].pc = "copy" /\ rank'[r].pc = After("copy") /\ Moved(rank[r], rank'[r])
    <3>1. /\ rank'[r] = [rank[r] EXCEPT !.tokens = Copied(r), !.pc = After("copy")]
          /\ rank[r].pc = "copy"
      BY <1>1, <1>2, <1>4, <2>1 DEF CopyToFirst, Meet
    <3>2. PICK s, t : s = rank[r] /\ DOMAIN s = Fields /\ t = Copied(r)
      BY <1>1
    <3>3. PICK op2, u : op2 = After("copy") /\ u = [s EXCEPT !.tokens = t, !.pc = op2]
      OBVIOUS
    <3>4. Moved(s, u) /\ u.pc = op2
      BY <3>2, <3>3 DEF Moved, Fields
    <3>5. rank'[r] = u
      BY <3>1, <3>2, <3>3
    <3>6. QED
      BY <3>1, <3>2, <3>3, <3>4, <3>5
  <2>2. \A r \in Stages(conf) : r \notin {0, EndStage(conf)} => rank'[r] = rank[r]
    BY <1>1, <1>2, <1>4 DEF CopyToFirst
  <2>3. DOMAIN rank' = Stages(conf)
    BY <1>1, <1>4 DEF CopyToFirst
  <2>4. GroupGoesOn("copy")
    BY <2>1, <2>2, <2>3 DEF GroupGoesOn
  <2>5. QED
    BY <1>1, <2>4, GenerateGroup
<1>5. CASE ReturnLengths
  <2>1. GroupGoesOn("lengths")
    BY <1>1, <1>3, <1>5 DEF ReturnLengths
  <2>2. QED
    BY <1>1, <2>1, GenerateGroup
<1>6. CASE ReturnLogProbs
  <2>1. GroupGoesOn("log_probs")
    BY <1>1, <1>3, <1>6 DEF ReturnLogProbs
  <2>2. QED
    BY <1>1, <2>1, GenerateGroup
<1>7. QED
  BY <1>4, <1>5, <1>6

(* At the end of a turn all stages leave the loop, or none of them.        *)
LEMMA GenerateTurn ==
  ASSUME Inv, conf.task = "generate", BroadcastDone
  PROVE  StagesInv(conf, rank')
<1> DEFINE rk == rank
           rk2 == rank'
<1>1. conf \in Requests /\ StagesInv(conf, rk)
  BY DEF Inv
<1>2. /\ Stage = Stages(conf) /\ MaxLen = Longest(conf)
      /\ 0 \in Stages(conf) /\ EndStage(conf) \in Stages(conf)
  BY <1>1, SizesOf, RequestFacts DEF Stages, EndStage
<1>3. \A r \in Stages(conf) : rank[r].pc = "done"
  BY <1>2, Groups DEF BroadcastDone, Meet, EmbeddingOps
<1>4. rank' = [r \in Stage |->
                 LET s == [rank[r] EXCEPT !.prev = rank[r].context]
                 IN IF LeavesLoop(r) THEN [s EXCEPT !.pc = "lengths"]
                    ELSE BeginMicroBatch(r, [s EXCEPT !.context = @ + 1])]
  BY DEF BroadcastDone
<1>5. DOMAIN rk2 = Stages(conf)
  BY <1>2, <1>4
<1>6. PICK c \in Nat : \A r \in Stages(conf) : rk[r].context = c
  <2>1. rk[0].context \in Nat
    BY <1>1, <1>2 DEF StagesInv, StageOK
  <2>2. \A r \in Stages(conf) : rk[r].context = rk[0].context
    BY <1>1, <1>2 DEF StagesInv, SamePass
  <2>3. QED
    BY <2>1, <2>2
<1>7. PICK leave \in BOOLEAN :
        leave <=> \/ conf.early_termination /\ answer[LastStage].finished = Batch
                  \/ c + 1 = Longest(conf)
  OBVIOUS
<1>8. \A r \in Stages(conf) : LeavesLoop(r) <=> leave
  BY <1>2, <1>6, <1>7 DEF LeavesLoop
<1>9. \A r \in Stages(conf) : DOMAIN rk[r] = Fields
  BY <1>1 DEF StagesInv, StageOK
<1>10. ToGenerate
  <2>1. PICK S \in Sections(conf) : \A r \in Stages(conf) : rank[r].pc \in S
    BY <1>1 DEF StagesInv, SameSection
  <2>2. "done" \in S
    BY <1>2, <1>3, <2>1
  <2>3. QED
    BY <1>1, <2>2, GenerateSections DEF Pass, InPass
<1>11. "done" \notin InPass /\ "lengths" \notin InPass
  BY DEF InPass
<1>12. CASE leave
  <2>1. ASSUME NEW r \in Stages(conf)
        PROVE  /\ rk2[r].pc = "lengths" /\ DOMAIN rk2[r] = Fields /\ rk2[r].prev = rk[r].context
               /\ \A f \in {"mb", "context", "batch_size_offset", "sequence_len_offset"} :
                    rk2[r][f] = rk[r][f]
    <3>1. rank'[r] = [[rank[r] EXCEPT !.prev = rank[r].context] EXCEPT !.pc = "lengths"]
      BY <1>2, <1>4, <1>8, <1>12
    <3>2. PICK s, d : s = rank[r] /\ d = rank[r].context /\ DOMAIN s = Fields
      BY <1>9
    <3>3. PICK t : t = [[s EXCEPT !.prev = d] EXCEPT !.pc = "lengths"]
      OBVIOUS
    <3>4. /\ t.pc = "lengths" /\ DOMAIN t = Fields /\ t.prev = d
          /\ \A f \in {"mb", "context", "batch_size_offset", "sequence_len_offset"} : t[f] = s[f]
      BY <3>2, <3>3 DEF Fields
    <3>5. rank'[r] = t
      BY <3>1, <3>2, <3>3
    <3>6. QED
      BY <3>2, <3>4, <3>5
  <2>2. \A r \in Stages(conf) : rk[r].pc = "done"
    BY <1>3
  <2> HIDE DEF rk, rk2
  <2>3. SameSection(conf, rk2) /\ EndsTogether(conf, rk2)
    <3>1. \A r \in Stages(conf) : rk2[r].pc \in {"lengths", "log_probs", "raised", "returned"}
      BY <2>1
    <3>2. SameSection(conf, rk2)
      BY <1>1, <1>10, <3>1, GenerateSections DEF SameSection
    <3>3. rk2[0].pc = "lengths" /\ rk2[EndStage(conf)].pc = "lengths"
      BY <1>2, <2>1
    <3>4. QED
      BY <3>2, <3>3 DEF EndsTogether
  <2>4. StagesInv(conf, rk2)
    BY <1>1, <1>5, <1>11, <2>1, <2>2, <2>3, LeaveLoop
  <2>5. QED
    BY <2>4 DEF rk2
<1>13. CASE ~leave
  <2>1. ASSUME NEW r \in Stages(conf)
        PROVE  /\ DOMAIN rk2[r] = Fields /\ rk2[r].prev = rk[r].context
               /\ rk2[r].context = rk[r].context + 1
               /\ rk2[r].pc = IF r = 0 THEN "compute" ELSE "recv"
               /\ \A f \in {"mb", "batch_size_offset", "sequence_len_offset"} : rk2[r][f] = rk[r][f]
    <3>1. rank'[r] = BeginMicroBatch(r, [[rank[r] EXCEPT !.prev = rank[r].context]
                                           EXCEPT !.context = @ + 1])
      BY <1>2, <1>4, <1>8, <1>13
    <3>2. PICK s, d : s = rank[r] /\ d = rank[r].context /\ DOMAIN s = Fields
      BY <1>9
    <3>3. PICK t : t = [[s EXCEPT !.prev = d] EXCEPT !.context = @ + 1]
      OBVIOUS
    <3>4. /\ DOMAIN t = Fields /\ t.prev = d /\ t.context = d + 1
          /\ \A f \in {"mb", "batch_size_offset", "sequence_len_offset"} : t[f] = s[f]
      BY <3>2, <3>3 DEF Fields
    <3>5. rank'[r] = BeginMicroBatch(r, t)
      BY <3>1, <3>2, <3>3
    <3>6. /\ DOMAIN rank'[r] = Fields
          /\ rank'[r].pc = IF r = 0 THEN "compute" ELSE "recv"
          /\ \A f \in Fields \ {"pc"} : rank'[r][f] = t[f]
      BY <3>4, <3>5, BeginFacts
    <3>7. /\ rank'[r].prev = t.prev /\ rank'[r].context = t.context
          /\ \A f \in {"mb", "batch_size_offset", "sequence_len_offset"} : rank'[r][f] = t[f]
      BY <3>6 DEF Fields
    <3>8. QED
      BY <3>2, <3>4, <3>6, <3>7
  <2>2. \A r \in Stages(conf) : rk[r].pc \notin InPass /\ rk[r].context + 1 # Longest(conf)
    BY <1>3, <1>6, <1>7, <1>11, <1>13
  <2>3. conf.tokens_to_generate > 0
    BY <1>1, <1>10, GenerateSections
  <2> HIDE DEF rk, rk2
  <2>4. StagesInv(conf, rk2)
    BY <1>1, <1>5, <2>1, <2>2, <2>3, NextPass
  <2>5. QED
    BY <2>4 DEF rk2
<1>14. QED
  BY <1>12, <1>13

(* A step of a pass.                                                       *)
LEMMA ForwardKeeps ==
  ASSUME Inv, Forward
  PROVE  StagesInv(conf, rank')
BY ComputeKeeps, TransferKeeps DEF Forward

(* A step of a generation.                                                 *)
LEMMA GenerateKeeps ==
  ASSUME Inv, conf.task = "generate", Generate
  PROVE  StagesInv(conf, rank')
<1>1. \/ Forward
      \/ Sample \/ Score \/ (\E r \in Stage : NoLogits(r))
      \/ \E r \in Stage : Skip(r)
      \/ CopyToFirst \/ ReturnLengths \/ ReturnLogProbs
      \/ BroadcastDone \/ AssertContiguous
  BY DEF Generate
<1>2. QED
  BY <1>1, ForwardKeeps, GenerateResults, GenerateSkip, GenerateAsserts, GenerateGroups,
     GenerateTurn

-----------------------------------------------------------------------------
(* Beam search.                                                            *)

(* The sections of a beam search.                                          *)
LEMMA BeamSections ==
  ASSUME NEW cf, cf.task = "beam_search"
  PROVE  /\ Sections(cf) = {Pass \cup {"done"}, {"copy", "best_batches"},
                            {"rank_hypotheses", "scores_size"}, {"tokens_size"},
                            {"scores", "tokens", "returned"}}
         /\ Together(cf) = {"copy", "best_batches", "scores", "tokens", "returned"}
BY DEF Sections, Together

(* The end of a forward pass, and the ranking of the hypotheses.           *)
LEMMA BeamResults ==
  ASSUME Inv, conf.task = "beam_search",
         Search \/ RankHypotheses \/ (\E r \in Stage : NoBeams(r))
  PROVE  StagesInv(conf, rank')
<1>1. /\ conf \in Requests /\ DOMAIN rank = Stages(conf)
      /\ \A r \in Stages(conf) : DOMAIN rank[r] = Fields
      /\ Stage = Stages(conf) /\ LastStage = EndStage(conf) /\ EndStage(conf) \in Stages(conf)
  <2>1. conf \in Requests /\ StagesInv(conf, rank)
    BY DEF Inv
  <2>2. EndStage(conf) \in Stages(conf)
    BY <2>1, RequestFacts DEF Stages, EndStage
  <2>3. Stage = Stages(conf) /\ LastStage = EndStage(conf)
    BY SizesOf
  <2>4. QED
    BY <2>1, <2>2, <2>3 DEF StagesInv, StageOK
<1>2. /\ \A p \in {"forwarded", "done", "rank_hypotheses", "scores_size"} : p \notin InPass
      /\ "forwarded" \in Pass /\ "rank_hypotheses" \notin Pass
  BY DEF InPass, Pass
<1>3. ASSUME NEW r \in Stages(conf), NEW t, rank' = [rank EXCEPT ![r] = t], Moved(rank[r], t),
             \/ rank[r].pc = "forwarded" /\ t.pc = "done"
             \/ rank[r].pc = "rank_hypotheses" /\ t.pc = "scores_size"
      PROVE  StagesInv(conf, rank')
  <2>1. \A S \in Sections(conf) : rank[r].pc \in S => t.pc \in S
    BY <1>2, <1>3, BeamSections
  <2>2. \A p \in Together(conf) : rank[r].pc # p /\ t.pc # p
    BY <1>2, <1>3, BeamSections
  <2>3. rank[r].pc \notin InPass /\ t.pc \notin InPass
    BY <1>2, <1>3
  <2>4. QED
    BY <1>3, <2>1, <2>2, <2>3, StageGoesOn
<1>4. CASE Search
  <2>1. rank[LastStage].pc = "forwarded"
    BY <1>4 DEF Search
  <2>2. PICK tokens :
          rank' = [rank EXCEPT ![LastStage].pc = "done", ![LastStage].tokens = tokens]
    BY <1>4 DEF Search
  <2>3. PICK s : s = rank[EndStage(conf)] /\ DOMAIN s = Fields
    BY <1>1
  <2>4. PICK t : t = [s EXCEPT !.pc = "done", !.tokens = tokens]
    OBVIOUS
  <2>5. Moved(s, t) /\ t.pc = "done"
    BY <2>3, <2>4 DEF Moved, Fields
  <2>6. rank' = [rank EXCEPT ![EndStage(conf)] = t]
    BY <1>1, <2>2, <2>3, <2>4
  <2>7. QED
    BY <1>1, <1>3, <2>1, <2>3, <2>5, <2>6
<1>5. CASE RankHypotheses
  <2>1. rank[LastStage].pc = "rank_hypotheses"
        /\ rank' = [rank EXCEPT ![LastStage].pc = "scores_size"]
    BY <1>5 DEF RankHypotheses
  <2>2. PICK s : s = rank[EndStage(conf)] /\ DOMAIN s = Fields
    BY <1>1
  <2>3. PICK t : t = [s EXCEPT !.pc = "scores_size"]
    OBVIOUS
  <2>4. Moved(s, t) /\ t.pc = "scores_size"
    BY <2>2, <2>3 DEF Moved, Fields
  <2>5. rank' = [rank EXCEPT ![EndStage(conf)] = t]
    BY <1>1, <2>1, <2>2, <2>3
  <2>6. QED
    BY <1>1, <1>3, <2>1, <2>2, <2>4, <2>5
<1>6. ASSUME NEW r \in Stage, NoBeams(r) PROVE StagesInv(conf, rank')
  <2>1. rank[r].pc = "forwarded" /\ rank' = [rank EXCEPT ![r].pc = "done"]
    BY <1>6 DEF NoBeams
  <2>2. PICK s : s = rank[r] /\ DOMAIN s = Fields
    BY <1>1
  <2>3. PICK t : t = [s EXCEPT !.pc = "done"]
    OBVIOUS
  <2>4. Moved(s, t) /\ t.pc = "done"
    BY <2>2, <2>3 DEF Moved, Fields
  <2>5. rank' = [rank EXCEPT ![r] = t]
    BY <1>1, <2>1, <2>2, <2>3
  <2>6. QED
    BY <1>1, <1>3, <2>1, <2>2, <2>4, <2>5
<1>7. QED
  BY <1>4, <1>5, <1>6

(* A stage between the first and the last goes past their collectives.     *)
LEMMA BeamSkipKeeps ==
  ASSUME Inv, conf.task = "beam_search", NEW r \in Stage, BeamSkip(r)
  PROVE  StagesInv(conf, rank')
<1>1. /\ conf \in Requests /\ DOMAIN rank = Stages(conf) /\ Stage = Stages(conf)
      /\ \A q \in Stages(conf) : DOMAIN rank[q] = Fields
  BY SizesOf DEF Inv, StagesInv, StageOK
<1>2. PICK s, op : s = rank[r] /\ op = BeamAfter(s.pc) /\ DOMAIN s = Fields
  BY <1>1
<1>3. PICK t : t = [s EXCEPT !.pc = op]
  OBVIOUS
<1>4. s.pc \in {"copy", "lengths", "log_probs", "scores", "tokens"} /\ r \notin {0, EndStage(conf)}
  BY <1>2, Groups DEF BeamSkip, SkipsGroup, EmbeddingOps
<1>5. rank' = [rank EXCEPT ![r] = t]
  BY <1>1, <1>2, <1>3 DEF BeamSkip
<1>6. Moved(s, t) /\ t.pc = op
  BY <1>2, <1>3 DEF Moved, Fields
<1>7. /\ s.pc = "copy" => op = "best_batches"
      /\ s.pc = "scores" => op = "tokens"
      /\ s.pc \notin {"copy", "scores"} => op = "returned"
  BY <1>2, <1>4 DEF BeamAfter
<1>8. s.pc \notin InPass /\ op \notin InPass
  BY <1>4, <1>7 DEF InPass
<1>9. \A S \in Sections(conf) : s.pc \in S => op \in S
  BY <1>4, <1>7, BeamSections DEF Pass, InPass
<1>10. QED
  BY <1>1, <1>2, <1>4, <1>5, <1>6, <1>8, <1>9, StageGoesOn

(* A collective of the first and the last stage.                           *)
LEMMA BeamGroups ==
  ASSUME Inv, conf.task = "beam_search", NEW op \in {"copy", "scores", "tokens"},
         Meet(op), DOMAIN rank' = Stages(conf),
         \A r \in Stages(conf) :
           IF r \in {0, EndStage(conf)}
           THEN rank'[r].pc = BeamAfter(op) /\ Moved(rank[r], rank'[r])
           ELSE rank'[r] = rank[r]
  PROVE  StagesInv(conf, rank')
<1> DEFINE rk == rank
           rk2 == rank'
           op2 == BeamAfter(op)
<1>1. conf \in Requests /\ StagesInv(conf, rk) /\ DOMAIN rk2 = Stages(conf)
  BY DEF Inv
<1>2. \A r \in Stages(conf) :
        IF r \in {0, EndStage(conf)}
        THEN rk[r].pc = op /\ rk2[r].pc = op2 /\ Moved(rk[r], rk2[r])
        ELSE rk2[r] = rk[r]
  BY Groups DEF Meet, EmbeddingOps
<1>3. /\ op = "copy" => op2 = "best_batches"
      /\ op = "scores" => op2 = "tokens"
      /\ op = "tokens" => op2 = "returned"
  BY DEF BeamAfter
<1> HIDE DEF rk, rk2, op2
<1>4. op \notin InPass /\ op2 \notin InPass
  BY <1>3 DEF InPass
<1>5. \A S \in Sections(conf) : op \in S => op2 \in S
  BY <1>3, BeamSections DEF Pass, InPass
<1>6. StagesInv(conf, rk2)
  BY <1>1, <1>2, <1>4, <1>5, GroupMoves
<1>7. QED
  BY <1>6 DEF rk2

(* The copy of all tokens, and the results.                                *)
LEMMA BeamEnds ==
  ASSUME Inv, conf.task = "beam_search", BeamCopyToFirst \/ ReturnScores \/ ReturnTokens
  PROVE  StagesInv(conf, rank')
<1>1. /\ Stage = Stages(conf) /\ FirstStage = 0 /\ 0 \in Stages(conf)
      /\ DOMAIN rank = Stages(conf) /\ \A r \in Stages(conf) : DOMAIN rank[r] = Fields
  BY SizesOf, RequestFacts DEF Inv, StagesInv, StageOK, Stages
<1>2. \A op \in {"copy", "scores", "tokens"} : Group(op) = {0, EndStage(conf)}
  BY Groups DEF EmbeddingOps
<1>3. ASSUME NEW op \in {"copy", "scores", "tokens"}, NEW r \in Stages(conf)
      PROVE  /\ DOMAIN GoOn(op) = Stages(conf)
             /\ r \in {0, EndStage(conf)} =>
                  GoOn(op)[r].pc = BeamAfter(op) /\ Moved(rank[r], GoOn(op)[r])
             /\ r \notin {0, EndStage(conf)} => GoOn(op)[r] = rank[r]
  <2>1. PICK s, op2 : s = rank[r] /\ op2 = BeamAfter(op) /\ DOMAIN s = Fields
    BY <1>1
  <2>2. PICK t : t = [s EXCEPT !.pc = op2]
    OBVIOUS
  <2>3. Moved(s, t) /\ t.pc = op2
    BY <2>1, <2>2 DEF Moved, Fields
  <2>4. /\ DOMAIN GoOn(op) = Stages(conf)
        /\ GoOn(op)[r] = IF r \in {0, EndStage(conf)} THEN t ELSE rank[r]
    BY <1>1, <1>2, <1>3, <2>1, <2>2 DEF GoOn
  <2>5. QED
    BY <2>1, <2>3, <2>4
<1>4. CASE BeamCopyToFirst
  <2>1. PICK rk, tokens : rk = GoOn("copy") /\ tokens = rank[LastStage].tokens
    OBVIOUS
  <2>2. Meet("copy") /\ rank' = [rk EXCEPT ![0].tokens = tokens]
    BY <1>1, <1>4, <2>1 DEF BeamCopyToFirst
  <2>3. DOMAIN rk = Stages(conf)
    BY <1>1, <1>3, <2>1
  <2>4. DOMAIN rank' = Stages(conf)
    BY <2>2, <2>3
  <2>5. ASSUME NEW r \in Stages(conf), r \in {0, EndStage(conf)}
        PROVE  rank'[r].pc = BeamAfter("copy") /\ Moved(rank[r], rank'[r])
    <3>1. PICK s, t : s = rank[r] /\ t = rk[r] /\ DOMAIN s = Fields
      BY <1>1
    <3>2. t.pc = BeamAfter("copy") /\ Moved(s, t)
      BY <1>3, <2>1, <2>5, <3>1
    <3>3. PICK u : u = [t EXCEPT !.tokens = tokens]
      OBVIOUS
    <3>4. u.pc = t.pc /\ Moved(s, u)
      BY <3>1, <3>2, <3>3 DEF Moved, Fields
    <3>5. rank'[r] = t \/ rank'[r] = u
      BY <2>2, <2>3, <3>1, <3>3
    <3>6. QED
      BY <3>1, <3>2, <3>4, <3>5
  <2>6. \A r \in Stages(conf) : r \notin {0, EndStage(conf)} => rank'[r] = rank[r]
    BY <1>3, <2>1, <2>2, <2>3
  <2>7. QED
    BY <2>2, <2>4, <2>5, <2>6, BeamGroups
<1>5. ASSUME NEW op \in {"scores", "tokens"}, Meet(op), rank' = GoOn(op)
      PROVE  StagesInv(conf, rank')
  BY <1>1, <1>3, <1>5, BeamGroups
<1>6. CASE ReturnScores
  BY <1>5, <1>6 DEF ReturnScores
<1>7. CASE ReturnTokens
  BY <1>5, <1>7 DEF ReturnTokens
<1>8. QED
  BY <1>4, <1>6, <1>7

(* All stages go on together, to program points of one section.            *)
LEMMA BeamAllMove ==
  ASSUME Inv, conf.task = "beam_search", NEW op \in PipelineOps, Meet(op),
         DOMAIN rank' = Stages(conf), \A r \in Stages(conf) : Moved(rank[r], rank'[r]),
         \/ \E p \in {"copy", "tokens_size", "scores"} : \A r \in Stages(conf) : rank'[r].pc = p
         \/ \A r \in Stages(conf) : rank'[r].pc = AfterLoop(r)
  PROVE  StagesInv(conf, rank')
<1> DEFINE rk == rank
           rk2 == rank'
<1>1. conf \in Requests /\ StagesInv(conf, rk) /\ DOMAIN rk2 = Stages(conf)
  BY DEF Inv
<1>2. 0 \in Stages(conf) /\ EndStage(conf) \in Stages(conf)
  BY <1>1, RequestFacts DEF Stages, EndStage
<1>3. \A r \in Stages(conf) : rk[r].pc \notin InPass
  BY Groups DEF Meet, PipelineOps, EmbeddingOps, InPass
<1>4. \/ \E p \in {"copy", "tokens_size", "scores"} : \A r \in Stages(conf) : rk2[r].pc = p
      \/ \A r \in Stages(conf) : rk2[r].pc \in {"rank_hypotheses", "scores_size"}
  BY DEF AfterLoop
<1>5. \A r \in Stages(conf) : Moved(rk[r], rk2[r])
  OBVIOUS
<1> HIDE DEF rk, rk2
<1>6. \A r \in Stages(conf) : rk2[r].pc \notin InPass
  BY <1>4 DEF InPass
<1>7. SameSection(conf, rk2)
  <2>1. /\ {"copy", "best_batches"} \in Sections(conf) /\ {"tokens_size"} \in Sections(conf)
        /\ {"scores", "tokens", "returned"} \in Sections(conf)
        /\ {"rank_hypotheses", "scores_size"} \in Sections(conf)
    BY BeamSections
  <2>2. \E S \in Sections(conf) : \A r \in Stages(conf) : rk2[r].pc \in S
    <3>1. CASE \A r \in Stages(conf) : rk2[r].pc = "copy"
      BY <2>1, <3>1
    <3>2. CASE \A r \in Stages(conf) : rk2[r].pc = "tokens_size"
      BY <2>1, <3>2
    <3>3. CASE \A r \in Stages(conf) : rk2[r].pc = "scores"
      BY <2>1, <3>3
    <3>4. CASE \A r \in Stages(conf) : rk2[r].pc \in {"rank_hypotheses", "scores_size"}
      BY <2>1, <3>4
    <3>5. QED
      BY <1>4, <3>1, <3>2, <3>3, <3>4
  <2>3. QED
    BY <2>2 DEF SameSection
<1>8. EndsTogether(conf, rk2)
  BY <1>2, <1>4, BeamSections DEF EndsTogether
<1>9. StagesInv(conf, rk2)
  BY <1>1, <1>3, <1>5, <1>6, <1>7, <1>8, QuietMoves
<1>10. QED
  BY <1>9 DEF rk2

(* The end of a turn, and the sizes of the results.                        *)
LEMMA BeamBroadcasts ==
  ASSUME Inv, conf.task = "beam_search", BeamBroadcastDone \/ BroadcastSizes
  PROVE  StagesInv(conf, rank')
<1>1. Stage = Stages(conf) /\ \A r \in Stages(conf) : DOMAIN rank[r] = Fields
  BY SizesOf DEF Inv, StagesInv, StageOK
<1>2. ASSUME NEW r \in Stages(conf), NEW p, rank'[r] = [rank[r] EXCEPT !.pc = p]
      PROVE  Moved(rank[r], rank'[r]) /\ rank'[r].pc = p
  <2>1. PICK s : s = rank[r] /\ DOMAIN s = Fields
    BY <1>1
  <2>2. PICK t : t = [s EXCEPT !.pc = p]
    OBVIOUS
  <2>3. Moved(s, t) /\ t.pc = p
    BY <2>1, <2>2 DEF Moved, Fields
  <2>4. QED
    BY <1>2, <2>1, <2>2, <2>3
<1>3. CASE BeamBroadcastDone
  <2>1. /\ Meet("done") /\ DOMAIN rank' = Stages(conf)
        /\ \A r \in Stages(conf) :
             rank'[r] = [rank[r] EXCEPT !.pc = IF beam.done THEN AfterLoop(r) ELSE "copy"]
    BY <1>1, <1>3 DEF BeamBroadcastDone
  <2>2. \A r \in Stages(conf) :
          Moved(rank[r], rank'[r]) /\ rank'[r].pc = IF beam.done THEN AfterLoop(r) ELSE "copy"
    BY <1>2, <2>1
  <2>3. "done" \in PipelineOps
    BY DEF PipelineOps
  <2>4. \/ \A r \in Stages(conf) : rank'[r].pc = "copy"
        \/ \A r \in Stages(conf) : rank'[r].pc = AfterLoop(r)
    BY <2>2
  <2>5. QED
    BY <2>1, <2>2, <2>3, <2>4, BeamAllMove
<1>4. CASE BroadcastSizes
  <2>1. PICK op \in {"scores_size", "tokens_size"} : Meet(op) /\ rank' = GoOn(op)
    BY <1>4 DEF BroadcastSizes
  <2>2. op \in PipelineOps /\ op \notin EmbeddingOps
    BY <2>1 DEF PipelineOps, EmbeddingOps
  <2>3. DOMAIN rank' = Stages(conf)
        /\ \A r \in Stages(conf) : rank'[r] = [rank[r] EXCEPT !.pc = BeamAfter(op)]
    BY <1>1, <2>1, <2>2, Groups DEF GoOn
  <2>4. \A r \in Stages(conf) : Moved(rank[r], rank'[r]) /\ rank'[r].pc = BeamAfter(op)
    BY <1>2, <2>3
  <2>5. BeamAfter(op) \in {"tokens_size", "scores"}
    BY <2>1 DEF BeamAfter
  <2>6. QED
    BY <2>1, <2>2, <2>3, <2>4, <2>5, BeamAllMove
<1>5. QED
  BY <1>3, <1>4

(* All stages reorder their caches, and go on with the next pass or with   *)
(* the results.                                                            *)
LEMMA BeamTurn ==
  ASSUME Inv, conf.task = "beam_search", BroadcastBestBatches
  PROVE  StagesInv(conf, rank')
<1> DEFINE rk == rank
           rk2 == rank'
<1>1. conf \in Requests /\ StagesInv(conf, rk)
  BY DEF Inv
<1>2. /\ Stage = Stages(conf) /\ MaxLen = Longest(conf)
      /\ 0 \in Stages(conf) /\ EndStage(conf) \in Stages(conf)
  BY <1>1, SizesOf, RequestFacts DEF Stages, EndStage
<1>3. \A r \in Stages(conf) : rank[r].pc = "best_batches"
  BY <1>2, Groups DEF BroadcastBestBatches, Meet, EmbeddingOps
<1>4. rank' = [r \in Stage |->
                 LET s == [rank[r] EXCEPT !.cache = Swapped(rank[r]), !.prev = rank[r].context]
                 IN IF s.context + 1 = MaxLen THEN [s EXCEPT !.pc = AfterLoop(r)]
                    ELSE BeginMicroBatch(r, [s EXCEPT !.context = @ + 1])]
  BY DEF BroadcastBestBatches
<1>5. DOMAIN rk2 = Stages(conf)
  BY <1>2, <1>4
<1>6. PICK c \in Nat : \A r \in Stages(conf) : rk[r].context = c
  <2>1. rk[0].context \in Nat
    BY <1>1, <1>2 DEF StagesInv, StageOK
  <2>2. \A r \in Stages(conf) : rk[r].context = rk[0].context
    BY <1>1, <1>2 DEF StagesInv, SamePass
  <2>3. QED
    BY <2>1, <2>2
<1>7. ASSUME NEW r \in Stages(conf)
      PROVE  \E t : /\ DOMAIN t = Fields /\ t.prev = c /\ t.context = c
                    /\ \A f \in {"mb", "batch_size_offset", "sequence_len_offset"} :
                         t[f] = rank[r][f]
                    /\ rank'[r] = IF c + 1 = Longest(conf) THEN [t EXCEPT !.pc = AfterLoop(r)]
                                  ELSE BeginMicroBatch(r, [t EXCEPT !.context = @ + 1])
  <2>1. PICK s, cache : s = rank[r] /\ cache = Swapped(s) /\ DOMAIN s = Fields
    BY <1>1 DEF StagesInv, StageOK
  <2>2. s.context = c
    BY <1>6, <2>1
  <2>3. PICK t : t = [s EXCEPT !.cache = cache, !.prev = c]
    OBVIOUS
  <2>4. /\ DOMAIN t = Fields /\ t.prev = c /\ t.context = c
        /\ \A f \in {"mb", "batch_size_offset", "sequence_len_offset"} : t[f] = s[f]
    BY <2>1, <2>2, <2>3 DEF Fields
  <2>5. [rank[r] EXCEPT !.cache = Swapped(rank[r]), !.prev = rank[r].context] = t
    BY <2>1, <2>2, <2>3
  <2> DEFINE New(q, u) == IF u.context + 1 = MaxLen THEN [u EXCEPT !.pc = AfterLoop(q)]
                          ELSE BeginMicroBatch(q, [u EXCEPT !.context = @ + 1])
             Old(q) == [rank[q] EXCEPT !.cache = Swapped(rank[q]), !.prev = rank[q].context]
  <2>6. rank'[r] = New(r, t)
    <3>1. rank' = [q \in Stage |-> New(q, Old(q))]
      BY <1>4
    <3>2. Old(r) = t
      BY <2>5
    <3> HIDE DEF New, Old
    <3>3. QED
      BY <1>2, <3>1, <3>2
  <2>7. QED
    BY <1>2, <2>1, <2>4, <2>6
<1>8. "best_batches" \notin InPass
  BY DEF InPass
<1>9. CASE c + 1 = Longest(conf)
  <2>1. ASSUME NEW r \in Stages(conf)
        PROVE  /\ rk2[r].pc = AfterLoop(r) /\ DOMAIN rk2[r] = Fields
               /\ rk2[r].prev = rk[r].context
               /\ \A f \in {"mb", "context", "batch_size_offset", "sequence_len_offset"} :
                    rk2[r][f] = rk[r][f]
    <3>1. PICK t, op : /\ DOMAIN t = Fields /\ t.prev = c /\ t.context = c
                       /\ (\A f \in {"mb", "batch_size_offset", "sequence_len_offset"} :
                             t[f] = rank[r][f])
                       /\ rank'[r] = [t EXCEPT !.pc = op] /\ op = AfterLoop(r)
      BY <1>7, <1>9
    <3>2. PICK u : u = [t EXCEPT !.pc = op]
      OBVIOUS
    <3>3. /\ u.pc = op /\ DOMAIN u = Fields /\ u.prev = c /\ u.context = c
          /\ \A f \in {"mb", "batch_size_offset", "sequence_len_offset"} : u[f] = t[f]
      BY <3>1, <3>2 DEF Fields
    <3>4. QED
      BY <1>6, <3>1, <3>2, <3>3
  <2>2. \A r \in Stages(conf) : rk[r].pc \notin InPass
    BY <1>3, <1>8
  <2> HIDE DEF rk, rk2
  <2>3. \A r \in Stages(conf) : rk2[r].pc \in {"rank_hypotheses", "scores_size"}
    BY <2>1 DEF AfterLoop
  <2>4. \A r \in Stages(conf) : rk2[r].pc \notin InPass
    BY <2>3 DEF InPass
  <2>5. SameSection(conf, rk2)
    BY <2>3, BeamSections DEF SameSection
  <2>6. EndsTogether(conf, rk2)
    BY <1>2, <2>3, BeamSections DEF EndsTogether
  <2>7. StagesInv(conf, rk2)
    BY <1>1, <1>5, <2>1, <2>2, <2>4, <2>5, <2>6, LeaveLoop
  <2>8. QED
    BY <2>7 DEF rk2
<1>10. CASE c + 1 # Longest(conf)
  <2>1. ASSUME NEW r \in Stages(conf)
        PROVE  /\ DOMAIN rk2[r] = Fields /\ rk2[r].prev = rk[r].context
               /\ rk2[r].context = rk[r].context + 1
               /\ rk2[r].pc = IF r = 0 THEN "compute" ELSE "recv"
               /\ \A f \in {"mb", "batch_size_offset", "sequence_len_offset"} : rk2[r][f] = rk[r][f]
    <3>1. PICK t : /\ DOMAIN t = Fields /\ t.prev = c /\ t.context = c
                   /\ (\A f \in {"mb", "batch_size_offset", "sequence_len_offset"} :
                         t[f] = rank[r][f])
                   /\ rank'[r] = BeginMicroBatch(r, [t EXCEPT !.context = @ + 1])
      BY <1>7, <1>10
    <3>2. PICK u : u = [t EXCEPT !.context = @ + 1]
      OBVIOUS
    <3>3. /\ DOMAIN u = Fields /\ u.prev = c /\ u.context = c + 1
          /\ \A f \in {"mb", "batch_size_offset", "sequence_len_offset"} : u[f] = t[f]
      BY <3>1, <3>2 DEF Fields
    <3>4. rank'[r] = BeginMicroBatch(r, u)
      BY <3>1, <3>2
    <3>5. /\ DOMAIN rank'[r] = Fields
          /\ rank'[r].pc = IF r = 0 THEN "compute" ELSE "recv"
          /\ \A f \in Fields \ {"pc"} : rank'[r][f] = u[f]
      BY <3>3, <3>4, BeginFacts
    <3>6. /\ rank'[r].prev = u.prev /\ rank'[r].context = u.context
          /\ \A f \in {"mb", "batch_size_offset", "sequence_len_offset"} : rank'[r][f] = u[f]
      BY <3>5 DEF Fields
    <3>7. QED
      BY <1>6, <3>1, <3>3, <3>5, <3>6
  <2>2. \A r \in Stages(conf) : rk[r].pc \notin InPass /\ rk[r].context + 1 # Longest(conf)
    BY <1>3, <1>6, <1>8, <1>10
  <2>3. conf.tokens_to_generate > 0
    BY <1>1, RequestFacts
  <2> HIDE DEF rk, rk2
  <2>4. StagesInv(conf, rk2)
    BY <1>1, <1>5, <2>1, <2>2, <2>3, NextPass
  <2>5. QED
    BY <2>4 DEF rk2
<1>11. QED
  BY <1>9, <1>10

(* A step of a beam search.                                                *)
LEMMA BeamKeeps ==
  ASSUME Inv, conf.task = "beam_search", SearchBeams
  PROVE  StagesInv(conf, rank')
<1>1. \/ Forward
      \/ Search \/ RankHypotheses \/ (\E r \in Stage : NoBeams(r))
      \/ \E r \in Stage : BeamSkip(r)
      \/ BeamCopyToFirst \/ ReturnScores \/ ReturnTokens
      \/ BeamBroadcastDone \/ BroadcastSizes
      \/ BroadcastBestBatches
  BY DEF SearchBeams
<1>2. QED
  BY <1>1, ForwardKeeps, BeamResults, BeamSkipKeeps, BeamEnds, BeamBroadcasts, BeamTurn

-----------------------------------------------------------------------------
(* The theorem.                                                            *)

(* A request starts with a pass over the positions before StartContext.    *)
LEMMA InitInv ==
  ASSUME Init
  PROVE  Inv
<1> DEFINE rk == rank
<1>1. conf \in Requests /\ rank = InitRank(StartContext)
  BY DEF Init
<1>2. /\ Stage = Stages(conf) /\ MaxLen = Longest(conf) /\ Batch = DOMAIN conf.prompts
      /\ 0 \in Stages(conf) /\ EndStage(conf) \in Stages(conf) /\ Stages(conf) \subseteq Nat
  BY <1>1, SizesOf, RequestFacts DEF Stages, EndStage
<1>3. PICK c \in Nat : /\ c = StartContext /\ c > 0 /\ c <= Longest(conf)
                       /\ conf.tokens_to_generate > 0 => c < Longest(conf)
  <2>1. StartContext = IF conf.tokens_to_generate > 0
                       THEN Min({Len(conf.prompts[b]) : b \in DOMAIN conf.prompts})
                       ELSE Longest(conf)
    BY <1>2, Zenon DEF StartContext, ToGenerate, PromptLen
  <2>2. PICK m : m = Min({Len(conf.prompts[b]) : b \in DOMAIN conf.prompts})
    OBVIOUS
  <2>3. /\ m \in Nat \ {0} /\ m + conf.tokens_to_generate <= Longest(conf)
        /\ Longest(conf) \in Nat \ {0} /\ conf.tokens_to_generate \in Nat
    BY <1>1, <2>2, LengthFacts, RequestFacts, Zenon
  <2>4. StartContext = IF conf.tokens_to_generate > 0 THEN m ELSE Longest(conf)
    BY <2>1, <2>2
  <2>5. QED
    BY <2>3, <2>4
<1>4. DOMAIN rk = Stages(conf)
  BY <1>1, <1>2 DEF InitRank
<1>5. Count(conf, c) \in Nat \ {0} /\ Full(conf, c) \in Nat
  BY <1>1, <1>3, MicroBatchFacts
<1>6. ASSUME NEW r \in Stages(conf)
      PROVE  /\ DOMAIN rk[r] = Fields /\ rk[r].pc = IF r = 0 THEN "compute" ELSE "recv"
             /\ rk[r].mb = 0 /\ rk[r].prev = 0 /\ rk[r].context = c
             /\ rk[r].batch_size_offset = 0 /\ rk[r].sequence_len_offset = 0
  <2>1. PICK s : /\ rank[r] = BeginMicroBatch(r, s) /\ DOMAIN s = Fields
                 /\ s.mb = 0 /\ s.prev = 0 /\ s.context = c
                 /\ s.batch_size_offset = 0 /\ s.sequence_len_offset = 0
    BY <1>1, <1>2, <1>3 DEF InitRank, Fields
  <2>2. /\ DOMAIN rank[r] = Fields /\ rank[r].pc = IF r = 0 THEN "compute" ELSE "recv"
        /\ \A f \in Fields \ {"pc"} : rank[r][f] = s[f]
    BY <2>1, BeginFacts
  <2>3. QED
    BY <2>1, <2>2 DEF Fields
<1> HIDE DEF rk
<1>7. \A r \in Stages(conf) :
        /\ rk[r].pc \in {"compute", "recv"} /\ rk[r].pc \in InPass
        /\ (r = 0 => rk[r].pc # "recv") /\ rk[r].pc # "send" /\ (r # 0 => rk[r].pc = "recv")
  BY <1>6 DEF InPass
<1>8. ASSUME NEW r \in Stages(conf) PROVE StageOK(conf, r, rk[r])
  <2>1. rk[r].context - rk[r].prev = c
    BY <1>3, <1>6
  <2>2. 0 = 0 * Full(conf, c)
    BY <1>5
  <2>3. PICK s : s = rk[r]
    OBVIOUS
  <2>4. /\ DOMAIN s = Fields /\ s.mb = 0 /\ s.prev = 0 /\ s.context = c
        /\ s.batch_size_offset = 0 /\ s.sequence_len_offset = 0
        /\ s.pc \in InPass /\ (r = 0 => s.pc # "recv") /\ s.pc # "send"
    BY <1>6, <1>7, <2>3
  <2>5. s.context - s.prev = c /\ s.prev < s.context /\ s.mb < Count(conf, c)
    BY <1>3, <1>5, <2>4
  <2>6. s.batch_size_offset = s.mb * Full(conf, c)
    BY <2>2, <2>4
  <2>7. StageOK(conf, r, s)
    BY <1>3, <2>4, <2>5, <2>6 DEF StageOK
  <2>8. QED
    BY <2>3, <2>7
<1>9. SamePass(conf, rk)
  BY <1>6 DEF SamePass
<1>10. Link(conf, rk)
  <2>1. ASSUME NEW r \in Stages(conf), r + 1 \in Stages(conf)
        PROVE  Sent(conf, rk[r]) = Received(conf, rk[r + 1])
    <3>1. r + 1 # 0
      BY <1>2, <2>1
    <3>2. rk[r + 1].pc = "recv" /\ rk[r + 1].mb = 0 /\ rk[r].pc \in InPass /\ rk[r].mb = 0
      BY <1>6, <1>7, <2>1, <3>1
    <3>3. QED
      BY <3>2 DEF Sent, Received
  <2>2. QED
    BY <2>1 DEF Link
<1>11. SameSection(conf, rk)
  <2>1. \E S \in Sections(conf) : {"compute", "recv"} \subseteq S
    BY DEF Sections, Pass, InPass
  <2>2. QED
    BY <1>7, <2>1 DEF SameSection
<1>12. EndsTogether(conf, rk)
  <2>1. "compute" \notin Together(conf) /\ "recv" \notin Together(conf)
    BY DEF Together
  <2>2. QED
    BY <1>2, <1>7, <2>1 DEF EndsTogether
<1>13. StagesInv(conf, rk)
  BY <1>4, <1>8, <1>9, <1>10, <1>11, <1>12 DEF StagesInv
<1>14. QED
  BY <1>1, <1>13 DEF rk, Inv

(* The request stays the same.                                             *)
LEMMA SameRequest ==
  ASSUME [Next]_vars
  PROVE  conf' = conf
BY DEF Next, vars, Generate, SearchBeams, Forward, Sample, Score, NoLogits, Skip, CopyToFirst,
       BroadcastDone, ReturnLengths, AssertContiguous, ReturnLogProbs, Search, NoBeams, BeamSkip,
       BeamBroadcastDone, BeamCopyToFirst, BroadcastBestBatches, RankHypotheses,
       BroadcastSizes, ReturnScores, ReturnTokens, Ended

(* Every step of a request keeps the invariant.                            *)
LEMMA NextKeepsInv ==
  ASSUME Inv, [Next]_vars
  PROVE  Inv'
<1>1. conf' = conf
  BY SameRequest
<1>2. StagesInv(conf, rank')
  <2>1. CASE conf.task = "generate" /\ Generate
    BY <2>1, GenerateKeeps
  <2>2. CASE conf.task = "beam_search" /\ SearchBeams
    BY <2>2, BeamKeeps
  <2>3. CASE rank' = rank
    BY <2>3 DEF Inv
  <2>4. QED
    BY <2>1, <2>2, <2>3 DEF Next, Ended, vars
<1>3. QED
  BY <1>1, <1>2 DEF Inv

(* For any request on any number of stages: stages that wait for one       *)
(* another wait in the same call with the same sizes, and no assertion of  *)
(* a cache about its offsets fails (communication.py, attention.py).       *)
THEOREM CollectivesMatchThm == Spec => []CollectivesMatch
<1>1. Init => Inv
  BY InitInv
<1>2. Inv /\ [Next]_vars => Inv'
  BY NextKeepsInv
<1>3. Inv => CollectivesMatch
  BY InvImpliesMatch
<1>4. QED
  BY <1>1, <1>2, <1>3, PTL DEF Spec
-----------------------------------------------------------------------------
(* What a generation computes.                                             *)

Tokens(cf) == Vocab \cup {Eod} \cup UNION {Range(cf.prompts[b]) : b \in DOMAIN cf.prompts}
Texts(cf) == [1 .. Size(cf) -> [1 .. Longest(cf) -> Tokens(cf)]]

\* The positions of the first pass.
FirstContext(cf) ==
  IF cf.tokens_to_generate > 0 THEN Min({Len(cf.prompts[b]) : b \in DOMAIN cf.prompts})
  ELSE Longest(cf)

\* It has one position, or runs in one microbatch.
FirstPassFits(cf) == FirstContext(cf) = 1 \/ Count(cf, FirstContext(cf)) = 1

\* What a stage caches of a position of a row.
Key(r, row, p) == IF r = 0 THEN <<row[p]>> ELSE SubSeq(row, 1, p)

\* A row of the cache holds what the stage has seen of words of S.
Keys(r, S, words, row, p) ==
  \A q \in 1 .. p : words[q] \in S /\ row[q] = Key(r, words, q)

\* The positions of a pass.
Width(s) == s.context - s.prev

\* The rows of the microbatches before the present one, and with it.
Before(cf, s) == s.mb * Full(cf, Width(s))
Through(cf, s) == Before(cf, s) + This(cf, Width(s), s.mb)

\* The rows that have been through the present pass, and how far each one's keys are cached.
Rows(cf, s) ==
  IF s.pc \in {"recv", "compute"} THEN Before(cf, s)
  ELSE IF s.pc = "send" THEN Through(cf, s) ELSE Size(cf)
Filled(cf, s, b) == IF b <= Rows(cf, s) THEN s.context ELSE s.prev

\* Rows of hidden states, from that of a microbatch on, have seen the right prefixes.
Saw(hidden, s, text, first, rows) ==
  \A i \in 1 .. rows : \A j \in 1 .. Width(s) :
    hidden[i][j] = SubSeq(text[first + i], 1, s.prev + j)

CacheOK(cf, r, s, text) ==
  \A b \in 1 .. Size(cf) : \A p \in 1 .. Filled(cf, s, b) : s.cache[b][p] = Key(r, text[b], p)

\* Only a pass over one position uses a cache that is there already.
PassOK(cf, s) ==
  /\ s.pc \in InPass => Width(s) \in {1, FirstContext(cf)}
  /\ s.pc \in {"recv", "compute"} /\ s.allocated => Width(s) = 1
  /\ s.pc = "forwarded" => s.prev < s.context

BuffersOK(cf, r, s, text) ==
  /\ r # 0 /\ s.pc = "compute" =>
       Saw(s.recv_buffer, s, text, Before(cf, s), This(cf, Width(s), s.mb))
  /\ s.pc = "send" => Saw(s.output, s, text, Before(cf, s), This(cf, Width(s), s.mb))

LogitsOK(cf, s, text) ==
  /\ s.pc \in InPass /\ s.mb > 0 =>
       s.logits \in Seq(Range(s.logits)) /\ Len(s.logits) = Before(cf, s)
  /\ s.pc \in InPass /\ s.mb > 0 => Saw(s.logits, s, text, 0, Before(cf, s))
  /\ s.pc \notin InPass => Saw(s.logits, s, text, 0, Size(cf))

DataOK(cf, r, s, text) ==
  /\ CacheOK(cf, r, s, text) /\ PassOK(cf, s) /\ BuffersOK(cf, r, s, text)
  /\ r = EndStage(cf) => LogitsOK(cf, s, text)

\* The first stage has the text that the last one has sampled, except a word on its way.
AfterCopy == {"done", "lengths", "log_probs", "raised", "returned"}
Known(cf, s) ==
  IF cf.tokens_to_generate > 0 /\ s.pc \in AfterCopy THEN s.context + 1 ELSE s.context
TokensOK(cf, rk) ==
  /\ rk[0].tokens \in Texts(cf) /\ rk[EndStage(cf)].tokens \in Texts(cf)
  /\ \A b \in 1 .. Size(cf) : \A p \in 1 .. Known(cf, rk[0]) :
       rk[0].tokens[b][p] = rk[EndStage(cf)].tokens[b][p]

DataInv(cf, rk) ==
  /\ TokensOK(cf, rk)
  /\ \A r \in Stages(cf) : DataOK(cf, r, rk[r], rk[EndStage(cf)].tokens)

\* The answer on the last stage, and what it has sent of it.
StopsAt(cf, row, p) ==
  CASE cf.stop = "double_eol" ->
         row[p] = TwoEols \/ (row[p] = Eol /\ p > 1 /\ row[p - 1] = Eol)
    [] cf.stop = "eol" -> row[p] \in {TwoEols, Eol}
    [] cf.stop = "eod" -> row[p] = Eod

AfterSample == {"copy"} \cup AfterCopy
Sampled(cf, s) == IF s.pc \in AfterSample THEN s.context + 1 ELSE s.context
Scored(cf, s) ==
  IF s.pc \in AfterSample THEN s.context - (IF cf.tokens_to_generate > 0 THEN 0 ELSE 1)
  ELSE s.prev
Ends(cf, s, b) ==
  {p \in Len(cf.prompts[b]) + 1 .. Sampled(cf, s) : StopsAt(cf, s.tokens[b], p)}

LengthsOK(cf, s, ans) ==
  /\ \A b \in 1 .. Size(cf) : \A p \in 1 .. Len(cf.prompts[b]) : s.tokens[b][p] = cf.prompts[b][p]
  /\ ans.lengths \in [1 .. Size(cf) -> Nat]
  /\ \A b \in 1 .. Size(cf) :
       ans.lengths[b] = IF Ends(cf, s, b) = {} THEN Longest(cf) ELSE Min(Ends(cf, s, b))
  /\ ans.finished = {b \in 1 .. Size(cf) : Ends(cf, s, b) # {}}
  /\ s.pc \in AfterCopy \ {"done"} => s.context + 1 = Longest(cf) \/ ans.finished = 1 .. Size(cf)

LogProbsOK(cf, s, ans) ==
  \A b \in 1 .. Size(cf) : \A p \in 1 .. Scored(cf, s) :
    ans.log_probs[b][p] = <<SubSeq(s.tokens[b], 1, p), s.tokens[b][p + 1]>>

\* The answer as the last stage has it, and what the first one has got of it.
AnswerOK(cf, s, ans) ==
  /\ cf.tokens_to_generate > 0 => LengthsOK(cf, s, ans)
  /\ cf.tokens_to_generate = 0 => s.prev = 0 /\ s.context = Longest(cf)
  /\ cf.tokens_to_generate = 0 \/ cf.log_probs => LogProbsOK(cf, s, ans)

ReturnedOK(cf, s, ans, ans2) ==
  /\ cf.tokens_to_generate > 0 /\ s.pc \in {"log_probs", "returned"} =>
       ans.lengths = ans2.lengths
  /\ s.pc = "returned" /\ cf.log_probs => ans.log_probs = ans2.log_probs

AnswerInv(cf, rk, ans) ==
  /\ DOMAIN ans = Stages(cf)
  /\ \A r \in Stages(cf) : DOMAIN ans[r] = {"lengths", "log_probs", "finished"}
  /\ AnswerOK(cf, rk[EndStage(cf)], ans[EndStage(cf)])
  /\ ReturnedOK(cf, rk[0], ans[0], ans[EndStage(cf)])

(* The hidden state of a position is its prefix, if its row of the cache   *)
(* holds the right keys.                                                   *)
LEMMA PrefixIsRight ==
  ASSUME NEW r, NEW S, NEW text, NEW row, NEW p \in Nat \ {0}, Keys(r, S, text, row, p)
  PROVE  Prefix(r, row, p) = SubSeq(text, 1, p)
<1>0. /\ \A q \in 1 .. p : text[q] \in S
      /\ \A q \in 1 .. p : row[q] = Key(r, text, q)
  BY DEF Keys
<1>1. CASE r = 0
  <2>1. \A q \in 1 .. p : row[q] = <<text[q]>>
    BY <1>0, <1>1 DEF Key
  <2>2. \A q \in 1 .. p : row[q] # Garbled
    <3>1. ASSUME NEW q \in 1 .. p PROVE row[q] # <<>>
      <4>1. PICK a : a = text[q]
        OBVIOUS
      <4>2. Len(<<a>>) = 1 /\ Len(<<>>) = 0
        OBVIOUS
      <4>3. QED
        BY <2>1, <4>1, <4>2
    <3>2. QED
      BY <3>1 DEF Garbled
  <2>3. FlattenSeq(SubSeq(row, 1, p)) = SubSeq(text, 1, p)
    <3>1. Singles(S, text, row, p)
      BY <1>0, <2>1 DEF Singles
    <3>2. QED
      BY <3>1, FlattenSingles
  <2>4. Prefix(r, row, p) = FlattenSeq(SubSeq(row, 1, p))
    BY <1>1, <2>2 DEF Prefix, FirstStage
  <2>5. QED
    BY <2>3, <2>4
<1>2. CASE r # 0
  <2>1. \A q \in 1 .. p : row[q] = SubSeq(text, 1, q)
    BY <1>0, <1>2 DEF Key
  <2>2. row[p] = SubSeq(text, 1, p)
    BY <2>1
  <2>3. ASSUME NEW q \in 1 .. p PROVE row[q] = SubSeq(row[p], 1, q)
    <3>1. SubSeq(SubSeq(text, 1, p), 1, q) = SubSeq(text, 1, q)
      BY <1>0, PrefixOfPrefix
    <3>2. QED
      BY <2>1, <2>2, <3>1
  <2>4. Prefix(r, row, p) = row[p]
    BY <1>2, <2>3 DEF Prefix, FirstStage
  <2>5. QED
    BY <2>2, <2>4
<1>3. QED
  BY <1>1, <1>2

(* The words of a text.                                                    *)
LEMMA TextFacts ==
  ASSUME NEW cf \in Requests, NEW text \in Texts(cf), NEW b \in 1 .. Size(cf),
         NEW p \in Nat, p <= Longest(cf)
  PROVE  /\ \A q \in 1 .. p : text[b][q] \in Tokens(cf)
         /\ DOMAIN text = 1 .. Size(cf) /\ DOMAIN text[b] = 1 .. Longest(cf)
<1>1. Longest(cf) \in Nat
  BY LengthFacts
<1>2. QED
  BY <1>1 DEF Texts

(* The microbatch of a stage in a pass.                                    *)
LEMMA PassFacts ==
  ASSUME NEW cf \in Requests, NEW r, NEW s, StageOK(cf, r, s), s.pc \in InPass
  PROVE  /\ Width(s) \in Nat \ {0} /\ s.prev \in Nat /\ s.context \in Nat /\ s.mb \in Nat
         /\ s.prev + Width(s) = s.context /\ s.context <= Longest(cf)
         /\ Size(cf) \in Nat \ {0} /\ Longest(cf) \in Nat
         /\ Before(cf, s) \in Nat /\ This(cf, Width(s), s.mb) \in Nat \ {0}
         /\ Through(cf, s) \in Nat /\ Through(cf, s) <= Size(cf)
         /\ s.batch_size_offset = Before(cf, s) /\ s.sequence_len_offset = s.prev
         /\ s.mb = 0 => Before(cf, s) = 0
         /\ s.mb + 1 < Count(cf, Width(s)) =>
              Through(cf, s) = (s.mb + 1) * Full(cf, Width(s))
         /\ ~(s.mb + 1 < Count(cf, Width(s))) => Through(cf, s) = Size(cf)
<1> DEFINE n == Width(s)
<1>1. /\ s.mb \in Nat /\ s.prev \in Nat /\ s.context \in Nat
      /\ s.context <= Longest(cf)
      /\ s.prev < s.context /\ s.mb < Count(cf, n)
      /\ s.batch_size_offset = s.mb * Full(cf, n)
      /\ s.sequence_len_offset = s.prev
  BY DEF StageOK, Width
<1>2. n \in Nat \ {0} /\ s.prev + n = s.context
  BY <1>1 DEF Width
<1>3. Size(cf) \in Nat \ {0} /\ Longest(cf) \in Nat
  BY RequestFacts, LengthFacts
<1> HIDE DEF n
<1>4. /\ Full(cf, n) \in Nat \ {0} /\ Count(cf, n) \in Nat \ {0}
      /\ This(cf, n, s.mb) \in Nat \ {0}
      /\ s.mb * Full(cf, n) + This(cf, n, s.mb) <= Size(cf)
      /\ s.mb + 1 < Count(cf, n) => This(cf, n, s.mb) = Full(cf, n)
      /\ s.mb + 1 = Count(cf, n) => s.mb * Full(cf, n) + This(cf, n, s.mb) = Size(cf)
  BY <1>1, <1>2, MicroBatchFacts
<1>5. PICK f \in Nat \ {0}, k \in Nat \ {0}, m \in Nat :
        f = Full(cf, n) /\ k = This(cf, n, s.mb) /\ m = s.mb
  BY <1>1, <1>4
<1>6. m * f \in Nat /\ (m = 0 => m * f = 0) /\ m * f + f = (m + 1) * f
  OBVIOUS
<1>7. /\ Before(cf, s) = m * f /\ Through(cf, s) = m * f + k
  BY <1>5 DEF Before, Through, n
<1>8. s.mb + 1 = Count(cf, n) <=> ~(s.mb + 1 < Count(cf, n))
  BY <1>1, <1>4
<1>9. QED
  BY <1>1, <1>2, <1>3, <1>4, <1>5, <1>6, <1>7, <1>8 DEF n

(* The rows and positions that the data of a stage speaks of are among     *)
(* those of its context.                                                   *)
LEMMA FilledFacts ==
  ASSUME NEW cf \in Requests, NEW r, NEW s, StageOK(cf, r, s), NEW b \in 1 .. Size(cf)
  PROVE  /\ Filled(cf, s, b) \in Nat /\ Filled(cf, s, b) <= s.context
         /\ s.context \in Nat /\ s.context <= Longest(cf)
         /\ s.pc \notin InPass => Filled(cf, s, b) = s.context
<1>1. s.context \in Nat /\ s.context <= Longest(cf) /\ s.prev \in Nat
  BY DEF StageOK
<1>2. CASE s.pc \in InPass
  <2>1. s.prev <= s.context
    BY <1>1, <1>2 DEF StageOK
  <2>2. QED
    BY <1>1, <1>2, <2>1 DEF Filled
<1>3. CASE s.pc \notin InPass
  <2>1. Rows(cf, s) = Size(cf) /\ b <= Size(cf)
    <3>1. s.pc \notin {"recv", "compute"} /\ s.pc # "send"
      BY <1>3 DEF InPass
    <3>2. Size(cf) \in Nat
      BY RequestFacts
    <3>3. QED
      BY <3>1, <3>2 DEF Rows
  <2>2. Filled(cf, s, b) = s.context
    BY <2>1 DEF Filled
  <2>3. QED
    BY <1>1, <1>3, <2>2
<1>4. QED
  BY <1>2, <1>3

(* Hidden states have seen a prefix of any text that is the same so far.   *)
LEMMA SawSame ==
  ASSUME NEW cf \in Requests, NEW s, NEW hidden, NEW text \in Texts(cf), NEW text2,
         NEW first \in Nat, NEW rows \in Nat, first + rows <= Size(cf),
         s.prev \in Nat, s.context \in Nat, s.context <= Longest(cf),
         \A b \in 1 .. Size(cf) : \A p \in 1 .. s.context : text2[b][p] = text[b][p],
         Saw(hidden, s, text, first, rows)
  PROVE  Saw(hidden, s, text2, first, rows)
<1>1. ASSUME NEW i \in 1 .. rows, NEW j \in 1 .. Width(s)
      PROVE  hidden[i][j] = SubSeq(text2[first + i], 1, s.prev + j)
  <2>1. Size(cf) \in Nat
    BY RequestFacts
  <2>2. PICK b \in 1 .. Size(cf) : b = first + i
    BY <2>1
  <2>3. PICK p \in Nat : p = s.prev + j /\ p <= s.context
    BY DEF Width
  <2>4. hidden[i][j] = SubSeq(text[b], 1, p)
    BY <2>2, <2>3 DEF Saw
  <2>5. p <= Longest(cf)
    <3>1. Longest(cf) \in Nat
      BY LengthFacts
    <3>2. QED
      BY <2>3, <3>1
  <2>6. \A q \in 1 .. p : text[b][q] \in Tokens(cf)
    BY <2>5, TextFacts
  <2>7. \A q \in 1 .. p : text2[b][q] = text[b][q]
    BY <2>3
  <2>8. PICK x, y : x = text[b] /\ y = text2[b]
    OBVIOUS
  <2>9. SubSeq(y, 1, p) = SubSeq(x, 1, p)
    BY <2>6, <2>7, <2>8, SamePrefix
  <2>10. QED
    BY <2>2, <2>3, <2>4, <2>8, <2>9
<1>2. QED
  BY <1>1 DEF Saw

(* Keys, likewise.                                                         *)
LEMMA CacheSame ==
  ASSUME NEW cf \in Requests, NEW r, NEW s, NEW text \in Texts(cf), NEW text2,
         StageOK(cf, r, s),
         \A b \in 1 .. Size(cf) : \A p \in 1 .. s.context : text2[b][p] = text[b][p],
         CacheOK(cf, r, s, text)
  PROVE  CacheOK(cf, r, s, text2)
<1>1. ASSUME NEW b \in 1 .. Size(cf), NEW p \in 1 .. Filled(cf, s, b)
      PROVE  s.cache[b][p] = Key(r, text2[b], p)
  <2>1. /\ Filled(cf, s, b) \in Nat /\ Filled(cf, s, b) <= s.context
        /\ s.context \in Nat /\ s.context <= Longest(cf) /\ Longest(cf) \in Nat
    BY FilledFacts, LengthFacts
  <2>2. p \in Nat \ {0} /\ p <= s.context /\ p <= Longest(cf) /\ p \in 1 .. s.context
    BY <2>1
  <2>3. s.cache[b][p] = Key(r, text[b], p)
    BY DEF CacheOK
  <2>4. \A q \in 1 .. p : text[b][q] \in Tokens(cf)
    BY <2>2, TextFacts
  <2>5. \A q \in 1 .. p : text2[b][q] = text[b][q]
    BY <2>1, <2>2
  <2>6. PICK x, y : x = text[b] /\ y = text2[b]
    OBVIOUS
  <2>7. SubSeq(y, 1, p) = SubSeq(x, 1, p) /\ y[p] = x[p]
    <3>1. p \in Nat /\ p \in 1 .. p
      BY <2>2
    <3>2. QED
      BY <2>4, <2>5, <2>6, <3>1, SamePrefix
  <2>8. Key(r, y, p) = Key(r, x, p)
    BY <2>7 DEF Key
  <2>9. QED
    BY <2>3, <2>6, <2>8
<1>2. QED
  BY <1>1 DEF CacheOK

(* The same words mean the same data.                                     *)
LEMMA DataSame ==
  ASSUME NEW cf \in Requests, NEW r, NEW s, NEW text \in Texts(cf), NEW text2,
         StageOK(cf, r, s),
         \A b \in 1 .. Size(cf) : \A p \in 1 .. s.context : text2[b][p] = text[b][p],
         DataOK(cf, r, s, text)
  PROVE  DataOK(cf, r, s, text2)
<1>1. CacheOK(cf, r, s, text2)
  BY CacheSame DEF DataOK
<1>2. s.prev \in Nat /\ s.context \in Nat /\ s.context <= Longest(cf) /\ Size(cf) \in Nat
  BY RequestFacts DEF StageOK
<1>3. ASSUME s.pc \in InPass
      PROVE  /\ Before(cf, s) \in Nat /\ This(cf, Width(s), s.mb) \in Nat
             /\ Before(cf, s) + This(cf, Width(s), s.mb) <= Size(cf)
             /\ 0 + Before(cf, s) <= Size(cf)
  BY <1>2, <1>3, PassFacts DEF Through
<1>4. BuffersOK(cf, r, s, text2)
  <2>1. BuffersOK(cf, r, s, text)
    BY DEF DataOK
  <2>2. ASSUME r # 0, s.pc = "compute"
        PROVE  Saw(s.recv_buffer, s, text2, Before(cf, s), This(cf, Width(s), s.mb))
    <3>1. s.pc \in InPass
      BY <2>2 DEF InPass
    <3>2. Saw(s.recv_buffer, s, text, Before(cf, s), This(cf, Width(s), s.mb))
      BY <2>1, <2>2 DEF BuffersOK
    <3>3. QED
      BY <1>2, <1>3, <3>1, <3>2, SawSame
  <2>3. ASSUME s.pc = "send"
        PROVE  Saw(s.output, s, text2, Before(cf, s), This(cf, Width(s), s.mb))
    <3>1. s.pc \in InPass
      BY <2>3 DEF InPass
    <3>2. Saw(s.output, s, text, Before(cf, s), This(cf, Width(s), s.mb))
      BY <2>1, <2>3 DEF BuffersOK
    <3>3. QED
      BY <1>2, <1>3, <3>1, <3>2, SawSame
  <2>4. QED
    BY <2>2, <2>3 DEF BuffersOK
<1>5. ASSUME r = EndStage(cf) PROVE LogitsOK(cf, s, text2)
  <2>1. LogitsOK(cf, s, text)
    BY <1>5 DEF DataOK
  <2>2. ASSUME s.pc \in InPass, s.mb > 0 PROVE Saw(s.logits, s, text2, 0, Before(cf, s))
    <3>1. Saw(s.logits, s, text, 0, Before(cf, s))
      BY <2>1, <2>2 DEF LogitsOK
    <3>2. QED
      BY <1>2, <1>3, <2>2, <3>1, SawSame
  <2>3. ASSUME s.pc \notin InPass PROVE Saw(s.logits, s, text2, 0, Size(cf))
    <3>1. Saw(s.logits, s, text, 0, Size(cf))
      BY <2>1, <2>3 DEF LogitsOK
    <3>2. 0 + Size(cf) <= Size(cf) /\ 0 \in Nat
      BY <1>2
    <3>3. QED
      BY <1>2, <3>1, <3>2, SawSame
  <2>4. QED
    BY <2>1, <2>2, <2>3 DEF LogitsOK
<1>6. QED
  BY <1>1, <1>4, <1>5 DEF DataOK

-----------------------------------------------------------------------------
(* What the steps of a stage make of its data.                             *)

\* t is s at another program point, with other tokens; caches and buffers are the same.
Still(s, t) == DOMAIN t = Fields /\ \A f \in Fields \ {"pc", "tokens"} : t[f] = s[f]

(* A stage goes on outside of a pass.                                      *)
LEMMA StillData ==
  ASSUME NEW cf, NEW r, NEW s, NEW t, NEW text, DataOK(cf, r, s, text), Still(s, t),
         s.pc \notin InPass, t.pc \notin Pass
  PROVE  DataOK(cf, r, t, text)
<1>1. /\ t.context = s.context /\ t.prev = s.prev /\ t.cache = s.cache /\ t.logits = s.logits
      /\ Width(t) = Width(s)
  BY DEF Still, Fields, Width
<1>2. /\ \A x \in {"recv", "compute", "send"} : s.pc # x /\ t.pc # x
      /\ t.pc # "forwarded" /\ t.pc \notin InPass
  BY DEF Pass, InPass
<1>3. Rows(cf, t) = Rows(cf, s)
  BY <1>2 DEF Rows
<1>4. \A b : Filled(cf, t, b) = Filled(cf, s, b)
  BY <1>1, <1>3 DEF Filled
<1>5. CacheOK(cf, r, t, text)
  BY <1>1, <1>4 DEF DataOK, CacheOK
<1>6. PassOK(cf, t) /\ BuffersOK(cf, r, t, text)
  BY <1>2 DEF PassOK, BuffersOK
<1>7. ASSUME r = EndStage(cf) PROVE LogitsOK(cf, t, text)
  <2>1. Saw(s.logits, s, text, 0, Size(cf))
    BY <1>7 DEF DataOK, LogitsOK
  <2>2. Saw(t.logits, t, text, 0, Size(cf))
    BY <1>1, <2>1 DEF Saw
  <2>3. QED
    BY <1>2, <2>2 DEF LogitsOK
<1>8. QED
  BY <1>5, <1>6, <1>7 DEF DataOK

(* A stage leaves the loop or begins the next pass: what it has cached is  *)
(* then what is before the pass.                                           *)
LEMMA TurnData ==
  ASSUME NEW cf \in Requests, NEW r, NEW s, NEW t, NEW text, StageOK(cf, r, s),
         DataOK(cf, r, s, text), s.pc \notin InPass,
         t.prev = s.context, t.cache = s.cache, t.mb = s.mb,
         \/ t.pc \notin Pass /\ t.context = s.context
         \/ t.pc = (IF r = 0 THEN "compute" ELSE "recv") /\ t.context = s.context + 1
  PROVE  DataOK(cf, r, t, text)
<1>1. PICK c \in Nat : c = s.context
  BY DEF StageOK
<1>2. s.mb = 0
  BY DEF StageOK
<1>3. \A b \in 1 .. Size(cf) : \A p \in 1 .. c : t.cache[b][p] = Key(r, text[b], p)
  <2>1. \A b \in 1 .. Size(cf) : Filled(cf, s, b) = c
    BY <1>1, FilledFacts
  <2>2. QED
    BY <2>1 DEF DataOK, CacheOK
<1>5. CASE t.pc \notin Pass /\ t.context = c
  <2>0. t.pc \notin InPass /\ t.pc # "forwarded"
    BY <1>5 DEF Pass
  <2>1. \A b : Filled(cf, t, b) = c
    BY <1>1, <1>5, <2>0 DEF Filled
  <2>2. CacheOK(cf, r, t, text)
    BY <1>3, <2>1 DEF CacheOK
  <2>3. \A x \in {"recv", "compute", "send"} : t.pc # x
    BY <2>0 DEF InPass
  <2>4. PassOK(cf, t) /\ BuffersOK(cf, r, t, text)
    BY <2>0, <2>3 DEF PassOK, BuffersOK
  <2>5. Width(t) = 0
    BY <1>1, <1>5 DEF Width
  <2>6. Saw(t.logits, t, text, 0, Size(cf))
    BY <2>5 DEF Saw
  <2>7. LogitsOK(cf, t, text)
    BY <2>0, <2>6 DEF LogitsOK
  <2>8. QED
    BY <2>2, <2>4, <2>7 DEF DataOK
<1>6. CASE t.pc = (IF r = 0 THEN "compute" ELSE "recv") /\ t.context = c + 1
  <2>1. Width(t) = 1
    BY <1>1, <1>6 DEF Width
  <2>2. Full(cf, 1) \in Nat
    BY MicroBatchFacts
  <2>3. Before(cf, t) = 0
    BY <1>2, <2>1, <2>2 DEF Before
  <2>4. t.pc \in {"recv", "compute"} /\ t.pc # "send" /\ t.pc \in InPass
    BY <1>6 DEF InPass
  <2>5. ASSUME NEW b \in 1 .. Size(cf) PROVE Filled(cf, t, b) = c
    <3>1. Rows(cf, t) = 0
      BY <2>3, <2>4 DEF Rows
    <3>2. ~(b <= Rows(cf, t))
      BY <3>1
    <3>3. QED
      BY <1>1, <3>2 DEF Filled
  <2>6. CacheOK(cf, r, t, text)
    BY <1>3, <2>5 DEF CacheOK
  <2>7. PassOK(cf, t)
    BY <2>1, <2>4 DEF PassOK, InPass
  <2>8. BuffersOK(cf, r, t, text)
    BY <1>6, <2>4 DEF BuffersOK
  <2>9. LogitsOK(cf, t, text)
    BY <1>2, <2>4 DEF LogitsOK
  <2>10. QED
    BY <2>6, <2>7, <2>8, <2>9 DEF DataOK
<1>7. QED
  BY <1>1, <1>5, <1>6

\* The data of a stage that has computed a microbatch and not yet gone on to the next one.
Computed(cf, r, s, text) ==
  /\ \A b \in 1 .. Size(cf) : \A p \in 1 .. IF b <= Through(cf, s) THEN s.context ELSE s.prev :
       s.cache[b][p] = Key(r, text[b], p)
  /\ Width(s) \in {1, FirstContext(cf)}
  /\ r = EndStage(cf) =>
       /\ s.logits \in Seq(Range(s.logits)) /\ Len(s.logits) = Through(cf, s)
       /\ Saw(s.logits, s, text, 0, Through(cf, s))

(* A stage ends a microbatch.                                              *)
LEMMA EndData ==
  ASSUME conf \in Requests, FirstPassFits(conf), NEW r \in Stages(conf), NEW s, NEW text,
         StageOK(conf, r, s), s.pc \in InPass, Computed(conf, r, s, text)
  PROVE  DataOK(conf, r, EndMicroBatch(r, s), text)
<1> DEFINE t == EndMicroBatch(r, s)
<1>1. /\ Width(s) \in Nat \ {0} /\ s.prev \in Nat /\ s.context \in Nat /\ s.mb \in Nat
      /\ s.prev + Width(s) = s.context /\ s.context <= Longest(conf)
      /\ Size(conf) \in Nat \ {0}
      /\ Through(conf, s) \in Nat /\ Through(conf, s) <= Size(conf)
      /\ s.mb + 1 < Count(conf, Width(s)) =>
           Through(conf, s) = (s.mb + 1) * Full(conf, Width(s))
      /\ ~(s.mb + 1 < Count(conf, Width(s))) => Through(conf, s) = Size(conf)
  BY PassFacts
<1>2. NumMicroBatches(s) = Count(conf, Width(s)) /\ DOMAIN s = Fields
  BY SizesOf DEF Width, StageOK
<1>3. /\ t.context = s.context /\ t.prev = s.prev /\ t.cache = s.cache /\ t.logits = s.logits
      /\ s.mb + 1 < Count(conf, Width(s)) =>
           t.pc = (IF r = 0 THEN "compute" ELSE "recv") /\ t.mb = s.mb + 1
      /\ ~(s.mb + 1 < Count(conf, Width(s))) => t.pc = "forwarded"
  BY <1>2, EndFacts DEF Fields
<1> HIDE DEF t
<1>4. Width(t) = Width(s)
  BY <1>3 DEF Width
<1>5. CASE s.mb + 1 < Count(conf, Width(s))
  <2>1. Before(conf, t) = Through(conf, s)
    BY <1>1, <1>3, <1>4, <1>5 DEF Before
  <2>2. t.pc \in {"recv", "compute"} /\ t.pc \in InPass /\ t.pc # "send"
    BY <1>3, <1>5 DEF InPass
  <2>3. \A b : Filled(conf, t, b) = IF b <= Through(conf, s) THEN s.context ELSE s.prev
    BY <1>3, <2>1, <2>2 DEF Filled, Rows
  <2>4. CacheOK(conf, r, t, text)
    BY <1>3, <2>3 DEF CacheOK, Computed
  <2>5. Width(s) = 1
    <3>1. Count(conf, Width(s)) # 1
      BY <1>1, <1>5
    <3>2. QED
      BY <3>1 DEF Computed, FirstPassFits
  <2>6. PassOK(conf, t)
    BY <1>4, <2>2, <2>5 DEF PassOK, InPass
  <2>7. BuffersOK(conf, r, t, text)
    BY <1>3, <1>5, <2>2 DEF BuffersOK
  <2>8. r = EndStage(conf) => LogitsOK(conf, t, text)
    <3>1. ASSUME r = EndStage(conf) PROVE Saw(t.logits, t, text, 0, Before(conf, t))
      BY <1>3, <1>4, <2>1, <3>1 DEF Computed, Saw
    <3>2. QED
      BY <1>3, <2>1, <2>2, <3>1 DEF LogitsOK, Computed
  <2>9. QED
    BY <2>4, <2>6, <2>7, <2>8 DEF DataOK, t
<1>6. CASE ~(s.mb + 1 < Count(conf, Width(s)))
  <2>1. t.pc \notin InPass /\ \A x \in {"recv", "compute", "send"} : t.pc # x
    BY <1>3, <1>6 DEF InPass
  <2>2. \A b : Filled(conf, t, b) = IF b <= Through(conf, s) THEN s.context ELSE s.prev
    BY <1>1, <1>3, <1>6, <2>1 DEF Filled, Rows
  <2>3. CacheOK(conf, r, t, text)
    BY <1>3, <2>2 DEF CacheOK, Computed
  <2>4. PassOK(conf, t) /\ BuffersOK(conf, r, t, text)
    <3>1. t.prev < t.context
      BY <1>1, <1>3
    <3>2. QED
      BY <2>1, <3>1 DEF PassOK, BuffersOK
  <2>5. r = EndStage(conf) => LogitsOK(conf, t, text)
    <3>1. ASSUME r = EndStage(conf) PROVE Saw(t.logits, t, text, 0, Size(conf))
      BY <1>1, <1>3, <1>4, <1>6, <3>1 DEF Computed, Saw
    <3>2. QED
      BY <2>1, <3>1 DEF LogitsOK
  <2>6. QED
    BY <2>3, <2>4, <2>5 DEF DataOK, t
<1>7. QED
  BY <1>5, <1>6


-----------------------------------------------------------------------------
(* The layers of a stage.                                                  *)

(* What enters is what the stage caches.                                   *)
LEMMA InputIsRight ==
  ASSUME conf \in Requests, NEW r, NEW s, NEW text, StageOK(conf, r, s), s.pc = "compute",
         BuffersOK(conf, r, s, text),
         r = 0 => \A b \in 1 .. Size(conf) : \A p \in 1 .. s.context : s.tokens[b][p] = text[b][p],
         NEW i \in 1 .. This(conf, Width(s), s.mb), NEW j \in 1 .. Width(s)
  PROVE  Input(r, s, i, j) = Key(r, text[Before(conf, s) + i], s.prev + j)
<1>1. s.pc \in InPass
  BY DEF InPass
<1>2. /\ Width(s) \in Nat \ {0} /\ s.prev \in Nat /\ s.context \in Nat
      /\ s.prev + Width(s) = s.context
      /\ Before(conf, s) \in Nat /\ This(conf, Width(s), s.mb) \in Nat \ {0}
      /\ Through(conf, s) = Before(conf, s) + This(conf, Width(s), s.mb)
      /\ Through(conf, s) <= Size(conf) /\ Size(conf) \in Nat
  BY <1>1, PassFacts DEF Through
<1>3. Before(conf, s) + i \in 1 .. Size(conf) /\ s.prev + j \in 1 .. s.context
  BY <1>2
<1>4. CASE r = 0
  <2>1. Start(s) = Before(conf, s)
    BY SizesOf DEF Start, Before, Width
  <2>2. Input(r, s, i, j) = <<s.tokens[Before(conf, s) + i][s.prev + j]>>
    BY <1>4, <2>1 DEF Input, FirstStage
  <2>3. s.tokens[Before(conf, s) + i][s.prev + j] = text[Before(conf, s) + i][s.prev + j]
    BY <1>3, <1>4
  <2>4. QED
    BY <1>4, <2>2, <2>3 DEF Key
<1>5. CASE r # 0
  <2>1. Input(r, s, i, j) = s.recv_buffer[i][j]
    BY <1>5 DEF Input, FirstStage
  <2>2. Saw(s.recv_buffer, s, text, Before(conf, s), This(conf, Width(s), s.mb))
    BY <1>5 DEF BuffersOK
  <2>3. s.recv_buffer[i][j] = SubSeq(text[Before(conf, s) + i], 1, s.prev + j)
    BY <2>2 DEF Saw
  <2>4. QED
    BY <1>5, <2>1, <2>3 DEF Key
<1>6. QED
  BY <1>4, <1>5

(* The rows of the microbatch are cached up to the present context.        *)
LEMMA CacheIsRight ==
  ASSUME conf \in Requests, NEW r, NEW s, NEW text, StageOK(conf, r, s), s.pc = "compute",
         CacheOK(conf, r, s, text), BuffersOK(conf, r, s, text),
         r = 0 => \A b \in 1 .. Size(conf) : \A p \in 1 .. s.context : s.tokens[b][p] = text[b][p],
         NEW b \in 1 .. Size(conf),
         NEW p \in 1 .. IF b <= Through(conf, s) THEN s.context ELSE s.prev
  PROVE  WrittenCache(r, s)[b][p] = Key(r, text[b], p)
<1> DEFINE i == b - s.batch_size_offset
           j == p - s.sequence_len_offset
<1>1. s.pc \in InPass
  BY DEF InPass
<1>2. /\ Width(s) \in Nat \ {0} /\ s.prev \in Nat /\ s.context \in Nat
      /\ s.prev + Width(s) = s.context /\ s.context <= Longest(conf)
      /\ Longest(conf) \in Nat /\ Size(conf) \in Nat
      /\ Before(conf, s) \in Nat /\ This(conf, Width(s), s.mb) \in Nat \ {0}
      /\ Through(conf, s) = Before(conf, s) + This(conf, Width(s), s.mb)
      /\ s.batch_size_offset = Before(conf, s) /\ s.sequence_len_offset = s.prev
  BY <1>1, PassFacts DEF Through
<1>3. /\ Batch = 1 .. Size(conf) /\ MaxLen = Longest(conf)
      /\ ThisMicroBatchSize(s) = This(conf, Width(s), s.mb) /\ SeqLen(s) = Width(s)
  BY SizesOf, RequestFacts DEF Width
<1>4. p \in 1 .. Longest(conf) /\ p \in Nat /\ p <= s.context
  BY <1>2
<1>5. WrittenCache(r, s)[b][p] =
        IF i \in 1 .. This(conf, Width(s), s.mb) /\ j \in 1 .. Width(s)
        THEN Input(r, s, i, j) ELSE s.cache[b][p]
  BY <1>3, <1>4, Zenon DEF WrittenCache
<1>6. CASE i \in 1 .. This(conf, Width(s), s.mb) /\ j \in 1 .. Width(s)
  <2>1. Input(r, s, i, j) = Key(r, text[Before(conf, s) + i], s.prev + j)
    BY <1>6, InputIsRight
  <2>2. Before(conf, s) + i = b /\ s.prev + j = p
    BY <1>2, <1>4
  <2>3. QED
    BY <1>5, <1>6, <2>1, <2>2
<1>7. CASE ~(i \in 1 .. This(conf, Width(s), s.mb) /\ j \in 1 .. Width(s))
  <2>1. Filled(conf, s, b) = IF b <= Before(conf, s) THEN s.context ELSE s.prev
    BY DEF Filled, Rows
  <2>2. p \in 1 .. Filled(conf, s, b)
    <3>1. CASE b <= Before(conf, s)
      BY <1>4, <2>1, <3>1
    <3>2. CASE ~(b <= Before(conf, s)) /\ b <= Through(conf, s)
      <4>1. i \in 1 .. This(conf, Width(s), s.mb)
        BY <1>2, <3>2
      <4>2. ~(j \in 1 .. Width(s))
        BY <1>7, <4>1
      <4>3. p <= s.prev
        BY <1>2, <1>4, <4>2
      <4>4. QED
        BY <1>2, <1>4, <2>1, <3>2, <4>3
    <3>3. CASE ~(b <= Before(conf, s)) /\ ~(b <= Through(conf, s))
      BY <2>1, <3>3
    <3>4. QED
      BY <3>1, <3>2, <3>3
  <2>3. s.cache[b][p] = Key(r, text[b], p)
    BY <2>2 DEF CacheOK
  <2>4. QED
    BY <1>5, <1>7, <2>3
<1>8. QED
  BY <1>6, <1>7

(* What leaves a stage has seen the right prefixes.                        *)
LEMMA OutputIsRight ==
  ASSUME conf \in Requests, NEW r, NEW s, NEW text \in Texts(conf), StageOK(conf, r, s),
         s.pc = "compute", PassOK(conf, s), CacheOK(conf, r, s, text),
         BuffersOK(conf, r, s, text),
         r = 0 => \A b \in 1 .. Size(conf) : \A p \in 1 .. s.context : s.tokens[b][p] = text[b][p],
         NEW cache, cache = WrittenCache(r, s)
  PROVE  Saw(Output(r, s, cache), s, text, Before(conf, s), This(conf, Width(s), s.mb))
<1>1. s.pc \in InPass
  BY DEF InPass
<1>2. /\ Width(s) \in Nat \ {0} /\ s.prev \in Nat /\ s.context \in Nat
      /\ s.prev + Width(s) = s.context /\ s.context <= Longest(conf)
      /\ Longest(conf) \in Nat /\ Size(conf) \in Nat
      /\ Before(conf, s) \in Nat /\ This(conf, Width(s), s.mb) \in Nat \ {0}
      /\ Through(conf, s) = Before(conf, s) + This(conf, Width(s), s.mb)
      /\ Through(conf, s) <= Size(conf)
      /\ s.batch_size_offset = Before(conf, s) /\ s.sequence_len_offset = s.prev
  BY <1>1, PassFacts DEF Through
<1>3. ThisMicroBatchSize(s) = This(conf, Width(s), s.mb) /\ SeqLen(s) = Width(s)
  BY SizesOf DEF Width
<1>4. ASSUME NEW i \in 1 .. This(conf, Width(s), s.mb), NEW j \in 1 .. Width(s)
      PROVE  Output(r, s, cache)[i][j] = SubSeq(text[Before(conf, s) + i], 1, s.prev + j)
  <2>1. QueryIsRight(s, j)
    <3>1. CASE s.allocated
      <4>1. Width(s) = 1
        BY <3>1 DEF PassOK
      <4>2. j = Width(s)
        BY <4>1
      <4>3. QED
        BY <1>3, <4>2 DEF QueryIsRight
    <3>2. QED
      BY <3>1 DEF QueryIsRight
  <2>2. Output(r, s, cache)[i][j] = Prefix(r, cache[Before(conf, s) + i], s.prev + j)
    BY <1>2, <1>3, <2>1, Zenon DEF Output
  <2>3. PICK b \in 1 .. Size(conf) : b = Before(conf, s) + i
    BY <1>2
  <2>4. PICK p \in Nat \ {0} : p = s.prev + j /\ p <= s.context /\ p <= Longest(conf)
    BY <1>2
  <2>5. \A q \in 1 .. p : text[b][q] \in Tokens(conf)
    BY <2>4, TextFacts
  <2>6. b <= Through(conf, s)
    BY <1>2, <2>3
  <2>7. ASSUME NEW q \in 1 .. p PROVE cache[b][q] = Key(r, text[b], q)
    <3>1. q \in 1 .. IF b <= Through(conf, s) THEN s.context ELSE s.prev
      BY <1>2, <2>4, <2>6
    <3>2. QED
      BY <3>1, CacheIsRight
  <2>8. PICK row, words : row = cache[b] /\ words = text[b]
    OBVIOUS
  <2>9. Prefix(r, row, p) = SubSeq(words, 1, p)
    <3>1. Keys(r, Tokens(conf), words, row, p)
      BY <2>5, <2>7, <2>8 DEF Keys
    <3>2. QED
      BY <3>1, PrefixIsRight
  <2>10. Output(r, s, cache)[i][j] = Prefix(r, cache[b], p)
    BY <2>2, <2>3, <2>4, Zenon
  <2>11. SubSeq(text[Before(conf, s) + i], 1, s.prev + j) = SubSeq(text[b], 1, p)
    BY <2>3, <2>4, Zenon
  <2>12. QED
    BY <2>8, <2>9, <2>10, <2>11, Zenon
<1>5. QED
  BY <1>4 DEF Saw

(* The last stage appends a microbatch to the logits.                      *)
LEMMA LogitsAppended ==
  ASSUME NEW cf, NEW s, NEW text, NEW output, NEW logits, NEW logits2,
         s.mb \in Nat, s.mb = 0 => Before(cf, s) = 0,
         Before(cf, s) \in Nat, This(cf, Width(s), s.mb) \in Nat,
         s.mb > 0 => /\ logits \in Seq(Range(logits)) /\ Len(logits) = Before(cf, s)
                     /\ Saw(logits, s, text, 0, Before(cf, s)),
         DOMAIN output = 1 .. This(cf, Width(s), s.mb),
         output \in Seq(Range(output)),
         Saw(output, s, text, Before(cf, s), This(cf, Width(s), s.mb)),
         logits2 = (IF s.mb = 0 THEN <<>> ELSE logits) \o output
  PROVE  /\ logits2 \in Seq(Range(logits2)) /\ Len(logits2) = Through(cf, s)
         /\ Saw(logits2, s, text, 0, Through(cf, s))
<1> DEFINE had == IF s.mb = 0 THEN <<>> ELSE logits
<1>1. PICK n \in Nat, k \in Nat : n = Before(cf, s) /\ k = This(cf, Width(s), s.mb)
  OBVIOUS
<1>2. Through(cf, s) = n + k
  BY <1>1 DEF Through
<1>3. had \in Seq(Range(had)) /\ Len(had) = n /\ Saw(had, s, text, 0, n)
  <2>1. CASE s.mb = 0
    <3>1. n = 0 /\ had = <<>>
      BY <1>1, <2>1
    <3>2. Saw(had, s, text, 0, n)
      BY <3>1 DEF Saw
    <3>3. <<>> \in Seq(Range(had)) /\ Len(<<>>) = 0
      BY EmptySeq
    <3>4. QED
      BY <3>1, <3>2, <3>3, Zenon
  <2>2. CASE s.mb # 0
    <3>1. s.mb > 0 /\ had = logits
      BY <2>2
    <3>2. QED
      BY <1>1, <3>1
  <2>3. QED
    BY <2>1, <2>2
<1> HIDE DEF had
<1> DEFINE S == Range(had) \cup Range(output)
<1>4. had \in Seq(S) /\ output \in Seq(S)
  BY <1>3
<1>5. Len(output) = k
  BY <1>1
<1> HIDE DEF S
<1>6. /\ logits2 \in Seq(S) /\ Len(logits2) = n + k
      /\ \A i \in 1 .. n + k : logits2[i] = IF i <= n THEN had[i] ELSE output[i - n]
  <2>1. logits2 = had \o output
    BY DEF had
  <2>2. /\ had \o output \in Seq(S) /\ Len(had \o output) = Len(had) + Len(output)
        /\ \A i \in 1 .. Len(had) + Len(output) :
             (had \o output)[i] = IF i <= Len(had) THEN had[i] ELSE output[i - Len(had)]
    BY <1>4, ConcatProperties
  <2>3. Len(had) = n
    BY <1>3
  <2>4. QED
    BY <1>5, <2>1, <2>2, <2>3, Zenon
<1>7. logits2 \in Seq(Range(logits2))
  BY <1>6, SeqOfRange
<1>8. ASSUME NEW i \in 1 .. n + k, NEW j \in 1 .. Width(s)
      PROVE  logits2[i][j] = SubSeq(text[0 + i], 1, s.prev + j)
  <2>1. CASE i <= n
    <3>1. i \in 1 .. n /\ logits2[i] = had[i]
      BY <1>6, <2>1
    <3>2. QED
      BY <1>3, <3>1 DEF Saw
  <2>2. CASE ~(i <= n)
    <3>1. PICK m \in 1 .. k : m = i - n /\ n + m = 0 + i
      BY <2>2
    <3>2. logits2[i] = output[m]
      BY <1>6, <2>2, <3>1
    <3>3. output[m][j] = SubSeq(text[n + m], 1, s.prev + j)
      BY <1>1 DEF Saw
    <3>4. QED
      BY <3>1, <3>2, <3>3
  <2>3. QED
    BY <2>1, <2>2
<1>9. QED
  BY <1>2, <1>6, <1>7, <1>8 DEF Saw

(* What a computation leaves.                                              *)
LEMMA ComputeFacts ==
  ASSUME Inv, NEW r \in Stage, Compute(r)
  PROVE  LET s == rank[r]
             cache == WrittenCache(r, s)
             output == Output(r, s, cache)
         IN  /\ r \in Stages(conf) /\ StageOK(conf, r, s) /\ s.pc = "compute"
             /\ DOMAIN rank' = Stages(conf)
             /\ \A q \in Stages(conf) : q # r => rank'[q] = rank[q]
             /\ r = EndStage(conf) =>
                  \E t : /\ DOMAIN t = Fields /\ t.cache = cache
                         /\ t.logits = (IF s.mb = 0 THEN <<>> ELSE s.logits) \o output
                         /\ \A f \in Fields \ {"cache", "allocated", "logits"} : t[f] = s[f]
                         /\ rank'[r] = EndMicroBatch(r, t)
             /\ r # EndStage(conf) =>
                  /\ DOMAIN rank'[r] = Fields /\ rank'[r].cache = cache
                  /\ rank'[r].pc = "send" /\ rank'[r].output = output
                  /\ \A f \in Fields \ {"pc", "cache", "allocated", "output"} : rank'[r][f] = s[f]
<1> DEFINE s == rank[r]
           cache == WrittenCache(r, s)
           output == Output(r, s, cache)
           logits == (IF s.mb = 0 THEN <<>> ELSE s.logits) \o output
           t == [s EXCEPT !.cache = cache, !.allocated = TRUE]
           last == [t EXCEPT !.logits = (IF s.mb = 0 THEN <<>> ELSE @) \o output]
           other == [t EXCEPT !.output = output, !.pc = "send"]
           computed == IF r = LastStage THEN EndMicroBatch(r, last) ELSE other
<1>1. /\ conf \in Requests /\ r \in Stages(conf) /\ StageOK(conf, r, s) /\ s.pc = "compute"
      /\ DOMAIN s = Fields /\ DOMAIN rank = Stages(conf) /\ LastStage = EndStage(conf)
  BY SizesOf DEF Inv, StagesInv, StageOK, Compute
<1>2. rank' = [rank EXCEPT ![r] = computed]
  <2>1. s.pc \in InPass
    BY <1>1 DEF InPass
  <2>2. CacheAsserts(s)
    BY <1>1, <2>1, CacheAssertsHold
  <2>3. QED
    BY <2>2, Zenon DEF Compute
<1> HIDE DEF output, cache, s
<1>3. /\ DOMAIN last = Fields /\ last.cache = cache /\ last.logits = logits
      /\ \A f \in Fields \ {"cache", "allocated", "logits"} : last[f] = s[f]
  <2>1. /\ DOMAIN t = Fields /\ t.cache = cache /\ t.logits = s.logits
        /\ \A f \in Fields \ {"cache", "allocated"} : t[f] = s[f]
    BY <1>1 DEF Fields
  <2> HIDE DEF t
  <2>2. /\ DOMAIN last = Fields /\ last.logits = (IF s.mb = 0 THEN <<>> ELSE t.logits) \o output
        /\ \A f \in Fields \ {"logits"} : last[f] = t[f]
    BY <2>1 DEF Fields
  <2> HIDE DEF last
  <2>3. last.cache = t.cache
    BY <2>2 DEF Fields
  <2>4. QED
    BY <2>1, <2>2, <2>3
<1>4. /\ DOMAIN other = Fields /\ other.cache = cache /\ other.pc = "send"
      /\ other.output = output
      /\ \A f \in Fields \ {"pc", "cache", "allocated", "output"} : other[f] = s[f]
  BY <1>1 DEF Fields
<1> HIDE DEF last, other
<1>5. /\ DOMAIN rank' = Stages(conf)
      /\ rank'[r] = IF r = EndStage(conf) THEN EndMicroBatch(r, last) ELSE other
      /\ \A q \in Stages(conf) : q # r => rank'[q] = rank[q]
  BY <1>1, <1>2
<1>6. QED
  BY <1>1, <1>3, <1>4, <1>5 DEF s, cache, output, logits

(* A computation.                                                          *)
LEMMA ComputeData ==
  ASSUME Inv, FirstPassFits(conf), NEW r \in Stage, Compute(r), NEW text \in Texts(conf),
         DataOK(conf, r, rank[r], text),
         r = 0 => \A b \in 1 .. Size(conf) : \A p \in 1 .. rank[0].context :
                    rank[0].tokens[b][p] = text[b][p]
  PROVE  DataOK(conf, r, rank'[r], text)
<1> DEFINE s == rank[r]
           cache == WrittenCache(r, s)
           output == Output(r, s, cache)
           u == rank'[r]
<1>1. /\ r \in Stages(conf) /\ StageOK(conf, r, s) /\ s.pc = "compute"
      /\ r = EndStage(conf) =>
           \E t : /\ DOMAIN t = Fields /\ t.cache = cache
                  /\ t.logits = (IF s.mb = 0 THEN <<>> ELSE s.logits) \o output
                  /\ \A f \in Fields \ {"cache", "allocated", "logits"} : t[f] = s[f]
                  /\ u = EndMicroBatch(r, t)
      /\ r # EndStage(conf) =>
           /\ DOMAIN u = Fields /\ u.cache = cache /\ u.pc = "send" /\ u.output = output
           /\ \A f \in Fields \ {"pc", "cache", "allocated", "output"} : u[f] = s[f]
  BY ComputeFacts
<1>2. conf \in Requests
  BY DEF Inv
<1>3. s.pc \in InPass /\ s.pc # "recv" /\ s.pc # "send"
  BY <1>1 DEF InPass
<1>4. DataOK(conf, r, s, text)
  OBVIOUS
<1>5. r = 0 => \A b \in 1 .. Size(conf) : \A p \in 1 .. s.context : s.tokens[b][p] = text[b][p]
  OBVIOUS
<1>6. CacheOK(conf, r, s, text) /\ PassOK(conf, s) /\ BuffersOK(conf, r, s, text)
  BY <1>4 DEF DataOK
<1> HIDE DEF u, s
<1>7. Saw(output, s, text, Before(conf, s), This(conf, Width(s), s.mb))
  BY <1>1, <1>2, <1>5, <1>6, OutputIsRight
<1>8. \A b \in 1 .. Size(conf) : \A p \in 1 .. IF b <= Through(conf, s) THEN s.context ELSE s.prev :
        cache[b][p] = Key(r, text[b], p)
  BY <1>1, <1>2, <1>5, <1>6, CacheIsRight
<1>9. DOMAIN output = 1 .. This(conf, Width(s), s.mb) /\ output \in Seq(Range(output))
  <2>1. PICK k \in Nat : k = ThisMicroBatchSize(s) /\ k = This(conf, Width(s), s.mb)
    BY <1>1, <1>2, <1>3, SizesOf, PassFacts DEF Width
  <2>2. DOMAIN output = 1 .. k
    BY <2>1 DEF Output
  <2>3. output = [i \in DOMAIN output |-> output[i]]
    BY DEF Output
  <2> HIDE DEF output
  <2>4. QED
    BY <2>1, <2>2, <2>3, OverItsRange
<1> HIDE DEF output, cache
<1>10. Width(s) \in {1, FirstContext(conf)}
  BY <1>3, <1>6 DEF PassOK
<1>11. CASE r = EndStage(conf)
  <2>1. PICK t : /\ DOMAIN t = Fields /\ t.cache = cache
                 /\ t.logits = (IF s.mb = 0 THEN <<>> ELSE s.logits) \o output
                 /\ \A f \in Fields \ {"cache", "allocated", "logits"} : t[f] = s[f]
                 /\ u = EndMicroBatch(r, t)
    BY <1>1, <1>11
  <2>2. /\ t.pc = s.pc /\ t.mb = s.mb /\ t.context = s.context /\ t.prev = s.prev
        /\ t.batch_size_offset = s.batch_size_offset
        /\ t.sequence_len_offset = s.sequence_len_offset /\ t.output = s.output
    BY <2>1 DEF Fields
  <2>3. StageOK(conf, r, t)
    BY <1>1, <2>1, <2>2 DEF StageOK
  <2>4. LogitsOK(conf, s, text)
    BY <1>4, <1>11 DEF DataOK, s
  <2>5. /\ s.mb \in Nat /\ Before(conf, s) \in Nat /\ This(conf, Width(s), s.mb) \in Nat
        /\ s.mb = 0 => Before(conf, s) = 0
    BY <1>1, <1>2, <1>3, PassFacts
  <2>6. /\ t.logits \in Seq(Range(t.logits)) /\ Len(t.logits) = Through(conf, s)
        /\ Saw(t.logits, s, text, 0, Through(conf, s))
    <3>1. s.mb > 0 => /\ s.logits \in Seq(Range(s.logits)) /\ Len(s.logits) = Before(conf, s)
                      /\ Saw(s.logits, s, text, 0, Before(conf, s))
      BY <1>3, <2>4 DEF LogitsOK
    <3>2. QED
      BY <1>7, <1>9, <2>1, <2>5, <3>1, LogitsAppended
  <2>7. Width(t) = Width(s) /\ Through(conf, t) = Through(conf, s)
    BY <2>2 DEF Width, Through, Before
  <2>8. Computed(conf, r, t, text)
    <3>1. Saw(t.logits, t, text, 0, Through(conf, t))
      BY <2>2, <2>6, <2>7 DEF Saw
    <3>2. QED
      BY <1>8, <1>10, <2>1, <2>2, <2>6, <2>7, <3>1 DEF Computed
  <2>9. QED
    BY <1>1, <1>2, <1>3, <2>1, <2>2, <2>3, <2>8, EndData DEF u
<1>12. CASE r # EndStage(conf)
  <2>1. /\ u.cache = cache /\ u.pc = "send" /\ u.output = output
        /\ u.mb = s.mb /\ u.context = s.context /\ u.prev = s.prev
    BY <1>1, <1>12 DEF Fields
  <2>2. /\ Width(u) = Width(s) /\ Before(conf, u) = Before(conf, s)
        /\ Through(conf, u) = Through(conf, s)
    BY <2>1 DEF Width, Through, Before
  <2>3. \A b : Filled(conf, u, b) = IF b <= Through(conf, s) THEN s.context ELSE s.prev
    BY <2>1, <2>2 DEF Filled, Rows
  <2>4. CacheOK(conf, r, u, text)
    BY <1>8, <2>1, <2>3 DEF CacheOK
  <2>5. PassOK(conf, u)
    BY <1>10, <2>1, <2>2 DEF PassOK
  <2>6. BuffersOK(conf, r, u, text)
    BY <1>7, <2>1, <2>2 DEF BuffersOK, Saw
  <2>7. QED
    BY <1>12, <2>4, <2>5, <2>6 DEF DataOK, u
<1>13. QED
  BY <1>11, <1>12

(* A transfer: the receiver gets the hidden states of its own microbatch.  *)
LEMMA TransferData ==
  ASSUME Inv, FirstPassFits(conf), NEW r \in Stage, Transfer(r), NEW text,
         DataOK(conf, r, rank[r], text), DataOK(conf, r + 1, rank[r + 1], text)
  PROVE  DataOK(conf, r, rank'[r], text) /\ DataOK(conf, r + 1, rank'[r + 1], text)
<1> DEFINE s == rank[r]
           u == rank[r + 1]
           s2 == rank'[r]
           u2 == rank'[r + 1]
<1>1. /\ r \in Stages(conf) /\ r + 1 \in Stages(conf) /\ r # EndStage(conf)
      /\ s.pc = "send" /\ u.pc = "recv" /\ s2 = EndMicroBatch(r, s)
      /\ u2.pc = "compute" /\ u2.recv_buffer = s.output
      /\ \A f \in Fields \ {"pc", "recv_buffer"} : u2[f] = u[f]
  BY TransferFacts
<1>2. /\ conf \in Requests /\ StageOK(conf, r, s) /\ StageOK(conf, r + 1, u)
      /\ s.context = u.context /\ s.prev = u.prev /\ Sent(conf, s) = Received(conf, u)
  BY <1>1 DEF Inv, StagesInv, SamePass, Link
<1>3. DataOK(conf, r, s, text) /\ DataOK(conf, r + 1, u, text)
  OBVIOUS
<1> HIDE DEF s, u, s2, u2
<1>4. /\ s.pc \in InPass /\ u.pc \in InPass /\ u2.pc \in InPass
      /\ s.pc # "recv" /\ s.pc # "compute" /\ u2.pc # "send"
  BY <1>1 DEF InPass
<1>5. s.mb = u.mb
  BY <1>1, <1>2, <1>4 DEF Sent, Received
<1>6. /\ Width(s) = Width(u) /\ Before(conf, s) = Before(conf, u)
      /\ Width(u2) = Width(u) /\ Before(conf, u2) = Before(conf, u)
      /\ u2.mb = u.mb /\ u2.prev = u.prev /\ u2.context = u.context /\ u2.cache = u.cache
      /\ u2.logits = u.logits /\ u2.allocated = u.allocated
  BY <1>1, <1>2, <1>5 DEF Width, Before, Fields
<1>7. DataOK(conf, r, s2, text)
  <2>1. \A b : Filled(conf, s, b) = IF b <= Through(conf, s) THEN s.context ELSE s.prev
    BY <1>1, <1>4 DEF Filled, Rows
  <2>2. CacheOK(conf, r, s, text) /\ PassOK(conf, s)
    BY <1>3 DEF DataOK
  <2>3. Computed(conf, r, s, text)
    BY <1>1, <1>4, <2>1, <2>2 DEF CacheOK, PassOK, Computed
  <2>4. QED
    BY <1>1, <1>2, <1>4, <2>3, EndData
<1>8. DataOK(conf, r + 1, u2, text)
  <2>1. Rows(conf, u2) = Before(conf, u) /\ Rows(conf, u) = Before(conf, u)
    BY <1>1, <1>6 DEF Rows
  <2>2. \A b : Filled(conf, u2, b) = Filled(conf, u, b)
    BY <1>6, <2>1 DEF Filled
  <2>3. CacheOK(conf, r + 1, u2, text)
    BY <1>3, <1>6, <2>2 DEF DataOK, CacheOK
  <2>4. PassOK(conf, u2)
    BY <1>1, <1>3, <1>4, <1>6 DEF DataOK, PassOK
  <2>5. Saw(s.output, s, text, Before(conf, s), This(conf, Width(s), s.mb))
    BY <1>1, <1>3 DEF DataOK, BuffersOK
  <2>6. Saw(u2.recv_buffer, u2, text, Before(conf, u2), This(conf, Width(u2), u2.mb))
    BY <1>1, <1>2, <1>5, <1>6, <2>5 DEF Saw
  <2>7. BuffersOK(conf, r + 1, u2, text)
    BY <1>4, <2>6 DEF BuffersOK
  <2>8. r + 1 = EndStage(conf) => LogitsOK(conf, u2, text)
    <3>1. ASSUME r + 1 = EndStage(conf) PROVE LogitsOK(conf, u2, text)
      <4>1. LogitsOK(conf, u, text)
        BY <1>3, <3>1 DEF DataOK
      <4>2. QED
        BY <1>4, <1>6, <4>1 DEF LogitsOK, Saw
    <3>2. QED
      BY <3>1
  <2>9. QED
    BY <2>3, <2>4, <2>7, <2>8 DEF DataOK
<1>9. QED
  BY <1>7, <1>8 DEF s2, u2

-----------------------------------------------------------------------------
(* The steps of a generation, as far as data go.                           *)

\* A pass leaves the words and the positions alone.
Within(cf, rk, rk2) ==
  \A r \in Stages(cf) :
    /\ rk2[r].tokens = rk[r].tokens /\ rk2[r].context = rk[r].context /\ rk2[r].prev = rk[r].prev
    /\ rk2[r].pc = rk[r].pc \/ {rk[r].pc, rk2[r].pc} \subseteq Pass

\* Some stages go on outside of a pass.
Onward(s, t) == Still(s, t) /\ s.pc \notin InPass /\ t.pc \notin Pass
OnlyOnward(cf, rk, rk2) == \A r \in Stages(cf) : rk2[r] = rk[r] \/ Onward(rk[r], rk2[r])

(* The stages of a request.                                                *)
LEMMA StageFacts ==
  ASSUME Inv
  PROVE  /\ conf \in Requests /\ StagesInv(conf, rank) /\ DOMAIN rank = Stages(conf)
         /\ \A r \in Stages(conf) : StageOK(conf, r, rank[r]) /\ DOMAIN rank[r] = Fields
         /\ Stage = Stages(conf) /\ LastStage = EndStage(conf) /\ FirstStage = 0
         /\ 0 \in Stages(conf) /\ EndStage(conf) \in Stages(conf)
         /\ Batch = 1 .. Size(conf) /\ MaxLen = Longest(conf)
<1>1. conf \in Requests /\ StagesInv(conf, rank)
  BY DEF Inv
<1>2. 0 \in Stages(conf) /\ EndStage(conf) \in Stages(conf)
  BY <1>1, RequestFacts DEF Stages, EndStage
<1>3. /\ Stage = Stages(conf) /\ LastStage = EndStage(conf) /\ FirstStage = 0
      /\ Batch = 1 .. Size(conf) /\ MaxLen = Longest(conf)
  BY <1>1, SizesOf, RequestFacts
<1>4. QED
  BY <1>1, <1>2, <1>3 DEF StagesInv, StageOK

(* A stage whose program point changes.                                    *)
LEMMA StillByPc ==
  ASSUME NEW s, DOMAIN s = Fields, NEW p
  PROVE  /\ Still(s, [s EXCEPT !.pc = p]) /\ [s EXCEPT !.pc = p].pc = p
         /\ [s EXCEPT !.pc = p].tokens = s.tokens
BY DEF Still, Fields

(* A single stage goes to program point p.                                 *)
LEMMA OneGoesOn ==
  ASSUME Inv, NEW r \in Stages(conf), NEW p, rank' = [rank EXCEPT ![r].pc = p]
  PROVE  /\ rank'[r].pc = p /\ rank'[r].tokens = rank[r].tokens /\ Still(rank[r], rank'[r])
         /\ \A q \in Stages(conf) : q # r => rank'[q] = rank[q]
<1>1. DOMAIN rank = Stages(conf) /\ DOMAIN rank[r] = Fields
  BY StageFacts
<1>2. PICK s, t : s = rank[r] /\ DOMAIN s = Fields /\ t = [s EXCEPT !.pc = p]
  BY <1>1
<1>3. Still(s, t) /\ t.pc = p /\ t.tokens = s.tokens
  BY <1>2, StillByPc
<1>4. rank'[r] = t /\ \A q \in Stages(conf) : q # r => rank'[q] = rank[q]
  BY <1>1, <1>2
<1>5. QED
  BY <1>2, <1>3, <1>4

\* The first and the last stage go on after a collective.
BothGoOn(rk, rk2, op, op2) ==
  \A r \in Stages(conf) :
    IF r \in {0, EndStage(conf)}
    THEN rk[r].pc = op /\ rk2[r].pc = op2 /\ Still(rk[r], rk2[r])
    ELSE rk2[r] = rk[r]

(* The results.                                                            *)
LEMMA ReturnFacts ==
  ASSUME Inv, NEW op \in EmbeddingOps, Meet(op),
         rank' = [r \in Stage |-> IF r \in Group(op)
                                  THEN [rank[r] EXCEPT !.pc = After(op)] ELSE rank[r]]
  PROVE  /\ BothGoOn(rank, rank', op, After(op))
         /\ \A r \in Stages(conf) : rank'[r].tokens = rank[r].tokens
<1>1. Stage = Stages(conf) /\ Group(op) = {0, EndStage(conf)}
  BY StageFacts, Groups
<1>2. ASSUME NEW r \in Stages(conf), r \in {0, EndStage(conf)}
      PROVE  /\ rank[r].pc = op /\ rank'[r].pc = After(op) /\ Still(rank[r], rank'[r])
             /\ rank'[r].tokens = rank[r].tokens
  <2>1. rank'[r] = [rank[r] EXCEPT !.pc = After(op)] /\ rank[r].pc = op
    BY <1>1, <1>2 DEF Meet
  <2>2. PICK s, op2 : s = rank[r] /\ DOMAIN s = Fields /\ op2 = After(op)
    BY StageFacts
  <2>3. PICK t : t = [s EXCEPT !.pc = op2]
    OBVIOUS
  <2>4. Still(s, t) /\ t.pc = op2 /\ t.tokens = s.tokens
    BY <2>2, <2>3, StillByPc
  <2>5. rank'[r] = t
    BY <2>1, <2>2, <2>3
  <2>6. QED
    BY <2>1, <2>2, <2>4, <2>5
<1>3. \A r \in Stages(conf) : r \notin {0, EndStage(conf)} => rank'[r] = rank[r]
  BY <1>1
<1>4. QED
  BY <1>2, <1>3 DEF BothGoOn

(* The copy to the first stage.                                            *)
LEMMA CopyFacts ==
  ASSUME Inv, CopyToFirst
  PROVE  /\ BothGoOn(rank, rank', "copy", "done")
         /\ \A r \in {0, EndStage(conf)} : rank'[r].tokens = Copied(r)
<1>1. /\ Stage = Stages(conf) /\ "copy" \in EmbeddingOps
      /\ 0 \in Stages(conf) /\ EndStage(conf) \in Stages(conf)
  BY StageFacts DEF EmbeddingOps
<1>2. Group("copy") = {0, EndStage(conf)} /\ After("copy") = "done"
  BY <1>1, Groups DEF After
<1>3. ASSUME NEW r \in Stages(conf), r \in {0, EndStage(conf)}
      PROVE  /\ rank[r].pc = "copy" /\ rank'[r].pc = "done" /\ Still(rank[r], rank'[r])
             /\ rank'[r].tokens = Copied(r)
  <2>1. /\ rank'[r] = [rank[r] EXCEPT !.tokens = Copied(r), !.pc = After("copy")]
        /\ rank[r].pc = "copy"
    BY <1>1, <1>2, <1>3 DEF CopyToFirst, Meet
  <2>2. PICK s, tokens, op2 :
          s = rank[r] /\ DOMAIN s = Fields /\ tokens = Copied(r) /\ op2 = After("copy")
    BY StageFacts
  <2>3. PICK t : t = [s EXCEPT !.tokens = tokens, !.pc = op2]
    OBVIOUS
  <2>4. Still(s, t) /\ t.pc = op2 /\ t.tokens = tokens
    BY <2>2, <2>3 DEF Still, Fields
  <2>5. rank'[r] = t
    BY <2>1, <2>2, <2>3
  <2>6. QED
    BY <1>2, <2>1, <2>2, <2>4, <2>5
<1>4. \A r \in Stages(conf) : r \notin {0, EndStage(conf)} => rank'[r] = rank[r]
  BY <1>1, <1>2 DEF CopyToFirst
<1>5. QED
  BY <1>1, <1>3, <1>4 DEF BothGoOn

\* The words of the last stage and its answer after it has sampled.
AfterSampling(cf, s, t, ans, ans2, sample) ==
  /\ t = [b \in 1 .. Size(cf) |->
            IF Len(cf.prompts[b]) <= s.context
            THEN [s.tokens[b] EXCEPT ![s.context + 1] = sample[b]] ELSE s.tokens[b]]
  /\ LET done == {b \in 1 .. Size(cf) : /\ Len(cf.prompts[b]) <= s.context
                                        /\ StopsAt(cf, t[b], s.context + 1)}
     IN /\ ans2.finished = ans.finished \cup done
        /\ ans2.lengths = [b \in 1 .. Size(cf) |->
                             IF b \in done \ ans.finished THEN s.context + 1 ELSE ans.lengths[b]]
        /\ ans2.log_probs = IF cf.log_probs THEN Gathered(s, t, ans.log_probs) ELSE ans.log_probs

(* A token is sampled.                                                     *)
LEMMA SampleFacts ==
  ASSUME Inv, conf.task = "generate", Sample, DOMAIN answer = Stages(conf)
  PROVE  LET last == EndStage(conf)
         IN  /\ rank[last].pc = "forwarded" /\ rank'[last].pc = "copy" /\ ToGenerate
             /\ Still(rank[last], rank'[last])
             /\ \A q \in Stages(conf) : q # last => rank'[q] = rank[q]
             /\ \E sample \in [1 .. Size(conf) -> Vocab] :
                  AfterSampling(conf, rank[last], rank'[last].tokens, answer[last], answer'[last],
                                sample)
             /\ DOMAIN answer' = Stages(conf)
             /\ DOMAIN answer'[last] = {"lengths", "log_probs", "finished"}
             /\ \A q \in Stages(conf) : q # last => answer'[q] = answer[q]
<1> DEFINE last == EndStage(conf)
           s == rank[LastStage]
           Text(sample) == [b \in Batch |->
                               IF Started(b, s)
                               THEN [s.tokens[b] EXCEPT ![s.context + 1] = sample[b]]
                               ELSE s.tokens[b]]
           Done(sample) == [b \in Batch |->
                              Started(b, s) /\ Stops(Text(sample)[b], s.context + 1)]
<1>1. /\ LastStage = last /\ last \in Stages(conf) /\ Batch = 1 .. Size(conf)
      /\ DOMAIN rank = Stages(conf) /\ DOMAIN s = Fields
  BY StageFacts
<1>2. s.pc = "forwarded" /\ ToGenerate
  BY DEF Sample
<1>3. PICK sample \in [Batch -> Vocab] :
        /\ rank' = [rank EXCEPT ![LastStage].tokens = Text(sample), ![LastStage].pc = "copy"]
        /\ answer' = [answer EXCEPT ![LastStage] =
              [lengths |-> [b \in Batch |-> IF JustFinished(Done(sample), b) THEN s.context + 1
                                            ELSE @.lengths[b]],
               log_probs |-> IF conf.log_probs THEN Gathered(s, Text(sample), @.log_probs)
                             ELSE @.log_probs,
               finished |-> @.finished \cup {b \in Batch : Done(sample)[b]}]]
  BY Zenon DEF Sample
<1>4. PICK words, done : words = Text(sample) /\ done = Done(sample)
  OBVIOUS
<1>5. rank' = [rank EXCEPT ![LastStage].tokens = words, ![LastStage].pc = "copy"]
  BY <1>3, <1>4
<1>6. /\ rank'[last].pc = "copy" /\ rank'[last].tokens = words /\ Still(rank[last], rank'[last])
      /\ \A q \in Stages(conf) : q # last => rank'[q] = rank[q]
  <2>1. PICK v : v = rank[last] /\ DOMAIN v = Fields
    BY <1>1
  <2>2. PICK w : w = [v EXCEPT !.tokens = words, !.pc = "copy"]
    OBVIOUS
  <2>3. Still(v, w) /\ w.pc = "copy" /\ w.tokens = words
    BY <2>1, <2>2 DEF Still, Fields
  <2>4. rank'[last] = w /\ \A q \in Stages(conf) : q # last => rank'[q] = rank[q]
    BY <1>1, <1>5, <2>1, <2>2
  <2>5. QED
    BY <2>1, <2>3, <2>4
<1> DEFINE lengths == [b \in Batch |-> IF JustFinished(done, b) THEN s.context + 1
                                      ELSE answer[LastStage].lengths[b]]
           log_probs == IF conf.log_probs THEN Gathered(s, words, answer[LastStage].log_probs)
                        ELSE answer[LastStage].log_probs
           finished == answer[LastStage].finished \cup {b \in Batch : done[b]}
<1>7. answer' = [answer EXCEPT ![LastStage] =
                   [lengths |-> lengths, log_probs |-> log_probs, finished |-> finished]]
  BY <1>3, <1>4, Zenon
<1> HIDE DEF lengths, log_probs, finished, Text, Done
<1>8. /\ DOMAIN answer' = Stages(conf)
      /\ DOMAIN answer'[last] = {"lengths", "log_probs", "finished"}
      /\ answer'[last].lengths = lengths /\ answer'[last].log_probs = log_probs
      /\ answer'[last].finished = finished
      /\ \A q \in Stages(conf) : q # last => answer'[q] = answer[q]
  BY <1>1, <1>7
<1>9. words = [b \in 1 .. Size(conf) |->
                 IF Len(conf.prompts[b]) <= rank[last].context
                 THEN [rank[last].tokens[b] EXCEPT ![rank[last].context + 1] = sample[b]]
                 ELSE rank[last].tokens[b]]
  BY <1>1, <1>4 DEF Text, Started, PromptLen
<1>10. \A b \in 1 .. Size(conf) :
         done[b] <=> /\ Len(conf.prompts[b]) <= rank[last].context
                     /\ StopsAt(conf, words[b], rank[last].context + 1)
  BY <1>1, <1>4, Zenon DEF Text, Done, Started, PromptLen, Stops, StopsAt
<1>11. AfterSampling(conf, rank[last], words, answer[last], answer'[last], sample)
  <2>1. finished = answer[last].finished
                     \cup {b \in 1 .. Size(conf) :
                             /\ Len(conf.prompts[b]) <= rank[last].context
                             /\ StopsAt(conf, words[b], rank[last].context + 1)}
    BY <1>1, <1>10 DEF finished
  <2>2. QED
    BY <1>1, <1>8, <1>9, <1>10, <2>1 DEF AfterSampling, JustFinished, lengths, log_probs
<1>12. sample \in [1 .. Size(conf) -> Vocab]
  BY <1>1, <1>3
<1>13. QED
  BY <1>1, <1>2, <1>6, <1>8, <1>11, <1>12

\* The stages leave the loop, or begin the pass over the next position.
TurnOf(s, t, r, leave) ==
  /\ s.pc = "done" /\ t.prev = s.context
  /\ t.cache = s.cache /\ t.mb = s.mb /\ t.tokens = s.tokens
  /\ leave => t.pc = "lengths" /\ t.context = s.context
  /\ ~leave => t.pc = (IF r = 0 THEN "compute" ELSE "recv") /\ t.context = s.context + 1

(* The end of a turn.                                                      *)
LEMMA TurnFacts ==
  ASSUME Inv, BroadcastDone
  PROVE  \E leave \in BOOLEAN :
           /\ leave <=> \/ /\ conf.early_termination
                           /\ answer[EndStage(conf)].finished = 1 .. Size(conf)
                        \/ rank[EndStage(conf)].context + 1 = Longest(conf)
           /\ \A r \in Stages(conf) : TurnOf(rank[r], rank'[r], r, leave)
<1>1. /\ Stage = Stages(conf) /\ MaxLen = Longest(conf) /\ LastStage = EndStage(conf)
      /\ EndStage(conf) \in Stages(conf) /\ Batch = 1 .. Size(conf)
      /\ \A r \in Stages(conf) : DOMAIN rank[r] = Fields
  BY StageFacts
<1>2. \A r \in Stages(conf) : rank[r].pc = "done"
  BY <1>1, Groups DEF BroadcastDone, Meet, EmbeddingOps
<1>3. rank' = [r \in Stage |->
                 LET s == [rank[r] EXCEPT !.prev = rank[r].context]
                 IN IF LeavesLoop(r) THEN [s EXCEPT !.pc = "lengths"]
                    ELSE BeginMicroBatch(r, [s EXCEPT !.context = @ + 1])]
  BY DEF BroadcastDone
<1>4. PICK leave \in BOOLEAN :
        leave <=> \/ /\ conf.early_termination
                     /\ answer[EndStage(conf)].finished = 1 .. Size(conf)
                  \/ rank[EndStage(conf)].context + 1 = Longest(conf)
  OBVIOUS
<1>5. \A r \in Stages(conf) : LeavesLoop(r) <=> leave
  <2>1. \A r \in Stages(conf) : rank[r].context = rank[EndStage(conf)].context
    BY <1>1 DEF Inv, StagesInv, SamePass
  <2>2. QED
    BY <1>1, <1>4, <2>1 DEF LeavesLoop
<1>6. ASSUME NEW r \in Stages(conf) PROVE TurnOf(rank[r], rank'[r], r, leave)
  <2>1. PICK s, d : s = rank[r] /\ d = rank[r].context /\ DOMAIN s = Fields
    BY <1>1
  <2>2. CASE leave
    <3>1. rank'[r] = [[rank[r] EXCEPT !.prev = rank[r].context] EXCEPT !.pc = "lengths"]
      BY <1>1, <1>3, <1>5, <2>2
    <3>2. PICK t : t = [[s EXCEPT !.prev = d] EXCEPT !.pc = "lengths"]
      OBVIOUS
    <3>3. /\ t.pc = "lengths" /\ t.prev = d /\ t.context = s.context /\ t.cache = s.cache
          /\ t.mb = s.mb /\ t.tokens = s.tokens
      BY <2>1, <3>2 DEF Fields
    <3>4. rank'[r] = t
      BY <2>1, <3>1, <3>2
    <3>5. QED
      BY <1>2, <2>1, <2>2, <3>3, <3>4 DEF TurnOf
  <2>3. CASE ~leave
    <3>1. rank'[r] = BeginMicroBatch(r, [[rank[r] EXCEPT !.prev = rank[r].context]
                                           EXCEPT !.context = @ + 1])
      BY <1>1, <1>3, <1>5, <2>3
    <3>2. PICK t : t = [[s EXCEPT !.prev = d] EXCEPT !.context = @ + 1]
      OBVIOUS
    <3>3. /\ DOMAIN t = Fields /\ t.prev = d /\ t.context = d + 1 /\ t.cache = s.cache
          /\ t.mb = s.mb /\ t.tokens = s.tokens
      BY <2>1, <3>2 DEF Fields
    <3>4. rank'[r] = BeginMicroBatch(r, t)
      BY <2>1, <3>1, <3>2
    <3>5. /\ rank'[r].pc = IF r = 0 THEN "compute" ELSE "recv"
          /\ \A f \in Fields \ {"pc"} : rank'[r][f] = t[f]
      BY <3>3, <3>4, BeginFacts
    <3>6. /\ rank'[r].prev = d /\ rank'[r].context = d + 1 /\ rank'[r].cache = s.cache
          /\ rank'[r].mb = s.mb /\ rank'[r].tokens = s.tokens
      BY <3>3, <3>5 DEF Fields
    <3>7. QED
      BY <1>2, <2>1, <2>3, <3>5, <3>6 DEF TurnOf
  <2>4. QED
    BY <2>2, <2>3
<1>7. QED
  BY <1>4, <1>6

-----------------------------------------------------------------------------
(* Every step of a generation keeps the data right.                        *)

(* Stages that go on outside of a pass.                                    *)
LEMMA OnwardData ==
  ASSUME NEW cf \in Requests, NEW rk, NEW rk2, DataInv(cf, rk), OnlyOnward(cf, rk, rk2),
         rk2[EndStage(cf)].tokens = rk[EndStage(cf)].tokens, TokensOK(cf, rk2)
  PROVE  DataInv(cf, rk2)
<1>1. PICK text : text = rk[EndStage(cf)].tokens
  OBVIOUS
<1>2. ASSUME NEW r \in Stages(cf) PROVE DataOK(cf, r, rk2[r], text)
  <2>1. DataOK(cf, r, rk[r], text)
    BY <1>1 DEF DataInv
  <2>2. PICK s, t : s = rk[r] /\ t = rk2[r] /\ (t = s \/ Onward(s, t))
    BY DEF OnlyOnward
  <2>3. DataOK(cf, r, t, text)
    BY <2>1, <2>2, StillData DEF Onward
  <2>4. QED
    BY <2>2, <2>3
<1>3. QED
  BY <1>1, <1>2 DEF DataInv

(* A step of a pass.                                                       *)
LEMMA ForwardData ==
  ASSUME Inv, FirstPassFits(conf), DataInv(conf, rank), Forward
  PROVE  DataInv(conf, rank') /\ Within(conf, rank, rank')
<1> DEFINE text == rank[EndStage(conf)].tokens
           rk == rank
           rk2 == rank'
<1>1. /\ conf \in Requests /\ Stage = Stages(conf) /\ StagesInv(conf, rank)
      /\ \A r \in Stages(conf) : StageOK(conf, r, rank[r]) /\ DOMAIN rank[r] = Fields
      /\ 0 \in Stages(conf) /\ EndStage(conf) \in Stages(conf)
  BY StageFacts
<1>2. /\ text \in Texts(conf) /\ \A r \in Stages(conf) : DataOK(conf, r, rank[r], text)
      /\ \A b \in 1 .. Size(conf) : \A p \in 1 .. rank[0].context :
           rank[0].tokens[b][p] = text[b][p]
  <2>1. rank[0].context \in Nat
    BY <1>1 DEF StageOK
  <2>2. \A p \in 1 .. rank[0].context : p \in 1 .. Known(conf, rank[0])
    BY <2>1 DEF Known
  <2>3. QED
    BY <2>2 DEF DataInv, TokensOK
<1>3. /\ Within(conf, rk, rk2)
      /\ \A r \in Stages(conf) : DataOK(conf, r, rk2[r], text)
  <2>1. ASSUME NEW r \in Stage, Compute(r)
        PROVE  /\ Within(conf, rk, rk2)
               /\ \A q \in Stages(conf) : DataOK(conf, q, rk2[q], text)
    <3>1. /\ rank[r].pc = "compute"
          /\ \A q \in Stages(conf) : q # r => rank'[q] = rank[q]
          /\ r = EndStage(conf) =>
               \E t : /\ DOMAIN t = Fields
                      /\ \A f \in Fields \ {"cache", "allocated", "logits"} : t[f] = rank[r][f]
                      /\ rank'[r] = EndMicroBatch(r, t)
          /\ r # EndStage(conf) =>
               /\ rank'[r].pc = "send"
               /\ \A f \in Fields \ {"pc", "cache", "allocated", "output"} :
                    rank'[r][f] = rank[r][f]
      BY <2>1, ComputeFacts
    <3>2. DataOK(conf, r, rank'[r], text)
      BY <1>1, <1>2, <2>1, ComputeData
    <3>3. /\ rank'[r].tokens = rank[r].tokens /\ rank'[r].context = rank[r].context
          /\ rank'[r].prev = rank[r].prev /\ rank'[r].pc \in Pass
      <4>1. CASE r = EndStage(conf)
        <5>1. PICK t : /\ DOMAIN t = Fields
                       /\ \A f \in Fields \ {"cache", "allocated", "logits"} : t[f] = rank[r][f]
                       /\ rank'[r] = EndMicroBatch(r, t)
          BY <3>1, <4>1
        <5>2. t.tokens = rank[r].tokens /\ t.context = rank[r].context /\ t.prev = rank[r].prev
          BY <5>1 DEF Fields
        <5>3. /\ rank'[r].tokens = t.tokens /\ rank'[r].context = t.context
              /\ rank'[r].prev = t.prev /\ rank'[r].pc \in {"recv", "compute", "forwarded"}
          BY <5>1, EndFacts DEF Fields
        <5>4. QED
          BY <5>2, <5>3 DEF Pass, InPass
      <4>2. CASE r # EndStage(conf)
        BY <3>1, <4>2 DEF Fields, Pass, InPass
      <4>3. QED
        BY <4>1, <4>2
    <3>4. rank[r].pc \in Pass
      BY <3>1 DEF Pass, InPass
    <3>5. QED
      BY <1>2, <3>1, <3>2, <3>3, <3>4 DEF Within
  <2>2. ASSUME NEW r \in Stage, Transfer(r)
        PROVE  /\ Within(conf, rk, rk2)
               /\ \A q \in Stages(conf) : DataOK(conf, q, rk2[q], text)
    <3>1. /\ r \in Stages(conf) /\ r + 1 \in Stages(conf)
          /\ rank[r].pc = "send" /\ rank[r + 1].pc = "recv"
          /\ rank'[r] = EndMicroBatch(r, rank[r])
          /\ rank'[r + 1].pc = "compute"
          /\ \A f \in Fields \ {"pc", "recv_buffer"} : rank'[r + 1][f] = rank[r + 1][f]
          /\ \A q \in Stages(conf) : q # r /\ q # r + 1 => rank'[q] = rank[q]
      BY <2>2, TransferFacts
    <3>2. DataOK(conf, r, rank'[r], text) /\ DataOK(conf, r + 1, rank'[r + 1], text)
      BY <1>2, <2>2, <3>1, TransferData
    <3>3. /\ rank'[r].tokens = rank[r].tokens /\ rank'[r].context = rank[r].context
          /\ rank'[r].prev = rank[r].prev /\ rank'[r].pc \in {"recv", "compute", "forwarded"}
      BY <1>1, <3>1, EndFacts DEF Fields
    <3>4. /\ rank'[r + 1].tokens = rank[r + 1].tokens
          /\ rank'[r + 1].context = rank[r + 1].context
          /\ rank'[r + 1].prev = rank[r + 1].prev
      BY <3>1 DEF Fields
    <3>5. {rank[r].pc, rank'[r].pc, rank[r + 1].pc, rank'[r + 1].pc} \subseteq Pass
      BY <3>1, <3>3 DEF Pass, InPass
    <3>6. QED
      BY <1>2, <3>1, <3>2, <3>3, <3>4, <3>5 DEF Within
  <2>3. QED
    BY <2>1, <2>2 DEF Forward
<1>4. rk2[EndStage(conf)].tokens = text
  BY <1>1, <1>3 DEF Within
<1>5. TokensOK(conf, rk2)
  <2>1. /\ rk2[0].tokens = rk[0].tokens /\ rk2[0].context = rk[0].context
        /\ rk2[0].pc = rk[0].pc \/ {rk[0].pc, rk2[0].pc} \subseteq Pass
    BY <1>1, <1>3 DEF Within
  <2>2. Known(conf, rk2[0]) = Known(conf, rk[0])
    BY <2>1 DEF Known, AfterCopy, Pass, InPass
  <2>3. TokensOK(conf, rk)
    BY DEF DataInv
  <2>4. QED
    BY <1>4, <2>1, <2>2, <2>3 DEF TokensOK
<1>6. DataInv(conf, rk2)
  BY <1>3, <1>4, <1>5 DEF DataInv
<1>7. QED
  BY <1>3, <1>6

(* While the last stage samples, no other has gone past the copy.          *)
LEMMA BeforeCopy ==
  ASSUME Inv, conf.task = "generate", ToGenerate,
         rank[EndStage(conf)].pc \in {"forwarded", "copy"}
  PROVE  rank[0].pc \notin AfterCopy
<1>1. /\ conf \in Requests /\ SameSection(conf, rank) /\ EndsTogether(conf, rank)
      /\ 0 \in Stages(conf) /\ EndStage(conf) \in Stages(conf)
  BY StageFacts DEF StagesInv
<1>2. PICK S \in Sections(conf) : \A r \in Stages(conf) : rank[r].pc \in S
  BY <1>1 DEF SameSection
<1>3. S = Pass \cup {"copy", "done"}
  BY <1>1, <1>2, GenerateSections
<1>4. rank[0].pc # "done"
  BY <1>1, GenerateSections DEF EndsTogether
<1>5. QED
  BY <1>1, <1>2, <1>3, <1>4 DEF AfterCopy, Pass, InPass

(* Sampling changes only what comes behind the context.                    *)
LEMMA SampledText ==
  ASSUME NEW cf \in Requests, NEW s, s.tokens \in Texts(cf), s.context \in Nat,
         s.context < Longest(cf), NEW t, NEW ans, NEW ans2,
         NEW sample \in [1 .. Size(cf) -> Vocab], AfterSampling(cf, s, t, ans, ans2, sample)
  PROVE  /\ t \in Texts(cf)
         /\ \A b \in 1 .. Size(cf) : \A p : p # s.context + 1 \/ s.context < Len(cf.prompts[b]) =>
              (p \in 1 .. Longest(cf) => t[b][p] = s.tokens[b][p])
<1>1. t = [b \in 1 .. Size(cf) |->
             IF Len(cf.prompts[b]) <= s.context
             THEN [s.tokens[b] EXCEPT ![s.context + 1] = sample[b]] ELSE s.tokens[b]]
  BY DEF AfterSampling
<1>2. Longest(cf) \in Nat /\ \A b \in 1 .. Size(cf) : Len(cf.prompts[b]) \in Nat
  BY LengthFacts, RequestFacts
<1>3. PICK c \in 1 .. Longest(cf) : c = s.context + 1
  BY <1>2
<1>4. ASSUME NEW b \in 1 .. Size(cf)
      PROVE  /\ t[b] \in [1 .. Longest(cf) -> Tokens(cf)]
             /\ \A p \in 1 .. Longest(cf) :
                  p # c \/ s.context < Len(cf.prompts[b]) => t[b][p] = s.tokens[b][p]
  <2>1. PICK x, w : x = s.tokens[b] /\ w = sample[b]
    OBVIOUS
  <2>2. x \in [1 .. Longest(cf) -> Tokens(cf)] /\ w \in Tokens(cf)
    BY <2>1 DEF Texts, Tokens
  <2>3. CASE Len(cf.prompts[b]) <= s.context
    <3>1. t[b] = [x EXCEPT ![c] = w]
      BY <1>1, <1>3, <2>1, <2>3
    <3>2. QED
      BY <1>2, <2>1, <2>2, <2>3, <3>1
  <2>4. CASE ~(Len(cf.prompts[b]) <= s.context)
    BY <1>1, <2>1, <2>2, <2>4
  <2>5. QED
    BY <2>3, <2>4
<1>5. t \in Texts(cf)
  BY <1>1, <1>4 DEF Texts
<1>6. QED
  BY <1>3, <1>4, <1>5

(* Sampling.                                                               *)
LEMMA SampleData ==
  ASSUME Inv, conf.task = "generate", DataInv(conf, rank), DOMAIN answer = Stages(conf), Sample
  PROVE  DataInv(conf, rank')
<1> DEFINE last == EndStage(conf)
           rk == rank
           rk2 == rank'
<1>1. /\ conf \in Requests /\ Stage = Stages(conf) /\ StagesInv(conf, rk)
      /\ \A r \in Stages(conf) : StageOK(conf, r, rk[r]) /\ DOMAIN rk[r] = Fields
      /\ 0 \in Stages(conf) /\ last \in Stages(conf)
  BY StageFacts
<1>2. /\ rk[last].pc = "forwarded" /\ rk2[last].pc = "copy" /\ ToGenerate
      /\ Still(rk[last], rk2[last])
      /\ \A q \in Stages(conf) : q # last => rk2[q] = rk[q]
  BY SampleFacts
<1>3. PICK sample, a, a2 :
        /\ sample \in [1 .. Size(conf) -> Vocab]
        /\ AfterSampling(conf, rk[last], rk2[last].tokens, a, a2, sample)
  BY SampleFacts
<1>4. PICK c \in Nat : /\ \A r \in Stages(conf) : rk[r].context = c
                       /\ c < Longest(conf) /\ rk2[0].context = c
  <2>1. conf.tokens_to_generate > 0
    BY <1>2 DEF ToGenerate
  <2>2. rk[last].context \in Nat /\ rk[last].context < Longest(conf)
    BY <1>1, <2>1 DEF StageOK
  <2>3. \A r \in Stages(conf) : rk[r].context = rk[last].context
    BY <1>1 DEF StagesInv, SamePass
  <2>4. rk2[0].context = rk[0].context
    BY <1>1, <1>2 DEF Still, Fields
  <2>5. QED
    BY <1>1, <2>2, <2>3, <2>4
<1>5. PICK text, text2 : text = rk[last].tokens /\ text2 = rk2[last].tokens
  OBVIOUS
<1>6. /\ text \in Texts(conf) /\ rk[0].tokens \in Texts(conf)
      /\ \A b \in 1 .. Size(conf) : \A p \in 1 .. Known(conf, rk[0]) :
           rk[0].tokens[b][p] = text[b][p]
      /\ \A r \in Stages(conf) : DataOK(conf, r, rk[r], text)
  BY <1>5 DEF DataInv, TokensOK
<1>7. rk[0].pc \notin AfterCopy
  BY <1>2, BeforeCopy
<1> HIDE DEF rk, rk2, last
<1>8. /\ text2 \in Texts(conf)
      /\ \A b \in 1 .. Size(conf) : \A p \in 1 .. c : text2[b][p] = text[b][p]
  <2>1. /\ text2 \in Texts(conf)
        /\ \A b \in 1 .. Size(conf) : \A p : p # c + 1 \/ c < Len(conf.prompts[b]) =>
             (p \in 1 .. Longest(conf) => text2[b][p] = text[b][p])
    BY <1>1, <1>3, <1>4, <1>5, <1>6, SampledText
  <2>2. Longest(conf) \in Nat
    BY <1>1, LengthFacts
  <2>3. \A p \in 1 .. c : p # c + 1 /\ p \in 1 .. Longest(conf)
    BY <1>4, <2>2
  <2>4. QED
    BY <2>1, <2>3
<1>9. ASSUME NEW r \in Stages(conf) PROVE DataOK(conf, r, rk2[r], text2)
  <2>1. PICK s : s = rk[r]
    OBVIOUS
  <2>2. DataOK(conf, r, s, text2)
    BY <1>1, <1>4, <1>6, <1>8, <2>1, DataSame
  <2>3. CASE r # last
    BY <1>2, <2>1, <2>2, <2>3
  <2>4. CASE r = last
    <3>1. s.pc \notin InPass /\ "copy" \notin Pass
      BY <1>2, <2>1, <2>4 DEF Pass, InPass
    <3>2. QED
      BY <1>2, <2>1, <2>2, <2>4, <3>1, StillData
  <2>5. QED
    BY <2>3, <2>4
<1>10. TokensOK(conf, rk2)
  <2>1. CASE last = 0
    BY <1>5, <1>8, <2>1 DEF TokensOK, last
  <2>2. CASE last # 0
    <3>1. rk2[0] = rk[0] /\ rk2[0].tokens = rk[0].tokens
      BY <1>1, <1>2, <2>2
    <3>2. Known(conf, rk2[0]) = c /\ Known(conf, rk[0]) = c
      BY <1>1, <1>4, <1>7, <3>1 DEF Known
    <3>3. QED
      BY <1>5, <1>6, <1>8, <3>1, <3>2 DEF TokensOK, last
  <2>3. QED
    BY <2>1, <2>2
<1>11. DataInv(conf, rk2)
  BY <1>5, <1>9, <1>10 DEF DataInv, last
<1>12. QED
  BY <1>11 DEF rk2

(* The end of a pass, on the stages without logits or when prompts are     *)
(* scored, and a collective of others.                                     *)
LEMMA OnwardSteps ==
  ASSUME Inv, conf.task = "generate", DataInv(conf, rank),
         \/ Score \/ (\E r \in Stage : NoLogits(r) \/ Skip(r))
         \/ ReturnLengths \/ AssertContiguous \/ ReturnLogProbs
  PROVE  DataInv(conf, rank')
<1> DEFINE rk == rank
           rk2 == rank'
<1>1. /\ conf \in Requests /\ Stage = Stages(conf) /\ LastStage = EndStage(conf)
      /\ DOMAIN rank = Stages(conf)
      /\ 0 \in Stages(conf) /\ EndStage(conf) \in Stages(conf)
      /\ conf.tokens_to_generate \in Nat
      /\ ToGenerate <=> conf.tokens_to_generate > 0
  BY StageFacts, RequestFacts DEF ToGenerate
<1>2. TokensOK(conf, rk)
  BY DEF DataInv
<1>3. ASSUME NEW r \in Stages(conf), NEW p, rank' = [rank EXCEPT ![r].pc = p],
             rank[r].pc \notin InPass, p \notin Pass,
             r = 0 => p \notin AfterCopy \/ ~ToGenerate
      PROVE  DataInv(conf, rk2)
  <2>1. /\ rk2[r].pc = p /\ rk2[r].tokens = rk[r].tokens /\ Still(rk[r], rk2[r])
        /\ \A q \in Stages(conf) : q # r => rk2[q] = rk[q]
    BY <1>3, OneGoesOn
  <2>2. OnlyOnward(conf, rk, rk2)
    BY <1>3, <2>1 DEF OnlyOnward, Onward
  <2>3. \A q \in Stages(conf) : rk2[q].tokens = rk[q].tokens
    BY <2>1
  <2>4. \A x \in 1 .. Known(conf, rk2[0]) : x \in 1 .. Known(conf, rk[0])
    <3>1. CASE r # 0
      BY <1>1, <2>1, <3>1
    <3>2. CASE r = 0
      <4>1. Known(conf, rk2[0]) = rk[0].context
        BY <1>1, <1>3, <2>1, <3>2 DEF Known, Still, Fields
      <4>2. rk[0].context \in Nat
        BY StageFacts DEF StageOK
      <4>3. QED
        BY <4>1, <4>2 DEF Known
    <3>3. QED
      BY <3>1, <3>2
  <2>5. TokensOK(conf, rk2)
    BY <1>1, <1>2, <2>3, <2>4 DEF TokensOK
  <2> HIDE DEF rk, rk2
  <2>6. DataInv(conf, rk)
    BY DEF rk
  <2>7. QED
    BY <1>1, <2>2, <2>3, <2>5, <2>6, OnwardData
<1>4. CASE Score
  <2>1. rank' = [rank EXCEPT ![EndStage(conf)].pc = "log_probs"]
        /\ rank[EndStage(conf)].pc = "forwarded" /\ ~ToGenerate
    BY <1>1, <1>4 DEF Score
  <2>2. "log_probs" \notin Pass /\ "forwarded" \notin InPass
    BY DEF Pass, InPass
  <2>3. QED
    BY <1>1, <1>3, <2>1, <2>2
<1>5. ASSUME NEW r \in Stage, NoLogits(r) PROVE DataInv(conf, rk2)
  <2>1. PICK p : p = IF ToGenerate THEN "copy" ELSE "log_probs"
    OBVIOUS
  <2>2. rank' = [rank EXCEPT ![r].pc = p] /\ rank[r].pc = "forwarded"
    BY <1>5, <2>1 DEF NoLogits
  <2>3. p \notin Pass /\ "forwarded" \notin InPass /\ (p \notin AfterCopy \/ ~ToGenerate)
    BY <2>1 DEF Pass, InPass, AfterCopy
  <2>4. QED
    BY <1>1, <1>3, <2>2, <2>3
<1>6. ASSUME NEW r \in Stage, Skip(r) PROVE DataInv(conf, rk2)
  <2>1. rank[r].pc \in EmbeddingOps /\ r \notin {0, EndStage(conf)}
    BY <1>6, Groups DEF Skip, SkipsGroup
  <2>2. PICK p : p = After(rank[r].pc)
    OBVIOUS
  <2>3. rank' = [rank EXCEPT ![r].pc = p]
    <3>1. rank' = [rank EXCEPT ![r].pc = After(@)]
      BY <1>6 DEF Skip
    <3>2. QED
      BY <1>1, <2>2, <3>1
  <2>4. p \notin Pass /\ rank[r].pc \notin InPass
    <3>1. p \in {"done", "log_probs", "returned"}
      BY <2>2 DEF After
    <3>2. QED
      BY <2>1, <3>1 DEF Pass, InPass, EmbeddingOps
  <2>5. QED
    BY <1>1, <1>3, <2>1, <2>3, <2>4
<1>7. ASSUME NEW op \in {"lengths", "log_probs"}, Meet(op),
             rank' = [r \in Stage |-> IF r \in Group(op)
                                      THEN [rank[r] EXCEPT !.pc = After(op)] ELSE rank[r]]
      PROVE  DataInv(conf, rk2)
  <2>1. /\ BothGoOn(rk, rk2, op, After(op))
        /\ \A r \in Stages(conf) : rk2[r].tokens = rk[r].tokens
    BY <1>7, ReturnFacts DEF EmbeddingOps
  <2>2. After(op) \in {"log_probs", "returned"}
    BY DEF After
  <2>3. op \notin InPass /\ After(op) \notin Pass /\ {op, After(op)} \subseteq AfterCopy
    BY <2>2 DEF Pass, InPass, AfterCopy
  <2>4. OnlyOnward(conf, rk, rk2)
    BY <2>1, <2>3 DEF OnlyOnward, Onward, BothGoOn
  <2>5. Known(conf, rk2[0]) = Known(conf, rk[0])
    BY <1>1, <2>1, <2>3 DEF BothGoOn, Known, Still, Fields
  <2>6. TokensOK(conf, rk2)
    BY <1>1, <1>2, <2>1, <2>5 DEF TokensOK
  <2> HIDE DEF rk, rk2
  <2>7. DataInv(conf, rk)
    BY DEF rk
  <2>8. QED
    BY <1>1, <2>1, <2>4, <2>6, <2>7, OnwardData
<1>8. CASE ReturnLengths
  BY <1>7, <1>8 DEF ReturnLengths
<1>9. CASE ReturnLogProbs
  BY <1>7, <1>9 DEF ReturnLogProbs
<1>10. CASE AssertContiguous
  <2>1. /\ rank' = [rank EXCEPT ![EndStage(conf)].pc = "raised"]
        /\ rank[EndStage(conf)].pc = "log_probs" /\ EndStage(conf) # 0
    BY <1>1, <1>10, RequestFacts DEF AssertContiguous, EndStage
  <2>2. "raised" \notin Pass /\ "log_probs" \notin InPass
    BY DEF Pass, InPass
  <2>3. QED
    BY <1>1, <1>3, <2>1, <2>2
<1>11. QED
  BY <1>4, <1>5, <1>6, <1>8, <1>9, <1>10

(* Only a loop that generates copies and broadcasts.                       *)
LEMMA OnlyGenerating ==
  ASSUME Inv, conf.task = "generate", NEW r \in Stages(conf), rank[r].pc \in {"copy", "done"}
  PROVE  conf.tokens_to_generate > 0
<1>1. conf \in Requests /\ SameSection(conf, rank)
  BY StageFacts DEF StagesInv
<1>2. PICK S \in Sections(conf) : rank[r].pc \in S
  BY <1>1 DEF SameSection
<1>3. ToGenerate
  BY <1>1, <1>2, GenerateSections DEF Pass, InPass
<1>4. QED
  BY <1>3 DEF ToGenerate

(* The copied column makes the words of the first stage those of the last  *)
(* one, up to the token behind the context.                                *)
LEMMA CopyData ==
  ASSUME Inv, conf.task = "generate", DataInv(conf, rank), CopyToFirst
  PROVE  /\ DataInv(conf, rank')
         /\ rank'[EndStage(conf)].tokens = rank[EndStage(conf)].tokens
<1> DEFINE last == EndStage(conf)
           rk == rank
           rk2 == rank'
<1>1. /\ conf \in Requests /\ LastStage = last /\ FirstStage = 0 /\ Batch = 1 .. Size(conf)
      /\ 0 \in Stages(conf) /\ last \in Stages(conf)
      /\ Longest(conf) \in Nat
      /\ \A r \in Stages(conf) : StageOK(conf, r, rk[r]) /\ rk[r].context = rk[last].context
  BY StageFacts, LengthFacts DEF StagesInv, SamePass
<1>2. /\ BothGoOn(rk, rk2, "copy", "done")
      /\ \A r \in {0, last} : rk2[r].tokens = Copied(r)
  BY CopyFacts
<1>3. rk[0].pc = "copy" /\ rk2[0].pc = "done" /\ rk2[0].context = rk[0].context
  BY <1>1, <1>2 DEF BothGoOn, Still, Fields
<1>4. conf.tokens_to_generate > 0
  BY <1>1, <1>3, OnlyGenerating
<1>5. PICK c \in Nat : c = rk[0].context /\ c = rk[last].context /\ c + 1 \in 1 .. Longest(conf)
  <2>1. rk[0].context \in Nat /\ rk[0].context < Longest(conf) /\ rk[0].context = rk[last].context
    BY <1>1, <1>4 DEF StageOK
  <2>2. QED
    BY <1>1, <2>1
<1>6. PICK first, text : first = rk[0].tokens /\ text = rk[last].tokens
  OBVIOUS
<1>7. /\ first \in Texts(conf) /\ text \in Texts(conf)
      /\ \A b \in 1 .. Size(conf) : \A p \in 1 .. c : first[b][p] = text[b][p]
  <2>1. Known(conf, rk[0]) = c
    BY <1>3, <1>5 DEF Known, AfterCopy
  <2>2. QED
    BY <1>6, <2>1 DEF DataInv, TokensOK
<1>8. PICK copied :
        copied = [b \in 1 .. Size(conf) |-> [first[b] EXCEPT ![c + 1] = text[b][c + 1]]]
  OBVIOUS
<1>9. rk2[0].tokens = copied
  BY <1>1, <1>2, <1>5, <1>6, <1>8 DEF Copied
<1>10. ASSUME NEW b \in 1 .. Size(conf)
       PROVE  /\ copied[b] \in [1 .. Longest(conf) -> Tokens(conf)]
              /\ \A p \in 1 .. c + 1 : copied[b][p] = text[b][p]
  <2>1. PICK x, y : x = first[b] /\ y = text[b]
    OBVIOUS
  <2>2. x \in [1 .. Longest(conf) -> Tokens(conf)] /\ y \in [1 .. Longest(conf) -> Tokens(conf)]
    BY <1>7, <2>1 DEF Texts
  <2>3. PICK n \in 1 .. Longest(conf) : n = c + 1
    BY <1>5
  <2>4. copied[b] = [x EXCEPT ![n] = y[n]]
    BY <1>8, <2>1, <2>3
  <2>5. ASSUME NEW p \in 1 .. c + 1 PROVE copied[b][p] = y[p]
    <3>1. p \in 1 .. Longest(conf)
      BY <1>1, <2>3
    <3>2. CASE p = n
      BY <2>2, <2>4, <3>2
    <3>3. CASE p # n
      <4>1. p \in 1 .. c
        BY <2>3, <3>3
      <4>2. x[p] = y[p]
        BY <1>7, <2>1, <4>1
      <4>3. QED
        BY <2>2, <2>4, <3>1, <3>3, <4>2
    <3>4. QED
      BY <3>2, <3>3
  <2>6. QED
    BY <2>1, <2>2, <2>4, <2>5
<1>11. copied \in Texts(conf)
  BY <1>8, <1>10 DEF Texts
<1>12. rk2[last].tokens = text
  <2>1. CASE last # 0
    BY <1>1, <1>2, <1>6, <2>1 DEF Copied
  <2>2. CASE last = 0
    <3>1. first = text
      BY <1>6, <2>2
    <3>2. ASSUME NEW b \in 1 .. Size(conf) PROVE copied[b] = text[b]
      <4>1. PICK x : x = text[b]
        OBVIOUS
      <4>2. copied[b] = [x EXCEPT ![c + 1] = x[c + 1]]
        BY <1>8, <3>1, <4>1
      <4>3. x \in [1 .. Longest(conf) -> Tokens(conf)]
        BY <1>7, <4>1 DEF Texts
      <4>4. QED
        BY <4>1, <4>2, <4>3
    <3>3. copied = text
      <4>1. /\ copied = [b \in 1 .. Size(conf) |-> copied[b]]
            /\ text = [b \in 1 .. Size(conf) |-> text[b]]
        BY <1>7, <1>11 DEF Texts
      <4>2. QED
        BY <3>2, <4>1, Zenon
    <3>4. QED
      BY <1>9, <2>2, <3>3
  <2>3. QED
    BY <2>1, <2>2
<1>13. Known(conf, rk2[0]) = c + 1
  BY <1>3, <1>4, <1>5 DEF Known, AfterCopy
<1>14. TokensOK(conf, rk2)
  BY <1>7, <1>9, <1>10, <1>11, <1>12, <1>13 DEF TokensOK, last
<1>15. OnlyOnward(conf, rk, rk2)
  <2>1. "copy" \notin InPass /\ "done" \notin Pass
    BY DEF Pass, InPass
  <2>2. QED
    BY <1>2, <2>1 DEF OnlyOnward, Onward, BothGoOn
<1> HIDE DEF rk, rk2
<1>16. DataInv(conf, rk)
  BY DEF rk
<1>17. DataInv(conf, rk2)
  BY <1>1, <1>6, <1>12, <1>14, <1>15, <1>16, OnwardData DEF last
<1>18. QED
  BY <1>6, <1>12, <1>17 DEF rk, rk2

(* The end of a turn.                                                      *)
LEMMA TurnKeepsData ==
  ASSUME Inv, conf.task = "generate", DataInv(conf, rank), BroadcastDone
  PROVE  DataInv(conf, rank')
<1> DEFINE last == EndStage(conf)
           rk == rank
           rk2 == rank'
<1>1. /\ conf \in Requests /\ 0 \in Stages(conf) /\ last \in Stages(conf)
      /\ \A r \in Stages(conf) : StageOK(conf, r, rk[r])
  BY StageFacts
<1>2. conf.tokens_to_generate > 0
  <2>1. rank[0].pc = "done"
    BY <1>1, TurnFacts DEF TurnOf
  <2>2. QED
    BY <1>1, <2>1, OnlyGenerating
<1>3. PICK leave \in BOOLEAN : \A r \in Stages(conf) : TurnOf(rk[r], rk2[r], r, leave)
  BY TurnFacts
<1>4. PICK text : text = rk[last].tokens
  OBVIOUS
<1>5. TokensOK(conf, rk) /\ \A r \in Stages(conf) : DataOK(conf, r, rk[r], text)
  BY <1>4 DEF DataInv
<1> HIDE DEF rk, rk2
<1>6. ASSUME NEW r \in Stages(conf) PROVE DataOK(conf, r, rk2[r], text)
  <2>1. PICK s, t : s = rk[r] /\ t = rk2[r]
    OBVIOUS
  <2>2. TurnOf(s, t, r, leave) /\ StageOK(conf, r, s) /\ DataOK(conf, r, s, text)
    BY <1>1, <1>3, <1>5, <2>1
  <2>3. s.pc \notin InPass /\ "lengths" \notin Pass
    BY <2>2 DEF TurnOf, InPass, Pass
  <2>4. DataOK(conf, r, t, text)
    BY <1>1, <2>2, <2>3, TurnData DEF TurnOf
  <2>5. QED
    BY <2>1, <2>4
<1>7. TokensOK(conf, rk2)
  <2>1. rk2[0].tokens = rk[0].tokens /\ rk2[last].tokens = rk[last].tokens
    BY <1>1, <1>3 DEF TurnOf
  <2>2. \A p \in 1 .. Known(conf, rk2[0]) : p \in 1 .. Known(conf, rk[0])
    <3>1. PICK s, t : s = rk[0] /\ t = rk2[0]
      OBVIOUS
    <3>2. TurnOf(s, t, 0, leave) /\ s.context \in Nat
      BY <1>1, <1>3, <3>1 DEF StageOK
    <3>3. Known(conf, s) = s.context + 1 /\ Known(conf, t) = s.context + 1
      BY <1>2, <3>2 DEF TurnOf, Known, AfterCopy
    <3>4. QED
      BY <3>1, <3>3
  <2>3. QED
    BY <1>5, <2>1, <2>2 DEF TokensOK, last
<1>8. DataInv(conf, rk2)
  <2>1. rk2[last].tokens = text
    BY <1>1, <1>3, <1>4 DEF TurnOf
  <2>2. QED
    BY <1>6, <1>7, <2>1 DEF DataInv, last
<1>9. QED
  BY <1>8 DEF rk2

-----------------------------------------------------------------------------
(* Every step of a generation keeps the answer right.                      *)

(* The answer stays that of what has been sampled and scored.              *)
LEMMA AnswerStays ==
  ASSUME NEW cf, NEW s, NEW t, NEW ans, AnswerOK(cf, s, ans), t.tokens = s.tokens,
         Sampled(cf, t) = Sampled(cf, s), Scored(cf, t) = Scored(cf, s),
         cf.tokens_to_generate = 0 => t.prev = s.prev /\ t.context = s.context,
         cf.tokens_to_generate > 0 /\ t.pc \in AfterCopy \ {"done"} =>
           t.context + 1 = Longest(cf) \/ ans.finished = 1 .. Size(cf)
  PROVE  AnswerOK(cf, t, ans)
<1>1. \A b : Ends(cf, t, b) = Ends(cf, s, b)
  BY DEF Ends
<1>2. ASSUME cf.tokens_to_generate > 0 PROVE LengthsOK(cf, t, ans)
  <2>1. LengthsOK(cf, s, ans)
    BY <1>2 DEF AnswerOK
  <2>2. QED
    BY <1>1, <1>2, <2>1 DEF LengthsOK
<1>3. LogProbsOK(cf, s, ans) => LogProbsOK(cf, t, ans)
  BY DEF LogProbsOK
<1>4. QED
  BY <1>2, <1>3 DEF AnswerOK

\* Steps that leave the answer alone, and what the last stage knows of it.
Untouched(cf, rk, rk2) ==
  LET s == rk[EndStage(cf)]
      t == rk2[EndStage(cf)]
  IN /\ t.tokens = s.tokens /\ t.context = s.context /\ t.prev = s.prev
     /\ t.pc \in AfterSample <=> s.pc \in AfterSample
     /\ t.pc \in AfterCopy \ {"done"} => s.pc \in AfterCopy \ {"done"}
     /\ \A x \in {"log_probs", "returned"} : rk2[0].pc = x =>
          \/ rk[0].pc = x
          \/ x = "log_probs" /\ cf.tokens_to_generate = 0

(* Those keep it right.                                                    *)
LEMMA AnswerUntouched ==
  ASSUME NEW cf, NEW rk, NEW rk2, NEW ans, AnswerInv(cf, rk, ans), Untouched(cf, rk, rk2)
  PROVE  AnswerInv(cf, rk2, ans)
<1>1. PICK s, t : s = rk[EndStage(cf)] /\ t = rk2[EndStage(cf)]
  OBVIOUS
<1>2. /\ t.tokens = s.tokens /\ t.context = s.context /\ t.prev = s.prev
      /\ t.pc \in AfterSample <=> s.pc \in AfterSample
      /\ t.pc \in AfterCopy \ {"done"} => s.pc \in AfterCopy \ {"done"}
  BY <1>1 DEF Untouched
<1>3. PICK a : a = ans[EndStage(cf)] /\ AnswerOK(cf, s, a)
  BY <1>1 DEF AnswerInv
<1>4. Sampled(cf, t) = Sampled(cf, s) /\ Scored(cf, t) = Scored(cf, s)
  BY <1>2 DEF Sampled, Scored
<1>5. cf.tokens_to_generate > 0 /\ t.pc \in AfterCopy \ {"done"} =>
        t.context + 1 = Longest(cf) \/ a.finished = 1 .. Size(cf)
  BY <1>2, <1>3 DEF AnswerOK, LengthsOK
<1>6. AnswerOK(cf, t, a)
  BY <1>2, <1>3, <1>4, <1>5, AnswerStays
<1>7. ReturnedOK(cf, rk2[0], ans[0], a)
  BY <1>3 DEF AnswerInv, Untouched, ReturnedOK
<1>8. QED
  BY <1>1, <1>3, <1>6, <1>7 DEF AnswerInv

(* A step of a pass, a copy, or a stage that goes on by itself.            *)
LEMMA UntouchedSteps ==
  ASSUME Inv, conf.task = "generate", DataInv(conf, rank), AnswerInv(conf, rank, answer),
         \/ Within(conf, rank, rank')
         \/ \E r \in Stage : NoLogits(r) \/ Skip(r)
         \/ CopyToFirst \/ AssertContiguous
  PROVE  AnswerInv(conf, rank', answer)
<1> DEFINE last == EndStage(conf)
           rk == rank
           rk2 == rank'
<1>1. /\ conf \in Requests /\ Stage = Stages(conf) /\ LastStage = last
      /\ 0 \in Stages(conf) /\ last \in Stages(conf) /\ DOMAIN rank = Stages(conf)
      /\ conf.tokens_to_generate \in Nat
      /\ ToGenerate <=> conf.tokens_to_generate > 0
  BY StageFacts, RequestFacts DEF ToGenerate
<1>2. ASSUME Within(conf, rk, rk2) PROVE Untouched(conf, rk, rk2)
  <2>1. \A r \in {0, last} :
          /\ rk2[r].tokens = rk[r].tokens /\ rk2[r].context = rk[r].context
          /\ rk2[r].prev = rk[r].prev
          /\ rk2[r].pc = rk[r].pc \/ {rk[r].pc, rk2[r].pc} \subseteq Pass
    BY <1>1, <1>2 DEF Within
  <2>2. \A x \in AfterSample : x \notin Pass
    BY DEF AfterSample, AfterCopy, Pass, InPass
  <2>3. AfterCopy \subseteq AfterSample /\ {"log_probs", "returned"} \subseteq AfterSample
    BY DEF AfterSample, AfterCopy
  <2>4. ASSUME NEW x \in AfterSample, NEW r \in {0, last} PROVE rk2[r].pc = x <=> rk[r].pc = x
    BY <2>1, <2>2
  <2>5. QED
    BY <2>1, <2>3, <2>4, Zenon DEF Untouched
<1>3. ASSUME NEW r \in Stage, NoLogits(r) PROVE Untouched(conf, rk, rk2)
  <2>1. PICK p : p = IF ToGenerate THEN "copy" ELSE "log_probs"
    OBVIOUS
  <2>2. rank' = [rank EXCEPT ![r].pc = p] /\ r # last
    BY <1>1, <1>3, <2>1 DEF NoLogits
  <2>3. rk2[r].pc = p /\ \A q \in Stages(conf) : q # r => rk2[q] = rk[q]
    BY <1>1, <2>2, OneGoesOn
  <2>4. QED
    BY <1>1, <2>1, <2>2, <2>3 DEF Untouched
<1>4. ASSUME NEW r \in Stage, Skip(r) PROVE Untouched(conf, rk, rk2)
  <2>1. r \notin {0, last}
    BY <1>4, Groups DEF Skip, SkipsGroup
  <2>2. rk2[0] = rk[0] /\ rk2[last] = rk[last]
    BY <1>1, <1>4, <2>1 DEF Skip
  <2>3. QED
    BY <2>2 DEF Untouched
<1>5. ASSUME CopyToFirst PROVE Untouched(conf, rk, rk2)
  <2>1. BothGoOn(rk, rk2, "copy", "done")
    BY <1>5, CopyFacts
  <2>2. /\ rk[0].pc = "copy" /\ rk2[0].pc = "done" /\ rk[last].pc = "copy" /\ rk2[last].pc = "done"
        /\ rk2[last].context = rk[last].context /\ rk2[last].prev = rk[last].prev
    BY <1>1, <2>1 DEF BothGoOn, Still, Fields
  <2>3. rk2[last].tokens = rk[last].tokens
    BY <1>5, CopyData
  <2>4. QED
    BY <2>2, <2>3 DEF Untouched, AfterSample, AfterCopy
<1>6. ASSUME AssertContiguous PROVE Untouched(conf, rk, rk2)
  <2>1. rank' = [rank EXCEPT ![last].pc = "raised"] /\ rk[last].pc = "log_probs" /\ last # 0
    BY <1>1, <1>6, RequestFacts DEF AssertContiguous, EndStage
  <2>2. /\ rk2[last].pc = "raised" /\ rk2[last].tokens = rk[last].tokens
        /\ Still(rk[last], rk2[last]) /\ rk2[0] = rk[0]
    BY <1>1, <2>1, OneGoesOn
  <2>3. rk2[last].context = rk[last].context /\ rk2[last].prev = rk[last].prev
    BY <2>2 DEF Still, Fields
  <2>4. QED
    BY <2>1, <2>2, <2>3 DEF Untouched, AfterSample, AfterCopy
<1>7. Untouched(conf, rk, rk2)
  BY <1>2, <1>3, <1>4, <1>5, <1>6
<1> HIDE DEF rk, rk2
<1>8. AnswerInv(conf, rk, answer)
  BY DEF rk
<1>9. AnswerInv(conf, rk2, answer)
  BY <1>7, <1>8, AnswerUntouched
<1>10. QED
  BY <1>9 DEF rk2

(* Scores are those of the logits.                                         *)
LEMMA ScoreAnswer ==
  ASSUME Inv, conf.task = "generate", DataInv(conf, rank), AnswerInv(conf, rank, answer), Score
  PROVE  AnswerInv(conf, rank', answer')
<1> DEFINE last == EndStage(conf)
           probs == [b \in Batch |-> [p \in 1 .. MaxLen - 1 |->
                       <<rank[LastStage].logits[b][p], rank[LastStage].tokens[b][p + 1]>>]]
<1>1. /\ conf \in Requests /\ LastStage = last /\ DOMAIN rank = Stages(conf)
      /\ 0 \in Stages(conf) /\ last \in Stages(conf)
      /\ Batch = 1 .. Size(conf) /\ MaxLen = Longest(conf) /\ Longest(conf) \in Nat \ {0}
      /\ Size(conf) \in Nat
  BY StageFacts, LengthFacts, RequestFacts
<1>2. conf.tokens_to_generate = 0
  BY RequestFacts, <1>1 DEF Score, ToGenerate
<1>3. PICK s, t : s = rank[last] /\ t = rank'[last]
  OBVIOUS
<1>4. /\ rank' = [rank EXCEPT ![last].pc = "log_probs"] /\ s.pc = "forwarded"
  BY <1>1, <1>3 DEF Score
<1>5. /\ t.pc = "log_probs" /\ t.tokens = s.tokens /\ t.context = s.context /\ t.prev = s.prev
      /\ \A q \in Stages(conf) : q # last => rank'[q] = rank[q]
  BY <1>1, <1>3, <1>4, OneGoesOn DEF Still, Fields
<1>6. answer' = [answer EXCEPT ![last].log_probs = probs]
  BY <1>1, Zenon DEF Score
<1> HIDE DEF probs
<1>7. PICK a, a2 : a = answer[last] /\ a2 = answer'[last]
  OBVIOUS
<1>8. DOMAIN a = {"lengths", "log_probs", "finished"} /\ DOMAIN answer = Stages(conf)
  BY <1>1, <1>7 DEF AnswerInv
<1>9. /\ DOMAIN answer' = Stages(conf)
      /\ \A q \in Stages(conf) : q # last => answer'[q] = answer[q]
      /\ a2 = [a EXCEPT !.log_probs = probs]
  BY <1>1, <1>6, <1>7, <1>8
<1>10. /\ DOMAIN a2 = {"lengths", "log_probs", "finished"} /\ a2.log_probs = probs
       /\ a2.lengths = a.lengths
  BY <1>8, <1>9
<1>11. s.prev = 0 /\ s.context = Longest(conf)
  BY <1>2, <1>3 DEF AnswerInv, AnswerOK
<1>12. LogProbsOK(conf, t, a2)
  <2>1. Scored(conf, t) = Longest(conf) - 1
    BY <1>2, <1>5, <1>11 DEF Scored, AfterSample, AfterCopy
  <2>2. Saw(s.logits, s, s.tokens, 0, Size(conf)) /\ Width(s) = Longest(conf)
    <3>1. LogitsOK(conf, s, s.tokens)
      BY <1>1, <1>3 DEF DataInv, DataOK
    <3>2. s.pc \notin InPass
      BY <1>4 DEF InPass
    <3>3. QED
      BY <1>1, <1>11, <3>1, <3>2 DEF LogitsOK, Width
  <2>3. ASSUME NEW b \in 1 .. Size(conf), NEW p \in 1 .. Longest(conf) - 1
        PROVE  a2.log_probs[b][p] = <<SubSeq(t.tokens[b], 1, p), t.tokens[b][p + 1]>>
    <3>1. 0 + b = b /\ 0 + p = p /\ p \in 1 .. Longest(conf)
      BY <1>1
    <3>2. s.logits[b][p] = SubSeq(s.tokens[0 + b], 1, s.prev + p)
      BY <2>2, <3>1 DEF Saw
    <3>3. s.logits[b][p] = SubSeq(s.tokens[b], 1, p)
      BY <1>11, <3>1, <3>2
    <3>4. a2.log_probs[b][p] = <<s.logits[b][p], s.tokens[b][p + 1]>>
      BY <1>1, <1>3, <1>10 DEF probs
    <3>5. QED
      BY <1>5, <3>3, <3>4
  <2>4. QED
    BY <2>1, <2>3 DEF LogProbsOK
<1>13. AnswerOK(conf, t, a2)
  BY <1>2, <1>5, <1>11, <1>12 DEF AnswerOK
<1>14. rank'[0].pc # "returned"
  <2>1. rank'[last].pc # "returned"
    BY <1>3, <1>5
  <2>2. rank[0].pc # "returned"
    <3>1. rank[last].pc # "returned"
      BY <1>3, <1>4
    <3>2. "returned" \in Together(conf) /\ EndsTogether(conf, rank)
      BY <1>2, StageFacts DEF Together, StagesInv
    <3>3. QED
      BY <3>1, <3>2 DEF EndsTogether
  <2>3. QED
    BY <1>1, <1>5, <2>1, <2>2
<1>15. ReturnedOK(conf, rank'[0], answer'[0], a2)
  BY <1>2, <1>14 DEF ReturnedOK
<1>16. \A r \in Stages(conf) : DOMAIN answer'[r] = {"lengths", "log_probs", "finished"}
  BY <1>7, <1>9, <1>10 DEF AnswerInv
<1>17. QED
  BY <1>3, <1>7, <1>9, <1>13, <1>15, <1>16 DEF AnswerInv

(* A larger number does not change the smallest one.                       *)
LEMMA MinGrows ==
  ASSUME NEW T, T \subseteq Nat, NEW n \in Nat, \A x \in T : x < n
  PROVE  Min(T \cup {n}) = IF T = {} THEN n ELSE Min(T)
<1>1. ASSUME NEW U, U \subseteq Nat, NEW x \in U, \A y \in U : x <= y PROVE Min(U) = x
  <2>1. \E z \in U : \A y \in U : z <= y
    BY <1>1
  <2>2. Min(U) \in U /\ \A y \in U : Min(U) <= y
    BY <2>1, Zenon DEF Min
  <2>3. x \in Nat /\ Min(U) \in Nat /\ x <= Min(U) /\ Min(U) <= x
    BY <1>1, <2>2
  <2>4. QED
    BY <2>3
<1>2. CASE T = {}
  BY <1>1, <1>2
<1>3. CASE T # {}
  <2>1. PICK x \in T : \A y \in T : x <= y
    BY <1>3, LeastNat
  <2>2. Min(T) = x
    BY <1>1, <2>1
  <2>3. \A y \in T \cup {n} : x <= y
    BY <2>1
  <2>4. Min(T \cup {n}) = x
    BY <1>1, <2>3
  <2>5. QED
    BY <1>3, <2>2, <2>4
<1>4. QED
  BY <1>2, <1>3

(* Whether a token ends its row depends on nothing behind it.              *)
LEMMA StopsSame ==
  ASSUME NEW cf \in Requests, cf.task = "generate", NEW row, NEW row2, NEW p \in Nat \ {0},
         \A q \in 1 .. p : row2[q] = row[q]
  PROVE  StopsAt(cf, row2, p) <=> StopsAt(cf, row, p)
<1>1. cf.stop \in {"double_eol", "eol", "eod"}
  BY RequestFacts
<1>2. row2[p] = row[p] /\ (p > 1 => row2[p - 1] = row[p - 1])
  OBVIOUS
<1>3. CASE cf.stop = "double_eol"
  <2>1. \A x : StopsAt(cf, x, p) <=> x[p] = TwoEols \/ (x[p] = Eol /\ p > 1 /\ x[p - 1] = Eol)
    BY <1>3 DEF StopsAt
  <2>2. QED
    BY <1>2, <2>1
<1>4. CASE cf.stop = "eol"
  <2>1. \A x : StopsAt(cf, x, p) <=> x[p] \in {TwoEols, Eol}
    BY <1>4 DEF StopsAt
  <2>2. QED
    BY <1>2, <2>1
<1>5. CASE cf.stop = "eod"
  <2>1. \A x : StopsAt(cf, x, p) <=> x[p] = Eod
    BY <1>5 DEF StopsAt
  <2>2. QED
    BY <1>2, <2>1
<1>6. QED
  BY <1>1, <1>3, <1>4, <1>5

\* The last stage before and after it samples.
Samples(cf, s, t) ==
  /\ s.context \in Nat /\ s.context < Longest(cf) /\ s.tokens \in Texts(cf)
  /\ s.pc = "forwarded" /\ t.pc = "copy" /\ t.context = s.context /\ t.prev = s.prev

(* The tokens that end a row, with the sampled one.                        *)
LEMMA EndsSampled ==
  ASSUME NEW cf \in Requests, cf.task = "generate", NEW b \in 1 .. Size(cf),
         NEW s, NEW t, Samples(cf, s, t),
         \A p \in 1 .. s.context : t.tokens[b][p] = s.tokens[b][p]
  PROVE  /\ Ends(cf, s, b) \subseteq 1 .. s.context
         /\ Ends(cf, t, b) =
              IF Len(cf.prompts[b]) <= s.context /\ StopsAt(cf, t.tokens[b], s.context + 1)
              THEN Ends(cf, s, b) \cup {s.context + 1} ELSE Ends(cf, s, b)
<1>1. PICK c \in Nat : c = s.context
  BY DEF Samples
<1>2. PICK n \in Nat \ {0} : n = Len(cf.prompts[b])
  BY RequestFacts
<1>3. Sampled(cf, s) = c /\ Sampled(cf, t) = c + 1
  BY <1>1 DEF Samples, Sampled, AfterSample, AfterCopy
<1>4. PICK x, y : x = s.tokens[b] /\ y = t.tokens[b]
  OBVIOUS
<1>5. /\ Ends(cf, s, b) = {p \in n + 1 .. c : StopsAt(cf, x, p)}
      /\ Ends(cf, t, b) = {p \in n + 1 .. c + 1 : StopsAt(cf, y, p)}
  BY <1>2, <1>3, <1>4 DEF Ends
<1>6. ASSUME NEW p \in n + 1 .. c PROVE StopsAt(cf, y, p) <=> StopsAt(cf, x, p)
  <2>1. p \in Nat \ {0} /\ \A q \in 1 .. p : q \in 1 .. c
    OBVIOUS
  <2>2. \A q \in 1 .. p : y[q] = x[q]
    BY <1>1, <1>4, <2>1
  <2>3. QED
    BY <2>1, <2>2, StopsSame
<1>7. Ends(cf, s, b) \subseteq 1 .. c
  BY <1>5
<1>8. Ends(cf, t, b) = IF n <= c /\ StopsAt(cf, y, c + 1)
                       THEN Ends(cf, s, b) \cup {c + 1} ELSE Ends(cf, s, b)
  <2>1. \A p : p \in n + 1 .. c + 1 <=> p \in n + 1 .. c \/ (p = c + 1 /\ n <= c)
    OBVIOUS
  <2>2. /\ \A p : p \in Ends(cf, t, b) <=> p \in n + 1 .. c + 1 /\ StopsAt(cf, y, p)
        /\ \A p : p \in Ends(cf, s, b) <=> p \in n + 1 .. c /\ StopsAt(cf, x, p)
    BY <1>5, Zenon
  <2>3. \A p : p \in Ends(cf, t, b) <=> \/ p \in Ends(cf, s, b)
                                        \/ p = c + 1 /\ n <= c /\ StopsAt(cf, y, c + 1)
    BY <1>6, <2>1, <2>2, Zenon
  <2>4. QED
    BY <2>3
<1>9. QED
  BY <1>1, <1>2, <1>4, <1>7, <1>8

(* Lengths and finished rows are those of the sampled tokens.              *)
LEMMA SampleLengths ==
  ASSUME NEW cf \in Requests, cf.task = "generate", NEW s, NEW t, Samples(cf, s, t),
         NEW ans, NEW ans2, LengthsOK(cf, s, ans),
         NEW sample \in [1 .. Size(cf) -> Vocab],
         AfterSampling(cf, s, t.tokens, ans, ans2, sample)
  PROVE  LengthsOK(cf, t, ans2)
<1>1. PICK c \in Nat : c = s.context /\ c < Longest(cf)
  BY DEF Samples
<1>2. Longest(cf) \in Nat
  BY LengthFacts
<1>3. \A b \in 1 .. Size(cf) : Len(cf.prompts[b]) \in Nat /\ Len(cf.prompts[b]) <= Longest(cf)
  <2>1. ASSUME NEW b \in 1 .. Size(cf)
        PROVE  Len(cf.prompts[b]) \in Nat /\ Len(cf.prompts[b]) <= Longest(cf)
    <3>1. Len(cf.prompts[b]) \in Nat /\ cf.tokens_to_generate \in Nat
      BY RequestFacts
    <3>2. Len(cf.prompts[b]) + cf.tokens_to_generate <= Longest(cf)
      BY LengthFacts
    <3>3. QED
      BY <1>2, <3>1, <3>2
  <2>2. QED
    BY <2>1
<1>4. \A b \in 1 .. Size(cf) : \A p : p # c + 1 \/ c < Len(cf.prompts[b]) =>
        (p \in 1 .. Longest(cf) => t.tokens[b][p] = s.tokens[b][p])
  BY <1>1, SampledText DEF Samples
<1>5. \A b \in 1 .. Size(cf) : \A p \in 1 .. c : t.tokens[b][p] = s.tokens[b][p]
  <2>1. \A p \in 1 .. c : p # c + 1 /\ p \in 1 .. Longest(cf)
    BY <1>1, <1>2
  <2>2. QED
    BY <1>4, <2>1
<1> DEFINE New(b) == Len(cf.prompts[b]) <= c /\ StopsAt(cf, t.tokens[b], c + 1)
           done == {b \in 1 .. Size(cf) : New(b)}
<1>6. ASSUME NEW b \in 1 .. Size(cf)
      PROVE  /\ Ends(cf, s, b) \subseteq 1 .. c
             /\ Ends(cf, t, b) = IF New(b) THEN Ends(cf, s, b) \cup {c + 1} ELSE Ends(cf, s, b)
  BY <1>1, <1>5, EndsSampled
<1>7. /\ ans2.finished = ans.finished \cup done
      /\ ans2.lengths = [b \in 1 .. Size(cf) |->
                           IF b \in done \ ans.finished THEN c + 1 ELSE ans.lengths[b]]
  BY <1>1 DEF AfterSampling
<1>8. /\ ans.lengths \in [1 .. Size(cf) -> Nat]
      /\ \A b \in 1 .. Size(cf) :
           ans.lengths[b] = IF Ends(cf, s, b) = {} THEN Longest(cf) ELSE Min(Ends(cf, s, b))
      /\ ans.finished = {b \in 1 .. Size(cf) : Ends(cf, s, b) # {}}
  BY DEF LengthsOK
<1> HIDE DEF New
<1>9. ans2.finished = {b \in 1 .. Size(cf) : Ends(cf, t, b) # {}}
  <2>1. \A b \in 1 .. Size(cf) : Ends(cf, t, b) # {} <=> b \in ans.finished \/ New(b)
    BY <1>6, <1>8
  <2>2. QED
    BY <1>7, <1>8, <2>1
<1>10. ans2.lengths \in [1 .. Size(cf) -> Nat]
  <2>1. c + 1 \in Nat /\ ans.lengths \in [1 .. Size(cf) -> Nat]
    BY <1>1 DEF LengthsOK
  <2>2. PICK D : D = done \ ans.finished
    OBVIOUS
  <2>3. ans2.lengths = [b \in 1 .. Size(cf) |-> IF b \in D THEN c + 1 ELSE ans.lengths[b]]
    BY <1>7, <2>2
  <2>4. QED
    BY <2>1, <2>3
<1>11. ASSUME NEW b \in 1 .. Size(cf)
       PROVE  ans2.lengths[b] = IF Ends(cf, t, b) = {} THEN Longest(cf) ELSE Min(Ends(cf, t, b))
  <2>1. PICK E : E = Ends(cf, s, b)
    OBVIOUS
  <2>2. E \subseteq Nat /\ c + 1 \in Nat /\ \A x \in E : x < c + 1
    BY <1>6, <2>1
  <2>3. Min(E \cup {c + 1}) = IF E = {} THEN c + 1 ELSE Min(E)
    BY <2>2, MinGrows
  <2>4. ans2.lengths[b] = IF New(b) /\ E = {} THEN c + 1 ELSE ans.lengths[b]
    BY <1>7, <1>8, <2>1
  <2>5. ans.lengths[b] = IF E = {} THEN Longest(cf) ELSE Min(E)
    BY <1>8, <2>1
  <2>6. Ends(cf, t, b) = IF New(b) THEN E \cup {c + 1} ELSE E
    BY <1>6, <2>1
  <2>7. QED
    BY <2>3, <2>4, <2>5, <2>6
<1>12. ASSUME NEW b \in 1 .. Size(cf), NEW p \in 1 .. Len(cf.prompts[b])
       PROVE  t.tokens[b][p] = cf.prompts[b][p]
  <2>1. p \in 1 .. Longest(cf) /\ (p # c + 1 \/ c < Len(cf.prompts[b]))
    BY <1>2, <1>3
  <2>2. t.tokens[b][p] = s.tokens[b][p]
    BY <1>4, <2>1
  <2>3. QED
    BY <2>2 DEF LengthsOK
<1>13. t.pc \notin AfterCopy
  BY DEF Samples, AfterCopy
<1>14. QED
  BY <1>9, <1>10, <1>11, <1>12, <1>13 DEF LengthsOK

(* The log probabilities gathered are those of the tokens that follow the  *)
(* positions of the pass.                                                  *)
LEMMA SampleLogProbs ==
  ASSUME conf \in Requests, conf.task = "generate", conf.tokens_to_generate > 0, conf.log_probs,
         NEW s, NEW t, Samples(conf, s, t), s.prev \in Nat, s.prev < s.context,
         LogitsOK(conf, s, s.tokens), NEW ans, NEW ans2, LogProbsOK(conf, s, ans),
         NEW sample \in [1 .. Size(conf) -> Vocab],
         AfterSampling(conf, s, t.tokens, ans, ans2, sample)
  PROVE  LogProbsOK(conf, t, ans2)
<1>1. PICK c \in Nat, d \in Nat : c = s.context /\ d = s.prev /\ d < c /\ c < Longest(conf)
  BY DEF Samples
<1>2. /\ Longest(conf) \in Nat /\ Batch = 1 .. Size(conf) /\ MaxLen = Longest(conf)
      /\ Size(conf) \in Nat
  BY LengthFacts, SizesOf, RequestFacts
<1>3. ASSUME NEW b \in 1 .. Size(conf)
      PROVE  /\ \A p \in 1 .. c : t.tokens[b][p] = s.tokens[b][p]
             /\ \A p \in 1 .. c : s.tokens[b][p] \in Tokens(conf)
  <2>1. \A p : p # c + 1 \/ c < Len(conf.prompts[b]) =>
          (p \in 1 .. Longest(conf) => t.tokens[b][p] = s.tokens[b][p])
    BY <1>1, SampledText DEF Samples
  <2>2. \A p \in 1 .. c : p # c + 1 /\ p \in 1 .. Longest(conf)
    BY <1>1, <1>2
  <2>3. s.tokens \in Texts(conf)
    BY DEF Samples
  <2>4. QED
    BY <2>1, <2>2, <2>3 DEF Texts
<1>4. ans2.log_probs = Gathered(s, t.tokens, ans.log_probs)
  BY DEF AfterSampling
<1>5. PICK probs, words : probs = ans.log_probs /\ words = t.tokens
  OBVIOUS
<1>6. ans2.log_probs =
        [b \in 1 .. Size(conf) |-> [p \in 1 .. Longest(conf) - 1 |->
           IF p \in d + 1 .. c THEN <<s.logits[b][p - d], words[b][p + 1]>> ELSE probs[b][p]]]
  BY <1>1, <1>2, <1>4, <1>5 DEF Gathered
<1>7. Scored(conf, s) = d /\ Scored(conf, t) = c
  BY <1>1 DEF Samples, Scored, AfterSample, AfterCopy
<1>8. Saw(s.logits, s, s.tokens, 0, Size(conf))
  <2>1. s.pc \notin InPass
    BY DEF Samples, InPass
  <2>2. QED
    BY <2>1 DEF LogitsOK
<1>9. ASSUME NEW b \in 1 .. Size(conf), NEW p \in 1 .. c
      PROVE  ans2.log_probs[b][p] = <<SubSeq(t.tokens[b], 1, p), t.tokens[b][p + 1]>>
  <2>1. p \in 1 .. Longest(conf) - 1
    BY <1>1, <1>2
  <2>2. SubSeq(t.tokens[b], 1, p) = SubSeq(s.tokens[b], 1, p)
    <3>1. p \in Nat /\ \A i \in 1 .. p : i \in 1 .. c
      OBVIOUS
    <3>2. \A i \in 1 .. p : s.tokens[b][i] \in Tokens(conf) /\ t.tokens[b][i] = s.tokens[b][i]
      BY <1>3, <3>1
    <3>3. QED
      BY <3>1, <3>2, SamePrefix
  <2>3. CASE p \in d + 1 .. c
    <3>1. PICK j : j = p - d
      OBVIOUS
    <3>2. j \in 1 .. Width(s) /\ s.prev + j = p /\ 0 + b = b
      BY <1>1, <1>2, <2>3, <3>1 DEF Width
    <3>3. s.logits[b][j] = SubSeq(s.tokens[0 + b], 1, s.prev + j)
      BY <1>8, <3>2 DEF Saw
    <3>4. ans2.log_probs[b][p] = <<s.logits[b][j], words[b][p + 1]>>
      BY <1>6, <2>1, <2>3, <3>1
    <3>5. QED
      BY <1>5, <2>2, <3>2, <3>3, <3>4
  <2>4. CASE p \notin d + 1 .. c
    <3>1. p \in 1 .. d /\ p + 1 \in 1 .. c
      BY <1>1, <2>4
    <3>2. ans2.log_probs[b][p] = probs[b][p]
      BY <1>6, <2>1, <2>4
    <3>3. probs[b][p] = <<SubSeq(s.tokens[b], 1, p), s.tokens[b][p + 1]>>
      BY <1>5, <1>7, <3>1 DEF LogProbsOK
    <3>4. t.tokens[b][p + 1] = s.tokens[b][p + 1]
      BY <1>3, <3>1
    <3>5. QED
      BY <2>2, <3>2, <3>3, <3>4
  <2>5. QED
    BY <2>3, <2>4
<1>10. QED
  BY <1>7, <1>9 DEF LogProbsOK

(* A sampled token.                                                        *)
LEMMA SampleAnswer ==
  ASSUME Inv, conf.task = "generate", DataInv(conf, rank), AnswerInv(conf, rank, answer), Sample
  PROVE  AnswerInv(conf, rank', answer')
<1> DEFINE last == EndStage(conf)
<1>1. /\ conf \in Requests /\ 0 \in Stages(conf) /\ last \in Stages(conf)
      /\ StageOK(conf, last, rank[last])
  BY StageFacts
<1>2. /\ DOMAIN answer = Stages(conf)
      /\ \A r \in Stages(conf) : DOMAIN answer[r] = {"lengths", "log_probs", "finished"}
  BY DEF AnswerInv
<1>3. PICK s, t, a, a2 : s = rank[last] /\ t = rank'[last] /\ a = answer[last] /\ a2 = answer'[last]
  OBVIOUS
<1>4. /\ s.pc = "forwarded" /\ t.pc = "copy" /\ ToGenerate /\ Still(s, t)
      /\ \A q \in Stages(conf) : q # last => rank'[q] = rank[q]
      /\ DOMAIN answer' = Stages(conf) /\ DOMAIN a2 = {"lengths", "log_probs", "finished"}
      /\ \A q \in Stages(conf) : q # last => answer'[q] = answer[q]
  BY <1>2, <1>3, SampleFacts
<1>5. PICK sample \in [1 .. Size(conf) -> Vocab] :
        AfterSampling(conf, s, t.tokens, a, a2, sample)
  BY <1>2, <1>3, SampleFacts
<1>6. conf.tokens_to_generate > 0
  BY <1>4 DEF ToGenerate
<1>7. Samples(conf, s, t)
  <2>1. s.context \in Nat /\ s.context < Longest(conf)
    BY <1>1, <1>3, <1>6 DEF StageOK
  <2>2. s.tokens \in Texts(conf)
    BY <1>3 DEF DataInv, TokensOK
  <2>3. t.context = s.context /\ t.prev = s.prev
    BY <1>4 DEF Still, Fields
  <2>4. QED
    BY <1>4, <2>1, <2>2, <2>3 DEF Samples
<1>8. AnswerOK(conf, s, a)
  BY <1>3 DEF AnswerInv
<1>9. LengthsOK(conf, t, a2)
  BY <1>1, <1>5, <1>6, <1>7, <1>8, SampleLengths DEF AnswerOK
<1>10. ASSUME conf.log_probs PROVE LogProbsOK(conf, t, a2)
  <2>1. DataOK(conf, last, s, s.tokens)
    BY <1>1, <1>3 DEF DataInv
  <2>2. LogitsOK(conf, s, s.tokens) /\ s.prev < s.context
    BY <1>4, <2>1 DEF DataOK, PassOK
  <2>3. s.prev \in Nat
    BY <1>1, <1>3 DEF StageOK
  <2>4. LogProbsOK(conf, s, a)
    BY <1>8, <1>10 DEF AnswerOK
  <2>5. QED
    BY <1>1, <1>5, <1>6, <1>7, <1>10, <2>2, <2>3, <2>4, SampleLogProbs
<1>11. AnswerOK(conf, t, a2)
  <2>1. conf.tokens_to_generate # 0
    BY <1>6
  <2>2. QED
    BY <1>9, <1>10, <2>1 DEF AnswerOK
<1>12. ReturnedOK(conf, rank'[0], answer'[0], a2)
  <2>1. rank'[0].pc \notin AfterCopy
    <3>1. CASE last = 0
      BY <1>3, <1>4, <3>1 DEF AfterCopy
    <3>2. CASE last # 0
      <4>1. rank[0].pc \notin AfterCopy
        BY <1>3, <1>4, BeforeCopy
      <4>2. QED
        BY <1>1, <1>4, <3>2, <4>1
    <3>3. QED
      BY <3>1, <3>2
  <2>2. rank'[0].pc \notin {"log_probs", "returned"}
    BY <2>1 DEF AfterCopy
  <2>3. QED
    BY <2>2 DEF ReturnedOK
<1>13. \A r \in Stages(conf) : DOMAIN answer'[r] = {"lengths", "log_probs", "finished"}
  BY <1>2, <1>3, <1>4
<1>14. QED
  BY <1>3, <1>4, <1>11, <1>12, <1>13 DEF AnswerInv

(* The end of a turn: generation stops only if all rows have ended or      *)
(* there is no room.                                                       *)
LEMMA TurnAnswer ==
  ASSUME Inv, conf.task = "generate", AnswerInv(conf, rank, answer), BroadcastDone
  PROVE  AnswerInv(conf, rank', answer)
<1> DEFINE last == EndStage(conf)
           rk == rank
           rk2 == rank'
<1>1. /\ 0 \in Stages(conf) /\ last \in Stages(conf)
      /\ \A r \in Stages(conf) : StageOK(conf, r, rk[r])
  BY StageFacts
<1>2. PICK leave \in BOOLEAN :
        /\ leave <=> \/ conf.early_termination /\ answer[last].finished = 1 .. Size(conf)
                     \/ rk[last].context + 1 = Longest(conf)
        /\ \A r \in Stages(conf) : TurnOf(rk[r], rk2[r], r, leave)
  BY TurnFacts
<1>3. conf.tokens_to_generate > 0
  <2>1. rank[0].pc = "done"
    BY <1>1, <1>2 DEF TurnOf
  <2>2. QED
    BY <1>1, <2>1, OnlyGenerating
<1>4. PICK s, t, a : s = rk[last] /\ t = rk2[last] /\ a = answer[last]
  OBVIOUS
<1>5. s.context \in Nat /\ TurnOf(s, t, last, leave) /\ AnswerOK(conf, s, a)
  BY <1>1, <1>2, <1>4 DEF StageOK, AnswerInv
<1> HIDE DEF rk, rk2
<1>6. /\ t.tokens = s.tokens /\ s.pc = "done" /\ t.prev = s.context
      /\ leave => t.pc = "lengths" /\ t.context = s.context
      /\ ~leave => t.pc \in {"compute", "recv"} /\ t.context = s.context + 1
  BY <1>5 DEF TurnOf
<1>7. Sampled(conf, t) = Sampled(conf, s) /\ Scored(conf, t) = Scored(conf, s)
  <2>1. Sampled(conf, s) = s.context + 1 /\ Scored(conf, s) = s.context
    BY <1>3, <1>5, <1>6 DEF Sampled, Scored, AfterSample, AfterCopy
  <2>2. CASE leave
    BY <1>3, <1>5, <1>6, <2>1, <2>2 DEF Sampled, Scored, AfterSample, AfterCopy
  <2>3. CASE ~leave
    BY <1>6, <2>1, <2>3 DEF Sampled, Scored, AfterSample, AfterCopy
  <2>4. QED
    BY <2>2, <2>3
<1>8. t.pc \in AfterCopy \ {"done"} => t.context + 1 = Longest(conf) \/ a.finished = 1 .. Size(conf)
  <2>1. CASE leave
    BY <1>2, <1>4, <1>6, <2>1
  <2>2. CASE ~leave
    BY <1>6, <2>2 DEF AfterCopy
  <2>3. QED
    BY <2>1, <2>2
<1>9. AnswerOK(conf, t, a)
  <2>1. conf.tokens_to_generate # 0
    BY <1>3
  <2>2. QED
    BY <1>5, <1>6, <1>7, <1>8, <2>1, AnswerStays
<1>10. rk2[0].pc \notin {"log_probs", "returned"}
  BY <1>1, <1>2 DEF TurnOf
<1>11. AnswerInv(conf, rk2, answer)
  BY <1>4, <1>9, <1>10 DEF AnswerInv, ReturnedOK
<1>12. QED
  BY <1>11 DEF rk2

(* An answer is right if its parts are.                                    *)
LEMMA SameAnswer ==
  ASSUME NEW cf, NEW s, NEW a, NEW a2, AnswerOK(cf, s, a),
         a2.lengths = a.lengths, a2.log_probs = a.log_probs, a2.finished = a.finished
  PROVE  AnswerOK(cf, s, a2)
<1>1. LengthsOK(cf, s, a) => LengthsOK(cf, s, a2)
  BY DEF LengthsOK
<1>2. LogProbsOK(cf, s, a) => LogProbsOK(cf, s, a2)
  BY DEF LogProbsOK
<1>3. QED
  BY <1>1, <1>2 DEF AnswerOK

\* The first stage has got a part of the answer.
GotPart(ans, ans2, last, part) ==
  /\ DOMAIN ans2 = DOMAIN ans /\ \A q \in DOMAIN ans : q # 0 => ans2[q] = ans[q]
  /\ DOMAIN ans2[0] = DOMAIN ans[0]
  /\ ans2[0].lengths = IF part = "lengths" THEN ans[last].lengths ELSE ans[0].lengths
  /\ ans2[0].log_probs = IF part = "log_probs" THEN ans[last].log_probs ELSE ans[0].log_probs
  /\ ans2[0].finished = ans[0].finished

(* The collective that returns it.                                         *)
LEMMA PartReturned ==
  ASSUME Inv, conf.task = "generate", AnswerInv(conf, rank, answer),
         NEW op \in {"lengths", "log_probs"}, Meet(op),
         rank' = [r \in Stage |-> IF r \in Group(op)
                                  THEN [rank[r] EXCEPT !.pc = After(op)] ELSE rank[r]],
         GotPart(answer, answer', EndStage(conf), op)
  PROVE  AnswerInv(conf, rank', answer')
<1> DEFINE last == EndStage(conf)
           rk == rank
           rk2 == rank'
           ans == answer
           ans2 == answer'
<1>1. 0 \in Stages(conf) /\ last \in Stages(conf)
  BY StageFacts
<1>2. /\ BothGoOn(rk, rk2, op, After(op))
      /\ \A r \in Stages(conf) : rk2[r].tokens = rk[r].tokens
  BY ReturnFacts DEF EmbeddingOps
<1>3. After(op) = IF op = "lengths" /\ conf.log_probs THEN "log_probs" ELSE "returned"
  BY DEF After
<1> HIDE DEF rk, rk2, ans, ans2
<1>4. AnswerInv(conf, rk, ans) /\ GotPart(ans, ans2, last, op)
  BY DEF rk, ans, ans2
<1>5. PICK s, t, a, a2 : s = rk[last] /\ t = rk2[last] /\ a = ans[last] /\ a2 = ans2[last]
  OBVIOUS
<1>6. /\ s.pc = op /\ t.pc = After(op) /\ t.tokens = s.tokens
      /\ t.context = s.context /\ t.prev = s.prev
      /\ rk[0].pc = op /\ rk2[0].pc = After(op)
  BY <1>1, <1>2, <1>5 DEF BothGoOn, Still, Fields
<1>7. AnswerOK(conf, s, a) /\ DOMAIN ans = Stages(conf)
  BY <1>4, <1>5 DEF AnswerInv
<1>8. s.pc \in AfterCopy \ {"done"} /\ t.pc \in AfterCopy \ {"done"}
  BY <1>3, <1>6 DEF AfterCopy
<1>9. Sampled(conf, t) = Sampled(conf, s) /\ Scored(conf, t) = Scored(conf, s)
  BY <1>6, <1>8 DEF Sampled, Scored, AfterSample
<1>10. conf.tokens_to_generate > 0 => t.context + 1 = Longest(conf) \/ a.finished = 1 .. Size(conf)
  BY <1>6, <1>7, <1>8 DEF AnswerOK, LengthsOK
<1>11. AnswerOK(conf, t, a)
  BY <1>6, <1>7, <1>9, <1>10, AnswerStays
<1>12. a2.lengths = a.lengths /\ a2.log_probs = a.log_probs /\ a2.finished = a.finished
  BY <1>1, <1>4, <1>5, <1>7 DEF GotPart
<1>13. AnswerOK(conf, t, a2)
  BY <1>11, <1>12, SameAnswer
<1>14. ReturnedOK(conf, rk2[0], ans2[0], a2)
  <2>1. ReturnedOK(conf, rk[0], ans[0], a)
    BY <1>4, <1>5 DEF AnswerInv
  <2>2. conf.tokens_to_generate > 0 => ans2[0].lengths = a2.lengths
    <3>1. CASE op = "lengths"
      BY <1>4, <1>5, <1>12, <3>1 DEF GotPart
    <3>2. CASE op = "log_probs"
      BY <1>4, <1>5, <1>6, <1>12, <2>1, <3>2 DEF GotPart, ReturnedOK
    <3>3. QED
      BY <3>1, <3>2
  <2>3. rk2[0].pc = "returned" /\ conf.log_probs => ans2[0].log_probs = a2.log_probs
    <3>1. CASE op = "lengths"
      BY <1>3, <1>6, <3>1
    <3>2. CASE op = "log_probs"
      BY <1>4, <1>5, <1>12, <3>2 DEF GotPart
    <3>3. QED
      BY <3>1, <3>2
  <2>4. QED
    BY <2>2, <2>3 DEF ReturnedOK
<1>15. /\ DOMAIN ans2 = Stages(conf)
       /\ \A r \in Stages(conf) : DOMAIN ans2[r] = {"lengths", "log_probs", "finished"}
  BY <1>4, <1>7 DEF GotPart, AnswerInv
<1>16. AnswerInv(conf, rk2, ans2)
  BY <1>5, <1>13, <1>14, <1>15 DEF AnswerInv
<1>17. QED
  BY <1>16 DEF rk2, ans2

(* The results.                                                            *)
LEMMA ReturnAnswer ==
  ASSUME Inv, conf.task = "generate", AnswerInv(conf, rank, answer),
         ReturnLengths \/ ReturnLogProbs
  PROVE  AnswerInv(conf, rank', answer')
<1>1. /\ LastStage = EndStage(conf) /\ FirstStage = 0
      /\ 0 \in DOMAIN answer /\ DOMAIN answer[0] = {"lengths", "log_probs", "finished"}
  BY StageFacts DEF AnswerInv
<1>2. PICK a, v, w : /\ a = answer[0] /\ DOMAIN a = {"lengths", "log_probs", "finished"}
                     /\ v = answer[EndStage(conf)].lengths
                     /\ w = answer[EndStage(conf)].log_probs
  BY <1>1
<1>3. CASE ReturnLengths
  <2>1. answer' = [answer EXCEPT ![0].lengths = v]
    BY <1>1, <1>2, <1>3 DEF ReturnLengths
  <2>2. answer'[0] = [a EXCEPT !.lengths = v]
    BY <1>1, <1>2, <2>1
  <2>3. GotPart(answer, answer', EndStage(conf), "lengths")
    BY <1>1, <1>2, <2>1, <2>2 DEF GotPart
  <2>4. QED
    BY <1>3, <2>3, PartReturned DEF ReturnLengths
<1>4. CASE ReturnLogProbs
  <2>1. answer' = [answer EXCEPT ![0].log_probs = w]
    BY <1>1, <1>2, <1>4 DEF ReturnLogProbs
  <2>2. answer'[0] = [a EXCEPT !.log_probs = w]
    BY <1>1, <1>2, <2>1
  <2>3. GotPart(answer, answer', EndStage(conf), "log_probs")
    BY <1>1, <1>2, <2>1, <2>2 DEF GotPart
  <2>4. QED
    BY <1>4, <2>3, PartReturned DEF ReturnLogProbs
<1>5. QED
  BY <1>3, <1>4

-----------------------------------------------------------------------------
(* The theorems about a generation.                                        *)

(* The padded prompts are texts that begin with the prompts.               *)
LEMMA PaddedFacts ==
  ASSUME conf \in Requests
  PROVE  /\ PaddedPrompts \in Texts(conf)
         /\ \A b \in 1 .. Size(conf) : \A p \in 1 .. Len(conf.prompts[b]) :
              PaddedPrompts[b][p] = conf.prompts[b][p]
<1>1. /\ Batch = 1 .. Size(conf) /\ DOMAIN conf.prompts = 1 .. Size(conf) /\ MaxLen = Longest(conf)
      /\ Longest(conf) \in Nat /\ conf.tokens_to_generate \in Nat
  BY SizesOf, RequestFacts, LengthFacts
<1>2. PaddedPrompts = [b \in 1 .. Size(conf) |-> [p \in 1 .. Longest(conf) |->
                         IF p <= Len(conf.prompts[b]) THEN conf.prompts[b][p] ELSE Eod]]
  BY <1>1 DEF PaddedPrompts, PromptLen
<1>3. ASSUME NEW b \in 1 .. Size(conf)
      PROVE  /\ \A p \in 1 .. Len(conf.prompts[b]) :
                  p \in 1 .. Longest(conf) /\ conf.prompts[b][p] \in Tokens(conf)
             /\ Len(conf.prompts[b]) \in Nat
  <2>1. PICK x : x = conf.prompts[b] /\ x \in Seq(Range(x))
    BY <1>1, RequestsAssumption
  <2>2. Range(x) \subseteq Tokens(conf)
    BY <1>1, <2>1 DEF Tokens
  <2>3. Len(x) \in Nat /\ \A p \in 1 .. Len(x) : x[p] \in Range(x)
    BY <2>1
  <2>4. Len(x) + conf.tokens_to_generate <= Longest(conf)
    BY <2>1, LengthFacts
  <2>5. \A p \in 1 .. Len(x) : p \in 1 .. Longest(conf)
    BY <1>1, <2>3, <2>4
  <2>6. QED
    BY <2>1, <2>2, <2>3, <2>5
<1>4. Eod \in Tokens(conf)
  BY DEF Tokens
<1>5. ASSUME NEW b \in 1 .. Size(conf)
      PROVE  /\ PaddedPrompts[b] \in [1 .. Longest(conf) -> Tokens(conf)]
             /\ \A p \in 1 .. Len(conf.prompts[b]) : PaddedPrompts[b][p] = conf.prompts[b][p]
  <2>1. PICK x, n : x = conf.prompts[b] /\ n = Len(x) /\ n \in Nat
    BY <1>3
  <2>2. PaddedPrompts[b] = [p \in 1 .. Longest(conf) |-> IF p <= n THEN x[p] ELSE Eod]
    BY <1>2, <2>1
  <2>3. \A p \in 1 .. n : p \in 1 .. Longest(conf) /\ x[p] \in Tokens(conf)
    BY <1>3, <2>1
  <2>4. \A p \in 1 .. Longest(conf) : p <= n => p \in 1 .. n
    BY <2>1
  <2>5. \A p \in 1 .. n : PaddedPrompts[b][p] = x[p]
    BY <2>2, <2>3
  <2>6. QED
    BY <1>4, <2>1, <2>2, <2>3, <2>4, <2>5
<1>6. PaddedPrompts \in Texts(conf)
  BY <1>2, <1>5 DEF Texts
<1>7. QED
  BY <1>5, <1>6

(* What the stages start with.                                             *)
LEMMA InitFacts ==
  ASSUME Init, conf.task = "generate"
  PROVE  /\ FirstContext(conf) \in Nat /\ StartContext = FirstContext(conf)
         /\ \A r \in Stages(conf) :
              /\ rank[r].pc = (IF r = 0 THEN "compute" ELSE "recv") /\ rank[r].mb = 0
              /\ rank[r].prev = 0 /\ rank[r].context = FirstContext(conf)
              /\ rank[r].tokens = PaddedPrompts /\ rank[r].allocated = FALSE
<1>1. conf \in Requests /\ rank = InitRank(StartContext)
  BY DEF Init
<1>2. Stage = Stages(conf) /\ MaxLen = Longest(conf) /\ Batch = DOMAIN conf.prompts
  BY SizesOf
<1>3. StartContext = FirstContext(conf)
  BY <1>2, Zenon DEF StartContext, FirstContext, ToGenerate, PromptLen
<1>4. FirstContext(conf) \in Nat
  <2>1. PICK m : m = Min({Len(conf.prompts[b]) : b \in DOMAIN conf.prompts})
    OBVIOUS
  <2>2. m \in Nat /\ Longest(conf) \in Nat
    BY <1>1, <2>1, LengthFacts, Zenon
  <2>3. FirstContext(conf) = IF conf.tokens_to_generate > 0 THEN m ELSE Longest(conf)
    BY <2>1 DEF FirstContext
  <2>4. QED
    BY <2>2, <2>3
<1>5. PICK c, padded : c \in Nat /\ c = FirstContext(conf) /\ padded = PaddedPrompts
  BY <1>4
<1>6. ASSUME NEW r \in Stages(conf)
      PROVE  /\ rank[r].pc = (IF r = 0 THEN "compute" ELSE "recv") /\ rank[r].mb = 0
             /\ rank[r].prev = 0 /\ rank[r].context = c
             /\ rank[r].tokens = padded /\ rank[r].allocated = FALSE
  <2>1. PICK s : /\ rank[r] = BeginMicroBatch(r, s) /\ DOMAIN s = Fields
                 /\ s.mb = 0 /\ s.prev = 0 /\ s.context = c
                 /\ s.tokens = padded /\ s.allocated = FALSE
    BY <1>1, <1>2, <1>3, <1>5 DEF InitRank, Fields
  <2>2. /\ rank[r].pc = IF r = 0 THEN "compute" ELSE "recv"
        /\ \A f \in Fields \ {"pc"} : rank[r][f] = s[f]
    BY <2>1, BeginFacts
  <2>3. QED
    BY <2>1, <2>2 DEF Fields
<1>7. QED
  BY <1>3, <1>4, <1>5, <1>6

(* They start with the right data.                                         *)
LEMMA InitData ==
  ASSUME Init, conf.task = "generate"
  PROVE  DataInv(conf, rank)
<1> DEFINE rk == rank
<1>1. Inv
  BY InitInv
<1>2. /\ conf \in Requests /\ 0 \in Stages(conf) /\ EndStage(conf) \in Stages(conf)
      /\ \A r \in Stages(conf) : StageOK(conf, r, rk[r])
  BY <1>1, StageFacts
<1>3. PICK c, padded :
        /\ c \in Nat /\ c = FirstContext(conf) /\ padded = PaddedPrompts
        /\ \A r \in Stages(conf) :
              /\ rk[r].pc = (IF r = 0 THEN "compute" ELSE "recv") /\ rk[r].mb = 0
              /\ rk[r].prev = 0 /\ rk[r].context = c
              /\ rk[r].tokens = padded /\ rk[r].allocated = FALSE
  BY InitFacts
<1> HIDE DEF rk
<1>4. ASSUME NEW r \in Stages(conf) PROVE DataOK(conf, r, rk[r], padded)
  <2>1. PICK s : s = rk[r]
    OBVIOUS
  <2>2. /\ s.pc \in {"recv", "compute"} /\ (r # 0 => s.pc = "recv") /\ s.mb = 0 /\ s.prev = 0
        /\ s.context = c /\ s.allocated = FALSE /\ StageOK(conf, r, s)
    BY <1>2, <1>3, <2>1
  <2>3. s.pc \in InPass
    BY <2>2 DEF InPass
  <2>4. Before(conf, s) = 0 /\ Width(s) = c
    BY <1>2, <1>3, <2>2, <2>3, PassFacts DEF Width
  <2>5. \A b \in 1 .. Size(conf) : Filled(conf, s, b) = 0
    <3>1. Rows(conf, s) = 0
      BY <2>2, <2>4 DEF Rows
    <3>2. \A b \in 1 .. Size(conf) : ~(b <= 0)
      OBVIOUS
    <3>3. QED
      BY <2>2, <3>1, <3>2 DEF Filled
  <2>6. CacheOK(conf, r, s, padded)
    BY <2>5 DEF CacheOK
  <2>7. PassOK(conf, s)
    BY <1>3, <2>2, <2>4 DEF PassOK
  <2>8. BuffersOK(conf, r, s, padded) /\ LogitsOK(conf, s, padded)
    BY <2>2, <2>3 DEF BuffersOK, LogitsOK
  <2>9. QED
    BY <2>1, <2>6, <2>7, <2>8 DEF DataOK
<1>5. TokensOK(conf, rk)
  BY <1>2, <1>3, PaddedFacts DEF TokensOK
<1>6. DataInv(conf, rk)
  BY <1>2, <1>3, <1>4, <1>5 DEF DataInv
<1>7. QED
  BY <1>6 DEF rk

(* Nothing has been answered at the start.                                 *)
LEMMA InitAnswered ==
  ASSUME Init, conf.task = "generate"
  PROVE  AnswerInv(conf, rank, answer)
<1> DEFINE last == EndStage(conf)
<1>1. Inv
  BY InitInv
<1>2. /\ conf \in Requests /\ 0 \in Stages(conf) /\ last \in Stages(conf)
      /\ Stage = Stages(conf) /\ Batch = 1 .. Size(conf) /\ MaxLen = Longest(conf)
  BY <1>1, StageFacts
<1>3. PICK s : s = rank[last]
  OBVIOUS
<1>4. /\ FirstContext(conf) \in Nat
      /\ s.pc \in {"compute", "recv"} /\ s.prev = 0 /\ s.context = FirstContext(conf)
      /\ s.tokens = PaddedPrompts /\ rank[0].pc = "compute"
  BY <1>2, <1>3, InitFacts
<1>5. PICK none : none = [b \in Batch |-> [p \in 1 .. MaxLen - 1 |-> <<>>]]
  OBVIOUS
<1>6. answer = [r \in Stage |-> [lengths |-> [b \in Batch |-> MaxLen], finished |-> {},
                                log_probs |-> none]]
  BY <1>5 DEF Init, InitAnswer
<1>7. PICK a : a = answer[last]
  OBVIOUS
<1>8. /\ DOMAIN answer = Stages(conf)
      /\ \A r \in Stages(conf) : DOMAIN answer[r] = {"lengths", "log_probs", "finished"}
      /\ a.lengths = [b \in 1 .. Size(conf) |-> Longest(conf)] /\ a.finished = {}
  BY <1>2, <1>6, <1>7
<1>9. Sampled(conf, s) = s.context /\ Scored(conf, s) = 0 /\ s.pc \notin AfterCopy
  BY <1>4 DEF Sampled, Scored, AfterSample, AfterCopy
<1>10. ASSUME conf.tokens_to_generate > 0 PROVE LengthsOK(conf, s, a)
  <2>1. \A b \in 1 .. Size(conf) : Len(conf.prompts[b]) \in Nat /\ s.context <= Len(conf.prompts[b])
    <3>1. PICK m : m = Min({Len(conf.prompts[b]) : b \in DOMAIN conf.prompts})
      OBVIOUS
    <3>2. \A b \in 1 .. Size(conf) : m <= Len(conf.prompts[b])
      BY <1>2, <3>1, LengthFacts, Zenon
    <3>3. s.context = m
      BY <1>4, <1>10, <3>1 DEF FirstContext
    <3>4. QED
      BY <1>2, <3>2, <3>3, RequestFacts
  <2>2. \A b \in 1 .. Size(conf) : Ends(conf, s, b) = {}
    <3>1. PICK c \in Nat : c = s.context
      BY <1>4
    <3>2. \A b \in 1 .. Size(conf) : \A p : p \notin Len(conf.prompts[b]) + 1 .. c
      BY <2>1, <3>1
    <3>3. QED
      BY <1>9, <3>1, <3>2 DEF Ends
  <2>3. \A b \in 1 .. Size(conf) : \A p \in 1 .. Len(conf.prompts[b]) :
          s.tokens[b][p] = conf.prompts[b][p]
    BY <1>2, <1>4, PaddedFacts
  <2>4. Longest(conf) \in Nat
    BY <1>2, LengthFacts
  <2>5. QED
    BY <1>8, <1>9, <2>2, <2>3, <2>4 DEF LengthsOK
<1>11. conf.tokens_to_generate = 0 => s.prev = 0 /\ s.context = Longest(conf)
  BY <1>4 DEF FirstContext
<1>12. LogProbsOK(conf, s, a)
  BY <1>9 DEF LogProbsOK
<1>13. AnswerOK(conf, s, a)
  BY <1>10, <1>11, <1>12 DEF AnswerOK
<1>14. ReturnedOK(conf, rank[0], answer[0], a)
  BY <1>4 DEF ReturnedOK
<1>15. QED
  BY <1>3, <1>7, <1>8, <1>13, <1>14 DEF AnswerInv

\* The data are right if a generation has a first pass that fits.
GeneratesRight(cf, rk, ans) ==
  cf.task = "generate" /\ FirstPassFits(cf) => DataInv(cf, rk) /\ AnswerInv(cf, rk, ans)

GenerationInv == Inv /\ GeneratesRight(conf, rank, answer)

(* Every step of a generation keeps data and answer right.                 *)
LEMMA GenerateKeepsData ==
  ASSUME Inv, conf.task = "generate", FirstPassFits(conf), DataInv(conf, rank),
         AnswerInv(conf, rank, answer), Generate
  PROVE  DataInv(conf, rank') /\ AnswerInv(conf, rank', answer')
<1>1. CASE Forward /\ UNCHANGED <<conf, answer>>
  <2>1. DataInv(conf, rank') /\ Within(conf, rank, rank')
    BY <1>1, ForwardData
  <2>2. AnswerInv(conf, rank', answer)
    BY <2>1, UntouchedSteps
  <2>3. QED
    BY <1>1, <2>1, <2>2
<1>2. CASE Sample
  BY <1>2, SampleData, SampleAnswer DEF AnswerInv
<1>3. CASE Score
  BY <1>3, OnwardSteps, ScoreAnswer
<1>4. CASE \E r \in Stage : NoLogits(r) \/ Skip(r)
  <2>1. answer' = answer
    BY <1>4 DEF NoLogits, Skip
  <2>2. AnswerInv(conf, rank', answer)
    BY <1>4, UntouchedSteps
  <2>3. DataInv(conf, rank')
    BY <1>4, OnwardSteps
  <2>4. QED
    BY <2>1, <2>2, <2>3
<1>5. CASE CopyToFirst
  <2>1. answer' = answer
    BY <1>5 DEF CopyToFirst
  <2>2. AnswerInv(conf, rank', answer)
    BY <1>5, UntouchedSteps
  <2>3. DataInv(conf, rank')
    BY <1>5, CopyData
  <2>4. QED
    BY <2>1, <2>2, <2>3
<1>6. CASE BroadcastDone
  <2>1. answer' = answer
    BY <1>6 DEF BroadcastDone
  <2>2. DataInv(conf, rank') /\ AnswerInv(conf, rank', answer)
    BY <1>6, TurnKeepsData, TurnAnswer
  <2>3. QED
    BY <2>1, <2>2
<1>7. CASE ReturnLengths \/ ReturnLogProbs
  BY <1>7, OnwardSteps, ReturnAnswer
<1>8. CASE AssertContiguous
  <2>1. answer' = answer
    BY <1>8 DEF AssertContiguous
  <2>2. AnswerInv(conf, rank', answer) /\ DataInv(conf, rank')
    BY <1>8, UntouchedSteps, OnwardSteps
  <2>3. QED
    BY <2>1, <2>2
<1>9. QED
  BY <1>1, <1>2, <1>3, <1>4, <1>5, <1>6, <1>7, <1>8 DEF Generate

(* Every step of a request keeps the invariant of a generation.            *)
LEMMA NextKeepsGeneration ==
  ASSUME GenerationInv, [Next]_vars
  PROVE  GenerationInv'
<1>1. Inv /\ GeneratesRight(conf, rank, answer)
  BY DEF GenerationInv
<1>2. Inv' /\ conf' = conf
  BY <1>1, NextKeepsInv, SameRequest
<1>3. GeneratesRight(conf, rank', answer')
  <2>1. SUFFICES ASSUME conf.task = "generate", FirstPassFits(conf)
                 PROVE  DataInv(conf, rank') /\ AnswerInv(conf, rank', answer')
    BY DEF GeneratesRight
  <2>2. DataInv(conf, rank) /\ AnswerInv(conf, rank, answer)
    BY <1>1, <2>1 DEF GeneratesRight
  <2>3. CASE Generate
    BY <1>1, <2>1, <2>2, <2>3, GenerateKeepsData
  <2>4. CASE rank' = rank /\ answer' = answer
    BY <2>2, <2>4
  <2>5. QED
    BY <2>1, <2>3, <2>4 DEF Next, Ended, vars
<1>4. QED
  BY <1>2, <1>3 DEF GenerationInv

(* A request begins with it.                                               *)
LEMMA InitGeneration ==
  ASSUME Init
  PROVE  GenerationInv
BY InitInv, InitData, InitAnswered DEF GenerationInv, GeneratesRight

(* Right logits have seen the prefix of their row.                         *)
LEMMA DataImpliesPrefix ==
  ASSUME Inv, DataInv(conf, rank)
  PROVE  SamplesFromWholePrefix
<1>1. SUFFICES ASSUME rank[LastStage].pc = "forwarded", NEW b \in Batch
               PROVE  rank[LastStage].logits[b][SeqLen(rank[LastStage])] =
                        SubSeq(rank[LastStage].tokens[b], 1, rank[LastStage].context)
  BY DEF SamplesFromWholePrefix
<1>2. /\ conf \in Requests /\ LastStage = EndStage(conf) /\ EndStage(conf) \in Stages(conf)
      /\ Batch = 1 .. Size(conf)
      /\ \A r \in Stages(conf) : StageOK(conf, r, rank[r])
  BY StageFacts
<1>3. PICK s : /\ s = rank[LastStage] /\ s.pc = "forwarded"
               /\ StageOK(conf, EndStage(conf), s) /\ DataOK(conf, EndStage(conf), s, s.tokens)
  BY <1>1, <1>2 DEF DataInv
<1>4. SeqLen(s) \in 1 .. Width(s) /\ s.prev + SeqLen(s) = s.context
  <2>1. s.prev \in Nat /\ s.context \in Nat /\ s.prev < s.context
    BY <1>3 DEF StageOK, DataOK, PassOK
  <2>2. QED
    BY <2>1 DEF SeqLen, Width
<1>5. Saw(s.logits, s, s.tokens, 0, Size(conf))
  BY <1>3 DEF DataOK, LogitsOK, InPass
<1>6. b \in 1 .. Size(conf) /\ 0 + b = b
  BY <1>1, <1>2, RequestFacts
<1>7. s.logits[b][SeqLen(s)] = SubSeq(s.tokens[0 + b], 1, s.prev + SeqLen(s))
  BY <1>4, <1>5, <1>6 DEF Saw
<1>8. QED
  BY <1>3, <1>4, <1>6, <1>7

(* For any generation, or scoring, whose first pass fits: the logits that  *)
(* a token is sampled from have seen the whole text of their row so far,   *)
(* and nothing else, on any number of stages, whatever the microbatches    *)
(* (forward_step.py, attention.py).                                        *)
THEOREM SamplesFromWholePrefixThm ==
  Spec => [](conf.task = "generate" /\ FirstPassFits(conf) => SamplesFromWholePrefix)
<1>1. Init => GenerationInv
  BY InitGeneration
<1>2. GenerationInv /\ [Next]_vars => GenerationInv'
  BY NextKeepsGeneration
<1>3. GenerationInv =>
        (conf.task = "generate" /\ FirstPassFits(conf) => SamplesFromWholePrefix)
  BY DataImpliesPrefix DEF GenerationInv, GeneratesRight
<1>4. QED
  BY <1>1, <1>2, <1>3, PTL DEF Spec

(* The end of the answer: the first stage has the words of the last one.   *)
LEMMA ReturnedFacts ==
  ASSUME Inv, conf.task = "generate", DataInv(conf, rank), AnswerInv(conf, rank, answer),
         rank[0].pc = "returned"
  PROVE  \E s, a :
           /\ s = rank[EndStage(conf)] /\ s.pc = "returned" /\ AnswerOK(conf, s, a)
           /\ s.context = rank[0].context /\ s.context \in Nat /\ s.context <= Longest(conf)
           /\ conf.tokens_to_generate > 0 => s.context < Longest(conf)
           /\ conf.tokens_to_generate > 0 => answer[0].lengths = a.lengths
           /\ conf.log_probs => answer[0].log_probs = a.log_probs
           /\ s.tokens \in Texts(conf)
           /\ \A b \in 1 .. Size(conf) :
                \A p \in 1 .. s.context + (IF conf.tokens_to_generate > 0 THEN 1 ELSE 0) :
                  rank[0].tokens[b][p] = s.tokens[b][p]
<1>1. /\ conf \in Requests /\ StagesInv(conf, rank)
      /\ 0 \in Stages(conf) /\ EndStage(conf) \in Stages(conf)
      /\ StageOK(conf, EndStage(conf), rank[EndStage(conf)])
  BY StageFacts
<1>2. PICK s, a : s = rank[EndStage(conf)] /\ a = answer[EndStage(conf)]
  OBVIOUS
<1>3. s.pc = "returned"
  <2>1. "returned" \in Together(conf)
    BY <1>1, GenerateSections
  <2>2. QED
    BY <1>1, <1>2, <2>1 DEF StagesInv, EndsTogether
<1>4. s.context = rank[0].context
  BY <1>1, <1>2 DEF StagesInv, SamePass
<1>5. /\ s.context \in Nat /\ s.context <= Longest(conf)
      /\ conf.tokens_to_generate > 0 => s.context < Longest(conf)
  BY <1>1, <1>2 DEF StageOK
<1>6. AnswerOK(conf, s, a) /\ ReturnedOK(conf, rank[0], answer[0], a)
  BY <1>2 DEF AnswerInv
<1>7. TokensOK(conf, rank)
  BY DEF DataInv
<1>8. Known(conf, rank[0]) = s.context + (IF conf.tokens_to_generate > 0 THEN 1 ELSE 0)
  BY <1>4, <1>5 DEF Known, AfterCopy
<1>9. QED
  BY <1>2, <1>3, <1>4, <1>5, <1>6, <1>7, <1>8 DEF ReturnedOK, TokensOK

(* A right answer is the one promised.                                     *)
LEMMA AnswerImplies ==
  ASSUME Inv, conf.task = "generate", DataInv(conf, rank), AnswerInv(conf, rank, answer)
  PROVE  AnswerIsWhatWasGenerated
<1> DEFINE f == rank[FirstStage]
           text(b) == f.tokens[b]
           ends(b) == {p \in PromptLen(b) + 1 .. f.context + 1 : Stops(text(b), p)}
           predicted == 1 .. f.context - (IF ToGenerate THEN 0 ELSE 1)
<1>1. SUFFICES ASSUME f.pc = "returned"
               PROVE  /\ ToGenerate =>
                           /\ \A b \in Batch :
                                 /\ SubSeq(text(b), 1, PromptLen(b)) = conf.prompts[b]
                                 /\ answer[FirstStage].lengths[b] =
                                       IF ends(b) = {} THEN MaxLen ELSE Min(ends(b))
                           /\ (\E b \in Batch : ends(b) = {}) => f.context + 1 = MaxLen
                      /\ conf.log_probs =>
                           \A b \in Batch, p \in predicted :
                             answer[FirstStage].log_probs[b][p] =
                               <<SubSeq(text(b), 1, p), text(b)[p + 1]>>
  BY Zenon DEF AnswerIsWhatWasGenerated
<1>2. /\ conf \in Requests /\ FirstStage = 0 /\ Batch = 1 .. Size(conf) /\ MaxLen = Longest(conf)
      /\ \A b \in 1 .. Size(conf) : PromptLen(b) = Len(conf.prompts[b])
      /\ Longest(conf) \in Nat /\ conf.tokens_to_generate \in Nat
      /\ ToGenerate <=> conf.tokens_to_generate > 0
  BY StageFacts, LengthFacts, RequestFacts DEF PromptLen, ToGenerate
<1>3. PICK s, a :
        /\ s.pc = "returned" /\ AnswerOK(conf, s, a)
        /\ s.context = f.context /\ s.context \in Nat /\ s.context <= Longest(conf)
        /\ conf.tokens_to_generate > 0 => s.context < Longest(conf)
        /\ conf.tokens_to_generate > 0 => answer[0].lengths = a.lengths
        /\ conf.log_probs => answer[0].log_probs = a.log_probs
        /\ s.tokens \in Texts(conf)
        /\ \A b \in 1 .. Size(conf) :
             \A p \in 1 .. s.context + (IF conf.tokens_to_generate > 0 THEN 1 ELSE 0) :
               text(b)[p] = s.tokens[b][p]
  BY <1>1, <1>2, ReturnedFacts
<1>4. PICK c \in Nat : c = f.context
  BY <1>3
<1> HIDE DEF f
<1>5. ASSUME NEW b \in 1 .. Size(conf), NEW p \in Nat, p <= Longest(conf),
             p <= c + (IF conf.tokens_to_generate > 0 THEN 1 ELSE 0)
      PROVE  /\ \A i \in 1 .. p : s.tokens[b][i] \in Tokens(conf) /\ text(b)[i] = s.tokens[b][i]
             /\ SubSeq(text(b), 1, p) = SubSeq(s.tokens[b], 1, p)
  <2>1. \A i \in 1 .. p : i \in 1 .. s.context + (IF conf.tokens_to_generate > 0 THEN 1 ELSE 0)
    BY <1>3, <1>4, <1>5
  <2>2. \A i \in 1 .. p : s.tokens[b][i] \in Tokens(conf)
    BY <1>2, <1>3, <1>5, TextFacts
  <2>3. \A i \in 1 .. p : text(b)[i] = s.tokens[b][i]
    BY <1>3, <2>1
  <2> HIDE DEF text
  <2>4. SubSeq(text(b), 1, p) = SubSeq(s.tokens[b], 1, p)
    BY <2>2, <2>3, SamePrefix
  <2>5. QED
    BY <2>2, <2>3, <2>4
<1>6. ASSUME ToGenerate
      PROVE  /\ \A b \in Batch :
                   /\ SubSeq(text(b), 1, PromptLen(b)) = conf.prompts[b]
                   /\ answer[FirstStage].lengths[b] =
                         IF ends(b) = {} THEN MaxLen ELSE Min(ends(b))
             /\ (\E b \in Batch : ends(b) = {}) => f.context + 1 = MaxLen
  <2>1. LengthsOK(conf, s, a) /\ conf.tokens_to_generate > 0 /\ c + 1 <= Longest(conf)
    BY <1>2, <1>3, <1>4, <1>6 DEF AnswerOK
  <2>2. Sampled(conf, s) = c + 1
    BY <1>3, <1>4 DEF Sampled, AfterSample, AfterCopy
  <2>3. ASSUME NEW b \in 1 .. Size(conf) PROVE ends(b) = Ends(conf, s, b)
    <3>1. PICK n \in Nat : n = Len(conf.prompts[b])
      BY <1>2, RequestFacts
    <3>2. PICK x, y : x = text(b) /\ y = s.tokens[b]
      OBVIOUS
    <3>3. ASSUME NEW p \in n + 1 .. c + 1 PROVE Stops(x, p) <=> StopsAt(conf, y, p)
      <4>1. /\ p \in Nat \ {0} /\ p <= Longest(conf)
            /\ p <= c + (IF conf.tokens_to_generate > 0 THEN 1 ELSE 0)
        BY <1>2, <2>1, <3>1
      <4>2. \A i \in 1 .. p : x[i] = y[i]
        BY <1>5, <3>2, <4>1
      <4>3. StopsAt(conf, x, p) <=> StopsAt(conf, y, p)
        BY <1>2, <4>1, <4>2, StopsSame
      <4>4. Stops(x, p) <=> StopsAt(conf, x, p)
        BY Zenon DEF Stops, StopsAt
      <4>5. QED
        BY <4>3, <4>4
    <3>4. ends(b) = {p \in n + 1 .. c + 1 : Stops(x, p)}
      BY <1>2, <1>4, <3>1, <3>2
    <3>5. Ends(conf, s, b) = {p \in n + 1 .. c + 1 : StopsAt(conf, y, p)}
      BY <2>2, <3>1, <3>2 DEF Ends
    <3>6. QED
      BY <3>3, <3>4, <3>5
  <2> HIDE DEF ends, text
  <2>4. ASSUME NEW b \in 1 .. Size(conf)
        PROVE  SubSeq(text(b), 1, PromptLen(b)) = conf.prompts[b]
    <3>1. PICK n \in Nat : n = Len(conf.prompts[b])
      BY <1>2, RequestFacts
    <3>2. n <= c + 1
      <4>1. CASE c + 1 = Longest(conf)
        <5>1. n + conf.tokens_to_generate <= Longest(conf)
          BY <1>2, <3>1, LengthFacts
        <5>2. QED
          BY <1>2, <4>1, <5>1
      <4>2. CASE c + 1 # Longest(conf)
        <5>1. a.finished = 1 .. Size(conf)
          BY <1>3, <1>4, <2>1, <4>2 DEF LengthsOK, AfterCopy
        <5>2. Ends(conf, s, b) # {}
          BY <2>1, <5>1 DEF LengthsOK
        <5>3. PICK p \in n + 1 .. c + 1 : TRUE
          BY <2>2, <3>1, <5>2 DEF Ends
        <5>4. QED
          BY <5>3
      <4>3. QED
        BY <4>1, <4>2
    <3>3. n <= Longest(conf) /\ n <= c + (IF conf.tokens_to_generate > 0 THEN 1 ELSE 0)
      BY <1>2, <2>1, <3>2
    <3>4. /\ SubSeq(text(b), 1, n) = SubSeq(s.tokens[b], 1, n)
          /\ \A i \in 1 .. n : s.tokens[b][i] \in Tokens(conf)
      BY <1>5, <3>3
    <3>5. PICK x, y, S : x = conf.prompts[b] /\ y = s.tokens[b] /\ S = Tokens(conf)
      OBVIOUS
    <3>6. \A i \in 1 .. n : y[i] = x[i] /\ x[i] \in S
      BY <2>1, <3>1, <3>4, <3>5 DEF LengthsOK
    <3>7. SubSeq(y, 1, n) = SubSeq(x, 1, n)
      BY <3>6, SamePrefix
    <3>8. SubSeq(x, 1, n) = x
      <4>1. x \in Seq(Range(x))
        BY <1>2, <3>5, RequestFacts, RequestsAssumption
      <4>2. QED
        BY <3>1, <3>5, <4>1, SubSeqFull
    <3>9. QED
      BY <1>2, <3>1, <3>4, <3>5, <3>7, <3>8
  <2>5. ASSUME NEW b \in 1 .. Size(conf)
        PROVE  answer[FirstStage].lengths[b] = IF ends(b) = {} THEN MaxLen ELSE Min(ends(b))
    <3>1. answer[FirstStage].lengths = a.lengths
      BY <1>2, <1>3, <2>1
    <3>2. a.lengths[b] = IF Ends(conf, s, b) = {} THEN Longest(conf) ELSE Min(Ends(conf, s, b))
      BY <2>1 DEF LengthsOK
    <3>3. QED
      BY <1>2, <2>3, <3>1, <3>2
  <2>6. ASSUME NEW b \in 1 .. Size(conf), ends(b) = {} PROVE f.context + 1 = MaxLen
    <3>1. b \notin a.finished
      BY <2>1, <2>3, <2>6 DEF LengthsOK
    <3>2. s.context + 1 = Longest(conf)
      BY <1>3, <2>1, <3>1 DEF LengthsOK, AfterCopy
    <3>3. QED
      BY <1>2, <1>3, <3>2
  <2>7. QED
    BY <1>2, <2>4, <2>5, <2>6
<1>7. ASSUME conf.log_probs, NEW b \in Batch, NEW p \in predicted
      PROVE  answer[FirstStage].log_probs[b][p] = <<SubSeq(text(b), 1, p), text(b)[p + 1]>>
  <2>1. p \in 1 .. Scored(conf, s) /\ b \in 1 .. Size(conf)
    BY <1>2, <1>3, <1>4 DEF Scored, AfterSample, AfterCopy
  <2>2. LogProbsOK(conf, s, a)
    BY <1>3, <1>7 DEF AnswerOK
  <2>3. a.log_probs[b][p] = <<SubSeq(s.tokens[b], 1, p), s.tokens[b][p + 1]>>
    BY <2>1, <2>2 DEF LogProbsOK
  <2>4. /\ p \in Nat \ {0} /\ p + 1 <= Longest(conf)
        /\ p + 1 <= c + (IF conf.tokens_to_generate > 0 THEN 1 ELSE 0)
    <3>1. CASE conf.tokens_to_generate > 0
      <4>1. p \in 1 .. c
        BY <1>2, <1>4, <3>1
      <4>2. QED
        BY <1>2, <1>3, <1>4, <3>1, <4>1
    <3>2. CASE ~(conf.tokens_to_generate > 0)
      <4>1. p \in 1 .. c - 1
        BY <1>2, <1>4, <3>2
      <4>2. QED
        BY <1>2, <1>3, <1>4, <3>2, <4>1
    <3>3. QED
      BY <3>1, <3>2
  <2> HIDE DEF text, predicted
  <2>5. text(b)[p + 1] = s.tokens[b][p + 1]
    <3>1. p + 1 \in Nat /\ p + 1 \in 1 .. p + 1
      BY <2>4
    <3>2. QED
      BY <1>5, <2>1, <2>4, <3>1
  <2>6. SubSeq(text(b), 1, p) = SubSeq(s.tokens[b], 1, p)
    <3>1. /\ p \in Nat /\ p <= Longest(conf)
          /\ p <= c + (IF conf.tokens_to_generate > 0 THEN 1 ELSE 0)
      BY <1>2, <2>4
    <3>2. QED
      BY <1>5, <2>1, <3>1
  <2>7. QED
    BY <1>2, <1>3, <1>7, <2>3, <2>5, <2>6
<1>8. QED
  BY <1>6, <1>7

(* For any generation, or scoring, whose first pass fits: the caller gets  *)
(* what the pipeline generated.  The prompts go on with sampled tokens up  *)
(* to the first one that ends the row, every log probability is that of    *)
(* the token that follows, given all that precede it, and generation stops *)
(* only when all rows have ended or there is no room (generation.py).      *)
THEOREM AnswerIsWhatWasGeneratedThm ==
  Spec => [](conf.task = "generate" /\ FirstPassFits(conf) => AnswerIsWhatWasGenerated)
<1>1. Init => GenerationInv
  BY InitGeneration
<1>2. GenerationInv /\ [Next]_vars => GenerationInv'
  BY NextKeepsGeneration
<1>3. GenerationInv =>
        (conf.task = "generate" /\ FirstPassFits(conf) => AnswerIsWhatWasGenerated)
  BY AnswerImplies DEF GenerationInv, GeneratesRight
<1>4. QED
  BY <1>1, <1>2, <1>3, PTL DEF Spec
=============================================================================
