----------------------- MODULE DistribOptimizerProofs -----------------------
(***************************************************************************)
(* Theorems about DistribOptimizer, for every size of the data-parallel     *)
(* group, every number of iterations and every set of configurations.       *)
(***************************************************************************)
EXTENDS DistribOptimizer, WellFoundedInduction, SequenceTheorems, TLAPS

-----------------------------------------------------------------------------
(* Sequences. The library defines the concatenation of sequences by          *)
(* recursion, and its theorems on induction take an operator; induction is    *)
(* used in its first-order form: a nonempty set of natural numbers, here that *)
(* of the counterexamples, has a least element.                               *)

(* A nonempty set of natural numbers has a least element. *)
LEMMA LeastNat ==
  ASSUME NEW T, T \subseteq Nat, T # {}
  PROVE  \E x \in T : \A y \in T : x <= y
<1> DEFINE R == OpToRel(<, Nat)
<1>1. \A x, y \in Nat : y < x => <<y, x>> \in R
  BY DEF OpToRel
<1>2. IsWellFoundedOn(R, Nat)
  BY NatLessThanWellFounded
<1> HIDE DEF R
<1>3. PICK x \in T : \A y \in T : ~(<<y, x>> \in R)
  BY <1>2, WFMin
<1>4. ASSUME NEW y \in T PROVE x <= y
  <2>1. x \in Nat /\ y \in Nat /\ ~(y < x)
    BY <1>1, <1>3
  <2>2. QED
    BY <2>1
<1>5. QED
  BY <1>4

(* A set of natural numbers that is closed under successor and has 0 is all *)
(* of them.                                                                  *)
LEMMA NatInductionSet ==
  ASSUME NEW T, 0 \in T, \A n \in Nat : n \in T => n + 1 \in T
  PROVE  Nat \subseteq T
<1>1. ASSUME NEW n \in Nat, n \notin T PROVE FALSE
  <2>1. PICK x \in Nat \ T : \A y \in Nat \ T : x <= y
    BY <1>1, LeastNat
  <2>2. x # 0 /\ x - 1 \in Nat
    BY <2>1
  <2>3. x - 1 \in T
    BY <2>1, <2>2
  <2>4. x \in T
    BY <2>2, <2>3
  <2>5. QED
    BY <2>1, <2>4
<1>2. QED
  BY <1>1

(* The concatenations of the first sequences of seqs. *)
Concats(seqs, n, g) ==
  g = [i \in 1 .. n |-> IF i = 1 THEN seqs[i] ELSE g[i - 1] \o seqs[i]]

(* They are a function of their length. *)
LEMMA ConcatsFacts ==
  ASSUME NEW seqs, NEW n \in Nat, NEW g
  PROVE  Concats(seqs, n, g)
           <=> /\ g = [i \in 1 .. n |-> g[i]]
               /\ \A i \in 1 .. n : g[i] = IF i = 1 THEN seqs[i] ELSE g[i - 1] \o seqs[i]
<1> DEFINE f == [i \in 1 .. n |-> IF i = 1 THEN seqs[i] ELSE g[i - 1] \o seqs[i]]
<1>1. Concats(seqs, n, g) <=> g = f
  BY DEF Concats
<1>2. \A i \in 1 .. n : f[i] = IF i = 1 THEN seqs[i] ELSE g[i - 1] \o seqs[i]
  OBVIOUS
<1>3. f = [i \in 1 .. n |-> f[i]]
  OBVIOUS
<1> HIDE DEF f
<1>4. ASSUME g = f
      PROVE  /\ g = [i \in 1 .. n |-> g[i]]
             /\ \A i \in 1 .. n : g[i] = IF i = 1 THEN seqs[i] ELSE g[i - 1] \o seqs[i]
  BY <1>2, <1>3, <1>4
<1>5. ASSUME g = [i \in 1 .. n |-> g[i]],
             \A i \in 1 .. n : g[i] = IF i = 1 THEN seqs[i] ELSE g[i - 1] \o seqs[i]
      PROVE  g = f
  <2>1. \A i \in 1 .. n : g[i] = f[i]
    BY <1>2, <1>5
  <2>2. [i \in 1 .. n |-> g[i]] = [i \in 1 .. n |-> f[i]]
    BY <2>1
  <2>3. QED
    BY <1>3, <1>5, <2>2
<1>6. QED
  BY <1>1, <1>4, <1>5

(* There is such a function. *)
LEMMA ConcatsExist ==
  ASSUME NEW seqs, NEW n \in Nat
  PROVE  \E g : Concats(seqs, n, g)
<1> DEFINE T == {m \in Nat : \E g : Concats(seqs, m, g)}
<1>1. 0 \in T
  <2>1. Concats(seqs, 0, <<>>)
    BY DEF Concats
  <2>2. QED
    BY <2>1
<1>2. ASSUME NEW m \in Nat, m \in T PROVE m + 1 \in T
  <2>1. PICK g : Concats(seqs, m, g)
    BY <1>2
  <2> DEFINE f == [i \in 1 .. m + 1 |-> IF i = 1 THEN seqs[i] ELSE g[i - 1] \o seqs[i]]
  <2>2. \A i \in 1 .. m : f[i] = g[i]
    BY <2>1, ConcatsFacts
  <2>3. \A i \in 1 .. m + 1 : i # 1 => f[i - 1] = g[i - 1]
    <3> HIDE DEF f
    <3>1. \A i \in 1 .. m + 1 : i # 1 => i - 1 \in 1 .. m
      OBVIOUS
    <3>2. QED
      BY <2>2, <3>1
  <2>4. f = [i \in 1 .. m + 1 |-> IF i = 1 THEN seqs[i] ELSE f[i - 1] \o seqs[i]]
    <3>1. \A i \in 1 .. m + 1 : f[i] = IF i = 1 THEN seqs[i] ELSE f[i - 1] \o seqs[i]
      <4> TAKE i \in 1 .. m + 1
      <4>1. f[i] = IF i = 1 THEN seqs[i] ELSE g[i - 1] \o seqs[i]
        OBVIOUS
      <4> HIDE DEF f
      <4>2. QED
        BY <2>3, <4>1
    <3>2. f = [i \in 1 .. m + 1 |-> f[i]]
      OBVIOUS
    <3> HIDE DEF f
    <3>3. QED
      BY <3>1, <3>2
  <2> HIDE DEF f
  <2>5. Concats(seqs, m + 1, f)
    BY <2>4, Zenon DEF Concats
  <2>6. \E h : Concats(seqs, m + 1, h)
    BY <2>5
  <2>7. QED
    BY <2>6
<1> HIDE DEF T
<1>3. Nat \subseteq T
  BY <1>1, <1>2, NatInductionSet
<1>4. n \in T
  BY <1>3
<1>5. QED
  BY <1>4 DEF T

Unfolds(seqs, n, g) ==
  \A i \in 1 .. n : g[i] = IF i = 1 THEN seqs[i] ELSE g[i - 1] \o seqs[i]

(* The concatenations of the first sequences, one from the other. *)
LEMMA ConcatsUnfold ==
  ASSUME NEW seqs, NEW n \in Nat, NEW g, Concats(seqs, n, g)
  PROVE  Unfolds(seqs, n, g)
BY ConcatsFacts DEF Unfolds

(* Their first element, and each element from the one before. *)
LEMMA UnfoldsStep ==
  ASSUME NEW seqs, NEW n \in Nat, NEW g, Unfolds(seqs, n, g)
  PROVE  /\ 1 <= n => g[1] = seqs[1]
         /\ \A m \in 1 .. n - 1 : g[m + 1] = g[m] \o seqs[m + 1]
<1>1. 1 <= n => g[1] = seqs[1]
  BY DEF Unfolds
<1>2. ASSUME NEW m \in 1 .. n - 1 PROVE g[m + 1] = g[m] \o seqs[m + 1]
  <2>1. m + 1 \in 1 .. n /\ m + 1 # 1 /\ (m + 1) - 1 = m
    OBVIOUS
  <2>2. g[m + 1] = IF m + 1 = 1 THEN seqs[m + 1] ELSE g[(m + 1) - 1] \o seqs[m + 1]
    BY <2>1, Zenon DEF Unfolds
  <2>3. g[m + 1] = g[(m + 1) - 1] \o seqs[m + 1]
    BY <2>1, <2>2, Zenon
  <2>4. QED
    BY <2>1, <2>3, Zenon
<1>3. QED
  BY <1>1, <1>2

(* What FlattenSeq computes with. *)
LEMMA FlattenSeqDef ==
  ASSUME NEW S, NEW seqs \in Seq(Seq(S)), NEW N \in Nat \ {0}, N = Len(seqs)
  PROVE  \E g : FlattenSeq(seqs) = g[N] /\ Unfolds(seqs, N, g)
<1> DEFINE flatten == CHOOSE g : g = [i \in 1 .. Len(seqs) |->
                                        IF i = 1 THEN seqs[i] ELSE g[i - 1] \o seqs[i]]
<1>1. FlattenSeq(seqs) = flatten[N]
  BY DEF FlattenSeq
<1>2. \E g : Concats(seqs, N, g)
  <2>1. N \in Nat
    OBVIOUS
  <2>2. QED
    BY <2>1, ConcatsExist, Zenon
<1>3. \E g : g = [i \in 1 .. Len(seqs) |-> IF i = 1 THEN seqs[i] ELSE g[i - 1] \o seqs[i]]
  <2>1. PICK g : Concats(seqs, N, g)
    BY <1>2
  <2>2. QED
    BY <2>1, Zenon DEF Concats
<1>4. flatten = [i \in 1 .. Len(seqs) |-> IF i = 1 THEN seqs[i] ELSE flatten[i - 1] \o seqs[i]]
  BY <1>3, Zenon
<1> HIDE DEF flatten
<1>5. Concats(seqs, N, flatten)
  BY <1>4, Zenon DEF Concats
<1>6. Unfolds(seqs, N, flatten)
  <2>1. N \in Nat
    OBVIOUS
  <2>2. QED
    BY <1>5, <2>1, ConcatsUnfold, Zenon
<1>7. QED
  BY <1>1, <1>6

(* Sequences over S, and one that has all their elements. *)
AreOver(S, seqs, n) == \A i \in 1 .. n : seqs[i] \in Seq(S)
HasAll(S, seqs, n, all) ==
  /\ all \in Seq(S)
  /\ \A i \in 1 .. n : \A j \in 1 .. Len(seqs[i]) :
       \E h \in 1 .. Len(all) : all[h] = seqs[i][j]

(* Every element of one of the sequences is in their concatenation. *)
LEMMA ConcatsElements ==
  ASSUME NEW S, NEW seqs, NEW N \in Nat \ {0}, NEW g, AreOver(S, seqs, N), Unfolds(seqs, N, g)
  PROVE  HasAll(S, seqs, N, g[N])
<1>0. \A i \in 1 .. N : seqs[i] \in Seq(S)
  BY DEF AreOver
<1> DEFINE Has(n) == \A i \in 1 .. n : \A j \in 1 .. Len(seqs[i]) :
                       \E h \in 1 .. Len(g[n]) : g[n][h] = seqs[i][j]
           T == {n \in Nat : n \in 1 .. N => g[n] \in Seq(S) /\ Has(n)}
<1>1. 0 \in T
  OBVIOUS
<1>u. g[1] = seqs[1] /\ \A m \in 1 .. N - 1 : g[m + 1] = g[m] \o seqs[m + 1]
  <2>1. N \in Nat
    OBVIOUS
  <2> HIDE DEF T, Has
  <2>2. /\ 1 <= N => g[1] = seqs[1]
        /\ \A m \in 1 .. N - 1 : g[m + 1] = g[m] \o seqs[m + 1]
    BY <2>1, UnfoldsStep
  <2>3. 1 <= N
    OBVIOUS
  <2>4. QED
    BY <2>2, <2>3, Zenon
<1>2. ASSUME NEW n \in Nat, n \in T PROVE n + 1 \in T
  <2>1. ASSUME n + 1 \in 1 .. N PROVE g[n + 1] \in Seq(S) /\ Has(n + 1)
    <3>1. CASE n = 0
      <4>1. g[1] = seqs[1] /\ seqs[1] \in Seq(S)
        BY <1>0, <1>u
      <4>2. QED
        BY <3>1, <4>1
    <3>2. CASE n # 0
      <4>1. n \in 1 .. N - 1 /\ n \in 1 .. N
        BY <2>1, <3>2
      <4>2. g[n] \in Seq(S) /\ Has(n)
        BY <1>2, <4>1
      <4>3. seqs[n + 1] \in Seq(S)
        BY <1>0, <2>1
      <4>4. g[n + 1] = g[n] \o seqs[n + 1]
        BY <1>u, <4>1
      <4> HIDE DEF T
      <4>a. PICK a \in Seq(S) : a = g[n]
        BY <4>2
      <4>b. PICK b \in Seq(S) : b = seqs[n + 1]
        BY <4>3
      <4>c. PICK x \in Nat : x = Len(g[n])
        BY <4>a
      <4>d. PICK y \in Nat : y = Len(seqs[n + 1])
        BY <4>b
      <4> HIDE DEF Has
      <4>f. /\ a \o b \in Seq(S) /\ Len(a \o b) = Len(a) + Len(b)
            /\ \A h \in 1 .. Len(a) : (a \o b)[h] = a[h]
            /\ \A j \in 1 .. Len(b) : (a \o b)[Len(a) + j] = b[j]
        OBVIOUS
      <4>5. /\ g[n + 1] \in Seq(S) /\ Len(g[n + 1]) = x + y
            /\ \A h \in 1 .. x : g[n + 1][h] = g[n][h]
            /\ \A j \in 1 .. y : g[n + 1][x + j] = seqs[n + 1][j]
        BY <4>4, <4>a, <4>b, <4>c, <4>d, <4>f
      <4>7. ASSUME NEW i \in 1 .. n + 1, NEW j \in 1 .. Len(seqs[i])
            PROVE  \E h \in 1 .. Len(g[n + 1]) : g[n + 1][h] = seqs[i][j]
        <5>1. CASE i = n + 1
          <6>1. j \in 1 .. y
            BY <4>d, <5>1
          <6>2. x + j \in 1 .. x + y
            BY <6>1
          <6>3. x + j \in 1 .. Len(g[n + 1]) /\ g[n + 1][x + j] = seqs[i][j]
            BY <4>5, <5>1, <6>1, <6>2
          <6>4. QED
            BY <6>3
        <5>2. CASE i # n + 1
          <6>1. i \in 1 .. n
            BY <5>2
          <6>2. PICK h \in 1 .. x : g[n][h] = seqs[i][j]
            BY <4>2, <4>c, <6>1 DEF Has
          <6>3. h \in 1 .. Len(g[n + 1])
            BY <4>5
          <6>4. QED
            BY <4>5, <6>2, <6>3
        <5>3. QED
          BY <5>1, <5>2
      <4>8. QED
        BY <4>5, <4>7 DEF Has
    <3>3. QED
      BY <3>1, <3>2
  <2>2. QED
    BY <2>1
<1> HIDE DEF T
<1>3. Nat \subseteq T
  BY <1>1, <1>2, NatInductionSet
<1>4. N \in T
  BY <1>3
<1>5. QED
  BY <1>4 DEF T, HasAll

(* The elements of FlattenSeq are those of the sequences. *)
LEMMA FlattenSeqElements ==
  ASSUME NEW S, NEW seqs \in Seq(Seq(S))
  PROVE  /\ FlattenSeq(seqs) \in Seq(S)
         /\ \A i \in DOMAIN seqs : \A j \in DOMAIN seqs[i] :
              \E h \in 1 .. Len(FlattenSeq(seqs)) : FlattenSeq(seqs)[h] = seqs[i][j]
<1>1. CASE Len(seqs) = 0
  <2>1. FlattenSeq(seqs) = seqs /\ seqs = <<>>
    BY <1>1 DEF FlattenSeq
  <2>2. QED
    BY <2>1
<1>2. CASE Len(seqs) # 0
  <2>1. PICK N \in Nat \ {0} : N = Len(seqs)
    BY <1>2
  <2>2. PICK g : FlattenSeq(seqs) = g[N] /\ Unfolds(seqs, N, g)
    BY <2>1, FlattenSeqDef
  <2>3. \A i \in 1 .. N : seqs[i] \in Seq(S)
    BY <2>1
  <2>4. /\ g[N] \in Seq(S)
        /\ \A i \in 1 .. N : \A j \in 1 .. Len(seqs[i]) :
             \E h \in 1 .. Len(g[N]) : g[N][h] = seqs[i][j]
    <3>1. AreOver(S, seqs, N)
      BY <2>3 DEF AreOver
    <3>2. HasAll(S, seqs, N, g[N])
      BY <2>2, <3>1, ConcatsElements, Zenon
    <3>3. QED
      BY <3>2 DEF HasAll
  <2>5. DOMAIN seqs = 1 .. N /\ \A i \in 1 .. N : DOMAIN seqs[i] = 1 .. Len(seqs[i])
    BY <2>1, <2>3
  <2>6. FlattenSeq(seqs) \in Seq(S)
    BY <2>2, <2>4, Zenon
  <2>7. ASSUME NEW i \in DOMAIN seqs, NEW j \in DOMAIN seqs[i]
        PROVE  \E h \in 1 .. Len(FlattenSeq(seqs)) : FlattenSeq(seqs)[h] = seqs[i][j]
    <3>1. i \in 1 .. N /\ j \in 1 .. Len(seqs[i])
      BY <2>5, Zenon
    <3>2. \E h \in 1 .. Len(g[N]) : g[N][h] = seqs[i][j]
      BY <2>4, <3>1, Zenon
    <3>3. QED
      BY <2>2, <3>2, Zenon
  <2>8. QED
    BY <2>6, <2>7
<1>3. QED
  BY <1>1, <1>2

-----------------------------------------------------------------------------
(* Configurations.                                                          *)

(* What the assumptions say of one configuration. *)
LEMMA ConfFacts ==
  ASSUME NEW cf \in Configurations
  PROVE  /\ cf.overlap \in BOOLEAN /\ cf.overlapGrad \in BOOLEAN /\ cf.legacy \in BOOLEAN
         /\ Len(cf.buffers) \in Nat \ {0} /\ Chunks(cf) = 1 .. Len(cf.buffers)
         /\ \A c \in Chunks(cf) :
              /\ cf.forward[c] \in Seq(Params(cf.buffers[c])) /\ Len(cf.forward[c]) \in Nat \ {0}
              /\ Len(LayoutOf(cf, c).buckets) \in Nat \ {0}
              /\ \A p \in Params(cf.buffers[c]) :
                   LayoutOf(cf, c).bucket_of[p] \in 1 .. Len(LayoutOf(cf, c).buckets)
         /\ cf.schedule \in Seq([kind : {"F", "B", "sync"}, chunk : Chunks(cf), mb : Nat])
         /\ Len(cf.schedule) \in Nat \ {0}
<1>1. /\ cf.overlap \in BOOLEAN /\ cf.overlapGrad \in BOOLEAN /\ cf.legacy \in BOOLEAN
      /\ cf.buffers # <<>> /\ cf.buffers \in Seq(Range(cf.buffers))
      /\ \A i \in DOMAIN cf.buffers :
           cf.forward[i] # <<>> /\ cf.forward[i] \in Seq(Params(cf.buffers[i]))
      /\ cf.schedule # <<>>
      /\ cf.schedule \in Seq([kind : {"F", "B", "sync"}, chunk : DOMAIN cf.buffers, mb : Nat])
  BY ConfigurationsAssumption
<1>2. Len(cf.buffers) \in Nat \ {0} /\ Chunks(cf) = 1 .. Len(cf.buffers)
  BY <1>1 DEF Chunks
<1>3. ASSUME NEW c \in Chunks(cf)
      PROVE  /\ cf.forward[c] \in Seq(Params(cf.buffers[c])) /\ Len(cf.forward[c]) \in Nat \ {0}
             /\ Len(LayoutOf(cf, c).buckets) \in Nat \ {0}
             /\ \A p \in Params(cf.buffers[c]) :
                  LayoutOf(cf, c).bucket_of[p] \in 1 .. Len(LayoutOf(cf, c).buckets)
  <2>1. cf.forward[c] # <<>> /\ cf.forward[c] \in Seq(Params(cf.buffers[c]))
    BY <1>1 DEF Chunks
  <2>2. cf.buffers[c] \in Range(cf.buffers)
    BY <1>3 DEF Chunks, Range
  <2>3. cf.buffers[c] \in Buffers
    BY <2>2 DEF Buffers
  <2>4. QED
    BY <2>1, <2>3, LayoutsAssumption DEF LayoutOf
<1>4. cf.schedule \in Seq([kind : {"F", "B", "sync"}, chunk : Chunks(cf), mb : Nat])
  BY <1>1 DEF Chunks
<1>5. Len(cf.schedule) \in Nat \ {0}
  BY <1>1
<1>6. QED
  BY <1>1, <1>2, <1>3, <1>4, <1>5

(* The buckets of all chunks, in either order. *)
LEMMA BucketSequences ==
  ASSUME NEW cf \in Configurations
  PROVE  /\ AllBuckets(cf) \in Seq(Chunks(cf) \X Nat)
         /\ ViewItems(cf) \in Seq(Chunks(cf) \X Nat)
         /\ \A c \in Chunks(cf) : \A i \in 1 .. Len(LayoutOf(cf, c).buckets) :
              \E h \in Handles(cf) : ViewItems(cf)[h] = <<c, i>>
<1> DEFINE S == Chunks(cf) \X Nat
           n(c) == Len(LayoutOf(cf, c).buckets)
           B == [c \in Chunks(cf) |-> ChunkBuckets(cf, c)]
           V == [c \in Chunks(cf) |-> Reverse(ChunkBuckets(cf, c))]
<1>1. Len(cf.buffers) \in Nat /\ Chunks(cf) = 1 .. Len(cf.buffers)
  BY ConfFacts
<1>2. ASSUME NEW c \in Chunks(cf)
      PROVE  /\ ChunkBuckets(cf, c) \in Seq(S) /\ Reverse(ChunkBuckets(cf, c)) \in Seq(S)
             /\ DOMAIN Reverse(ChunkBuckets(cf, c)) = 1 .. n(c)
             /\ \A i \in 1 .. n(c) : /\ n(c) - i + 1 \in 1 .. n(c)
                                     /\ Reverse(ChunkBuckets(cf, c))[n(c) - i + 1] = <<c, i>>
  <2>1. PICK m \in Nat : m = n(c)
    BY ConfFacts
  <2>2. ChunkBuckets(cf, c) = [i \in 1 .. m |-> <<c, i>>]
    BY <2>1 DEF ChunkBuckets
  <2>3. ChunkBuckets(cf, c) \in Seq(S) /\ Len(ChunkBuckets(cf, c)) = m
    BY <2>2
  <2>4. Reverse(ChunkBuckets(cf, c)) = [i \in 1 .. m |-> ChunkBuckets(cf, c)[(m - i) + 1]]
    BY <2>3 DEF Reverse
  <2>5. \A i \in 1 .. m : (m - i) + 1 \in 1 .. m /\ (m - ((m - i) + 1)) + 1 = i
    OBVIOUS
  <2>6. \A i \in 1 .. m : ChunkBuckets(cf, c)[i] = <<c, i>> /\ <<c, i>> \in S
    BY <2>2
  <2> HIDE DEF S
  <2>7. \A i \in 1 .. m : ChunkBuckets(cf, c)[(m - i) + 1] \in S
    BY <2>5, <2>6
  <2>8. Reverse(ChunkBuckets(cf, c)) \in Seq(S)
    BY <2>4, <2>7
  <2>9. DOMAIN Reverse(ChunkBuckets(cf, c)) = 1 .. m
    BY <2>4
  <2>10. \A i \in 1 .. m : /\ (m - i) + 1 \in 1 .. m
                            /\ Reverse(ChunkBuckets(cf, c))[(m - i) + 1] = <<c, i>>
    BY <2>4, <2>5, <2>6
  <2>11. QED
    BY <2>1, <2>3, <2>8, <2>9, <2>10
<1>3. B \in Seq(Seq(S)) /\ V \in Seq(Seq(S))
  BY <1>1, <1>2
<1>4. AllBuckets(cf) = FlattenSeq(B) /\ ViewItems(cf) = FlattenSeq(V)
  BY DEF AllBuckets, ViewItems
<1>5. AllBuckets(cf) \in Seq(S) /\ ViewItems(cf) \in Seq(S)
  BY <1>3, <1>4, FlattenSeqElements
<1>6. ASSUME NEW c \in Chunks(cf), NEW i \in 1 .. n(c)
      PROVE  \E h \in Handles(cf) : ViewItems(cf)[h] = <<c, i>>
  <2>1. DOMAIN V = Chunks(cf) /\ V[c] = Reverse(ChunkBuckets(cf, c))
    OBVIOUS
  <2>2. n(c) - i + 1 \in DOMAIN V[c] /\ V[c][n(c) - i + 1] = <<c, i>>
    BY <1>2, <2>1
  <2> HIDE DEF V, S
  <2>a. \A x \in DOMAIN V : \A j \in DOMAIN V[x] :
          \E h \in 1 .. Len(FlattenSeq(V)) : FlattenSeq(V)[h] = V[x][j]
    BY <1>3, FlattenSeqElements
  <2>3. \E h \in 1 .. Len(ViewItems(cf)) : ViewItems(cf)[h] = V[c][n(c) - i + 1]
    BY <1>4, <2>1, <2>2, <2>a
  <2>4. QED
    BY <2>2, <2>3 DEF Handles
<1>7. QED
  BY <1>5, <1>6

(* Every bucket has a handle; there is a first handle. *)
LEMMA HandleFacts ==
  ASSUME NEW cf \in Configurations
  PROVE  /\ Len(ViewItems(cf)) \in Nat /\ Handles(cf) = 1 .. Len(ViewItems(cf))
         /\ 1 \in Handles(cf)
         /\ \A c \in Chunks(cf) : \A p \in Params(cf.buffers[c]) :
              HandleOf(cf, c, p) \in Handles(cf)
<1>1. Len(ViewItems(cf)) \in Nat /\ Handles(cf) = 1 .. Len(ViewItems(cf))
  BY BucketSequences DEF Handles
<1>2. ASSUME NEW c \in Chunks(cf), NEW i \in 1 .. Len(LayoutOf(cf, c).buckets)
      PROVE  HandleOfBucket(cf, <<c, i>>) \in Handles(cf)
  <2>1. \E h \in Handles(cf) : ViewItems(cf)[h] = <<c, i>>
    BY BucketSequences
  <2>2. QED
    BY <2>1, Zenon DEF HandleOfBucket
<1>3. \A c \in Chunks(cf) : \A p \in Params(cf.buffers[c]) : HandleOf(cf, c, p) \in Handles(cf)
  BY <1>2, ConfFacts DEF HandleOf
<1>4. 1 \in Handles(cf)
  <2>a. Len(cf.buffers) \in Nat \ {0} /\ Chunks(cf) = 1 .. Len(cf.buffers)
    BY ConfFacts
  <2>b. 1 \in Chunks(cf)
    BY <2>a
  <2>c. Len(LayoutOf(cf, 1).buckets) \in Nat \ {0}
    BY <2>b, ConfFacts
  <2>1. 1 \in Chunks(cf) /\ 1 \in 1 .. Len(LayoutOf(cf, 1).buckets)
    BY <2>b, <2>c
  <2>2. HandleOfBucket(cf, <<1, 1>>) \in Handles(cf)
    BY <1>2, <2>1
  <2>3. QED
    BY <1>1, <2>2
<1>5. QED
  BY <1>1, <1>3, <1>4

-----------------------------------------------------------------------------
(* Types. *)

Ops(cf) == {Gather(h) : h \in Handles(cf)} \cup {Scatter(b) : b \in Chunks(cf) \X Nat}

AllParams(cf) == UNION {Params(cf.buffers[c]) : c \in Chunks(cf)}

\* The steps of an item of the schedule.
Steps(cf, i) == IF cf.schedule[i].kind = "sync" THEN Len(HandlesOf(cf, Len(cf.buffers)))
                ELSE Len(cf.forward[cf.schedule[i].chunk])

\* In a train step the rank has not finished all iterations.
Training == {"zero_grad", "run", "wgrad", "finish", "found_inf", "step", "skip", "stepped"}

PositionOK(cf, label, position) ==
  label \in {"run", "wgrad"} =>
    /\ position.item \in 1 .. Len(cf.schedule) /\ position.k \in 1 .. Steps(cf, position.item)
    /\ label = "wgrad" => cf.schedule[position.item].kind = "B"

BudgetOK(label, i, u) ==
  /\ label \in Training => i < Iterations
  /\ u <= IF label = "stepped" THEN i + 1 ELSE i

TypeInv ==
  /\ conf \in Configurations
  /\ pc \in [Rank -> Labels]
  /\ at \in [Rank -> [item : Nat \ {0}, k : Nat \ {0}]]
  /\ iter \in [Rank -> 0 .. Iterations]
  /\ queue \in [Rank -> Seq(Ops(conf))]
  /\ handles \in [Rank -> SUBSET Handles(conf)]
  /\ hooked \in [Rank -> BOOLEAN]
  /\ \A r \in Rank : hooked[r] => conf.overlap
  /\ update_successful \in [Rank -> BOOLEAN]
  /\ updates \in [Rank -> 0 .. Iterations]
  /\ pbuf \in [Rank -> [Handles(conf) \X Rank -> 0 .. Iterations]]
  /\ seen \in [Rank -> SUBSET (0 .. Iterations)]
  /\ ready \in [Rank -> SUBSET (Chunks(conf) \X AllParams(conf))]
  /\ DOMAIN store = Rank
  /\ \A r \in Rank : PositionOK(conf, pc[r], at[r]) /\ BudgetOK(pc[r], iter[r], updates[r])

(* The items of the schedule. *)
LEMMA ItemFacts ==
  ASSUME NEW cf \in Configurations, NEW i \in 1 .. Len(cf.schedule)
  PROVE  cf.schedule[i].kind \in {"F", "B", "sync"} /\ cf.schedule[i].chunk \in Chunks(cf)
<1> DEFINE S == [kind : {"F", "B", "sync"}, chunk : Chunks(cf), mb : Nat]
<1>1. cf.schedule \in Seq(S)
  BY ConfFacts
<1> HIDE DEF S
<1>2. cf.schedule[i] \in S
  BY <1>1
<1>3. QED
  BY <1>2 DEF S

(* Every item has steps, and every handle of a synchronized chunk is a handle. *)
LEMMA StepsFacts ==
  ASSUME NEW cf \in Configurations
  PROVE  /\ \A i \in 1 .. Len(cf.schedule) : Steps(cf, i) \in Nat \ {0}
         /\ \A i \in DOMAIN HandlesOf(cf, Len(cf.buffers)) :
              HandlesOf(cf, Len(cf.buffers))[i] \in Handles(cf)
         /\ Len(HandlesOf(cf, Len(cf.buffers))) \in Nat \ {0}
         /\ DOMAIN HandlesOf(cf, Len(cf.buffers)) = 1 .. Len(HandlesOf(cf, Len(cf.buffers)))
<1>1. PICK c \in Chunks(cf) : c = Len(cf.buffers)
  <2>1. Len(cf.buffers) \in Nat \ {0} /\ Chunks(cf) = 1 .. Len(cf.buffers)
    BY ConfFacts
  <2>2. Len(cf.buffers) \in Chunks(cf)
    BY <2>1
  <2>3. QED
    BY <2>2
<1>2. PICK n \in Nat \ {0} : n = Len(LayoutOf(cf, c).buckets)
  BY ConfFacts
<1>3. ChunkBuckets(cf, c) = [i \in 1 .. n |-> <<c, i>>]
  BY <1>2 DEF ChunkBuckets
<1>4. Len(ChunkBuckets(cf, c)) = n
  BY <1>3
<1>5. Reverse(ChunkBuckets(cf, c)) = [i \in 1 .. n |-> ChunkBuckets(cf, c)[(n - i) + 1]]
  BY <1>4 DEF Reverse
<1>6. \A i \in 1 .. n : (n - i) + 1 \in 1 .. n
  OBVIOUS
<1>7. \A i \in 1 .. n : Reverse(ChunkBuckets(cf, c))[i] = <<c, (n - i) + 1>>
  BY <1>3, <1>5, <1>6
<1>8. DOMAIN Reverse(ChunkBuckets(cf, c)) = 1 .. n
  BY <1>5
<1>9. HandlesOf(cf, c) = [i \in 1 .. n |-> HandleOfBucket(cf, Reverse(ChunkBuckets(cf, c))[i])]
  BY <1>8, Zenon DEF HandlesOf
<1>10. \A i \in 1 .. n : HandleOfBucket(cf, <<c, i>>) \in Handles(cf)
  <2> TAKE i \in 1 .. n
  <2>1. \E h \in Handles(cf) : ViewItems(cf)[h] = <<c, i>>
    BY <1>2, BucketSequences
  <2>2. QED
    BY <2>1, Zenon DEF HandleOfBucket
<1>11. \A i \in 1 .. n : HandlesOf(cf, c)[i] \in Handles(cf)
  BY <1>6, <1>7, <1>9, <1>10
<1>12. DOMAIN HandlesOf(cf, c) = 1 .. n /\ Len(HandlesOf(cf, c)) = n
  BY <1>9
<1>13. ASSUME NEW i \in 1 .. Len(cf.schedule) PROVE Steps(cf, i) \in Nat \ {0}
  <2>1. cf.schedule[i].chunk \in Chunks(cf)
    BY ItemFacts
  <2>2. Len(cf.forward[cf.schedule[i].chunk]) \in Nat \ {0}
    BY <2>1, ConfFacts
  <2>3. QED
    BY <1>1, <1>12, <2>2 DEF Steps
<1>14. QED
  BY <1>1, <1>11, <1>12, <1>13

-----------------------------------------------------------------------------
(* A rank by itself: what its next step does is a function of its own state. *)

Local(r) == [pc |-> pc[r], at |-> at[r], iter |-> iter[r], handles |-> handles[r],
             hooked |-> hooked[r], us |-> update_successful[r], ready |-> ready[r]]

ItemOf(cf, a) == cf.schedule[a.at.item]

\* The handle that a step of a forward pass or of param_sync_func waits for.
StepHandle(cf, a) ==
  IF ItemOf(cf, a).kind = "sync" THEN HandlesOf(cf, Len(cf.buffers))[a.at.k]
  ELSE HandleOf(cf, ItemOf(cf, a).chunk, cf.forward[ItemOf(cf, a).chunk][a.at.k])

Waits(cf, a) ==
  /\ a.pc = "run"
  /\ ItemOf(cf, a).kind = "sync" \/ (ItemOf(cf, a).kind = "F" /\ a.hooked)

\* The gather that a step dispatches, if any; 0 if none.
Dispatches(cf, a) ==
  IF ~a.us THEN 0
  ELSE IF a.pc = "zero_grad" THEN IF cf.overlap THEN 1 ELSE 0
  ELSE IF Waits(cf, a) /\ StepHandle(cf, a) \in a.handles /\ StepHandle(cf, a) + 1 \in Handles(cf)
  THEN StepHandle(cf, a) + 1 ELSE 0

DispatchedHandles(cf, a) == IF Dispatches(cf, a) = 0 THEN {} ELSE {Dispatches(cf, a)}

FinishedHandles(cf, a) == IF Waits(cf, a) THEN {StepHandle(cf, a)} ELSE {}

RemovesHook(cf, a) ==
  cf.overlap /\ \/ a.pc = "stepped" /\ a.iter + 1 \in cf.evals
                \/ a.pc = "save" /\ a.iter = Iterations

AllGathers(cf) == [h \in Handles(cf) |-> Gather(h)]
AllScatters(cf) == [i \in DOMAIN AllBuckets(cf) |-> Scatter(AllBuckets(cf)[i])]

\* The parameter whose weight gradient is computed, and what is ready with it.
WgradParam(cf, a) == Reverse(cf.forward[ItemOf(cf, a).chunk])[a.at.k]
WgradBucket(cf, a) == LayoutOf(cf, ItemOf(cf, a).chunk).bucket_of[WgradParam(cf, a)]
ReadyNow(cf, a) == a.ready \cup {<<ItemOf(cf, a).chunk, WgradParam(cf, a)>>}
LastBackward(cf, a) ==
  \A i \in a.at.item + 1 .. Len(cf.schedule) :
    ~(cf.schedule[i].kind = "B" /\ cf.schedule[i].chunk = ItemOf(cf, a).chunk)
StartsScatter(cf, a) ==
  /\ LastBackward(cf, a) /\ cf.overlapGrad
  /\ \A q \in BucketParams(LayoutOf(cf, ItemOf(cf, a).chunk), WgradBucket(cf, a)) :
       <<ItemOf(cf, a).chunk, q>> \in ReadyNow(cf, a)

Advances(cf, a) == a.pc = "wgrad" \/ (a.pc = "run" /\ ItemOf(cf, a).kind # "B")

NextPc(cf, a) ==
  IF a.pc = "zero_grad" THEN "run"
  ELSE IF a.pc = "run" /\ ItemOf(cf, a).kind = "B" THEN "wgrad"
  ELSE IF Advances(cf, a)
  THEN IF a.at.k < Steps(cf, a.at.item) \/ a.at.item < Len(cf.schedule) THEN "run" ELSE "finish"
  ELSE IF a.pc = "finish" THEN "found_inf"
  ELSE IF a.pc \in {"step", "skip"} THEN "stepped"
  ELSE IF a.pc = "stepped" THEN IF a.iter + 1 \in cf.evals THEN "evaluate" ELSE "save"
  ELSE IF a.pc = "evaluate" THEN "save"
  ELSE IF a.pc = "save" THEN IF a.iter = Iterations THEN "trained" ELSE "zero_grad"
  ELSE "done"

NextAt(cf, a) ==
  IF a.pc = "zero_grad" THEN [item |-> 1, k |-> 1]
  ELSE IF ~Advances(cf, a) THEN a.at
  ELSE IF a.at.k < Steps(cf, a.at.item) THEN [item |-> a.at.item, k |-> a.at.k + 1]
  ELSE [item |-> a.at.item + 1, k |-> 1]

NextIter(cf, a) == IF a.pc = "stepped" THEN a.iter + 1 ELSE a.iter

NextHandles(cf, a) ==
  IF a.pc \in {"step", "skip"} \/ RemovesHook(cf, a) THEN {}
  ELSE (a.handles \ FinishedHandles(cf, a)) \cup DispatchedHandles(cf, a)

NextHooked(cf, a) ==
  IF RemovesHook(cf, a) THEN FALSE ELSE IF a.pc = "evaluate" THEN cf.overlap ELSE a.hooked

NextUs(cf, a) == IF a.pc \in {"step", "skip"} THEN a.pc = "step" ELSE a.us

NextReady(cf, a) ==
  IF a.pc = "zero_grad" THEN {}
  ELSE IF a.pc = "wgrad" /\ LastBackward(cf, a) THEN ReadyNow(cf, a) ELSE a.ready

\* The collectives a step issues.
Issues(cf, a) ==
  IF Dispatches(cf, a) # 0 THEN <<Gather(Dispatches(cf, a))>>
  ELSE IF a.pc = "wgrad" /\ StartsScatter(cf, a)
  THEN <<Scatter(<<ItemOf(cf, a).chunk, WgradBucket(cf, a)>>)>>
  ELSE IF a.pc = "finish" /\ ~cf.overlapGrad THEN AllScatters(cf)
  ELSE IF (a.pc = "step" /\ ~cf.overlap) \/ (RemovesHook(cf, a) /\ a.us) THEN AllGathers(cf)
  ELSE <<>>

\* The variables of a rank's own state after its step, one by one.
Effect(r) ==
  /\ pc[r] \notin {"found_inf", "done"}
  /\ conf' = conf
  /\ pc' = [pc EXCEPT ![r] = NextPc(conf, Local(r))]
  /\ at' = [at EXCEPT ![r] = NextAt(conf, Local(r))]
  /\ iter' = [iter EXCEPT ![r] = NextIter(conf, Local(r))]
  /\ handles' = [handles EXCEPT ![r] = NextHandles(conf, Local(r))]
  /\ hooked' = [hooked EXCEPT ![r] = NextHooked(conf, Local(r))]
  /\ update_successful' = [update_successful EXCEPT ![r] = NextUs(conf, Local(r))]
  /\ ready' = [ready EXCEPT ![r] = NextReady(conf, Local(r))]
  /\ queue' = [queue EXCEPT ![r] = queue[r] \o Issues(conf, Local(r))]

(* Where a rank is in the schedule. *)
LEMMA PositionFacts ==
  ASSUME TypeInv, NEW r \in Rank, pc[r] \in {"run", "wgrad"}
  PROVE  /\ at[r].item \in 1 .. Len(conf.schedule)
         /\ conf.schedule[at[r].item].kind \in {"F", "B", "sync"}
         /\ conf.schedule[at[r].item].chunk \in Chunks(conf)
         /\ at[r].k \in 1 .. Steps(conf, at[r].item)
         /\ pc[r] = "wgrad" => conf.schedule[at[r].item].kind = "B"
         /\ conf.schedule[at[r].item].kind # "sync" =>
              /\ Module(r) \in Params(conf.buffers[Item(r).chunk])
              /\ BackwardModule(r) \in Params(conf.buffers[Item(r).chunk])
              /\ at[r].k \in 1 .. Len(conf.forward[Item(r).chunk])
<1>1. conf \in Configurations /\ PositionOK(conf, pc[r], at[r])
  BY DEF TypeInv
<1>2. PICK i \in 1 .. Len(conf.schedule) : i = at[r].item
  BY <1>1 DEF PositionOK
<1>3. PICK k \in 1 .. Steps(conf, i) : k = at[r].k
  BY <1>1, <1>2 DEF PositionOK
<1>4. conf.schedule[i].kind \in {"F", "B", "sync"} /\ conf.schedule[i].chunk \in Chunks(conf)
  BY <1>1, ItemFacts
<1>5. ASSUME conf.schedule[i].kind # "sync"
      PROVE  LET f == conf.forward[conf.schedule[i].chunk]
             IN  /\ k \in 1 .. Len(f)
                 /\ f[k] \in Params(conf.buffers[conf.schedule[i].chunk])
                 /\ Reverse(f)[k] \in Params(conf.buffers[conf.schedule[i].chunk])
  <2> DEFINE S == Params(conf.buffers[conf.schedule[i].chunk])
  <2>1. PICK f \in Seq(S) : f = conf.forward[conf.schedule[i].chunk]
    BY <1>1, <1>4, ConfFacts
  <2> HIDE DEF S
  <2>2. k \in 1 .. Len(f)
    BY <1>5, <2>1 DEF Steps
  <2>3. PICK n \in Nat : n = Len(f)
    OBVIOUS
  <2>4. Reverse(f) = [x \in 1 .. n |-> f[(n - x) + 1]]
    BY <2>3 DEF Reverse
  <2>5. (n - k) + 1 \in 1 .. n
    BY <2>2, <2>3
  <2>6. f[k] \in S /\ f[(n - k) + 1] \in S
    BY <2>2, <2>3, <2>5
  <2>7. Reverse(f)[k] = f[(n - k) + 1]
    BY <2>2, <2>3, <2>4
  <2>8. QED
    BY <2>1, <2>2, <2>6, <2>7 DEF S
<1>6. pc[r] = "wgrad" => conf.schedule[i].kind = "B"
  BY <1>1, <1>2 DEF PositionOK
<1>7. QED
  BY <1>2, <1>3, <1>4, <1>5, <1>6 DEF Module, BackwardModule, Item

(* Appending nothing, or one element, to a queue. *)
LEMMA AppendFacts ==
  ASSUME NEW S, NEW q \in Seq(S)
  PROVE  q \o <<>> = q /\ \A x : Append(q, x) = q \o <<x>>
<1>1. q \o <<>> = q
  OBVIOUS
<1>2. ASSUME NEW x PROVE Append(q, x) = q \o <<x>>
  OBVIOUS
<1>3. QED
  BY <1>1, <1>2

(* The fields of a rank's own state. *)
LEMMA LocalFacts ==
  ASSUME NEW r
  PROVE  /\ Local(r).pc = pc[r] /\ Local(r).at = at[r] /\ Local(r).iter = iter[r]
         /\ Local(r).handles = handles[r] /\ Local(r).hooked = hooked[r]
         /\ Local(r).us = update_successful[r] /\ Local(r).ready = ready[r]
BY DEF Local

(* A step that advances in the schedule. *)
LEMMA AdvanceEffect ==
  ASSUME TypeInv, NEW r \in Rank, NEW n, Advance(r, n), n = Steps(conf, at[r].item),
         Advances(conf, Local(r))
  PROVE  /\ pc' = [pc EXCEPT ![r] = NextPc(conf, Local(r))]
         /\ at' = [at EXCEPT ![r] = NextAt(conf, Local(r))]
<1> DEFINE a == Local(r)
<1>1. a.pc = pc[r] /\ a.at = at[r]
  BY LocalFacts
<1>2. Advances(conf, a)
  OBVIOUS
<1> HIDE DEF a
<1>3. a.pc # "zero_grad" /\ ~(a.pc = "run" /\ ItemOf(conf, a).kind = "B")
  BY <1>2 DEF Advances
<1>4. NextAt(conf, a) = IF at[r].k < n THEN [item |-> at[r].item, k |-> at[r].k + 1]
                        ELSE [item |-> at[r].item + 1, k |-> 1]
  BY <1>1, <1>2, <1>3 DEF NextAt
<1>5. NextPc(conf, a) = IF at[r].k < n \/ at[r].item < Len(conf.schedule) THEN "run" ELSE "finish"
  BY <1>1, <1>2, <1>3 DEF NextPc
<1>6. at[r] \in [item : Nat \ {0}, k : Nat \ {0}] /\ at \in [Rank -> [item : Nat \ {0}, k : Nat \ {0}]]
  BY DEF TypeInv
<1>7. CASE at[r].k < n
  <2>1. pc' = [pc EXCEPT ![r] = "run"] /\ at' = [at EXCEPT ![r].k = at[r].k + 1]
    BY <1>7 DEF Advance, Goto
  <2>2. [at[r] EXCEPT !.k = at[r].k + 1] = [item |-> at[r].item, k |-> at[r].k + 1]
    BY <1>6
  <2>3. at' = [at EXCEPT ![r] = [item |-> at[r].item, k |-> at[r].k + 1]]
    BY <2>1, <2>2
  <2>4. QED
    BY <1>4, <1>5, <1>7, <2>1, <2>3 DEF a
<1>8. CASE ~(at[r].k < n)
  <2>1. pc' = [pc EXCEPT ![r] = IF at[r].item < Len(conf.schedule) THEN "run" ELSE "finish"]
    BY <1>8 DEF Advance, Goto
  <2>2. at' = [at EXCEPT ![r] = [item |-> at[r].item + 1, k |-> 1]]
    BY <1>8 DEF Advance
  <2>3. QED
    BY <1>4, <1>5, <1>8, <2>1, <2>2 DEF a
<1>9. QED
  BY <1>7, <1>8

(* A step that waits for a gather and may dispatch the next. *)
LEMMA FinishEffect ==
  ASSUME TypeInv, NEW r \in Rank, NEW h \in Nat, Waits(conf, Local(r)),
         h = StepHandle(conf, Local(r)), SetGathers(r, Finish(r, h))
  PROVE  /\ handles' = [handles EXCEPT ![r] = NextHandles(conf, Local(r))]
         /\ queue' = [queue EXCEPT ![r] = queue[r] \o Issues(conf, Local(r))]
<1> DEFINE a == Local(r)
<1>1. a.pc = pc[r] /\ a.handles = handles[r] /\ a.us = update_successful[r]
  BY LocalFacts
<1>2. Waits(conf, a) /\ h = StepHandle(conf, a)
  OBVIOUS
<1> HIDE DEF a
<1>3. a.pc = "run"
  BY <1>2 DEF Waits
<1>4. ~RemovesHook(conf, a)
  BY <1>3 DEF RemovesHook
<1>5. FinishedHandles(conf, a) = {h}
  BY <1>2 DEF FinishedHandles
<1>6. NextHandles(conf, a) = (handles[r] \ {h}) \cup DispatchedHandles(conf, a)
  BY <1>1, <1>3, <1>4, <1>5 DEF NextHandles
<1>7. queue[r] \in Seq(Ops(conf))
  BY DEF TypeInv
<1>8. queue[r] \o <<>> = queue[r] /\ Append(queue[r], Gather(h + 1)) = queue[r] \o <<Gather(h + 1)>>
  BY <1>7, AppendFacts
<1>9. CASE h \in handles[r] /\ h + 1 \in Handles(conf) /\ update_successful[r]
  <2>1. Dispatches(conf, a) = h + 1 /\ h + 1 # 0
    BY <1>1, <1>2, <1>3, <1>9 DEF Dispatches
  <2>2. DispatchedHandles(conf, a) = {h + 1} /\ Issues(conf, a) = <<Gather(h + 1)>>
    BY <2>1 DEF DispatchedHandles, Issues
  <2>3. Finish(r, h) = [queue |-> Append(queue[r], Gather(h + 1)), handles |-> (handles[r] \ {h}) \cup {h + 1}]
    BY <1>9 DEF Finish, Dispatch
  <2>4. /\ queue' = [queue EXCEPT ![r] = Append(queue[r], Gather(h + 1))]
        /\ handles' = [handles EXCEPT ![r] = (handles[r] \ {h}) \cup {h + 1}]
    BY <2>3 DEF SetGathers
  <2>5. QED
    BY <1>6, <1>8, <2>2, <2>4 DEF a
<1>10. CASE ~(h \in handles[r] /\ h + 1 \in Handles(conf) /\ update_successful[r])
  <2>1. Dispatches(conf, a) = 0
    BY <1>1, <1>2, <1>3, <1>10 DEF Dispatches
  <2>2. DispatchedHandles(conf, a) = {} /\ Issues(conf, a) = <<>>
    BY <1>3, <1>4, <2>1 DEF DispatchedHandles, Issues
  <2>3. Finish(r, h) = [queue |-> queue[r], handles |-> handles[r] \ {h}]
    BY <1>10 DEF Finish, Dispatch
  <2>4. /\ queue' = [queue EXCEPT ![r] = queue[r]]
        /\ handles' = [handles EXCEPT ![r] = handles[r] \ {h}]
    BY <2>3 DEF SetGathers
  <2>5. QED
    BY <1>6, <1>8, <2>2, <2>4 DEF a
<1>11. QED
  BY <1>9, <1>10

(* A step that issues nothing and leaves the handles alone. *)
LEMMA QuietEffect ==
  ASSUME TypeInv, NEW r \in Rank, Dispatches(conf, Local(r)) = 0, ~Waits(conf, Local(r)),
         ~RemovesHook(conf, Local(r)),
         pc[r] \notin {"step", "skip"},
         ~(pc[r] = "wgrad" /\ StartsScatter(conf, Local(r))),
         ~(pc[r] = "finish" /\ ~conf.overlapGrad),
         UNCHANGED <<handles, queue>>
  PROVE  /\ handles' = [handles EXCEPT ![r] = NextHandles(conf, Local(r))]
         /\ queue' = [queue EXCEPT ![r] = queue[r] \o Issues(conf, Local(r))]
<1> DEFINE a == Local(r)
<1>1. a.pc = pc[r] /\ a.handles = handles[r]
  BY LocalFacts
<1>2. NextHandles(conf, a) = handles[r]
  BY <1>1 DEF NextHandles, FinishedHandles, DispatchedHandles
<1>3. Issues(conf, a) = <<>>
  BY <1>1 DEF Issues
<1>4. queue[r] \in Seq(Ops(conf))
  BY DEF TypeInv
<1>5. queue[r] \o <<>> = queue[r]
  BY <1>4, AppendFacts
<1>6. QED
  BY <1>2, <1>3, <1>5 DEF TypeInv

(* zero_grad *)
LEMMA ZeroGradEffect ==
  ASSUME TypeInv, NEW r \in Rank, ZeroGrad(r)
  PROVE  Effect(r)
<1> DEFINE a == Local(r)
<1>2. /\ a.pc = "zero_grad" /\ a.at = at[r] /\ a.iter = iter[r] /\ a.handles = handles[r]
      /\ a.hooked = hooked[r] /\ a.us = update_successful[r] /\ a.ready = ready[r]
  BY LocalFacts DEF ZeroGrad
<1> HIDE DEF a
<1>3. Dispatches(conf, a) = IF conf.overlap /\ update_successful[r] THEN 1 ELSE 0
  BY <1>2 DEF Dispatches
<1>4. pc' = [pc EXCEPT ![r] = NextPc(conf, a)]
  BY <1>2 DEF ZeroGrad, Goto, NextPc
<1>5. at' = [at EXCEPT ![r] = NextAt(conf, a)]
  BY <1>2 DEF ZeroGrad, NextAt
<1>6. NextIter(conf, a) = iter[r] /\ NextUs(conf, a) = update_successful[r]
  BY <1>2 DEF NextIter, NextUs
<1>7. ~RemovesHook(conf, a)
  BY <1>2 DEF RemovesHook
<1>8. NextHooked(conf, a) = hooked[r]
  BY <1>2, <1>7 DEF NextHooked
<1>9. handles' = [handles EXCEPT ![r] = NextHandles(conf, a)]
  <2>1. handles' = [handles EXCEPT ![r] = IF conf.overlap /\ update_successful[r]
                                          THEN handles[r] \cup {1} ELSE handles[r]]
    BY DEF ZeroGrad, SetGathers, Dispatch
  <2>2. NextHandles(conf, a) = IF conf.overlap /\ update_successful[r]
                               THEN handles[r] \cup {1} ELSE handles[r]
    BY <1>2, <1>3, <1>7 DEF NextHandles, FinishedHandles, DispatchedHandles, Waits
  <2>3. QED
    BY <2>1, <2>2
<1>10. queue' = [queue EXCEPT ![r] = queue[r] \o Issues(conf, a)]
  <2>1. queue' = [queue EXCEPT ![r] = IF conf.overlap /\ update_successful[r]
                                      THEN Append(queue[r], Gather(1)) ELSE queue[r]]
    BY DEF ZeroGrad, SetGathers, Dispatch
  <2>2. Issues(conf, a) = IF conf.overlap /\ update_successful[r] THEN <<Gather(1)>> ELSE <<>>
    BY <1>2, <1>3, <1>7 DEF Issues
  <2>3. queue[r] \in Seq(Ops(conf))
    BY DEF TypeInv
  <2>4. queue[r] \o <<>> = queue[r] /\ Append(queue[r], Gather(1)) = queue[r] \o <<Gather(1)>>
    BY <2>3, AppendFacts
  <2>5. QED
    BY <2>1, <2>2, <2>4
<1>11. ready' = [ready EXCEPT ![r] = NextReady(conf, a)]
  BY <1>2 DEF ZeroGrad, NextReady
<1>12. /\ iter' = [iter EXCEPT ![r] = iter[r]] /\ hooked' = [hooked EXCEPT ![r] = hooked[r]]
       /\ update_successful' = [update_successful EXCEPT ![r] = update_successful[r]]
  BY DEF ZeroGrad, TypeInv
<1>13. QED
  BY <1>2, <1>4, <1>5, <1>6, <1>8, <1>9, <1>10, <1>11, <1>12 DEF Effect, ZeroGrad, a

(* The state a rank waits for is the one it needs. *)
LEMMA ParamSyncEffect ==
  ASSUME TypeInv, NEW r \in Rank, ParamSync(r)
  PROVE  Effect(r)
<1> DEFINE a == Local(r)
           synced == HandlesOf(conf, Len(conf.buffers))
           h == synced[at[r].k]
<1>1. /\ a.pc = "run" /\ a.at = at[r] /\ a.iter = iter[r] /\ a.handles = handles[r]
      /\ a.hooked = hooked[r] /\ a.us = update_successful[r] /\ a.ready = ready[r]
  BY LocalFacts DEF ParamSync
<1>2. ItemOf(conf, a) = Item(r) /\ Item(r) = conf.schedule[at[r].item] /\ Item(r).kind = "sync"
  BY <1>1 DEF ItemOf, Item, ParamSync
<1>3. conf \in Configurations /\ at[r] \in [item : Nat \ {0}, k : Nat \ {0}]
  BY DEF TypeInv
<1>4. Steps(conf, at[r].item) = Len(synced)
  BY <1>2 DEF Steps
<1>5. SetGathers(r, Finish(r, h)) /\ Advance(r, Len(synced))
  BY DEF ParamSync
<1>6. h = StepHandle(conf, a)
  BY <1>1, <1>2 DEF StepHandle
<1>7. h \in Nat
  <2>1. PositionOK(conf, "run", at[r])
    BY <1>1 DEF TypeInv, ParamSync
  <2>2. at[r].k \in 1 .. Len(synced)
    BY <1>4, <2>1 DEF PositionOK
  <2>3. h \in Handles(conf)
    BY <1>3, <2>2, StepsFacts
  <2>4. QED
    BY <1>3, <2>3, HandleFacts
<1> HIDE DEF synced, h
<1>8. Waits(conf, a) /\ Advances(conf, a)
  BY <1>1, <1>2 DEF Waits, Advances
<1>9. /\ pc' = [pc EXCEPT ![r] = NextPc(conf, a)] /\ at' = [at EXCEPT ![r] = NextAt(conf, a)]
  BY <1>4, <1>5, <1>8, AdvanceEffect
<1>10. /\ handles' = [handles EXCEPT ![r] = NextHandles(conf, a)]
       /\ queue' = [queue EXCEPT ![r] = queue[r] \o Issues(conf, a)]
  BY <1>5, <1>6, <1>7, <1>8, FinishEffect
<1> HIDE DEF a
<1>11. ~RemovesHook(conf, a)
  BY <1>1 DEF RemovesHook
<1>12. /\ NextIter(conf, a) = iter[r] /\ NextUs(conf, a) = update_successful[r]
       /\ NextHooked(conf, a) = hooked[r] /\ NextReady(conf, a) = ready[r]
  BY <1>1, <1>11 DEF NextIter, NextUs, NextHooked, NextReady
<1>13. /\ iter' = [iter EXCEPT ![r] = iter[r]] /\ hooked' = [hooked EXCEPT ![r] = hooked[r]]
       /\ update_successful' = [update_successful EXCEPT ![r] = update_successful[r]]
       /\ ready' = [ready EXCEPT ![r] = ready[r]]
       /\ conf' = conf /\ pc[r] = "run"
  BY DEF ParamSync, TypeInv
<1>14. QED
  BY <1>9, <1>10, <1>12, <1>13 DEF Effect, a

(* The forward pass of a module. *)
LEMMA ForwardModuleEffect ==
  ASSUME TypeInv, NEW r \in Rank, ForwardModule(r)
  PROVE  Effect(r)
<1> DEFINE a == Local(r)
           c == Item(r).chunk
           h == HandleOf(conf, c, Module(r))
<1>1. /\ a.pc = "run" /\ a.at = at[r] /\ a.iter = iter[r] /\ a.handles = handles[r]
      /\ a.hooked = hooked[r] /\ a.us = update_successful[r] /\ a.ready = ready[r]
  BY LocalFacts DEF ForwardModule
<1>2. ItemOf(conf, a) = Item(r) /\ Item(r) = conf.schedule[at[r].item] /\ Item(r).kind = "F"
  BY <1>1 DEF ItemOf, Item, ForwardModule
<1>3. conf \in Configurations /\ at[r] \in [item : Nat \ {0}, k : Nat \ {0}]
  BY DEF TypeInv
<1>4. Steps(conf, at[r].item) = Len(conf.forward[c])
  BY <1>2 DEF Steps
<1>5. /\ IF hooked[r] THEN SetGathers(r, Finish(r, h)) ELSE UNCHANGED <<queue, handles>>
      /\ Advance(r, Len(conf.forward[c]))
  BY DEF ForwardModule
<1>6. h = StepHandle(conf, a)
  BY <1>1, <1>2 DEF StepHandle, Module
<1>7. h \in Nat
  <2>1. c \in Chunks(conf) /\ Module(r) \in Params(conf.buffers[c])
    <3>1. pc[r] \in {"run", "wgrad"} /\ conf.schedule[at[r].item].kind # "sync"
      BY <1>2 DEF ForwardModule
    <3>2. QED
      BY <1>2, <3>1, PositionFacts
  <2>2. h \in Handles(conf)
    BY <1>3, <2>1, HandleFacts
  <2>3. QED
    BY <1>3, <2>2, HandleFacts
<1>8. Advances(conf, a) /\ (Waits(conf, a) <=> hooked[r])
  BY <1>1, <1>2 DEF Waits, Advances
<1> HIDE DEF c, h
<1>9. /\ pc' = [pc EXCEPT ![r] = NextPc(conf, a)] /\ at' = [at EXCEPT ![r] = NextAt(conf, a)]
  BY <1>4, <1>5, <1>8, AdvanceEffect
<1>10. ~RemovesHook(conf, a)
  BY <1>1 DEF RemovesHook
<1>11. /\ handles' = [handles EXCEPT ![r] = NextHandles(conf, a)]
       /\ queue' = [queue EXCEPT ![r] = queue[r] \o Issues(conf, a)]
  <2>1. CASE hooked[r]
    <3>1. SetGathers(r, Finish(r, h)) /\ Waits(conf, a)
      BY <1>5, <1>8, <2>1
    <3>2. QED
      BY <1>6, <1>7, <3>1, FinishEffect
  <2>2. CASE ~hooked[r]
    <3>1. UNCHANGED <<handles, queue>> /\ ~Waits(conf, a)
      BY <1>5, <1>8, <2>2
    <3>2. Dispatches(conf, a) = 0
      BY <1>1, <3>1 DEF Dispatches
    <3>3. pc[r] = "run"
      BY DEF ForwardModule
    <3>4. QED
      BY <1>10, <3>1, <3>2, <3>3, QuietEffect
  <2>3. QED
    BY <2>1, <2>2
<1> HIDE DEF a
<1>12. /\ NextIter(conf, a) = iter[r] /\ NextUs(conf, a) = update_successful[r]
       /\ NextHooked(conf, a) = hooked[r] /\ NextReady(conf, a) = ready[r]
  BY <1>1, <1>10 DEF NextIter, NextUs, NextHooked, NextReady
<1>13. /\ iter' = [iter EXCEPT ![r] = iter[r]] /\ hooked' = [hooked EXCEPT ![r] = hooked[r]]
       /\ update_successful' = [update_successful EXCEPT ![r] = update_successful[r]]
       /\ ready' = [ready EXCEPT ![r] = ready[r]]
       /\ conf' = conf /\ pc[r] = "run"
  BY DEF ForwardModule, TypeInv
<1>14. QED
  BY <1>9, <1>11, <1>12, <1>13 DEF Effect, a

(* Backward pass of a layer, before its weight gradient. *)
LEMMA ReloadActivationEffect ==
  ASSUME TypeInv, NEW r \in Rank, ReloadActivation(r)
  PROVE  Effect(r)
<1> DEFINE a == Local(r)
<1>1. /\ a.pc = "run" /\ a.at = at[r] /\ a.iter = iter[r] /\ a.handles = handles[r]
      /\ a.hooked = hooked[r] /\ a.us = update_successful[r] /\ a.ready = ready[r]
  BY LocalFacts DEF ReloadActivation
<1>2. ItemOf(conf, a).kind = "B"
  BY <1>1 DEF ItemOf, Item, ReloadActivation
<1>3. ~Waits(conf, a) /\ ~RemovesHook(conf, a) /\ ~Advances(conf, a)
  BY <1>1, <1>2 DEF Waits, RemovesHook, Advances
<1>4. Dispatches(conf, a) = 0
  BY <1>1, <1>3 DEF Dispatches
<1>5. pc[r] = "run" /\ UNCHANGED <<handles, queue>>
  BY DEF ReloadActivation
<1>6. /\ handles' = [handles EXCEPT ![r] = NextHandles(conf, a)]
      /\ queue' = [queue EXCEPT ![r] = queue[r] \o Issues(conf, a)]
  BY <1>3, <1>4, <1>5, QuietEffect
<1> HIDE DEF a
<1>7. /\ NextIter(conf, a) = iter[r] /\ NextUs(conf, a) = update_successful[r]
      /\ NextHooked(conf, a) = hooked[r] /\ NextReady(conf, a) = ready[r]
      /\ NextAt(conf, a) = at[r] /\ NextPc(conf, a) = "wgrad"
  BY <1>1, <1>2, <1>3 DEF NextIter, NextUs, NextHooked, NextReady, NextAt, NextPc
<1>8. /\ iter' = [iter EXCEPT ![r] = iter[r]] /\ hooked' = [hooked EXCEPT ![r] = hooked[r]]
      /\ update_successful' = [update_successful EXCEPT ![r] = update_successful[r]]
      /\ ready' = [ready EXCEPT ![r] = ready[r]] /\ at' = [at EXCEPT ![r] = at[r]]
      /\ pc' = [pc EXCEPT ![r] = "wgrad"]
      /\ conf' = conf
  BY DEF ReloadActivation, TypeInv, Goto
<1>9. QED
  BY <1>5, <1>6, <1>7, <1>8 DEF Effect, a

(* The weight gradient, and the reduce-scatter it may start. *)
LEMMA WeightGradEffect ==
  ASSUME TypeInv, NEW r \in Rank, WeightGrad(r)
  PROVE  Effect(r)
<1> DEFINE a == Local(r)
           c == Item(r).chunk
           p == BackwardModule(r)
           i == LayoutOf(conf, c).bucket_of[p]
           now == ready[r] \cup {<<c, p>>}
           complete == \A q \in BucketParams(LayoutOf(conf, c), i) : <<c, q>> \in now
           last == IsLastMicrobatch(r)
<1>1. /\ a.pc = "wgrad" /\ a.at = at[r] /\ a.iter = iter[r] /\ a.handles = handles[r]
      /\ a.hooked = hooked[r] /\ a.us = update_successful[r] /\ a.ready = ready[r]
  BY LocalFacts DEF WeightGrad
<1>2. ItemOf(conf, a) = Item(r) /\ Item(r) = conf.schedule[at[r].item] /\ Item(r).kind = "B"
  <2>1. conf.schedule[at[r].item].kind = "B"
    BY PositionFacts DEF WeightGrad
  <2>2. QED
    BY <1>1, <2>1 DEF ItemOf, Item
<1>3. /\ WgradParam(conf, a) = p /\ WgradBucket(conf, a) = i /\ ReadyNow(conf, a) = now
  BY <1>1, <1>2 DEF WgradParam, WgradBucket, ReadyNow, BackwardModule
<1>4. LastBackward(conf, a) <=> last
  BY <1>1, <1>2 DEF LastBackward, IsLastMicrobatch
<1>5. StartsScatter(conf, a) <=> last /\ conf.overlapGrad /\ complete
  BY <1>2, <1>3, <1>4 DEF StartsScatter
<1>6. /\ ready' = IF last THEN [ready EXCEPT ![r] = now] ELSE ready
      /\ queue' = IF last /\ conf.overlapGrad /\ complete
                  THEN [queue EXCEPT ![r] = Append(queue[r], Scatter(<<c, i>>))] ELSE queue
      /\ Advance(r, Len(conf.forward[c]))
  BY DEF WeightGrad
<1>7. Steps(conf, at[r].item) = Len(conf.forward[c])
  BY <1>2 DEF Steps
<1>8. Advances(conf, a) /\ ~Waits(conf, a) /\ ~RemovesHook(conf, a)
  BY <1>1 DEF Advances, Waits, RemovesHook
<1>9. Dispatches(conf, a) = 0
  BY <1>1, <1>8 DEF Dispatches
<1> HIDE DEF c, p, i, now, complete, last
<1>10. /\ pc' = [pc EXCEPT ![r] = NextPc(conf, a)] /\ at' = [at EXCEPT ![r] = NextAt(conf, a)]
  BY <1>6, <1>7, <1>8, AdvanceEffect
<1> HIDE DEF a
<1>11. queue \in [Rank -> Seq(Ops(conf))] /\ DOMAIN ready = Rank /\ ready = [ready EXCEPT ![r] = ready[r]]
  BY DEF TypeInv
<1>12. queue[r] \o <<>> = queue[r] /\ Append(queue[r], Scatter(<<c, i>>)) = queue[r] \o <<Scatter(<<c, i>>)>>
  BY <1>11, AppendFacts
<1>13. Issues(conf, a) = IF last /\ conf.overlapGrad /\ complete THEN <<Scatter(<<c, i>>)>> ELSE <<>>
  <2>1. c = ItemOf(conf, a).chunk
    BY <1>2 DEF c
  <2>2. QED
    BY <1>1, <1>3, <1>5, <1>8, <1>9, <2>1 DEF Issues
<1>14. queue' = [queue EXCEPT ![r] = queue[r] \o Issues(conf, a)]
  <2>1. CASE last /\ conf.overlapGrad /\ complete
    BY <1>6, <1>12, <1>13, <2>1
  <2>2. CASE ~(last /\ conf.overlapGrad /\ complete)
    <3>1. queue' = queue /\ Issues(conf, a) = <<>>
      BY <1>6, <1>13, <2>2
    <3>2. QED
      BY <1>11, <1>12, <3>1
  <2>3. QED
    BY <2>1, <2>2
<1>15. ready' = [ready EXCEPT ![r] = NextReady(conf, a)]
  <2>1. NextReady(conf, a) = IF last THEN now ELSE ready[r]
    BY <1>1, <1>3, <1>4 DEF NextReady
  <2>2. QED
    BY <1>6, <1>11, <2>1
<1>16. /\ NextIter(conf, a) = iter[r] /\ NextUs(conf, a) = update_successful[r]
       /\ NextHooked(conf, a) = hooked[r]
  BY <1>1, <1>8 DEF NextIter, NextUs, NextHooked
<1>17. NextHandles(conf, a) = handles[r]
  BY <1>1, <1>8, <1>9 DEF NextHandles, FinishedHandles, DispatchedHandles
<1>18. /\ iter' = [iter EXCEPT ![r] = iter[r]] /\ hooked' = [hooked EXCEPT ![r] = hooked[r]]
       /\ update_successful' = [update_successful EXCEPT ![r] = update_successful[r]]
       /\ handles' = [handles EXCEPT ![r] = handles[r]]
       /\ conf' = conf /\ pc[r] = "wgrad"
  BY DEF WeightGrad, TypeInv
<1>19. QED
  BY <1>10, <1>14, <1>15, <1>16, <1>17, <1>18 DEF Effect, a

(* finish_grad_sync *)
LEMMA FinishGradSyncEffect ==
  ASSUME TypeInv, NEW r \in Rank, FinishGradSync(r)
  PROVE  Effect(r)
<1> DEFINE a == Local(r)
<1>1. /\ a.pc = "finish" /\ a.at = at[r] /\ a.iter = iter[r] /\ a.handles = handles[r]
      /\ a.hooked = hooked[r] /\ a.us = update_successful[r] /\ a.ready = ready[r]
  BY LocalFacts DEF FinishGradSync
<1> HIDE DEF a
<1>2. ~Waits(conf, a) /\ ~RemovesHook(conf, a) /\ ~Advances(conf, a)
  BY <1>1 DEF Waits, RemovesHook, Advances
<1>3. Dispatches(conf, a) = 0
  BY <1>1, <1>2 DEF Dispatches
<1>4. /\ NextIter(conf, a) = iter[r] /\ NextUs(conf, a) = update_successful[r]
      /\ NextHooked(conf, a) = hooked[r] /\ NextReady(conf, a) = ready[r]
      /\ NextAt(conf, a) = at[r] /\ NextPc(conf, a) = "found_inf"
  BY <1>1, <1>2 DEF NextIter, NextUs, NextHooked, NextReady, NextAt, NextPc
<1>5. NextHandles(conf, a) = handles[r]
  BY <1>1, <1>2, <1>3 DEF NextHandles, FinishedHandles, DispatchedHandles
<1>6. Issues(conf, a) = IF conf.overlapGrad THEN <<>> ELSE AllScatters(conf)
  BY <1>1, <1>2, <1>3 DEF Issues
<1>7. queue' = IF conf.overlapGrad THEN queue
               ELSE [queue EXCEPT ![r] = queue[r] \o AllScatters(conf)]
  BY DEF FinishGradSync, AllScatters
<1>8. queue \in [Rank -> Seq(Ops(conf))]
  BY DEF TypeInv
<1>9. queue[r] \o <<>> = queue[r]
  BY <1>8, AppendFacts
<1>10. queue' = [queue EXCEPT ![r] = queue[r] \o Issues(conf, a)]
  <2>1. CASE conf.overlapGrad
    <3>1. queue' = queue /\ Issues(conf, a) = <<>>
      BY <1>6, <1>7, <2>1
    <3>2. QED
      BY <1>8, <1>9, <3>1
  <2>2. CASE ~conf.overlapGrad
    BY <1>6, <1>7, <2>2
  <2>3. QED
    BY <2>1, <2>2
<1>11. /\ iter' = [iter EXCEPT ![r] = iter[r]] /\ hooked' = [hooked EXCEPT ![r] = hooked[r]]
       /\ update_successful' = [update_successful EXCEPT ![r] = update_successful[r]]
       /\ ready' = [ready EXCEPT ![r] = ready[r]] /\ at' = [at EXCEPT ![r] = at[r]]
       /\ handles' = [handles EXCEPT ![r] = handles[r]]
       /\ pc' = [pc EXCEPT ![r] = "found_inf"] /\ pc[r] = "finish"
       /\ conf' = conf
  BY DEF FinishGradSync, TypeInv, Goto
<1>12. QED
  BY <1>4, <1>5, <1>10, <1>11 DEF Effect, a

(* A step that resets the handles, and may issue the gathers of all. *)
LEMMA ResetEffect ==
  ASSUME TypeInv, NEW r \in Rank, NEW successful \in BOOLEAN, NEW sync \in BOOLEAN,
         ResetMetadata(r, queue[r], successful, sync)
  PROVE  /\ handles' = [handles EXCEPT ![r] = {}]
         /\ queue' = [queue EXCEPT ![r] =
                        queue[r] \o IF sync /\ successful THEN AllGathers(conf) ELSE <<>>]
<1>1. queue[r] \in Seq(Ops(conf))
  BY DEF TypeInv
<1>2. queue[r] \o <<>> = queue[r]
  BY <1>1, AppendFacts
<1>3. /\ handles' = [handles EXCEPT ![r] = {}]
      /\ queue' = [queue EXCEPT ![r] = IF sync /\ successful THEN queue[r] \o AllGathers(conf)
                                       ELSE queue[r]]
  BY DEF ResetMetadata, AllGathers
<1>4. QED
  BY <1>2, <1>3

(* optimizer.step *)
LEMMA StepEffect ==
  ASSUME TypeInv, NEW r \in Rank, Step(r)
  PROVE  Effect(r)
<1> DEFINE a == Local(r)
<1>1. /\ a.pc = pc[r] /\ a.at = at[r] /\ a.iter = iter[r] /\ a.handles = handles[r]
      /\ a.hooked = hooked[r] /\ a.us = update_successful[r] /\ a.ready = ready[r]
  BY LocalFacts
<1>2. pc[r] \in {"step", "skip"}
  BY DEF Step
<1> HIDE DEF a
<1>3. ~Waits(conf, a) /\ ~RemovesHook(conf, a) /\ ~Advances(conf, a)
  BY <1>1, <1>2 DEF Waits, RemovesHook, Advances
<1>4. Dispatches(conf, a) = 0
  BY <1>1, <1>2, <1>3 DEF Dispatches
<1>5. /\ NextIter(conf, a) = iter[r] /\ NextUs(conf, a) = (pc[r] = "step")
      /\ NextHooked(conf, a) = hooked[r] /\ NextReady(conf, a) = ready[r]
      /\ NextAt(conf, a) = at[r] /\ NextPc(conf, a) = "stepped"
      /\ NextHandles(conf, a) = {}
  BY <1>1, <1>2, <1>3 DEF NextIter, NextUs, NextHooked, NextReady, NextAt, NextPc, NextHandles
<1>6. Issues(conf, a) = IF ~conf.overlap /\ pc[r] = "step" THEN AllGathers(conf) ELSE <<>>
  BY <1>1, <1>2, <1>3, <1>4 DEF Issues
<1>7. conf.overlap \in BOOLEAN
  BY ConfFacts DEF TypeInv
<1>8. ResetMetadata(r, queue[r], pc[r] = "step", ~conf.overlap)
  BY DEF Step
<1>9. /\ handles' = [handles EXCEPT ![r] = {}]
      /\ queue' = [queue EXCEPT ![r] =
                     queue[r] \o IF ~conf.overlap /\ pc[r] = "step" THEN AllGathers(conf) ELSE <<>>]
  BY <1>7, <1>8, ResetEffect
<1>10. /\ iter' = [iter EXCEPT ![r] = iter[r]] /\ hooked' = [hooked EXCEPT ![r] = hooked[r]]
       /\ ready' = [ready EXCEPT ![r] = ready[r]] /\ at' = [at EXCEPT ![r] = at[r]]
       /\ pc' = [pc EXCEPT ![r] = "stepped"]
       /\ conf' = conf
  BY DEF Step, TypeInv, Goto
<1>11. update_successful' = [update_successful EXCEPT ![r] = NextUs(conf, a)]
  BY <1>5 DEF Step
<1>12. QED
  BY <1>2, <1>5, <1>6, <1>9, <1>10, <1>11 DEF Effect, a

(* Removing the hooks, or not. *)
LEMMA DisableEffect ==
  ASSUME TypeInv, NEW r \in Rank, pc[r] \in {"stepped", "save"},
         \/ DisablePreHook(r) /\ (RemovesHook(conf, Local(r)) <=> conf.overlap)
         \/ UNCHANGED <<hooked, handles, queue>> /\ ~RemovesHook(conf, Local(r))
  PROVE  /\ handles' = [handles EXCEPT ![r] = NextHandles(conf, Local(r))]
         /\ queue' = [queue EXCEPT ![r] = queue[r] \o Issues(conf, Local(r))]
         /\ hooked' = [hooked EXCEPT ![r] = NextHooked(conf, Local(r))]
<1> DEFINE a == Local(r)
<1>1. /\ a.pc = pc[r] /\ a.handles = handles[r] /\ a.us = update_successful[r]
      /\ a.hooked = hooked[r]
  BY LocalFacts
<1>2. ~Waits(conf, a) /\ pc[r] # "zero_grad" /\ pc[r] \notin {"step", "skip", "wgrad", "finish"}
  BY <1>1 DEF Waits
<1>3. Dispatches(conf, a) = 0
  BY <1>1, <1>2 DEF Dispatches
<1>4. CASE DisablePreHook(r) /\ RemovesHook(conf, a) /\ conf.overlap
  <2>1. /\ hooked' = [hooked EXCEPT ![r] = FALSE]
        /\ ResetMetadata(r, queue[r], update_successful[r], TRUE)
    BY <1>4 DEF DisablePreHook
  <2>2. update_successful[r] \in BOOLEAN
    BY DEF TypeInv
  <2>3. /\ handles' = [handles EXCEPT ![r] = {}]
        /\ queue' = [queue EXCEPT ![r] =
                       queue[r] \o IF TRUE /\ update_successful[r] THEN AllGathers(conf) ELSE <<>>]
    BY <2>1, <2>2, ResetEffect
  <2> HIDE DEF a
  <2>4. NextHandles(conf, a) = {} /\ NextHooked(conf, a) = FALSE
    BY <1>4 DEF NextHandles, NextHooked
  <2>5. Issues(conf, a) = IF update_successful[r] THEN AllGathers(conf) ELSE <<>>
    BY <1>1, <1>2, <1>3, <1>4 DEF Issues
  <2>6. QED
    BY <2>1, <2>3, <2>4, <2>5 DEF a
<1>5. CASE UNCHANGED <<hooked, handles, queue>> /\ ~RemovesHook(conf, a)
  <2>1. /\ handles' = [handles EXCEPT ![r] = NextHandles(conf, a)]
        /\ queue' = [queue EXCEPT ![r] = queue[r] \o Issues(conf, a)]
    BY <1>2, <1>3, <1>5, QuietEffect
  <2>2. NextHooked(conf, a) = hooked[r]
    BY <1>1, <1>5 DEF NextHooked
  <2>3. QED
    BY <1>5, <2>1, <2>2 DEF TypeInv
<1>6. CASE DisablePreHook(r) /\ ~RemovesHook(conf, a) /\ ~conf.overlap
  BY <1>5, <1>6 DEF DisablePreHook
<1>7. QED
  BY <1>4, <1>5, <1>6

(* The end of train_step *)
LEMMA EndIterationEffect ==
  ASSUME TypeInv, NEW r \in Rank, EndIteration(r)
  PROVE  Effect(r)
<1> DEFINE a == Local(r)
<1>1. /\ a.pc = "stepped" /\ pc[r] = "stepped" /\ a.at = at[r] /\ a.iter = iter[r]
      /\ a.us = update_successful[r] /\ a.ready = ready[r]
  BY LocalFacts DEF EndIteration
<1>2. RemovesHook(conf, a) <=> conf.overlap /\ iter[r] + 1 \in conf.evals
  BY <1>1 DEF RemovesHook
<1>3. \/ DisablePreHook(r) /\ (RemovesHook(conf, a) <=> conf.overlap)
      \/ UNCHANGED <<hooked, handles, queue>> /\ ~RemovesHook(conf, a)
  BY <1>2 DEF EndIteration
<1>4. /\ handles' = [handles EXCEPT ![r] = NextHandles(conf, a)]
      /\ queue' = [queue EXCEPT ![r] = queue[r] \o Issues(conf, a)]
      /\ hooked' = [hooked EXCEPT ![r] = NextHooked(conf, a)]
  BY <1>1, <1>3, DisableEffect
<1> HIDE DEF a
<1>5. /\ NextIter(conf, a) = iter[r] + 1 /\ NextUs(conf, a) = update_successful[r]
      /\ NextReady(conf, a) = ready[r] /\ NextAt(conf, a) = at[r]
      /\ NextPc(conf, a) = IF iter[r] + 1 \in conf.evals THEN "evaluate" ELSE "save"
  BY <1>1 DEF NextIter, NextUs, NextReady, NextAt, NextPc, Advances
<1>6. /\ iter' = [iter EXCEPT ![r] = iter[r] + 1]
      /\ update_successful' = [update_successful EXCEPT ![r] = update_successful[r]]
      /\ ready' = [ready EXCEPT ![r] = ready[r]] /\ at' = [at EXCEPT ![r] = at[r]]
      /\ conf' = conf
  BY DEF EndIteration, TypeInv
<1>7. pc' = [pc EXCEPT ![r] = IF iter[r] + 1 \in conf.evals THEN "evaluate" ELSE "save"]
  BY DEF EndIteration, Goto
<1>8. QED
  BY <1>1, <1>4, <1>5, <1>6, <1>7 DEF Effect, a

(* An evaluation *)
LEMMA EvaluateEffect ==
  ASSUME TypeInv, NEW r \in Rank, Evaluate(r)
  PROVE  Effect(r)
<1> DEFINE a == Local(r)
<1>1. /\ a.pc = "evaluate" /\ pc[r] = "evaluate" /\ a.at = at[r] /\ a.iter = iter[r]
      /\ a.us = update_successful[r] /\ a.ready = ready[r]
  BY LocalFacts DEF Evaluate
<1>2. ~Waits(conf, a) /\ ~RemovesHook(conf, a) /\ ~Advances(conf, a)
  BY <1>1 DEF Waits, RemovesHook, Advances
<1>3. Dispatches(conf, a) = 0
  BY <1>1, <1>2 DEF Dispatches
<1>4. UNCHANGED <<handles, queue>>
  BY DEF Evaluate
<1>5. /\ handles' = [handles EXCEPT ![r] = NextHandles(conf, a)]
      /\ queue' = [queue EXCEPT ![r] = queue[r] \o Issues(conf, a)]
  BY <1>1, <1>2, <1>3, <1>4, QuietEffect
<1> HIDE DEF a
<1>6. /\ NextIter(conf, a) = iter[r] /\ NextUs(conf, a) = update_successful[r]
      /\ NextReady(conf, a) = ready[r] /\ NextAt(conf, a) = at[r]
      /\ NextPc(conf, a) = "save" /\ NextHooked(conf, a) = conf.overlap
  BY <1>1, <1>2 DEF NextIter, NextUs, NextReady, NextAt, NextPc, NextHooked
<1>7. /\ iter' = [iter EXCEPT ![r] = iter[r]]
      /\ update_successful' = [update_successful EXCEPT ![r] = update_successful[r]]
      /\ ready' = [ready EXCEPT ![r] = ready[r]] /\ at' = [at EXCEPT ![r] = at[r]]
      /\ hooked' = [hooked EXCEPT ![r] = conf.overlap]
      /\ pc' = [pc EXCEPT ![r] = "save"]
      /\ conf' = conf
  BY DEF Evaluate, TypeInv, Goto
<1>8. QED
  BY <1>1, <1>5, <1>6, <1>7 DEF Effect, a

(* The end of an iteration, with a save or without *)
LEMMA SaveOrGoOnEffect ==
  ASSUME TypeInv, NEW r \in Rank, SaveOrGoOn(r)
  PROVE  Effect(r)
<1> DEFINE a == Local(r)
<1>1. /\ a.pc = "save" /\ pc[r] = "save" /\ a.at = at[r] /\ a.iter = iter[r]
      /\ a.us = update_successful[r] /\ a.ready = ready[r]
  BY LocalFacts DEF SaveOrGoOn
<1>2. RemovesHook(conf, a) <=> conf.overlap /\ iter[r] = Iterations
  BY <1>1 DEF RemovesHook
<1>3. \/ DisablePreHook(r) /\ (RemovesHook(conf, a) <=> conf.overlap)
      \/ UNCHANGED <<hooked, handles, queue>> /\ ~RemovesHook(conf, a)
  BY <1>2 DEF SaveOrGoOn
<1>4. /\ handles' = [handles EXCEPT ![r] = NextHandles(conf, a)]
      /\ queue' = [queue EXCEPT ![r] = queue[r] \o Issues(conf, a)]
      /\ hooked' = [hooked EXCEPT ![r] = NextHooked(conf, a)]
  BY <1>1, <1>3, DisableEffect
<1> HIDE DEF a
<1>5. /\ NextIter(conf, a) = iter[r] /\ NextUs(conf, a) = update_successful[r]
      /\ NextReady(conf, a) = ready[r] /\ NextAt(conf, a) = at[r]
      /\ NextPc(conf, a) = IF iter[r] = Iterations THEN "trained" ELSE "zero_grad"
  BY <1>1 DEF NextIter, NextUs, NextReady, NextAt, NextPc, Advances
<1>6. /\ iter' = [iter EXCEPT ![r] = iter[r]]
      /\ update_successful' = [update_successful EXCEPT ![r] = update_successful[r]]
      /\ ready' = [ready EXCEPT ![r] = ready[r]] /\ at' = [at EXCEPT ![r] = at[r]]
      /\ conf' = conf
  BY DEF SaveOrGoOn, TypeInv
<1>7. pc' = [pc EXCEPT ![r] = IF iter[r] = Iterations THEN "trained" ELSE "zero_grad"]
  BY DEF SaveOrGoOn, Goto
<1>8. QED
  BY <1>1, <1>4, <1>5, <1>6, <1>7 DEF Effect, a

(* The save after the training *)
LEMMA FinalSaveEffect ==
  ASSUME TypeInv, NEW r \in Rank, FinalSave(r)
  PROVE  Effect(r)
<1> DEFINE a == Local(r)
<1>1. /\ a.pc = "trained" /\ pc[r] = "trained" /\ a.at = at[r] /\ a.iter = iter[r]
      /\ a.us = update_successful[r] /\ a.ready = ready[r] /\ a.hooked = hooked[r]
  BY LocalFacts DEF FinalSave
<1>2. ~Waits(conf, a) /\ ~RemovesHook(conf, a) /\ ~Advances(conf, a)
  BY <1>1 DEF Waits, RemovesHook, Advances
<1>3. Dispatches(conf, a) = 0
  BY <1>1, <1>2 DEF Dispatches
<1>4. UNCHANGED <<handles, queue>>
  BY DEF FinalSave
<1>5. /\ handles' = [handles EXCEPT ![r] = NextHandles(conf, a)]
      /\ queue' = [queue EXCEPT ![r] = queue[r] \o Issues(conf, a)]
  BY <1>1, <1>2, <1>3, <1>4, QuietEffect
<1> HIDE DEF a
<1>6. /\ NextIter(conf, a) = iter[r] /\ NextUs(conf, a) = update_successful[r]
      /\ NextReady(conf, a) = ready[r] /\ NextAt(conf, a) = at[r]
      /\ NextPc(conf, a) = "done" /\ NextHooked(conf, a) = hooked[r]
  BY <1>1, <1>2 DEF NextIter, NextUs, NextReady, NextAt, NextPc, NextHooked
<1>7. /\ iter' = [iter EXCEPT ![r] = iter[r]]
      /\ update_successful' = [update_successful EXCEPT ![r] = update_successful[r]]
      /\ ready' = [ready EXCEPT ![r] = ready[r]] /\ at' = [at EXCEPT ![r] = at[r]]
      /\ hooked' = [hooked EXCEPT ![r] = hooked[r]]
      /\ pc' = [pc EXCEPT ![r] = "done"]
      /\ conf' = conf
  BY DEF FinalSave, TypeInv, Goto
<1>8. QED
  BY <1>1, <1>5, <1>6, <1>7 DEF Effect, a

(* Every step of a rank is determined by its own state. *)
LEMMA RankStepEffect ==
  ASSUME TypeInv, NEW r \in Rank, RankStep(r)
  PROVE  Effect(r)
BY ZeroGradEffect, ParamSyncEffect, ForwardModuleEffect, ReloadActivationEffect, WeightGradEffect,
   FinishGradSyncEffect, StepEffect, EndIterationEffect, EvaluateEffect, SaveOrGoOnEffect,
   FinalSaveEffect DEF RankStep

-----------------------------------------------------------------------------
(* Type correctness. *)

LocalOK(cf, a) ==
  /\ a.pc \in Labels /\ a.at \in [item : Nat \ {0}, k : Nat \ {0}]
  /\ a.iter \in 0 .. Iterations /\ a.handles \subseteq Handles(cf)
  /\ a.hooked \in BOOLEAN /\ (a.hooked => cf.overlap) /\ a.us \in BOOLEAN
  /\ a.ready \subseteq Chunks(cf) \X AllParams(cf)
  /\ PositionOK(cf, a.pc, a.at) /\ (a.pc \in Training => a.iter < Iterations)

(* What a position in the schedule gives. *)
LEMMA StepHandleFacts ==
  ASSUME NEW cf \in Configurations, NEW a, LocalOK(cf, a), a.pc \in {"run", "wgrad"}
  PROVE  /\ ItemOf(cf, a).chunk \in Chunks(cf)
         /\ Waits(cf, a) => StepHandle(cf, a) \in Handles(cf)
         /\ ItemOf(cf, a).kind = "B" =>
              WgradParam(cf, a) \in Params(cf.buffers[ItemOf(cf, a).chunk])
<1>1. PositionOK(cf, a.pc, a.at)
  BY DEF LocalOK
<1>2. PICK i \in 1 .. Len(cf.schedule) : i = a.at.item
  BY <1>1 DEF PositionOK
<1>3. PICK k \in 1 .. Steps(cf, i) : k = a.at.k
  BY <1>1, <1>2 DEF PositionOK
<1>4. PICK c \in Chunks(cf) : c = cf.schedule[i].chunk
  BY ItemFacts
<1>5. ItemOf(cf, a) = cf.schedule[i]
  BY <1>2 DEF ItemOf
<1>6. ASSUME cf.schedule[i].kind # "sync"
      PROVE  /\ cf.forward[c][k] \in Params(cf.buffers[c])
             /\ Reverse(cf.forward[c])[k] \in Params(cf.buffers[c])
  <2> DEFINE S == Params(cf.buffers[c])
  <2>1. PICK f \in Seq(S) : f = cf.forward[c]
    BY <1>4, ConfFacts
  <2> HIDE DEF S
  <2>2. PICK n \in Nat : n = Len(f)
    OBVIOUS
  <2>3. k \in 1 .. n
    BY <1>4, <1>6, <2>1, <2>2 DEF Steps
  <2>4. Reverse(f) = [x \in 1 .. n |-> f[(n - x) + 1]]
    BY <2>2 DEF Reverse
  <2>5. (n - k) + 1 \in 1 .. n
    BY <2>3
  <2>6. f[k] \in S /\ f[(n - k) + 1] \in S
    BY <2>2, <2>3, <2>5
  <2>7. Reverse(f)[k] = f[(n - k) + 1]
    BY <2>3, <2>4
  <2>8. QED
    BY <2>1, <2>6, <2>7 DEF S
<1>7. ASSUME Waits(cf, a) PROVE StepHandle(cf, a) \in Handles(cf)
  <2>1. CASE cf.schedule[i].kind = "sync"
    <3>1. StepHandle(cf, a) = HandlesOf(cf, Len(cf.buffers))[k]
      BY <1>3, <1>5, <2>1 DEF StepHandle
    <3>2. k \in 1 .. Len(HandlesOf(cf, Len(cf.buffers)))
      BY <2>1 DEF Steps
    <3>3. QED
      BY <3>1, <3>2, StepsFacts
  <2>2. CASE cf.schedule[i].kind # "sync"
    <3>1. StepHandle(cf, a) = HandleOf(cf, c, cf.forward[c][k])
      BY <1>3, <1>4, <1>5, <2>2 DEF StepHandle
    <3>2. QED
      BY <1>6, <2>2, <3>1, HandleFacts
  <2>3. QED
    BY <2>1, <2>2
<1>8. ASSUME cf.schedule[i].kind = "B" PROVE WgradParam(cf, a) \in Params(cf.buffers[c])
  BY <1>3, <1>4, <1>5, <1>6, <1>8 DEF WgradParam
<1>9. QED
  BY <1>4, <1>5, <1>7, <1>8

(* A step keeps the types of a rank's own state, and issues collectives. *)
LEMMA NextTyped ==
  ASSUME NEW cf \in Configurations, NEW a, LocalOK(cf, a), a.pc \notin {"found_inf", "done"}
  PROVE  /\ NextPc(cf, a) \in Labels /\ NextAt(cf, a) \in [item : Nat \ {0}, k : Nat \ {0}]
         /\ NextIter(cf, a) \in 0 .. Iterations /\ NextHandles(cf, a) \subseteq Handles(cf)
         /\ NextHooked(cf, a) \in BOOLEAN /\ (NextHooked(cf, a) => cf.overlap)
         /\ NextUs(cf, a) \in BOOLEAN
         /\ NextReady(cf, a) \subseteq Chunks(cf) \X AllParams(cf)
         /\ PositionOK(cf, NextPc(cf, a), NextAt(cf, a))
         /\ NextPc(cf, a) \in Training => NextIter(cf, a) < Iterations
         /\ Issues(cf, a) \in Seq(Ops(cf))
<1>1. /\ a.pc \in Labels /\ a.at \in [item : Nat \ {0}, k : Nat \ {0}]
      /\ a.iter \in 0 .. Iterations /\ a.handles \subseteq Handles(cf)
      /\ a.hooked \in BOOLEAN /\ (a.hooked => cf.overlap) /\ a.us \in BOOLEAN
      /\ a.ready \subseteq Chunks(cf) \X AllParams(cf)
      /\ PositionOK(cf, a.pc, a.at) /\ (a.pc \in Training => a.iter < Iterations)
  BY DEF LocalOK
<1>2. /\ Len(cf.schedule) \in Nat \ {0} /\ cf.overlap \in BOOLEAN
      /\ \A i \in 1 .. Len(cf.schedule) : Steps(cf, i) \in Nat \ {0}
  BY ConfFacts, StepsFacts
<1>3. Iterations \in Nat \ {0}
  BY SizesAssumption
<1>4. NextPc(cf, a) \in Labels
  BY DEF NextPc, Labels
<1>5. NextAt(cf, a) \in [item : Nat \ {0}, k : Nat \ {0}]
  BY <1>1 DEF NextAt
<1>6. NextIter(cf, a) \in 0 .. Iterations
  BY <1>1, <1>3 DEF NextIter, Training
<1>7. /\ NextHooked(cf, a) \in BOOLEAN /\ (NextHooked(cf, a) => cf.overlap)
      /\ NextUs(cf, a) \in BOOLEAN
  BY <1>1, <1>2 DEF NextHooked, NextUs
<1>8. Dispatches(cf, a) # 0 => Dispatches(cf, a) \in Handles(cf)
  BY HandleFacts DEF Dispatches
<1>9. NextHandles(cf, a) \subseteq Handles(cf)
  BY <1>1, <1>8 DEF NextHandles, DispatchedHandles
<1>10. ASSUME a.pc = "wgrad"
       PROVE  <<ItemOf(cf, a).chunk, WgradParam(cf, a)>> \in Chunks(cf) \X AllParams(cf)
  <2>1. ItemOf(cf, a).kind = "B"
    BY <1>1, <1>10 DEF PositionOK, ItemOf
  <2>2. /\ ItemOf(cf, a).chunk \in Chunks(cf)
        /\ WgradParam(cf, a) \in Params(cf.buffers[ItemOf(cf, a).chunk])
    BY <1>10, <2>1, StepHandleFacts
  <2>3. QED
    BY <2>2 DEF AllParams
<1>11. NextReady(cf, a) \subseteq Chunks(cf) \X AllParams(cf)
  BY <1>1, <1>10 DEF NextReady, ReadyNow
<1>12. PositionOK(cf, NextPc(cf, a), NextAt(cf, a))
  <2>1. CASE a.pc = "zero_grad"
    <3>1. NextPc(cf, a) = "run" /\ NextAt(cf, a) = [item |-> 1, k |-> 1]
      BY <2>1 DEF NextPc, NextAt
    <3>2. 1 \in 1 .. Len(cf.schedule) /\ Steps(cf, 1) \in Nat \ {0}
      BY <1>2
    <3>3. QED
      BY <3>1, <3>2 DEF PositionOK
  <2>2. CASE a.pc = "run" /\ ItemOf(cf, a).kind = "B"
    <3>1. NextPc(cf, a) = "wgrad" /\ NextAt(cf, a) = a.at
      BY <2>2 DEF NextPc, NextAt, Advances
    <3>2. QED
      BY <1>1, <2>2, <3>1 DEF PositionOK, ItemOf
  <2>3. CASE Advances(cf, a)
    <3>1. a.pc \in {"run", "wgrad"} /\ ~(a.pc = "run" /\ ItemOf(cf, a).kind = "B")
      BY <2>3 DEF Advances
    <3>2. a.at.item \in 1 .. Len(cf.schedule) /\ a.at.k \in 1 .. Steps(cf, a.at.item)
      BY <1>1, <3>1 DEF PositionOK
    <3>3. CASE a.at.k < Steps(cf, a.at.item)
      <4>1. NextPc(cf, a) = "run" /\ NextAt(cf, a) = [item |-> a.at.item, k |-> a.at.k + 1]
        BY <2>3, <3>1, <3>3 DEF NextPc, NextAt
      <4>2. a.at.k + 1 \in 1 .. Steps(cf, a.at.item)
        BY <1>2, <3>2, <3>3
      <4>3. QED
        BY <3>2, <4>1, <4>2 DEF PositionOK
    <3>4. CASE ~(a.at.k < Steps(cf, a.at.item)) /\ a.at.item < Len(cf.schedule)
      <4>1. NextPc(cf, a) = "run" /\ NextAt(cf, a) = [item |-> a.at.item + 1, k |-> 1]
        BY <2>3, <3>1, <3>4 DEF NextPc, NextAt
      <4>2. a.at.item + 1 \in 1 .. Len(cf.schedule)
        BY <1>2, <3>2, <3>4
      <4>3. Steps(cf, a.at.item + 1) \in Nat \ {0}
        BY <1>2, <4>2
      <4>4. 1 \in 1 .. Steps(cf, a.at.item + 1)
        BY <4>3
      <4>5. QED
        BY <4>1, <4>2, <4>4 DEF PositionOK
    <3>5. CASE ~(a.at.k < Steps(cf, a.at.item)) /\ ~(a.at.item < Len(cf.schedule))
      <4>1. NextPc(cf, a) = "finish"
        BY <2>3, <3>1, <3>5 DEF NextPc
      <4>2. QED
        BY <4>1 DEF PositionOK
    <3>6. QED
      BY <3>3, <3>4, <3>5
  <2>4. CASE a.pc \notin {"zero_grad", "run", "wgrad"}
    <3>1. ~Advances(cf, a)
      BY <2>4 DEF Advances
    <3>2. NextPc(cf, a) \notin {"run", "wgrad"}
      BY <2>4, <3>1 DEF NextPc
    <3>3. QED
      BY <3>2 DEF PositionOK
  <2>5. QED
    BY <2>1, <2>2, <2>3, <2>4 DEF Advances
<1>13. NextPc(cf, a) \in Training => NextIter(cf, a) < Iterations
  BY <1>1, <1>3 DEF NextPc, NextIter, Training, Advances, Labels
<1>14. Issues(cf, a) \in Seq(Ops(cf))
  <2>1. Dispatches(cf, a) # 0 => Gather(Dispatches(cf, a)) \in Ops(cf)
    BY <1>8 DEF Ops
  <2>2. ASSUME a.pc = "wgrad" PROVE Scatter(<<ItemOf(cf, a).chunk, WgradBucket(cf, a)>>) \in Ops(cf)
    <3>1. ItemOf(cf, a).kind = "B"
      BY <1>1, <2>2 DEF PositionOK, ItemOf
    <3>2. PICK c \in Chunks(cf) : c = ItemOf(cf, a).chunk
      BY <2>2, StepHandleFacts
    <3>3. PICK p \in Params(cf.buffers[c]) : p = WgradParam(cf, a)
      BY <2>2, <3>1, <3>2, StepHandleFacts
    <3>4. LayoutOf(cf, c).bucket_of[p] \in 1 .. Len(LayoutOf(cf, c).buckets)
      BY ConfFacts
    <3>5. WgradBucket(cf, a) \in Nat
      BY <3>2, <3>3, <3>4 DEF WgradBucket
    <3>6. QED
      BY <3>2, <3>5 DEF Ops
  <2>3. AllGathers(cf) \in Seq(Ops(cf))
    <3>1. PICK n \in Nat : Handles(cf) = 1 .. n
      BY HandleFacts
    <3>2. \A h \in 1 .. n : Gather(h) \in Ops(cf)
      BY <3>1 DEF Ops
    <3> DEFINE S == Ops(cf)
    <3> HIDE DEF S
    <3>3. [h \in 1 .. n |-> Gather(h)] \in Seq(S)
      BY <3>2 DEF S
    <3>4. QED
      BY <3>1, <3>3 DEF AllGathers, S
  <2>4. AllScatters(cf) \in Seq(Ops(cf))
    <3> DEFINE B == Chunks(cf) \X Nat
               S == Ops(cf)
    <3>1. PICK q \in Seq(B) : q = AllBuckets(cf)
      BY BucketSequences
    <3>2. \A b \in B : Scatter(b) \in S
      BY DEF Ops
    <3> HIDE DEF B, S
    <3>3. [i \in DOMAIN q |-> Scatter(q[i])] \in Seq(S)
      BY <3>2
    <3>4. QED
      BY <3>1, <3>3 DEF AllScatters, S
  <2> DEFINE S == Ops(cf)
  <2> HIDE DEF S
  <2>5. \A x \in S : <<x>> \in Seq(S)
    OBVIOUS
  <2>6. <<>> \in Seq(S)
    OBVIOUS
  <2>7. QED
    BY <2>1, <2>2, <2>3, <2>4, <2>5, <2>6 DEF Issues, S
<1>15. QED
  BY <1>4, <1>5, <1>6, <1>7, <1>9, <1>11, <1>12, <1>13, <1>14

(* The owners of a parameter are ranks of the group. *)
LEMMA OwnersFacts ==
  ASSUME NEW cf \in Configurations, NEW c \in Chunks(cf), NEW p \in Params(cf.buffers[c])
  PROVE  OwnersIn[cf.buffers[c]][p] \subseteq Rank
<1>1. cf.buffers[c] \in Range(cf.buffers) /\ cf.buffers[c].dp = DP
  BY ConfigurationsAssumption DEF Chunks, Range
<1>2. PICK b \in Buffers : b = cf.buffers[c]
  BY <1>1 DEF Buffers
<1>3. OwnersIn[b][p] = Owners(b, Layouts[b], p)
  BY <1>2, Zenon DEF OwnersIn
<1>4. Owners(b, Layouts[b], p) \subseteq Ranks(b)
  BY DEF Owners
<1>5. Ranks(b) = Rank
  BY <1>1, <1>2 DEF Ranks, Rank
<1>6. QED
  BY <1>2, <1>3, <1>4, <1>5

(* The versions of the parameters are in range. *)
LEMMA VersionsTyped ==
  ASSUME TypeInv, NEW r \in Rank, NEW c \in Chunks(conf), NEW p \in Params(conf.buffers[c])
  PROVE  Versions(r, c, p) \subseteq 0 .. Iterations
<1>1. conf \in Configurations /\ pbuf[r] \in [Handles(conf) \X Rank -> 0 .. Iterations]
  BY DEF TypeInv
<1>2. HandleOf(conf, c, p) \in Handles(conf)
  BY <1>1, HandleFacts
<1>3. OwnersIn[conf.buffers[c]][p] \subseteq Rank
  BY <1>1, OwnersFacts
<1>4. ASSUME NEW s \in Rank PROVE pbuf[r][HandleOf(conf, c, p), s] \in 0 .. Iterations
  <2>1. <<HandleOf(conf, c, p), s>> \in Handles(conf) \X Rank
    BY <1>2
  <2>2. QED
    BY <1>1, <2>1
<1>5. QED
  BY <1>3, <1>4 DEF Versions

(* Nothing but those is read. *)
LEMMA AllVersionsTyped ==
  ASSUME TypeInv, NEW r \in Rank
  PROVE  AllVersions(r) \subseteq 0 .. Iterations
BY VersionsTyped DEF AllVersions

(* The rank's own state is typed. *)
LEMMA LocalTyped ==
  ASSUME TypeInv, NEW r \in Rank
  PROVE  conf \in Configurations /\ LocalOK(conf, Local(r))
<1>1. /\ pc[r] \in Labels /\ at[r] \in [item : Nat \ {0}, k : Nat \ {0}]
      /\ iter[r] \in 0 .. Iterations /\ handles[r] \subseteq Handles(conf)
      /\ hooked[r] \in BOOLEAN /\ (hooked[r] => conf.overlap) /\ update_successful[r] \in BOOLEAN
      /\ ready[r] \subseteq Chunks(conf) \X AllParams(conf)
      /\ PositionOK(conf, pc[r], at[r]) /\ (pc[r] \in Training => iter[r] < Iterations)
      /\ conf \in Configurations
  BY DEF TypeInv, BudgetOK
<1>2. QED
  BY <1>1, LocalFacts DEF LocalOK

\* What a step of a rank does to the parameters and to what it has read of them.
DataEffect(r) ==
  /\ \/ /\ pc[r] = "step"
        /\ updates' = [updates EXCEPT ![r] = updates[r] + 1]
        /\ pbuf' = [pbuf EXCEPT ![r] = [hs \in DOMAIN pbuf[r] |->
                      IF hs[2] = r THEN updates[r] + 1 ELSE pbuf[r][hs]]]
     \/ pc[r] # "step" /\ UNCHANGED <<updates, pbuf>>
  /\ seen' \in [Rank -> SUBSET (0 .. Iterations)]
  /\ DOMAIN store' = Rank

(* The steps that read parameters, and the step that updates them. *)
LEMMA RankStepData ==
  ASSUME TypeInv, NEW r \in Rank, RankStep(r)
  PROVE  DataEffect(r)
<1>1. seen \in [Rank -> SUBSET (0 .. Iterations)] /\ DOMAIN store = Rank
  BY DEF TypeInv
<1>2. AllVersions(r) \subseteq 0 .. Iterations
  BY AllVersionsTyped
<1>3. CASE ZeroGrad(r)
  BY <1>1, <1>3 DEF ZeroGrad, DataEffect
<1>4. CASE ParamSync(r)
  BY <1>1, <1>4 DEF ParamSync, DataEffect
<1>5. CASE ForwardModule(r)
  <2>1. pc[r] = "run" /\ Item(r).kind = "F"
    BY <1>5 DEF ForwardModule
  <2>2. Item(r).chunk \in Chunks(conf) /\ Module(r) \in Params(conf.buffers[Item(r).chunk])
    BY <2>1, PositionFacts DEF Item
  <2>3. Versions(r, Item(r).chunk, Module(r)) \subseteq 0 .. Iterations
    BY <2>2, VersionsTyped
  <2>4. seen' = [seen EXCEPT ![r] = seen[r] \cup Versions(r, Item(r).chunk, Module(r))]
    BY <1>5 DEF ForwardModule
  <2>5. seen' \in [Rank -> SUBSET (0 .. Iterations)]
    BY <1>1, <2>3, <2>4
  <2>6. UNCHANGED <<updates, pbuf>> /\ DOMAIN store' = Rank
    BY <1>1, <1>5 DEF ForwardModule
  <2>7. QED
    BY <2>1, <2>5, <2>6 DEF DataEffect
<1>6. CASE ReloadActivation(r)
  BY <1>1, <1>6 DEF ReloadActivation, DataEffect
<1>7. CASE WeightGrad(r)
  BY <1>1, <1>7 DEF WeightGrad, DataEffect
<1>8. CASE FinishGradSync(r)
  BY <1>1, <1>8 DEF FinishGradSync, DataEffect
<1>9. CASE Step(r)
  <2>1. seen' \in [Rank -> SUBSET (0 .. Iterations)] /\ DOMAIN store' = Rank
    BY <1>1, <1>9 DEF Step
  <2>2. CASE pc[r] = "step"
    BY <1>9, <2>1, <2>2 DEF Step, DataEffect
  <2>3. CASE pc[r] # "step"
    BY <1>9, <2>1, <2>3 DEF Step, DataEffect
  <2>4. QED
    BY <2>2, <2>3
<1>10. CASE EndIteration(r)
  BY <1>1, <1>10 DEF EndIteration, DataEffect
<1>11. CASE Evaluate(r)
  BY <1>1, <1>2, <1>11 DEF Evaluate, DataEffect
<1>12. CASE SaveOrGoOn(r)
  <2>1. seen' \in [Rank -> SUBSET (0 .. Iterations)]
    BY <1>1, <1>2, <1>12 DEF SaveOrGoOn
  <2>2. QED
    BY <1>1, <1>12, <2>1 DEF SaveOrGoOn, DataEffect
<1>13. CASE FinalSave(r)
  BY <1>1, <1>2, <1>13 DEF FinalSave, DataEffect
<1>14. QED
  BY <1>3, <1>4, <1>5, <1>6, <1>7, <1>8, <1>9, <1>10, <1>11, <1>12, <1>13 DEF RankStep

(* A step of a rank keeps the types. *)
LEMMA RankStepTypes ==
  ASSUME TypeInv, NEW r \in Rank, RankStep(r)
  PROVE  TypeInv'
<1> DEFINE a == Local(r)
<1>1. Effect(r) /\ DataEffect(r)
  BY RankStepEffect, RankStepData
<1>2. conf \in Configurations /\ LocalOK(conf, a) /\ conf' = conf
  BY <1>1, LocalTyped DEF Effect
<1>3. a.pc = pc[r] /\ a.iter = iter[r] /\ a.pc \notin {"found_inf", "done"}
  BY <1>1, LocalFacts DEF Effect
<1>4. /\ NextPc(conf, a) \in Labels /\ NextAt(conf, a) \in [item : Nat \ {0}, k : Nat \ {0}]
      /\ NextIter(conf, a) \in 0 .. Iterations /\ NextHandles(conf, a) \subseteq Handles(conf)
      /\ NextHooked(conf, a) \in BOOLEAN /\ (NextHooked(conf, a) => conf.overlap)
      /\ NextUs(conf, a) \in BOOLEAN
      /\ NextReady(conf, a) \subseteq Chunks(conf) \X AllParams(conf)
      /\ PositionOK(conf, NextPc(conf, a), NextAt(conf, a))
      /\ NextPc(conf, a) \in Training => NextIter(conf, a) < Iterations
      /\ Issues(conf, a) \in Seq(Ops(conf))
  BY <1>2, <1>3, NextTyped
<1> HIDE DEF a
<1>5. /\ pc' = [pc EXCEPT ![r] = NextPc(conf, a)] /\ at' = [at EXCEPT ![r] = NextAt(conf, a)]
      /\ iter' = [iter EXCEPT ![r] = NextIter(conf, a)]
      /\ handles' = [handles EXCEPT ![r] = NextHandles(conf, a)]
      /\ hooked' = [hooked EXCEPT ![r] = NextHooked(conf, a)]
      /\ update_successful' = [update_successful EXCEPT ![r] = NextUs(conf, a)]
      /\ ready' = [ready EXCEPT ![r] = NextReady(conf, a)]
      /\ queue' = [queue EXCEPT ![r] = queue[r] \o Issues(conf, a)]
  BY <1>1 DEF Effect, a
<1>6. /\ pc' \in [Rank -> Labels] /\ at' \in [Rank -> [item : Nat \ {0}, k : Nat \ {0}]]
      /\ iter' \in [Rank -> 0 .. Iterations] /\ handles' \in [Rank -> SUBSET Handles(conf)]
      /\ hooked' \in [Rank -> BOOLEAN] /\ update_successful' \in [Rank -> BOOLEAN]
      /\ ready' \in [Rank -> SUBSET (Chunks(conf) \X AllParams(conf))]
  BY <1>4, <1>5 DEF TypeInv
<1>7. queue' \in [Rank -> Seq(Ops(conf))]
  <2>1. queue[r] \in Seq(Ops(conf)) /\ queue \in [Rank -> Seq(Ops(conf))]
    BY DEF TypeInv
  <2>2. queue[r] \o Issues(conf, a) \in Seq(Ops(conf))
    BY <1>4, <2>1
  <2>3. QED
    BY <1>5, <2>1, <2>2
<1>8. \A s \in Rank : hooked'[s] => conf.overlap
  BY <1>4, <1>5 DEF TypeInv
<1>9. \A s \in Rank : PositionOK(conf, pc'[s], at'[s])
  BY <1>4, <1>5 DEF TypeInv
<1>10. /\ updates' \in [Rank -> 0 .. Iterations]
       /\ pbuf' \in [Rank -> [Handles(conf) \X Rank -> 0 .. Iterations]]
       /\ \A s \in Rank : BudgetOK(pc'[s], iter'[s], updates'[s])
  <2>1. /\ updates \in [Rank -> 0 .. Iterations] /\ iter \in [Rank -> 0 .. Iterations]
        /\ pbuf \in [Rank -> [Handles(conf) \X Rank -> 0 .. Iterations]]
        /\ pc \in [Rank -> Labels]
        /\ \A s \in Rank : BudgetOK(pc[s], iter[s], updates[s])
    BY DEF TypeInv
  <2>2. Iterations \in Nat
    BY SizesAssumption
  <2>3. CASE pc[r] = "step"
    <3>1. /\ updates' = [updates EXCEPT ![r] = updates[r] + 1]
          /\ pbuf' = [pbuf EXCEPT ![r] = [hs \in DOMAIN pbuf[r] |->
                        IF hs[2] = r THEN updates[r] + 1 ELSE pbuf[r][hs]]]
      BY <1>1, <2>3 DEF DataEffect
    <3>2. iter[r] < Iterations /\ updates[r] <= iter[r]
      BY <2>1, <2>3 DEF BudgetOK, Training
    <3>3. updates[r] + 1 \in 0 .. Iterations
      BY <2>1, <2>2, <3>2
    <3>4. NextPc(conf, a) = "stepped" /\ NextIter(conf, a) = iter[r]
      BY <1>3, <2>3 DEF NextPc, NextIter, Advances
    <3>5. BudgetOK("stepped", iter[r], updates[r] + 1)
      BY <2>1, <2>2, <3>2 DEF BudgetOK
    <3>6. \A s \in Rank : BudgetOK(pc'[s], iter'[s], updates'[s])
      BY <1>5, <2>1, <3>1, <3>4, <3>5
    <3>7. [hs \in DOMAIN pbuf[r] |-> IF hs[2] = r THEN updates[r] + 1 ELSE pbuf[r][hs]]
            \in [Handles(conf) \X Rank -> 0 .. Iterations]
      BY <2>1, <3>3
    <3>8. QED
      BY <2>1, <3>1, <3>3, <3>6, <3>7
  <2>4. CASE pc[r] # "step"
    <3>1. UNCHANGED <<updates, pbuf>>
      BY <1>1, <2>4 DEF DataEffect
    <3>2. BudgetOK(NextPc(conf, a), NextIter(conf, a), updates[r])
      <4>1. BudgetOK(pc[r], iter[r], updates[r]) /\ updates[r] \in Nat /\ iter[r] \in Nat
        BY <2>1
      <4>2. CASE pc[r] = "stepped"
        <5>1. NextIter(conf, a) = iter[r] + 1 /\ NextPc(conf, a) # "stepped"
          BY <1>3, <4>2 DEF NextIter, NextPc, Advances
        <5>2. QED
          BY <1>4, <4>1, <4>2, <5>1 DEF BudgetOK
      <4>3. CASE pc[r] # "stepped"
        <5>1. NextIter(conf, a) = iter[r]
          BY <1>3, <4>3 DEF NextIter
        <5>2. QED
          BY <1>4, <4>1, <4>3, <5>1 DEF BudgetOK
      <4>4. QED
        BY <4>2, <4>3
    <3>3. \A s \in Rank : BudgetOK(pc'[s], iter'[s], updates'[s])
      BY <1>5, <2>1, <3>1, <3>2
    <3>4. QED
      BY <2>1, <3>1, <3>3
  <2>5. QED
    BY <2>3, <2>4
<1>11. seen' \in [Rank -> SUBSET (0 .. Iterations)] /\ DOMAIN store' = Rank
  BY <1>1 DEF DataEffect
<1>12. QED
  BY <1>2, <1>6, <1>7, <1>8, <1>9, <1>10, <1>11 DEF TypeInv

(* A collective keeps the types. *)
LEMMA TransferTypes ==
  ASSUME TypeInv, Transfer
  PROVE  TypeInv'
<1>1. /\ queue \in [Rank -> Seq(Ops(conf))] /\ \A r \in Rank : queue[r] # <<>>
      /\ pbuf \in [Rank -> [Handles(conf) \X Rank -> 0 .. Iterations]]
  BY DEF TypeInv, Transfer
<1>2. queue' \in [Rank -> Seq(Ops(conf))]
  <2> DEFINE S == Ops(conf)
  <2> HIDE DEF S
  <2>1. \A q \in Seq(S) : q # <<>> => Tail(q) \in Seq(S)
    OBVIOUS
  <2>2. QED
    BY <1>1, <2>1 DEF Transfer, S
<1>3. pbuf' \in [Rank -> [Handles(conf) \X Rank -> 0 .. Iterations]]
  <2>1. CASE Head(queue[0])[1] = "all-gather"
    <3> DEFINE h == Head(queue[0])[2]
    <3>1. pbuf' = [r \in Rank |-> [hs \in DOMAIN pbuf[r] |->
                     IF hs[1] = h THEN pbuf[hs[2]][hs] ELSE pbuf[r][hs]]]
      BY <2>1 DEF Transfer
    <3> HIDE DEF h
    <3>2. ASSUME NEW r \in Rank
          PROVE  [hs \in DOMAIN pbuf[r] |-> IF hs[1] = h THEN pbuf[hs[2]][hs] ELSE pbuf[r][hs]]
                   \in [Handles(conf) \X Rank -> 0 .. Iterations]
      BY <1>1
    <3>3. QED
      BY <3>1, <3>2
  <2>2. CASE Head(queue[0])[1] # "all-gather"
    <3>1. pbuf' = pbuf
      BY <2>2 DEF Transfer
    <3>2. QED
      BY <1>1, <3>1
  <2>3. QED
    BY <2>1, <2>2
<1>4. UNCHANGED <<conf, pc, at, iter, handles, hooked, update_successful, updates, seen, ready, store>>
  BY DEF Transfer
<1>5. QED
  BY <1>2, <1>3, <1>4 DEF TypeInv

(* The all-reduce of found_inf sends all ranks the same way. *)
LEMMA ReduceFoundInfEffect ==
  ASSUME ReduceFoundInf
  PROVE  /\ \A s \in Rank : pc[s] = "found_inf" /\ ScattersDone(s)
         /\ \E label \in {"step", "skip"} : pc' = [s \in Rank |-> label]
         /\ UNCHANGED <<conf, at, iter, queue, handles, hooked, update_successful, updates, pbuf,
                        seen, ready, store>>
<1>1. PICK r \in Rank :
        /\ \A s \in Rank : pc[s] = "found_inf" /\ ScattersDone(s)
        /\ pc' = [s \in Rank |-> IF s \notin Rank THEN pc[s]
                    ELSE IF \E t \in Rank : <<t, iter[t] + 1>> \in conf.bad THEN "skip" ELSE "step"]
        /\ UNCHANGED <<conf, at, iter, queue, handles, hooked, update_successful, updates, pbuf,
                       seen, ready, store>>
  BY DEF ReduceFoundInf, FoundInfGroup
<1>2. CASE \E t \in Rank : <<t, iter[t] + 1>> \in conf.bad
  <2>1. pc' = [s \in Rank |-> "skip"]
    BY <1>1, <1>2
  <2>2. QED
    BY <1>1, <2>1
<1>3. CASE ~\E t \in Rank : <<t, iter[t] + 1>> \in conf.bad
  <2>1. pc' = [s \in Rank |-> "step"]
    BY <1>1, <1>3
  <2>2. QED
    BY <1>1, <2>1
<1>4. QED
  BY <1>2, <1>3

(* It keeps the types. *)
LEMMA ReduceFoundInfTypes ==
  ASSUME TypeInv, ReduceFoundInf
  PROVE  TypeInv'
<1>1. PICK label \in {"step", "skip"} : pc' = [s \in Rank |-> label]
  BY ReduceFoundInfEffect
<1>2. \A s \in Rank : pc[s] = "found_inf"
  BY ReduceFoundInfEffect
<1>3. UNCHANGED <<conf, at, iter, queue, handles, hooked, update_successful, updates, pbuf, seen,
                  ready, store>>
  BY ReduceFoundInfEffect
<1>4. pc' \in [Rank -> Labels]
  BY <1>1 DEF Labels
<1>5. \A s \in Rank : PositionOK(conf, pc'[s], at[s]) /\ BudgetOK(pc'[s], iter[s], updates[s])
  <2> TAKE s \in Rank
  <2>1. BudgetOK("found_inf", iter[s], updates[s])
    BY <1>2 DEF TypeInv
  <2>2. pc'[s] = label
    BY <1>1
  <2>3. QED
    BY <2>1, <2>2 DEF PositionOK, BudgetOK, Training
<1>6. QED
  BY <1>3, <1>4, <1>5 DEF TypeInv

(* The invariant of types holds initially. *)
LEMMA InitTypes == Init => TypeInv
<1> SUFFICES ASSUME Init PROVE TypeInv
  OBVIOUS
<1>1. conf \in Configurations /\ conf.overlap \in BOOLEAN
  BY ConfFacts DEF Init
<1>2. Iterations \in Nat \ {0}
  BY SizesAssumption
<1>3. \A r \in Rank : PositionOK(conf, pc[r], at[r]) /\ BudgetOK(pc[r], iter[r], updates[r])
  BY <1>2 DEF Init, PositionOK, BudgetOK
<1>4. queue \in [Rank -> Seq(Ops(conf))]
  BY DEF Init
<1>5. pbuf \in [Rank -> [Handles(conf) \X Rank -> 0 .. Iterations]]
  BY <1>2 DEF Init
<1>6. /\ pc \in [Rank -> Labels] /\ at \in [Rank -> [item : Nat \ {0}, k : Nat \ {0}]]
      /\ iter \in [Rank -> 0 .. Iterations] /\ updates \in [Rank -> 0 .. Iterations]
      /\ handles \in [Rank -> SUBSET Handles(conf)] /\ hooked \in [Rank -> BOOLEAN]
      /\ update_successful \in [Rank -> BOOLEAN] /\ seen \in [Rank -> SUBSET (0 .. Iterations)]
      /\ ready \in [Rank -> SUBSET (Chunks(conf) \X AllParams(conf))] /\ DOMAIN store = Rank
      /\ \A r \in Rank : hooked[r] => conf.overlap
  BY <1>1, <1>2 DEF Init, Labels
<1>7. QED
  BY <1>1, <1>3, <1>4, <1>5, <1>6 DEF TypeInv

(* The types are kept by every step of Next and by a stuttering step. *)
LEMMA NextTypes == TypeInv /\ [Next]_vars => TypeInv'
<1> SUFFICES ASSUME TypeInv, [Next]_vars PROVE TypeInv'
  OBVIOUS
<1>1. CASE Transfer
  BY <1>1, TransferTypes
<1>2. CASE ReduceFoundInf
  BY <1>2, ReduceFoundInfTypes
<1>3. ASSUME NEW r \in Rank, RankStep(r) PROVE TypeInv'
  BY <1>3, RankStepTypes
<1>4. CASE UNCHANGED vars
  BY <1>4 DEF vars, TypeInv
<1>5. QED
  BY <1>1, <1>2, <1>3, <1>4 DEF Next, AllDone

(* TypeOK, the part of CollectivesMatch about types, follows. *)
LEMMA TypeInvImpliesTypeOK == TypeInv => TypeOK
<1> SUFFICES ASSUME TypeInv PROVE TypeOK
  OBVIOUS
<1>1. pc \in [Rank -> Labels]
  BY DEF TypeInv
<1>2. ASSUME NEW r \in Rank
      PROVE  /\ iter[r] \in 0 .. Iterations /\ updates[r] \in 0 .. iter[r] + 1
             /\ handles[r] \subseteq Handles(conf)
             /\ hooked[r] => conf.overlap
             /\ seen[r] \subseteq 0 .. Iterations
             /\ DOMAIN pbuf[r] = Handles(conf) \X Rank
  <2>1. iter[r] \in 0 .. Iterations /\ updates[r] \in 0 .. Iterations /\ BudgetOK(pc[r], iter[r], updates[r])
    BY DEF TypeInv
  <2>2. updates[r] \in 0 .. iter[r] + 1
    BY <2>1 DEF BudgetOK
  <2>3. QED
    BY <2>1, <2>2 DEF TypeInv
<1>3. ASSUME NEW r \in Rank, NEW i \in DOMAIN queue[r], queue[r][i][1] = "all-gather"
      PROVE  queue[r][i][2] \in Handles(conf)
  <2>1. queue[r] \in Seq(Ops(conf))
    BY DEF TypeInv
  <2> DEFINE S == Ops(conf)
  <2> HIDE DEF S
  <2>2. queue[r][i] \in S
    BY <2>1 DEF S
  <2>3. QED
    BY <1>3, <2>2 DEF S, Ops, Gather, Scatter
<1>4. QED
  BY <1>1, <1>2, <1>3 DEF TypeOK

-----------------------------------------------------------------------------
(* The ranks issue the same collectives. Since the last all-reduce of found_inf, which  *)
(* no rank passes alone, all ranks walk along one trajectory of local states tr[1],     *)
(* tr[2], ..., tr[n]; rank r has come to tr[k[r]]. The collectives issued on the way    *)
(* are in ops, those before tr[i] being the first count[i]; the first d of them have    *)
(* completed on all ranks, the rest, up to count[k[r]], is the queue of rank r.         *)

NextLocal(cf, a) ==
  [pc |-> NextPc(cf, a), at |-> NextAt(cf, a), iter |-> NextIter(cf, a),
   handles |-> NextHandles(cf, a), hooked |-> NextHooked(cf, a), us |-> NextUs(cf, a),
   ready |-> NextReady(cf, a)]

Trajectory(cf, n, tr, count, ops) ==
  /\ \A i \in 1 .. n : count[i] \in Nat /\ count[i] <= count[n]
  /\ \A i \in 1 .. n - 1 :
       /\ tr[i].pc \notin {"found_inf", "done"}
       /\ tr[i + 1] = NextLocal(cf, tr[i])
       /\ count[i + 1] = count[i] + Len(Issues(cf, tr[i]))
       /\ \A j \in 1 .. Len(Issues(cf, tr[i])) : ops[count[i] + j] = Issues(cf, tr[i])[j]

\* A rank with local state a and queue q has come to tr[i].
HasComeTo(i, a, q, d, tr, count, ops) ==
  /\ a = tr[i]
  /\ d + Len(q) = count[i]
  /\ \A j \in 1 .. Len(q) : q[j] = ops[d + j]

AllOn(n, d, tr, count, ops, k) ==
  /\ Trajectory(conf, n, tr, count, ops)
  /\ \A r \in Rank : k[r] \in 1 .. n /\ HasComeTo(k[r], Local(r), queue[r], d, tr, count, ops)

MatchInv == \E n \in Nat \ {0}, d \in Nat : \E tr, count, ops, k : AllOn(n, d, tr, count, ops, k)

CanBeExtended(cf, n, tr, count, ops) ==
  \E tr2, count2, ops2 :
    /\ Trajectory(cf, n + 1, tr2, count2, ops2)
    /\ \A i \in 1 .. n : tr2[i] = tr[i] /\ count2[i] = count[i]
    /\ \A x \in Nat : x <= count[n] => ops2[x] = ops[x]

(* The trajectory can be extended. *)
LEMMA ExtendTrajectory ==
  ASSUME NEW cf, NEW n \in Nat \ {0}, NEW tr, NEW count, NEW ops,
         Trajectory(cf, n, tr, count, ops), tr[n].pc \notin {"found_inf", "done"},
         Len(Issues(cf, tr[n])) \in Nat
  PROVE  CanBeExtended(cf, n, tr, count, ops)
<1> DEFINE m == Len(Issues(cf, tr[n]))
           tr2 == [i \in 1 .. n + 1 |-> IF i = n + 1 THEN NextLocal(cf, tr[n]) ELSE tr[i]]
           count2 == [i \in 1 .. n + 1 |-> IF i = n + 1 THEN count[n] + m ELSE count[i]]
           ops2 == [x \in Nat |-> IF x <= count[n] THEN ops[x] ELSE Issues(cf, tr[n])[x - count[n]]]
<1>1. /\ \A i \in 1 .. n : i \in 1 .. n + 1 /\ i # n + 1
      /\ n \in 1 .. n /\ n + 1 \in 1 .. n + 1 /\ m \in Nat
  OBVIOUS
<1>2. \A i \in 1 .. n : tr2[i] = tr[i] /\ count2[i] = count[i]
  BY <1>1
<1>3. tr2[n + 1] = NextLocal(cf, tr[n]) /\ count2[n + 1] = count[n] + m
  BY <1>1
<1>4. /\ \A x \in Nat : x <= count[n] => ops2[x] = ops[x]
      /\ \A x \in Nat : ~(x <= count[n]) => ops2[x] = Issues(cf, tr[n])[x - count[n]]
  OBVIOUS
<1>5. m = Len(Issues(cf, tr[n]))
  OBVIOUS
<1> HIDE DEF m, tr2, count2, ops2
<1>6. \A i \in 1 .. n : count[i] \in Nat /\ count[i] <= count[n]
  BY DEF Trajectory
<1>7. \A i \in 1 .. n + 1 : count2[i] \in Nat /\ count2[i] <= count2[n + 1]
  <2> TAKE i \in 1 .. n + 1
  <2>1. count[n] \in Nat
    BY <1>1, <1>6
  <2>2. CASE i = n + 1
    BY <1>1, <1>3, <2>1, <2>2
  <2>3. CASE i # n + 1
    <3>1. i \in 1 .. n
      BY <2>3
    <3>2. count2[i] = count[i] /\ count[i] \in Nat /\ count[i] <= count[n]
      BY <1>2, <1>6, <3>1
    <3>3. QED
      BY <1>1, <1>3, <2>1, <3>2
  <2>4. QED
    BY <2>2, <2>3
<1>8. ASSUME NEW i \in 1 .. n
      PROVE  /\ tr2[i].pc \notin {"found_inf", "done"}
             /\ tr2[i + 1] = NextLocal(cf, tr2[i])
             /\ count2[i + 1] = count2[i] + Len(Issues(cf, tr2[i]))
             /\ \A j \in 1 .. Len(Issues(cf, tr2[i])) : ops2[count2[i] + j] = Issues(cf, tr2[i])[j]
  <2>1. tr2[i] = tr[i] /\ count2[i] = count[i] /\ count[i] \in Nat /\ count[n] \in Nat
    BY <1>1, <1>2, <1>6
  <2>2. CASE i = n
    <3>1. ASSUME NEW j \in 1 .. m PROVE ops2[count[n] + j] = Issues(cf, tr[n])[j]
      <4>1. count[n] + j \in Nat /\ ~(count[n] + j <= count[n]) /\ (count[n] + j) - count[n] = j
        BY <1>1, <2>1
      <4>2. ops2[count[n] + j] = Issues(cf, tr[n])[(count[n] + j) - count[n]]
        BY <1>4, <4>1
      <4>3. QED
        BY <4>1, <4>2
    <3>2. QED
      BY <1>3, <1>5, <2>1, <2>2, <3>1
  <2>3. CASE i # n
    <3>1. i \in 1 .. n - 1 /\ i + 1 \in 1 .. n
      BY <2>3
    <3>2. /\ tr[i].pc \notin {"found_inf", "done"}
          /\ tr[i + 1] = NextLocal(cf, tr[i])
          /\ count[i + 1] = count[i] + Len(Issues(cf, tr[i]))
          /\ \A j \in 1 .. Len(Issues(cf, tr[i])) : ops[count[i] + j] = Issues(cf, tr[i])[j]
      BY <3>1 DEF Trajectory
    <3>3. tr2[i + 1] = tr[i + 1] /\ count2[i + 1] = count[i + 1] /\ count[i + 1] <= count[n]
          /\ count[i + 1] \in Nat
      BY <1>2, <1>6, <3>1
    <3>4. ASSUME NEW j \in 1 .. Len(Issues(cf, tr[i])) PROVE ops2[count[i] + j] = ops[count[i] + j]
      <4> DEFINE l == Len(Issues(cf, tr[i]))
      <4>1. count[i] + l <= count[n] /\ count[i] + l \in Nat /\ j \in 1 .. l
        BY <3>2, <3>3
      <4> HIDE DEF l
      <4>2. count[i] + j \in Nat
        BY <2>1
      <4>3. count[i] + j <= count[n]
        BY <2>1, <4>1, <3>2, <3>3 DEF l
      <4>5. QED
        BY <1>4, <4>2, <4>3
    <3>5. QED
      BY <2>1, <3>2, <3>3, <3>4
  <2>4. QED
    BY <2>2, <2>3
<1>9. Trajectory(cf, n + 1, tr2, count2, ops2)
  <2>1. (n + 1) - 1 = n
    OBVIOUS
  <2>2. QED
    BY <1>7, <1>8, <2>1 DEF Trajectory
<1>10. QED
  BY <1>2, <1>4, <1>9 DEF CanBeExtended

(* The elements of a concatenation. *)
LEMMA ConcatFacts ==
  ASSUME NEW S, NEW q \in Seq(S), NEW w \in Seq(S)
  PROVE  /\ Len(q \o w) = Len(q) + Len(w) /\ \A j \in 1 .. Len(q) : (q \o w)[j] = q[j]
         /\ \A j \in 1 .. Len(w) : (q \o w)[Len(q) + j] = w[j]
OBVIOUS

(* One step along a trajectory. *)
LEMMA AlongTrajectory ==
  ASSUME NEW cf, NEW n \in Nat \ {0}, NEW tr, NEW count, NEW ops,
         Trajectory(cf, n, tr, count, ops), NEW i \in 1 .. n - 1, NEW d \in Nat,
         NEW S, NEW a, NEW q \in Seq(S), HasComeTo(i, a, q, d, tr, count, ops),
         Issues(cf, a) \in Seq(S)
  PROVE  HasComeTo(i + 1, NextLocal(cf, a), q \o Issues(cf, a), d, tr, count, ops)
<1>1. a = tr[i] /\ d + Len(q) = count[i] /\ \A j \in 1 .. Len(q) : q[j] = ops[d + j]
  BY DEF HasComeTo
<1>2. PICK w \in Seq(S) : w = Issues(cf, a)
  OBVIOUS
<1>3. /\ tr[i + 1] = NextLocal(cf, a) /\ count[i + 1] = count[i] + Len(w)
      /\ \A j \in 1 .. Len(w) : ops[count[i] + j] = w[j]
  BY <1>1, <1>2 DEF Trajectory
<1>4. PICK x \in Nat, y \in Nat : x = Len(q) /\ y = Len(w)
  OBVIOUS
<1>5. /\ Len(q \o w) = x + y /\ \A j \in 1 .. x : (q \o w)[j] = q[j]
      /\ \A j \in 1 .. y : (q \o w)[x + j] = w[j]
  BY <1>4, ConcatFacts
<1>6. d + Len(q \o w) = count[i + 1]
  <2>1. d + x = count[i] /\ count[i + 1] = count[i] + y /\ Len(q \o w) = x + y
    BY <1>1, <1>3, <1>4, <1>5
  <2>2. d + (x + y) = (d + x) + y
    OBVIOUS
  <2>3. QED
    BY <2>1, <2>2, Zenon
<1>7. ASSUME NEW j \in 1 .. x + y PROVE (q \o w)[j] = ops[d + j]
  <2>1. CASE j <= x
    <3>1. j \in 1 .. x
      BY <2>1
    <3>2. QED
      BY <1>1, <1>4, <1>5, <3>1
  <2>2. CASE ~(j <= x)
    <3>1. PICK l \in 1 .. y : j = x + l
      <4>1. j - x \in 1 .. y /\ j = x + (j - x)
        BY <2>2
      <4>2. QED
        BY <4>1
    <3>2. (q \o w)[j] = w[l] /\ ops[count[i] + l] = w[l]
      BY <1>3, <1>4, <1>5, <3>1
    <3>3. count[i] + l = d + j
      BY <1>1, <1>4, <3>1
    <3>4. QED
      BY <3>2, <3>3
  <2>3. QED
    BY <2>1, <2>2
<1>8. QED
  BY <1>2, <1>3, <1>5, <1>6, <1>7 DEF HasComeTo

(* What a step of a rank makes of the local states. *)
LEMMA LocalStep ==
  ASSUME TypeInv, NEW r \in Rank, Effect(r)
  PROVE  /\ conf' = conf
         /\ Local(r)' = NextLocal(conf, Local(r)) /\ queue[r]' = queue[r] \o Issues(conf, Local(r))
         /\ \A s \in Rank : s # r => Local(s)' = Local(s) /\ queue[s]' = queue[s]
<1> DEFINE a == Local(r)
<1>1. /\ conf' = conf
      /\ pc' = [pc EXCEPT ![r] = NextPc(conf, a)] /\ at' = [at EXCEPT ![r] = NextAt(conf, a)]
      /\ iter' = [iter EXCEPT ![r] = NextIter(conf, a)]
      /\ handles' = [handles EXCEPT ![r] = NextHandles(conf, a)]
      /\ hooked' = [hooked EXCEPT ![r] = NextHooked(conf, a)]
      /\ update_successful' = [update_successful EXCEPT ![r] = NextUs(conf, a)]
      /\ ready' = [ready EXCEPT ![r] = NextReady(conf, a)]
      /\ queue' = [queue EXCEPT ![r] = queue[r] \o Issues(conf, a)]
  BY DEF Effect
<1>2. /\ DOMAIN pc = Rank /\ DOMAIN at = Rank /\ DOMAIN iter = Rank /\ DOMAIN handles = Rank
      /\ DOMAIN hooked = Rank /\ DOMAIN update_successful = Rank /\ DOMAIN ready = Rank
      /\ DOMAIN queue = Rank
  BY DEF TypeInv
<1> HIDE DEF a
<1>3. /\ pc'[r] = NextPc(conf, a) /\ at'[r] = NextAt(conf, a) /\ iter'[r] = NextIter(conf, a)
      /\ handles'[r] = NextHandles(conf, a) /\ hooked'[r] = NextHooked(conf, a)
      /\ update_successful'[r] = NextUs(conf, a) /\ ready'[r] = NextReady(conf, a)
      /\ queue'[r] = queue[r] \o Issues(conf, a)
  BY <1>1, <1>2
<1>4. ASSUME NEW s \in Rank, s # r
      PROVE  /\ pc'[s] = pc[s] /\ at'[s] = at[s] /\ iter'[s] = iter[s]
             /\ handles'[s] = handles[s] /\ hooked'[s] = hooked[s]
             /\ update_successful'[s] = update_successful[s] /\ ready'[s] = ready[s]
             /\ queue'[s] = queue[s]
  BY <1>1, <1>2, <1>4
<1>5. Local(r)' = NextLocal(conf, a)
  BY <1>3 DEF Local, NextLocal
<1>6. ASSUME NEW s \in Rank, s # r PROVE Local(s)' = Local(s) /\ queue'[s] = queue[s]
  BY <1>4, <1>6 DEF Local
<1>7. QED
  BY <1>1, <1>3, <1>5, <1>6 DEF a

(* The invariant holds initially: all ranks start in the same state. *)
LEMMA InitMatch == Init => MatchInv
<1> SUFFICES ASSUME Init PROVE MatchInv
  OBVIOUS
<1> DEFINE a == [pc |-> "zero_grad", at |-> [item |-> 1, k |-> 1], iter |-> 0, handles |-> {},
                 hooked |-> conf.overlap, us |-> FALSE, ready |-> {}]
           tr == [i \in 1 .. 1 |-> a]
           count == [i \in 1 .. 1 |-> 0]
           ops == [x \in Nat |-> 0]
           k == [r \in Rank |-> 1]
<1>1. \A r \in Rank : Local(r) = a /\ queue[r] = <<>>
  BY DEF Init, Local
<1>2. tr[1] = a /\ count[1] = 0 /\ \A r \in Rank : k[r] = 1
  OBVIOUS
<1> HIDE DEF a, tr, count, ops, k
<1>3. Trajectory(conf, 1, tr, count, ops)
  BY <1>2 DEF Trajectory
<1>4. \A r \in Rank : HasComeTo(1, Local(r), queue[r], 0, tr, count, ops)
  BY <1>1, <1>2 DEF HasComeTo
<1>5. AllOn(1, 0, tr, count, ops, k)
  BY <1>2, <1>3, <1>4 DEF AllOn
<1>6. QED
  BY <1>5 DEF MatchInv

(* A step of a rank takes it one further, on a trajectory that may have to grow. *)
LEMMA RankStepMatch ==
  ASSUME TypeInv, MatchInv, NEW r \in Rank, RankStep(r)
  PROVE  MatchInv'
<1>1. PICK n \in Nat \ {0}, d \in Nat : \E tr, count, ops, k : AllOn(n, d, tr, count, ops, k)
  BY DEF MatchInv
<1>2. PICK tr, count, ops, k : AllOn(n, d, tr, count, ops, k)
  BY <1>1
<1>3. /\ Trajectory(conf, n, tr, count, ops)
      /\ \A s \in Rank : k[s] \in 1 .. n /\ HasComeTo(k[s], Local(s), queue[s], d, tr, count, ops)
  BY <1>2 DEF AllOn
<1>4. Effect(r) /\ conf \in Configurations /\ LocalOK(conf, Local(r))
  BY RankStepEffect, LocalTyped
<1>5. Local(r).pc \notin {"found_inf", "done"}
  BY <1>4, LocalFacts DEF Effect
<1>6. Issues(conf, Local(r)) \in Seq(Ops(conf)) /\ \A s \in Rank : queue[s] \in Seq(Ops(conf))
  BY <1>4, <1>5, NextTyped DEF TypeInv
<1>7. \E m \in Nat \ {0} : \E tr2, count2, ops2 :
        /\ Trajectory(conf, m, tr2, count2, ops2)
        /\ k[r] \in 1 .. m - 1
        /\ \A s \in Rank : /\ k[s] \in 1 .. m
                           /\ HasComeTo(k[s], Local(s), queue[s], d, tr2, count2, ops2)
  <2>1. CASE k[r] = n
    <3>1. tr[n].pc \notin {"found_inf", "done"} /\ Len(Issues(conf, tr[n])) \in Nat
      <4>1. tr[n] = Local(r)
        BY <1>3, <2>1 DEF HasComeTo
      <4>2. Len(Issues(conf, Local(r))) \in Nat
        BY <1>6
      <4>3. QED
        BY <1>5, <4>1, <4>2
    <3>2. PICK tr2, count2, ops2 :
            /\ Trajectory(conf, n + 1, tr2, count2, ops2)
            /\ \A i \in 1 .. n : tr2[i] = tr[i] /\ count2[i] = count[i]
            /\ \A x \in Nat : x <= count[n] => ops2[x] = ops[x]
      <4>1. Trajectory(conf, n, tr, count, ops)
        BY <1>3
      <4>2. CanBeExtended(conf, n, tr, count, ops)
        BY <3>1, <4>1, ExtendTrajectory, Zenon
      <4>3. QED
        BY <4>2, Zenon DEF CanBeExtended
    <3>3. ASSUME NEW s \in Rank
          PROVE  HasComeTo(k[s], Local(s), queue[s], d, tr2, count2, ops2)
      <4>1. k[s] \in 1 .. n /\ HasComeTo(k[s], Local(s), queue[s], d, tr, count, ops)
        BY <1>3
      <4>2. count[k[s]] \in Nat /\ count[k[s]] <= count[n] /\ count[n] \in Nat
        BY <1>3, <4>1 DEF Trajectory
      <4>3. PICK l \in Nat : l = Len(queue[s])
        BY <1>6
      <4>4. Local(s) = tr[k[s]] /\ d + l = count[k[s]] /\ \A j \in 1 .. l : queue[s][j] = ops[d + j]
        BY <4>1, <4>3 DEF HasComeTo
      <4>5. \A j \in 1 .. l : d + j \in Nat /\ d + j <= count[n]
        BY <4>2, <4>4
      <4>6. \A j \in 1 .. l : ops2[d + j] = ops[d + j]
        BY <3>2, <4>5
      <4>7. QED
        BY <3>2, <4>1, <4>3, <4>4, <4>6 DEF HasComeTo
    <3>4. n + 1 \in Nat \ {0} /\ k[r] \in 1 .. (n + 1) - 1 /\ \A s \in Rank : k[s] \in 1 .. n + 1
      BY <1>3, <2>1
    <3>5. QED
      BY <3>2, <3>3, <3>4
  <2>2. CASE k[r] # n
    <3>1. k[r] \in 1 .. n - 1
      BY <1>3, <2>2
    <3>2. QED
      BY <1>3, <3>1
  <2>3. QED
    BY <2>1, <2>2
<1>8a. PICK m \in Nat \ {0} : \E tr2, count2, ops2 :
        /\ Trajectory(conf, m, tr2, count2, ops2)
        /\ k[r] \in 1 .. m - 1
        /\ \A s \in Rank : /\ k[s] \in 1 .. m
                           /\ HasComeTo(k[s], Local(s), queue[s], d, tr2, count2, ops2)
  BY <1>7
<1>8. PICK tr2, count2, ops2 :
        /\ Trajectory(conf, m, tr2, count2, ops2)
        /\ k[r] \in 1 .. m - 1
        /\ \A s \in Rank : /\ k[s] \in 1 .. m
                           /\ HasComeTo(k[s], Local(s), queue[s], d, tr2, count2, ops2)
  BY <1>8a
<1> DEFINE k2 == [s \in Rank |-> IF s = r THEN k[r] + 1 ELSE k[s]]
<1>9. /\ conf' = conf
      /\ Local(r)' = NextLocal(conf, Local(r)) /\ queue'[r] = queue[r] \o Issues(conf, Local(r))
      /\ \A s \in Rank : s # r => Local(s)' = Local(s) /\ queue'[s] = queue[s]
  BY <1>4, LocalStep
<1>10. HasComeTo(k[r] + 1, NextLocal(conf, Local(r)), queue[r] \o Issues(conf, Local(r)), d,
                 tr2, count2, ops2)
  BY <1>6, <1>8, AlongTrajectory
<1>11. k2[r] = k[r] + 1 /\ \A s \in Rank : s # r => k2[s] = k[s]
  OBVIOUS
<1> HIDE DEF k2
<1>12. ASSUME NEW s \in Rank
       PROVE  k2[s] \in 1 .. m /\ HasComeTo(k2[s], Local(s)', queue'[s], d, tr2, count2, ops2)
  <2>1. CASE s = r
    <3>1. k[r] + 1 \in 1 .. m
      BY <1>8
    <3>2. QED
      BY <1>9, <1>10, <1>11, <2>1, <3>1
  <2>2. CASE s # r
    BY <1>8, <1>9, <1>11, <2>2
  <2>3. QED
    BY <2>1, <2>2
<1>13. AllOn(m, d, tr2, count2, ops2, k2)'
  BY <1>8, <1>9, <1>12 DEF AllOn
<1>14. QED
  BY <1>13 DEF MatchInv

(* A collective that completes was the next on the trajectory. *)
LEMMA TransferMatch ==
  ASSUME TypeInv, MatchInv, Transfer
  PROVE  MatchInv'
<1>1. PICK n \in Nat \ {0}, d \in Nat : \E tr, count, ops, k : AllOn(n, d, tr, count, ops, k)
  BY DEF MatchInv
<1>2. PICK tr, count, ops, k : AllOn(n, d, tr, count, ops, k)
  BY <1>1
<1>3. /\ Trajectory(conf, n, tr, count, ops)
      /\ \A s \in Rank : k[s] \in 1 .. n /\ HasComeTo(k[s], Local(s), queue[s], d, tr, count, ops)
  BY <1>2 DEF AllOn
<1>4. /\ conf' = conf /\ \A s \in Rank : queue'[s] = Tail(queue[s]) /\ queue[s] # <<>>
  BY DEF Transfer
<1>5. ASSUME NEW s \in Rank PROVE Local(s)' = Local(s)
  BY DEF Transfer, Local
<1>6. ASSUME NEW s \in Rank
      PROVE  HasComeTo(k[s], Local(s), Tail(queue[s]), d + 1, tr, count, ops)
  <2> DEFINE S == Ops(conf)
  <2>1. PICK q \in Seq(S) : q = queue[s]
    BY DEF TypeInv
  <2> HIDE DEF S
  <2>2. q # <<>>
    BY <1>4, <2>1
  <2>3. Len(q) \in Nat /\ Len(Tail(q)) = Len(q) - 1 /\ \A j \in 1 .. Len(q) - 1 : Tail(q)[j] = q[j + 1]
    BY <2>2
  <2>4. PICK l \in Nat : l = Len(q) - 1 /\ Len(q) = l + 1
    <3>1. Len(q) # 0
      BY <2>2
    <3>2. Len(q) - 1 \in Nat /\ Len(q) = (Len(q) - 1) + 1
      BY <2>3, <3>1
    <3>3. QED
      BY <3>2
  <2>5. Local(s) = tr[k[s]] /\ d + Len(q) = count[k[s]] /\ \A j \in 1 .. Len(q) : q[j] = ops[d + j]
    BY <1>3, <2>1 DEF HasComeTo
  <2>6. (d + 1) + l = count[k[s]]
    <3>1. d + (l + 1) = (d + 1) + l
      OBVIOUS
    <3>2. QED
      BY <2>4, <2>5, <3>1
  <2>7. ASSUME NEW j \in 1 .. l PROVE Tail(q)[j] = ops[(d + 1) + j]
    <3>1. j + 1 \in 1 .. l + 1 /\ d + (j + 1) = (d + 1) + j
      OBVIOUS
    <3>2. Tail(q)[j] = q[j + 1] /\ q[j + 1] = ops[d + (j + 1)]
      BY <2>3, <2>4, <2>5, <3>1
    <3>3. QED
      BY <3>1, <3>2
  <2>8. Len(Tail(q)) = l
    BY <2>3, <2>4
  <2>9. QED
    BY <2>1, <2>5, <2>6, <2>7, <2>8 DEF HasComeTo
<1>7. ASSUME NEW s \in Rank
      PROVE  k[s] \in 1 .. n /\ HasComeTo(k[s], Local(s)', queue'[s], d + 1, tr, count, ops)
  BY <1>3, <1>4, <1>5, <1>6
<1>8. AllOn(n, d + 1, tr, count, ops, k)'
  BY <1>3, <1>4, <1>7 DEF AllOn
<1>9. QED
  BY <1>8 DEF MatchInv

(* The all-reduce of found_inf waits for all ranks: they are at the end of the trajectory *)
(* and a new one begins.                                                                  *)
LEMMA ReduceFoundInfMatch ==
  ASSUME TypeInv, MatchInv, ReduceFoundInf
  PROVE  MatchInv'
<1>1. PICK n \in Nat \ {0}, d \in Nat : \E tr, count, ops, k : AllOn(n, d, tr, count, ops, k)
  BY DEF MatchInv
<1>2. PICK tr, count, ops, k : AllOn(n, d, tr, count, ops, k)
  BY <1>1
<1>3. /\ Trajectory(conf, n, tr, count, ops)
      /\ \A s \in Rank : k[s] \in 1 .. n /\ HasComeTo(k[s], Local(s), queue[s], d, tr, count, ops)
  BY <1>2 DEF AllOn
<1>4. \A s \in Rank : pc[s] = "found_inf"
  BY ReduceFoundInfEffect
<1>5. PICK label \in {"step", "skip"} : pc' = [s \in Rank |-> label]
  BY ReduceFoundInfEffect
<1>6. UNCHANGED <<conf, at, iter, queue, handles, hooked, update_successful, ready>>
  BY ReduceFoundInfEffect
<1>7. ASSUME NEW s \in Rank PROVE k[s] = n
  <2>1. k[s] \in 1 .. n /\ Local(s) = tr[k[s]]
    BY <1>3 DEF HasComeTo
  <2>2. tr[k[s]].pc = "found_inf"
    BY <1>4, <2>1, LocalFacts
  <2>3. ~(k[s] \in 1 .. n - 1)
    BY <1>3, <2>2 DEF Trajectory
  <2>4. QED
    BY <2>1, <2>3
<1> DEFINE b == [pc |-> label, at |-> tr[n].at, iter |-> tr[n].iter, handles |-> tr[n].handles,
                 hooked |-> tr[n].hooked, us |-> tr[n].us, ready |-> tr[n].ready]
           tr2 == [i \in 1 .. 1 |-> b]
           count2 == [i \in 1 .. 1 |-> count[n]]
           k2 == [s \in Rank |-> 1]
<1>8. ASSUME NEW s \in Rank PROVE Local(s)' = b
  <2>1. Local(s) = tr[n]
    BY <1>3, <1>7 DEF HasComeTo
  <2>2. /\ pc'[s] = label /\ at'[s] = tr[n].at /\ iter'[s] = tr[n].iter
        /\ handles'[s] = tr[n].handles /\ hooked'[s] = tr[n].hooked
        /\ update_successful'[s] = tr[n].us /\ ready'[s] = tr[n].ready
    BY <1>5, <1>6, <2>1, LocalFacts
  <2>3. QED
    BY <2>2 DEF Local
<1>9. tr2[1] = b /\ count2[1] = count[n] /\ \A s \in Rank : k2[s] = 1
  OBVIOUS
<1> HIDE DEF b, tr2, count2, k2
<1>10. count[n] \in Nat
  BY <1>3 DEF Trajectory
<1>11. Trajectory(conf, 1, tr2, count2, ops)
  BY <1>9, <1>10 DEF Trajectory
<1>12. ASSUME NEW s \in Rank PROVE HasComeTo(1, Local(s)', queue'[s], d, tr2, count2, ops)
  <2>1. HasComeTo(n, Local(s), queue[s], d, tr, count, ops)
    BY <1>3, <1>7
  <2>2. QED
    BY <1>6, <1>8, <1>9, <2>1 DEF HasComeTo
<1>13. AllOn(1, d, tr2, count2, ops, k2)'
  BY <1>6, <1>9, <1>11, <1>12 DEF AllOn
<1>14. QED
  BY <1>13 DEF MatchInv

(* Every step keeps the ranks on one trajectory. *)
LEMMA NextMatch == TypeInv /\ MatchInv /\ [Next]_vars => MatchInv'
<1> SUFFICES ASSUME TypeInv, MatchInv, [Next]_vars PROVE MatchInv'
  OBVIOUS
<1>1. CASE Transfer
  BY <1>1, TransferMatch
<1>2. CASE ReduceFoundInf
  BY <1>2, ReduceFoundInfMatch
<1>3. ASSUME NEW r \in Rank, RankStep(r) PROVE MatchInv'
  BY <1>3, RankStepMatch
<1>4. CASE UNCHANGED vars
  BY <1>4 DEF vars, MatchInv, AllOn, Local
<1>5. QED
  BY <1>1, <1>2, <1>3, <1>4 DEF Next, AllDone

(* Ranks on one trajectory have issued the same collectives in the same order. *)
LEMMA MatchInvImplies == TypeInv /\ MatchInv => CollectivesMatch
<1> SUFFICES ASSUME TypeInv, MatchInv PROVE CollectivesMatch
  OBVIOUS
<1>1. PICK n \in Nat \ {0}, d \in Nat : \E tr, count, ops, k : AllOn(n, d, tr, count, ops, k)
  BY DEF MatchInv
<1>2. PICK tr, count, ops, k : AllOn(n, d, tr, count, ops, k)
  BY <1>1
<1>3. ASSUME NEW r \in Rank PROVE \A i \in DOMAIN queue[r] : queue[r][i] = ops[d + i]
  <2>1. queue[r] \in Seq(Ops(conf))
    BY DEF TypeInv
  <2>2. DOMAIN queue[r] = 1 .. Len(queue[r])
    BY <2>1
  <2>3. QED
    BY <1>2, <2>2 DEF AllOn, HasComeTo
<1>4. \A r, s \in Rank : \A i \in DOMAIN queue[r] \cap DOMAIN queue[s] : queue[r][i] = queue[s][i]
  BY <1>3
<1>5. QED
  BY <1>4, TypeInvImpliesTypeOK DEF CollectivesMatch

(* Every rank of the data-parallel group issues the same collectives in the same order,  *)
(* however the ranks are interleaved: each decides by itself, in zero_grad, the forward  *)
(* pre-hooks, the gradient hooks and the step, what to issue next.                        *)
THEOREM CollectivesMatchThm == Spec => []CollectivesMatch
<1>1. Init => TypeInv /\ MatchInv
  BY InitTypes, InitMatch
<1>2. TypeInv /\ MatchInv /\ [Next]_vars => (TypeInv /\ MatchInv)'
  BY NextTypes, NextMatch
<1>3. TypeInv /\ MatchInv => CollectivesMatch
  BY MatchInvImplies
<1>4. QED
  BY <1>1, <1>2, <1>3, PTL DEF Spec

-----------------------------------------------------------------------------
(* Up to date parameters: the invariant. *)

\* The all-gathers of a sequence of collectives.
Gathers(cf, q) == {h \in Handles(cf) : \E i \in DOMAIN q : q[i] = Gather(h)}

\* All forward passes before a position have come to handles up to w.
Passed(cf, position, w) ==
  \A j \in DOMAIN cf.schedule : \A l \in Calls(cf, j) :
    Before(j, l, position.item, position.k) => HandleAt(cf, j, l) <= w

\* During the forward passes, up to date are the buckets of the handles got, queued the
\* gathers q. The handles up to w have been waited for; that of w + 1 is the only one left.
Window(cf, hs, position, q, got, w) ==
  /\ hs = {w + 1} \cap Handles(cf)
  /\ q \subseteq hs
  /\ 1 .. w \subseteq got
  /\ hs \subseteq got \cup q
  /\ Passed(cf, position, w)

InForward(cf, hs, position, q, got) ==
  \E w \in 0 .. Len(ViewItems(cf)) : Window(cf, hs, position, q, got, w)

\* Every bucket is up to date and nothing is left to wait for; or every bucket will be
\* once the queue is empty.
Synced(cf, hs, q, got) == Handles(cf) \subseteq got /\ q = {} /\ hs = {}
Due(cf, hs, q, got) == Handles(cf) \subseteq got \cup q /\ hs = {}

\* What a rank in state a has queued and got, phase by phase.
Gathering(cf, a, q, got) ==
  /\ a.hooked <=> cf.overlap /\ a.pc \notin {"evaluate", "trained", "done"}
  /\ a.pc = "zero_grad" =>
       /\ q = {} /\ a.handles = {}
       /\ (cf.overlap /\ a.us) \/ Handles(cf) \subseteq got
  /\ a.pc \in {"run", "wgrad"} =>
       IF cf.overlap /\ a.us THEN InForward(cf, a.handles, a.at, q, got)
       ELSE Synced(cf, a.handles, q, got)
  /\ a.pc \in {"finish", "found_inf", "skip"} => Synced(cf, a.handles, q, got)
  /\ a.pc = "step" => q = {} /\ a.handles = {}
  /\ a.pc = "stepped" =>
       IF ~a.us THEN Synced(cf, a.handles, q, got)
       ELSE IF cf.overlap THEN q = {} /\ a.handles = {} ELSE Due(cf, a.handles, q, got)
  /\ a.pc \in {"evaluate", "trained"} => Due(cf, a.handles, q, got)
  /\ a.pc = "save" =>
       /\ q = {} /\ a.handles = {}
       /\ (cf.overlap /\ a.us /\ a.iter \notin cf.evals) \/ Handles(cf) \subseteq got

\* The number of updates once the step in progress is done, and the buckets of which the
\* rank has that version from every owner.
Target(r) == IF pc[r] = "step" THEN updates[r] + 1 ELSE updates[r]
Got(r) == {h \in Handles(conf) : \A s \in Rank : pbuf[r][h, s] = Target(r)}

ReadsInv ==
  /\ \A r, s \in Rank : Target(r) = Target(s)
  /\ \A r \in Rank :
       /\ \A h \in Handles(conf) : pbuf[r][h, r] = updates[r]
       /\ seen[r] \subseteq {updates[r]}
       /\ Gathering(conf, Local(r), Gathers(conf, queue[r]), Got(r))

-----------------------------------------------------------------------------
(* What a step of a rank dispatches. *)

(* The fields of the next local state. *)
LEMMA NextLocalFacts ==
  ASSUME NEW cf, NEW a
  PROVE  /\ NextLocal(cf, a).pc = NextPc(cf, a) /\ NextLocal(cf, a).at = NextAt(cf, a)
         /\ NextLocal(cf, a).iter = NextIter(cf, a) /\ NextLocal(cf, a).us = NextUs(cf, a)
         /\ NextLocal(cf, a).handles = NextHandles(cf, a)
         /\ NextLocal(cf, a).hooked = NextHooked(cf, a)
BY DEF NextLocal

(* The gathers in a concatenation. *)
LEMMA GathersConcat ==
  ASSUME NEW cf, NEW S, NEW q1 \in Seq(S), NEW q2 \in Seq(S)
  PROVE  Gathers(cf, q1 \o q2) = Gathers(cf, q1) \cup Gathers(cf, q2)
<1>1. PICK m \in Nat, n \in Nat : m = Len(q1) /\ n = Len(q2)
  OBVIOUS
<1>2. /\ DOMAIN q1 = 1 .. m /\ DOMAIN q2 = 1 .. n /\ DOMAIN (q1 \o q2) = 1 .. m + n
      /\ \A i \in 1 .. m : (q1 \o q2)[i] = q1[i]
      /\ \A i \in 1 .. n : (q1 \o q2)[m + i] = q2[i]
  BY <1>1
<1>3. ASSUME NEW i \in 1 .. m + n, i \notin 1 .. m PROVE i - m \in 1 .. n /\ m + (i - m) = i
  BY <1>3
<1>4. \A i \in 1 .. m : i \in 1 .. m + n
  OBVIOUS
<1>5. \A i \in 1 .. n : m + i \in 1 .. m + n
  OBVIOUS
<1>6. ASSUME NEW h, \E i \in DOMAIN (q1 \o q2) : (q1 \o q2)[i] = Gather(h)
      PROVE  (\E i \in DOMAIN q1 : q1[i] = Gather(h)) \/ (\E i \in DOMAIN q2 : q2[i] = Gather(h))
  <2>1. PICK i \in 1 .. m + n : (q1 \o q2)[i] = Gather(h)
    BY <1>2, <1>6
  <2>2. CASE i \in 1 .. m
    BY <1>2, <2>1, <2>2
  <2>3. CASE i \notin 1 .. m
    <3>1. i - m \in 1 .. n /\ m + (i - m) = i
      BY <1>3, <2>3
    <3>2. q2[i - m] = Gather(h)
      BY <1>2, <2>1, <3>1
    <3>3. QED
      BY <1>2, <3>1, <3>2
  <2>4. QED
    BY <2>2, <2>3
<1>7. ASSUME NEW h, (\E i \in DOMAIN q1 : q1[i] = Gather(h)) \/ (\E i \in DOMAIN q2 : q2[i] = Gather(h))
      PROVE  \E i \in DOMAIN (q1 \o q2) : (q1 \o q2)[i] = Gather(h)
  <2>1. CASE \E i \in DOMAIN q1 : q1[i] = Gather(h)
    BY <1>2, <1>4, <2>1
  <2>2. CASE \E i \in DOMAIN q2 : q2[i] = Gather(h)
    BY <1>2, <1>5, <2>2
  <2>3. QED
    BY <1>7, <2>1, <2>2
<1>8. QED
  BY <1>6, <1>7 DEF Gathers

\* The all-gathers among the collectives that a step issues.
IssuedGathers(cf, a) ==
  IF Dispatches(cf, a) # 0 THEN {Dispatches(cf, a)}
  ELSE IF (a.pc = "step" /\ ~cf.overlap) \/ (RemovesHook(cf, a) /\ a.us) THEN Handles(cf)
  ELSE {}

(* A dispatched gather is one of a handle. *)
LEMMA DispatchesFacts ==
  ASSUME NEW cf \in Configurations, NEW a
  PROVE  Dispatches(cf, a) # 0 => Dispatches(cf, a) \in Handles(cf)
BY HandleFacts DEF Dispatches

(* They are. *)
LEMMA GathersIssued ==
  ASSUME NEW cf \in Configurations, NEW a
  PROVE  Gathers(cf, Issues(cf, a)) = IssuedGathers(cf, a)
<1>1. \A b, h : Scatter(b) # Gather(h)
  BY DEF Scatter, Gather
<1>2. \A h, g : Gather(h) = Gather(g) => h = g
  BY DEF Gather
<1>3. \A b : Gathers(cf, <<Scatter(b)>>) = {}
  BY <1>1 DEF Gathers
<1>4. \A h \in Handles(cf) : Gathers(cf, <<Gather(h)>>) = {h}
  BY <1>2 DEF Gathers
<1>5. Gathers(cf, <<>>) = {}
  BY DEF Gathers
<1>6. Gathers(cf, AllScatters(cf)) = {}
  <2>1. DOMAIN AllScatters(cf) = DOMAIN AllBuckets(cf)
    BY DEF AllScatters
  <2>2. \A i \in DOMAIN AllScatters(cf) : AllScatters(cf)[i] = Scatter(AllBuckets(cf)[i])
    BY DEF AllScatters
  <2>3. QED
    BY <1>1, <2>2 DEF Gathers
<1>7. Gathers(cf, AllGathers(cf)) = Handles(cf)
  <2>1. DOMAIN AllGathers(cf) = Handles(cf) /\ \A h \in Handles(cf) : AllGathers(cf)[h] = Gather(h)
    BY DEF AllGathers
  <2>2. QED
    BY <2>1 DEF Gathers
<1>8. CASE Dispatches(cf, a) # 0
  <2>1. Dispatches(cf, a) \in Handles(cf)
    BY <1>8, DispatchesFacts
  <2>2. Issues(cf, a) = <<Gather(Dispatches(cf, a))>> /\ IssuedGathers(cf, a) = {Dispatches(cf, a)}
    BY <1>8 DEF Issues, IssuedGathers
  <2>3. QED
    BY <1>4, <2>1, <2>2
<1>9. CASE Dispatches(cf, a) = 0
  <2>1. CASE a.pc = "wgrad" /\ StartsScatter(cf, a)
    <3>1. Issues(cf, a) = <<Scatter(<<ItemOf(cf, a).chunk, WgradBucket(cf, a)>>)>>
      BY <1>9, <2>1 DEF Issues
    <3>2. IssuedGathers(cf, a) = {}
      BY <1>9, <2>1 DEF IssuedGathers, RemovesHook
    <3>3. QED
      BY <1>3, <3>1, <3>2
  <2>2. CASE ~(a.pc = "wgrad" /\ StartsScatter(cf, a)) /\ a.pc = "finish" /\ ~cf.overlapGrad
    <3>1. Issues(cf, a) = AllScatters(cf)
      BY <1>9, <2>2 DEF Issues
    <3>2. IssuedGathers(cf, a) = {}
      BY <1>9, <2>2 DEF IssuedGathers, RemovesHook
    <3>3. QED
      BY <1>6, <3>1, <3>2
  <2>3. CASE ~(a.pc = "wgrad" /\ StartsScatter(cf, a)) /\ ~(a.pc = "finish" /\ ~cf.overlapGrad)
    <3>1. Issues(cf, a) = IF (a.pc = "step" /\ ~cf.overlap) \/ (RemovesHook(cf, a) /\ a.us)
                          THEN AllGathers(cf) ELSE <<>>
      BY <1>9, <2>3 DEF Issues
    <3>2. IssuedGathers(cf, a) = IF (a.pc = "step" /\ ~cf.overlap) \/ (RemovesHook(cf, a) /\ a.us)
                                 THEN Handles(cf) ELSE {}
      BY <1>9 DEF IssuedGathers
    <3>3. QED
      BY <1>5, <1>7, <3>1, <3>2
  <2>4. QED
    BY <2>1, <2>2, <2>3
<1>10. QED
  BY <1>8, <1>9, DispatchesFacts

-----------------------------------------------------------------------------
(* The forward passes. *)

(* A step that advances leaves behind what was before it and the call it was at. *)
LEMMA PassedNext ==
  ASSUME NEW cf \in Configurations, NEW a, LocalOK(cf, a), a.pc \in {"run", "wgrad"},
         Advances(cf, a), NEW w, NEW v,
         Passed(cf, a.at, w), \A x \in Nat : x <= w => x <= v,
         a.at.k \in Calls(cf, a.at.item) => HandleAt(cf, a.at.item, a.at.k) <= v
  PROVE  /\ Passed(cf, NextAt(cf, a), v)
         /\ NextPc(cf, a) = "finish" =>
              \A j \in DOMAIN cf.schedule : \A l \in Calls(cf, j) : HandleAt(cf, j, l) <= v
<1>1. PositionOK(cf, a.pc, a.at)
  BY DEF LocalOK
<1>2. PICK i \in 1 .. Len(cf.schedule) : i = a.at.item
  BY <1>1 DEF PositionOK
<1>3. PICK k \in 1 .. Steps(cf, i) : k = a.at.k
  BY <1>1, <1>2 DEF PositionOK
<1>4. PICK n \in Nat \ {0} : n = Len(cf.schedule) /\ DOMAIN cf.schedule = 1 .. n
  BY ConfFacts
<1>5. PICK m \in Nat \ {0} : m = Steps(cf, i)
  BY StepsFacts
<1>6. ASSUME NEW j \in 1 .. n, NEW l \in Calls(cf, j)
      PROVE  /\ l \in Nat \ {0} /\ (j = i => l <= m)
             /\ HandleAt(cf, j, l) \in Nat
  <2>1. cf.schedule[j].kind = "F" /\ l \in DOMAIN cf.forward[cf.schedule[j].chunk]
    BY <1>6 DEF Calls
  <2>2. PICK c \in Chunks(cf) : c = cf.schedule[j].chunk
    BY <1>4, ItemFacts
  <2>3. PICK f : f = cf.forward[c] /\ f \in Seq(Params(cf.buffers[c]))
    BY ConfFacts
  <2>4. l \in 1 .. Len(f) /\ Len(f) \in Nat
    BY <2>1, <2>2, <2>3
  <2>5. f[l] \in Params(cf.buffers[c])
    BY <2>3, <2>4
  <2>6. HandleAt(cf, j, l) \in Handles(cf)
    BY <2>2, <2>3, <2>5, HandleFacts DEF HandleAt
  <2>7. j = i => Len(f) = m
    BY <1>5, <2>1, <2>2, <2>3 DEF Steps
  <2>8. HandleAt(cf, j, l) \in Nat
    BY <2>6, HandleFacts
  <2>9. QED
    BY <2>4, <2>7, <2>8
<1>7. ASSUME NEW j \in 1 .. n, NEW l \in Calls(cf, j),
             j < i \/ (j = i /\ l <= k)
      PROVE  HandleAt(cf, j, l) <= v
  <2>1. CASE j = i /\ l = k
    BY <1>2, <1>3, <2>1
  <2>2. CASE ~(j = i /\ l = k)
    <3>1. Before(j, l, i, k)
      BY <1>6, <1>7, <2>2 DEF Before
    <3>2. HandleAt(cf, j, l) <= w
      BY <1>2, <1>3, <1>4, <3>1 DEF Passed
    <3>3. QED
      BY <1>6, <3>2
  <2>3. QED
    BY <2>1, <2>2
<1>8. a.pc # "zero_grad"
  OBVIOUS
<1>9. CASE k < m
  <2>1. NextAt(cf, a) = [item |-> i, k |-> k + 1]
    BY <1>2, <1>3, <1>5, <1>8, <1>9 DEF NextAt
  <2>2. NextPc(cf, a) = "run" \/ NextPc(cf, a) = "wgrad"
    BY <1>2, <1>3, <1>5, <1>9 DEF NextPc
  <2>3. ASSUME NEW j \in 1 .. n, NEW l \in Calls(cf, j), Before(j, l, i, k + 1)
        PROVE  HandleAt(cf, j, l) <= v
    <3>1. j < i \/ (j = i /\ l <= k)
      BY <1>6, <2>3 DEF Before
    <3>2. QED
      BY <1>7, <3>1
  <2>4. QED
    BY <1>4, <2>1, <2>2, <2>3 DEF Passed
<1>10. CASE ~(k < m)
  <2>1. NextAt(cf, a) = [item |-> i + 1, k |-> 1]
    BY <1>2, <1>3, <1>5, <1>8, <1>10 DEF NextAt
  <2>2. ASSUME NEW j \in 1 .. n, NEW l \in Calls(cf, j), j < i + 1
        PROVE  HandleAt(cf, j, l) <= v
    <3>1. j < i \/ (j = i /\ l <= k)
      BY <1>3, <1>5, <1>6, <1>10, <2>2
    <3>2. QED
      BY <1>7, <3>1
  <2>3. ASSUME NEW j \in 1 .. n, NEW l \in Calls(cf, j), Before(j, l, i + 1, 1)
        PROVE  HandleAt(cf, j, l) <= v
    <3>1. j < i + 1
      BY <1>6, <2>3 DEF Before
    <3>2. QED
      BY <2>2, <3>1
  <2>4. ASSUME NextPc(cf, a) = "finish", NEW j \in 1 .. n, NEW l \in Calls(cf, j)
        PROVE  HandleAt(cf, j, l) <= v
    <3>1. ~(i < n)
      BY <1>2, <1>4, <2>4 DEF NextPc
    <3>2. j < i + 1
      BY <1>4, <3>1
    <3>3. QED
      BY <2>2, <3>2
  <2>5. Passed(cf, NextAt(cf, a), v)
    BY <1>4, <2>1, <2>3 DEF Passed
  <2>6. QED
    BY <1>4, <2>4, <2>5
<1>11. QED
  BY <1>9, <1>10

(* A step of the forward and backward passes keeps the window, which moves on with the   *)
(* handle that is waited for; at the end of the schedule nothing is left of it.           *)
LEMMA WindowStep ==
  ASSUME NEW cf \in Configurations, NEW a, LocalOK(cf, a), a.pc \in {"run", "wgrad"},
         GathersFollowForward(cf), cf.overlap, a.us, a.hooked,
         NEW q, NEW got \in SUBSET Handles(cf),
         InForward(cf, a.handles, a.at, q, got),
         Waits(cf, a) /\ StepHandle(cf, a) \in a.handles => StepHandle(cf, a) \notin q
  PROVE  LET hs == NextHandles(cf, a)
             now == q \cup IssuedGathers(cf, a)
         IN  /\ NextPc(cf, a) \in {"run", "wgrad"} => InForward(cf, hs, NextAt(cf, a), now, got)
             /\ NextPc(cf, a) = "finish" => Synced(cf, hs, now, got)
<1> DEFINE N == Len(ViewItems(cf))
           h == StepHandle(cf, a)
           hs == NextHandles(cf, a)
           now == q \cup IssuedGathers(cf, a)
<1>1. N \in Nat /\ Handles(cf) = 1 .. N
  BY HandleFacts
<1>2. PICK w \in 0 .. N : Window(cf, a.handles, a.at, q, got, w)
  BY DEF InForward
<1>3. /\ a.handles = {w + 1} \cap Handles(cf) /\ q \subseteq a.handles /\ 1 .. w \subseteq got
      /\ a.handles \subseteq got \cup q /\ Passed(cf, a.at, w)
  BY <1>2 DEF Window
<1>4. ~RemovesHook(cf, a) /\ a.pc \notin {"zero_grad", "step", "skip"}
  BY DEF RemovesHook
<1>5. Waits(cf, a) => h \in Handles(cf)
  BY StepHandleFacts
<1>6. a.at.item \in DOMAIN cf.schedule /\ a.at.k \in Nat \ {0}
  BY ConfFacts DEF LocalOK, PositionOK
<1>7. ASSUME a.at.k \in Calls(cf, a.at.item)
      PROVE  /\ h = HandleAt(cf, a.at.item, a.at.k)
             /\ Advances(cf, a) => Waits(cf, a)
  <2>1. ItemOf(cf, a).kind = "F"
    BY <1>7 DEF Calls, ItemOf
  <2>2. ItemOf(cf, a) = cf.schedule[a.at.item]
    BY DEF ItemOf
  <2>3. h = HandleAt(cf, a.at.item, a.at.k)
    BY <2>1, <2>2 DEF StepHandle, HandleAt
  <2>4. a.pc = "run"
    <3>1. PositionOK(cf, a.pc, a.at)
      BY DEF LocalOK
    <3>2. QED
      BY <2>1, <2>2, <3>1 DEF PositionOK
  <2>5. Waits(cf, a)
    BY <2>1, <2>4 DEF Waits
  <2>6. QED
    BY <2>3, <2>5
<1>8. CASE Waits(cf, a) /\ h \in a.handles
  <2>1. h = w + 1 /\ a.handles = {h} /\ q = {} /\ h \in got /\ h \in Handles(cf)
    BY <1>3, <1>8
  <2>2. Dispatches(cf, a) = IF h + 1 \in Handles(cf) THEN h + 1 ELSE 0
    BY <1>4, <1>8 DEF Dispatches
  <2>3. w + 1 \in 0 .. N /\ h + 1 # 0 /\ 0 \notin Handles(cf) /\ h # h + 1
    BY <1>1, <2>1
  <2>4. IssuedGathers(cf, a) = {h + 1} \cap Handles(cf)
    BY <1>4, <2>2, <2>3 DEF IssuedGathers
  <2>5. hs = {h + 1} \cap Handles(cf)
    <3>1. hs = (a.handles \ {h}) \cup DispatchedHandles(cf, a)
      BY <1>4, <1>8 DEF NextHandles, FinishedHandles
    <3>2. DispatchedHandles(cf, a) = {h + 1} \cap Handles(cf)
      BY <2>2, <2>3 DEF DispatchedHandles
    <3>3. QED
      BY <2>1, <3>1, <3>2
  <2>6. 1 .. w + 1 \subseteq got
    <3>1. \A x \in 1 .. w + 1 : x \in 1 .. w \/ x = w + 1
      BY <1>1
    <3>2. QED
      BY <1>3, <2>1, <3>1
  <2>7. Advances(cf, a)
    BY <1>8 DEF Waits, Advances
  <2>8. a.at.k \in Calls(cf, a.at.item) => HandleAt(cf, a.at.item, a.at.k) <= w + 1
    BY <1>7, <2>1, <2>3
  <2>9. \A x \in Nat : x <= w => x <= w + 1
    OBVIOUS
  <2> HIDE DEF h, hs, now
  <2>10. /\ Passed(cf, NextAt(cf, a), w + 1)
         /\ NextPc(cf, a) = "finish" =>
              \A j \in DOMAIN cf.schedule : \A l \in Calls(cf, j) : HandleAt(cf, j, l) <= w + 1
    BY <1>3, <2>7, <2>8, <2>9, PassedNext
  <2>11. now = {(w + 1) + 1} \cap Handles(cf) /\ hs = {(w + 1) + 1} \cap Handles(cf)
    BY <2>1, <2>4, <2>5 DEF now
  <2>12. Window(cf, hs, NextAt(cf, a), now, got, w + 1)
    BY <2>6, <2>10, <2>11 DEF Window
  <2>13. InForward(cf, hs, NextAt(cf, a), now, got)
    BY <2>3, <2>12 DEF InForward, N
  <2>14. ASSUME NextPc(cf, a) = "finish" PROVE Synced(cf, hs, now, got)
    <3>1. \A g \in Handles(cf) : g <= w + 1
      BY <2>10, <2>14 DEF GathersFollowForward
    <3>2. \A g \in 1 .. N : g \in 1 .. w + 1
      BY <1>1, <3>1
    <3>3. (w + 1) + 1 \notin Handles(cf)
      BY <1>1, <3>1
    <3>4. QED
      BY <1>1, <2>6, <2>11, <3>2, <3>3 DEF Synced
  <2>15. QED
    BY <2>13, <2>14 DEF hs, now
<1>9. CASE ~(Waits(cf, a) /\ h \in a.handles)
  <2>1. Dispatches(cf, a) = 0
    BY <1>4, <1>9 DEF Dispatches
  <2>2. IssuedGathers(cf, a) = {}
    BY <1>4, <2>1 DEF IssuedGathers
  <2>3. hs = a.handles
    <3>1. hs = (a.handles \ FinishedHandles(cf, a)) \cup {}
      BY <1>4, <2>1 DEF NextHandles, DispatchedHandles
    <3>2. a.handles \ FinishedHandles(cf, a) = a.handles
      BY <1>9 DEF FinishedHandles
    <3>3. QED
      BY <3>1, <3>2
  <2>4. now = q
    BY <2>2
  <2>5. ASSUME Advances(cf, a), a.at.k \in Calls(cf, a.at.item)
        PROVE  HandleAt(cf, a.at.item, a.at.k) <= w
    <3>1. h = HandleAt(cf, a.at.item, a.at.k) /\ h \in Handles(cf) /\ h \notin a.handles
      BY <1>5, <1>7, <1>9, <2>5
    <3>2. h # w + 1
      BY <1>3, <3>1
    <3>3. h = 1 \/ h - 1 <= w
      <4>1. CASE h # 1
        <5>1. PICK j \in DOMAIN cf.schedule : \E l \in Calls(cf, j) :
                Before(j, l, a.at.item, a.at.k) /\ HandleAt(cf, j, l) = h - 1
          BY <1>6, <2>5, <3>1, <4>1 DEF GathersFollowForward
        <5>2. QED
          BY <1>3, <5>1 DEF Passed
      <4>2. QED
        BY <4>1
    <3>4. PICK x \in 1 .. N : x = h
      BY <1>1, <3>1
    <3>5. x <= w
      BY <3>2, <3>3, <3>4
    <3>6. QED
      BY <3>1, <3>4, <3>5
  <2>6. \A x \in Nat : x <= w => x <= w
    OBVIOUS
  <2> HIDE DEF h, hs, now
  <2>7. CASE Advances(cf, a)
    <3>1. /\ Passed(cf, NextAt(cf, a), w)
          /\ NextPc(cf, a) = "finish" =>
               \A j \in DOMAIN cf.schedule : \A l \in Calls(cf, j) : HandleAt(cf, j, l) <= w
      BY <1>3, <2>5, <2>6, <2>7, PassedNext
    <3>2. InForward(cf, hs, NextAt(cf, a), now, got)
      BY <1>3, <2>3, <2>4, <3>1 DEF InForward, N, Window
    <3>3. ASSUME NextPc(cf, a) = "finish" PROVE Synced(cf, hs, now, got)
      <4>1. \A g \in Handles(cf) : g <= w
        BY <3>1, <3>3 DEF GathersFollowForward
      <4>2. \A g \in 1 .. N : g \in 1 .. w
        BY <1>1, <4>1
      <4>3. w + 1 \notin Handles(cf)
        BY <1>1, <4>1
      <4>4. a.handles = {} /\ q = {}
        BY <1>3, <4>3
      <4>5. QED
        BY <1>1, <1>3, <2>3, <2>4, <4>2, <4>4 DEF Synced
    <3>4. QED
      BY <3>2, <3>3 DEF hs, now
  <2>8. CASE ~Advances(cf, a)
    <3>1. NextAt(cf, a) = a.at
      BY <1>4, <2>8 DEF NextAt
    <3>2. NextPc(cf, a) = "wgrad"
      BY <2>8 DEF NextPc, Advances
    <3>3. InForward(cf, hs, NextAt(cf, a), now, got)
      BY <1>2, <2>3, <2>4, <3>1 DEF InForward, N
    <3>4. QED
      BY <3>2, <3>3 DEF hs, now
  <2>9. QED
    BY <2>7, <2>8
<1>10. QED
  BY <1>8, <1>9

-----------------------------------------------------------------------------
(* All phases of an iteration. *)

(* A step of a rank by itself keeps what is queued and got as its phase needs it. *)
LEMMA GatheringStep ==
  ASSUME NEW cf \in Configurations, NEW a, LocalOK(cf, a), a.pc \notin {"found_inf", "done"},
         GathersFollowForward(cf), NEW q, NEW got \in SUBSET Handles(cf),
         Gathering(cf, a, q, got),
         Waits(cf, a) /\ StepHandle(cf, a) \in a.handles => StepHandle(cf, a) \notin q,
         a.pc \in {"stepped", "evaluate", "trained"} => a.hooked \/ q = {},
         NEW got2 \in SUBSET Handles(cf), a.pc # "step" => got2 = got
  PROVE  Gathering(cf, NextLocal(cf, a), q \cup IssuedGathers(cf, a), got2)
<1> DEFINE b == NextLocal(cf, a)
           now == q \cup IssuedGathers(cf, a)
<1>1. /\ b.pc = NextPc(cf, a) /\ b.at = NextAt(cf, a) /\ b.iter = NextIter(cf, a)
      /\ b.us = NextUs(cf, a) /\ b.handles = NextHandles(cf, a) /\ b.hooked = NextHooked(cf, a)
  BY NextLocalFacts
<1> HIDE DEF b
<1>2. /\ a.pc \in Labels /\ a.iter \in 0 .. Iterations /\ a.handles \subseteq Handles(cf)
      /\ a.hooked \in BOOLEAN /\ a.us \in BOOLEAN /\ cf.overlap \in BOOLEAN
      /\ a.hooked => cf.overlap
  BY ConfFacts DEF LocalOK
<1>3. 1 \in Handles(cf) /\ Handles(cf) = 1 .. Len(ViewItems(cf)) /\ Len(ViewItems(cf)) \in Nat
  BY HandleFacts
<1>4. b.hooked <=> cf.overlap /\ b.pc \notin {"evaluate", "trained", "done"}
  <2>1. a.hooked <=> cf.overlap /\ a.pc \notin {"evaluate", "trained", "done"}
    BY DEF Gathering
  <2>2. b.hooked <=> (~RemovesHook(cf, a) /\ IF a.pc = "evaluate" THEN cf.overlap ELSE a.hooked)
    BY <1>1 DEF NextHooked
  <2>3. CASE a.pc \in {"stepped", "save", "evaluate", "trained"}
    <3>1. CASE a.pc = "stepped"
      <4>1. b.pc = IF a.iter + 1 \in cf.evals THEN "evaluate" ELSE "save"
        BY <1>1, <3>1 DEF NextPc, Advances
      <4>2. RemovesHook(cf, a) <=> cf.overlap /\ a.iter + 1 \in cf.evals
        BY <3>1 DEF RemovesHook
      <4>3. QED
        BY <2>1, <2>2, <3>1, <4>1, <4>2
    <3>2. CASE a.pc = "save"
      <4>1. b.pc = IF a.iter = Iterations THEN "trained" ELSE "zero_grad"
        BY <1>1, <3>2 DEF NextPc, Advances
      <4>2. RemovesHook(cf, a) <=> cf.overlap /\ a.iter = Iterations
        BY <3>2 DEF RemovesHook
      <4>3. QED
        BY <2>1, <2>2, <3>2, <4>1, <4>2
    <3>3. CASE a.pc = "evaluate"
      <4>1. b.pc = "save" /\ ~RemovesHook(cf, a)
        BY <1>1, <3>3 DEF NextPc, RemovesHook, Advances
      <4>2. QED
        BY <2>1, <2>2, <3>3, <4>1
    <3>4. CASE a.pc = "trained"
      <4>1. b.pc = "done" /\ ~RemovesHook(cf, a)
        BY <1>1, <3>4 DEF NextPc, RemovesHook, Advances
      <4>2. QED
        BY <2>1, <2>2, <3>4, <4>1
    <3>5. QED
      BY <2>3, <3>1, <3>2, <3>3, <3>4
  <2>4. CASE a.pc \notin {"stepped", "save", "evaluate", "trained"}
    <3>1. ~RemovesHook(cf, a)
      BY <2>4 DEF RemovesHook
    <3>2. b.pc \notin {"evaluate", "trained", "done"}
      BY <1>1, <1>2, <2>4 DEF NextPc, Labels, Advances
    <3>3. QED
      BY <2>1, <2>2, <2>4, <3>1, <3>2
  <2>5. QED
    BY <2>3, <2>4
<1>5. CASE a.pc = "zero_grad"
  <2>1. q = {} /\ a.handles = {} /\ ((cf.overlap /\ a.us) \/ Handles(cf) \subseteq got)
    BY <1>5 DEF Gathering
  <2>2. /\ b.pc = "run" /\ b.us = a.us /\ b.at = [item |-> 1, k |-> 1]
        /\ ~RemovesHook(cf, a) /\ ~Waits(cf, a)
    BY <1>1, <1>5 DEF NextPc, NextUs, NextAt, RemovesHook, Waits
  <2>3. CASE cf.overlap /\ a.us
    <3>1. Dispatches(cf, a) = 1
      BY <1>5, <2>3 DEF Dispatches
    <3>2. b.handles = {1} /\ now = {1}
      BY <1>1, <1>5, <2>1, <2>2, <3>1
         DEF NextHandles, DispatchedHandles, FinishedHandles, IssuedGathers
    <3>3. Passed(cf, b.at, 0)
      <4>1. \A j \in DOMAIN cf.schedule : \A l \in Calls(cf, j) : ~Before(j, l, 1, 1)
        <5>1. DOMAIN cf.schedule = 1 .. Len(cf.schedule) /\ Len(cf.schedule) \in Nat
          BY ConfFacts
        <5>2. ASSUME NEW j \in DOMAIN cf.schedule, NEW l \in Calls(cf, j) PROVE l \in Nat \ {0}
          <6>1. cf.schedule[j].kind = "F" /\ l \in DOMAIN cf.forward[cf.schedule[j].chunk]
            BY <5>2 DEF Calls
          <6>2. PICK c \in Chunks(cf) : c = cf.schedule[j].chunk
            BY <5>1, ItemFacts
          <6>3. cf.forward[c] \in Seq(Params(cf.buffers[c]))
            BY ConfFacts
          <6>4. QED
            BY <6>1, <6>2, <6>3
        <5>3. QED
          BY <5>1, <5>2 DEF Before
      <4>2. QED
        BY <2>2, <4>1 DEF Passed
    <3>4. Window(cf, b.handles, b.at, now, got, 0)
      BY <1>3, <3>2, <3>3 DEF Window
    <3>5. InForward(cf, b.handles, b.at, now, got)
      BY <1>3, <3>4 DEF InForward
    <3>6. QED
      BY <1>4, <1>5, <2>2, <2>3, <3>5 DEF Gathering, b, now
  <2>4. CASE ~(cf.overlap /\ a.us)
    <3>1. Dispatches(cf, a) = 0
      BY <1>5, <2>4 DEF Dispatches
    <3>2. b.handles = {} /\ now = {}
      BY <1>1, <1>5, <2>1, <2>2, <3>1
         DEF NextHandles, DispatchedHandles, FinishedHandles, IssuedGathers
    <3>3. Synced(cf, b.handles, now, got)
      BY <2>1, <2>4, <3>2 DEF Synced
    <3>4. QED
      BY <1>4, <1>5, <2>2, <2>4, <3>3 DEF Gathering, b, now
  <2>5. QED
    BY <2>3, <2>4
<1>6. CASE a.pc \in {"run", "wgrad"}
  <2>1. b.pc \in {"run", "wgrad", "finish"} /\ b.us = a.us /\ ~RemovesHook(cf, a)
    BY <1>1, <1>6 DEF NextPc, NextUs, RemovesHook, Advances
  <2>2. CASE cf.overlap /\ a.us
    <3>1. a.hooked /\ InForward(cf, a.handles, a.at, q, got)
      BY <1>6, <2>2 DEF Gathering
    <3>2. /\ NextPc(cf, a) \in {"run", "wgrad"} =>
               InForward(cf, NextHandles(cf, a), NextAt(cf, a), now, got)
          /\ NextPc(cf, a) = "finish" => Synced(cf, NextHandles(cf, a), now, got)
      BY <1>6, <2>2, <3>1, WindowStep
    <3>3. QED
      BY <1>1, <1>4, <1>6, <2>1, <2>2, <3>2 DEF Gathering, b, now
  <2>3. CASE ~(cf.overlap /\ a.us)
    <3>1. Handles(cf) \subseteq got /\ q = {} /\ a.handles = {}
      BY <1>6, <2>3 DEF Gathering, Synced
    <3>2. Dispatches(cf, a) = 0
      BY <1>6, <3>1 DEF Dispatches
    <3>3. b.handles = {} /\ now = {}
      BY <1>1, <1>6, <2>1, <3>1, <3>2
         DEF NextHandles, DispatchedHandles, IssuedGathers
    <3>4. Synced(cf, b.handles, now, got)
      BY <3>1, <3>3 DEF Synced
    <3>5. QED
      BY <1>4, <1>6, <2>1, <2>3, <3>4 DEF Gathering, b, now
  <2>4. QED
    BY <2>2, <2>3
<1>7. CASE a.pc \in {"finish", "step", "skip", "stepped", "evaluate", "save", "trained"}
  <2>1. Dispatches(cf, a) = 0 /\ ~Waits(cf, a)
    BY <1>7 DEF Dispatches, Waits
  <2>2. /\ b.handles = IF a.pc \in {"step", "skip"} \/ RemovesHook(cf, a) THEN {} ELSE a.handles
        /\ IssuedGathers(cf, a) = IF (a.pc = "step" /\ ~cf.overlap) \/ (RemovesHook(cf, a) /\ a.us)
                                  THEN Handles(cf) ELSE {}
    <3>1. (a.handles \ {}) \cup {} = a.handles
      OBVIOUS
    <3>2. FinishedHandles(cf, a) = {} /\ DispatchedHandles(cf, a) = {}
      BY <2>1 DEF FinishedHandles, DispatchedHandles
    <3>3. b.handles = IF a.pc \in {"step", "skip"} \/ RemovesHook(cf, a) THEN {}
                      ELSE (a.handles \ {}) \cup {}
      BY <1>1, <3>2 DEF NextHandles
    <3>4. QED
      BY <2>1, <3>1, <3>3 DEF IssuedGathers
  <2>3. b.us = (IF a.pc \in {"step", "skip"} THEN a.pc = "step" ELSE a.us)
    BY <1>1 DEF NextUs
  <2>4. CASE a.pc = "finish"
    <3>1. b.pc = "found_inf" /\ b.us = a.us /\ ~RemovesHook(cf, a)
      BY <1>1, <2>3, <2>4 DEF NextPc, RemovesHook, Advances
    <3>2. Synced(cf, b.handles, now, got)
      BY <2>2, <2>4, <3>1 DEF Gathering, Synced
    <3>3. QED
      BY <1>4, <2>4, <3>1, <3>2 DEF Gathering, b, now
  <2>5. CASE a.pc = "step"
    <3>1. b.pc = "stepped" /\ b.us /\ ~RemovesHook(cf, a)
      BY <1>1, <2>3, <2>5 DEF NextPc, RemovesHook, Advances
    <3>2. q = {} /\ b.handles = {} /\ IssuedGathers(cf, a) = IF cf.overlap THEN {} ELSE Handles(cf)
      BY <2>2, <2>5, <3>1 DEF Gathering
    <3>3. ~cf.overlap => Due(cf, b.handles, now, got2)
      BY <3>2 DEF Due
    <3>4. cf.overlap => now = {}
      BY <3>2
    <3>5. QED
      BY <1>4, <3>1, <3>2, <3>3, <3>4 DEF Gathering, b, now
  <2>6. CASE a.pc = "skip"
    <3>1. b.pc = "stepped" /\ ~b.us /\ ~RemovesHook(cf, a)
      BY <1>1, <2>3, <2>6 DEF NextPc, RemovesHook, Advances
    <3>2. Synced(cf, b.handles, now, got)
      BY <2>2, <2>6, <3>1 DEF Gathering, Synced
    <3>3. QED
      BY <1>4, <2>6, <3>1, <3>2 DEF Gathering, b, now
  <2>7. CASE a.pc = "stepped"
    <3>1. /\ b.us = a.us /\ b.iter = a.iter + 1
          /\ b.pc = IF a.iter + 1 \in cf.evals THEN "evaluate" ELSE "save"
          /\ RemovesHook(cf, a) <=> cf.overlap /\ a.iter + 1 \in cf.evals
      BY <1>1, <2>3, <2>7 DEF NextPc, NextIter, RemovesHook, Advances
    <3>2. a.handles = {} /\ b.handles = {}
      BY <2>2, <2>7 DEF Gathering, Synced, Due
    <3>3. CASE cf.overlap
      <4>1. /\ q = {}
            /\ ~a.us => Handles(cf) \subseteq got
        BY <2>7, <3>3 DEF Gathering, Synced
      <4>2. CASE a.iter + 1 \in cf.evals
        <5>1. IssuedGathers(cf, a) = IF a.us THEN Handles(cf) ELSE {}
          BY <2>2, <2>7, <3>1, <3>3, <4>2
        <5>2. Due(cf, b.handles, now, got)
          BY <3>2, <4>1, <5>1 DEF Due
        <5>3. QED
          BY <1>4, <2>7, <3>1, <4>2, <5>2 DEF Gathering, b, now
      <4>3. CASE a.iter + 1 \notin cf.evals
        <5>1. now = {}
          BY <2>2, <2>7, <3>1, <4>1, <4>3
        <5>2. QED
          BY <1>2, <1>4, <2>7, <3>1, <3>2, <3>3, <4>1, <4>3, <5>1 DEF Gathering, b, now
      <4>4. QED
        BY <4>2, <4>3
    <3>4. CASE ~cf.overlap
      <4>1. q = {} /\ Handles(cf) \subseteq got
        BY <1>2, <2>7, <3>4 DEF Gathering, Due, Synced
      <4>2. now = {}
        BY <2>2, <2>7, <3>1, <3>4, <4>1
      <4>3. Due(cf, b.handles, now, got)
        BY <3>2, <4>1 DEF Due
      <4>4. QED
        BY <1>4, <2>7, <3>1, <3>2, <4>1, <4>2, <4>3 DEF Gathering, b, now
    <3>5. QED
      BY <3>3, <3>4
  <2>8. CASE a.pc = "evaluate"
    <3>1. b.us = a.us /\ b.pc = "save" /\ ~RemovesHook(cf, a)
      BY <1>1, <2>3, <2>8 DEF NextPc, RemovesHook, Advances
    <3>2. q = {} /\ a.handles = {} /\ Handles(cf) \subseteq got
      BY <2>8 DEF Gathering, Due
    <3>3. now = {} /\ b.handles = {}
      BY <2>2, <2>8, <3>1, <3>2
    <3>4. QED
      BY <1>4, <2>8, <3>1, <3>2, <3>3 DEF Gathering, b, now
  <2>9. CASE a.pc = "save"
    <3>1. /\ b.us = a.us
          /\ b.pc = IF a.iter = Iterations THEN "trained" ELSE "zero_grad"
          /\ RemovesHook(cf, a) <=> cf.overlap /\ a.iter = Iterations
      BY <1>1, <2>3, <2>9 DEF NextPc, RemovesHook, Advances
    <3>2. /\ q = {} /\ a.handles = {}
          /\ (cf.overlap /\ a.us) \/ Handles(cf) \subseteq got
      BY <2>9 DEF Gathering
    <3>3. b.handles = {}
      BY <2>2, <3>2
    <3>4. CASE a.iter = Iterations
      <4>1. IssuedGathers(cf, a) = IF cf.overlap /\ a.us THEN Handles(cf) ELSE {}
        BY <2>2, <2>9, <3>1, <3>4
      <4>2. Due(cf, b.handles, now, got)
        BY <3>2, <3>3, <4>1 DEF Due
      <4>3. QED
        BY <1>4, <2>9, <3>1, <3>4, <4>2 DEF Gathering, b, now
    <3>5. CASE a.iter # Iterations
      <4>1. now = {}
        BY <2>2, <2>9, <3>1, <3>2, <3>5
      <4>2. QED
        BY <1>4, <2>9, <3>1, <3>2, <3>3, <3>5, <4>1 DEF Gathering, b, now
    <3>6. QED
      BY <3>4, <3>5
  <2>10. CASE a.pc = "trained"
    <3>1. b.pc = "done"
      BY <1>1, <2>10 DEF NextPc, Advances
    <3>2. QED
      BY <1>4, <3>1 DEF Gathering, b, now
  <2>11. QED
    BY <1>7, <2>4, <2>5, <2>6, <2>7, <2>8, <2>9, <2>10
<1>8. QED
  BY <1>2, <1>5, <1>6, <1>7 DEF Labels

(* A collective that completes only moves a bucket from what is queued to what is got. *)
LEMMA GatheringTransfer ==
  ASSUME NEW cf, NEW a, NEW q, NEW got, Gathering(cf, a, q, got),
         NEW q2 \in SUBSET q, NEW got2 \in SUBSET Handles(cf),
         got \subseteq got2, q \cup got \subseteq q2 \cup got2
  PROVE  Gathering(cf, a, q2, got2)
<1>1. ASSUME InForward(cf, a.handles, a.at, q, got) PROVE InForward(cf, a.handles, a.at, q2, got2)
  BY <1>1 DEF InForward, Window
<1>2. Synced(cf, a.handles, q, got) => Synced(cf, a.handles, q2, got2)
  BY DEF Synced
<1>3. Due(cf, a.handles, q, got) => Due(cf, a.handles, q2, got2)
  BY DEF Due
<1>4. q = {} => q2 = {}
  OBVIOUS
<1>5. Handles(cf) \subseteq got => Handles(cf) \subseteq got2
  OBVIOUS
<1>6. QED
  BY <1>1, <1>2, <1>3, <1>4, <1>5 DEF Gathering

(* The bucket of a module that a forward pass calls is up to date. *)
LEMMA ForwardReads ==
  ASSUME NEW cf \in Configurations, NEW a, LocalOK(cf, a), a.pc = "run", ItemOf(cf, a).kind = "F",
         a.at.k \in Calls(cf, a.at.item),
         HandleAt(cf, a.at.item, a.at.k) \in Handles(cf),
         GathersFollowForward(cf), NEW q, NEW got \in SUBSET Handles(cf),
         Gathering(cf, a, q, got),
         Waits(cf, a) /\ StepHandle(cf, a) \in a.handles => StepHandle(cf, a) \notin q
  PROVE  HandleAt(cf, a.at.item, a.at.k) \in got
<1> DEFINE h == HandleAt(cf, a.at.item, a.at.k)
           b == NextAt(cf, a)
<1>1. CASE ~(cf.overlap /\ a.us)
  BY <1>1 DEF Gathering, Synced
<1>2. CASE cf.overlap /\ a.us
  <2>1. a.hooked /\ InForward(cf, a.handles, a.at, q, got)
    BY <1>2 DEF Gathering
  <2>2. /\ NextPc(cf, a) \in {"run", "wgrad"} =>
             InForward(cf, NextHandles(cf, a), b, q \cup IssuedGathers(cf, a), got)
        /\ NextPc(cf, a) = "finish" =>
             Synced(cf, NextHandles(cf, a), q \cup IssuedGathers(cf, a), got)
    BY <1>2, <2>1, WindowStep
  <2>3. PICK i \in Nat \ {0}, k \in Nat \ {0} : i = a.at.item /\ k = a.at.k
    BY DEF LocalOK
  <2>4. Before(i, k, b.item, b.k)
    <3>1. b = IF k < Steps(cf, i) THEN [item |-> i, k |-> k + 1] ELSE [item |-> i + 1, k |-> 1]
      BY <2>3 DEF NextAt, Advances
    <3>2. QED
      BY <3>1 DEF Before
  <2>5. i \in DOMAIN cf.schedule
    <3>1. DOMAIN cf.schedule = 1 .. Len(cf.schedule)
      BY ConfFacts
    <3>2. QED
      BY <2>3, <3>1 DEF LocalOK, PositionOK
  <2>6. NextPc(cf, a) \in {"run", "finish"}
    BY DEF NextPc, Advances
  <2>7. CASE NextPc(cf, a) = "run"
    <3>1. PICK w \in 0 .. Len(ViewItems(cf)) : 1 .. w \subseteq got /\ Passed(cf, b, w)
      BY <2>2, <2>7 DEF InForward, Window
    <3>2. h <= w
      BY <2>3, <2>4, <2>5, <3>1 DEF Passed
    <3>3. h \in Nat \ {0}
      BY HandleFacts
    <3>4. QED
      BY <3>1, <3>2, <3>3
  <2>8. CASE NextPc(cf, a) = "finish"
    BY <2>2, <2>8 DEF Synced
  <2>9. QED
    BY <2>6, <2>7, <2>8
<1>3. QED
  BY <1>1, <1>2

-----------------------------------------------------------------------------
(* The steps of the ranks. *)

(* What a step waits for. *)
LEMMA RankStepGuards ==
  ASSUME TypeInv, NEW r \in Rank, RankStep(r)
  PROVE  LET a == Local(r)
         IN  /\ Waits(conf, a) /\ StepHandle(conf, a) \in a.handles =>
                  StepHandle(conf, a) \notin Gathers(conf, queue[r])
             /\ a.pc \in {"stepped", "evaluate", "trained"} =>
                  a.hooked \/ Gathers(conf, queue[r]) = {}
<1>1. ASSUME Waits(conf, Local(r))
      PROVE  CanFinish(r, StepHandle(conf, Local(r)))
  <2>1. pc[r] = "run" /\ Item(r) = ItemOf(conf, Local(r)) /\ at[r] = Local(r).at
    BY <1>1, LocalFacts DEF Waits, Item, ItemOf
  <2>2. CASE Item(r).kind = "sync"
    <3>1. ParamSync(r)
      BY <2>1, <2>2 DEF RankStep, ZeroGrad, ForwardModule, ReloadActivation, WeightGrad,
         FinishGradSync, Step, EndIteration, Evaluate, SaveOrGoOn, FinalSave
    <3>2. QED
      BY <2>1, <2>2, <3>1 DEF ParamSync, StepHandle
  <2>3. CASE Item(r).kind = "F" /\ hooked[r]
    <3>1. ForwardModule(r)
      BY <2>1, <2>3 DEF RankStep, ZeroGrad, ParamSync, ReloadActivation, WeightGrad,
         FinishGradSync, Step, EndIteration, Evaluate, SaveOrGoOn, FinalSave
    <3>2. StepHandle(conf, Local(r)) = HandleOf(conf, Item(r).chunk, Module(r))
      BY <2>1, <2>3 DEF StepHandle, Module
    <3>3. QED
      BY <2>3, <3>1, <3>2 DEF ForwardModule
  <2>4. QED
    BY <1>1, <2>1, <2>2, <2>3, LocalFacts DEF Waits
<1>2. ASSUME NEW h, h \in handles[r], CanFinish(r, h) PROVE h \notin Gathers(conf, queue[r])
  BY <1>2 DEF CanFinish, Issued, Gathers
<1>3. ASSUME pc[r] \in {"stepped", "evaluate", "trained"}
      PROVE  hooked[r] \/ Gathers(conf, queue[r]) = {}
  <2>1. SyncGathersDone(r)
    BY <1>3 DEF RankStep, ZeroGrad, ParamSync, ForwardModule, ReloadActivation, WeightGrad,
       FinishGradSync, Step, EndIteration, Evaluate, SaveOrGoOn, FinalSave
  <2>2. Gathers(conf, <<>>) = {}
    BY DEF Gathers
  <2>3. QED
    BY <2>1, <2>2 DEF SyncGathersDone
<1>4. QED
  BY <1>1, <1>2, <1>3, LocalFacts

(* A bucket that is up to date has only the version of the rank's own updates. *)
LEMMA VersionsRead ==
  ASSUME TypeInv, NEW r \in Rank, pc[r] # "step",
         NEW c \in Chunks(conf), NEW p \in Params(conf.buffers[c]),
         HandleOf(conf, c, p) \in Got(r)
  PROVE  Versions(r, c, p) \subseteq {updates[r]}
<1>1. OwnersIn[conf.buffers[c]][p] \subseteq Rank
  BY OwnersFacts DEF TypeInv
<1>2. \A s \in Rank : pbuf[r][HandleOf(conf, c, p), s] = updates[r]
  BY DEF Got, Target
<1>3. QED
  BY <1>1, <1>2 DEF Versions

(* If all are, an evaluation or a checkpoint reads only that version. *)
LEMMA AllVersionsRead ==
  ASSUME TypeInv, NEW r \in Rank, pc[r] # "step", Handles(conf) \subseteq Got(r)
  PROVE  AllVersions(r) \subseteq {updates[r]}
<1>1. ASSUME NEW c \in Chunks(conf), NEW p \in Params(conf.buffers[c])
      PROVE  Versions(r, c, p) \subseteq {updates[r]}
  <2>1. HandleOf(conf, c, p) \in Handles(conf)
    BY HandleFacts DEF TypeInv
  <2>2. QED
    BY <2>1, VersionsRead
<1>2. QED
  BY <1>1 DEF AllVersions

(* The forward pass of a module reads only up to date buckets. *)
LEMMA ForwardModuleReads ==
  ASSUME TypeInv, ReadsInv, GathersFollowForward(conf), NEW r \in Rank, ForwardModule(r)
  PROVE  Versions(r, Item(r).chunk, Module(r)) \subseteq {updates[r]}
<1> DEFINE a == Local(r)
<1>1. pc[r] = "run" /\ Item(r).kind = "F" /\ Item(r) = conf.schedule[at[r].item]
  BY DEF ForwardModule, Item
<1>2. /\ Item(r).chunk \in Chunks(conf) /\ Module(r) \in Params(conf.buffers[Item(r).chunk])
      /\ at[r].k \in 1 .. Len(conf.forward[Item(r).chunk])
  BY <1>1, PositionFacts
<1>3. HandleAt(conf, at[r].item, at[r].k) = HandleOf(conf, Item(r).chunk, Module(r))
  BY <1>1 DEF HandleAt, Module
<1>4. conf \in Configurations /\ LocalOK(conf, a)
  BY LocalTyped
<1>5. HandleOf(conf, Item(r).chunk, Module(r)) \in Handles(conf)
  BY <1>2, <1>4, HandleFacts
<1>6. at[r].k \in Calls(conf, at[r].item)
  <2>1. PICK c \in Chunks(conf) : c = Item(r).chunk
    BY <1>2
  <2>2. conf.forward[c] \in Seq(Params(conf.buffers[c]))
    BY <1>4, ConfFacts
  <2>3. at[r].k \in DOMAIN conf.forward[c]
    BY <1>2, <2>1, <2>2
  <2>4. QED
    BY <1>1, <2>1, <2>3 DEF Calls
<1>7. a.pc = "run" /\ a.at = at[r] /\ ItemOf(conf, a).kind = "F" /\ a.handles = handles[r]
  BY <1>1, LocalFacts DEF ItemOf
<1>8. Gathering(conf, a, Gathers(conf, queue[r]), Got(r)) /\ Got(r) \in SUBSET Handles(conf)
  BY DEF ReadsInv, Got
<1>9. Waits(conf, a) /\ StepHandle(conf, a) \in a.handles =>
        StepHandle(conf, a) \notin Gathers(conf, queue[r])
  <2>1. RankStep(r)
    BY DEF RankStep
  <2>2. QED
    BY <2>1, RankStepGuards
<1> HIDE DEF a
<1>10. HandleAt(conf, a.at.item, a.at.k) \in Got(r)
  BY <1>3, <1>4, <1>5, <1>6, <1>7, <1>8, <1>9, ForwardReads
<1>11. QED
  BY <1>1, <1>2, <1>3, <1>7, <1>10, VersionsRead

(* Whatever a rank reads in a step is up to date. *)
LEMMA SeenStep ==
  ASSUME TypeInv, ReadsInv, GathersFollowForward(conf), NEW r \in Rank, RankStep(r)
  PROVE  \E S \in SUBSET {IF pc[r] = "step" THEN updates[r] + 1 ELSE updates[r]} :
           seen' = [seen EXCEPT ![r] = S]
<1> DEFINE read(S) == pc[r] # "step" /\ S \subseteq {updates[r]} /\ seen' = [seen EXCEPT ![r] = S]
<1>1. seen \in [Rank -> SUBSET (0 .. Iterations)] /\ seen[r] \subseteq {updates[r]}
  BY DEF TypeInv, ReadsInv
<1>2. seen = [seen EXCEPT ![r] = seen[r]]
  BY <1>1
<1>3. Gathering(conf, Local(r), Gathers(conf, queue[r]), Got(r)) /\ conf \in Configurations
  BY DEF ReadsInv, TypeInv
<1>4. pc[r] \in {"evaluate", "trained"} => Gathers(conf, queue[r]) = {}
  <2>1. pc[r] \in {"evaluate", "trained"} => ~hooked[r]
    BY <1>3, LocalFacts DEF Gathering
  <2>2. QED
    BY <2>1, RankStepGuards, LocalFacts
<1>5. pc[r] \in {"evaluate", "trained"} => Handles(conf) \subseteq Got(r)
  BY <1>3, <1>4, LocalFacts DEF Gathering, Due
<1>6. CASE Step(r)
  BY <1>6 DEF Step
<1>7. CASE ForwardModule(r)
  <2> DEFINE S == seen[r] \cup Versions(r, Item(r).chunk, Module(r))
  <2>1. S \subseteq {updates[r]}
    BY <1>1, <1>7, ForwardModuleReads
  <2>2. pc[r] # "step" /\ seen' = [seen EXCEPT ![r] = S]
    BY <1>7 DEF ForwardModule
  <2>3. QED
    BY <2>1, <2>2
<1>8. ASSUME Evaluate(r) \/ FinalSave(r)
      PROVE  \E S : read(S)
  <2> DEFINE S == seen[r] \cup AllVersions(r)
  <2>1. pc[r] \in {"evaluate", "trained"} /\ seen' = [seen EXCEPT ![r] = S]
    BY <1>8 DEF Evaluate, FinalSave
  <2>2. AllVersions(r) \subseteq {updates[r]}
    BY <1>5, <2>1, AllVersionsRead
  <2>3. S \subseteq {updates[r]}
    BY <1>1, <2>2
  <2>4. read(S)
    BY <2>1, <2>3
  <2> HIDE DEF S, read
  <2>5. QED
    BY <2>4
<1>9. CASE SaveOrGoOn(r)
  <2>1. CASE iter[r] \in conf.saves
    <3> DEFINE S == seen[r] \cup AllVersions(r)
    <3>1. pc[r] = "save" /\ seen' = [seen EXCEPT ![r] = S]
      BY <1>9, <2>1 DEF SaveOrGoOn
    <3>2. ~(conf.overlap /\ iter[r] \notin conf.evals)
      BY <2>1 DEF GathersFollowForward
    <3>3. Handles(conf) \subseteq Got(r)
      BY <1>3, <3>1, <3>2, LocalFacts DEF Gathering
    <3>4. AllVersions(r) \subseteq {updates[r]}
      BY <3>1, <3>3, AllVersionsRead
    <3>5. S \subseteq {updates[r]}
      BY <1>1, <3>4
    <3>6. QED
      BY <3>1, <3>5
  <2>2. CASE iter[r] \notin conf.saves
    <3>1. pc[r] = "save" /\ seen' = seen
      BY <1>9, <2>2 DEF SaveOrGoOn
    <3>2. QED
      BY <1>1, <1>2, <3>1
  <2>3. QED
    BY <2>1, <2>2
<1>10. CASE ~(Step(r) \/ ForwardModule(r) \/ Evaluate(r) \/ FinalSave(r) \/ SaveOrGoOn(r))
  <2>1. pc[r] # "step" /\ seen' = seen
    BY <1>10 DEF RankStep, ZeroGrad, ParamSync, ReloadActivation, WeightGrad, FinishGradSync,
       EndIteration
  <2>2. QED
    BY <1>1, <1>2, <2>1
<1>11. QED
  BY <1>6, <1>7, <1>8, <1>9, <1>10

(* What a step of a rank does to the buckets that are up to date: the step of the optimizer *)
(* fulfils the target, all others leave it alone.                                           *)
LEMMA GotStep ==
  ASSUME TypeInv, NEW r \in Rank, RankStep(r), \A h \in Handles(conf) : pbuf[r][h, r] = updates[r]
  PROVE  /\ \A s \in Rank : Target(s)' = Target(s)
         /\ \A s \in Rank : s # r => Got(s)' = Got(s) /\ pbuf'[s] = pbuf[s] /\ updates'[s] = updates[s]
         /\ pc[r] # "step" => Got(r)' = Got(r)
         /\ updates'[r] = Target(r)
         /\ \A h \in Handles(conf) : pbuf'[r][h, r] = updates'[r]
<1>1. Effect(r) /\ DataEffect(r)
  BY RankStepEffect, RankStepData
<1>2. /\ pc \in [Rank -> Labels] /\ updates \in [Rank -> 0 .. Iterations]
      /\ pbuf \in [Rank -> [Handles(conf) \X Rank -> 0 .. Iterations]]
  BY DEF TypeInv
<1>3. pc' = [pc EXCEPT ![r] = NextPc(conf, Local(r))] /\ conf' = conf /\ pc[r] # "found_inf"
  BY <1>1 DEF Effect
<1>4. NextPc(conf, Local(r)) # "step"
  BY DEF NextPc
<1>5. pc'[r] # "step" /\ \A s \in Rank : s # r => pc'[s] = pc[s]
  BY <1>2, <1>3, <1>4
<1>6. CASE pc[r] = "step"
  <2>1. /\ updates' = [updates EXCEPT ![r] = updates[r] + 1]
        /\ pbuf' = [pbuf EXCEPT ![r] = [hs \in DOMAIN pbuf[r] |->
                      IF hs[2] = r THEN updates[r] + 1 ELSE pbuf[r][hs]]]
    BY <1>1, <1>6 DEF DataEffect
  <2>2. updates'[r] = updates[r] + 1 /\ \A s \in Rank : s # r => updates'[s] = updates[s]
    BY <1>2, <2>1
  <2>3. \A s \in Rank : s # r => pbuf'[s] = pbuf[s]
    BY <1>2, <2>1
  <2>4. ASSUME NEW h \in Handles(conf) PROVE pbuf'[r][h, r] = updates[r] + 1
    <3>1. <<h, r>> \in DOMAIN pbuf[r]
      BY <1>2
    <3>2. pbuf'[r] = [hs \in DOMAIN pbuf[r] |-> IF hs[2] = r THEN updates[r] + 1 ELSE pbuf[r][hs]]
      BY <1>2, <2>1
    <3>3. QED
      BY <3>1, <3>2
  <2>5. \A s \in Rank : Target(s)' = Target(s)
    BY <1>5, <1>6, <2>2 DEF Target
  <2>6. ASSUME NEW s \in Rank, s # r PROVE Got(s)' = Got(s)
    BY <1>3, <2>3, <2>5, <2>6 DEF Got
  <2>7. QED
    BY <1>6, <2>2, <2>3, <2>4, <2>5, <2>6 DEF Target
<1>7. CASE pc[r] # "step"
  <2>1. updates' = updates /\ pbuf' = pbuf
    BY <1>1, <1>7 DEF DataEffect
  <2>2. \A s \in Rank : Target(s)' = Target(s)
    BY <1>5, <1>7, <2>1 DEF Target
  <2>3. ASSUME NEW s \in Rank PROVE Got(s)' = Got(s)
    BY <1>3, <2>1, <2>2 DEF Got
  <2>4. QED
    BY <1>7, <2>1, <2>2, <2>3 DEF Target
<1>8. QED
  BY <1>6, <1>7

(* A step of a rank keeps the invariant. *)
LEMMA RankStepReads ==
  ASSUME TypeInv, ReadsInv, GathersFollowForward(conf), NEW r \in Rank, RankStep(r)
  PROVE  ReadsInv'
<1>1. Effect(r)
  BY RankStepEffect
<1>2. /\ conf' = conf
      /\ Local(r)' = NextLocal(conf, Local(r)) /\ queue'[r] = queue[r] \o Issues(conf, Local(r))
      /\ \A s \in Rank : s # r => Local(s)' = Local(s) /\ queue'[s] = queue[s]
  BY <1>1, LocalStep
<1>3. \A s \in Rank :
        /\ \A h \in Handles(conf) : pbuf[s][h, s] = updates[s]
        /\ seen[s] \subseteq {updates[s]}
        /\ Gathering(conf, Local(s), Gathers(conf, queue[s]), Got(s))
  BY DEF ReadsInv
<1>4. /\ \A s \in Rank : Target(s)' = Target(s)
      /\ \A s \in Rank : s # r => Got(s)' = Got(s) /\ pbuf'[s] = pbuf[s] /\ updates'[s] = updates[s]
      /\ pc[r] # "step" => Got(r)' = Got(r)
      /\ updates'[r] = Target(r)
      /\ \A h \in Handles(conf) : pbuf'[r][h, r] = updates'[r]
  BY <1>3, GotStep
<1>5. \A s1, s2 \in Rank : Target(s1)' = Target(s2)'
  <2>1. \A s1, s2 \in Rank : Target(s1) = Target(s2)
    BY DEF ReadsInv
  <2>2. QED
    BY <1>4, <2>1
<1>6. seen'[r] \subseteq {updates'[r]} /\ \A s \in Rank : s # r => seen'[s] = seen[s]
  <2>1. PICK S \in SUBSET {IF pc[r] = "step" THEN updates[r] + 1 ELSE updates[r]} :
          seen' = [seen EXCEPT ![r] = S]
    BY SeenStep
  <2>2. DOMAIN seen = Rank
    BY DEF TypeInv
  <2>3. updates'[r] = IF pc[r] = "step" THEN updates[r] + 1 ELSE updates[r]
    BY <1>4 DEF Target
  <2>4. QED
    BY <2>1, <2>2, <2>3
<1>7. Gathering(conf, NextLocal(conf, Local(r)), Gathers(conf, queue'[r]), Got(r)')
  <2>1. conf \in Configurations /\ LocalOK(conf, Local(r))
    BY LocalTyped
  <2>2. Local(r).pc \notin {"found_inf", "done"}
    BY <1>1, LocalFacts DEF Effect
  <2>3. queue[r] \in Seq(Ops(conf)) /\ Issues(conf, Local(r)) \in Seq(Ops(conf))
    BY <2>1, <2>2, NextTyped DEF TypeInv
  <2>4. Gathers(conf, queue'[r]) = Gathers(conf, queue[r]) \cup IssuedGathers(conf, Local(r))
    <3> DEFINE S == Ops(conf)
    <3> HIDE DEF S
    <3>1. queue[r] \in Seq(S) /\ Issues(conf, Local(r)) \in Seq(S)
      BY <2>3 DEF S
    <3>2. Gathers(conf, queue[r] \o Issues(conf, Local(r)))
            = Gathers(conf, queue[r]) \cup Gathers(conf, Issues(conf, Local(r)))
      BY <3>1, GathersConcat
    <3>3. QED
      BY <1>2, <2>1, <3>2, GathersIssued
  <2>5. Got(r) \in SUBSET Handles(conf) /\ Got(r)' \in SUBSET Handles(conf)
    BY <1>2 DEF Got
  <2>6. Local(r).pc # "step" => Got(r)' = Got(r)
    BY <1>4, LocalFacts
  <2>7. LET a == Local(r)
        IN  /\ Waits(conf, a) /\ StepHandle(conf, a) \in a.handles =>
                 StepHandle(conf, a) \notin Gathers(conf, queue[r])
            /\ a.pc \in {"stepped", "evaluate", "trained"} =>
                 a.hooked \/ Gathers(conf, queue[r]) = {}
    BY RankStepGuards
  <2>8. Gathering(conf, Local(r), Gathers(conf, queue[r]), Got(r))
    BY <1>3
  <2>9. Gathering(conf, NextLocal(conf, Local(r)),
                  Gathers(conf, queue[r]) \cup IssuedGathers(conf, Local(r)), Got(r)')
    BY <2>1, <2>2, <2>5, <2>6, <2>7, <2>8, GatheringStep
  <2>10. QED
    BY <2>4, <2>9
<1>8. ASSUME NEW s \in Rank
      PROVE  /\ \A h \in Handles(conf) : pbuf'[s][h, s] = updates'[s]
             /\ seen'[s] \subseteq {updates'[s]}
             /\ Gathering(conf, Local(s)', Gathers(conf, queue'[s]), Got(s)')
  <2>1. CASE s = r
    BY <1>2, <1>4, <1>6, <1>7, <2>1
  <2>2. CASE s # r
    BY <1>2, <1>3, <1>4, <1>6, <2>2
  <2>3. QED
    BY <2>1, <2>2
<1>9. QED
  BY <1>2, <1>5, <1>8 DEF ReadsInv

(* A collective that completes keeps it: while an all-gather is in the queue of every rank, *)
(* no rank is between the all-reduce of found_inf and its step, and each rank's own shards   *)
(* have the version that all ranks are to have.                                              *)
LEMMA TransferReads ==
  ASSUME TypeInv, ReadsInv, Transfer
  PROVE  ReadsInv'
<1>1. /\ conf \in Configurations /\ queue \in [Rank -> Seq(Ops(conf))] /\ 0 \in Rank
      /\ pbuf \in [Rank -> [Handles(conf) \X Rank -> 0 .. Iterations]]
  <2>1. 0 \in Rank
    BY SizesAssumption DEF Rank
  <2>2. QED
    BY <2>1 DEF TypeInv
<1>2. /\ conf' = conf /\ updates' = updates /\ seen' = seen /\ pc' = pc
      /\ \A r \in Rank : /\ queue[r] # <<>> /\ Head(queue[r]) = Head(queue[0])
                         /\ queue'[r] = Tail(queue[r])
  BY DEF Transfer
<1>3. \A r \in Rank : Local(r)' = Local(r) /\ Target(r)' = Target(r)
  BY DEF Transfer, Local, Target
<1>4. \A s \in Rank :
        /\ \A h \in Handles(conf) : pbuf[s][h, s] = updates[s]
        /\ seen[s] \subseteq {updates[s]}
        /\ Gathering(conf, Local(s), Gathers(conf, queue[s]), Got(s))
  BY DEF ReadsInv
<1>5. \A s1, s2 \in Rank : Target(s1) = Target(s2)
  BY DEF ReadsInv
<1>6. PICK op \in Ops(conf) : op = Head(queue[0])
  <2> DEFINE S == Ops(conf)
  <2> HIDE DEF S
  <2>1. queue[0] \in Seq(S) /\ queue[0] # <<>>
    BY <1>1, <1>2 DEF S
  <2>2. Head(queue[0]) \in S
    BY <2>1
  <2>3. QED
    BY <2>2 DEF S
<1>7. ASSUME NEW r \in Rank
      PROVE  /\ Gathers(conf, queue'[r]) \subseteq Gathers(conf, queue[r])
             /\ \A h \in Gathers(conf, queue[r]) : Gather(h) = op \/ h \in Gathers(conf, queue'[r])
             /\ \A h \in Handles(conf) : Gather(h) = op => h \in Gathers(conf, queue[r])
  <2> DEFINE S == Ops(conf)
  <2>1. PICK q \in Seq(S) : q = queue[r]
    BY <1>1
  <2> HIDE DEF S
  <2>2. q # <<>> /\ Head(q) = op /\ queue'[r] = Tail(q)
    BY <1>2, <1>6, <2>1
  <2>3. PICK n \in Nat : n = Len(q) /\ n # 0
    BY <2>2
  <2>4. /\ DOMAIN q = 1 .. n /\ DOMAIN Tail(q) = 1 .. n - 1 /\ q[1] = op
        /\ \A i \in 1 .. n - 1 : Tail(q)[i] = q[i + 1]
    BY <2>2, <2>3
  <2>5. \A i \in 1 .. n - 1 : i + 1 \in 1 .. n
    BY <2>3
  <2>6. Gathers(conf, Tail(q)) \subseteq Gathers(conf, q)
    BY <2>4, <2>5 DEF Gathers
  <2>7. ASSUME NEW h \in Gathers(conf, q), Gather(h) # op PROVE h \in Gathers(conf, Tail(q))
    <3>1. PICK i \in 1 .. n : q[i] = Gather(h)
      BY <2>4 DEF Gathers
    <3>2. i # 1
      BY <2>4, <2>7, <3>1
    <3>3. i - 1 \in 1 .. n - 1 /\ (i - 1) + 1 = i
      BY <3>2
    <3>4. Tail(q)[i - 1] = Gather(h)
      BY <2>4, <3>1, <3>3
    <3>5. QED
      BY <2>4, <3>3, <3>4 DEF Gathers
  <2>8. 1 \in 1 .. n
    BY <2>3
  <2>9. \A h \in Handles(conf) : Gather(h) = op => h \in Gathers(conf, q)
    BY <2>4, <2>8 DEF Gathers
  <2>10. QED
    BY <2>1, <2>2, <2>6, <2>7, <2>9
<1>8. ASSUME NEW r \in Rank
      PROVE  /\ Got(r) \subseteq Got(r)' /\ Got(r)' \in SUBSET Handles(conf)
             /\ \A h \in Handles(conf) : Gather(h) = op => h \in Got(r)'
             /\ \A h \in Handles(conf) : pbuf'[r][h, r] = updates[r]
  <2>0. Got(r)' \in SUBSET Handles(conf)
    BY <1>2 DEF Got
  <2>1. CASE \E g \in Handles(conf) : op = Gather(g)
    <3>1. PICK g \in Handles(conf) : op = Gather(g)
      BY <2>1
    <3>2. op[1] = "all-gather" /\ op[2] = g
      BY <3>1 DEF Gather
    <3>3. pbuf' = [s \in Rank |-> [hs \in DOMAIN pbuf[s] |->
                     IF hs[1] = g THEN pbuf[hs[2]][hs] ELSE pbuf[s][hs]]]
      BY <1>6, <3>2 DEF Transfer
    <3>4. ASSUME NEW h \in Handles(conf), NEW s \in Rank
          PROVE  pbuf'[r][h, s] = IF h = g THEN pbuf[s][h, s] ELSE pbuf[r][h, s]
      <4>1. <<h, s>> \in DOMAIN pbuf[r]
        BY <1>1
      <4>2. QED
        BY <3>3, <4>1
    <3>5. ASSUME NEW s \in Rank PROVE pc[s] # "step"
      <4>1. g \in Gathers(conf, queue[s])
        BY <1>7, <3>1
      <4>2. Gathering(conf, Local(s), Gathers(conf, queue[s]), Got(s)) /\ Local(s).pc = pc[s]
        BY <1>4, LocalFacts
      <4>3. QED
        BY <4>1, <4>2 DEF Gathering
    <3>6. \A s \in Rank : pbuf'[r][g, s] = Target(r)
      <4>1. \A s \in Rank : Target(s) = updates[s]
        BY <3>5 DEF Target
      <4>2. \A s \in Rank : pbuf[s][g, s] = updates[s]
        BY <1>4
      <4>3. QED
        BY <1>5, <3>4, <4>1, <4>2
    <3>7. g \in Got(r)'
      BY <1>2, <1>3, <3>6 DEF Got
    <3>8. ASSUME NEW h \in Got(r), h # g PROVE h \in Got(r)'
      <4>1. h \in Handles(conf) /\ \A s \in Rank : pbuf[r][h, s] = Target(r)
        BY DEF Got
      <4>2. \A s \in Rank : pbuf'[r][h, s] = Target(r)
        BY <3>4, <3>8, <4>1
      <4>3. QED
        BY <1>2, <1>3, <4>1, <4>2 DEF Got
    <3>9. \A h \in Handles(conf) : Gather(h) = op => h = g
      BY <3>1 DEF Gather
    <3>10. \A h \in Handles(conf) : pbuf'[r][h, r] = updates[r]
      BY <1>4, <3>4
    <3>11. QED
      BY <2>0, <3>7, <3>8, <3>9, <3>10
  <2>2. CASE ~\E g \in Handles(conf) : op = Gather(g)
    <3>1. op[1] # "all-gather"
      BY <1>6, <2>2 DEF Ops, Scatter
    <3>2. pbuf' = pbuf
      BY <1>6, <3>1 DEF Transfer
    <3>3. Got(r)' = Got(r)
      BY <1>2, <1>3, <3>2 DEF Got
    <3>4. QED
      BY <1>4, <2>0, <2>2, <3>2, <3>3
  <2>3. QED
    BY <2>1, <2>2
<1>9. ASSUME NEW r \in Rank
      PROVE  Gathering(conf, Local(r)', Gathers(conf, queue'[r]), Got(r)')
  <2>1. Gathers(conf, queue[r]) \subseteq Handles(conf)
    BY DEF Gathers
  <2>2. Gathers(conf, queue[r]) \cup Got(r) \subseteq Gathers(conf, queue'[r]) \cup Got(r)'
    BY <1>7, <1>8, <2>1
  <2>3. Gathering(conf, Local(r), Gathers(conf, queue'[r]), Got(r)')
    BY <1>4, <1>7, <1>8, <2>2, GatheringTransfer
  <2>4. QED
    BY <1>3, <2>3
<1>10. \A s1, s2 \in Rank : Target(s1)' = Target(s2)'
  BY <1>3, <1>5
<1>11. \A r \in Rank : seen'[r] \subseteq {updates'[r]}
  BY <1>2, <1>4
<1>12. \A r \in Rank : \A h \in Handles(conf) : pbuf'[r][h, r] = updates'[r]
  BY <1>2, <1>8
<1>13. QED
  BY <1>2, <1>9, <1>10, <1>11, <1>12 DEF ReadsInv

(* The all-reduce of found_inf keeps it: all ranks will update their shards, or none will. *)
LEMMA ReduceFoundInfReads ==
  ASSUME TypeInv, ReadsInv, ReduceFoundInf
  PROVE  ReadsInv'
<1>1. PICK label \in {"step", "skip"} : pc' = [s \in Rank |-> label]
  BY ReduceFoundInfEffect
<1>2. /\ \A s \in Rank : pc[s] = "found_inf"
      /\ UNCHANGED <<conf, at, iter, queue, handles, hooked, update_successful, updates, pbuf,
                     seen, ready>>
  BY ReduceFoundInfEffect
<1>3. \A s \in Rank :
        /\ \A h \in Handles(conf) : pbuf[s][h, s] = updates[s]
        /\ seen[s] \subseteq {updates[s]}
        /\ Gathering(conf, Local(s), Gathers(conf, queue[s]), Got(s))
  BY DEF ReadsInv
<1>4. \A s1, s2 \in Rank : updates[s1] = updates[s2]
  BY <1>2 DEF ReadsInv, Target
<1>5. \A s1, s2 \in Rank : Target(s1)' = Target(s2)'
  BY <1>1, <1>2, <1>4 DEF Target
<1>6. ASSUME NEW s \in Rank
      PROVE  Gathering(conf, Local(s)', Gathers(conf, queue[s]), Got(s)')
  <2>1. /\ Local(s)'.pc = label /\ Local(s)'.at = at[s] /\ Local(s)'.iter = iter[s]
        /\ Local(s)'.handles = handles[s] /\ Local(s)'.hooked = hooked[s]
        /\ Local(s)'.us = update_successful[s]
    BY <1>1, <1>2 DEF Local
  <2>2. /\ Synced(conf, handles[s], Gathers(conf, queue[s]), Got(s))
        /\ hooked[s] <=> conf.overlap
    BY <1>2, <1>3, LocalFacts DEF Gathering
  <2>3. CASE label = "skip"
    <3>1. Target(s)' = Target(s)
      BY <1>1, <1>2, <2>3 DEF Target
    <3>2. Got(s)' = Got(s)
      BY <1>2, <3>1 DEF Got
    <3>3. QED
      BY <2>1, <2>2, <2>3, <3>2 DEF Gathering
  <2>4. CASE label = "step"
    BY <2>1, <2>2, <2>4 DEF Gathering, Synced
  <2>5. QED
    BY <2>3, <2>4
<1>7. QED
  BY <1>2, <1>3, <1>5, <1>6 DEF ReadsInv

(* The invariant holds initially: all parameters are those the job starts from. *)
LEMMA InitReads == Init => ReadsInv
<1> SUFFICES ASSUME Init PROVE ReadsInv
  OBVIOUS
<1>1. \A r \in Rank : pc[r] = "zero_grad" /\ updates[r] = 0 /\ seen[r] = {} /\ queue[r] = <<>>
  BY DEF Init
<1>2. \A r \in Rank : Target(r) = 0
  BY <1>1 DEF Target
<1>3. \A r, s \in Rank : \A h \in Handles(conf) : pbuf[r][h, s] = 0
  BY DEF Init
<1>4. \A r \in Rank : Got(r) = Handles(conf)
  BY <1>2, <1>3 DEF Got
<1>5. conf \in Configurations
  BY DEF Init
<1>6. conf.overlap \in BOOLEAN
  BY <1>5, ConfFacts
<1>7. ASSUME NEW r \in Rank PROVE Gathering(conf, Local(r), Gathers(conf, queue[r]), Got(r))
  <2>1. Gathers(conf, queue[r]) = {}
    BY <1>1 DEF Gathers
  <2>2. Local(r).pc = "zero_grad" /\ Local(r).handles = {} /\ (Local(r).hooked <=> conf.overlap)
    BY <1>6, LocalFacts DEF Init
  <2>3. QED
    BY <1>4, <2>1, <2>2 DEF Gathering
<1>8. QED
  BY <1>1, <1>2, <1>3, <1>7 DEF ReadsInv

(* Nothing else happens to it. *)
LEMMA NextReads ==
  ASSUME TypeInv, ReadsInv, GathersFollowForward(conf), [Next]_vars
  PROVE  ReadsInv'
<1>1. CASE Transfer
  BY <1>1, TransferReads
<1>2. CASE ReduceFoundInf
  BY <1>2, ReduceFoundInfReads
<1>3. CASE \E r \in Rank : RankStep(r)
  BY <1>3, RankStepReads
<1>4. CASE AllDone \/ UNCHANGED vars
  <2>1. /\ conf' = conf /\ pc' = pc /\ at' = at /\ iter' = iter /\ queue' = queue
        /\ handles' = handles /\ hooked' = hooked /\ update_successful' = update_successful
        /\ updates' = updates /\ pbuf' = pbuf /\ seen' = seen /\ ready' = ready
    BY <1>4 DEF AllDone, vars
  <2>2. \A r \in Rank : Local(r)' = Local(r) /\ Target(r)' = Target(r)
    BY <2>1 DEF Local, Target
  <2>3. \A r \in Rank : Got(r)' = Got(r)
    BY <2>1, <2>2 DEF Got
  <2>4. QED
    BY <2>1, <2>2, <2>3 DEF ReadsInv
<1>5. QED
  BY <1>1, <1>2, <1>3, <1>4 DEF Next

(* Whatever a rank has read of the parameters since its last step, in forward passes, in an *)
(* evaluation or for a checkpoint, has all the updates of every owner: if the forward passes *)
(* follow the order of the handles, no gather is skipped, late or waited for at the wrong   *)
(* handle, with and without overlap_param_gather and after skipped steps.                   *)
THEOREM ReadsLatestParamsThm ==
  ASSUME \A c \in Configurations : GathersFollowForward(c)
  PROVE  Spec => []ReadsLatestParams
<1>1. Init => TypeInv /\ ReadsInv
  BY InitTypes, InitReads
<1>2. TypeInv /\ ReadsInv /\ [Next]_vars => (TypeInv /\ ReadsInv)'
  <2>1. TypeInv => GathersFollowForward(conf)
    BY DEF TypeInv
  <2>2. QED
    BY <2>1, NextTypes, NextReads
<1>3. TypeInv /\ ReadsInv => ReadsLatestParams
  BY DEF ReadsInv, ReadsLatestParams
<1>4. QED
  BY <1>1, <1>2, <1>3, PTL DEF Spec

-----------------------------------------------------------------------------
(* Compressed activations. *)

\* Every forward pass before a position has left its input in saved, unless the backward
\* pass has taken it.
Kept(cf, position, saved) ==
  \A j \in DOMAIN cf.schedule : \A l \in Calls(cf, j) :
    Before(j, l, position.item, position.k) =>
      \/ SavedAt(cf, j, l) \in DOMAIN saved
      \/ \E i \in DOMAIN cf.schedule : \E k \in BackwardCalls(cf, i) :
           Before(i, k, position.item, position.k) /\ ReadAt(cf, i, k) = SavedAt(cf, j, l)

\* The store st of a rank in state a: under each call its own activation.
StoreOK(cf, a, st) ==
  /\ DOMAIN st = {"saved", "gpu_storage"}
  /\ cf.legacy =>
       /\ \A x \in DOMAIN st.saved : st.saved[x] = x
       /\ a.pc \in {"run", "wgrad"} => Kept(cf, a.at, st.saved)
       /\ a.pc = "wgrad" => st.gpu_storage = ReadAt(cf, a.at.item, a.at.k)

StoreInv == DOMAIN store = Rank /\ \A r \in Rank : StoreOK(conf, Local(r), store[r])

\* What a step of a rank in state a makes of its store.
NextStore(cf, a, st) ==
  LET c == ItemOf(cf, a).chunk
      mb == ItemOf(cf, a).mb
  IN  IF ~cf.legacy THEN st
      ELSE IF a.pc = "run" /\ ItemOf(cf, a).kind = "F"
      THEN SaveInput(st, <<c, cf.forward[c][a.at.k]>>, mb)
      ELSE IF a.pc = "run" /\ ItemOf(cf, a).kind = "B"
      THEN Reload(st, <<c, Reverse(cf.forward[c])[a.at.k]>>, mb)
      ELSE IF a.pc = "wgrad"
      THEN Release(st, <<c, Reverse(cf.forward[c])[a.at.k]>>, mb)
      ELSE st

(* A step that advances comes behind the call it was at, and nothing else. *)
LEMMA BeforeNext ==
  ASSUME NEW cf \in Configurations, NEW a, LocalOK(cf, a), a.pc \in {"run", "wgrad"},
         Advances(cf, a),
         NEW j \in DOMAIN cf.schedule, NEW l \in Calls(cf, j) \cup BackwardCalls(cf, j)
  PROVE  Before(j, l, NextAt(cf, a).item, NextAt(cf, a).k)
           <=> Before(j, l, a.at.item, a.at.k) \/ (j = a.at.item /\ l = a.at.k)
<1>1. PositionOK(cf, a.pc, a.at)
  BY DEF LocalOK
<1>2. PICK i \in 1 .. Len(cf.schedule) : i = a.at.item
  BY <1>1 DEF PositionOK
<1>3. PICK k \in 1 .. Steps(cf, i) : k = a.at.k
  BY <1>1, <1>2 DEF PositionOK
<1>4. PICK m \in Nat \ {0} : m = Steps(cf, i)
  BY StepsFacts
<1>5. j \in 1 .. Len(cf.schedule) /\ Len(cf.schedule) \in Nat
  BY ConfFacts
<1>6. l \in Nat \ {0} /\ (j = i => l <= m)
  <2>1. cf.schedule[j].kind # "sync" /\ l \in DOMAIN cf.forward[cf.schedule[j].chunk]
    BY DEF Calls, BackwardCalls
  <2>2. PICK c \in Chunks(cf) : c = cf.schedule[j].chunk
    BY <1>5, ItemFacts
  <2>3. PICK f : f = cf.forward[c] /\ f \in Seq(Params(cf.buffers[c]))
    BY ConfFacts
  <2>4. l \in 1 .. Len(f) /\ Len(f) \in Nat
    BY <2>1, <2>2, <2>3
  <2>5. j = i => Len(f) = m
    BY <1>4, <2>1, <2>2, <2>3 DEF Steps
  <2>6. QED
    BY <2>4, <2>5
<1>7. NextAt(cf, a) = IF k < m THEN [item |-> i, k |-> k + 1] ELSE [item |-> i + 1, k |-> 1]
  BY <1>2, <1>3, <1>4 DEF NextAt
<1>8. CASE k < m
  BY <1>2, <1>3, <1>5, <1>6, <1>7, <1>8 DEF Before
<1>9. CASE ~(k < m)
  <2>1. k = m
    BY <1>3, <1>4, <1>9
  <2>2. NextAt(cf, a).item = i + 1 /\ NextAt(cf, a).k = 1
    BY <1>7, <1>9
  <2>3. (j < i + 1 \/ (j = i + 1 /\ l < 1)) <=> (j < i \/ (j = i /\ l < k) \/ (j = i /\ l = k))
    BY <1>5, <1>6, <2>1
  <2>4. QED
    BY <1>2, <1>3, <2>2, <2>3 DEF Before
<1>10. QED
  BY <1>8, <1>9

(* A step of a rank keeps its store. *)
LEMMA StoreStep ==
  ASSUME NEW cf \in Configurations, NEW a, LocalOK(cf, a), a.pc \notin {"found_inf", "done"},
         BackwardFollowsForward(cf), NEW st, StoreOK(cf, a, st)
  PROVE  StoreOK(cf, NextLocal(cf, a), NextStore(cf, a, st))
<1> DEFINE b == NextLocal(cf, a)
           i == a.at.item
           k == a.at.k
           next == NextStore(cf, a, st)
<1>1. b.pc = NextPc(cf, a) /\ b.at = NextAt(cf, a)
  BY NextLocalFacts
<1>2. DOMAIN st = {"saved", "gpu_storage"}
  BY DEF StoreOK
<1>3. CASE ~cf.legacy
  BY <1>2, <1>3 DEF NextStore, StoreOK
<1>4. CASE cf.legacy /\ a.pc \notin {"run", "wgrad"}
  <2>1. next = st
    BY <1>4 DEF NextStore
  <2>2. b.pc # "wgrad" /\ (b.pc = "run" => a.pc = "zero_grad")
    BY <1>1, <1>4 DEF NextPc, Advances
  <2>3. a.pc = "zero_grad" => Kept(cf, b.at, st.saved)
    <3>1. ASSUME NEW j \in DOMAIN cf.schedule, NEW l \in Calls(cf, j) PROVE ~Before(j, l, 1, 1)
      <4>a. DOMAIN cf.schedule = 1 .. Len(cf.schedule) /\ Len(cf.schedule) \in Nat
        BY ConfFacts
      <4>1. j \in 1 .. Len(cf.schedule)
        BY <4>a
      <4>2. l \in DOMAIN cf.forward[cf.schedule[j].chunk]
        BY DEF Calls
      <4>3. PICK c \in Chunks(cf) : c = cf.schedule[j].chunk
        BY <4>1, ItemFacts
      <4>4. cf.forward[c] \in Seq(Params(cf.buffers[c]))
        BY ConfFacts
      <4>5. l \in Nat \ {0}
        BY <4>2, <4>3, <4>4
      <4>6. QED
        BY <4>a, <4>1, <4>5 DEF Before
    <3>2. a.pc = "zero_grad" => b.at = [item |-> 1, k |-> 1]
      BY <1>1 DEF NextAt
    <3>3. QED
      BY <3>1, <3>2 DEF Kept
  <2>4. QED
    BY <1>4, <2>1, <2>2, <2>3 DEF StoreOK
<1>5. ASSUME cf.legacy, a.pc \in {"run", "wgrad"}
      PROVE  /\ i \in DOMAIN cf.schedule /\ ItemOf(cf, a) = cf.schedule[i]
             /\ (\A x \in DOMAIN st.saved : st.saved[x] = x) /\ Kept(cf, a.at, st.saved)
             /\ ItemOf(cf, a).kind # "sync" => k \in DOMAIN cf.forward[cf.schedule[i].chunk]
             /\ a.pc = "wgrad" => ItemOf(cf, a).kind = "B"
             /\ ItemOf(cf, a).kind \in {"F", "B", "sync"}
  <2>1. PositionOK(cf, a.pc, a.at)
    BY DEF LocalOK
  <2>2. i \in 1 .. Len(cf.schedule) /\ DOMAIN cf.schedule = 1 .. Len(cf.schedule)
    BY <1>5, <2>1, ConfFacts DEF PositionOK
  <2>3. PICK c \in Chunks(cf) : c = cf.schedule[i].chunk
    BY <2>2, ItemFacts
  <2>4. cf.forward[c] \in Seq(Params(cf.buffers[c]))
    BY ConfFacts
  <2>5. cf.schedule[i].kind # "sync" => k \in DOMAIN cf.forward[c]
    BY <1>5, <2>1, <2>3, <2>4 DEF PositionOK, Steps
  <2>6. cf.schedule[i].kind \in {"F", "B", "sync"}
    BY <2>2, ItemFacts
  <2>7. ItemOf(cf, a) = cf.schedule[i]
    BY DEF ItemOf
  <2>8. (\A x \in DOMAIN st.saved : st.saved[x] = x) /\ Kept(cf, a.at, st.saved)
    BY <1>5 DEF StoreOK
  <2>9. QED
    BY <1>5, <2>1, <2>2, <2>3, <2>5, <2>6, <2>7, <2>8 DEF PositionOK
<1>6. CASE cf.legacy /\ a.pc = "run" /\ ItemOf(cf, a).kind = "sync"
  <2>1. next = st
    BY <1>6 DEF NextStore
  <2>2. Advances(cf, a)
    BY <1>6 DEF Advances
  <2>3. Calls(cf, i) = {} /\ BackwardCalls(cf, i) = {}
    BY <1>5, <1>6 DEF Calls, BackwardCalls
  <2>4. \A j \in DOMAIN cf.schedule : \A l \in Calls(cf, j) \cup BackwardCalls(cf, j) :
          Before(j, l, b.at.item, b.at.k) <=> Before(j, l, i, k)
    BY <1>1, <1>6, <2>2, <2>3, BeforeNext
  <2> HIDE DEF b, next
  <2>5. Kept(cf, b.at, st.saved)
    BY <1>5, <1>6, <2>4 DEF Kept
  <2>6. b.pc # "wgrad"
    BY <1>1, <1>6 DEF NextPc
  <2>7. QED
    BY <1>2, <1>5, <1>6, <2>1, <2>5, <2>6 DEF StoreOK, b, next
<1>7. CASE cf.legacy /\ a.pc = "run" /\ ItemOf(cf, a).kind = "F"
  <2>1. /\ DOMAIN next = {"saved", "gpu_storage"}
        /\ next.saved = [x \in DOMAIN st.saved \cup {SavedAt(cf, i, k)} |->
                           IF x = SavedAt(cf, i, k) THEN SavedAt(cf, i, k) ELSE st.saved[x]]
    <3>1. next = SaveInput(st, <<cf.schedule[i].chunk, cf.forward[cf.schedule[i].chunk][k]>>,
                           cf.schedule[i].mb)
      BY <1>5, <1>7 DEF NextStore
    <3>2. next = [st EXCEPT !.saved =
                    [x \in DOMAIN st.saved \cup {SavedAt(cf, i, k)} |->
                       IF x = SavedAt(cf, i, k) THEN SavedAt(cf, i, k) ELSE st.saved[x]]]
      BY <3>1, Zenon DEF SaveInput, SavedAt, Call, Activation
    <3>3. QED
      BY <1>2, <3>2
  <2>2. /\ DOMAIN next.saved = DOMAIN st.saved \cup {SavedAt(cf, i, k)}
        /\ \A x \in DOMAIN next.saved : next.saved[x] = x
    <3> HIDE DEF next
    <3>1. \A x \in DOMAIN st.saved : st.saved[x] = x
      BY <1>5, <1>7
    <3>2. QED
      BY <2>1, <3>1
  <2>3. Advances(cf, a)
    BY <1>7 DEF Advances
  <2>4. \A j \in DOMAIN cf.schedule : \A l \in Calls(cf, j) \cup BackwardCalls(cf, j) :
          Before(j, l, b.at.item, b.at.k) <=> Before(j, l, i, k) \/ (j = i /\ l = k)
    BY <1>1, <1>7, <2>3, BeforeNext
  <2> HIDE DEF b, next
  <2>5. Kept(cf, b.at, next.saved)
    BY <1>5, <1>7, <2>2, <2>4 DEF Kept
  <2>6. b.pc # "wgrad"
    BY <1>1, <1>7 DEF NextPc
  <2>7. QED
    BY <2>1, <2>2, <2>5, <2>6 DEF StoreOK, b, next
<1>8. CASE cf.legacy /\ a.pc = "run" /\ ItemOf(cf, a).kind = "B"
  <2>1. next = [st EXCEPT !.gpu_storage = st.saved[ReadAt(cf, i, k)]]
    BY <1>5, <1>8 DEF NextStore, Reload, ReadAt, Call, Activation
  <2>2. /\ DOMAIN next = {"saved", "gpu_storage"} /\ next.saved = st.saved
        /\ next.gpu_storage = st.saved[ReadAt(cf, i, k)]
    BY <1>2, <2>1
  <2>3. k \in BackwardCalls(cf, i)
    BY <1>5, <1>8 DEF BackwardCalls
  <2>4. PICK j \in DOMAIN cf.schedule : \E l \in Calls(cf, j) :
          Before(j, l, i, k) /\ SavedAt(cf, j, l) = ReadAt(cf, i, k)
    BY <1>5, <1>8, <2>3 DEF BackwardFollowsForward
  <2>5. \A j2 \in DOMAIN cf.schedule : \A l2 \in BackwardCalls(cf, j2) :
          Before(j2, l2, i, k) => ReadAt(cf, j2, l2) # ReadAt(cf, i, k)
    BY <1>5, <1>8, <2>3 DEF BackwardFollowsForward
  <2>6. ReadAt(cf, i, k) \in DOMAIN st.saved
    BY <1>5, <1>8, <2>4, <2>5 DEF Kept
  <2>7. next.gpu_storage = ReadAt(cf, i, k)
    BY <1>5, <1>8, <2>2, <2>6
  <2>8. b.at = a.at
    BY <1>1, <1>8 DEF NextAt, Advances
  <2> HIDE DEF b, next
  <2>9. QED
    BY <1>5, <1>8, <2>2, <2>7, <2>8 DEF StoreOK, b, next
<1>9. CASE cf.legacy /\ a.pc = "wgrad"
  <2>1. next = [st EXCEPT !.saved = [x \in DOMAIN st.saved \ {ReadAt(cf, i, k)} |-> st.saved[x]]]
    BY <1>2, <1>5, <1>9 DEF NextStore, Release, ReadAt, Call, Activation
  <2>2. /\ DOMAIN next = {"saved", "gpu_storage"}
        /\ next.saved = [x \in DOMAIN st.saved \ {ReadAt(cf, i, k)} |-> st.saved[x]]
    BY <1>2, <2>1
  <2>3. /\ DOMAIN next.saved = DOMAIN st.saved \ {ReadAt(cf, i, k)}
        /\ \A x \in DOMAIN next.saved : next.saved[x] = x
    BY <1>5, <1>9, <2>2
  <2>4. k \in BackwardCalls(cf, i) /\ Calls(cf, i) = {}
    BY <1>5, <1>9 DEF BackwardCalls, Calls
  <2>5. Advances(cf, a)
    BY <1>9 DEF Advances
  <2>6. \A j \in DOMAIN cf.schedule : \A l \in Calls(cf, j) \cup BackwardCalls(cf, j) :
          Before(j, l, b.at.item, b.at.k) <=> Before(j, l, i, k) \/ (j = i /\ l = k)
    BY <1>1, <1>9, <2>5, BeforeNext
  <2>7. b.pc # "wgrad"
    BY <1>1, <1>9 DEF NextPc, Advances
  <2> HIDE DEF b, next
  <2>8. ASSUME NEW j \in DOMAIN cf.schedule, NEW l \in Calls(cf, j),
               Before(j, l, b.at.item, b.at.k)
        PROVE  \/ SavedAt(cf, j, l) \in DOMAIN next.saved
               \/ \E x \in DOMAIN cf.schedule : \E y \in BackwardCalls(cf, x) :
                    Before(x, y, b.at.item, b.at.k) /\ ReadAt(cf, x, y) = SavedAt(cf, j, l)
    <3>1. Before(j, l, i, k)
      BY <2>4, <2>6, <2>8
    <3>2. \/ SavedAt(cf, j, l) \in DOMAIN st.saved
          \/ \E x \in DOMAIN cf.schedule : \E y \in BackwardCalls(cf, x) :
               Before(x, y, i, k) /\ ReadAt(cf, x, y) = SavedAt(cf, j, l)
      BY <1>5, <1>9, <3>1 DEF Kept
    <3>3. CASE SavedAt(cf, j, l) = ReadAt(cf, i, k)
      BY <1>5, <1>9, <2>4, <2>6, <3>3
    <3>4. CASE SavedAt(cf, j, l) # ReadAt(cf, i, k)
      BY <2>3, <2>6, <3>2, <3>4
    <3>5. QED
      BY <3>3, <3>4
  <2>9. Kept(cf, b.at, next.saved)
    BY <2>8 DEF Kept
  <2>10. QED
    BY <2>2, <2>3, <2>7, <2>9 DEF StoreOK, b, next
<1>10. QED
  BY <1>3, <1>4, <1>5, <1>6, <1>7, <1>8, <1>9

(* That is what a step of a rank does to its store. *)
LEMMA StoreEffect ==
  ASSUME TypeInv, NEW r \in Rank, RankStep(r)
  PROVE  /\ store'[r] = NextStore(conf, Local(r), store[r])
         /\ \A s \in Rank : s # r => store'[s] = store[s]
<1> DEFINE a == Local(r)
           c == ItemOf(conf, a).chunk
           mb == ItemOf(conf, a).mb
<1>1. DOMAIN store = Rank
  BY DEF TypeInv
<1>2. a.pc = pc[r] /\ a.at = at[r] /\ ItemOf(conf, a) = Item(r)
  BY LocalFacts DEF ItemOf, Item
<1>3. Module(r) = conf.forward[c][a.at.k] /\ BackwardModule(r) = Reverse(conf.forward[c])[a.at.k]
  BY <1>2 DEF Module, BackwardModule
<1> HIDE DEF a, c, mb
<1>4. NextStore(conf, a, store[r]) =
        IF ~conf.legacy THEN store[r]
        ELSE IF a.pc = "run" /\ ItemOf(conf, a).kind = "F"
        THEN SaveInput(store[r], <<c, conf.forward[c][a.at.k]>>, mb)
        ELSE IF a.pc = "run" /\ ItemOf(conf, a).kind = "B"
        THEN Reload(store[r], <<c, Reverse(conf.forward[c])[a.at.k]>>, mb)
        ELSE IF a.pc = "wgrad"
        THEN Release(store[r], <<c, Reverse(conf.forward[c])[a.at.k]>>, mb)
        ELSE store[r]
  BY Zenon DEF NextStore, c, mb
<1>5. CASE ForwardModule(r)
  <2>1. pc[r] = "run" /\ Item(r).kind = "F"
    BY <1>5 DEF ForwardModule
  <2>2. store' = IF conf.legacy
                 THEN [store EXCEPT ![r] = SaveInput(store[r], <<c, conf.forward[c][a.at.k]>>, mb)]
                 ELSE store
    BY <1>2, <1>3, <1>5 DEF ForwardModule, c, mb
  <2>3. NextStore(conf, a, store[r]) =
          IF conf.legacy THEN SaveInput(store[r], <<c, conf.forward[c][a.at.k]>>, mb) ELSE store[r]
    BY <1>2, <1>4, <2>1
  <2>4. QED
    BY <1>1, <2>2, <2>3 DEF a
<1>6. CASE ReloadActivation(r)
  <2>1. pc[r] = "run" /\ Item(r).kind = "B"
    BY <1>6 DEF ReloadActivation
  <2>2. store' = IF conf.legacy
                 THEN [store EXCEPT ![r] =
                         Reload(store[r], <<c, Reverse(conf.forward[c])[a.at.k]>>, mb)]
                 ELSE store
    BY <1>2, <1>3, <1>6 DEF ReloadActivation, c, mb
  <2>3. NextStore(conf, a, store[r]) =
          IF conf.legacy THEN Reload(store[r], <<c, Reverse(conf.forward[c])[a.at.k]>>, mb)
          ELSE store[r]
    BY <1>2, <1>4, <2>1
  <2>4. QED
    BY <1>1, <2>2, <2>3 DEF a
<1>7. CASE WeightGrad(r)
  <2>1. pc[r] = "wgrad"
    BY <1>7 DEF WeightGrad
  <2>2. store' = IF conf.legacy
                 THEN [store EXCEPT ![r] =
                         Release(store[r], <<c, Reverse(conf.forward[c])[a.at.k]>>, mb)]
                 ELSE store
    BY <1>2, <1>3, <1>7 DEF WeightGrad, c, mb
  <2>3. NextStore(conf, a, store[r]) =
          IF conf.legacy THEN Release(store[r], <<c, Reverse(conf.forward[c])[a.at.k]>>, mb)
          ELSE store[r]
    BY <1>2, <1>4, <2>1
  <2>4. QED
    BY <1>1, <2>2, <2>3 DEF a
<1>8. CASE ParamSync(r)
  <2>1. pc[r] = "run" /\ Item(r).kind = "sync" /\ store' = store
    BY <1>8 DEF ParamSync
  <2>2. QED
    BY <1>2, <1>4, <2>1 DEF a
<1>9. CASE ~(ForwardModule(r) \/ ReloadActivation(r) \/ WeightGrad(r) \/ ParamSync(r))
  <2>1. pc[r] \notin {"run", "wgrad"} /\ store' = store
    BY <1>9 DEF RankStep, ZeroGrad, FinishGradSync, Step, EndIteration, Evaluate, SaveOrGoOn,
       FinalSave
  <2>2. QED
    BY <1>2, <1>4, <2>1 DEF a
<1>10. QED
  BY <1>5, <1>6, <1>7, <1>8, <1>9

(* Every step keeps the stores. *)
LEMMA NextStores ==
  ASSUME TypeInv, StoreInv, BackwardFollowsForward(conf), [Next]_vars
  PROVE  StoreInv'
<1>1. \A r \in Rank : StoreOK(conf, Local(r), store[r])
  BY DEF StoreInv
<1>2. DOMAIN store' = Rank
  BY NextTypes DEF TypeInv
<1>3. CASE \E r \in Rank : RankStep(r)
  <2>1. PICK r \in Rank : RankStep(r)
    BY <1>3
  <2>2. Effect(r)
    BY <2>1, RankStepEffect
  <2>3. /\ conf' = conf /\ Local(r)' = NextLocal(conf, Local(r))
        /\ \A s \in Rank : s # r => Local(s)' = Local(s)
    BY <2>2, LocalStep
  <2>4. /\ store'[r] = NextStore(conf, Local(r), store[r])
        /\ \A s \in Rank : s # r => store'[s] = store[s]
    BY <2>1, StoreEffect
  <2>5. conf \in Configurations /\ LocalOK(conf, Local(r))
    BY LocalTyped
  <2>6. Local(r).pc \notin {"found_inf", "done"}
    BY <2>2, LocalFacts DEF Effect
  <2>7. StoreOK(conf, NextLocal(conf, Local(r)), NextStore(conf, Local(r), store[r]))
    BY <1>1, <2>5, <2>6, StoreStep
  <2>8. \A s \in Rank : StoreOK(conf', Local(s)', store'[s])
    <3> TAKE s \in Rank
    <3>1. CASE s = r
      BY <2>3, <2>4, <2>7, <3>1
    <3>2. CASE s # r
      BY <1>1, <2>3, <2>4, <3>2
    <3>3. QED
      BY <3>1, <3>2
  <2>9. QED
    BY <1>2, <2>8 DEF StoreInv
<1>4. CASE ReduceFoundInf
  <2>1. PICK label \in {"step", "skip"} : pc' = [s \in Rank |-> label]
    BY <1>4, ReduceFoundInfEffect
  <2>2. conf' = conf /\ store' = store
    BY <1>4, ReduceFoundInfEffect
  <2>3. ASSUME NEW s \in Rank PROVE StoreOK(conf, Local(s)', store[s])
    <3>1. Local(s)'.pc = label
      BY <2>1 DEF Local
    <3>2. QED
      BY <1>1, <3>1 DEF StoreOK
  <2>4. QED
    BY <1>2, <2>2, <2>3 DEF StoreInv
<1>5. CASE Transfer \/ AllDone \/ UNCHANGED vars
  <2>1. /\ conf' = conf /\ pc' = pc /\ at' = at /\ iter' = iter /\ handles' = handles
        /\ hooked' = hooked /\ update_successful' = update_successful /\ ready' = ready
        /\ store' = store
    BY <1>5 DEF Transfer, AllDone, vars
  <2>2. \A s \in Rank : Local(s)' = Local(s)
    BY <2>1 DEF Local
  <2>3. QED
    BY <1>1, <1>2, <2>1, <2>2 DEF StoreInv
<1>6. QED
  BY <1>3, <1>4, <1>5 DEF Next

(* When a layer computes its weight gradient, the one buffer that all layers and all         *)
(* microbatches in flight share holds the layer's own input of that microbatch: with any      *)
(* schedule in which the backward pass of a layer follows the forward pass of its microbatch, *)
(* once.                                                                                      *)
THEOREM WgradReadsOwnActivationThm ==
  ASSUME \A c \in Configurations : BackwardFollowsForward(c)
  PROVE  Spec => []WgradReadsOwnActivation
<1>1. Init => TypeInv /\ StoreInv
  <2> SUFFICES ASSUME Init PROVE StoreInv
    BY InitTypes
  <2>1. \A r \in Rank : store[r] = EmptyStore /\ pc[r] = "zero_grad"
    BY DEF Init
  <2>2. DOMAIN EmptyStore = {"saved", "gpu_storage"} /\ DOMAIN EmptyStore.saved = {}
    BY DEF EmptyStore
  <2>3. DOMAIN store = Rank
    BY DEF Init
  <2>4. QED
    BY <2>1, <2>2, <2>3, LocalFacts DEF StoreInv, StoreOK
<1>2. TypeInv /\ StoreInv /\ [Next]_vars => (TypeInv /\ StoreInv)'
  <2>1. TypeInv => BackwardFollowsForward(conf)
    BY DEF TypeInv
  <2>2. QED
    BY <2>1, NextTypes, NextStores
<1>3. TypeInv /\ StoreInv => WgradReadsOwnActivation
  <2> SUFFICES ASSUME TypeInv, StoreInv, NEW r \in Rank, conf.legacy, pc[r] = "wgrad"
               PROVE  store[r].gpu_storage
                        = Activation(<<Item(r).chunk, BackwardModule(r)>>, Item(r).mb)
    BY DEF WgradReadsOwnActivation
  <2>1. store[r].gpu_storage = ReadAt(conf, at[r].item, at[r].k)
    BY LocalFacts DEF StoreInv, StoreOK
  <2>2. QED
    BY <2>1 DEF ReadAt, BackwardModule, Item
<1>4. QED
  BY <1>1, <1>2, <1>3, PTL DEF Spec

=============================================================================
